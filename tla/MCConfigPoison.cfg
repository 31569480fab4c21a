SPECIFICATION APISpec
CONSTANTS
    Edits = {e1, dup}
    Refused = {dup}
    Actors = {a1}
    MaxCalls = 3
    MaxCrashes = 0
INVARIANT Restartable
