SPECIFICATION Spec
CONSTANTS
    Edits = {e1, dup}
    Refused = {dup}
    Actors = {a1, a2}
    MaxCalls = 4
    MaxCrashes = 1
SYMMETRY Alike
CHECK_DEADLOCK FALSE
INVARIANTS
    Consistent
    SuccessHeals
    AckedDurable
