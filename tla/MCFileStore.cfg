SPECIFICATION FairSpec
CONSTANTS
    k1 = k1
    k2 = k2
    x1 = x1
    x2 = x2
    None = None
    Keys = {k1, k2}
    Vals = {v1}
    Prefixes = {x1, x2}
    Prefix <- MCPrefix
    Procs = {p1, p2}
    MaxCrashes = 1
INVARIANT
    Consistent
PROPERTIES
    KeepsPromise
    CallsReturn
