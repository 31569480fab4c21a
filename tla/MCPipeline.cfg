SPECIFICATION MCSpec
CONSTANTS
    c1 = c1
    kids = kids
    n1 = n1
    None = None
    Slots = {s1, s2}
    Admins = {a1}
    Clients = {c1, c2}
    Names = {n1, localhost}
    Local = {localhost}
    Groups = {kids, default}
    Default = default
    Configs <- MCConfigs
    MaxVersion = 2
    MaxRequests = 1
    MaxFaults = 1
SYMMETRY Handlers
INVARIANTS
    Consistent
    AssignmentKept
    FlushHolds
PROPERTY
    FailuresNotShared
