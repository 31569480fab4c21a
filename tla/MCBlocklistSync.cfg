SPECIFICATION FairSpec
CONSTANTS
    l1 = l1
    u1 = u1
    u3 = u3
    f1 = f1
    None = None
    Lists = {l1}
    Urls = {u1, u3}
    Files = {f1}
    Source <- MCSource
    SafeID <- MCSafeID
    Kind <- MCKinds
    Forcers = {op1}
    Periodic = periodic
    MaxVersion = 2
    MaxRequests = 1
    MaxCrashes = 1
INVARIANT
    Consistent
PROPERTIES
    NeverZeroed
    Refreshed
