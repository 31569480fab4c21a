SPECIFICATION MCSpec
CONSTANTS
    NoSession = NoSession
    NoUser = NoUser
    Handlers = {h1, h2}
    Users = {u1, u2, u3}
    TTL = 1
    MaxTokens = 1
    MaxDate = 3
    MaxStarts = 1
    MaxStoreFaults = 1
    NoCall = NoCall
    Domains = {d1, d2}
    Editors = {e1, e2}
    MaxEdits = 4
    MaxListFaults = 1
    MaxListRestarts = 1
    NoWindow = NoWindow
    Hosts = {n1, n2}
    Requests = {r1, r2}
    Limit = 2
    Window = 1
    MaxClock = 4
    MaxAsks = 7
SYMMETRY Alike
CHECK_DEADLOCK FALSE
INVARIANTS
    LogoutHolds
    KeptAlive
    ListsAgree
    AttemptsBounded

    
