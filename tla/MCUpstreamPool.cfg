SPECIFICATION FairSpec
CONSTANTS
    a = a
    b = b
    None = None
    Ids <- MCIds
    Callers = {c1}
    Configs <- MCConfigs
    Flaky = {a}
    maxRetries = 1
    DefaultThreshold = 1
    DefaultInterval = 60
    MaxErrors = 2
    MaxGen = 1
INVARIANT
    Consistent
PROPERTIES
    ExhaustsCandidates
    Recovers
    CallsEnd
