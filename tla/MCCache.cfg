SPECIFICATION Spec
CONSTANTS
    Keys = {k1, k2, k3}
    Msgs <- MCMsgs
    OptionSets <- MCOptionSets
    Defaults <- MCDefaults
    None = None
    TicksPerSecond = 2
    MaxNow = 4
SYMMETRY MCSymmetry
INVARIANT
    Consistent
PROPERTIES
    EvictsLeastRecent
    ImplementsPromise
