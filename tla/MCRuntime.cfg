SPECIFICATION MCSpec
CONSTANTS
    NoTime = NoTime
    Addresses = {a1, a2}
    Callers = {p1, p2}
    Cost = 2
    Burst = 2
    MaxBuckets = 1
    PruneEvery = 2
    PruneAge = 5
    MaxTime = 6
    MaxReplaces = 1
    NoSnapshot = NoSnapshot
    MaxMinute = 2
    PerHour = 1
    MaxQueries = 2
    MaxStatsRestarts = 1
    MaxFlushFailures = 1
    TopDomains = {d1, d2, d3, d4}
    MaxTracked = 3
    PruneTo = 1
    MaxAdds = 8
    NoFile = NoFile
    MaxInodes = 3
    MaxEntries = 2
    Appliers = {q1, q2}
    MaxBytes = 1
    Gzip = TRUE
    MaxLogFailures = 1
    MaxLogRestarts = 1
    Subs = {s1, s2}
    MaxPublish = 4
    RingSize = 2
    BufSize = 2
CHECK_DEADLOCK FALSE
INVARIANTS
    LimiterSound
    StatsSound
    NoEntryLost
    RefusesOnlyBroken
    Delivered
PROPERTY
    TopKept
