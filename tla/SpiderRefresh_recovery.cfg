SPECIFICATION FairSpec
CONSTANTS
    CodeForces = CodeForces
    Platforms = {LuoGu}
    All = All
    None = None
    Callers = {c1}
    Workers = {w1, w2}
    MaxJobs = 2
    TTL = 0
    Prefetch = 2
    MaxFaults = 1
CHECK_DEADLOCK FALSE
INVARIANT NoSilentOrphan
PROPERTY JobsSettle
