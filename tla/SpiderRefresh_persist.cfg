SPECIFICATION PersistentSpec
CONSTANTS
    CodeForces = CodeForces
    Platforms = {CodeForces}
    All = All
    None = None
    Callers = {c1}
    Workers = {w1}
    MaxJobs = 2
    TTL = 0
    Prefetch = 2
    MaxFaults = 1
CHECK_DEADLOCK FALSE
PROPERTY RefusalIsTemporary
