SPECIFICATION Spec
CONSTANTS
    CodeForces = CodeForces
    Platforms = {CodeForces, LuoGu}
    All = All
    None = None
    Callers = {c1}
    Workers = {w1}
    MaxJobs = 2
    TTL = 0
    Prefetch = 2
    MaxFaults = 0
SYMMETRY Symmetry
CHECK_DEADLOCK FALSE
INVARIANT FullExcludesSingle
