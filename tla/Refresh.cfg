SPECIFICATION RefreshSpec
CONSTANTS
    CodeForces = CodeForces
    Platforms = {CodeForces, LuoGu}
    All = All
    None = None
    Callers = {c1, c2}
    Workers = {w1}
    MaxJobs = 2
    TTL = 0
    Prefetch = 2
    MaxFaults = 0
    Desks = {1, 2}
    Handles = {"h1", "h2"}
    FirstHandle = "h1"
    Cooldown = 2
    BindPause = 1
    MaxDeskClock = 2
    MaxCallers = 3
    MaxDeskJobs = 2
    MaxOutages = 1
SYMMETRY Symmetry
CHECK_DEADLOCK FALSE
INVARIANT SamePlatformExclusion
INVARIANT FullRefreshBlocksItsPlatforms
INVARIANT ProgressConsistent
 
 
