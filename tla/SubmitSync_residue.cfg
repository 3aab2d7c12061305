SPECIFICATION PersistentSpec
CONSTANTS
    a1 = a1
    a2 = a2
    s1 = s1
    s2 = s2
    s3 = s3
    NoSync = NoSync
    CodeForces = CodeForces
    Accounts = {a1, a2}
    Submissions = {s1, s2, s3}
    AccountOf <- MCAccountOf
    SyncUsers = {u1}
    Platform = LuoGu
    Workers = {w1}
    Binders = {b1}
    Retries = 2
    MaxFaults = 0
    MaxRestarts = 0
PROPERTY ResidueCleared
