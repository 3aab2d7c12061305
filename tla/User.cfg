SPECIFICATION MCSpec
CONSTANTS
    MsgUsers = {1, 2, 3}
    MsgProcs = {p1, p2}
    NoMsg = NoMsg
    MaxMsgRequests = 3
    MaxMessages = 4
    TeamUsers = {1, 2}
    TeamProcs = {p1, p2}
    NoTeam = NoTeam
    MaxGroups = 2
    MaxInvites = 2
    MaxTeamRequests = 5
    a1 = a1
    a2 = a2
    s1 = s1
    s2 = s2
    s3 = s3
    NoSync = NoSync
    CodeForces = CodeForces
    Accounts = {a1, a2}
    Submissions = {s1, s2, s3}
    AccountOf <- MCAccountOf
    SyncUsers = {u1}
    Platform = CodeForces
    Workers = {p1, p2}
    Binders = {b1}
    Retries = 2
    MaxFaults = 0
    MaxRestarts = 0
    AccNames = {"n1", "n2", "n3"}
    Passwords = {"p1", "p2"}
    Codes = {"c1", "c2"}
    DefaultCode = "c1"
    Founders <- FoundersDef
    MaxAccounts = 4
    Handlers = {"h1", "h2"}
    MaxAccRequests = 3
SYMMETRY Symmetry
INVARIANTS
    ThreadsAreTrue MailIsWhole
    OnePendingInvite CaptainIsMember
    Provenance ResidueExplained
    AccountsAreTrue 
PROPERTIES NoDirectSwitch FullLoadKeepsCount AdminsStay
CHECK_DEADLOCK FALSE
