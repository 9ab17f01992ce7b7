SPECIFICATION MCSpec
CONSTANTS
    j1 = j1
    j2 = j2
    j3 = j3
    j4 = j4
    v1 = v1
    v2 = v2
    serper = serper
    brave = brave
    None = None
    Jobs <- MCJobs
    Versions <- MCVersions
    VersionOf <- MCVersionOf
    Workers = {w1, w2}
    Users = {an}
    MaxDeletes = 1
    MaxFaults = 1
    MaxCrashes = 1
    Searchers = {s1, s2}
    Chain <- MCChain
    Asked <- MCAsked
    Routing <- MCRouting
    Sources = {1, 2}
    AllowedHosts = {1}
    MaxPages = 2
    CooldownTime = 2
    TtlTime = 2
    MaxEntries = 1
    failure_threshold = 2
    reset_timeout = 1
    LastTick = 2
    MaxSearches = 3
SYMMETRY MCSymmetry
CHECK_DEADLOCK FALSE
INVARIANTS UploadsRunOnce StoresAgree OpenIffFailing SearchIsSound
