CONSTANTS
    Handlers = {t1, t2}
    Ips = {i1, i2}
    None = None
    Mishaps = {"write", "rejected", "timeout", "silent", "exit", "script"}
    MaxMishaps = 1
    Renders = {r1, r2, r3}
    Kept = Kept
    Absent = Absent
    Blank = Blank
    Nobody = Nobody
    MaxSecretFaults = 1
    NoRun = NoRun
    Runs = {r1, r2, r3}
    Plain = Plain
    Threads = {t1, t2}
    Requests <- MCRequests
    Covers <- MCCovers
    Optionless = {"s9"}
    Default = {"page"}
    NoTemplate = ""
    MaxRequests = 3
    Fullchains <- MCFullchains
    Issuers = {"intermediate"}
    Sources = {i1, i2}
    Counters <- MCCounters
    Queries <- MCQueries
    Garbled = Garbled
SPECIFICATION ManagerSpec
SYMMETRY Alike
INVARIANTS ManagerTypeOK Agree OneSecret WildcardPublished PublishedPairs StatsAreTheTable
PROPERTIES RepliesHonest OnlyExpiredCleared ProceedAnswersDns HostsReachTheirServers
    ImplementsRegister
CHECK_DEADLOCK FALSE
