\* One API worker and the supervisor, operations serialised, three failures of any kind.
SPECIFICATION FairSpec
CONSTANTS
    Workers = {w1}
    Supervisor = sup
    Cfgs = {c1, c2, cbad}
    FirstCfgs = {c1, c2, cbad}
    BadCfgs = {cbad}
    Maps = {m1, m2, mbad}
    BadMaps = {mbad}
    SpoeCfg = spoe
    Absent = Absent
    Torn = Torn
    Coraza = TRUE
    Serialized = TRUE
    Faults = {"copy", "write", "validator", "socket", "timeout", "silent", "start", "malformed", "exit", "crash"}
    MaxFaults = 3
    MaxMasters = 2
INVARIANTS TypeOK WholeBackupLoads NeverStranded GoodCfgKept
PROPERTIES RollbackHonest EventuallyServing
