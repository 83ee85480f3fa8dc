\* Two API threads that overlap, as they may: no failure of any kind is needed.
SPECIFICATION Spec
CONSTANTS
    Workers = {w1, w2}
    Supervisor = sup
    Cfgs = {c1, cbad}
    FirstCfgs = {c1}
    BadCfgs = {cbad}
    Maps = {m1}
    BadMaps = {}
    SpoeCfg = spoe
    Absent = Absent
    Torn = Torn
    Coraza = FALSE
    Serialized = FALSE
    Faults = {}
    MaxFaults = 0
    MaxMasters = 2
INVARIANTS WholeBackupLoads
