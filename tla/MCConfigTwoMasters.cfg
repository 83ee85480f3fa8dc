\* One operation at a time; a malformed address is blocked and unblocked again, and the
\* API worker that unblocks it is recycled after its commit.
SPECIFICATION Spec
CONSTANTS
    Workers = {w1}
    Supervisor = sup
    Cfgs = {c1}
    FirstCfgs = {c1}
    BadCfgs = {}
    Maps = {m1, mbad}
    BadMaps = {mbad}
    SpoeCfg = spoe
    Absent = Absent
    Torn = Torn
    Coraza = FALSE
    Serialized = TRUE
    Faults = {"malformed", "exit"}
    MaxFaults = 2
    MaxMasters = 2
INVARIANTS OneMaster
