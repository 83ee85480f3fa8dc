CONSTANTS
    Domains = {a, b, c}
    Groups = {{a, b, c}, {b}, {b, c}}
    Www = {b}
    Numbered = {}
    NoRow = NoRow
    NoPath = NoPath
    Threads = {t1}
    Serialized = TRUE
    FaultKinds = {}
    MaxIssued = 3
    MaxFaults = 0
SPECIFICATION Spec
PROPERTY RemovalKeepsServed
CHECK_DEADLOCK FALSE
