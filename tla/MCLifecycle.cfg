CONSTANTS
    Domains = {a, b, c}
    Groups = {{c}, {a, b, c}}
    Www = {}
    Numbered = {c}
    NoRow = NoRow
    NoPath = NoPath
    Threads = {t1}
    Serialized = TRUE
    FaultKinds = {"publish", "select", "move", "generate", "unlink", "delete", "exit"}
    MaxIssued = 3
    MaxFaults = 1
SPECIFICATION Spec
SYMMETRY AlikeDomains
INVARIANTS TypeOK TreeWhole Delivered
PROPERTY RetirementKeepsServed
CHECK_DEADLOCK FALSE
