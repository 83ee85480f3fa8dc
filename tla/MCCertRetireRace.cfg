\* A script and an API thread; nothing fails.
SPECIFICATION Spec
CONSTANTS
    d1 = d1
    none = none
    s1 = s1
    a1 = a1
    Domains = {d1}
    NoDomain = none
    Scripts = {s1}
    Api = {a1}
    HasDefault = TRUE
    MaxSerial = 2
    MaxFaults = 0
PROPERTIES
    RetiresOnlyExpired
