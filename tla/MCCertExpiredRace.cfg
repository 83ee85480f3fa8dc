\* One API thread and certbot; nothing fails.
SPECIFICATION Spec
CONSTANTS
    d1 = d1
    none = none
    a1 = a1
    Domains = {d1}
    NoDomain = none
    Scripts = {}
    Api = {a1}
    HasDefault = TRUE
    MaxSerial = 2
    MaxFaults = 0
PROPERTIES
    NoExpiredPublished
