\* One script, alone with certbot and expiry; one failure or kill; no default certificate.
SPECIFICATION Spec
CONSTANTS
    d1 = d1
    d2 = d2
    none = none
    s1 = s1
    Domains = {d1, d2}
    NoDomain = none
    Scripts = {s1}
    Api = {}
    HasDefault = FALSE
    MaxSerial = 2
    MaxFaults = 1
SYMMETRY AnyLineage
INVARIANTS
    TypeOK
PROPERTIES
    NoExpiredPublished
    RetiresOnlyExpired
    NeverEmptied
    CleanRunServes
