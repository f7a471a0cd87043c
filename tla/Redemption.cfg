\* One terminal, two secrets, one request delivered twice.
CONSTANTS
    p1 = p1
    s1 = s1
    s2 = s2
    k1 = k1
    k2 = k2
    m1 = m1
    m2 = m2
    t1 = t1
    t2 = t2
    AnySecret = AnySecret
    NoRequest = NoRequest
    Ptys = {p1}
    Secrets = {s1, s2}
    EnvKeys = {k1, k2}
    Tools = {"with-cred"}
    Messages = {m1}
    Tasks = {t1, t2}
    Window = 1
    Stall = 1
    Retention = 3
    Ttls = {2}
    MaxTime = 4
    MaxGrants = 2
SPECIFICATION Spec
CHECK_DEADLOCK FALSE
SYMMETRY MCSymmetry
INVARIANTS
    TypeOK
    RedeemedOnce
    AuditTrail
PROPERTIES
    StaysLocked
