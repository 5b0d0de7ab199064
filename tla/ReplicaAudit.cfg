\* One audit of two replicas: one must carry checksum metadata, the other may
\* answer without a Content-Length.
SPECIFICATION AuditSpec
CONSTANTS
    c1 = c1 t1 = t1 t2 = t2 b1 = b1
    RunIds = {r1}
    Paths = {fa}
    Checksums = {c1, c2}
    Sizes = {1, 2}
    Events = {e1}
    Aips = {p1}
    Replicas = {t1, t2}
    Keys = {k1}
    NoSize = NoSize
    NoChecksum = NoChecksum
    RequireChecksum = {t1}
    Buckets = {b1, b2}
    Missing = Missing
    Sizeless = {t2}
CONSTRAINT SomeAuditLeft
CONSTRAINT SecondReplicaIsPlain
CONSTRAINT OneDifference
INVARIANTS
    AuditTypeOK
    PassMeansHeld
    AlarmIsReal
    EachHasItsResult
