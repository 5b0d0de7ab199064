\* Two jobs, both sizes: every property of AutoBaseline.
SPECIFICATION Spec
CONSTANTS
    fa = fa alias = alias e1 = e1 e2 = e2 p1 = p1 c1 = c1 c2 = c2
    t1 = t1 k1 = k1 k2 = k2
    RunIds = {r1, r2}
    Paths <- MCPaths
    Checksums = {c1, c2}
    Sizes = {1, 2}
    Events = {e1, e2}
    Aips = {p1}
    Replicas = {t1, t2}
    Keys = {k1, k2}
    NoSize = NoSize
    NoChecksum = NoChecksum
    RequireChecksum = {t1}
    Files = {fa}
    FileAt <- MCFileAt
    Absent = Absent
    Receipts <- MCReceipts
    Trusted <- MCTrusted
SYMMETRY RunSymmetry
INVARIANTS
    TypeOK
    RegistrationIsWhole
    RegisteredAsReceived
    EvidenceAgrees
    OkRunIsRegistered
    CreatedOnce
PROPERTIES
    RegistryIsSealed
