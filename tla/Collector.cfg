\* Two packages, each pending or registered whatever becomes of the other.
SPECIFICATION Spec
CONSTANTS
    Packages = {a1, a2}
    Versions = {v1, v2}
    Collectors = {p1}
    None = None
    Staging = Staging
    ByHand = ByHand
    MaxCrashes = 1
INVARIANTS
    TypeOK
    RegisteredFromInbox
PROPERTIES
    CleanExitMeansRegistered
    EventuallyRegistered
