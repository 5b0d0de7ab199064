\* One package whose record changes after its receipt was published.
SPECIFICATION Spec
CONSTANTS
    Packages = {a1}
    Versions = {v1, v2}
    Collectors = {p1}
    None = None
    Staging = Staging
    ByHand = ByHand
    MaxCrashes = 0
PROPERTIES
    NeverPendingForEver
