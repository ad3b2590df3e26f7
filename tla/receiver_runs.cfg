\* Three demo runs share a registry of two.
CONSTANTS
    x1 = x1  x2 = x2  x3 = x3
    Runs = {x1, x2, x3}
    Default = Default
    MAX_SCOPED_RUNS = 2
    MAX_REQUESTS_PER_RUN = 2
    Configurations <- Scripts
    Bodies <- TwoBodies
    Channels <- GenericRoute
    MaxTouches = 6
SPECIFICATION Spec
SYMMETRY RunSymmetry
INVARIANTS
    ScriptIsFollowed EvidenceIsTheTail
PROPERTIES
    EvictsTheIdlest
