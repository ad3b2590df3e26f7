\* Two replay calls and a retention run over two event chains.
CONSTANTS
    r1 = r1  r2 = r2  c1 = c1  c2 = c2  k1 = k1  k2 = k2
    None = None
    EventCount = 2
    MaxDeliveries = 4
    Requests = {r1, r2}
    Keys = {k1, k2}
    Cleaners = {c1}
    BatchSize = 1
    MaxEvents = 2
SPECIFICATION Spec
SYMMETRY Symmetry
INVARIANTS
    UniqueIndexesHold ReplaysFollowDeadLetters EventsAreWhole
    ReplayIsIdempotent LockedEventKeepsSource
PROPERTIES
    ImplementsChains
