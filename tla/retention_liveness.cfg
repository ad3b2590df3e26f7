\* Two replay calls meet a retention run; one chain, one key.
CONSTANTS
    r1 = r1  r2 = r2  c1 = c1  c2 = c2  k1 = k1  k2 = k2
    None = None
    EventCount = 1
    MaxDeliveries = 3
    Requests = {r1, r2}
    Keys = {k1}
    Cleaners = {c1}
    BatchSize = 1
    MaxEvents = 1
SPECIFICATION FairSpec
PROPERTIES
    NobodyWaitsForever
