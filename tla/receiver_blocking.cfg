\* Every body with one fault, every route.
CONSTANTS
    x1 = x1  x2 = x2  x3 = x3
    Runs = {x1}
    Default = Default
    MAX_SCOPED_RUNS = 1
    MAX_REQUESTS_PER_RUN = 1
    Configurations <- AllKinds
    Bodies <- OneFault
    Channels <- Routes
    MaxTouches = 2
SPECIFICATION Spec
INVARIANTS
    InvalidBodiesBlockReplay
