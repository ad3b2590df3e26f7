\* Every strategy with the worker's four attempts and two scripted failures,
\* three faults, up to two replays and two endpoints.
CONSTANTS
    Strategies = {"replay", "automatic", "terminal"}
    Budget = 4
    Failures = 2
    Outage = 20
    MaxFaults = 3
    MaxLineage = 3
    MaxEndpoints = 2
SPECIFICATION Spec
INVARIANTS
    RunIsNotDoubled VerifiedIsTrue FailureHasACause
PROPERTIES
    TourEnds
CHECK_DEADLOCK FALSE
