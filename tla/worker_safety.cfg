\* Two workers race for one delivery; budgets differ between deployments.
CONSTANTS
    w1 = w1  w2 = w2  d1 = d1  d2 = d2  e1 = e1
    None = None
    Workers = {w1, w2}
    Deliveries = {d1}
    Endpoints = {e1}
    EndpointOf <- OneEndpoint
    Budgets = {1, 3}
    LeaseSeconds = 1
    Horizon = 2
    BaseDelay = 1
    MaxDelay = 1
    RetryAfterCap = 2
    StatusCodes <- AnyStatusCode
    RetryAfterHeaders <- AnyHeader
SPECIFICATION Spec
SYMMETRY WorkerSymmetry
INVARIANTS
    TypeOK EvidenceMatchesLease NeverLostToScheduler
    StatusExplainedByEvidence EvidenceIsOwnOutcome RequestsAreReserved
    WithinBudget EvidenceNeverMissing
PROPERTIES
    NothingHappensEarly ImplementsLifecycle
