\* One healthy worker and one that may fail in any way share one delivery.
CONSTANTS
    w1 = w1  w2 = w2  d1 = d1  d2 = d2  e1 = e1
    None = None
    Workers = {w1, w2}
    Deliveries = {d1}
    Endpoints = {e1}
    EndpointOf <- OneEndpoint
    Budgets = {2}
    LeaseSeconds = 1
    Horizon = 1
    BaseDelay = 1
    MaxDelay = 1
    RetryAfterCap = 1
    StatusCodes <- FewStatusCodes
    RetryAfterHeaders <- NoHeader
SPECIFICATION LiveSpec
PROPERTIES
    EveryDeliveryTerminates
