\* Pages of one row and overviews over two events with three deliveries between
\* them and an endpoint; two instants, so that timestamps tie and rows appear
\* out of their order.
CONSTANTS
    EventIds = {1, 2}
    DeliveryIds = {1, 2, 3}
    EndpointIds = {1}
    MaxClock = 1
    Limit = 1
    Kinds = {"overview", "events", "failed_events", "dead_letters", "endpoints"}
SPECIFICATION Spec
INVARIANTS
    NothingShownTwice NothingSkipped PagesAreDetermined QuietOverviewAddsUp
CHECK_DEADLOCK FALSE
