\* Three calls over one key and a blank one, two bodies and an unknown endpoint.
CONSTANTS
    c1 = c1  c2 = c2  c3 = c3  k1 = k1  e1 = e1  e2 = e2  b1 = b1  b2 = b2
    Calls = {c1, c2, c3}
    Keys = {k1}
    BlankKey = BlankKey
    Endpoints = {e1, e2}
    Registered = {e1}
    Bodies = {b1, b2}
    InvalidBody = InvalidBody
SPECIFICATION FairSpec
INVARIANTS
    AcceptedIsScheduled KeysNameOneEvent
PROPERTIES
    EveryCallIsAnswered ImplementsEventStore
