----------------------------- MODULE Ingestion -----------------------------
(***************************************************************************)
(* Event publication: EventService.publish (services.py) in the            *)
(* transaction of publish_event (routers/v1.py), for calls that share      *)
(* idempotency keys, while retention removes old events.                   *)
(*                                                                         *)
(* Each statement sees what is committed when it starts; the INSERT ... ON *)
(* CONFLICT DO NOTHING also waits for a transaction that has inserted the  *)
(* same key and is still open.                                             *)
(***************************************************************************)
EXTENDS Integers, FiniteSets

CONSTANTS
    Calls,         \* POST /v1/events calls
    Keys,          \* Idempotency-Key values
    BlankKey,      \* a key of white space only
    Endpoints,     \* endpoint identities callers use
    Registered,    \* the endpoints that exist
    Bodies,        \* type and data of a request
    InvalidBody    \* data that is not canonical JSON

ASSUME IngestionAssumption ==
    Registered \subseteq Endpoints /\ BlankKey \notin Keys /\ InvalidBody \notin Bodies

VARIABLES
    events,       \* committed events
    deliveries,   \* committed generation-0 deliveries
    enabled,      \* endpoints.enabled
    call,         \* the state of each call
    issued,       \* how many event identities were drawn
    purged        \* history: the events retention has deleted

vars == <<events, deliveries, enabled, call, issued, purged>>

Requests == [key : Keys \cup {BlankKey}, endpoint : Endpoints,
             body : Bodies \cup {InvalidBody}]

\* The idempotency comparison: equal canonical JSON of endpoint, type, data.
Fingerprint(request) == <<request.endpoint, request.body>>

EventRow(id, request) ==
    [id |-> id, key |-> request.key, fingerprint |-> Fingerprint(request)]

DeliveryRow(id, request) == [event |-> id, endpoint |-> request.endpoint]

\* `seen` is endpoint.enabled as the call read it, `event` the event the call
\* has inserted or found.
NewCall(request) ==
    [pc |-> "new", request |-> request, seen |-> FALSE, event |-> 0, answer |-> "none"]

Init ==
    /\ events = {} /\ deliveries = {}
    /\ enabled = [e \in Registered |-> TRUE]
    /\ call \in [Calls -> {NewCall(request) : request \in Requests}]
    /\ issued = 0
    /\ purged = {}

\* The call ends with an answer: "created" or "existing" (202 with event),
\* "invalid" (422), "missing" (404), "reused" or "disabled" (409), "error".
Answer(c, answer) ==
    call' = [call EXCEPT ![c].pc = "done", ![c].answer = answer]

-----------------------------------------------------------------------------
\* The router refuses a blank key; publish then reads the endpoint, and
\* computes the fingerprint.
ReadEndpoint(c) ==
    LET request == call[c].request
    IN  /\ call[c].pc = "new"
        /\ \/ request.key = BlankKey /\ Answer(c, "invalid")
           \/ /\ request.key # BlankKey /\ request.endpoint \notin Registered
              /\ Answer(c, "missing")
           \/ /\ request.key # BlankKey /\ request.endpoint \in Registered
              /\ request.body = InvalidBody /\ Answer(c, "invalid")
           \/ /\ request.key # BlankKey /\ request.endpoint \in Registered
              /\ request.body # InvalidBody
              /\ call' = [call EXCEPT ![c].pc = "ready",
                                      ![c].seen = enabled[request.endpoint]]
        /\ UNCHANGED <<events, deliveries, enabled, issued, purged>>

\* Mutant: a refused transaction is left open and keeps its key.
KeyPendingForever(c) ==
    \E other \in Calls \ {c} :
        /\ \/ call[other].pc \in {"inserted", "scheduled"}
           \/ call[other].answer = "disabled"
        /\ call[other].request.key = call[c].request.key

\* Another open transaction has inserted this key.
KeyPending(c) ==
    \E other \in Calls \ {c} : /\ call[other].pc \in {"inserted", "scheduled"}
                               /\ call[other].request.key = call[c].request.key

\* insert_if_absent finds the key taken.
InsertConflicts(c) ==
    /\ call[c].pc = "ready"
    /\ ~KeyPending(c)
    /\ \E e \in events : e.key = call[c].request.key
    /\ call' = [call EXCEPT ![c].pc = "conflict"]
    /\ UNCHANGED <<events, deliveries, enabled, issued, purged>>

\* Mutant: the event is committed before its delivery is inserted.
InsertEventCommitted(c) ==
    /\ call[c].pc = "ready"
    /\ ~KeyPending(c)
    /\ \A e \in events : e.key # call[c].request.key
    /\ issued' = issued + 1
    /\ events' = events \cup {EventRow(issued + 1, call[c].request)}
    /\ call' = [call EXCEPT ![c].pc = "inserted", ![c].event = issued + 1]
    /\ UNCHANGED <<deliveries, enabled, purged>>

\* insert_if_absent inserts the event, not yet committed.
InsertEvent(c) ==
    /\ call[c].pc = "ready"
    /\ ~KeyPending(c)
    /\ \A e \in events : e.key # call[c].request.key
    /\ issued' = issued + 1
    /\ call' = [call EXCEPT ![c].pc = "inserted", ![c].event = issued + 1]
    /\ UNCHANGED <<events, deliveries, enabled, purged>>

\* Mutant: the refusal keeps the event that was inserted.
RefuseDisabledKeepsEvent(c) ==
    /\ call[c].pc = "inserted"
    /\ ~call[c].seen
    /\ events' = events \cup {EventRow(call[c].event, call[c].request)}
    /\ Answer(c, "disabled")
    /\ UNCHANGED <<deliveries, enabled, issued, purged>>

\* The endpoint was disabled when it was read: the insert is rolled back.
RefuseDisabled(c) ==
    /\ call[c].pc = "inserted"
    /\ ~call[c].seen
    /\ Answer(c, "disabled")
    /\ UNCHANGED <<events, deliveries, enabled, issued, purged>>

\* The initial delivery is inserted in the same transaction.
InsertDelivery(c) ==
    /\ call[c].pc = "inserted"
    /\ call[c].seen
    /\ call' = [call EXCEPT ![c].pc = "scheduled"]
    /\ UNCHANGED <<events, deliveries, enabled, issued, purged>>

\* The router's transaction commits, then 202 goes out.
CommitPublish(c) ==
    /\ call[c].pc = "scheduled"
    /\ events' = events \cup {EventRow(call[c].event, call[c].request)}
    /\ deliveries' = deliveries \cup {DeliveryRow(call[c].event, call[c].request)}
    /\ Answer(c, "created")
    /\ UNCHANGED <<enabled, issued, purged>>

\* Mutant: the fingerprint is not compared.
SameRequestAny(c, e) == TRUE

SameRequest(c, e) == e.fingerprint = Fingerprint(call[c].request)

\* _resolve_idempotent_replay reads the conflicting event: it may be gone,
\* another request's, or this request's.
ReadConflicting(c) ==
    /\ call[c].pc = "conflict"
    /\ \/ /\ \A e \in events : e.key # call[c].request.key
          /\ Answer(c, "error")
       \/ \E e \in events :
             /\ e.key = call[c].request.key
             /\ IF SameRequest(c, e)
                THEN call' = [call EXCEPT ![c].pc = "found", ![c].event = e.id]
                ELSE Answer(c, "reused")
    /\ UNCHANGED <<events, deliveries, enabled, issued, purged>>

\* ... and then its initial delivery at the request's endpoint.
ReadInitialDelivery(c) ==
    /\ call[c].pc = "found"
    /\ Answer(c, IF DeliveryRow(call[c].event, call[c].request) \in deliveries
                 THEN "existing" ELSE "error")
    /\ UNCHANGED <<events, deliveries, enabled, issued, purged>>

\* The process or its connection fails, before the commit took effect or
\* after it; the caller cannot tell which.
CallFails(c) ==
    /\ call[c].pc \notin {"new", "done"}
    /\ \/ UNCHANGED <<events, deliveries>>
       \/ /\ call[c].pc = "scheduled"
          /\ events' = events \cup {EventRow(call[c].event, call[c].request)}
          /\ deliveries' = deliveries \cup
                {DeliveryRow(call[c].event, call[c].request)}
    /\ Answer(c, "lost")
    /\ UNCHANGED <<enabled, issued, purged>>

-----------------------------------------------------------------------------
\* Retention commits the deletion of an old event and of its deliveries.
Purge(id) ==
    /\ \E e \in events : e.id = id
    /\ purged' = purged \cup {e \in events : e.id = id}
    /\ events' = {e \in events : e.id # id}
    /\ deliveries' = {d \in deliveries : d.event # id}
    /\ UNCHANGED <<enabled, call, issued>>

\* An operator flips endpoints.enabled.
SetEnabled(e) ==
    /\ enabled' = [enabled EXCEPT ![e] = ~@]
    /\ UNCHANGED <<events, deliveries, call, issued, purged>>

CallStep(c) ==
    \/ ReadEndpoint(c) \/ InsertConflicts(c) \/ InsertEvent(c)
    \/ RefuseDisabled(c) \/ InsertDelivery(c) \/ CommitPublish(c)
    \/ ReadConflicting(c) \/ ReadInitialDelivery(c)

Next ==
    \/ \E c \in Calls : CallStep(c) \/ CallFails(c)
    \/ \E id \in 1 .. issued : Purge(id)
    \/ \E e \in Registered : SetEnabled(e)

Spec == Init /\ [][Next]_vars

\* A call that was received runs on; its statements end.
FairSpec == Spec /\ \A c \in Calls : WF_vars(CallStep(c))

-----------------------------------------------------------------------------
(* Properties.                                                             *)

Accepted(c) == call[c].answer \in {"created", "existing"}

Purged(id) == \E e \in purged : e.id = id

\* 202 means durably scheduled: the event of an accepted call is committed
\* with its initial delivery at the call's endpoint, or retention has deleted
\* both since.  No event is ever visible without its delivery.
AcceptedIsScheduled ==
    /\ \A e \in events : \E d \in deliveries : d.event = e.id
    /\ \A c \in Calls : Accepted(c) =>
          \/ Purged(call[c].event)
          \/ /\ EventRow(call[c].event, call[c].request) \in events
             /\ DeliveryRow(call[c].event, call[c].request) \in deliveries

\* A key names one event: committed events have distinct keys, and two calls
\* accepted under one key asked for the same thing and got the same event,
\* unless retention deleted one of the events.
KeysNameOneEvent ==
    /\ \A e, f \in events : e.key = f.key => e = f
    /\ \A b, c \in Calls :
          /\ Accepted(b) /\ Accepted(c)
          /\ call[b].request.key = call[c].request.key
          => \/ call[b].event = call[c].event /\ call[b].request = call[c].request
             \/ Purged(call[b].event) \/ Purged(call[c].event)

\* A call that was refused leaves nothing behind, so its key is still free;
\* a call whose connection was lost leaves everything or nothing.
RefusedLeavesNothing ==
    \A c \in Calls :
        /\ call[c].answer \in {"invalid", "missing", "disabled"} =>
              \A e \in events : e.id # call[c].event
        /\ call[c].answer = "lost" =>
              (\E e \in events : e.id = call[c].event)
                  = (\E d \in deliveries : d.event = call[c].event)

\* The two RuntimeErrors of _resolve_idempotent_replay need a retention run
\* that deleted the conflicting event in the middle of the call.
ErrorsNeedRetention ==
    \A c \in Calls : call[c].answer = "error" =>
        \E e \in purged : e.key = call[c].request.key

\* An event and its delivery, seen as accepted work, and what calls can tell.
Work(e, d) ==
    [id |-> e.id,
     request |-> [key |-> e.key, endpoint |-> d.endpoint, body |-> e.fingerprint[2]]]

storeBar ==
    {Work(p[1], p[2]) : p \in {p \in events \X deliveries : p[2].event = p[1].id}}

goneBar == {[id |-> e.id, key |-> e.key] : e \in purged}

requestBar == [c \in Calls |-> call[c].request]

answerBar ==
    [c \in Calls |->
        [kind |-> call[c].answer, event |-> IF Accepted(c) THEN call[c].event ELSE 0]]

Store ==
    INSTANCE EventStore
    WITH request <- requestBar, answer <- answerBar, store <- storeBar, gone <- goneBar

\* Publication is atomic for its callers: although a call is a transaction of
\* several statements and reads the endpoint before it inserts, each takes effect
\* in the step that answers it, on what is committed at that moment.
ImplementsEventStore == Store!Spec

\* Every call is answered, however many wait for each other on one key.
EveryCallIsAnswered == \A c \in Calls : call[c].pc # "new" ~> call[c].pc = "done"
=============================================================================
