-------------------------- MODULE IngestionProofs --------------------------
(***************************************************************************)
(* The safety properties of Ingestion for any number of calls, keys,       *)
(* endpoints and bodies: any interleaving of publish transactions,         *)
(* connection losses, endpoint switches and retention.                     *)
(***************************************************************************)
EXTENDS Ingestion, TLAPS

-----------------------------------------------------------------------------
(* The inductive invariant.                                                *)

EventRows == [id : Nat \ {0}, key : Keys, fingerprint : Registered \X Bodies]

DeliveryRows == [event : Nat \ {0}, endpoint : Registered]

CallStates ==
    [pc : {"new", "ready", "inserted", "scheduled", "conflict", "found", "done"},
     request : Requests, seen : BOOLEAN, event : Nat,
     answer : {"none", "created", "existing", "invalid", "missing", "reused",
               "disabled", "error", "lost"}]

TypeOK ==
    /\ events \in SUBSET EventRows
    /\ purged \in SUBSET EventRows
    /\ deliveries \in SUBSET DeliveryRows
    /\ enabled \in [Registered -> BOOLEAN]
    /\ call \in [Calls -> CallStates]
    /\ issued \in Nat

\* The call's transaction has inserted an event and is still open.
OpenInsert(c) == call[c].pc \in {"inserted", "scheduled"}

\* Past the checks of the router and of publish, a request is well formed; a
\* call has an event only after it has inserted or found one, and an answer
\* only when it is done.
CallsAreInOrder ==
    \A c \in Calls :
        /\ call[c].pc \notin {"new", "done"} =>
              /\ call[c].request.key \in Keys
              /\ call[c].request.endpoint \in Registered
              /\ call[c].request.body \in Bodies
        /\ call[c].pc \in {"new", "ready", "conflict"} => call[c].event = 0
        /\ call[c].pc # "done" => call[c].answer = "none"
        /\ call[c].answer \in {"invalid", "missing"} => call[c].event = 0

\* Identities are drawn in order, and retention frees none; the one of an open
\* insert belongs to no other call and to no event, and a refused one never will.
IdentitiesAreFresh ==
    /\ \A e \in events \cup purged : e.id <= issued
    /\ \A e \in events, old \in purged : e.id # old.id
    /\ \A c \in Calls : call[c].event <= issued
    /\ \A c \in Calls : OpenInsert(c) =>
          /\ call[c].event # 0
          /\ \A e \in events \cup purged : e.id # call[c].event
          /\ \A b \in Calls \ {c} : call[b].event # call[c].event
    /\ \A c \in Calls : call[c].answer = "disabled" =>
          \A e \in events : e.id # call[c].event

\* The unique key: no two of the committed events and open inserts share one.
KeysAreUnique ==
    /\ \A e, f \in events : e.key = f.key => e = f
    /\ \A c \in Calls : OpenInsert(c) =>
          /\ \A e \in events : e.key # call[c].request.key
          /\ \A b \in Calls \ {c} :
                OpenInsert(b) => call[b].request.key # call[c].request.key

\* Events and initial deliveries come and go together.
EventsAreScheduled ==
    /\ \A e \in events :
          [event |-> e.id, endpoint |-> e.fingerprint[1]] \in deliveries
    /\ \A d \in deliveries : \E e \in events : e.id = d.event

\* What a call has seen of its key was committed, now or before retention ran.
CallsKnowTheirEvent ==
    \A c \in Calls :
        /\ call[c].pc = "conflict" =>
              \E e \in events \cup purged : e.key = call[c].request.key
        /\ call[c].pc = "found" \/ Accepted(c) =>
              EventRow(call[c].event, call[c].request) \in events \cup purged
        /\ call[c].answer = "error" =>
              \E e \in purged : e.key = call[c].request.key

IngestionInv ==
    /\ TypeOK /\ CallsAreInOrder /\ IdentitiesAreFresh
    /\ KeysAreUnique /\ EventsAreScheduled /\ CallsKnowTheirEvent

-----------------------------------------------------------------------------
(* The invariant holds initially and every action preserves it.           *)

\* The router and publish check the request and read the endpoint.
LEMMA ReadEndpointStep ==
    ASSUME IngestionInv, NEW c \in Calls, ReadEndpoint(c)
    PROVE  IngestionInv'
<1>. USE DEF IngestionInv, ReadEndpoint, Answer
<1>0. /\ \A b \in Calls \ {c} : call'[b] = call[b]
      /\ call'[c].request = call[c].request /\ call'[c].event = 0
      /\ call[c].answer = "none"
      /\ \/ call'[c].pc = "done" /\ call'[c].answer \in {"invalid", "missing"}
         \/ /\ call'[c].pc = "ready" /\ call'[c].answer = "none"
            /\ call[c].request.key \in Keys
            /\ call[c].request.endpoint \in Registered
            /\ call[c].request.body \in Bodies
  BY IngestionAssumption DEF TypeOK, CallStates, Requests, CallsAreInOrder
<1>1. TypeOK'
  <2>1. call[c] \in CallStates /\ call'[c] \in CallStates
    BY DEF TypeOK, CallStates
  <2>. QED
    BY <2>1 DEF TypeOK
<1>2. CallsAreInOrder'
  BY <1>0 DEF CallsAreInOrder
<1>3. IdentitiesAreFresh'
  BY <1>0, <1>1 DEF TypeOK, IdentitiesAreFresh, OpenInsert
<1>4. KeysAreUnique'
  BY <1>0 DEF KeysAreUnique, OpenInsert
<1>5. EventsAreScheduled'
  BY DEF EventsAreScheduled
<1>6. CallsKnowTheirEvent'
  BY <1>0 DEF CallsKnowTheirEvent, Accepted
<1>. QED
  BY <1>1, <1>2, <1>3, <1>4, <1>5, <1>6

\* The insert finds a committed event with its key.
LEMMA InsertConflictsStep ==
    ASSUME IngestionInv, NEW c \in Calls, InsertConflicts(c)
    PROVE  IngestionInv'
<1>. USE DEF IngestionInv, InsertConflicts, KeyPending
<1>1. TypeOK'
  BY DEF TypeOK, CallStates
<1>2. CallsAreInOrder'
  BY DEF CallsAreInOrder
<1>3. IdentitiesAreFresh'
  BY DEF IdentitiesAreFresh, OpenInsert
<1>4. KeysAreUnique'
  BY DEF KeysAreUnique, OpenInsert
<1>5. EventsAreScheduled'
  BY DEF EventsAreScheduled
<1>6. CallsKnowTheirEvent'
  BY DEF CallsKnowTheirEvent, Accepted
<1>. QED
  BY <1>1, <1>2, <1>3, <1>4, <1>5, <1>6

\* The insert draws a new identity for a key that nobody holds.
LEMMA InsertEventStep ==
    ASSUME IngestionInv, NEW c \in Calls, InsertEvent(c)
    PROVE  IngestionInv'
<1>. USE DEF IngestionInv, InsertEvent, KeyPending
<1>1. TypeOK'
  BY DEF CallsAreInOrder, TypeOK, CallStates
<1>2. CallsAreInOrder'
  BY DEF TypeOK, CallsAreInOrder
<1>3. IdentitiesAreFresh'
  BY DEF TypeOK, CallStates, IdentitiesAreFresh
<1>4. KeysAreUnique'
  BY DEF TypeOK, KeysAreUnique, OpenInsert
<1>5. EventsAreScheduled'
  BY DEF EventsAreScheduled
<1>6. CallsKnowTheirEvent'
  BY DEF TypeOK, CallStates, CallsKnowTheirEvent, Accepted
<1>. QED
  BY <1>1, <1>2, <1>3, <1>4, <1>5, <1>6

\* The insert is rolled back.
LEMMA RefuseDisabledStep ==
    ASSUME IngestionInv, NEW c \in Calls, RefuseDisabled(c)
    PROVE  IngestionInv'
<1>. USE DEF IngestionInv, RefuseDisabled, Answer
<1>1. TypeOK'
  BY DEF CallsAreInOrder, TypeOK, CallStates
<1>2. CallsAreInOrder'
  BY DEF TypeOK, CallsAreInOrder
<1>3. IdentitiesAreFresh'
  BY DEF TypeOK, IdentitiesAreFresh, OpenInsert
<1>4. KeysAreUnique'
  BY DEF TypeOK, KeysAreUnique, OpenInsert
<1>5. EventsAreScheduled'
  BY DEF EventsAreScheduled
<1>6. CallsKnowTheirEvent'
  BY DEF TypeOK, CallsKnowTheirEvent, Accepted
<1>. QED
  BY <1>1, <1>2, <1>3, <1>4, <1>5, <1>6

\* The delivery joins the open transaction.
LEMMA InsertDeliveryStep ==
    ASSUME IngestionInv, NEW c \in Calls, InsertDelivery(c)
    PROVE  IngestionInv'
<1>. USE DEF IngestionInv, InsertDelivery
<1>1. TypeOK'
  BY DEF TypeOK, CallStates
<1>2. CallsAreInOrder'
  BY DEF CallsAreInOrder
<1>3. IdentitiesAreFresh'
  BY DEF IdentitiesAreFresh, OpenInsert
<1>4. KeysAreUnique'
  BY DEF KeysAreUnique, OpenInsert
<1>5. EventsAreScheduled'
  BY DEF EventsAreScheduled
<1>6. CallsKnowTheirEvent'
  BY DEF CallsKnowTheirEvent, Accepted
<1>. QED
  BY <1>1, <1>2, <1>3, <1>4, <1>5, <1>6

\* The event and its delivery become visible together.
LEMMA CommitPublishStep ==
    ASSUME IngestionInv, NEW c \in Calls, CommitPublish(c)
    PROVE  IngestionInv'
<1>. USE DEF IngestionInv, CommitPublish, Answer, EventRow, DeliveryRow, Fingerprint
<1>1. TypeOK'
  BY DEF CallsAreInOrder, TypeOK, CallStates
<1>2. CallsAreInOrder'
  BY DEF TypeOK, CallsAreInOrder
<1>3. IdentitiesAreFresh'
  BY DEF TypeOK, IdentitiesAreFresh, OpenInsert
<1>4. KeysAreUnique'
  BY DEF CallsAreInOrder, TypeOK, KeysAreUnique, OpenInsert
<1>5. EventsAreScheduled'
  BY DEF CallsAreInOrder, TypeOK, CallStates
<1>6. CallsKnowTheirEvent'
  BY DEF TypeOK, CallsKnowTheirEvent, Accepted
<1>. QED
  BY <1>1, <1>2, <1>3, <1>4, <1>5, <1>6

\* The conflicting event is read, or is gone.
LEMMA ReadConflictingStep ==
    ASSUME IngestionInv, NEW c \in Calls, ReadConflicting(c)
    PROVE  IngestionInv'
<1>. USE DEF IngestionInv, ReadConflicting, Answer, SameRequest, EventRow, Fingerprint
<1>1. TypeOK'
  BY DEF CallsAreInOrder, TypeOK, CallStates
<1>2. CallsAreInOrder'
  BY DEF TypeOK, CallStates, CallsAreInOrder
<1>3. IdentitiesAreFresh'
  BY DEF CallsAreInOrder, TypeOK, EventRows, CallStates
<1>4. KeysAreUnique'
  BY DEF CallsAreInOrder, TypeOK, EventRows, CallStates
<1>5. EventsAreScheduled'
  BY DEF EventsAreScheduled
<1>6. CallsKnowTheirEvent'
  BY DEF CallsAreInOrder, TypeOK, EventRows, DeliveryRows, CallStates
<1>. QED
  BY <1>1, <1>2, <1>3, <1>4, <1>5, <1>6

\* The delivery is read, or is gone with its event.
LEMMA ReadInitialDeliveryStep ==
    ASSUME IngestionInv, NEW c \in Calls, ReadInitialDelivery(c)
    PROVE  IngestionInv'
<1>. USE DEF IngestionInv, ReadInitialDelivery, Answer, EventRow, DeliveryRow, Fingerprint
<1>1. TypeOK'
  BY DEF CallsAreInOrder, TypeOK, CallStates
<1>2. CallsAreInOrder'
  BY DEF TypeOK, CallsAreInOrder
<1>3. IdentitiesAreFresh'
  BY DEF TypeOK, IdentitiesAreFresh, OpenInsert
<1>4. KeysAreUnique'
  BY DEF TypeOK, KeysAreUnique, OpenInsert
<1>5. EventsAreScheduled'
  BY DEF EventsAreScheduled
<1>6. CallsKnowTheirEvent'
  BY DEF CallsAreInOrder, TypeOK, CallStates
<1>. QED
  BY <1>1, <1>2, <1>3, <1>4, <1>5, <1>6

\* The call ends with its transaction committed or rolled back.
LEMMA CallFailsStep ==
    ASSUME IngestionInv, NEW c \in Calls, CallFails(c)
    PROVE  IngestionInv'
<1>. USE DEF IngestionInv, CallFails, Answer, EventRow, DeliveryRow, Fingerprint
<1>1. TypeOK'
  BY DEF CallsAreInOrder, TypeOK, CallStates
<1>2. CallsAreInOrder'
  BY DEF TypeOK, CallsAreInOrder
<1>3. IdentitiesAreFresh'
  BY DEF TypeOK, IdentitiesAreFresh, OpenInsert
<1>4. KeysAreUnique'
  BY DEF CallsAreInOrder, TypeOK, KeysAreUnique, OpenInsert
<1>5. EventsAreScheduled'
  BY DEF CallsAreInOrder, TypeOK, CallStates
<1>6. CallsKnowTheirEvent'
  BY DEF TypeOK, DeliveryRows, CallsKnowTheirEvent, Accepted
<1>. QED
  BY <1>1, <1>2, <1>3, <1>4, <1>5, <1>6

\* Retention removes an event with its deliveries.
LEMMA PurgeStep ==
    ASSUME IngestionInv, NEW id \in 1 .. issued, Purge(id)
    PROVE  IngestionInv'
<1>. USE DEF IngestionInv, Purge
<1>1. TypeOK'
  BY DEF TypeOK
<1>2. CallsAreInOrder'
  BY DEF CallsAreInOrder
<1>3. IdentitiesAreFresh'
  BY DEF IdentitiesAreFresh, OpenInsert
<1>4. KeysAreUnique'
  BY DEF KeysAreUnique, OpenInsert
<1>5. EventsAreScheduled'
  BY DEF EventsAreScheduled
<1>6. CallsKnowTheirEvent'
  BY DEF CallsKnowTheirEvent, Accepted
<1>. QED
  BY <1>1, <1>2, <1>3, <1>4, <1>5, <1>6

\* An operator's switch touches no event and no call.
LEMMA SetEnabledStep ==
    ASSUME IngestionInv, NEW e \in Registered, SetEnabled(e)
    PROVE  IngestionInv'
BY DEF IngestionInv, SetEnabled, TypeOK, CallsAreInOrder, IdentitiesAreFresh,
       KeysAreUnique, EventsAreScheduled, CallsKnowTheirEvent, OpenInsert, Accepted

LEMMA StutterStep ==
    ASSUME IngestionInv, UNCHANGED vars
    PROVE  IngestionInv'
BY DEF IngestionInv, vars, TypeOK, CallsAreInOrder, IdentitiesAreFresh,
       KeysAreUnique, EventsAreScheduled, CallsKnowTheirEvent, OpenInsert, Accepted

\* No call has begun and nothing is stored.
LEMMA InitInv ==
    ASSUME Init
    PROVE  IngestionInv
<1>1. \A c \in Calls : /\ call[c].pc = "new" /\ call[c].answer = "none"
                       /\ call[c].event = 0
  BY DEF Init, NewCall
<1>2. \A request \in Requests : NewCall(request) \in CallStates
  BY DEF NewCall, CallStates
<1>3. call \in [Calls -> CallStates]
  BY <1>2 DEF Init
<1>4. TypeOK
  BY <1>3 DEF Init, TypeOK
<1>. QED
  BY <1>1, <1>4 DEF Init, IngestionInv, CallsAreInOrder, IdentitiesAreFresh,
     KeysAreUnique, EventsAreScheduled, CallsKnowTheirEvent, OpenInsert, Accepted

\* The inductive invariant holds in every reachable state of the publish
\* transactions, whatever fails and whatever retention deletes.
THEOREM IngestionInvariant == Spec => []IngestionInv
<1>1. ASSUME IngestionInv, [Next]_vars
      PROVE  IngestionInv'
  <2>1. ASSUME NEW c \in Calls, CallStep(c)
        PROVE  IngestionInv'
    BY <1>1, <2>1, ReadEndpointStep, InsertConflictsStep, InsertEventStep,
       RefuseDisabledStep, InsertDeliveryStep, CommitPublishStep,
       ReadConflictingStep, ReadInitialDeliveryStep DEF CallStep
  <2>. QED
    BY <1>1, <2>1, CallFailsStep, PurgeStep, SetEnabledStep, StutterStep DEF Next
<1>. QED
  BY <1>1, InitInv, PTL DEF Spec

-----------------------------------------------------------------------------
(* What the invariant says of the API.                                     *)

\* 202 means durably scheduled: the event of an accepted call is committed
\* with its delivery, or retention has deleted both since
\* (EventService.publish and the router's commit).
THEOREM AcceptedIsAlwaysScheduled == Spec => []AcceptedIsScheduled
<1>1. IngestionInv => AcceptedIsScheduled
  <2>. SUFFICES ASSUME IngestionInv PROVE AcceptedIsScheduled
    OBVIOUS
  <2>1. \A e \in events : \E d \in deliveries : d.event = e.id
    BY DEF IngestionInv, EventsAreScheduled
  <2>2. ASSUME NEW c \in Calls, Accepted(c), ~Purged(call[c].event)
        PROVE  /\ EventRow(call[c].event, call[c].request) \in events
               /\ DeliveryRow(call[c].event, call[c].request) \in deliveries
    <3>1. EventRow(call[c].event, call[c].request) \in events
      BY <2>2 DEF IngestionInv, CallsKnowTheirEvent, Purged, EventRow
    <3>. QED
      BY <3>1 DEF IngestionInv, EventsAreScheduled, EventRow, DeliveryRow, Fingerprint
  <2>. QED
    BY <2>1, <2>2 DEF AcceptedIsScheduled
<1>. QED
  BY <1>1, IngestionInvariant, PTL

\* An Idempotency-Key names one event: calls accepted under one key asked for
\* the same thing and share the event, unless retention removed it.
THEOREM KeysAlwaysNameOneEvent == Spec => []KeysNameOneEvent
<1>1. IngestionInv => KeysNameOneEvent
  <2>. SUFFICES ASSUME IngestionInv PROVE KeysNameOneEvent
    OBVIOUS
  <2>1. ASSUME NEW b \in Calls, NEW c \in Calls, Accepted(b), Accepted(c),
               call[b].request.key = call[c].request.key,
               ~Purged(call[b].event), ~Purged(call[c].event)
        PROVE  call[b].event = call[c].event /\ call[b].request = call[c].request
    <3>1. /\ EventRow(call[b].event, call[b].request) \in events
          /\ EventRow(call[c].event, call[c].request) \in events
      BY <2>1 DEF IngestionInv, CallsKnowTheirEvent, Purged, EventRow
    <3>2. EventRow(call[b].event, call[b].request)
             = EventRow(call[c].event, call[c].request)
      BY <2>1, <3>1 DEF IngestionInv, KeysAreUnique, EventRow
    <3>3. call[b].request \in Requests /\ call[c].request \in Requests
      BY DEF IngestionInv, TypeOK, CallStates
    <3>. QED
      BY <3>2, <3>3 DEF EventRow, Fingerprint, Requests
  <2>. QED
    BY <2>1 DEF KeysNameOneEvent, IngestionInv, KeysAreUnique
<1>. QED
  BY <1>1, IngestionInvariant, PTL

\* A refused call leaves no event behind and a lost one leaves an event with
\* its delivery or neither: the transaction of publish_event is atomic.
THEOREM RefusedAlwaysLeavesNothing == Spec => []RefusedLeavesNothing
<1>1. IngestionInv => RefusedLeavesNothing
  <2>. SUFFICES ASSUME IngestionInv PROVE RefusedLeavesNothing
    OBVIOUS
  <2>1. ASSUME NEW c \in Calls, call[c].answer \in {"invalid", "missing", "disabled"},
               NEW e \in events
        PROVE  e.id # call[c].event
    BY <2>1 DEF IngestionInv, TypeOK, EventRows, CallsAreInOrder, IdentitiesAreFresh
  <2>2. ASSUME NEW c \in Calls
        PROVE  (\E e \in events : e.id = call[c].event)
                   <=> (\E d \in deliveries : d.event = call[c].event)
    BY DEF IngestionInv, EventsAreScheduled
  <2>. QED
    BY <2>1, <2>2 DEF RefusedLeavesNothing
<1>. QED
  BY <1>1, IngestionInvariant, PTL

\* The RuntimeErrors of _resolve_idempotent_replay happen only when retention
\* deleted the conflicting event in the middle of the call.
THEOREM ErrorsAlwaysNeedRetention == Spec => []ErrorsNeedRetention
<1>1. IngestionInv => ErrorsNeedRetention
  BY DEF IngestionInv, CallsKnowTheirEvent, ErrorsNeedRetention
<1>. QED
  BY <1>1, IngestionInvariant, PTL

-----------------------------------------------------------------------------
(* The refinement: a step that answers a call is the call's effect on the  *)
(* store, every other step of a call is a stutter.                         *)

LEMMA StoreIsJoin ==
    ASSUME NEW work
    PROVE  /\ work \in storeBar <=>
                 \E e \in events, d \in deliveries : d.event = e.id /\ work = Work(e, d)
           /\ work \in storeBar' <=>
                 \E e \in events', d \in deliveries' : d.event = e.id /\ work = Work(e, d)
<1>1. ASSUME NEW E, NEW D
      PROVE  work \in {Work(p[1], p[2]) : p \in {p \in E \X D : p[2].event = p[1].id}} <=>
                 \E e \in E, d \in D : d.event = e.id /\ work = Work(e, d)
  <2>1. ASSUME NEW e \in E, NEW d \in D, d.event = e.id, work = Work(e, d)
        PROVE  work \in {Work(p[1], p[2]) : p \in {p \in E \X D : p[2].event = p[1].id}}
    <3>1. <<e, d>> \in E \X D /\ <<e, d>>[1] = e /\ <<e, d>>[2] = d
      OBVIOUS
    <3>. QED
      BY <2>1, <3>1
  <2>2. ASSUME NEW p \in E \X D, p[2].event = p[1].id, work = Work(p[1], p[2])
        PROVE  \E e \in E, d \in D : d.event = e.id /\ work = Work(e, d)
    <3>1. p[1] \in E /\ p[2] \in D
      OBVIOUS
    <3>. QED
      BY <2>2, <3>1
  <2>. QED
    BY <2>1, <2>2
<1>. QED
  BY <1>1 DEF storeBar

LEMMA WorkFields ==
    ASSUME NEW e, NEW d
    PROVE  /\ Work(e, d).id = e.id
           /\ Work(e, d).request =
                 [key |-> e.key, endpoint |-> d.endpoint, body |-> e.fingerprint[2]]
           /\ Work(e, d).request.key = e.key
           /\ Work(e, d).request.endpoint = d.endpoint
           /\ Work(e, d).request.body = e.fingerprint[2]
BY DEF Work

\* A request is its three fields.
LEMMA RequestFields ==
    ASSUME NEW r \in Requests
    PROVE  r = [key |-> r.key, endpoint |-> r.endpoint, body |-> r.body]
BY DEF Requests

LEMMA SilentStep ==
    ASSUME UNCHANGED <<events, deliveries, purged>>,
           \A c \in Calls : /\ call'[c].request = call[c].request
                            /\ call'[c].answer = call[c].answer
                            /\ Accepted(c) => call'[c].event = call[c].event
    PROVE  UNCHANGED Store!vars
<1>1. storeBar' = storeBar /\ goneBar' = goneBar
  BY DEF storeBar, goneBar
<1>2. requestBar' = requestBar
  BY DEF requestBar
<1>3. answerBar' = answerBar
  BY DEF answerBar, Accepted
<1>. QED
  BY <1>1, <1>2, <1>3 DEF Store!vars

\* An answer is said once, and says which event only if there is one.
LEMMA AnswerSays ==
    ASSUME IngestionInv, NEW c \in Calls, call[c].pc # "done",
           NEW kind, Answer(c, kind)
    PROVE  /\ requestBar' = requestBar /\ requestBar[c] = call[c].request
           /\ Store!Say(c, kind, IF kind \in {"created", "existing"} THEN call[c].event ELSE 0)
<1>1. call[c].answer = "none"
  BY DEF IngestionInv, CallsAreInOrder
<1>2. /\ \A b \in Calls \ {c} : call'[b] = call[b]
      /\ call'[c].request = call[c].request /\ call'[c].event = call[c].event
      /\ call'[c].answer = kind
  BY DEF Answer, IngestionInv, TypeOK, CallStates
<1>3. requestBar' = requestBar /\ requestBar[c] = call[c].request
  BY <1>2 DEF requestBar
<1>4. answerBar[c] = Store!NoAnswer
  BY <1>1 DEF answerBar, Accepted, Store!NoAnswer
<1>. DEFINE id == IF kind \in {"created", "existing"} THEN call[c].event ELSE 0
<1>5. answerBar' = [answerBar EXCEPT ![c] = [kind |-> kind, event |-> id]]
  <2>1. \A b \in Calls \ {c} : answerBar'[b] = answerBar[b]
    BY <1>2 DEF answerBar, Accepted
  <2>2. answerBar'[c] = [kind |-> kind, event |-> id]
    BY <1>2 DEF answerBar, Accepted
  <2>. QED
    BY <2>1, <2>2 DEF answerBar
<1>. QED
  BY <1>3, <1>4, <1>5 DEF Store!Say

\* The commit of a publish is the call's effect, whether or not its answer
\* reaches the caller.
LEMMA CommitCreates ==
    ASSUME IngestionInv, NEW c \in Calls, call[c].pc = "scheduled",
           events' = events \cup {EventRow(call[c].event, call[c].request)},
           deliveries' = deliveries \cup {DeliveryRow(call[c].event, call[c].request)},
           purged' = purged,
           Answer(c, "created") \/ Answer(c, "lost")
    PROVE  Store!Create(c)
<1>. DEFINE request == call[c].request
            e == EventRow(call[c].event, request)
            d == DeliveryRow(call[c].event, request)
            new == Work(e, d)
<1>1. request \in Requests
  BY DEF IngestionInv, TypeOK, CallStates
<1>2. /\ e.id = call[c].event /\ e.key = request.key /\ e.fingerprint[2] = request.body
      /\ d.event = call[c].event /\ d.endpoint = request.endpoint
  BY DEF EventRow, DeliveryRow, Fingerprint
<1>3. new.id = call[c].event /\ new.request = request
  BY <1>1, <1>2, RequestFields, WorkFields
<1>4. /\ \A f \in events \cup purged : f.id # call[c].event
      /\ \A f \in events : f.key # request.key
  BY DEF IngestionInv, IdentitiesAreFresh, KeysAreUnique, OpenInsert
<1>5. \A f \in deliveries : f.event # call[c].event
  BY <1>4 DEF IngestionInv, EventsAreScheduled
<1>6. \A work \in storeBar : work.request.key # request.key /\ work.id # call[c].event
  <2>. SUFFICES ASSUME NEW work \in storeBar
                PROVE  work.request.key # request.key /\ work.id # call[c].event
    OBVIOUS
  <2>1. PICK f \in events, g \in deliveries : g.event = f.id /\ work = Work(f, g)
    BY StoreIsJoin
  <2>2. work.id = f.id /\ work.request.key = f.key
    BY <2>1, WorkFields
  <2>. QED
    BY <1>4, <2>2
<1>7. \A old \in goneBar : old.id # call[c].event
  BY <1>4 DEF goneBar
<1>8. storeBar' = storeBar \cup {new}
  <2>. HIDE DEF e, d, new
  <2>1. events' = events \cup {e} /\ deliveries' = deliveries \cup {d}
    BY DEF e, d
  <2>2. ASSUME NEW work
        PROVE  work \in storeBar' <=> work \in storeBar \cup {new}
    <3>1. CASE work \in storeBar'
      <4>1. PICK f \in events', g \in deliveries' : g.event = f.id /\ work = Work(f, g)
        BY <3>1, StoreIsJoin
      <4>2. CASE f \in events /\ g \in deliveries
        BY <3>1, <4>1, <4>2, StoreIsJoin
      <4>3. CASE f = e \/ g = d
        <5>1. f = e /\ g = d
          BY <1>2, <1>4, <1>5, <2>1, <4>1, <4>3
        <5>. QED
          BY <3>1, <4>1, <5>1 DEF new
      <4>. QED
        BY <2>1, <4>1, <4>2, <4>3
    <3>2. CASE work \in storeBar
      BY <2>1, <3>2, StoreIsJoin
    <3>3. CASE work = new
      BY <1>2, <2>1, <3>3, StoreIsJoin DEF new
    <3>. QED
      BY <3>1, <3>2, <3>3
  <2>. QED
    BY <2>2
<1>9. /\ requestBar' = requestBar /\ requestBar[c] = request
      /\ Store!Say(c, "created", call[c].event) \/ Store!Say(c, "lost", 0)
  BY AnswerSays
<1>10. goneBar' = goneBar
  BY DEF goneBar
<1>. HIDE DEF request, new
<1>. QED
  BY <1>3, <1>6, <1>7, <1>8, <1>9, <1>10 DEF Store!Create

\* A step that answers and writes nothing.
LEMMA AnswerRefines ==
    ASSUME IngestionInv, NEW c \in Calls,
           ReadEndpoint(c) \/ RefuseDisabled(c) \/ ReadConflicting(c) \/ ReadInitialDelivery(c)
    PROVE  Store!Next \/ UNCHANGED Store!vars
<1>1. /\ call[c].pc # "done" /\ UNCHANGED <<events, deliveries, purged>>
  BY DEF ReadEndpoint, RefuseDisabled, ReadConflicting, ReadInitialDelivery
<1>2. storeBar' = storeBar /\ goneBar' = goneBar
  BY <1>1 DEF storeBar, goneBar
<1>3. ASSUME NEW kind \in {"invalid", "missing", "disabled"}, Answer(c, kind)
      PROVE  Store!Next
  BY <1>1, <1>2, <1>3, AnswerSays DEF Store!Refuse, Store!Next
<1>4. ASSUME Answer(c, "error"), NEW e \in purged, e.key = call[c].request.key
      PROVE  Store!Next
  <2>1. [id |-> e.id, key |-> e.key] \in goneBar
    BY DEF goneBar
  <2>2. Store!Fail(c)
    BY <1>1, <1>2, <1>4, <2>1, AnswerSays DEF Store!Fail
  <2>. QED
    BY <2>2 DEF Store!Next
<1>5. CASE ReadEndpoint(c)
  <2>1. CASE Answer(c, "invalid") \/ Answer(c, "missing")
    BY <1>3, <2>1
  <2>2. CASE call' = [call EXCEPT ![c].pc = "ready",
                                  ![c].seen = enabled[call[c].request.endpoint]]
    <3>1. \A b \in Calls : /\ call'[b].request = call[b].request
                           /\ call'[b].answer = call[b].answer
                           /\ call'[b].event = call[b].event
      BY <2>2 DEF IngestionInv, TypeOK, CallStates
    <3>. QED
      BY <1>1, <3>1, SilentStep
  <2>. QED
    BY <1>5, <2>1, <2>2 DEF ReadEndpoint
<1>6. CASE RefuseDisabled(c)
  BY <1>3, <1>6 DEF RefuseDisabled
<1>7. CASE ReadConflicting(c)
  <2>1. CASE Answer(c, "error") /\ \A e \in events : e.key # call[c].request.key
    <3>1. PICK e \in purged : e.key = call[c].request.key
      BY <1>7, <2>1 DEF ReadConflicting, IngestionInv, CallsKnowTheirEvent
    <3>. QED
      BY <1>4, <2>1, <3>1
  <2>2. ASSUME NEW e \in events, e.key = call[c].request.key, ~SameRequest(c, e),
               Answer(c, "reused")
        PROVE  Store!Next
    <3>. DEFINE d == [event |-> e.id, endpoint |-> e.fingerprint[1]]
    <3>1. d \in deliveries /\ d.event = e.id /\ d.endpoint = e.fingerprint[1]
      BY DEF IngestionInv, EventsAreScheduled
    <3>2. Work(e, d) \in storeBar
      BY <3>1, StoreIsJoin
    <3>3. Work(e, d).request.key = call[c].request.key
      BY <2>2, WorkFields
    <3>4. Work(e, d).request # call[c].request
      <4>1. e.fingerprint # <<call[c].request.endpoint, call[c].request.body>>
        BY <2>2 DEF SameRequest, Fingerprint
      <4>2. e.fingerprint = <<e.fingerprint[1], e.fingerprint[2]>>
        BY DEF IngestionInv, TypeOK, EventRows
      <4>3. /\ Work(e, d).request.endpoint = e.fingerprint[1]
            /\ Work(e, d).request.body = e.fingerprint[2]
        BY <3>1, WorkFields
      <4>. QED
        BY <4>1, <4>2, <4>3
    <3>. HIDE DEF d
    <3>5. Store!Reuse(c)
      BY <1>1, <1>2, <2>2, <3>2, <3>3, <3>4, AnswerSays DEF Store!Reuse
    <3>. QED
      BY <3>5 DEF Store!Next
  <2>3. ASSUME NEW e \in events,
               call' = [call EXCEPT ![c].pc = "found", ![c].event = e.id]
        PROVE  UNCHANGED Store!vars
    <3>1. /\ \A b \in Calls : /\ call'[b].request = call[b].request
                              /\ call'[b].answer = call[b].answer
          /\ \A b \in Calls \ {c} : call'[b].event = call[b].event
      BY <2>3 DEF IngestionInv, TypeOK, CallStates
    <3>2. ~Accepted(c)
      BY <1>1 DEF Accepted, IngestionInv, CallsAreInOrder
    <3>. QED
      BY <1>1, <3>1, <3>2, SilentStep
  <2>. QED
    BY <1>7, <2>1, <2>2, <2>3 DEF ReadConflicting
<1>8. CASE ReadInitialDelivery(c)
  <2>. DEFINE e == EventRow(call[c].event, call[c].request)
              d == DeliveryRow(call[c].event, call[c].request)
  <2>1. e \in events \cup purged
    BY <1>8 DEF ReadInitialDelivery, IngestionInv, CallsKnowTheirEvent
  <2>2. /\ e.id = call[c].event /\ e.key = call[c].request.key
        /\ e.fingerprint[1] = call[c].request.endpoint
        /\ e.fingerprint[2] = call[c].request.body
        /\ d.event = call[c].event /\ d.endpoint = call[c].request.endpoint
    BY DEF EventRow, DeliveryRow, Fingerprint
  <2>3. d = [event |-> e.id, endpoint |-> e.fingerprint[1]]
    BY <2>2 DEF DeliveryRow
  <2>4. call[c].request \in Requests
    BY DEF IngestionInv, TypeOK, CallStates
  <2>. HIDE DEF e
  <2>5. CASE d \in deliveries
    <3>1. Answer(c, "existing")
      BY <1>8, <2>5 DEF ReadInitialDelivery
    <3>. HIDE DEF d
    <3>2. PICK f \in events : f.id = d.event
      BY <2>5 DEF IngestionInv, EventsAreScheduled
    <3>3. e \in events
      BY <2>1, <2>2, <3>2 DEF IngestionInv, IdentitiesAreFresh
    <3>4. Work(e, d) \in storeBar
      BY <2>2, <2>5, <3>3, StoreIsJoin
    <3>5. Work(e, d).id = call[c].event /\ Work(e, d).request = call[c].request
      BY <2>2, <2>4, RequestFields, WorkFields
    <3>6. Store!Find(c)
      BY <1>1, <1>2, <3>1, <3>4, <3>5, AnswerSays DEF Store!Find
    <3>. QED
      BY <3>6 DEF Store!Next
  <2>6. CASE d \notin deliveries
    <3>1. Answer(c, "error")
      BY <1>8, <2>6 DEF ReadInitialDelivery
    <3>2. e \in purged
      BY <2>1, <2>3, <2>6 DEF IngestionInv, EventsAreScheduled
    <3>. QED
      BY <1>4, <2>2, <3>1, <3>2
  <2>. QED
    BY <2>5, <2>6
<1>. QED
  BY <1>5, <1>6, <1>7, <1>8

\* Retention removes an event together with its delivery.
LEMMA PurgeRefines ==
    ASSUME IngestionInv, NEW id \in 1 .. issued, Purge(id)
    PROVE  \E work \in storeBar : Store!Remove(work)
<1>1. PICK e \in events : e.id = id
  BY DEF Purge
<1>. DEFINE d == [event |-> e.id, endpoint |-> e.fingerprint[1]]
<1>2. d \in deliveries /\ d.event = e.id
  BY DEF IngestionInv, EventsAreScheduled
<1>3. Work(e, d) \in storeBar /\ Work(e, d).id = id
  BY <1>1, <1>2, StoreIsJoin, WorkFields
<1>4. storeBar' = {work \in storeBar : work.id # id}
  <2>1. ASSUME NEW work
        PROVE  work \in storeBar' <=> work \in storeBar /\ work.id # id
    <3>1. CASE work \in storeBar'
      <4>1. PICK f \in events', g \in deliveries' : g.event = f.id /\ work = Work(f, g)
        BY <3>1, StoreIsJoin
      <4>2. f \in events /\ f.id # id /\ g \in deliveries /\ work.id = f.id
        BY <4>1, WorkFields DEF Purge
      <4>. QED
        BY <3>1, <4>1, <4>2, StoreIsJoin
    <3>2. CASE work \in storeBar /\ work.id # id
      <4>1. PICK f \in events, g \in deliveries : g.event = f.id /\ work = Work(f, g)
        BY <3>2, StoreIsJoin
      <4>2. work.id = f.id
        BY <4>1, WorkFields
      <4>3. f \in events' /\ g \in deliveries'
        BY <3>2, <4>1, <4>2 DEF Purge
      <4>. QED
        BY <3>2, <4>1, <4>3, StoreIsJoin
    <3>. QED
      BY <3>1, <3>2
  <2>. QED
    BY <2>1
<1>. DEFINE removed == {[id |-> work.id, key |-> work.request.key] :
                           work \in {work \in storeBar : work.id = id}}
<1>5. goneBar' = goneBar \cup removed
  <2>1. goneBar' = goneBar \cup {[id |-> f.id, key |-> f.key] : f \in {f \in events : f.id = id}}
    BY DEF Purge, goneBar
  <2>2. ASSUME NEW f \in events, f.id = id
        PROVE  [id |-> f.id, key |-> f.key] \in removed
    <3>. DEFINE g == [event |-> f.id, endpoint |-> f.fingerprint[1]]
    <3>1. g \in deliveries /\ g.event = f.id
      BY DEF IngestionInv, EventsAreScheduled
    <3>2. PICK work \in storeBar : work = Work(f, g)
      BY <3>1, StoreIsJoin
    <3>3. work.id = f.id /\ work.request.key = f.key
      BY <3>2, WorkFields
    <3>. QED
      BY <2>2, <3>3
  <2>3. ASSUME NEW work \in storeBar, work.id = id
        PROVE  \E f \in events : f.id = id /\ f.key = work.request.key
    <3>1. PICK f \in events, g \in deliveries : g.event = f.id /\ work = Work(f, g)
      BY StoreIsJoin
    <3>2. work.id = f.id /\ work.request.key = f.key
      BY <3>1, WorkFields
    <3>. QED
      BY <2>3, <3>2
  <2>4. \A x \in removed : \E f \in events : f.id = id /\ x = [id |-> f.id, key |-> f.key]
    BY <2>3
  <2>. HIDE DEF removed
  <2>. QED
    BY <2>1, <2>2, <2>4
<1>6. requestBar' = requestBar /\ answerBar' = answerBar
  BY DEF Purge, requestBar, answerBar, Accepted
<1>. QED
  BY <1>3, <1>4, <1>5, <1>6 DEF Store!Remove

\* Publication implements EventStore: every call takes effect at once, in the
\* step that answers it (services.py publish, routers/v1.py publish_event).
THEOREM PublicationIsAtomic == Spec => ImplementsEventStore
<1>1. Init => Store!Init
  <2>. SUFFICES ASSUME Init
                PROVE  Store!Init
    OBVIOUS
  <2>1. \A c \in Calls : /\ call[c].request \in Requests /\ call[c].answer = "none"
    BY DEF Init, NewCall
  <2>2. requestBar \in [Calls -> Requests]
    BY <2>1 DEF requestBar
  <2>3. answerBar = [c \in Calls |-> Store!NoAnswer]
    BY <2>1 DEF answerBar, Accepted, Store!NoAnswer
  <2>4. storeBar = {} /\ goneBar = {}
    BY StoreIsJoin DEF Init, goneBar
  <2>. QED
    BY <2>2, <2>3, <2>4 DEF Store!Init
<1>2. ASSUME IngestionInv, [Next]_vars
      PROVE  [Store!Next]_(Store!vars)
  <2>. USE <1>2
  <2>1. ASSUME NEW c \in Calls, InsertConflicts(c) \/ InsertEvent(c) \/ InsertDelivery(c)
        PROVE  UNCHANGED Store!vars
    <3>1. /\ \A b \in Calls : /\ call'[b].request = call[b].request
                              /\ call'[b].answer = call[b].answer
          /\ \A b \in Calls \ {c} : call'[b].event = call[b].event
      BY <2>1 DEF InsertConflicts, InsertEvent, InsertDelivery, IngestionInv, TypeOK, CallStates
    <3>2. ~Accepted(c)
      BY <2>1 DEF InsertConflicts, InsertEvent, InsertDelivery, Accepted, IngestionInv,
                  CallsAreInOrder
    <3>3. UNCHANGED <<events, deliveries, purged>>
      BY <2>1 DEF InsertConflicts, InsertEvent, InsertDelivery
    <3>. QED
      BY <3>1, <3>2, <3>3, SilentStep
  <2>2. ASSUME NEW c \in Calls, CommitPublish(c)
        PROVE  Store!Next
    BY <2>2, CommitCreates DEF CommitPublish, Store!Next
  <2>3. ASSUME NEW c \in Calls, CallFails(c)
        PROVE  Store!Next
    <3>1. CASE UNCHANGED <<events, deliveries>>
      <4>1. storeBar' = storeBar /\ goneBar' = goneBar
        BY <2>3, <3>1 DEF CallFails, storeBar, goneBar
      <4>. QED
        BY <2>3, <4>1, AnswerSays DEF CallFails, Store!Refuse, Store!Next
    <3>2. CASE call[c].pc = "scheduled" /\ ~UNCHANGED <<events, deliveries>>
      BY <2>3, <3>2, CommitCreates DEF CallFails, Store!Next
    <3>. QED
      BY <2>3, <3>1, <3>2 DEF CallFails
  <2>4. ASSUME NEW id \in 1 .. issued, Purge(id)
        PROVE  Store!Next
    BY <2>4, PurgeRefines DEF Store!Next
  <2>5. ASSUME NEW e \in Registered, SetEnabled(e)
        PROVE  UNCHANGED Store!vars
    BY <2>5, SilentStep DEF SetEnabled
  <2>6. CASE UNCHANGED vars
    BY <2>6, SilentStep DEF vars
  <2>. QED
    BY <2>1, <2>2, <2>3, <2>4, <2>5, <2>6, AnswerRefines DEF Next, CallStep
<1>. QED
  BY <1>1, <1>2, IngestionInvariant, PTL DEF Spec, ImplementsEventStore, Store!Spec
=============================================================================
