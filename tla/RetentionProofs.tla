-------------------------- MODULE RetentionProofs --------------------------
(***************************************************************************)
(* The safety properties of ReplayRetention for any number of events,      *)
(* replay calls, keys and retention runs: replay and retention interleave  *)
(* statement by statement and only their row locks order them.             *)
(***************************************************************************)
EXTENDS ReplayRetention, TLAPS

-----------------------------------------------------------------------------
(* The inductive invariant: types, the committed tables, the calls, the    *)
(* retention run, and the locks between the last two.                      *)

Rows ==
    [event : Events \cup {None}, generation : Nat,
     status : DeliveryStatuses \cup {"absent"}, from : Deliveries \cup {None},
     key : Keys \cup {None}, blocked : BOOLEAN]

CallStates ==
    [pc : {"new", "read", "event_locked", "locked", "inserted", "done"},
     source : Deliveries \cup {None}, key : Keys \cup {None},
     event : Events \cup {None}, seen : DeliveryStatuses \cup {"absent", None},
     answer : Deliveries \cup {None}, created : BOOLEAN]

RunStates ==
    [pc : {"idle", "selecting", "selected", "deleting", "rows_deleted"},
     batch : SUBSET Events, scan : SUBSET Deliveries,
     rows : SUBSET Deliveries, events : SUBSET Events]

TypeOK ==
    /\ event \in [Events -> {"fresh", "expired", "absent"}]
    /\ row \in [Deliveries -> Rows]
    /\ nextId \in Deliveries /\ nextId >= EventCount
    /\ enabled \in BOOLEAN
    /\ request \in [Requests -> CallStates]
    /\ cleaner \in [Cleaners -> RunStates]

\* Row e is the first generation of event e, every other row is a replay; the
\* rows have drawn their identities, and their events exist.
RowsAreWellFormed ==
    \A d \in Deliveries :
        IF Exists(d)
        THEN /\ d <= nextId
             /\ row[d].event \in Events /\ event[row[d].event] # "absent"
             /\ d \in Events =>
                   /\ row[d].event = d /\ row[d].generation = 0
                   /\ row[d].from = None
             /\ d \notin Events =>
                   row[d].generation # 0 /\ row[d].from # None /\ row[d].key \in Keys
        ELSE row[d] = AbsentRow /\ (d \in Events => event[d] = "absent")

TableInv == RowsAreWellFormed /\ UniqueIndexesHold /\ ReplaysFollowDeadLetters

\* The call is past its first read.
InTransaction(r) == request[r].pc \in {"read", "event_locked", "locked", "inserted"}

Answered(r) == request[r].pc = "done" /\ request[r].answer # None

\* The source a call works on is the row it read: it is in the event's chain
\* or was deleted with it, and a dead letter it saw is one still.  No row that
\* is being inserted is anybody's source.
CallsKnowTheirSource ==
    \A r \in Requests :
        /\ InTransaction(r) \/ Answered(r) =>
              /\ request[r].source \in 1 .. nextId /\ request[r].key \in Keys
              /\ \A other \in Requests : request[other].pc = "inserted" =>
                    request[other].answer # request[r].source
        /\ InTransaction(r) =>
              /\ request[r].event \in Events
              /\ \/ event[request[r].event] = "absent"
                 \/ /\ Exists(request[r].source)
                    /\ row[request[r].source].event = request[r].event
                    /\ request[r].seen = "dead_lettered" =>
                          row[request[r].source].status = "dead_lettered"
        /\ request[r].pc \notin {"inserted", "done"} => request[r].answer = None

\* The event's row lock is the mutex of its chain.
EventLockExcludes ==
    \A r, other \in Requests :
        \A e \in Events : LocksEvent(r, e) /\ LocksEvent(other, e) => r = other

LockedEventsExist ==
    \A r \in Requests :
        request[r].pc \in {"event_locked", "locked", "inserted"} =>
            event[request[r].event] # "absent"

\* What a call found before its INSERT still holds when it commits.
InsertsAreReady ==
    \A r \in Requests : request[r].pc = "inserted" =>
        /\ request[r].answer \in (EventCount + 1) .. nextId
        /\ ~Exists(request[r].answer)
        /\ \A other \in Requests \ {r} : request[other].answer # request[r].answer
        /\ ReplaysOf(r) = {}
        /\ request[r].seen = "dead_lettered"
        /\ ~row[request[r].source].blocked
        /\ \A d \in Chain(request[r].event) :
              ~Active(d) /\ row[d].generation <= row[request[r].source].generation

\* The delivery a call was answered with replays its source under its key,
\* and is gone only when the source is gone.
AnswersAreReplays ==
    \A r \in Requests : Answered(r) =>
        /\ request[r].answer \in 1 .. nextId
        /\ Exists(request[r].source) =>
              /\ Exists(request[r].answer)
              /\ row[request[r].answer].from = request[r].source
              /\ row[request[r].answer].key = request[r].key

CallInv ==
    /\ CallsKnowTheirSource /\ EventLockExcludes /\ LockedEventsExist
    /\ InsertsAreReady /\ AnswersAreReplays /\ ReplayIsIdempotent

\* pg_try_advisory_xact_lock admits one retention run.
OneRunAtATime ==
    \A c \in Cleaners :
        /\ cleaner[c].pc = "idle" => cleaner[c] = IdleCleaner
        /\ Running(c) => \A other \in Cleaners \ {c} : ~Running(other)

\* A run deletes committed rows of the events it works on, none of which had
\* active first work.
DeletionsAreSelected ==
    \A c \in Cleaners :
        /\ cleaner[c].pc = "selecting" => cleaner[c].batch = {}
        /\ cleaner[c].pc # "deleting" => cleaner[c].scan = {}
        /\ \A d \in cleaner[c].rows \cup cleaner[c].scan :
              Exists(d) /\ row[d].event \in cleaner[c].batch \cup cleaner[c].events
        /\ \A e \in cleaner[c].batch \cup cleaner[c].events : ~Active(e)

\* A deleted event takes its whole chain along.  A replay that commits while
\* the rows are being deleted leaves a row whose foreign key will refuse it.
DeletionsAreWhole ==
    \A c \in Cleaners :
        /\ \A e \in cleaner[c].events : Chain(e) \subseteq cleaner[c].rows
        /\ cleaner[c].pc = "rows_deleted" =>
              \A e \in cleaner[c].batch : Chain(e) \subseteq cleaner[c].rows
        /\ cleaner[c].pc = "deleting" =>
              \A e \in cleaner[c].batch :
                  \/ Chain(e) \subseteq cleaner[c].rows \cup cleaner[c].scan
                  \/ \E d \in Chain(e) \ (cleaner[c].rows \cup cleaner[c].scan) :
                        row[d].from \in cleaner[c].rows \cup cleaner[c].scan

RunInv == OneRunAtATime /\ DeletionsAreSelected /\ DeletionsAreWhole

\* A call and a retention run never hold the same row.
LocksExclude ==
    \A r \in Requests, c \in Cleaners :
        /\ \A e \in cleaner[c].events : ~LocksEvent(r, e)
        /\ \A d \in cleaner[c].rows : ~LocksRow(r, d)

RetentionInv == TypeOK /\ TableInv /\ CallInv /\ RunInv /\ LocksExclude

-----------------------------------------------------------------------------
(* What a step that leaves a part of the state alone preserves.            *)

\* The table of the state machine leads from active statuses only.
LEMMA Transitions ==
    ASSUME NEW s \in DeliveryStatuses, NEW t \in ALLOWED_TRANSITIONS[s]
    PROVE  s \in ActiveStatuses /\ t \in DeliveryStatuses
BY DEF DeliveryStatuses, ALLOWED_TRANSITIONS, ActiveStatuses

LEMMA EventsAreDeliveries ==
    Events \subseteq Deliveries /\ Deliveries \subseteq Nat /\ None \notin Nat
BY RetentionAssumption DEF Events, Deliveries

LEMMA DrawnIdentities ==
    ASSUME TypeOK
    PROVE  nextId \in Nat /\ 1 .. nextId \subseteq Deliveries
BY RetentionAssumption DEF TypeOK, Deliveries

\* Statements of a call before its commit, and of a run, change no table.
LEMMA TableFrame ==
    ASSUME TableInv, UNCHANGED <<event, row, nextId>>
    PROVE  TableInv'
BY DEF TableInv, RowsAreWellFormed, UniqueIndexesHold, ReplaysFollowDeadLetters,
       Exists, Active

LEMMA CallFrame ==
    ASSUME CallInv, UNCHANGED <<event, row, nextId, request>>
    PROVE  CallInv'
BY DEF CallInv, CallsKnowTheirSource, EventLockExcludes, LockedEventsExist,
       InsertsAreReady, AnswersAreReplays, ReplayIsIdempotent, InTransaction,
       Answered, LocksEvent, ReplaysOf, Chain, Exists, Active

LEMMA RunFrame ==
    ASSUME RunInv, UNCHANGED <<row, cleaner>>
    PROVE  RunInv'
BY DEF RunInv, OneRunAtATime, DeletionsAreSelected, DeletionsAreWhole, Running,
       Chain, Exists, Active

\* A call that ends without a delivery, refused or failed, leaves nothing.
LEMMA CallEnds ==
    ASSUME RetentionInv, NEW r \in Requests,
           request' \in [Requests -> CallStates],
           request'[r].pc = "done", request'[r].answer = None,
           \A other \in Requests \ {r} : request'[other] = request[other],
           UNCHANGED <<event, row, nextId, enabled, cleaner>>
    PROVE  RetentionInv'
<1>. USE DEF RetentionInv
<1>1. TypeOK'
  BY DEF TypeOK
<1>2. CallInv'
  <2>1. CallsKnowTheirSource'
    BY DEF CallInv, CallsKnowTheirSource, InTransaction, Answered, Exists
  <2>2. EventLockExcludes'
    BY DEF CallInv, EventLockExcludes, LocksEvent
  <2>3. LockedEventsExist'
    BY DEF CallInv, LockedEventsExist
  <2>4. InsertsAreReady'
    BY RetentionAssumption
       DEF CallInv, InsertsAreReady, ReplaysOf, Chain, Exists, Active, TypeOK, Deliveries
  <2>5. AnswersAreReplays'
    BY DEF CallInv, AnswersAreReplays, Answered, Exists
  <2>6. ReplayIsIdempotent'
    BY DEF CallInv, ReplayIsIdempotent
  <2>. QED
    BY <2>1, <2>2, <2>3, <2>4, <2>5, <2>6 DEF CallInv
<1>3. LocksExclude'
  BY DEF LocksExclude, LocksEvent, LocksRow
<1>. QED
  BY <1>1, <1>2, <1>3, TableFrame, RunFrame

\* A run that ends, by a failure or a refused deletion, leaves nothing.
LEMMA RunEnds ==
    ASSUME RetentionInv, NEW c \in Cleaners,
           cleaner' = [cleaner EXCEPT ![c] = IdleCleaner],
           UNCHANGED <<event, row, nextId, enabled, request>>
    PROVE  RetentionInv'
<1>. USE DEF RetentionInv
<1>1. TypeOK'
  BY DEF TypeOK, RunStates, IdleCleaner
<1>2. RunInv'
  BY DEF RunInv, OneRunAtATime, DeletionsAreSelected, DeletionsAreWhole, Running,
         Chain, Exists, Active, IdleCleaner, TypeOK
<1>3. LocksExclude'
  BY DEF LocksExclude, LocksEvent, LocksRow, IdleCleaner, TypeOK
<1>. QED
  BY <1>1, <1>2, <1>3, TableFrame, CallFrame

-----------------------------------------------------------------------------
(* The statements of a replay call.                                        *)

\* An answer ends the call and changes no other.
LEMMA AnswerEffect ==
    ASSUME TypeOK, NEW r \in Requests, NEW answer \in Deliveries \cup {None},
           NEW created \in BOOLEAN, Answer(r, answer, created)
    PROVE  /\ request' \in [Requests -> CallStates]
           /\ \A other \in Requests \ {r} : request'[other] = request[other]
           /\ request'[r].pc = "done" /\ request'[r].answer = answer
           /\ request'[r].created = created
           /\ request'[r].source = request[r].source
           /\ request'[r].key = request[r].key
<1>1. request \in [Requests -> CallStates] /\ request[r] \in CallStates
  BY DEF TypeOK
<1>2. \A other \in Requests \ {r} : request'[other] = request[other]
  BY <1>1 DEF Answer
<1>. DEFINE q == [request[r] EXCEPT !.pc = "done", !.answer = answer,
                                    !.created = created]
<1>3. request' = [request EXCEPT ![r] = q]
  BY <1>1 DEF Answer
<1>4. q \in CallStates
  BY <1>1 DEF CallStates
<1>5. /\ q.pc = "done" /\ q.answer = answer /\ q.created = created
      /\ q.source = request[r].source /\ q.key = request[r].key
  BY <1>1 DEF CallStates
<1>. HIDE DEF q
<1>. QED
  BY <1>1, <1>2, <1>3, <1>4, <1>5

\* The unlocked read fixes the source, its event and the status it had.
LEMMA ReadCandidateStep ==
    ASSUME RetentionInv, NEW r \in Requests, ReadCandidate(r)
    PROVE  RetentionInv'
<1>. USE DEF RetentionInv
<1>1. PICK d \in 1 .. nextId, k \in Keys :
          request' = [request EXCEPT
            ![r].pc = IF Exists(d) THEN "read" ELSE "done",
            ![r].source = d, ![r].key = k,
            ![r].event = row[d].event, ![r].seen = row[d].status]
  BY DEF ReadCandidate
<1>2. UNCHANGED <<event, row, nextId, enabled, cleaner>> /\ request[r].pc = "new"
  BY DEF ReadCandidate
<1>3. d \in Deliveries /\ row[d] \in Rows
  BY DrawnIdentities DEF TypeOK
<1>4. request' \in [Requests -> CallStates]
  <2>. DEFINE q == [request[r] EXCEPT
                      !.pc = IF Exists(d) THEN "read" ELSE "done", !.source = d,
                      !.key = k, !.event = row[d].event, !.seen = row[d].status]
  <2>1. request \in [Requests -> CallStates] /\ request[r] \in CallStates
    BY DEF TypeOK
  <2>2. request' = [request EXCEPT ![r] = q]
    BY <1>1, <2>1
  <2>3. q \in CallStates
    BY <1>3, <2>1 DEF CallStates, Rows
  <2>. HIDE DEF q
  <2>. QED
    BY <2>1, <2>2, <2>3
<1>5. /\ \A other \in Requests \ {r} : request'[other] = request[other]
      /\ request'[r].source = d /\ request'[r].key = k
      /\ request'[r].event = row[d].event /\ request'[r].seen = row[d].status
      /\ request'[r].answer = None
      /\ request'[r].pc = IF Exists(d) THEN "read" ELSE "done"
  BY <1>1, <1>2 DEF TypeOK, CallStates, CallInv, CallsKnowTheirSource
<1>6. CASE ~Exists(d)
  BY <1>2, <1>4, <1>5, <1>6, CallEnds
<1>7. CASE Exists(d)
  <2>. USE <1>2, <1>5, <1>7
  <2>1. TypeOK'
    BY <1>4 DEF TypeOK
  <2>2. CallsKnowTheirSource'
    <3>1. \A other \in Requests :
              request[other].pc = "inserted" => request[other].answer # d
      BY DEF CallInv, InsertsAreReady
    <3>2. row[d].event \in Events
      BY <1>3 DEF TableInv, RowsAreWellFormed
    <3>. QED
      BY <3>1, <3>2 DEF CallInv, CallsKnowTheirSource, InTransaction, Answered, Exists
  <2>3. EventLockExcludes'
    BY DEF CallInv, EventLockExcludes, LocksEvent
  <2>4. LockedEventsExist'
    BY DEF CallInv, LockedEventsExist
  <2>5. InsertsAreReady'
    BY RetentionAssumption DEF CallInv, InsertsAreReady, ReplaysOf, Chain, Exists, Active
  <2>6. AnswersAreReplays' /\ ReplayIsIdempotent'
    BY DEF CallInv, AnswersAreReplays, ReplayIsIdempotent, Answered, Exists
  <2>7. LocksExclude'
    BY DEF LocksExclude, LocksEvent, LocksRow
  <2>. QED
    BY <2>1, <2>2, <2>3, <2>4, <2>5, <2>6, <2>7, TableFrame, RunFrame DEF CallInv
<1>. QED
  BY <1>6, <1>7

\* FOR UPDATE on the event: nobody else holds it, and the source is in it.
LEMMA LockEventStep ==
    ASSUME RetentionInv, NEW r \in Requests, LockEvent(r)
    PROVE  RetentionInv'
<1>. USE DEF RetentionInv
<1>1. /\ request[r].pc = "read" /\ EventFree(request[r].event)
      /\ request' = [request EXCEPT
            ![r].pc = IF event[request[r].event] = "absent" THEN "done"
                                                            ELSE "event_locked"]
      /\ UNCHANGED <<event, row, nextId, enabled, cleaner>>
  BY DEF LockEvent
<1>2. request[r].answer = None /\ request[r].event \in Events
  BY <1>1 DEF CallInv, CallsKnowTheirSource, InTransaction
<1>3. request' \in [Requests -> CallStates]
  BY <1>1 DEF TypeOK, CallStates
<1>4. CASE event[request[r].event] = "absent"
  BY <1>1, <1>2, <1>3, <1>4, CallEnds DEF TypeOK, CallStates
<1>5. CASE event[request[r].event] # "absent"
  <2>1. /\ \A other \in Requests \ {r} : request'[other] = request[other]
        /\ request'[r] = [request[r] EXCEPT !.pc = "event_locked"]
        /\ request'[r].pc = "event_locked"
    BY <1>1, <1>5 DEF TypeOK, CallStates
  <2>. USE <1>1, <2>1
  <2>2. TypeOK'
    BY <1>3 DEF TypeOK
  <2>3. CallsKnowTheirSource'
    BY DEF CallInv, CallsKnowTheirSource, InTransaction, Answered, Exists, TypeOK, CallStates
  <2>4. EventLockExcludes'
    BY DEF CallInv, EventLockExcludes, LocksEvent, EventFree, TypeOK, CallStates
  <2>5. LockedEventsExist'
    BY <1>5 DEF CallInv, LockedEventsExist, TypeOK, CallStates
  <2>6. InsertsAreReady'
    BY DEF CallInv, InsertsAreReady, ReplaysOf, Chain, Exists, Active, TypeOK, CallStates
  <2>7. AnswersAreReplays' /\ ReplayIsIdempotent'
    BY DEF CallInv, AnswersAreReplays, ReplayIsIdempotent, Answered, Exists
  <2>8. LocksExclude'
    BY DEF LocksExclude, LocksEvent, LocksRow, EventFree, TypeOK, CallStates
  <2>. QED
    BY <2>2, <2>3, <2>4, <2>5, <2>6, <2>7, <2>8, TableFrame, RunFrame DEF CallInv
<1>. QED
  BY <1>4, <1>5

\* FOR UPDATE on the delivery: no run has deleted it.
LEMMA LockSourceStep ==
    ASSUME RetentionInv, NEW r \in Requests, LockSource(r)
    PROVE  RetentionInv'
<1>. USE DEF RetentionInv
<1>1. /\ request[r].pc = "event_locked" /\ RowFree(request[r].source)
      /\ request' = [request EXCEPT
            ![r].pc = IF Exists(request[r].source) THEN "locked" ELSE "done"]
      /\ UNCHANGED <<event, row, nextId, enabled, cleaner>>
  BY DEF LockSource
<1>2. request[r].answer = None
  BY <1>1 DEF CallInv, CallsKnowTheirSource
<1>3. request' \in [Requests -> CallStates]
  BY <1>1 DEF TypeOK, CallStates
<1>4. CASE ~Exists(request[r].source)
  BY <1>1, <1>2, <1>3, <1>4, CallEnds DEF TypeOK, CallStates
<1>5. CASE Exists(request[r].source)
  <2>1. /\ \A other \in Requests \ {r} : request'[other] = request[other]
        /\ request'[r] = [request[r] EXCEPT !.pc = "locked"]
        /\ request'[r].pc = "locked"
    BY <1>1, <1>5 DEF TypeOK, CallStates
  <2>. USE <1>1, <2>1
  <2>2. TypeOK'
    BY <1>3 DEF TypeOK
  <2>3. CallsKnowTheirSource'
    BY DEF CallInv, CallsKnowTheirSource, InTransaction, Answered, Exists, TypeOK, CallStates
  <2>4. EventLockExcludes'
    BY DEF CallInv, EventLockExcludes, LocksEvent, TypeOK, CallStates
  <2>5. LockedEventsExist'
    BY DEF CallInv, LockedEventsExist, TypeOK, CallStates
  <2>6. InsertsAreReady'
    BY DEF CallInv, InsertsAreReady, ReplaysOf, Chain, Exists, Active, TypeOK, CallStates
  <2>7. AnswersAreReplays' /\ ReplayIsIdempotent'
    BY DEF CallInv, AnswersAreReplays, ReplayIsIdempotent, Answered, Exists
  <2>8. LocksExclude'
    BY DEF LocksExclude, LocksEvent, LocksRow, RowFree, TypeOK, CallStates
  <2>. QED
    BY <2>2, <2>3, <2>4, <2>5, <2>6, <2>7, <2>8, TableFrame, RunFrame DEF CallInv
<1>. QED
  BY <1>4, <1>5

\* What holds of a call that has locked its source.
LEMMA LockedSource ==
    ASSUME RetentionInv, NEW r \in Requests,
           request[r].pc \in {"locked", "inserted"}
    PROVE  /\ request[r].source \in Deliveries /\ Exists(request[r].source)
           /\ request[r].source # None /\ request[r].key \in Keys
           /\ row[request[r].source].event = request[r].event
           /\ request[r].event \in Events /\ event[request[r].event] # "absent"
           /\ request[r].seen = "dead_lettered" =>
                 row[request[r].source].status = "dead_lettered"
<1>1. request[r].source \in 1 .. nextId /\ request[r].key \in Keys
  BY DEF RetentionInv, CallInv, CallsKnowTheirSource, InTransaction
<1>2. request[r].source \in Deliveries /\ request[r].source # None
  BY <1>1, DrawnIdentities, EventsAreDeliveries DEF RetentionInv
<1>3. event[request[r].event] # "absent"
  BY DEF RetentionInv, CallInv, LockedEventsExist
<1>. QED
  BY <1>1, <1>2, <1>3
     DEF RetentionInv, CallInv, CallsKnowTheirSource, InTransaction

\* The key was used before: the call is answered with that replay.
LEMMA ReturnExistingStep ==
    ASSUME RetentionInv, NEW r \in Requests, ReturnExisting(r)
    PROVE  RetentionInv'
<1>. USE DEF RetentionInv
<1>1. request[r].pc = "locked" /\ UNCHANGED <<event, row, nextId, enabled, cleaner>>
  BY DEF ReturnExisting
<1>2. PICK d \in ReplaysOf(r) : Answer(r, d, FALSE)
  BY DEF ReturnExisting
<1>3. /\ d \in Deliveries /\ Exists(d) /\ d \in 1 .. nextId
      /\ row[d].from = request[r].source /\ row[d].key = request[r].key
  BY EventsAreDeliveries DEF ReplaysOf, TableInv, RowsAreWellFormed, TypeOK, Deliveries
<1>4. d # None
  BY <1>3, EventsAreDeliveries
<1>5. /\ \A other \in Requests \ {r} : request'[other] = request[other]
      /\ request'[r].pc = "done" /\ request'[r].answer = d /\ request'[r].created = FALSE
      /\ request'[r].source = request[r].source /\ request'[r].key = request[r].key
      /\ request' \in [Requests -> CallStates]
  BY <1>2, <1>3, AnswerEffect
<1>. USE <1>1, <1>3, <1>4, <1>5
<1>6. TypeOK'
  BY DEF TypeOK
<1>7. CallsKnowTheirSource'
  BY DEF CallInv, CallsKnowTheirSource, InTransaction, Answered, Exists
<1>8. EventLockExcludes'
  BY DEF CallInv, EventLockExcludes, LocksEvent
<1>9. LockedEventsExist'
  BY DEF CallInv, LockedEventsExist
<1>10. InsertsAreReady'
  BY DEF CallInv, InsertsAreReady, ReplaysOf, Chain, Exists, Active
<1>11. AnswersAreReplays'
  BY DEF CallInv, AnswersAreReplays, Answered, Exists
<1>12. ReplayIsIdempotent'
  <2>1. ASSUME NEW other \in Requests \ {r}, Answered(other),
               request[other].source = request[r].source,
               request[other].key = request[r].key
        PROVE  request[other].answer = d
    <3>1. Exists(request[r].source) /\ request[r].source # None
      BY LockedSource
    <3>2. /\ Exists(request[other].answer) /\ request[other].answer \in Deliveries
          /\ row[request[other].answer].from = request[r].source
          /\ row[request[other].answer].key = request[r].key
      BY <2>1, <3>1, DrawnIdentities DEF CallInv, AnswersAreReplays
    <3>. QED
      BY <3>1, <3>2 DEF TableInv, UniqueIndexesHold
  <2>. QED
    BY <2>1 DEF CallInv, ReplayIsIdempotent, Answered
<1>13. LocksExclude'
  BY DEF LocksExclude, LocksEvent, LocksRow
<1>. QED
  BY <1>6, <1>7, <1>8, <1>9, <1>10, <1>11, <1>12, <1>13, TableFrame, RunFrame DEF CallInv

\* A call that is refused or that fails ends without a delivery.
LEMMA EmptyAnswerStep ==
    ASSUME RetentionInv, NEW r \in Requests, Answer(r, None, FALSE),
           UNCHANGED <<event, row, nextId, enabled, cleaner>>
    PROVE  RetentionInv'
BY AnswerEffect, CallEnds DEF RetentionInv

\* The INSERT draws a new identity, after every check of replay.
LEMMA InsertReplayStep ==
    ASSUME RetentionInv, NEW r \in Requests, InsertReplay(r)
    PROVE  RetentionInv'
<1>. USE DEF RetentionInv
<1>1. /\ request[r].pc = "locked" /\ ReplaysOf(r) = {} /\ Replayable(r)
      /\ nextId < MaxDeliveries /\ nextId' = nextId + 1
      /\ UNCHANGED <<event, row, enabled, cleaner>>
  BY DEF InsertReplay
<1>2. /\ nextId \in Nat /\ nextId >= EventCount /\ nextId' \in Deliveries
      /\ EventCount \in Nat
  BY <1>1, RetentionAssumption, DrawnIdentities DEF TypeOK, Deliveries
<1>3. request' \in [Requests -> CallStates]
  <2>. DEFINE q == [request[r] EXCEPT !.pc = "inserted", !.answer = nextId']
  <2>1. request \in [Requests -> CallStates] /\ request[r] \in CallStates
    BY DEF TypeOK
  <2>2. request' = [request EXCEPT ![r] = q]
    BY <1>1, <2>1 DEF InsertReplay
  <2>3. q \in CallStates
    BY <1>2, <2>1 DEF CallStates
  <2>. HIDE DEF q
  <2>. QED
    BY <2>1, <2>2, <2>3
<1>4. /\ \A other \in Requests \ {r} : request'[other] = request[other]
      /\ request'[r].pc = "inserted" /\ request'[r].answer = nextId'
      /\ request'[r].source = request[r].source /\ request'[r].key = request[r].key
      /\ request'[r].event = request[r].event /\ request'[r].seen = request[r].seen
  BY <1>1 DEF InsertReplay, TypeOK, CallStates
<1>5. ~Exists(nextId')
  BY <1>1, <1>2 DEF TableInv, RowsAreWellFormed
<1>6. \A other \in Requests :
          /\ InTransaction(other) \/ Answered(other) => request[other].source # nextId'
          /\ request[other].answer # nextId'
  <2>1. ASSUME NEW other \in Requests, request[other].answer = nextId'
        PROVE  FALSE
    <3>1. request[other].answer # None /\ request[other].answer \notin 1 .. nextId
      BY <1>1, <1>2, <2>1, EventsAreDeliveries
    <3>2. request[other].pc \in {"inserted", "done"}
      BY <3>1 DEF CallInv, CallsKnowTheirSource
    <3>3. request[other].answer \in 1 .. nextId
      BY <1>2, <3>1, <3>2 DEF CallInv, InsertsAreReady, AnswersAreReplays, Answered
    <3>. QED
      BY <3>1, <3>3
  <2>. QED
    BY <1>1, <1>2, <2>1 DEF CallInv, CallsKnowTheirSource
<1>. USE <1>1, <1>2, <1>4
<1>7. TypeOK'
  BY <1>3 DEF TypeOK
<1>8. TableInv'
  BY DEF TableInv, RowsAreWellFormed, UniqueIndexesHold, ReplaysFollowDeadLetters,
         Exists, Active, Deliveries
<1>9. CallsKnowTheirSource'
  BY <1>6 DEF CallInv, CallsKnowTheirSource, InTransaction, Answered, Exists
<1>10. EventLockExcludes' /\ LockedEventsExist'
  BY DEF CallInv, EventLockExcludes, LocksEvent, LockedEventsExist
<1>11. InsertsAreReady'
  <2>1. ASSUME NEW other \in Requests \ {r}, request[other].pc = "inserted"
        PROVE  /\ request[other].answer # nextId'
               /\ request[other].answer \in (EventCount + 1) .. nextId'
    BY <1>6, <2>1 DEF CallInv, InsertsAreReady
  <2>2. /\ row[request[r].source].event = request[r].event
        /\ request[r].seen = "dead_lettered" /\ ~row[request[r].source].blocked
        /\ \A d \in Chain(request[r].event) :
              ~Active(d) /\ row[d].generation <= row[request[r].source].generation
    BY LockedSource DEF Replayable, IsLatest
  <2>. QED
    BY <1>5, <1>6, <2>1, <2>2
       DEF CallInv, InsertsAreReady, ReplaysOf, Chain, Exists, Active
<1>12. AnswersAreReplays' /\ ReplayIsIdempotent'
  BY DEF CallInv, AnswersAreReplays, ReplayIsIdempotent, Answered, Exists
<1>13. LocksExclude'
  BY DEF LocksExclude, LocksEvent, LocksRow
<1>. QED
  BY <1>7, <1>8, <1>9, <1>10, <1>11, <1>12, <1>13, RunFrame DEF CallInv

\* The commit makes the next generation of the locked chain visible: what the
\* call checked before its INSERT holds still, for the event is locked.
LEMMA CommitReplayStep ==
    ASSUME RetentionInv, NEW r \in Requests, CommitReplay(r)
    PROVE  RetentionInv'
<1>. USE DEF RetentionInv
<1>1. request[r].pc = "inserted" /\ UNCHANGED <<event, nextId, enabled, cleaner>>
  BY DEF CommitReplay
<1>2. PICK s \in Deliveries, e \in Events, k \in Keys :
        /\ request[r].source = s /\ request[r].event = e /\ request[r].key = k
        /\ Exists(s) /\ s # None /\ row[s].event = e /\ event[e] # "absent"
        /\ row[s].status = "dead_lettered" /\ ~row[s].blocked
        /\ row[s].generation \in Nat
  BY <1>1, LockedSource DEF CallInv, InsertsAreReady, TypeOK, Rows
<1>3. PICK n \in Deliveries \ Events :
        /\ request[r].answer = n
        /\ n \in 1 .. nextId /\ ~Exists(n) /\ n # None
        /\ \A other \in Requests \ {r} : request[other].answer # n
        /\ ReplaysOf(r) = {}
        /\ \A d \in Chain(e) : ~Active(d) /\ row[d].generation <= row[s].generation
  <2>1. /\ request[r].answer \in (EventCount + 1) .. nextId
        /\ ~Exists(request[r].answer)
        /\ \A other \in Requests \ {r} : request[other].answer # request[r].answer
        /\ ReplaysOf(r) = {}
        /\ \A d \in Chain(e) : ~Active(d) /\ row[d].generation <= row[s].generation
    BY <1>1, <1>2 DEF CallInv, InsertsAreReady
  <2>2. /\ request[r].answer \in 1 .. nextId /\ request[r].answer \in Deliveries \ Events
        /\ request[r].answer # None
    BY <2>1, RetentionAssumption, DrawnIdentities, EventsAreDeliveries DEF Events
  <2>. QED
    BY <2>1, <2>2
<1>. DEFINE new == NewRow(e, row[s].generation + 1, s, k)
<1>4. /\ new \in Rows /\ new.event = e /\ new.generation = row[s].generation + 1
      /\ new.status = "pending" /\ new.from = s /\ new.key = k
  BY <1>2 DEF NewRow, Rows, DeliveryStatuses
<1>a. row' = [row EXCEPT ![n] = new] /\ Answer(r, n, TRUE)
  BY <1>2, <1>3 DEF CommitReplay
<1>. HIDE DEF new
<1>5. /\ row'[n] = new /\ Exists(n)'
      /\ \A d \in Deliveries \ {n} : /\ row'[d] = row[d]
                                     /\ Exists(d)' <=> Exists(d)
                                     /\ Active(d)' <=> Active(d)
  BY <1>a, <1>4 DEF TypeOK, Exists, Active
<1>6. /\ request' \in [Requests -> CallStates]
      /\ \A other \in Requests \ {r} : request'[other] = request[other]
      /\ request'[r].pc = "done" /\ request'[r].answer = n
      /\ request'[r].source = s /\ request'[r].key = k
  BY <1>2, <1>a, AnswerEffect
<1>7. \A other \in Requests \ {r} :
          request[other].pc \in {"event_locked", "locked", "inserted"} =>
              request[other].event # e
  BY <1>1, <1>2 DEF CallInv, EventLockExcludes, LocksEvent
<1>8. s # n
  BY <1>2, <1>3
<1>b. ASSUME NEW f \in Events \ {e}
      PROVE  Chain(f)' = Chain(f)
  <2>1. n \notin Chain(f) /\ n \notin Chain(f)'
    BY <1>3, <1>4, <1>5 DEF Chain
  <2>2. \A d \in Deliveries \ {n} : d \in Chain(f)' <=> d \in Chain(f)
    BY <1>5 DEF Chain
  <2>3. Chain(f) \subseteq Deliveries /\ Chain(f)' \subseteq Deliveries
    BY DEF Chain
  <2>. QED
    BY <2>1, <2>2, <2>3
<1>9. TypeOK'
  BY <1>1, <1>4, <1>6, <1>a DEF TypeOK
<1>10. TableInv'
  <2>1. RowsAreWellFormed'
    BY <1>1, <1>2, <1>3, <1>4, <1>5 DEF TableInv, RowsAreWellFormed
  <2>2. ASSUME NEW d \in Deliveries \ {n}, Exists(d)
        PROVE  /\ row[d].event = e => row[d].generation # new.generation /\ ~Active(d)
               /\ <<row[d].from, row[d].key>> # <<new.from, new.key>>
    <3>1. row[d].generation \in Nat
      BY DEF TypeOK, Rows
    <3>2. row[d].event = e => row[d].generation # new.generation /\ ~Active(d)
      BY <1>2, <1>3, <1>4, <2>2, <3>1 DEF Chain
    <3>3. ~(row[d].from = s /\ row[d].key = k)
      BY <1>2, <1>3, <2>2 DEF ReplaysOf
    <3>. QED
      BY <1>4, <3>2, <3>3
  <2>3. UniqueIndexesHold'
    BY <1>3, <1>4, <1>5, <2>2 DEF TableInv, UniqueIndexesHold
  <2>4. ReplaysFollowDeadLetters'
    <3>1. ASSUME NEW d \in Deliveries \ {n}, Exists(d), row[d].from # None
          PROVE  row[d].from \in Deliveries \ {n}
      BY <1>3, <3>1 DEF TableInv, ReplaysFollowDeadLetters, TypeOK, Rows, Exists
    <3>2. ASSUME NEW d \in Deliveries \ {n}, Exists(d), row[d].from # None
          PROVE  LET source == row'[row'[d].from]
                 IN  /\ source.status = "dead_lettered" /\ ~source.blocked
                     /\ source.event = row'[d].event
                     /\ row'[d].generation = source.generation + 1
      BY <1>5, <3>1, <3>2 DEF TableInv, ReplaysFollowDeadLetters
    <3>3. LET source == row'[new.from]
          IN  /\ source.status = "dead_lettered" /\ ~source.blocked
              /\ source.event = new.event
              /\ new.generation = source.generation + 1
      BY <1>2, <1>4, <1>5, <1>8
    <3>. QED
      BY <1>5, <3>2, <3>3 DEF ReplaysFollowDeadLetters
  <2>. QED
    BY <2>1, <2>3, <2>4 DEF TableInv
<1>11. CallsKnowTheirSource'
  <2>1. ASSUME NEW other \in Requests, InTransaction(other) \/ Answered(other)
        PROVE  request[other].source \in Deliveries \ {n}
    BY <1>1, <1>3, <2>1, DrawnIdentities DEF CallInv, CallsKnowTheirSource
  <2>2. InTransaction(r)
    BY <1>1 DEF InTransaction
  <2>. QED
    BY <1>1, <1>2, <1>3, <1>5, <1>6, <2>1, <2>2
       DEF CallInv, CallsKnowTheirSource, InTransaction, Answered, Exists
<1>12. EventLockExcludes' /\ LockedEventsExist'
  BY <1>1, <1>6 DEF CallInv, EventLockExcludes, LocksEvent, LockedEventsExist
<1>13. InsertsAreReady'
  <2>. SUFFICES ASSUME NEW other \in Requests \ {r}, request[other].pc = "inserted"
                PROVE  /\ ~Exists(request[other].answer)'
                       /\ ReplaysOf(other)' = {}
                       /\ ~row'[request[other].source].blocked
                       /\ \A d \in Chain(request[other].event)' :
                             /\ ~Active(d)'
                             /\ row'[d].generation <= row'[request[other].source].generation
    BY <1>1, <1>3, <1>6 DEF CallInv, InsertsAreReady
  <2>1. PICK so \in Deliveries, eo \in Events, no \in Deliveries :
          /\ request[other].source = so /\ request[other].event = eo
          /\ request[other].answer = no
          /\ row[so].event = eo /\ Exists(so)
    BY LockedSource, DrawnIdentities, RetentionAssumption DEF CallInv, InsertsAreReady
  <2>2. /\ eo # e /\ so # s /\ so # n /\ no # n
        /\ ~Exists(no) /\ ReplaysOf(other) = {} /\ ~row[so].blocked
        /\ \A d \in Chain(eo) : ~Active(d) /\ row[d].generation <= row[so].generation
    BY <1>2, <1>3, <1>7, <2>1 DEF CallInv, InsertsAreReady
  <2>3. Chain(eo)' = Chain(eo)
    BY <1>b, <2>2
  <2>4. ReplaysOf(other)' = {}
    BY <1>4, <1>5, <1>6, <2>1, <2>2 DEF ReplaysOf
  <2>. QED
    BY <1>3, <1>5, <1>6, <2>1, <2>2, <2>3, <2>4 DEF Chain
<1>14. AnswersAreReplays' /\ ReplayIsIdempotent'
  <2>1. ASSUME NEW other \in Requests \ {r}, Answered(other)
        PROVE  /\ request[other].source \in Deliveries \ {n}
               /\ request[other].answer \in Deliveries \ {n}
               /\ ~(request[other].source = s /\ request[other].key = k)
    <3>1. request[other].source \in Deliveries /\ request[other].answer \in Deliveries
      BY <2>1, DrawnIdentities DEF CallInv, CallsKnowTheirSource, AnswersAreReplays
    <3>2. request[other].source # n
      BY <1>1, <1>3, <2>1 DEF CallInv, CallsKnowTheirSource
    <3>3. ~(request[other].source = s /\ request[other].key = k)
      BY <1>2, <1>3, <2>1, <3>1 DEF CallInv, AnswersAreReplays, ReplaysOf
    <3>. QED
      BY <1>3, <3>1, <3>2, <3>3
  <2>2. AnswersAreReplays'
    BY <1>1, <1>3, <1>4, <1>5, <1>6, <2>1 DEF CallInv, AnswersAreReplays, Answered
  <2>3. ReplayIsIdempotent'
    BY <1>6, <2>1 DEF CallInv, ReplayIsIdempotent, Answered
  <2>. QED
    BY <2>2, <2>3
<1>15. LocksExclude'
  BY <1>1, <1>6 DEF LocksExclude, LocksEvent, LocksRow
<1>16. RunInv'
  <2>1. OneRunAtATime'
    BY <1>1 DEF RunInv, OneRunAtATime, Running
  <2>2. DeletionsAreSelected'
    BY <1>1, <1>3, <1>5, EventsAreDeliveries DEF RunInv, DeletionsAreSelected, TypeOK, RunStates
  <2>3. DeletionsAreWhole'
    <3>. SUFFICES ASSUME NEW c \in Cleaners
                  PROVE  /\ \A f \in cleaner[c].events : Chain(f)' \subseteq cleaner[c].rows
                         /\ cleaner[c].pc = "rows_deleted" =>
                               \A f \in cleaner[c].batch : Chain(f)' \subseteq cleaner[c].rows
                         /\ cleaner[c].pc = "deleting" =>
                               \A f \in cleaner[c].batch :
                                 \/ Chain(f)' \subseteq cleaner[c].rows \cup cleaner[c].scan
                                 \/ \E d \in Chain(f)' \ (cleaner[c].rows \cup cleaner[c].scan) :
                                       row'[d].from \in cleaner[c].rows \cup cleaner[c].scan
      BY <1>1 DEF DeletionsAreWhole
    <3>1. e \notin cleaner[c].events /\ s \notin cleaner[c].rows
      BY <1>1, <1>2 DEF LocksExclude, LocksEvent, LocksRow
    <3>2. n \notin cleaner[c].rows \cup cleaner[c].scan
      BY <1>3 DEF RunInv, DeletionsAreSelected
    <3>3. s \in Chain(e)
      BY <1>2 DEF Chain
    <3>4. n \in Chain(e)' /\ n \notin Chain(e)
      BY <1>3, <1>4, <1>5 DEF Chain
    <3>5. \A d \in Deliveries \ {n} : d \in Chain(e)' <=> d \in Chain(e)
      BY <1>5 DEF Chain
    <3>6. Chain(e) \subseteq Deliveries /\ Chain(e)' \subseteq Deliveries
      BY DEF Chain
    <3>7. \A f \in Events : \A d \in Chain(f) : row'[d] = row[d]
      BY <1>3, <1>5 DEF Chain
    <3>8. cleaner[c].batch \subseteq Events /\ cleaner[c].events \subseteq Events
      BY DEF TypeOK, RunStates
    <3>9. cleaner[c].pc = "rows_deleted" => e \notin cleaner[c].batch
      BY <3>1, <3>3 DEF RunInv, DeletionsAreWhole
    <3>10. ASSUME cleaner[c].pc = "deleting", e \in cleaner[c].batch
           PROVE  \E d \in Chain(e)' \ (cleaner[c].rows \cup cleaner[c].scan) :
                      row'[d].from \in cleaner[c].rows \cup cleaner[c].scan
      <4>1. CASE Chain(e) \subseteq cleaner[c].rows \cup cleaner[c].scan
        BY <1>4, <1>5, <3>2, <3>3, <3>4, <4>1
      <4>2. CASE ~(Chain(e) \subseteq cleaner[c].rows \cup cleaner[c].scan)
        <5>1. PICK d \in Chain(e) \ (cleaner[c].rows \cup cleaner[c].scan) :
                 row[d].from \in cleaner[c].rows \cup cleaner[c].scan
          BY <3>10, <4>2 DEF RunInv, DeletionsAreWhole
        <5>2. d \in Chain(e)' /\ row'[d] = row[d]
          BY <3>4, <3>5, <3>6, <3>7, <5>1
        <5>. QED
          BY <5>1, <5>2
      <4>. QED
        BY <4>1, <4>2
    <3>11. ASSUME NEW f \in Events \ {e}
           PROVE  Chain(f)' = Chain(f) /\ \A d \in Chain(f) : row'[d] = row[d]
      BY <1>b, <3>7, <3>11
    <3>. QED
      BY <3>1, <3>8, <3>9, <3>10, <3>11 DEF RunInv, DeletionsAreWhole
  <2>. QED
    BY <2>1, <2>2, <2>3 DEF RunInv
<1>. QED
  BY <1>9, <1>10, <1>11, <1>12, <1>13, <1>14, <1>15, <1>16 DEF CallInv

-----------------------------------------------------------------------------
(* The statements of a retention run.                                      *)

\* A statement of a run that takes no lock changes no table and no call.
LEMMA RunAdvances ==
    ASSUME RetentionInv, NEW c \in Cleaners, NEW q \in RunStates,
           cleaner' = [cleaner EXCEPT ![c] = q],
           UNCHANGED <<event, row, nextId, enabled, request>>,
           RunInv', LocksExclude'
    PROVE  RetentionInv'
<1>1. TypeOK'
  BY DEF RetentionInv, TypeOK
<1>. QED
  BY <1>1, TableFrame, CallFrame DEF RetentionInv

\* The advisory lock is free: no other run is under way.
LEMMA BeginCleanupStep ==
    ASSUME RetentionInv, NEW c \in Cleaners, BeginCleanup(c)
    PROVE  RetentionInv'
<1>. DEFINE q == [IdleCleaner EXCEPT !.pc = "selecting"]
<1>1. /\ cleaner[c] = IdleCleaner /\ \A other \in Cleaners : ~Running(other)
      /\ UNCHANGED <<event, row, nextId, enabled, request>>
  BY DEF BeginCleanup, RetentionInv, RunInv, OneRunAtATime
<1>2. q = [pc |-> "selecting", batch |-> {}, scan |-> {}, rows |-> {}, events |-> {}]
  BY DEF IdleCleaner
<1>3. q \in RunStates
  BY <1>2 DEF RunStates
<1>4. cleaner' = [cleaner EXCEPT ![c] = q]
  BY <1>1 DEF BeginCleanup, RetentionInv, TypeOK
<1>5. RunInv'
  BY <1>1, <1>2, <1>4
     DEF RetentionInv, TypeOK, RunInv, OneRunAtATime, DeletionsAreSelected,
         DeletionsAreWhole, Running, Chain, Exists, Active
<1>6. LocksExclude'
  BY <1>1, <1>2, <1>4 DEF RetentionInv, TypeOK, LocksExclude, LocksEvent, LocksRow
<1>. QED
  BY <1>1, <1>3, <1>4, <1>5, <1>6, RunAdvances

\* What a run that takes a statement keeps: the other runs are idle.
LEMMA OthersAreIdle ==
    ASSUME RetentionInv, NEW c \in Cleaners, Running(c), NEW q \in RunStates,
           q.pc # "idle", cleaner' = [cleaner EXCEPT ![c] = q]
    PROVE  /\ OneRunAtATime' /\ cleaner'[c] = q
           /\ \A other \in Cleaners \ {c} :
                 cleaner'[other] = cleaner[other] /\ cleaner[other] = IdleCleaner
BY DEF RetentionInv, TypeOK, RunInv, OneRunAtATime, Running

\* The selected events had no active delivery.
LEMMA SelectBatchStep ==
    ASSUME RetentionInv, NEW c \in Cleaners, SelectBatch(c)
    PROVE  RetentionInv'
<1>. DEFINE q == [cleaner[c] EXCEPT !.pc = "selected", !.batch = Batch(c)]
<1>1. /\ cleaner[c].pc = "selecting" /\ cleaner[c] \in RunStates
      /\ UNCHANGED <<event, row, nextId, enabled, request>>
  BY DEF SelectBatch, RetentionInv, TypeOK
<1>2. \A e \in Batch(c) : e \in Events /\ ~Active(e)
  <2>1. ASSUME NEW e \in Batch(c), Active(e)
        PROVE  FALSE
    <3>1. e \in Events /\ \A d \in Chain(e) : ~Active(d)
      BY DEF Batch, Candidates
    <3>2. e \in Chain(e)
      BY <2>1, <3>1, EventsAreDeliveries
         DEF Chain, Active, Exists, ActiveStatuses, RetentionInv, TableInv, RowsAreWellFormed
    <3>. QED
      BY <2>1, <3>1, <3>2
  <2>. QED
    BY <2>1 DEF Batch, Candidates
<1>3. q \in RunStates
  BY <1>1, <1>2 DEF RunStates
<1>4. /\ q.pc = "selected" /\ q.batch = Batch(c) /\ q.scan = cleaner[c].scan
      /\ q.rows = cleaner[c].rows /\ q.events = cleaner[c].events
  BY <1>1 DEF RunStates
<1>5. cleaner' = [cleaner EXCEPT ![c] = q]
  BY <1>1 DEF SelectBatch, RetentionInv, TypeOK
<1>. HIDE DEF q
<1>6. /\ OneRunAtATime' /\ cleaner'[c] = q
      /\ \A other \in Cleaners \ {c} :
            cleaner'[other] = cleaner[other] /\ cleaner[other] = IdleCleaner
  BY <1>1, <1>3, <1>4, <1>5, OthersAreIdle DEF Running
<1>7. DeletionsAreSelected'
  BY <1>1, <1>2, <1>4, <1>6
     DEF RetentionInv, RunInv, DeletionsAreSelected, IdleCleaner, Exists, Active
<1>8. DeletionsAreWhole'
  BY <1>1, <1>4, <1>6
     DEF RetentionInv, RunInv, DeletionsAreWhole, IdleCleaner, Chain, Exists
<1>9. LocksExclude'
  BY <1>1, <1>4, <1>6 DEF RetentionInv, LocksExclude, LocksEvent, LocksRow
<1>. QED
  BY <1>1, <1>3, <1>5, <1>6, <1>7, <1>8, <1>9, RunAdvances DEF RunInv

\* DELETE sees the whole chains of the batch.
LEMMA StartDeleteStep ==
    ASSUME RetentionInv, NEW c \in Cleaners, StartDelete(c)
    PROVE  RetentionInv'
<1>. DEFINE seen == UNION {Chain(e) : e \in cleaner[c].batch}
            q == [cleaner[c] EXCEPT !.pc = "deleting", !.scan = seen]
<1>1. /\ cleaner[c].pc = "selected" /\ cleaner[c] \in RunStates
      /\ UNCHANGED <<event, row, nextId, enabled, request>>
  BY DEF StartDelete, RetentionInv, TypeOK
<1>2. /\ seen \in SUBSET Deliveries
      /\ \A d \in seen : Exists(d) /\ row[d].event \in cleaner[c].batch
      /\ \A e \in cleaner[c].batch : Chain(e) \subseteq seen
  BY DEF Chain
<1>3. cleaner' = [cleaner EXCEPT ![c] = q]
  BY <1>1 DEF StartDelete, RetentionInv, TypeOK
<1>. HIDE DEF seen
<1>4. q \in RunStates
  BY <1>1, <1>2 DEF RunStates
<1>5. /\ q.pc = "deleting" /\ q.batch = cleaner[c].batch /\ q.scan = seen
      /\ q.rows = cleaner[c].rows /\ q.events = cleaner[c].events
  BY <1>1 DEF RunStates
<1>. HIDE DEF q
<1>6. /\ OneRunAtATime' /\ cleaner'[c] = q
      /\ \A other \in Cleaners \ {c} :
            cleaner'[other] = cleaner[other] /\ cleaner[other] = IdleCleaner
  BY <1>1, <1>3, <1>4, <1>5, OthersAreIdle DEF Running
<1>7. DeletionsAreSelected'
  BY <1>1, <1>2, <1>5, <1>6
     DEF RetentionInv, RunInv, DeletionsAreSelected, IdleCleaner, Exists, Active
<1>8. DeletionsAreWhole'
  BY <1>1, <1>2, <1>5, <1>6
     DEF RetentionInv, RunInv, DeletionsAreWhole, IdleCleaner, Chain, Exists
<1>9. LocksExclude'
  BY <1>1, <1>5, <1>6 DEF RetentionInv, LocksExclude, LocksEvent, LocksRow
<1>. QED
  BY <1>1, <1>3, <1>4, <1>6, <1>7, <1>8, <1>9, RunAdvances DEF RunInv

\* A row that is deleted is a row no call holds.
LEMMA DeleteRowStep ==
    ASSUME RetentionInv, NEW c \in Cleaners, NEW d \in Deliveries, DeleteRow(c, d)
    PROVE  RetentionInv'
<1>. DEFINE q == [cleaner[c] EXCEPT !.scan = @ \ {d}, !.rows = @ \cup {d}]
<1>1. /\ cleaner[c].pc = "deleting" /\ cleaner[c] \in RunStates
      /\ d \in cleaner[c].scan /\ RowFree(d)
      /\ UNCHANGED <<event, row, nextId, enabled, request>>
  BY DEF DeleteRow, RetentionInv, TypeOK
<1>2. q \in RunStates
  BY <1>1 DEF RunStates
<1>3. /\ q.pc = "deleting" /\ q.batch = cleaner[c].batch
      /\ q.scan = cleaner[c].scan \ {d} /\ q.rows = cleaner[c].rows \cup {d}
      /\ q.events = cleaner[c].events
  BY <1>1 DEF RunStates
<1>4. cleaner' = [cleaner EXCEPT ![c] = q]
  BY <1>1 DEF DeleteRow, RetentionInv, TypeOK
<1>. HIDE DEF q
<1>5. /\ OneRunAtATime' /\ cleaner'[c] = q
      /\ \A other \in Cleaners \ {c} :
            cleaner'[other] = cleaner[other] /\ cleaner[other] = IdleCleaner
  BY <1>1, <1>2, <1>3, <1>4, OthersAreIdle DEF Running
<1>6. q.rows \cup q.scan = cleaner[c].rows \cup cleaner[c].scan
  BY <1>1, <1>3
<1>7. DeletionsAreSelected'
  BY <1>1, <1>3, <1>5, <1>6
     DEF RetentionInv, RunInv, DeletionsAreSelected, IdleCleaner, Exists, Active
<1>8. DeletionsAreWhole'
  BY <1>1, <1>3, <1>5, <1>6
     DEF RetentionInv, RunInv, DeletionsAreWhole, IdleCleaner, Chain, Exists
<1>9. LocksExclude'
  BY <1>1, <1>3, <1>5 DEF RetentionInv, LocksExclude, LocksEvent, LocksRow, RowFree
<1>. QED
  BY <1>1, <1>2, <1>4, <1>5, <1>7, <1>8, <1>9, RunAdvances DEF RunInv

\* The foreign keys hold at the end of the statement: the chains are deleted.
LEMMA FinishDeleteStep ==
    ASSUME RetentionInv, NEW c \in Cleaners, FinishDelete(c)
    PROVE  RetentionInv'
<1>. DEFINE q == [cleaner[c] EXCEPT !.pc = "rows_deleted"]
<1>1. /\ cleaner[c].pc = "deleting" /\ cleaner[c] \in RunStates
      /\ cleaner[c].scan = {} /\ ~Restricted(c)
      /\ UNCHANGED <<event, row, nextId, enabled, request>>
  BY DEF FinishDelete, RetentionInv, TypeOK
<1>2. q \in RunStates
  BY <1>1 DEF RunStates
<1>3. /\ q.pc = "rows_deleted" /\ q.batch = cleaner[c].batch
      /\ q.scan = cleaner[c].scan /\ q.rows = cleaner[c].rows
      /\ q.events = cleaner[c].events
  BY <1>1 DEF RunStates
<1>4. cleaner' = [cleaner EXCEPT ![c] = q]
  BY <1>1 DEF FinishDelete, RetentionInv, TypeOK
<1>. HIDE DEF q
<1>5. /\ OneRunAtATime' /\ cleaner'[c] = q
      /\ \A other \in Cleaners \ {c} :
            cleaner'[other] = cleaner[other] /\ cleaner[other] = IdleCleaner
  BY <1>1, <1>2, <1>3, <1>4, OthersAreIdle DEF Running
<1>6. \A e \in cleaner[c].batch : Chain(e) \subseteq cleaner[c].rows
  BY <1>1 DEF RetentionInv, RunInv, DeletionsAreWhole, Restricted, Chain
<1>7. DeletionsAreSelected'
  BY <1>1, <1>3, <1>5
     DEF RetentionInv, RunInv, DeletionsAreSelected, IdleCleaner, Exists, Active
<1>8. DeletionsAreWhole'
  BY <1>1, <1>3, <1>5, <1>6
     DEF RetentionInv, RunInv, DeletionsAreWhole, IdleCleaner, Chain, Exists
<1>9. LocksExclude'
  BY <1>1, <1>3, <1>5 DEF RetentionInv, LocksExclude, LocksEvent, LocksRow
<1>. QED
  BY <1>1, <1>2, <1>4, <1>5, <1>7, <1>8, <1>9, RunAdvances DEF RunInv

\* An event that is deleted is an event no call holds, and its chain is gone.
LEMMA DeleteEventStep ==
    ASSUME RetentionInv, NEW c \in Cleaners, NEW e \in Events, DeleteEvent(c, e)
    PROVE  RetentionInv'
<1>. DEFINE q == [cleaner[c] EXCEPT
                    !.pc = IF cleaner[c].batch = {e} THEN "selecting" ELSE @,
                    !.batch = @ \ {e}, !.events = @ \cup {e}]
<1>1. /\ cleaner[c].pc = "rows_deleted" /\ cleaner[c] \in RunStates
      /\ e \in cleaner[c].batch /\ EventFree(e)
      /\ UNCHANGED <<event, row, nextId, enabled, request>>
  BY DEF DeleteEvent, RetentionInv, TypeOK
<1>2. q \in RunStates
  BY <1>1 DEF RunStates
<1>3. /\ q.pc = IF cleaner[c].batch = {e} THEN "selecting" ELSE "rows_deleted"
      /\ q.batch = cleaner[c].batch \ {e} /\ q.events = cleaner[c].events \cup {e}
      /\ q.scan = cleaner[c].scan /\ q.rows = cleaner[c].rows
  BY <1>1 DEF RunStates
<1>4. cleaner' = [cleaner EXCEPT ![c] = q]
  BY <1>1 DEF DeleteEvent, RetentionInv, TypeOK
<1>. HIDE DEF q
<1>5. /\ OneRunAtATime' /\ cleaner'[c] = q
      /\ \A other \in Cleaners \ {c} :
            cleaner'[other] = cleaner[other] /\ cleaner[other] = IdleCleaner
  BY <1>1, <1>2, <1>3, <1>4, OthersAreIdle DEF Running
<1>6. q.batch \cup q.events = cleaner[c].batch \cup cleaner[c].events
  BY <1>1, <1>3
<1>7. DeletionsAreSelected'
  BY <1>1, <1>3, <1>5, <1>6
     DEF RetentionInv, RunInv, DeletionsAreSelected, IdleCleaner, Exists, Active
<1>8. DeletionsAreWhole'
  BY <1>1, <1>3, <1>5
     DEF RetentionInv, RunInv, DeletionsAreWhole, IdleCleaner, Chain, Exists
<1>9. LocksExclude'
  BY <1>1, <1>3, <1>5 DEF RetentionInv, LocksExclude, LocksEvent, LocksRow, EventFree
<1>. QED
  BY <1>1, <1>2, <1>4, <1>5, <1>7, <1>8, <1>9, RunAdvances DEF RunInv

\* The commit deletes events with their whole chains: what is left of the
\* table and what the calls rely on keeps its sources.
LEMMA CommitCleanupStep ==
    ASSUME RetentionInv, NEW c \in Cleaners, CommitCleanup(c)
    PROVE  RetentionInv'
<1>. USE DEF RetentionInv
<1>1. /\ cleaner[c].pc = "selecting"
      /\ event' = [e \in Events |->
                      IF e \in cleaner[c].events THEN "absent" ELSE event[e]]
      /\ row' = [d \in Deliveries |->
                      IF d \in cleaner[c].rows THEN AbsentRow ELSE row[d]]
      /\ cleaner' = [cleaner EXCEPT ![c] = IdleCleaner]
      /\ UNCHANGED <<nextId, enabled, request>>
  BY DEF CommitCleanup
<1>2. PICK gone \in SUBSET Deliveries, ended \in SUBSET Events :
        gone = cleaner[c].rows /\ ended = cleaner[c].events
  BY DEF TypeOK, RunStates
<1>3. /\ \A d \in gone : Exists(d) /\ row[d].event \in ended
      /\ \A e \in ended : Chain(e) \subseteq gone
  BY <1>1, <1>2 DEF RunInv, DeletionsAreSelected, DeletionsAreWhole
<1>4. \A d \in Deliveries :
          /\ d \in gone => row'[d] = AbsentRow /\ ~Exists(d)'
          /\ d \notin gone => /\ row'[d] = row[d]
                              /\ Exists(d)' <=> Exists(d)
                              /\ Active(d)' <=> Active(d)
          /\ Exists(d) => (d \in gone <=> row[d].event \in ended)
  BY <1>1, <1>2, <1>3 DEF Exists, Active, AbsentRow, Chain
<1>5. \A e \in Events : event'[e] = IF e \in ended THEN "absent" ELSE event[e]
  BY <1>1, <1>2
<1>6. TypeOK'
  <2>1. AbsentRow \in Rows /\ IdleCleaner \in RunStates
    BY DEF AbsentRow, Rows, IdleCleaner, RunStates
  <2>. QED
    BY <1>1, <2>1 DEF TypeOK
<1>7. TableInv'
  <2>1. RowsAreWellFormed'
    <3>. SUFFICES ASSUME NEW d \in Deliveries
                  PROVE  IF Exists(d)'
                         THEN /\ d <= nextId
                              /\ row'[d].event \in Events
                              /\ event'[row'[d].event] # "absent"
                              /\ d \in Events =>
                                    /\ row'[d].event = d /\ row'[d].generation = 0
                                    /\ row'[d].from = None
                              /\ d \notin Events =>
                                    /\ row'[d].generation # 0 /\ row'[d].from # None
                                    /\ row'[d].key \in Keys
                         ELSE row'[d] = AbsentRow /\ (d \in Events => event'[d] = "absent")
      BY <1>1 DEF RowsAreWellFormed
    <3>1. CASE d \in gone
      BY <1>3, <1>4, <1>5, <3>1 DEF TableInv, RowsAreWellFormed
    <3>2. CASE d \notin gone
      BY <1>4, <1>5, <3>2 DEF TableInv, RowsAreWellFormed
    <3>. QED
      BY <3>1, <3>2
  <2>2. UniqueIndexesHold'
    BY <1>4 DEF TableInv, UniqueIndexesHold
  <2>3. ReplaysFollowDeadLetters'
    <3>1. ASSUME NEW d \in Deliveries \ gone, Exists(d), row[d].from # None
          PROVE  /\ row[d].from \in Deliveries \ gone
                 /\ row'[row[d].from] = row[row[d].from]
      <4>1. /\ row[d].from \in Deliveries /\ Exists(row[d].from)
            /\ row[row[d].from].event = row[d].event
        BY <3>1 DEF TableInv, ReplaysFollowDeadLetters, TypeOK, Rows, Exists
      <4>. QED
        BY <1>4, <3>1, <4>1
    <3>. QED
      BY <1>4, <3>1 DEF TableInv, ReplaysFollowDeadLetters
  <2>. QED
    BY <2>1, <2>2, <2>3 DEF TableInv
<1>8. \A r \in Requests : request[r].pc \in {"event_locked", "locked", "inserted"} =>
          request[r].event \in Events \ ended
  BY <1>2 DEF LocksExclude, LocksEvent, CallInv, CallsKnowTheirSource, InTransaction
<1>9. CallsKnowTheirSource'
  <2>1. ASSUME NEW r \in Requests, InTransaction(r)
        PROVE  /\ request[r].event \in Events
               /\ \/ event'[request[r].event] = "absent"
                  \/ /\ row'[request[r].source].status # "absent"
                     /\ row'[request[r].source].event = request[r].event
                     /\ request[r].seen = "dead_lettered" =>
                           row'[request[r].source].status = "dead_lettered"
    BY <1>4, <1>5, <2>1, DrawnIdentities DEF CallInv, CallsKnowTheirSource, Exists
  <2>. QED
    BY <1>1, <2>1 DEF CallInv, CallsKnowTheirSource, InTransaction, Answered, Exists
<1>10. EventLockExcludes' /\ LockedEventsExist'
  BY <1>1, <1>5, <1>8 DEF CallInv, EventLockExcludes, LocksEvent, LockedEventsExist
<1>11. InsertsAreReady'
  <2>. SUFFICES ASSUME NEW r \in Requests, request[r].pc = "inserted"
                PROVE  /\ ~Exists(request[r].answer)'
                       /\ ReplaysOf(r)' = {}
                       /\ ~row'[request[r].source].blocked
                       /\ \A d \in Chain(request[r].event)' :
                             /\ ~Active(d)'
                             /\ row'[d].generation <= row'[request[r].source].generation
    BY <1>1 DEF CallInv, InsertsAreReady
  <2>1. PICK s \in Deliveries, e \in Events, n \in Deliveries :
          /\ request[r].source = s /\ request[r].event = e /\ request[r].answer = n
          /\ row[s].event = e /\ Exists(s)
    BY LockedSource, DrawnIdentities, RetentionAssumption DEF CallInv, InsertsAreReady
  <2>2. /\ ~Exists(n) /\ ReplaysOf(r) = {} /\ ~row[s].blocked
        /\ \A d \in Chain(e) : ~Active(d) /\ row[d].generation <= row[s].generation
    BY <2>1 DEF CallInv, InsertsAreReady
  <2>3. e \notin ended /\ s \notin gone /\ n \notin gone
    BY <1>3, <1>8, <2>1, <2>2
  <2>4. ReplaysOf(r)' = {}
    BY <1>1, <1>4, <2>2 DEF ReplaysOf
  <2>5. \A d \in Chain(e)' : d \in Chain(e) /\ d \notin gone /\ d \in Deliveries
    BY <1>4 DEF Chain
  <2>6. \A d \in Chain(e)' : ~Active(d)' /\ row'[d].generation <= row'[s].generation
    BY <1>4, <2>1, <2>2, <2>3, <2>5
  <2>7. ~Exists(n)' /\ ~row'[s].blocked
    BY <1>4, <2>2, <2>3
  <2>. QED
    BY <1>1, <2>1, <2>4, <2>6, <2>7
<1>12. AnswersAreReplays' /\ ReplayIsIdempotent'
  <2>1. ASSUME NEW r \in Requests, Answered(r), NEW s \in Deliveries,
               request[r].source = s, NEW n \in Deliveries, request[r].answer = n,
               Exists(s)'
        PROVE  Exists(n)' /\ row'[n].from = s /\ row'[n].key = request[r].key
    <3>1. s \notin gone /\ Exists(s)
      BY <1>4, <2>1
    <3>2. Exists(n) /\ row[n].from = s /\ row[n].key = request[r].key /\ s # None
      BY <2>1, <3>1, EventsAreDeliveries DEF CallInv, AnswersAreReplays
    <3>3. row[s].event = row[n].event
      BY <3>2 DEF TableInv, ReplaysFollowDeadLetters
    <3>. QED
      BY <1>4, <3>1, <3>2, <3>3
  <2>2. AnswersAreReplays'
    <3>1. ASSUME NEW r \in Requests, Answered(r)
          PROVE  request[r].source \in Deliveries /\ request[r].answer \in Deliveries
      BY <3>1, DrawnIdentities DEF CallInv, CallsKnowTheirSource, AnswersAreReplays
    <3>. QED
      BY <1>1, <2>1, <3>1 DEF CallInv, AnswersAreReplays, Answered, Exists
  <2>3. ReplayIsIdempotent'
    BY <1>1 DEF CallInv, ReplayIsIdempotent
  <2>. QED
    BY <2>2, <2>3
<1>13. RunInv'
  <2>1. /\ cleaner'[c] = IdleCleaner
        /\ \A other \in Cleaners \ {c} :
              cleaner'[other] = cleaner[other] /\ cleaner[other] = IdleCleaner
    BY <1>1 DEF TypeOK, RunInv, OneRunAtATime, Running
  <2>. QED
    BY <2>1 DEF RunInv, OneRunAtATime, DeletionsAreSelected, DeletionsAreWhole,
                Running, IdleCleaner
<1>14. LocksExclude'
  BY <1>1 DEF TypeOK, LocksExclude, LocksEvent, LocksRow, IdleCleaner
<1>. QED
  BY <1>6, <1>7, <1>9, <1>10, <1>11, <1>12, <1>13, <1>14 DEF CallInv

-----------------------------------------------------------------------------
(* The surroundings.                                                       *)

\* PostgreSQL ends one of two transactions that wait for each other.
LEMMA BreakDeadlockStep ==
    ASSUME RetentionInv, NEW r \in Requests, NEW c \in Cleaners, BreakDeadlock(r, c)
    PROVE  RetentionInv'
BY EmptyAnswerStep, RunEnds DEF BreakDeadlock

\* A worker changes the status of an active row only: a dead letter a call
\* has seen stays one, and an event that was selected stays inactive.
LEMMA WorkerCommitsStep ==
    ASSUME RetentionInv, NEW d \in Deliveries, WorkerCommits(d)
    PROVE  RetentionInv'
<1>. USE DEF RetentionInv
<1>1. PICK status \in ALLOWED_TRANSITIONS[row[d].status], blocked \in BOOLEAN :
        row' = [row EXCEPT ![d].status = status, ![d].blocked = blocked]
  BY DEF WorkerCommits
<1>2. Exists(d) /\ UNCHANGED <<event, nextId, enabled, request, cleaner>>
  BY DEF WorkerCommits
<1>3. row[d].status \in DeliveryStatuses
  BY <1>2 DEF TypeOK, Rows, Exists
<1>4. Active(d) /\ status \in DeliveryStatuses
  BY <1>3, Transitions DEF Active
<1>5. row' \in [Deliveries -> Rows]
  <2>. DEFINE q == [row[d] EXCEPT !.status = status, !.blocked = blocked]
  <2>1. row \in [Deliveries -> Rows] /\ row[d] \in Rows
    BY DEF TypeOK
  <2>2. row' = [row EXCEPT ![d] = q]
    BY <1>1, <2>1
  <2>3. q \in Rows
    BY <1>4, <2>1 DEF Rows
  <2>. HIDE DEF q
  <2>. QED
    BY <2>1, <2>2, <2>3
<1>6. /\ \A other \in Deliveries \ {d} : row'[other] = row[other]
      /\ row'[d].event = row[d].event /\ row'[d].generation = row[d].generation
      /\ row'[d].from = row[d].from /\ row'[d].key = row[d].key
      /\ row'[d].status = status
  BY <1>1 DEF TypeOK, Rows
<1>7. \A x \in Deliveries :
        /\ row'[x].event = row[x].event /\ row'[x].generation = row[x].generation
        /\ row'[x].from = row[x].from /\ row'[x].key = row[x].key
        /\ Exists(x)' <=> Exists(x)
        /\ Active(x)' => Active(x)
        /\ ~Active(x) => row'[x] = row[x]
  BY <1>2, <1>4, <1>6 DEF Exists, Active, DeliveryStatuses
<1>8. TypeOK'
  BY <1>2, <1>5 DEF TypeOK
<1>9. TableInv'
  <2>1. RowsAreWellFormed'
    <3>1. \A x \in Deliveries : ~Exists(x) => row'[x] = row[x]
      BY <1>7 DEF Exists, Active, ActiveStatuses
    <3>. QED
      BY <1>2, <1>7, <3>1 DEF TableInv, RowsAreWellFormed
  <2>2. UniqueIndexesHold'
    BY <1>7 DEF TableInv, UniqueIndexesHold
  <2>3. ReplaysFollowDeadLetters'
    <3>1. ASSUME NEW x \in Deliveries, Exists(x), row[x].from # None
          PROVE  row'[row[x].from] = row[row[x].from]
      BY <1>7, <3>1
         DEF TableInv, ReplaysFollowDeadLetters, Active, ActiveStatuses, TypeOK, Rows
    <3>. QED
      BY <1>7, <3>1 DEF TableInv, ReplaysFollowDeadLetters
  <2>. QED
    BY <2>1, <2>2, <2>3 DEF TableInv
<1>10. CallsKnowTheirSource'
  <2>1. ASSUME NEW r \in Requests, InTransaction(r)
        PROVE  /\ request[r].event \in Events
               /\ \/ event[request[r].event] = "absent"
                  \/ /\ row'[request[r].source].status # "absent"
                     /\ row'[request[r].source].event = request[r].event
                     /\ request[r].seen = "dead_lettered" =>
                           row'[request[r].source].status = "dead_lettered"
    BY <1>7, <2>1, DrawnIdentities
       DEF CallInv, CallsKnowTheirSource, Exists, Active, ActiveStatuses
  <2>. QED
    BY <1>2, <2>1 DEF CallInv, CallsKnowTheirSource, InTransaction, Answered, Exists
<1>11. EventLockExcludes' /\ LockedEventsExist'
  BY <1>2 DEF CallInv, EventLockExcludes, LocksEvent, LockedEventsExist
<1>12. InsertsAreReady'
  <2>. SUFFICES ASSUME NEW r \in Requests, request[r].pc = "inserted"
                PROVE  /\ ~Exists(request[r].answer)'
                       /\ ReplaysOf(r)' = {}
                       /\ ~row'[request[r].source].blocked
                       /\ \A x \in Chain(request[r].event)' :
                             /\ ~Active(x)'
                             /\ row'[x].generation <= row'[request[r].source].generation
    BY <1>2 DEF CallInv, InsertsAreReady
  <2>1. PICK s \in Deliveries, e \in Events, n \in Deliveries :
          /\ request[r].source = s /\ request[r].event = e /\ request[r].answer = n
          /\ row[s].status = "dead_lettered"
    BY LockedSource, DrawnIdentities, RetentionAssumption DEF CallInv, InsertsAreReady
  <2>2. /\ ~Exists(n) /\ ReplaysOf(r) = {} /\ ~row[s].blocked
        /\ \A x \in Chain(e) : ~Active(x) /\ row[x].generation <= row[s].generation
    BY <2>1 DEF CallInv, InsertsAreReady
  <2>3. row'[s] = row[s]
    BY <1>7, <2>1 DEF Active, ActiveStatuses
  <2>4. ReplaysOf(r)' = {}
    BY <1>2, <1>7, <2>2 DEF ReplaysOf
  <2>5. \A x \in Chain(e)' : x \in Chain(e) /\ x \in Deliveries
    BY <1>7 DEF Chain
  <2>6. \A x \in Chain(e)' : ~Active(x)' /\ row'[x].generation <= row'[s].generation
    BY <1>7, <2>2, <2>3, <2>5
  <2>. QED
    BY <1>2, <1>7, <2>1, <2>2, <2>3, <2>4, <2>6
<1>13. AnswersAreReplays' /\ ReplayIsIdempotent'
  <2>1. ASSUME NEW r \in Requests, Answered(r)
        PROVE  request[r].source \in Deliveries /\ request[r].answer \in Deliveries
    BY <2>1, DrawnIdentities DEF CallInv, CallsKnowTheirSource, AnswersAreReplays
  <2>. QED
    BY <1>2, <1>7, <2>1 DEF CallInv, AnswersAreReplays, ReplayIsIdempotent, Answered, Exists
<1>14. RunInv'
  <2>1. OneRunAtATime'
    BY <1>2 DEF RunInv, OneRunAtATime, Running
  <2>2. DeletionsAreSelected'
    BY <1>2, <1>7, EventsAreDeliveries DEF RunInv, DeletionsAreSelected, TypeOK, RunStates
  <2>3. \A e \in Events : Chain(e)' = Chain(e)
    BY <1>7 DEF Chain
  <2>4. \A e \in Events : \A x \in Chain(e) : row'[x].from = row[x].from
    BY <1>7 DEF Chain
  <2>5. DeletionsAreWhole'
    BY <1>2, <2>3, <2>4 DEF RunInv, DeletionsAreWhole, TypeOK, RunStates
  <2>. QED
    BY <2>1, <2>2, <2>5 DEF RunInv
<1>15. LocksExclude'
  BY <1>2 DEF LocksExclude, LocksEvent, LocksRow
<1>. QED
  BY <1>8, <1>9, <1>10, <1>11, <1>12, <1>13, <1>14, <1>15 DEF CallInv

\* An event that ages is there still.
LEMMA ExpireStep ==
    ASSUME RetentionInv, NEW e \in Events, Expire(e)
    PROVE  RetentionInv'
<1>. USE DEF RetentionInv
<1>1. /\ event \in [Events -> {"fresh", "expired", "absent"}]
      /\ event' \in [Events -> {"fresh", "expired", "absent"}]
      /\ UNCHANGED <<row, nextId, enabled, request, cleaner>>
  BY DEF Expire, TypeOK
<1>2. \A x \in Events : event'[x] = "absent" <=> event[x] = "absent"
  BY DEF Expire, TypeOK
<1>3. TypeOK'
  BY <1>1 DEF TypeOK
<1>4. TableInv'
  BY <1>1, <1>2
     DEF TableInv, RowsAreWellFormed, UniqueIndexesHold, ReplaysFollowDeadLetters,
         Exists, Active
<1>5. CallsKnowTheirSource'
  BY <1>1, <1>2 DEF CallInv, CallsKnowTheirSource, InTransaction, Answered, Exists
<1>6. LockedEventsExist'
  BY <1>1, <1>2 DEF CallInv, CallsKnowTheirSource, LockedEventsExist, InTransaction
<1>7. EventLockExcludes' /\ InsertsAreReady' /\ AnswersAreReplays' /\ ReplayIsIdempotent'
  BY <1>1 DEF CallInv, EventLockExcludes, InsertsAreReady, AnswersAreReplays,
              ReplayIsIdempotent, Answered, LocksEvent, ReplaysOf, Chain, Exists, Active
<1>8. LocksExclude'
  BY <1>1 DEF LocksExclude, LocksEvent, LocksRow
<1>. QED
  BY <1>1, <1>3, <1>4, <1>5, <1>6, <1>7, <1>8, RunFrame DEF CallInv

\* The endpoint switch, and a step that changes nothing.
LEMMA FrameStep ==
    ASSUME RetentionInv, enabled' \in BOOLEAN,
           UNCHANGED <<event, row, nextId, request, cleaner>>
    PROVE  RetentionInv'
<1>1. TypeOK'
  BY DEF RetentionInv, TypeOK
<1>2. LocksExclude'
  BY DEF RetentionInv, LocksExclude, LocksEvent, LocksRow
<1>. QED
  BY <1>1, <1>2, TableFrame, CallFrame, RunFrame DEF RetentionInv

\* Every event has its first delivery, and nobody has called.
LEMMA InitInv ==
    ASSUME Init
    PROVE  RetentionInv
<1>. USE DEF Init
<1>1. \A d \in Deliveries : /\ d \in Events => row[d] = NewRow(d, 0, None, None)
                            /\ d \notin Events => row[d] = AbsentRow
  OBVIOUS
<1>2. TypeOK
  <2>1. AbsentRow \in Rows /\ \A d \in Events : NewRow(d, 0, None, None) \in Rows
    BY DEF AbsentRow, NewRow, Rows, DeliveryStatuses
  <2>2. row \in [Deliveries -> Rows]
    BY <2>1
  <2>3. IdleRequest \in CallStates /\ IdleCleaner \in RunStates
    BY DEF IdleRequest, CallStates, IdleCleaner, RunStates
  <2>. QED
    BY <2>2, <2>3, RetentionAssumption DEF TypeOK, Deliveries
<1>3. TableInv
  <2>1. /\ \A d \in Events : Exists(d) /\ row[d].event = d /\ row[d].generation = 0
                             /\ row[d].from = None
        /\ \A d \in Deliveries \ Events : ~Exists(d)
    BY <1>1, EventsAreDeliveries DEF Exists, AbsentRow, NewRow
  <2>2. \A d \in Events : d <= nextId /\ event[d] # "absent"
    BY RetentionAssumption DEF Events
  <2>3. RowsAreWellFormed
    BY <1>1, <2>1, <2>2 DEF RowsAreWellFormed
  <2>. QED
    BY <2>1, <2>3 DEF TableInv, UniqueIndexesHold, ReplaysFollowDeadLetters
<1>4. CallInv
  BY DEF CallInv, CallsKnowTheirSource, EventLockExcludes, LockedEventsExist,
         InsertsAreReady, AnswersAreReplays, ReplayIsIdempotent, InTransaction,
         Answered, LocksEvent, IdleRequest
<1>5. RunInv
  BY DEF RunInv, OneRunAtATime, DeletionsAreSelected, DeletionsAreWhole, Running,
         IdleCleaner
<1>6. LocksExclude
  BY DEF LocksExclude, IdleCleaner
<1>. QED
  BY <1>2, <1>3, <1>4, <1>5, <1>6 DEF RetentionInv

-----------------------------------------------------------------------------
(* The theorems.                                                           *)

\* Every step of replay, retention and the workers preserves the invariant.
LEMMA RetentionStep ==
    ASSUME RetentionInv, [Next]_vars
    PROVE  RetentionInv'
<1>1. ASSUME NEW r \in Requests, ReplayStep(r)
      PROVE  RetentionInv'
  <2>1. ASSUME Refuse(r) PROVE RetentionInv'
    BY <2>1, EmptyAnswerStep DEF Refuse
  <2>. QED
    BY <1>1, <2>1, ReadCandidateStep, LockEventStep, LockSourceStep, ReturnExistingStep,
       InsertReplayStep, CommitReplayStep DEF ReplayStep
<1>2. ASSUME NEW r \in Requests, ReplayFails(r)
      PROVE  RetentionInv'
  BY <1>2, EmptyAnswerStep DEF ReplayFails
<1>3. ASSUME NEW c \in Cleaners, CleanupStep(c)
      PROVE  RetentionInv'
  <2>1. ASSUME RestrictAborts(c) PROVE RetentionInv'
    BY <2>1, RunEnds DEF RestrictAborts
  <2>. QED
    BY <1>3, <2>1, BeginCleanupStep, SelectBatchStep, StartDeleteStep, DeleteRowStep,
       FinishDeleteStep, DeleteEventStep, CommitCleanupStep DEF CleanupStep
<1>4. ASSUME NEW c \in Cleaners, CleanupFails(c)
      PROVE  RetentionInv'
  BY <1>4, RunEnds DEF CleanupFails
<1>5. ASSUME SetEnabled PROVE RetentionInv'
  BY <1>5, FrameStep DEF SetEnabled, RetentionInv, TypeOK
<1>6. ASSUME UNCHANGED vars PROVE RetentionInv'
  BY <1>6, FrameStep DEF vars, RetentionInv, TypeOK
<1>. QED
  BY <1>1, <1>2, <1>3, <1>4, <1>5, <1>6, BreakDeadlockStep, WorkerCommitsStep,
     ExpireStep DEF Next

\* The inductive invariant holds in every reachable state, however replay
\* calls, retention runs and workers interleave and whichever of them fails.
THEOREM RetentionInvariant == Spec => []RetentionInv
BY InitInv, RetentionStep, PTL DEF Spec

\* The unique indexes of the deliveries table never have to refuse a replay:
\* the event's row lock makes all conflicts deterministic (ReplayService).
THEOREM UniqueIndexesAlwaysHold == Spec => []UniqueIndexesHold
<1>1. RetentionInv => UniqueIndexesHold
  BY DEF RetentionInv, TableInv
<1>. QED
  BY <1>1, RetentionInvariant, PTL

\* A replay follows a dead letter of the generation before it, although the
\* service decides on a status it read before it took its locks.
THEOREM ReplaysAlwaysFollowDeadLetters == Spec => []ReplaysFollowDeadLetters
<1>1. RetentionInv => ReplaysFollowDeadLetters
  BY DEF RetentionInv, TableInv
<1>. QED
  BY <1>1, RetentionInvariant, PTL

\* Retention deletes an event with its whole chain or not at all, although a
\* replay may commit between its statements.
THEOREM EventsAreAlwaysWhole == Spec => []EventsAreWhole
<1>1. RetentionInv => EventsAreWhole
  <2>. SUFFICES ASSUME RetentionInv, NEW e \in Events
                PROVE  IF event[e] = "absent"
                       THEN Chain(e) = {}
                       ELSE \E d \in Chain(e) : row[d].generation = 0
    BY DEF EventsAreWhole
  <2>1. event[e] = "absent" => Chain(e) = {}
    BY DEF RetentionInv, TableInv, RowsAreWellFormed, Chain
  <2>2. event[e] # "absent" => e \in Chain(e) /\ row[e].generation = 0
    BY EventsAreDeliveries DEF RetentionInv, TableInv, RowsAreWellFormed, Chain
  <2>. QED
    BY <2>1, <2>2
<1>. QED
  BY <1>1, RetentionInvariant, PTL

\* Calls with one source and one key get one delivery, which one at most made.
THEOREM ReplayIsAlwaysIdempotent == Spec => []ReplayIsIdempotent
<1>1. RetentionInv => ReplayIsIdempotent
  BY DEF RetentionInv, CallInv
<1>. QED
  BY <1>1, RetentionInvariant, PTL

\* "delivery disappeared after its event was locked" is unreachable.
THEOREM LockedEventAlwaysKeepsSource == Spec => []LockedEventKeepsSource
<1>1. RetentionInv => LockedEventKeepsSource
  BY DEF RetentionInv, CallInv, LockedEventsExist, CallsKnowTheirSource,
         InTransaction, LockedEventKeepsSource
<1>. QED
  BY <1>1, RetentionInvariant, PTL

\* No step of retention deletes a first generation that is still active: the
\* work an event was accepted with is never lost.
THEOREM FirstGenerationAlwaysSurvives == Spec => FirstGenerationSurvives
<1>1. ASSUME RetentionInv, [Next]_vars,
             NEW d \in Deliveries, Active(d), row[d].generation = 0
      PROVE  row'[d].status # "absent"
  <2>. USE <1>1
  <2>1. Exists(d) /\ row[d].status # "absent"
    BY DEF Active, ActiveStatuses, Exists
  <2>2. ASSUME NEW r \in Requests, CommitReplay(r)
        PROVE  row'[d].status # "absent"
    <3>1. request[r].answer \in Deliveries /\ request[r].answer # d
      BY <2>1, <2>2, DrawnIdentities, RetentionAssumption
         DEF CommitReplay, RetentionInv, CallInv, InsertsAreReady
    <3>. QED
      BY <2>1, <2>2, <3>1 DEF CommitReplay, RetentionInv, TypeOK
  <2>3. ASSUME NEW c \in Cleaners, CommitCleanup(c)
        PROVE  row'[d].status # "absent"
    <3>1. d \in Events /\ row[d].event = d
      BY <2>1 DEF RetentionInv, TableInv, RowsAreWellFormed
    <3>2. d \notin cleaner[c].rows
      BY <2>3, <3>1 DEF CommitCleanup, RetentionInv, RunInv, DeletionsAreSelected
    <3>. QED
      BY <2>1, <2>3, <3>2 DEF CommitCleanup
  <2>4. ASSUME NEW x \in Deliveries, WorkerCommits(x)
        PROVE  row'[d].status # "absent"
    <3>1. PICK status \in ALLOWED_TRANSITIONS[row[x].status], blocked \in BOOLEAN :
            row' = [row EXCEPT ![x].status = status, ![x].blocked = blocked]
      BY <2>4 DEF WorkerCommits
    <3>2. row[x].status \in DeliveryStatuses
      BY <2>4 DEF WorkerCommits, RetentionInv, TypeOK, Rows, Exists
    <3>3. status # "absent"
      BY <3>2, Transitions DEF DeliveryStatuses
    <3>4. row'[x].status = status /\ \A y \in Deliveries \ {x} : row'[y] = row[y]
      BY <3>1 DEF RetentionInv, TypeOK, Rows
    <3>. QED
      BY <2>1, <3>3, <3>4
  <2>5. CASE UNCHANGED row
    BY <2>1, <2>5
  <2>. QED
    BY <2>2, <2>3, <2>4, <2>5
       DEF Next, vars, ReplayStep, ReplayFails, CleanupStep, CleanupFails, BreakDeadlock,
           ReadCandidate, LockEvent, LockSource, ReturnExisting, Refuse, InsertReplay,
           BeginCleanup, SelectBatch, StartDelete, DeleteRow, FinishDelete,
           RestrictAborts, DeleteEvent, Expire, SetEnabled
<1>2. RetentionInv /\ [Next]_vars =>
        [\A d \in Deliveries :
            Active(d) /\ row[d].generation = 0 => row'[d].status # "absent"]_vars
  BY <1>1
<1>. QED
  BY <1>2, RetentionInvariant, PTL DEF Spec, FirstGenerationSurvives

-----------------------------------------------------------------------------
(* The refinement.  Three steps write the committed tables; every other    *)
(* statement of a call or a run is a stutter.                              *)

\* What the abstract specification sees of a row.
GenerationOf(d) ==
    [event |-> row[d].event, generation |-> row[d].generation, status |-> row[d].status]

LEMMA GenerationsAreRows ==
    generationsBar = {GenerationOf(d) : d \in {d \in Deliveries : Exists(d)}}
BY DEF generationsBar, GenerationOf

LEMMA ChainsInit ==
    ASSUME Init
    PROVE  Chains!Init
<1>1. /\ \A e \in Events : row[e] = NewRow(e, 0, None, None)
      /\ \A d \in Deliveries \ Events : row[d] = AbsentRow
  BY EventsAreDeliveries DEF Init
<1>2. ASSUME NEW e \in Events
      PROVE  row[e].event = e /\ row[e].generation = 0 /\ row[e].status = "pending"
  <2>1. /\ NewRow(e, 0, None, None).event = e
        /\ NewRow(e, 0, None, None).generation = 0
        /\ NewRow(e, 0, None, None).status = "pending"
    BY DEF NewRow
  <2>. QED
    BY <1>1, <2>1
<1>3. \A d \in Deliveries \ Events : row[d].status = "absent"
  BY <1>1 DEF AbsentRow
<1>4. /\ \A d \in Deliveries : Exists(d) <=> d \in Events
      /\ \A e \in Events : GenerationOf(e) = Chains!Pending(e, 0)
  BY <1>2, <1>3 DEF Exists, GenerationOf, Chains!Pending
<1>5. generationsBar = {GenerationOf(e) : e \in Events}
  BY <1>4, GenerationsAreRows, EventsAreDeliveries
<1>6. generationsBar = {Chains!Pending(e, 0) : e \in Events}
  BY <1>4, <1>5
<1>. QED
  BY <1>6 DEF Chains!Init

\* The commit of a replay extends its chain by one generation.
LEMMA CommitReplayRefines ==
    ASSUME RetentionInv, NEW r \in Requests, CommitReplay(r)
    PROVE  \E g \in generationsBar : Chains!Replay(g)
<1>0. PICK source, answer : source = request[r].source /\ answer = request[r].answer
  OBVIOUS
<1>1. /\ source \in Deliveries /\ Exists(source)
      /\ row[source].event = request[r].event /\ row[source].status = "dead_lettered"
      /\ request[r].event \in Events
  BY <1>0, DrawnIdentities
     DEF CommitReplay, RetentionInv, CallInv, CallsKnowTheirSource, InTransaction,
         LockedEventsExist, InsertsAreReady
<1>2. /\ answer \in Deliveries /\ ~Exists(answer) /\ answer # source
      /\ \A d \in Chain(request[r].event) : row[d].generation <= row[source].generation
  BY <1>0, <1>1, DrawnIdentities, RetentionAssumption
     DEF CommitReplay, RetentionInv, CallInv, InsertsAreReady
<1>3. /\ row'[answer] = NewRow(request[r].event, row[source].generation + 1, source,
                               request[r].key)
      /\ \A d \in Deliveries \ {answer} : row'[d] = row[d]
  BY <1>0, <1>2 DEF CommitReplay, RetentionInv, TypeOK
<1>. DEFINE g == GenerationOf(source)
            new == Chains!Pending(g.event, g.generation + 1)
<1>4. g \in generationsBar
  BY <1>1, GenerationsAreRows
<1>5. GenerationOf(answer)' = new /\ Exists(answer)'
  BY <1>1, <1>3 DEF GenerationOf, NewRow, Chains!Pending, Exists
<1>6. \A d \in Deliveries \ {answer} :
          GenerationOf(d)' = GenerationOf(d) /\ (Exists(d)' <=> Exists(d))
  BY <1>3 DEF GenerationOf, Exists
<1>7. generationsBar' = {GenerationOf(d)' : d \in {d \in Deliveries : Exists(d)'}}
  BY GenerationsAreRows DEF generationsBar, GenerationOf
<1>8. generationsBar' = generationsBar \cup {new}
  BY <1>2, <1>5, <1>6, <1>7, GenerationsAreRows
<1>9. ASSUME NEW other \in generationsBar, other.event = g.event
      PROVE  other.generation <= g.generation
  <2>1. PICK d \in Deliveries : Exists(d) /\ other = GenerationOf(d)
    BY <1>9, GenerationsAreRows
  <2>2. d \in Chain(request[r].event)
    BY <1>1, <1>9, <2>1 DEF Chain, GenerationOf
  <2>. QED
    BY <1>2, <2>1, <2>2 DEF GenerationOf
<1>10. g.status = "dead_lettered"
  BY <1>1 DEF GenerationOf
<1>11. Chains!Replay(g)
  BY <1>8, <1>9, <1>10 DEF Chains!Replay, Events
<1>. QED
  BY <1>4, <1>11

\* The commit of a retention run takes the chains of its events away, and
\* nothing else.
LEMMA CommitCleanupRefines ==
    ASSUME RetentionInv, NEW c \in Cleaners, CommitCleanup(c)
    PROVE  \E S \in SUBSET Events : Chains!Purge(S)
<1>. DEFINE S == cleaner[c].events
<1>1. S \subseteq Events /\ cleaner[c].rows \subseteq Deliveries
  BY DEF RetentionInv, TypeOK, RunStates
<1>2. \A d \in Deliveries : Exists(d) => (d \in cleaner[c].rows <=> row[d].event \in S)
  <2>1. \A d \in cleaner[c].rows : row[d].event \in S
    BY DEF CommitCleanup, RetentionInv, RunInv, DeletionsAreSelected
  <2>2. \A e \in S : Chain(e) \subseteq cleaner[c].rows
    BY DEF RetentionInv, RunInv, DeletionsAreWhole
  <2>. QED
    BY <2>1, <2>2 DEF Chain
<1>3. \A d \in Deliveries :
          /\ d \in cleaner[c].rows => ~Exists(d)'
          /\ d \notin cleaner[c].rows =>
                GenerationOf(d)' = GenerationOf(d) /\ (Exists(d)' <=> Exists(d))
  BY DEF CommitCleanup, AbsentRow, Exists, GenerationOf
<1>4. generationsBar' = {GenerationOf(d)' : d \in {d \in Deliveries : Exists(d)'}}
  BY GenerationsAreRows DEF generationsBar, GenerationOf
<1>5. \A d : GenerationOf(d).event = row[d].event
  BY DEF GenerationOf
<1>6. generationsBar' = {g \in generationsBar : g.event \notin S}
  BY <1>2, <1>3, <1>4, <1>5, GenerationsAreRows
<1>7. ASSUME NEW g \in generationsBar, g.event \in S, g.generation = 0
      PROVE  g.status \in Terminal
  <2>1. PICK d \in Deliveries : Exists(d) /\ g = GenerationOf(d)
    BY GenerationsAreRows
  <2>2. d \in Events /\ row[d].event = d
    BY <1>7, <2>1 DEF GenerationOf, RetentionInv, TableInv, RowsAreWellFormed
  <2>3. ~Active(d)
    BY <1>7, <2>1, <2>2 DEF GenerationOf, RetentionInv, RunInv, DeletionsAreSelected
  <2>4. row[d].status \in DeliveryStatuses
    BY <2>1 DEF Exists, RetentionInv, TypeOK, Rows
  <2>. QED
    BY <2>1, <2>3, <2>4 DEF GenerationOf, Active, ActiveStatuses, DeliveryStatuses, Terminal
<1>8. Chains!Purge(S)
  BY <1>6, <1>7 DEF Chains!Purge, Chains!Terminal, Terminal, Events
<1>. QED
  BY <1>1, <1>8

\* A worker moves one generation; by the unique index of the chain no other
\* row looks the same.
LEMMA WorkerCommitsRefines ==
    ASSUME RetentionInv, NEW d \in Deliveries, WorkerCommits(d)
    PROVE  \E g \in generationsBar : Chains!Progress(g)
<1>1. PICK status \in ALLOWED_TRANSITIONS[row[d].status], blocked \in BOOLEAN :
        row' = [row EXCEPT ![d].status = status, ![d].blocked = blocked]
  BY DEF WorkerCommits
<1>2. Exists(d) /\ row[d].status \in DeliveryStatuses
  BY DEF WorkerCommits, RetentionInv, TypeOK, Rows, Exists
<1>3. status # "absent"
  BY <1>2, Transitions DEF DeliveryStatuses
<1>4. /\ row'[d].event = row[d].event /\ row'[d].generation = row[d].generation
      /\ row'[d].status = status
      /\ \A x \in Deliveries \ {d} : row'[x] = row[x]
  BY <1>1 DEF RetentionInv, TypeOK, Rows
<1>. DEFINE g == GenerationOf(d)
            moved == [g EXCEPT !.status = status]
<1>5. g \in generationsBar /\ g.status = row[d].status
  BY <1>2, GenerationsAreRows DEF GenerationOf
<1>6. GenerationOf(d)' = moved /\ Exists(d)'
  BY <1>3, <1>4 DEF GenerationOf, Exists
<1>7. \A x \in Deliveries \ {d} :
          GenerationOf(x)' = GenerationOf(x) /\ (Exists(x)' <=> Exists(x))
  BY <1>4 DEF GenerationOf, Exists
<1>8. \A x \in Deliveries \ {d} : Exists(x) => GenerationOf(x) # g
  BY <1>2 DEF GenerationOf, RetentionInv, TableInv, UniqueIndexesHold
<1>9. generationsBar' = {GenerationOf(x)' : x \in {x \in Deliveries : Exists(x)'}}
  BY GenerationsAreRows DEF generationsBar, GenerationOf
<1>10. generationsBar' = (generationsBar \ {g}) \cup {moved}
  BY <1>6, <1>7, <1>8, <1>9, GenerationsAreRows
<1>11. Chains!Progress(g)
  BY <1>5, <1>10 DEF Chains!Progress, Chains!ALLOWED_TRANSITIONS, ALLOWED_TRANSITIONS, Events
<1>. QED
  BY <1>5, <1>11

\* Replay and retention implement DeliveryChains: whatever statements of calls
\* and runs interleave, what the tables show are atomic replays of dead letters
\* and atomic removals of whole chains.
THEOREM ReplayAndRetentionImplementChains == Spec => ImplementsChains
<1>1. Init => Chains!Init
  BY ChainsInit
<1>2. ASSUME RetentionInv, [Next]_vars
      PROVE  [Chains!Next]_(Chains!vars)
  <2>. USE <1>2
  <2>1. ASSUME NEW r \in Requests, CommitReplay(r)
        PROVE  Chains!Next
    BY <2>1, CommitReplayRefines DEF Chains!Next
  <2>2. ASSUME NEW c \in Cleaners, CommitCleanup(c)
        PROVE  Chains!Next
    BY <2>2, CommitCleanupRefines DEF Chains!Next
  <2>3. ASSUME NEW d \in Deliveries, WorkerCommits(d)
        PROVE  Chains!Next
    BY <2>3, WorkerCommitsRefines DEF Chains!Next
  <2>4. CASE UNCHANGED row
    BY <2>4 DEF Chains!vars, generationsBar, Exists, Events
  <2>. QED
    BY <2>1, <2>2, <2>3, <2>4
       DEF Next, vars, ReplayStep, ReplayFails, CleanupStep, CleanupFails, BreakDeadlock,
           ReadCandidate, LockEvent, LockSource, ReturnExisting, Refuse, InsertReplay,
           BeginCleanup, SelectBatch, StartDelete, DeleteRow, FinishDelete,
           RestrictAborts, DeleteEvent, Expire, SetEnabled
<1>. QED
  BY <1>1, <1>2, RetentionInvariant, PTL DEF Spec, ImplementsChains, Chains!Spec
=============================================================================
