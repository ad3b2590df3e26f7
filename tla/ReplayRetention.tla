-------------------------- MODULE ReplayRetention --------------------------
(***************************************************************************)
(* Manual replay (ReplayService.replay, services.py) and retention         *)
(* (purge_expired_demo_events, maintenance.py) against one database, with  *)
(* the workers reduced to the status changes they commit.                  *)
(*                                                                         *)
(* Transactions run at READ COMMITTED, so each statement sees what is      *)
(* committed when it starts and only row locks order two transactions.     *)
(* `event` and `row` hold the committed tables; what an open transaction   *)
(* has written is in the state of its process until it commits.            *)
(*                                                                         *)
(* An event has one endpoint, so its deliveries are one replay chain.      *)
(***************************************************************************)
EXTENDS Integers, FiniteSets, DeliveryStates

CONSTANTS
    EventCount,      \* events 1 .. EventCount, in created_at order
    MaxDeliveries,   \* bound on the delivery rows ever inserted
    Requests,        \* replay calls
    Keys,            \* Idempotency-Key values
    Cleaners,        \* retention job executions that may overlap
    BatchSize,       \* retention_batch_size
    MaxEvents,       \* retention_max_events_per_run
    None

ASSUME RetentionAssumption ==
    /\ EventCount \in Nat \ {0} /\ MaxDeliveries \in Nat
    /\ MaxDeliveries >= EventCount
    /\ BatchSize \in Nat \ {0} /\ MaxEvents \in Nat \ {0}
    /\ None \notin Keys \cup Nat \cup DeliveryStatuses

Events == 1 .. EventCount
Deliveries == 1 .. MaxDeliveries

VARIABLES
    event,      \* event[e]: "fresh", "expired" (older than the cutoff) or "absent"
    row,        \* row[d]: the committed delivery row, or AbsentRow
    nextId,     \* how many delivery identities were drawn
    enabled,    \* endpoints.enabled
    request,    \* the state of each replay call
    cleaner     \* the state of each retention run

vars == <<event, row, nextId, enabled, request, cleaner>>

AbsentRow ==
    [event |-> None, generation |-> 0, status |-> "absent", from |-> None,
     key |-> None, blocked |-> FALSE]

\* `blocked` is what replay_block_code makes of the newest attempt: the
\* receiver's evidence proves that the immutable payload is invalid.
NewRow(e, generation, from, key) ==
    [event |-> e, generation |-> generation, status |-> "pending",
     from |-> from, key |-> key, blocked |-> FALSE]

\* `seen` is the status the session read before it took any lock, `answer`
\* the delivery the call returned, `created` whether it inserted it.
IdleRequest ==
    [pc |-> "new", source |-> None, key |-> None, event |-> None, seen |-> None,
     answer |-> None, created |-> FALSE]

\* `batch` and `scan` are the ids the current batch works on, `rows` and
\* `events` what the transaction has deleted so far.
IdleCleaner ==
    [pc |-> "idle", batch |-> {}, scan |-> {}, rows |-> {}, events |-> {}]

Init ==
    /\ event = [e \in Events |-> "fresh"]
    /\ row = [d \in Deliveries |->
                IF d \in Events THEN NewRow(d, 0, None, None) ELSE AbsentRow]
    /\ nextId = EventCount
    /\ enabled = TRUE
    /\ request = [r \in Requests |-> IdleRequest]
    /\ cleaner = [c \in Cleaners |-> IdleCleaner]

-----------------------------------------------------------------------------
(* Row locks, held from the statement that takes them to the end of the    *)
(* transaction.                                                            *)

\* Mutant: replay reads the event without FOR UPDATE.
LocksEventNever(r, e) == FALSE

LocksEvent(r, e) ==
    /\ request[r].pc \in {"event_locked", "locked", "inserted"}
    /\ request[r].event = e

LocksRow(r, d) ==
    request[r].pc \in {"locked", "inserted"} /\ request[r].source = d

EventFree(e) ==
    /\ \A r \in Requests : ~LocksEvent(r, e)
    /\ \A c \in Cleaners : e \notin cleaner[c].events

RowFree(d) ==
    /\ \A r \in Requests : ~LocksRow(r, d)
    /\ \A c \in Cleaners : d \notin cleaner[c].rows

Exists(d) == row[d].status # "absent"
Chain(e) == {d \in Deliveries : Exists(d) /\ row[d].event = e}
Active(d) == row[d].status \in ActiveStatuses

-----------------------------------------------------------------------------
(* ReplayService.replay                                                    *)

Answer(r, answer, created) ==
    request' = [request EXCEPT ![r].pc = "done", ![r].answer = answer,
                               ![r].created = created]

\* The call arrives for some delivery the caller has heard of and reads it
\* without a lock; a missing one is answered 404 (and a blank key 422, to the
\* same effect).
ReadCandidate(r) ==
    /\ request[r].pc = "new"
    /\ \E d \in 1 .. nextId, k \in Keys :
          request' = [request EXCEPT
            ![r].pc = IF Exists(d) THEN "read" ELSE "done",
            ![r].source = d, ![r].key = k,
            ![r].event = row[d].event, ![r].seen = row[d].status]
    /\ UNCHANGED <<event, row, nextId, enabled, cleaner>>

\* SELECT ... FOR UPDATE on the event, the mutex of its chain; a vanished
\* event raises RuntimeError.
LockEvent(r) ==
    /\ request[r].pc = "read"
    /\ EventFree(request[r].event)
    /\ request' = [request EXCEPT
          ![r].pc = IF event[request[r].event] = "absent" THEN "done"
                                                          ELSE "event_locked"]
    /\ UNCHANGED <<event, row, nextId, enabled, cleaner>>

\* SELECT ... FOR UPDATE on the delivery.  The session already holds the
\* object from ReadCandidate and does not refresh it: `seen` stays.
LockSource(r) ==
    /\ request[r].pc = "event_locked"
    /\ RowFree(request[r].source)
    /\ request' = [request EXCEPT
          ![r].pc = IF Exists(request[r].source) THEN "locked" ELSE "done"]
    /\ UNCHANGED <<event, row, nextId, enabled, cleaner>>

\* get_by_replay_request: the generation an earlier call with this key made.
ReplaysOf(r) ==
    {d \in Deliveries : /\ Exists(d)
                        /\ row[d].from = request[r].source
                        /\ row[d].key = request[r].key}

ReturnExisting(r) ==
    /\ request[r].pc = "locked"
    /\ \E d \in ReplaysOf(r) : Answer(r, d, FALSE)
    /\ UNCHANGED <<event, row, nextId, enabled, cleaner>>

\* get_latest: the newest generation of the source's chain.
IsLatest(d) ==
    \A other \in Chain(row[d].event) : row[other].generation <= row[d].generation

\* Mutant: a superseded generation may be replayed.
ReplayableSuperseded(r) ==
    /\ request[r].seen = "dead_lettered"
    /\ ~row[request[r].source].blocked
    /\ \A d \in Chain(request[r].event) : ~Active(d)
    /\ enabled

\* Mutant: the source's status is not tested.
ReplayableAnyStatus(r) ==
    /\ IsLatest(request[r].source)
    /\ ~row[request[r].source].blocked
    /\ \A d \in Chain(request[r].event) : ~Active(d)
    /\ enabled

Replayable(r) ==
    /\ IsLatest(request[r].source)
    /\ request[r].seen = "dead_lettered"
    /\ ~row[request[r].source].blocked
    /\ \A d \in Chain(request[r].event) : ~Active(d)
    /\ enabled

\* One of the five 409 answers.
Refuse(r) ==
    /\ request[r].pc = "locked"
    /\ ReplaysOf(r) = {}
    /\ ~Replayable(r)
    /\ Answer(r, None, FALSE)
    /\ UNCHANGED <<event, row, nextId, enabled, cleaner>>

\* Mutant: neither an earlier replay nor the latest generation is looked up.
InsertReplayBlindly(r) ==
    /\ request[r].pc = "locked"
    /\ request[r].seen = "dead_lettered"
    /\ nextId < MaxDeliveries
    /\ nextId' = nextId + 1
    /\ request' = [request EXCEPT ![r].pc = "inserted", ![r].answer = nextId + 1]
    /\ UNCHANGED <<event, row, enabled, cleaner>>

\* INSERT of the next generation, not yet committed.
InsertReplay(r) ==
    /\ request[r].pc = "locked"
    /\ ReplaysOf(r) = {}
    /\ Replayable(r)
    /\ nextId < MaxDeliveries
    /\ nextId' = nextId + 1
    /\ request' = [request EXCEPT ![r].pc = "inserted", ![r].answer = nextId + 1]
    /\ UNCHANGED <<event, row, enabled, cleaner>>

\* The router's transaction commits and 202 goes out.
CommitReplay(r) ==
    LET q == request[r]
    IN  /\ q.pc = "inserted"
        /\ row' = [row EXCEPT ![q.answer] =
                      NewRow(q.event, row[q.source].generation + 1, q.source, q.key)]
        /\ Answer(r, q.answer, TRUE)
        /\ UNCHANGED <<event, nextId, enabled, cleaner>>

\* The API process or its connection fails; the transaction rolls back.
ReplayFails(r) ==
    /\ request[r].pc \notin {"new", "done"}
    /\ Answer(r, None, FALSE)
    /\ UNCHANGED <<event, row, nextId, enabled, cleaner>>

-----------------------------------------------------------------------------
(* purge_expired_demo_events                                               *)

Running(c) == cleaner[c].pc # "idle"

\* pg_try_advisory_xact_lock; a run that does not get the lock returns.
BeginCleanup(c) ==
    /\ cleaner[c].pc = "idle"
    /\ \A other \in Cleaners : ~Running(other)
    /\ cleaner' = [cleaner EXCEPT ![c].pc = "selecting"]
    /\ UNCHANGED <<event, row, nextId, enabled, request>>

\* Mutant: events with active deliveries are candidates too.
CandidatesWithActive(c) ==
    {e \in Events : event[e] = "expired" /\ e \notin cleaner[c].events}

\* Expired events without an active delivery, as this statement sees them.
Candidates(c) ==
    {e \in Events : /\ event[e] = "expired" /\ e \notin cleaner[c].events
                    /\ \A d \in Chain(e) : ~Active(d)}

\* The `limit` oldest of them.
Batch(c) ==
    LET left == MaxEvents - Cardinality(cleaner[c].events)
        limit == IF BatchSize <= left THEN BatchSize ELSE left
    IN  {e \in Candidates(c) :
            Cardinality({f \in Candidates(c) : f < e}) < limit}

SelectBatch(c) ==
    /\ cleaner[c].pc = "selecting"
    /\ Batch(c) # {}
    /\ cleaner' = [cleaner EXCEPT ![c].pc = "selected", ![c].batch = Batch(c)]
    /\ UNCHANGED <<event, row, nextId, enabled, request>>

\* DELETE FROM deliveries starts: it will visit the rows it sees now.
StartDelete(c) ==
    /\ cleaner[c].pc = "selected"
    /\ cleaner' = [cleaner EXCEPT
          ![c].pc = "deleting",
          ![c].scan = UNION {Chain(e) : e \in cleaner[c].batch}]
    /\ UNCHANGED <<event, row, nextId, enabled, request>>

\* It deletes the rows one after the other, each as soon as it gets the row
\* lock.  The row's status is not looked at again.
DeleteRow(c, d) ==
    /\ cleaner[c].pc = "deleting"
    /\ d \in cleaner[c].scan
    /\ RowFree(d)
    /\ cleaner' = [cleaner EXCEPT ![c].scan = @ \ {d}, ![c].rows = @ \cup {d}]
    /\ UNCHANGED <<event, row, nextId, enabled, request>>

\* Mutant: the foreign key of a replay does not restrict.
RestrictedNever(c) == FALSE

\* A row the statement did not see refers to one it has deleted.
Restricted(c) ==
    \E d \in Deliveries :
        Exists(d) /\ d \notin cleaner[c].rows /\ row[d].from \in cleaner[c].rows

FinishDelete(c) ==
    /\ cleaner[c].pc = "deleting"
    /\ cleaner[c].scan = {}
    /\ ~Restricted(c)
    /\ cleaner' = [cleaner EXCEPT ![c].pc = "rows_deleted"]
    /\ UNCHANGED <<event, row, nextId, enabled, request>>

\* The RESTRICT foreign key of a replay refuses it: the run rolls back.
RestrictAborts(c) ==
    /\ cleaner[c].pc = "deleting"
    /\ cleaner[c].scan = {}
    /\ Restricted(c)
    /\ cleaner' = [cleaner EXCEPT ![c] = IdleCleaner]
    /\ UNCHANGED <<event, row, nextId, enabled, request>>

\* DELETE FROM events, again one row after the other.
DeleteEvent(c, e) ==
    /\ cleaner[c].pc = "rows_deleted"
    /\ e \in cleaner[c].batch
    /\ EventFree(e)
    /\ cleaner' = [cleaner EXCEPT
          ![c].pc = IF cleaner[c].batch = {e} THEN "selecting" ELSE @,
          ![c].batch = @ \ {e}, ![c].events = @ \cup {e}]
    /\ UNCHANGED <<event, row, nextId, enabled, request>>

\* Nothing is left to delete or max_events is reached: commit.
CommitCleanup(c) ==
    /\ cleaner[c].pc = "selecting"
    /\ Batch(c) = {}
    /\ event' = [e \in Events |-> IF e \in cleaner[c].events THEN "absent" ELSE event[e]]
    /\ row' = [d \in Deliveries |-> IF d \in cleaner[c].rows THEN AbsentRow ELSE row[d]]
    /\ cleaner' = [cleaner EXCEPT ![c] = IdleCleaner]
    /\ UNCHANGED <<nextId, enabled, request>>

\* The job dies or loses its connection; its transaction rolls back.
CleanupFails(c) ==
    /\ Running(c)
    /\ cleaner' = [cleaner EXCEPT ![c] = IdleCleaner]
    /\ UNCHANGED <<event, row, nextId, enabled, request>>

-----------------------------------------------------------------------------
(* Replay locks the event and then the delivery, retention the deliveries  *)
(* and then the event: they can wait for each other.                       *)

\* Mutant: the database does not look for cycles of waiting transactions.
DeadlockedUnnoticed(r, c) == FALSE

Deadlocked(r, c) ==
    /\ request[r].pc = "event_locked" /\ request[r].source \in cleaner[c].rows
    /\ cleaner[c].pc = "rows_deleted" /\ request[r].event \in cleaner[c].batch

\* PostgreSQL ends one of the two transactions.
BreakDeadlock(r, c) ==
    /\ Deadlocked(r, c)
    /\ \/ Answer(r, None, FALSE) /\ UNCHANGED cleaner
       \/ /\ cleaner' = [cleaner EXCEPT ![c] = IdleCleaner]
          /\ UNCHANGED request
    /\ UNCHANGED <<event, row, nextId, enabled>>

-----------------------------------------------------------------------------
(* The surroundings.                                                       *)

\* A worker commits a status change (see DeliveryWorker); its row lock waits
\* for, or skips, a row that is held.  Only an attempt can leave evidence
\* against the payload.
WorkerCommits(d) ==
    /\ Exists(d) /\ RowFree(d)
    /\ \E status \in ALLOWED_TRANSITIONS[row[d].status], blocked \in BOOLEAN :
          /\ blocked => row[d].status = "in_progress" /\ status = "dead_lettered"
          /\ row' = [row EXCEPT ![d].status = status, ![d].blocked = blocked]
    /\ UNCHANGED <<event, nextId, enabled, request, cleaner>>

\* The event grows older than the retention cutoff.
Expire(e) ==
    /\ event[e] = "fresh"
    /\ event' = [event EXCEPT ![e] = "expired"]
    /\ UNCHANGED <<row, nextId, enabled, request, cleaner>>

SetEnabled ==
    /\ enabled' = ~enabled
    /\ UNCHANGED <<event, row, nextId, request, cleaner>>

-----------------------------------------------------------------------------

ReplayStep(r) ==
    \/ ReadCandidate(r) \/ LockEvent(r) \/ LockSource(r)
    \/ ReturnExisting(r) \/ Refuse(r)
    \/ InsertReplay(r) \/ CommitReplay(r)

CleanupStep(c) ==
    \/ BeginCleanup(c) \/ SelectBatch(c)
    \/ StartDelete(c) \/ \E d \in Deliveries : DeleteRow(c, d)
    \/ FinishDelete(c) \/ RestrictAborts(c)
    \/ \E e \in Events : DeleteEvent(c, e)
    \/ CommitCleanup(c)

Next ==
    \/ \E r \in Requests : ReplayStep(r) \/ ReplayFails(r)
    \/ \E c \in Cleaners : CleanupStep(c) \/ CleanupFails(c)
    \/ \E r \in Requests, c \in Cleaners : BreakDeadlock(r, c)
    \/ \E d \in Deliveries : WorkerCommits(d)
    \/ \E e \in Events : Expire(e)
    \/ SetEnabled

Spec == Init /\ [][Next]_vars

\* A call that was received runs on and a retention run that was started runs
\* on.  A process that waits for a row lock is in PostgreSQL's queue for it,
\* so retention runs that keep coming cannot take the lock before it forever
\* (strong fairness).  PostgreSQL's deadlock detector runs.
FairSpec ==
    /\ Spec
    /\ \A r \in Requests : /\ WF_vars(ReplayStep(r))
                           /\ SF_vars(LockEvent(r) \/ LockSource(r))
    /\ \A c \in Cleaners : WF_vars(Running(c) /\ CleanupStep(c))
    /\ \A r \in Requests, c \in Cleaners : WF_vars(BreakDeadlock(r, c))

-----------------------------------------------------------------------------
(* Properties.                                                             *)

\* The unique indexes of the deliveries table never have to refuse a replay
\* ("the lock makes all expected conflicts deterministic instead of surfacing
\* an IntegrityError"): generations are distinct in a chain, one key replays
\* a source once, and at most one generation of a chain is active.
UniqueIndexesHold ==
    \A d, other \in Deliveries :
        Exists(d) /\ Exists(other) /\ d # other =>
            /\ row[d].event = row[other].event =>
                  /\ row[d].generation # row[other].generation
                  /\ ~(Active(d) /\ Active(other))
            /\ row[d].from # None =>
                  <<row[d].from, row[d].key>> # <<row[other].from, row[other].key>>

\* A replay generation follows a dead-lettered source of the generation before
\* it, whose evidence does not condemn the payload.  replay decides on a
\* status it read before it took its locks.
ReplaysFollowDeadLetters ==
    \A d \in Deliveries :
        Exists(d) /\ row[d].from # None =>
            LET source == row[row[d].from]
            IN  /\ source.status = "dead_lettered" /\ ~source.blocked
                /\ source.event = row[d].event
                /\ row[d].generation = source.generation + 1

\* An event is deleted with its whole chain or not at all.
EventsAreWhole ==
    \A e \in Events :
        IF event[e] = "absent"
        THEN Chain(e) = {}
        ELSE \E d \in Chain(e) : row[d].generation = 0

\* Two calls with the same source and the same key that are both answered
\* with a delivery are answered with the same one, and one at most made it.
ReplayIsIdempotent ==
    \A r, other \in Requests :
        LET a == request[r]
            b == request[other]
        IN  /\ a.pc = "done" /\ a.answer # None
            /\ b.pc = "done" /\ b.answer # None
            /\ a.source = b.source /\ a.key = b.key
            => a.answer = b.answer /\ (a.created /\ b.created => r = other)

\* "delivery disappeared after its event was locked" cannot happen: while a
\* replay holds the event, retention cannot commit the deletion of its rows.
LockedEventKeepsSource ==
    \A r \in Requests :
        request[r].pc \in {"event_locked", "locked", "inserted"} =>
            Exists(request[r].source) /\ event[request[r].event] # "absent"

\* Retention never deletes the work an event was accepted with.
FirstGenerationSurvives ==
    [][\A d \in Deliveries :
          Active(d) /\ row[d].generation = 0 => row'[d].status # "absent"]_vars

\* The tables without locks, open transactions and replay keys.
generationsBar ==
    {[event |-> row[d].event, generation |-> row[d].generation, status |-> row[d].status] :
        d \in {d \in Deliveries : Exists(d)}}

Chains ==
    INSTANCE DeliveryChains WITH generations <- generationsBar, accepted <- Events

\* Seen from outside, a replay is one step that extends a chain ending in a dead
\* letter, and retention one that removes whole chains whose first delivery is
\* terminal, although both run over many statements, in opposite lock orders.
ImplementsChains == Chains!Spec

\* Every replay call is answered and every retention run ends, however they
\* meet on the rows that they lock in opposite orders.
NobodyWaitsForever ==
    /\ \A r \in Requests : request[r].pc # "new" ~> request[r].pc = "done"
    /\ \A c \in Cleaners : Running(c) ~> ~Running(c)

\* "Delete bounded terminal history while leaving active work untouched."
ActiveWorkUntouched ==
    [][\A d \in Deliveries : Active(d) => row'[d].status # "absent"]_vars
=============================================================================
