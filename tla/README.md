# EventHarbor: a TLA+ verification project

EventHarbor accepts events over HTTP, stores them in PostgreSQL, and delivers
them at least once to webhook endpoints. PostgreSQL is the only coordinator:
API processes, delivery workers and a scheduled retention job meet in its rows
and row locks. Around it are a browser tour that drives the API and three
operator jobs that move and isolate its database. This directory holds a model
of that system, the TLC runs that check it on small instances, and TLAPS proofs
of its safety for every instance.

Paths below are relative to `src/backend/src/eventharbor/` unless they begin
with `frontend/` or `infra/`.

## Inventory

| Component | State | Operations | What is hard | What makes it correct |
| --- | --- | --- | --- | --- |
| Delivery worker (`deliveries/worker.py`) | `deliveries`, `delivery_attempts`, a lease per row; each process's snapshot | claim, redeliver, dead-letter, send, finalize | leases that expire under a live worker, late results, crashes anywhere, `SKIP LOCKED`, budgets that differ between deployments | evidence matches the lease; a result is recorded for its own request only; nothing is lost to the scheduler; everything ends |
| Retry policy and transport (`deliveries/retry.py`, `transport.py`) | none | classify, back off, parse Retry-After | boundaries | only retryable failures are retried, within the budget |
| Lifecycle (`deliveries/state_machine.py`) | status | `ensure_transition` | | terminal is final |
| Ingestion (`services.py` `EventService`) | `events`, first deliveries | publish under an idempotency key | concurrent calls with one key, answers that are lost, retention in between | acceptance is durable, a key names one event |
| Manual replay (`services.py` `ReplayService`) | generations of a delivery | replay the latest dead letter | statement-level races, a status read before the locks | one replay per key, one active generation, only after a dead letter |
| Retention (`maintenance.py`) | none | delete old terminal events in batches | its candidate query takes no lock; it locks in the opposite order to replay | whole events only, active work untouched, it ends |
| Receiver Lab (`receiver_lab/api.py`) | bounded registry of demo runs, evidence | configure, inspect, receive | eviction, interleaved runs | scripts are independent, evidence is the tail |
| Control Room (`control_room.py`), endpoint registration (`services.py`) | `endpoints`; a page's cursor is with the reader | keyset pages of events, dead letters and endpoints; the overview | rows that appear out of timestamp order or vanish between pages, equal timestamps, several statements at READ COMMITTED | nothing shown twice, nothing that stayed skipped |
| Reliability tour (`frontend/src/reliabilityTour.ts`), demo service (`demo.py`) | the run's identifiers and progress in the browser | configure, choose or register the endpoint, publish, follow, repair, replay, verify; pause and resume | lost and late calls, a receiver that forgets, another operator's replay, an endpoint chosen again on each resumption | one event and one own replay, a verdict that is true, an end |
| Database copy jobs (`infra/azure-shared-postgres/migrate.py`, `economy_migrate.py`) | the destination databases, a private container of backups | Inspect, Rehearse, RecoverRehearsal, FinalCopy, Verify | death between any two statements, two executions at once, writers that come back, sequences that ignore snapshots | an exact backup, a destination that is its backup, nothing missed |
| Database isolation job (`infra/azure-shared-postgres/isolate_eventharbor.py`) | owner, role and grants of one database | Inspect, Apply, Verify | an inspection that is old when the change is made | a backup and a review before the change; verified means isolated |
| Schemas, health, frontend presentation, deployment | | | | not modelled, see below |

Ingestion and replay insert `pending` delivery rows; workers move them to
`delivered` or `dead_lettered`; replay starts from a dead letter; retention
deletes an event with all its generations; Receiver Lab is the endpoint the
workers call and the source of the evidence that can block a replay. The
Control Room reads what all of them commit. The tour calls the API's demo
service, publishes, replays, and judges what it reads. The jobs meet the rest only
through the database they copy, which they ask to be frozen.

The hazards, each at its line and with the properties that would catch it, are
listed in `PROJECT.json`.

## Modules

| Module | Models | Extends |
| --- | --- | --- |
| `DeliveryStates` | statuses and `ALLOWED_TRANSITIONS` | |
| `RetryPolicy` | classification, budget, backoff, Retry-After | |
| `DeliveryWorker` | the tables and the worker processes | the two above |
| `DeliveryLifecycle` | abstract specification: status and outcomes only | `DeliveryStates` |
| `DeliveryRefinement` | the mapping from `DeliveryWorker` to `DeliveryLifecycle` | `DeliveryWorker` |
| `DeliveryInvariant` | the inductive invariant | `DeliveryWorker` |
| `DeliveryProofs` | the worker's theorems and the refinement | `DeliveryInvariant`, `DeliveryRefinement`, `TLAPS` |
| `DeliveryChains` | abstract specification: accept an event, move a delivery, replay a dead letter, purge an event, each one step | `DeliveryStates` |
| `ReplayRetention` | replay calls, retention runs, their row locks | `DeliveryStates` |
| `EventStore` | abstract specification: a publish call takes effect in the step that answers it | |
| `Ingestion` | publish calls | |
| `ReceiverContract`, `ReceiverLab` | body validation and replay blocking; the run registry | |
| `ControlRoom` | the reads, against the commits of the rest | `DeliveryStates` |
| `ReliabilityTour` | the tour, the demo service, and the server as they meet it | |
| `DatabaseCopy` | both copy helpers | |
| `Isolation` | the isolation helper | |
| `IngestionProofs`, `RetentionProofs`, `ReceiverProofs`, `ControlRoomProofs`, `TourProofs`, `CopyProofs`, `IsolationProofs` | the inductive invariant of the component and its theorems | the component's module, `TLAPS` |
| `MC...` | constants, symmetry and fairness instances for TLC | |

Definitions whose comment begins with "Mutant:" are not part of the model. Each
is a plausible bug in the definition that follows it; the property named in
`PROJECT.json` is violated when it replaces that definition.

### DeliveryWorker

A worker iteration (`run_once`) is a chain of steps, and any other process may
move between two of them: `ReadClaimClock` (the claim transaction opens and
reads the clock), `LockDue` or `NothingDue` (the locking SELECT), one of
`ClaimDue`, `RedeliverExpired`, `DeadLetterWithoutAttempt`, `DeadLetterExpired`
(the writes and the commit), `Send` or `SendRaises` (the exchange),
`ReadFinalizeClock`, `Finalize` or `FinalizeStale`. The writes of a transaction
are one step, because until the commit others see only its locks.
`IterationFails` is the `except Exception` of `run_forever`; `Crash` and
`Restart` are the process.

The claim's SELECT joins `endpoints` and has no `OF`, so its `FOR UPDATE` locks
the endpoint row too: `EndpointLocked` makes claims of one endpoint exclude
each other, and makes a publish or an operator's update wait.

Timestamps are relative to the present: `Tick` moves all of them one unit into
the past, down to `-Horizon`. The clock is unbounded and the state space
finite. A claim dates its lease from the clock it read *before* it locked, as
the code does, so a slow claim commits a lease that is short or already over.

`lease_token` and `attempt_id` are drawn together and never apart, so one
number stands for both. `wire` is a history variable: what each exchange
returned, by token.

### ReplayRetention

Replay is modelled statement by statement (`ReadCandidate`, `LockEvent`,
`LockSource`, then the decision, `CommitReplay`), retention likewise
(`SelectBatch`, `StartDelete`, `DeleteRow` for each row it can lock,
`FinishDelete`, `DeleteEvent`, `CommitCleanup`). The session does not refresh
an object it already holds, so `replay` decides on the status `seen` by its
first, unlocked read. `RestrictAborts` is the foreign key of a generation the
DELETE did not see. `BreakDeadlock` is PostgreSQL choosing a victim. An event
has one endpoint, so its deliveries are one chain. Workers appear as the status
changes they commit (`WorkerCommits`).

`ImplementsChains` maps the committed rows to `DeliveryChains`, forgetting locks,
open transactions and replay keys: three commits are its steps, all else
stutters. Its `Purge` asks only that the first delivery of the event is terminal;
a replayed generation may be lost (`retention_active`), so more would be false.

### Ingestion

`publish` is modelled statement by statement. `KeyPending` is the wait of
`INSERT ... ON CONFLICT DO NOTHING` for an open transaction with the same key.
`CallFails` may lose the answer before or after the commit. Retention is one
step, `Purge`, since others see only its commit.

`ImplementsEventStore` is the contract of a publish call as its callers see it:
an event with its delivery is one piece of work in a store, and a call finds the
key free and creates it, finds its own request, finds another's, is refused, or
fails because retention took the event, at one moment: that of its answer. A
lost call may have had its effect or none.

### ReceiverLab

Every handler holds one `asyncio.Lock`, so a handler is one step. A body is
abstracted to what validation tells apart; a response code such as
`missing_order_id` is the pair of its halves, because `replay_block_code` tests
the prefix.

### ControlRoom

A page is one statement (`ReadPage`: of the rows below the cursor, in the order
of timestamp and identity, the first `limit` are shown, and the last of them is
the next cursor if there are more). It is written without sorting: the page ends
with the row down to which there are `limit` rows, and `PagesAreDetermined` says
that there is exactly one. The overview is four statements (`CountEvents`,
`CountEndpoints`, `CountStatuses`, `CountActionable`), each on what is committed
at that moment. The rest of the system appears as its commits: `Publish`,
`Progress` of a worker, `Replay`, `Purge`, `CreateEndpoint`. A commit's
timestamp may be older than those already visible, as `now()` is the start of
its transaction. Readers change nothing, so one reader is enough.
`ImplementsChains` ties these commits to the other modules: they are steps of
`DeliveryChains`, which replay and retention implement.

Only an overview that no commit interrupts agrees with itself
(`QuietOverviewAddsUp`). Otherwise its two dead-letter numbers may differ in one
answer, since they are counted by different statements; the code accepts that.

### ReliabilityTour

One action per awaited call or wait of `runReliabilityTour`; `configure` of
`demo.py` is two requests, so it is two actions, and so are the two requests of
`ensureReceiverLabEndpoint` (`ListEndpoints`, and `CreateEndpoint` when the list
has none). `endpoints` holds how many endpoints of the receiver's URL there are
and which is listed first; any of them may have been registered by another
browser (`OtherEndpoint`) or by a late request of the tour itself. A publication
carries the endpoint of the last choice, and one under a key that is stored with
another endpoint is the conflict of `_resolve_idempotent_replay`. `Interrupt` is the catch
clause: the tour pauses, and a request that was under way stays in `late`, from
where `Arrive` may deliver it at any later time. `Begin` resumes with the
identifiers the tour had learned. The server is abstracted to what
`Ingestion`, `ReplayRetention` and `ReceiverLab` establish: a key makes one
event, a source has one replay per key, a script counts failures down. The
worker's attempts run at any speed. After `ForgetRun` the receiver's shared
default state answers until the run is read again: it accepts, or fails as
`LoseAttempt` does.

### DatabaseCopy

`EconomySteps` and `InterimSteps` are the statements of each mode in order, and
a job is the list of those it has left; `prepare_rehearsal_schema` inserts its
own, depending on what it reads. Every statement, upload and download is an
action. `Fail` is a refused check, an error or a lost answer (with the `finally`
clause that revokes the temporary grants), `Kill` the death of the container.
Rows are read through the exported snapshot, sequences as of the moment. Rows
and sequences are versions: what a copy must get right is which moment it holds.

### Isolation

The same style; the ownership transaction is four actions (`OwnershipGuard`,
`TransferOwnership`, `CheckOwnership`, `CommitOwnership`), because sessions with
the old credentials may still commit between them. Its advisory lock is modelled
and released by `Fail`. `CREATE ROLE` refuses a role that exists.

The helper looks at the schema in five ways, and each sees other kinds of object,
so the constants are nested sets of them: the inventory lists all (`Objects`) and
refuses kinds it does not support (`Supported`: no domain, aggregate or
security-definer routine); the transaction alters the owners of relations, enums,
functions and procedures (`Movable`); its last checks look at relations
(`Relations`: `r`, `p`, `v`, `m`, `S`); a manifest lists tables, materialized
views and sequences (`Tables`). Hence `AppliedKeepsTheData` speaks of the rows,
tables and sequences of the manifest and of the ownership of what is movable: a
view or a routine added after the second inventory is handed over unseen, a
domain stays with its owner, and Apply reports success all the same.

## Runs

| Run | Question | Result |
| --- | --- | --- |
| `worker_safety` | Do rows, leases and evidence stay consistent, and is every step a step of the lifecycle, with two workers, budgets 1 and 3, expiry, crashes, a disabled endpoint and every class of answer? | holds |
| `worker_liveness` | Does every delivery end, with one healthy worker and one that may fail or stall anywhere? | holds |
| `retention_safety` | Do two replay calls, workers and retention over two chains keep the unique indexes, idempotency, and whole events, and look atomic from outside? | holds |
| `retention_liveness` | Is every replay answered and does every retention run end, given the inverted lock order? | holds |
| `retention_active` | Does retention leave active work untouched, as its docstring says? | violated |
| `ingestion` | Is acceptance durable, does a key name one event, does every call take effect at once, and are calls that wait for each other on one key all answered? | holds |
| `receiver_runs` | Are scripts independent in a full registry, and is the idlest run evicted? | holds |
| `receiver_blocking` | Does every body Receiver Lab refuses block a replay? | violated |
| `control_room` | Do pages show everything that stayed and nothing twice, is every page determined, and does an undisturbed overview add up? | holds |
| `tour` | With lost, late and repeated calls: is a run never doubled, is its verdict true, has every failure a cause, does it end? | holds |
| `copy` | With failures and deaths anywhere and two executions at once: are backups exact, is a destination its backup, does a verified copy miss nothing, do the temporary grants go? | holds |
| `isolation` | Is there an exact backup and a review behind every change, does a successful Apply leave the data and the ownership it reports, does verified mean isolated? | holds |

`retention_active`: a replay commits after retention selected the event as
terminal and before the DELETE takes its snapshot. The DELETE selects by
`event_id` only, so the new pending generation is deleted with its source,
after the caller was told 202. If the replay commits later than the snapshot,
the RESTRICT foreign key stops retention instead, and first generations are
always safe (`FirstGenerationSurvives`).

`receiver_blocking`: `order.paid` with a non-positive `amount_cents` is refused
with `invalid_amount_cents`, which `RECEIVER_PAYLOAD_ERROR_CODES` does not
contain, so a replay of the same body is not blocked.

`tour`: `TourEnds` has an exception that the code has too. The tour publishes,
the event is stored and the answer lost; meanwhile a second endpoint of the same
URL was registered, by another browser that saw none either or by the tour's own
registration arriving late. Every resumption chooses the endpoint anew, takes the
newer one, publishes to it under the run's key, is answered
`409 idempotency_key_reused` (`endpoint_id` is part of the fingerprint), and
pauses. Without the disjunct `<>[]Moved` TLC finds this behaviour. The endpoint
that `ControlRoomExperience.tsx` keeps for its own publications would close the
gap; `runReliabilityTour` reports it but takes none on resumption.

### Bounds

Two workers suffice for every race of a claim, a late result and a reclaim over
one delivery; a third worker could only be a second late one, and late results
do not interact (the proofs cover any number of workers and deliveries, so one
delivery is enough here). Budgets 1 and 3 give rows that are exhausted for one
worker and not for another. `LeaseSeconds = 1` and delays
of 0 to 2 let a lease run out before, during and after every step. The status
codes are one of each class and one that `classify_status_code` refuses; the
Retry-After dates are one in the past and one beyond the cap. `retention_safety`
has two chains, so a batch of one leaves another, and four rows, so that a replay
of a replay happens. Ingestion needs two calls for a race and a third to find what they left. Receiver Lab's registry of two
is full with three runs; six requests configure, use, evict and come back; one of
the configurations has a count of failures its mode ignores.
Control Room: two events, three deliveries and two instants give ties, rows that
appear below and above a cursor, and a replayed dead letter in the middle of a
paging with pages of one row; endpoints are never deleted and are paged by the
same cursor rule, so one is enough. The tour has the worker's four attempts, an outage
longer than any number of them, three faults (a lost call, a second one on the
resumption, and a receiver or an attempt lost in between), two endpoints, so that
the choice can change, and one replay more than the tour itself may make. Copy
and isolation have two executions and two run identifiers,
so that a rerun, a race and a recovery all occur, a writer that connects twice
(once for isolation), and one write to rows and to a sequence, enough to tell two
moments apart; isolation has one object that every view of the schema sees, a
routine that only the inventory and the transfer see, and a domain that only the
inventory does. Workers, calls, keys, jobs and runs are interchangeable where
symmetry is used, and no liveness run uses it. Deadlock is checked where the
system goes on for ever (workers, replay and retention, ingestion, Receiver
Lab); readers, tours and jobs are meant to stop.

### Fairness

*Worker.* The clock advances. A process that died is started again by its
supervisor. A claim that keeps reaching its locked row commits now and then,
the request ends (httpx bounds its operations) and a started finalization ends.
Strong fairness is needed where failures may repeat: a worker's iterations may
fail for ever at *some* point, and the assumption is that the database does not
refuse every one. Only the workers in `healthy` are asked to make progress at
all; the others may stall for ever holding a lease, but not a lock, since
PostgreSQL ends the transaction of a dead client.

*Replay and retention.* Received calls and started runs go on. A process that
waits for a row lock is queued for it, so retention runs that keep coming
cannot overtake it for ever (strong fairness of the locking steps). The
deadlock detector runs; without it `NobodyWaitsForever` is violated.

*Ingestion.* Received calls go on.

*Tour.* The browser goes on and a paused tour is resumed by its operator, and the
worker goes on attempting. Faults are finitely many. Another operator may have
replayed the source first, or the endpoint moved away from a stored event; such a
tour only pauses, whenever it is resumed, and `TourEnds` excludes it. Copy and
isolation jobs promise no progress: they stop at the first refusal.

## Proofs

The constants' assumptions are in the modules that declare them: delays and
leases are positive, as `RetryPolicy.__post_init__` and `Settings` require, and
`None` is none of the values it stands beside. The worker's refinement also assumes that
some budget is the largest (`Settings` caps `worker_max_attempts` at 100).
Isolation assumes of the kinds of object only how their sets are nested.
Everything else is arbitrary: the number of workers, deliveries, calls, keys,
retention runs, registered runs, endpoints, jobs and objects, the budgets, leases, delays,
status codes, registry sizes, and the bounds on writes, sessions and faults.

| Theorem | Property, for every value of the constants | Module |
| --- | --- | --- |
| `TypeCorrect` | `TypeOK` | `DeliveryProofs` |
| `NumberedCorrect` | `AttemptsNumbered` | |
| `LeaseCorrect` | `EvidenceMatchesLease` | |
| `SchedulerCorrect` | `NeverLostToScheduler` | |
| `EvidenceFound` | `EvidenceNeverMissing` | |
| `TerminalCorrect` | `TerminalIsFinal` | |
| `EvidenceKept` | `EvidenceIsPermanent` | |
| `TimingCorrect` | `NothingHappensEarly` | |
| `BudgetCorrect` | `WithinBudget` | |
| `StatusCorrect` | `StatusExplainedByEvidence` | |
| `OutcomeCorrect` | `EvidenceIsOwnOutcome` | |
| `RequestsCorrect` | `RequestsAreReserved` | |
| `RefinementCorrect` | `ImplementsLifecycle` | |
| `AcceptedIsAlwaysScheduled` | `AcceptedIsScheduled` | `IngestionProofs` |
| `KeysAlwaysNameOneEvent` | `KeysNameOneEvent` | |
| `RefusedAlwaysLeavesNothing` | `RefusedLeavesNothing` | |
| `ErrorsAlwaysNeedRetention` | `ErrorsNeedRetention` | |
| `PublicationIsAtomic` | `ImplementsEventStore` | |
| `UniqueIndexesAlwaysHold` | `UniqueIndexesHold` | `RetentionProofs` |
| `ReplaysAlwaysFollowDeadLetters` | `ReplaysFollowDeadLetters` | |
| `EventsAreAlwaysWhole` | `EventsAreWhole` | |
| `ReplayIsAlwaysIdempotent` | `ReplayIsIdempotent` | |
| `LockedEventAlwaysKeepsSource` | `LockedEventKeepsSource` | |
| `FirstGenerationAlwaysSurvives` | `FirstGenerationSurvives` | |
| `ReplayAndRetentionImplementChains` | `ImplementsChains` | |
| `ScriptIsAlwaysFollowed` | `ScriptIsFollowed` | `ReceiverProofs` |
| `EvidenceIsAlwaysTheTail` | `EvidenceIsTheTail` | |
| `AlwaysEvictsTheIdlest` | `EvictsTheIdlest` | |
| `NothingIsEverShownTwice` | `NothingShownTwice` | `ControlRoomProofs` |
| `NothingIsEverSkipped` | `NothingSkipped` | |
| `PagesAreAlwaysDetermined` | `PagesAreDetermined` | |
| `QuietOverviewAlwaysAddsUp` | `QuietOverviewAddsUp` | |
| `CommitsImplementChains` | `ImplementsChains` | |
| `RunIsNeverDoubled` | `RunIsNotDoubled` | `TourProofs` |
| `VerifiedIsAlwaysTrue` | `VerifiedIsTrue` | |
| `FailureAlwaysHasACause` | `FailureHasACause` | |
| `BackupIsAlwaysExact` | `BackupIsExact` | `CopyProofs` |
| `TargetIsAlwaysItsBackup` | `TargetIsItsBackup` | |
| `VerifiedNeverMisses` | `VerifiedMissesNothing` | |
| `GrantsAreAlwaysTemporary` | `GrantsAreTemporary` | |
| `ChangeIsAlwaysBackedUp` | `ChangeIsBackedUpAndReviewed` | `IsolationProofs` |
| `AppliedAlwaysKeepsTheData` | `AppliedKeepsTheData` | |
| `VerifiedIsAlwaysIsolated` | `VerifiedIsIsolated` | |

Each component also has a theorem that its inductive invariant holds
(`IngestionInvariant`, `RetentionInvariant`, ...); every part of every invariant
was checked by TLC with the constants of the component's run before it was
proved. `AttemptsNumbered`, `TerminalIsFinal`, `EvidenceIsPermanent` and the
`ImplementsChains` of `ControlRoom` are theorems only. So are three properties
that the refinements a run checks contain: `RefusedLeavesNothing` and
`ErrorsNeedRetention` (with `AcceptedIsScheduled`, `EventStore`), and
`FirstGenerationSurvives` (`DeliveryChains`).

### Workers

The argument has four layers, each resting on the one before; the invariants are
in `DeliveryInvariant`.

1. *Types.* `TypeInv` is `TypeOK` with `WorkerShape`: which fields a process has
   filled in at each point of its iteration. Without it a claim could date a
   lease from a clock it never read.
2. *Tables.* `TableInv` adds the three properties of rows and evidence and what
   makes them inductive. `ClaimLocks`: a locked row is still due and nobody else
   holds a row of its endpoint, so what the claim's SELECT saw is still true
   when it commits, although time passed. `TokensAreUnique` and
   `SnapshotsMatch`: a snapshot names one attempt that is not completed, is held
   by one worker, and a lease under its token is the holder's; this is what a
   late `finalize` meets. `DispositionWhenCompleted` and `FreshIsUntried` tie an
   attempt's columns and a new row's counter together. The proof has one lemma
   for the steps that leave the tables alone, one for those that close a
   delivery, one for those that reserve an attempt, and a short one per action.
3. *Steps.* `StepEffects`: under `TableInv` a step touches at most one delivery,
   and it accepts it, reserves its next attempt, gives it up, concludes it, or
   only ages it. The action properties, the budget and the status follow from
   the list, and so does the refinement: each effect is one lifecycle action.
4. *Exchanges.* `WireMatches` says what was sent agrees with the snapshots still
   out: nothing was sent under the token of a worker that has not sent, and what
   a worker brings back is what its token's request returned.

### Ingestion

`KeysNameOneEvent` alone is not inductive: the unique index is on committed rows
and open transactions, so `KeysAreUnique` says no two of either share a key, and
`IdentitiesAreFresh` that the identity of an open insert is nobody else's.
`CallsKnowTheirEvent` follows what a call saw through retention: a row it
conflicted with is committed or purged, never merely absent, which is why the
RuntimeErrors need a purge.

For the refinement `IdentitiesAreFresh` speaks of purged events too: an identity
that retention removed is not drawn again, so the delivery a call reads belongs
to the event it found before. A commit is `Create`, because the open insert has
kept the key free of every other; an answer "existing" is `Find` at the moment
the delivery is read, not when the conflict was met.

### Replay and retention

`TableInv` is the committed chains; `CallInv` what a replay knows at each
statement; `RunInv` what a retention run has selected and locked; `LocksExclude`
joins the two. The heart is `InsertsAreReady`: what the call checked on the
status it read *before* its locks (no active generation, no newer one, no replay
under this key) still holds when it inserts, because the event's row lock is the
mutex of the chain and a dead letter stays one. `DeletionsAreWhole` carries
whole-event deletion through a DELETE that runs row by row: a generation that
committed behind its snapshot refers to a row being deleted, so the foreign key
aborts the run.

The refinement needs little more: `InsertsAreReady` makes the commit of a replay
the abstract `Replay`, `DeletionsAreWhole` and `DeletionsAreSelected` make that of
a run `Purge` of exactly its events, and by `UniqueIndexesHold` no two rows of a
chain look alike, so a worker's commit moves one generation.

### Receiver Lab

`InOrderOfUse` makes the registry a list without repetition sorted by last use,
so its head is the idlest; `Answered` counts a run's attempts by its script.
Without the registry's order eviction could remove the newer of two copies of
one run. The attempt to prove `ScriptIsFollowed` as first stated failed: the API
accepts `failures` with mode `success`, where the count means nothing. The
property now speaks of the modes that count (`Scripted`), and the run's
configurations include one that does not.

### Control Room

`ControlRoomInv` has a part for the tables (`IdentitiesAreKeys`, and
`ChainsAreWhole`: every event has one latest generation) and one for the reader.
An item's sort key is final from the moment it can be listed: a dead letter is
never updated again, an event and an endpoint never are; and an identity is drawn
once (`CommitKeepsKeys`). So `ShownIsBehind` (what was shown is not below the
cursor, and nothing of its identity ever will be) and `KeptIsAhead` (what stayed
in the list and was not shown is below it) survive every commit. A page keeps
both because all it shows lies between two cursors; the list's last page leaves
nothing ahead. `CountsAreCurrent` does the same for the overview, whose sums
agree because events and latest generations correspond one to one
(`LatestPerEvent`).

That a page always has a last row is an induction over the number of rows. It is
done with sets instead of an induction rule: `LeastNatural`, from the
well-foundedness of the naturals, gives the last row of every finite set
(`LastRow`), removing it the one before (`OneRowFewer`), and the least number of
rows a page could end with that is not below `limit` is `limit` (`PageEnds`).

### Tour

`SeenWasTrue`: what the tour has read is an earlier state of the lineage, and an
outcome it read is final. `LineageInOrder`: only the newest generation is open
and the tour's own replay is the second one; the event is one (`OneEvent`),
whichever endpoints the run's publications named. `QuietRun` is for
`FailureHasACause`: as long as there was no fault and no foreign replay, the
receiver is as the tour left it, and its script decides how source and replay
end at every speed of the worker. Overlapping guards of a CASE leave TLA+ free to
take either arm (TLC takes the first), so `Inspect`, `ConfirmRestored` and
`AttemptDelivery` are written with IF, in the code's order.

### Isolation

What a job has established depends on how many of its steps are left:
`Established(r, n, d, s, b)` lists it for a record, a database, the sessions and
the container. `Collected`: the dump and the manifest come from one snapshot and
their sequence values enclose each other, so the later comparison makes them
equal on what a manifest lists. For the other kinds of object it is the inventory
that counts: objects are only added, so what the first inventory listed is in the
dump and the dump in the schema, and the second inventory, being equal to the
first, closes the circle. `FreezeCounted`: a freeze check that counted as many sessions as there
are now means nobody is connected and nobody wrote. `LockHeld`: the advisory
lock is held exactly between guard and commit, and no role exists while it is;
hence `Reviewed`, that the database the commit finds is the one the second
inventory saw, and that the transaction altered all that is movable in it. One
lemma covers the steps that only read, one the uploads, one
the steps inside the transaction, and the environment has its own.

### Copy

The argument is the one of Isolation over nine sequences of steps, one per helper
and mode. `Placed` says how many steps are left at each step of a mode (nine
lemmas read it off the sequences), counted from the download for the first half
and from the end for the second, so that both helpers share the rest.
`Established` is what a job has by then: `Collected` and `Kept` for the backup,
`Recovering` for a job that works from a stored one, `Standing` for the
destination's role and mark, `Compared` for the end of a final copy. `Framed` is
what makes it survive the other jobs: roles, data and names of the container are
written once (`Grows`, `Fills`), a mark changes only until it is the role's, and
a writer that has come is counted (`Passes`). A job that repairs the rehearsal's
schema has left its mode's sequence; `Place` counts it as standing at the
restore. The first statement of the invariant asked less of a job in repair
and was not inductive: what the copy had collected is needed again afterwards.

### Model-checked only

- The liveness properties (`EveryCallIsAnswered`, `TourEnds`, and those of the
  liveness runs): fairness and `ENABLED` are beyond the prover.

Every safety property and every refinement of a passing run is a theorem.

## Not modelled

- Frontend presentation: components, formatting, queries that only show.
- Request and response schemas, routing, health probes, HMAC signing: no state.
- Deployment scripts and templates; the DDL of the Alembic migrations (their
  constraints are modelled where an operation meets them).
- Control Room: reads of a single row, and filters by endpoint or event type,
  which are immutable and so select a smaller list of the same kind.
- Tour: messages and presentation pauses; a reload of the page, which forgets
  the run; retention reaching the event of a tour that is still running (it
  keeps days, a tour takes minutes); an endpoint being disabled, or lying beyond
  the hundred that the tour lists.
- Copy and isolation: checks of settings, passwords, TLS, server version, locale
  and privacy change nothing and can only refuse, so they are part of `Fail`, as
  is `ANALYZE`. A statement that timed out is taken not to commit later. A
  source sequence only grows, and objects are not dropped. That a manifest refuses
  foreign tables, which are neither supported nor movable, is part of `Fail` too.
  `RequireFrozen` stands for both helpers' predicates (`IS DISTINCT FROM` in
  `economy_migrate.py`, `<>` in `migrate.py`): they differ on a session without an
  application name, which PostgreSQL gives no client.

## Plan

`RetryPolicy` checked against a reference definition over bounded inputs; the
worker's status changes, proved against `DeliveryLifecycle`, as steps of
`DeliveryChains` too.
