--------------------------- MODULE DeliveryWorker ---------------------------
(***************************************************************************)
(* The PostgreSQL scheduler of EventHarbor: the deliveries and             *)
(* delivery_attempts tables and the worker processes that run              *)
(* DeliveryWorker.run_forever (deliveries/worker.py) against them.         *)
(*                                                                         *)
(* A worker iteration is a chain of steps between which any other process  *)
(* may move and time may pass: read the database clock, lock one due row   *)
(* with FOR UPDATE SKIP LOCKED, commit the claim, exchange the request,    *)
(* read the clock again, commit the result.  Between locking a row and the *)
(* commit only the lock is visible to others, so the writes of a           *)
(* transaction are one step.                                               *)
(*                                                                         *)
(* Every timestamp is kept relative to the present: 0 is the current       *)
(* database time, a positive value lies ahead, and Tick moves all of them  *)
(* one unit into the past.  Values are kept down to -Horizon, so an        *)
(* unbounded clock needs finitely many states; two rows that are both      *)
(* overdue by Horizon or more merely lose their relative order.            *)
(***************************************************************************)
EXTENDS Integers, Sequences, DeliveryStates, RetryPolicy

CONSTANTS
    Workers,            \* worker process slots
    Deliveries,         \* identities of delivery rows
    Endpoints,          \* identities of endpoint rows
    EndpointOf,         \* EndpointOf[d]: the endpoint of delivery d
    Budgets,            \* values worker_max_attempts is configured with
    LeaseSeconds,       \* worker_lease_seconds
    Horizon,            \* how far into the past timestamps are told apart
    StatusCodes,        \* status codes an endpoint may answer with
    RetryAfterHeaders   \* Retry-After headers it may send

ASSUME WorkerAssumption ==
    /\ EndpointOf \in [Deliveries -> Endpoints]
    /\ Budgets \subseteq Nat \ {0}
    /\ LeaseSeconds \in Nat \ {0}
    /\ Horizon \in Nat /\ Horizon >= LeaseSeconds /\ Horizon >= MaxDelay
    /\ StatusCodes \subseteq Int
    /\ RetryAfterHeaders \subseteq
           [kind : {"absent", "delta", "date", "malformed"}, seconds : Int]
    /\ None \notin Workers /\ None \notin Deliveries

VARIABLES
    delivery,   \* deliveries: one row per identity ("absent" before it exists)
    attempts,   \* delivery_attempts: the rows of each delivery, oldest first
    worker,     \* the local state of each worker process
    enabled,    \* endpoints.enabled
    issued,     \* how many lease tokens were drawn; the next is issued + 1
    wire        \* history: the outcome of each HTTP exchange, by lease token

vars == <<delivery, attempts, worker, enabled, issued, wire>>

-----------------------------------------------------------------------------
(* Rows and process state.                                                 *)

\* One value stands for the two UUIDs a claim draws, lease_token and attempt_id.
Tokens == Nat \ {0}

Instants == {t \in Int : -Horizon <= t}

AbsentRow ==
    [status |-> "absent", attempt_count |-> 0, next_attempt_at |-> None,
     lease_owner |-> None, lease_token |-> None, lease_expires_at |-> None]

\* A row as EventService.publish or ReplayService.replay inserts it.
NewRow == [AbsentRow EXCEPT !.status = "pending", !.next_attempt_at = 0]

NewAttempt(number, token) ==
    [attempt_number |-> number, lease_token |-> token,
     status |-> "in_progress", disposition |-> None]

\* A worker between iterations: the rest of the record is the OutboundWebhook
\* and the AttemptResult an iteration carries.
Idle(budget) ==
    [pc |-> "idle", budget |-> budget, now |-> None, delivery |-> None,
     number |-> 0, token |-> None, disposition |-> None, retry_after |-> None]

Init ==
    /\ delivery = [d \in Deliveries |-> AbsentRow]
    /\ attempts = [d \in Deliveries |-> << >>]
    /\ worker \in [Workers -> {Idle(b) : b \in Budgets}]
    /\ enabled = [e \in Endpoints |-> TRUE]
    /\ issued = 0
    /\ wire = {}

-----------------------------------------------------------------------------
(* Row locks.  The claim's SELECT joins endpoints and has no OF clause, so *)
(* FOR UPDATE locks the delivery row and its endpoint row, and SKIP LOCKED *)
(* passes over a delivery when either is held.                             *)

EndpointLocked(e) ==
    \E w \in Workers : /\ worker[w].pc = "locked"
                       /\ EndpointOf[worker[w].delivery] = e

DeliveryLocked(d) ==
    \E w \in Workers : worker[w].pc = "locked" /\ worker[w].delivery = d

\* Mutant: a lease counts as expired at once.
DueWhileLeased(d) ==
    \/ /\ delivery[d].status \in {"pending", "retry_wait"}
       /\ delivery[d].next_attempt_at <= 0
    \/ delivery[d].status = "in_progress"

\* Mutant: expired leases are not reclaimed.
DueWithoutReclaim(d) ==
    /\ delivery[d].status \in {"pending", "retry_wait"}
    /\ delivery[d].next_attempt_at <= 0

Due(d) ==
    \/ /\ delivery[d].status \in {"pending", "retry_wait"}
       /\ delivery[d].next_attempt_at # None
       /\ delivery[d].next_attempt_at <= 0
       /\ delivery[d].lease_token = None
    \/ /\ delivery[d].status = "in_progress"
       /\ delivery[d].lease_expires_at # None
       /\ delivery[d].lease_expires_at <= 0

Claimable(d) ==
    Due(d) /\ ~DeliveryLocked(d) /\ ~EndpointLocked(EndpointOf[d])

\* coalesce(lease_expires_at, next_attempt_at)
DueSince(d) ==
    IF delivery[d].lease_expires_at # None
    THEN delivery[d].lease_expires_at
    ELSE delivery[d].next_attempt_at

\* Timestamps age; see Tick.
Instant(t) == Larger(t, -Horizon)
Aged(t) == IF t = None THEN None ELSE Instant(t - 1)

-----------------------------------------------------------------------------
(* claim_one                                                               *)

\* run_once begins: the claim transaction opens and reads clock_timestamp().
ReadClaimClock(w) ==
    /\ worker[w].pc = "idle"
    /\ worker' = [worker EXCEPT ![w].pc = "claiming", ![w].now = 0]
    /\ UNCHANGED <<delivery, attempts, enabled, issued, wire>>

\* The locking SELECT returns no row; run_forever sleeps and polls again.
NothingDue(w) ==
    /\ worker[w].pc = "claiming"
    /\ \A d \in Deliveries : ~Claimable(d)
    /\ worker' = [worker EXCEPT ![w] = Idle(worker[w].budget)]
    /\ UNCHANGED <<delivery, attempts, enabled, issued, wire>>

\* The locking SELECT returns the row that has been due for longest.
LockDue(w, d) ==
    /\ worker[w].pc = "claiming"
    /\ Claimable(d)
    /\ \A other \in Deliveries :
            Claimable(other) => DueSince(d) <= DueSince(other)
    /\ worker' = [worker EXCEPT ![w].pc = "locked", ![w].delivery = d]
    /\ UNCHANGED <<delivery, attempts, enabled, issued, wire>>

Exhausted(w, d) ==
    ~HasAttemptRemaining(delivery[d].attempt_count, worker[w].budget)

\* Mutant: a reclaimed row keeps its expired lease token.
LeasedRowOldToken(w, d) ==
    [delivery[d] EXCEPT
        !.status = "in_progress", !.attempt_count = @ + 1,
        !.next_attempt_at = None, !.lease_owner = w,
        !.lease_token = IF @ = None THEN issued + 1 ELSE @,
        !.lease_expires_at = Instant(worker[w].now + LeaseSeconds)]

\* The row as the claim leaves it, leased to w.
LeasedRow(w, d) ==
    [delivery[d] EXCEPT
        !.status = "in_progress",
        !.attempt_count = @ + 1,
        !.next_attempt_at = None,
        !.lease_owner = w,
        !.lease_token = issued + 1,
        !.lease_expires_at = Instant(worker[w].now + LeaseSeconds)]

\* The tail of claim_one: lease the row, insert the attempt row after the
\* rows `evidence`, commit, and keep the OutboundWebhook snapshot.
Reserve(w, d, evidence) ==
    LET number == delivery[d].attempt_count + 1
    IN  /\ delivery' = [delivery EXCEPT ![d] = LeasedRow(w, d)]
        /\ attempts' = [attempts EXCEPT
                          ![d] = Append(evidence, NewAttempt(number, issued + 1))]
        /\ issued' = issued + 1
        /\ worker' = [worker EXCEPT ![w].pc = "claimed", ![w].now = None,
                                    ![w].number = number,
                                    ![w].token = issued + 1]
        /\ UNCHANGED <<enabled, wire>>

\* The row as both dead-letter paths of the claim leave it.
DeadLetteredRow(d) ==
    [delivery[d] EXCEPT !.status = "dead_lettered", !.next_attempt_at = None,
                        !.lease_owner = None, !.lease_token = None,
                        !.lease_expires_at = None]

\* Due work whose endpoint is enabled and whose budget is not exhausted.
ClaimDue(w) ==
    LET d == worker[w].delivery
    IN  /\ worker[w].pc = "locked"
        /\ delivery[d].status # "in_progress"
        /\ enabled[EndpointOf[d]] /\ ~Exhausted(w, d)
        /\ EnsureTransition(delivery[d].status, "in_progress")
        /\ Reserve(w, d, attempts[d])

\* _dead_letter_without_attempt
DeadLetterWithoutAttempt(w) ==
    LET d == worker[w].delivery
    IN  /\ worker[w].pc = "locked"
        /\ delivery[d].status # "in_progress"
        /\ ~enabled[EndpointOf[d]] \/ Exhausted(w, d)
        /\ EnsureTransition(delivery[d].status, "dead_lettered")
        /\ delivery' = [delivery EXCEPT ![d] = DeadLetteredRow(d)]
        /\ worker' = [worker EXCEPT ![w] = Idle(worker[w].budget)]
        /\ UNCHANGED <<attempts, enabled, issued, wire>>

\* The attempt row _resolve_expired_attempt looks up; without one it raises.
ExpiredEvidence(d, i) ==
    /\ i \in DOMAIN attempts[d]
    /\ attempts[d][i].attempt_number = delivery[d].attempt_count
    /\ attempts[d][i].lease_token = delivery[d].lease_token
    /\ attempts[d][i].status = "in_progress"

\* Mutant: the expired attempt is left in progress.
AbandonedNot(d, i) == attempts[d]

Abandoned(d, i) == [attempts[d] EXCEPT ![i].status = "indeterminate"]

\* An expired claim whose delivery may be sent again: the old attempt becomes
\* indeterminate and the next one is reserved in the same transaction.
RedeliverExpired(w, i) ==
    LET d == worker[w].delivery
    IN  /\ worker[w].pc = "locked"
        /\ delivery[d].status = "in_progress"
        /\ ExpiredEvidence(d, i)
        /\ enabled[EndpointOf[d]] /\ ~Exhausted(w, d)
        /\ Reserve(w, d, Abandoned(d, i))

\* Mutant: the delivery is dead-lettered and its evidence left open.
DeadLetterExpiredSilently(w, i) ==
    LET d == worker[w].delivery
    IN  /\ worker[w].pc = "locked"
        /\ delivery[d].status = "in_progress"
        /\ ExpiredEvidence(d, i)
        /\ ~enabled[EndpointOf[d]] \/ Exhausted(w, d)
        /\ delivery' = [delivery EXCEPT ![d] = DeadLetteredRow(d)]
        /\ worker' = [worker EXCEPT ![w] = Idle(worker[w].budget)]
        /\ UNCHANGED <<attempts, enabled, issued, wire>>

\* An expired claim whose endpoint is disabled or whose budget is spent.
DeadLetterExpired(w, i) ==
    LET d == worker[w].delivery
    IN  /\ worker[w].pc = "locked"
        /\ delivery[d].status = "in_progress"
        /\ ExpiredEvidence(d, i)
        /\ ~enabled[EndpointOf[d]] \/ Exhausted(w, d)
        /\ EnsureTransition(delivery[d].status, "dead_lettered")
        /\ delivery' = [delivery EXCEPT ![d] = DeadLetteredRow(d)]
        /\ attempts' = [attempts EXCEPT ![d] = Abandoned(d, i)]
        /\ worker' = [worker EXCEPT ![w] = Idle(worker[w].budget)]
        /\ UNCHANGED <<enabled, issued, wire>>

-----------------------------------------------------------------------------
(* send_webhook, between the two transactions.                             *)

\* Every AttemptResult send_webhook can return.
SendResults ==
    {TransportFailure} \cup
    {ResponseResult(code, header) :
        code \in {c \in StatusCodes : ValidStatusCode(c)},
        header \in RetryAfterHeaders}

\* Mutant: a transport failure is retried under the same reservation.
SendAgain(w) ==
    /\ worker[w].pc = "claimed"
    /\ \E result \in SendResults :
          /\ worker' = [worker EXCEPT
                ![w].pc = IF result = TransportFailure THEN "claimed" ELSE "sent",
                ![w].disposition = result.disposition,
                ![w].retry_after = result.retry_after]
          /\ wire' = wire \cup {[token |-> worker[w].token,
                                 disposition |-> result.disposition]}
    /\ UNCHANGED <<delivery, attempts, enabled, issued>>

\* The request goes out and the exchange ends in a result.  A transport
\* failure says nothing about whether the endpoint processed the request.
Send(w) ==
    /\ worker[w].pc = "claimed"
    /\ \E result \in SendResults :
          /\ worker' = [worker EXCEPT ![w].pc = "sent",
                                      ![w].disposition = result.disposition,
                                      ![w].retry_after = result.retry_after]
          /\ wire' = wire \cup {[token |-> worker[w].token,
                                 disposition |-> result.disposition]}
    /\ UNCHANGED <<delivery, attempts, enabled, issued>>

\* The endpoint answers with a status code classify_status_code rejects: the
\* ValueError ends the iteration and the attempt is left to its lease.
SendRaises(w) ==
    /\ worker[w].pc = "claimed"
    /\ \E code \in StatusCodes : ~ValidStatusCode(code)
    /\ worker' = [worker EXCEPT ![w] = Idle(worker[w].budget)]
    /\ wire' = wire \cup {[token |-> worker[w].token, disposition |-> None]}
    /\ UNCHANGED <<delivery, attempts, enabled, issued>>

-----------------------------------------------------------------------------
(* finalize                                                                *)

\* The finalizing transaction opens and reads clock_timestamp().
ReadFinalizeClock(w) ==
    /\ worker[w].pc = "sent"
    /\ worker' = [worker EXCEPT ![w].pc = "finalizing", ![w].now = 0]
    /\ UNCHANGED <<delivery, attempts, enabled, issued, wire>>

\* The row finalize locks: still in progress, leased to this worker under the
\* snapshot's token, at the snapshot's attempt number.
OwnsLease(w, d) ==
    /\ delivery[d].status = "in_progress"
    /\ delivery[d].lease_owner = w
    /\ delivery[d].lease_token = worker[w].token
    /\ delivery[d].attempt_count = worker[w].number

\* FOR UPDATE without SKIP LOCKED waits for a claim that holds the row, then
\* tests the row the claim left.  A mismatch ignores the result.
FinalizeStale(w) ==
    LET d == worker[w].delivery
    IN  /\ worker[w].pc = "finalizing"
        /\ ~DeliveryLocked(d)
        /\ ~OwnsLease(w, d)
        /\ worker' = [worker EXCEPT ![w] = Idle(worker[w].budget)]
        /\ UNCHANGED <<delivery, attempts, enabled, issued, wire>>

\* The attempt row finalize completes; without one it raises.
ReservedEvidence(w, d, i) ==
    /\ i \in DOMAIN attempts[d]
    /\ attempts[d][i].attempt_number = worker[w].number
    /\ attempts[d][i].lease_token = worker[w].token
    /\ attempts[d][i].status = "in_progress"

\* Mutant: every failure is retried while attempts remain.
TargetStatusRetryAll(w) ==
    CASE worker[w].disposition = "succeeded" -> "delivered"
      [] HasAttemptRemaining(worker[w].number, worker[w].budget) -> "retry_wait"
      [] OTHER -> "dead_lettered"

\* The status finalize decides on before its transaction opens.
TargetStatus(w) ==
    CASE worker[w].disposition = "succeeded" -> "delivered"
      [] /\ worker[w].disposition = "retry"
         /\ HasAttemptRemaining(worker[w].number, worker[w].budget) -> "retry_wait"
      [] OTHER -> "dead_lettered"

\* Mutant: the retry is not scheduled.
ScheduledInstantsNever(w) == {None}

\* The values next_attempt_at may get: None unless a retry is scheduled.
ScheduledInstants(w) ==
    IF TargetStatus(w) = "retry_wait"
    THEN {Instant(worker[w].now + delay) :
            delay \in RetryDelays(worker[w].number, worker[w].retry_after)}
    ELSE {None}

Completed(w, d, i) ==
    [attempts[d] EXCEPT ![i].status = "completed",
                        ![i].disposition = worker[w].disposition]

FinalizedRow(w, d, next) ==
    [delivery[d] EXCEPT !.status = TargetStatus(w), !.next_attempt_at = next,
                        !.lease_owner = None, !.lease_token = None,
                        !.lease_expires_at = None]

\* Mutant: the result is applied to the newest attempt without any fence.
FinalizeUnfenced(w, i) ==
    LET d == worker[w].delivery
    IN  /\ worker[w].pc = "finalizing"
        /\ ~DeliveryLocked(d)
        /\ i = Len(attempts[d])
        /\ \E next \in ScheduledInstants(w) :
              delivery' = [delivery EXCEPT ![d] = FinalizedRow(w, d, next)]
        /\ attempts' = [attempts EXCEPT ![d] = Completed(w, d, i)]
        /\ worker' = [worker EXCEPT ![w] = Idle(worker[w].budget)]
        /\ UNCHANGED <<enabled, issued, wire>>

Finalize(w, i) ==
    LET d == worker[w].delivery
    IN  /\ worker[w].pc = "finalizing"
        /\ ~DeliveryLocked(d)
        /\ OwnsLease(w, d)
        /\ ReservedEvidence(w, d, i)
        /\ EnsureTransition(delivery[d].status, TargetStatus(w))
        /\ \E next \in ScheduledInstants(w) :
              delivery' = [delivery EXCEPT ![d] = FinalizedRow(w, d, next)]
        /\ attempts' = [attempts EXCEPT ![d] = Completed(w, d, i)]
        /\ worker' = [worker EXCEPT ![w] = Idle(worker[w].budget)]
        /\ UNCHANGED <<enabled, issued, wire>>

-----------------------------------------------------------------------------
(* Failures of a worker.                                                   *)

\* Any exception in run_once (a lost connection, a refused commit, a request
\* that cannot be built) rolls the open transaction back; run_forever logs
\* it and polls again.  The AttemptResult in hand is lost.
IterationFails(w) ==
    /\ worker[w].pc \notin {"idle", "down"}
    /\ worker' = [worker EXCEPT ![w] = Idle(worker[w].budget)]
    /\ UNCHANGED <<delivery, attempts, enabled, issued, wire>>

\* The process dies at any point; PostgreSQL releases its locks.
Crash(w) ==
    /\ worker[w].pc # "down"
    /\ worker' = [worker EXCEPT ![w] = [Idle(worker[w].budget) EXCEPT !.pc = "down"]]
    /\ UNCHANGED <<delivery, attempts, enabled, issued, wire>>

\* The supervisor starts it again, perhaps with another worker_max_attempts.
Restart(w) ==
    /\ worker[w].pc = "down"
    /\ \E budget \in Budgets : worker' = [worker EXCEPT ![w] = Idle(budget)]
    /\ UNCHANGED <<delivery, attempts, enabled, issued, wire>>

-----------------------------------------------------------------------------
(* The surroundings of the workers.                                        *)

\* publish or replay commits a pending row; its foreign key waits for a claim
\* that holds the endpoint row.
Enqueue(d) ==
    /\ delivery[d].status = "absent"
    /\ ~EndpointLocked(EndpointOf[d])
    /\ enabled[EndpointOf[d]]
    /\ delivery' = [delivery EXCEPT ![d] = NewRow]
    /\ UNCHANGED <<attempts, worker, enabled, issued, wire>>

\* An operator flips endpoints.enabled; the UPDATE waits for the row lock.
SetEnabled(e) ==
    /\ ~EndpointLocked(e)
    /\ enabled' = [enabled EXCEPT ![e] = ~@]
    /\ UNCHANGED <<delivery, attempts, worker, issued, wire>>

\* Time passes.
Tick ==
    /\ delivery' = [d \in Deliveries |->
                      [delivery[d] EXCEPT !.next_attempt_at = Aged(@),
                                          !.lease_expires_at = Aged(@)]]
    /\ worker' = [w \in Workers |-> [worker[w] EXCEPT !.now = Aged(@)]]
    /\ UNCHANGED <<attempts, enabled, issued, wire>>

-----------------------------------------------------------------------------

\* One claim transaction from its locked row to its commit.
ResolveClaim(w) ==
    \/ ClaimDue(w)
    \/ DeadLetterWithoutAttempt(w)
    \/ /\ worker[w].pc = "locked"
       /\ \E i \in DOMAIN attempts[worker[w].delivery] :
             RedeliverExpired(w, i) \/ DeadLetterExpired(w, i)

FinishFinalize(w) ==
    \/ FinalizeStale(w)
    \/ /\ worker[w].pc = "finalizing"
       /\ \E i \in DOMAIN attempts[worker[w].delivery] : Finalize(w, i)

WorkerStep(w) ==
    \/ ReadClaimClock(w)
    \/ NothingDue(w)
    \/ \E d \in Deliveries : LockDue(w, d)
    \/ ResolveClaim(w)
    \/ Send(w) \/ SendRaises(w)
    \/ ReadFinalizeClock(w)
    \/ FinishFinalize(w)
    \/ IterationFails(w)
    \/ Crash(w)
    \/ Restart(w)

Next ==
    \/ \E w \in Workers : WorkerStep(w)
    \/ \E d \in Deliveries : Enqueue(d)
    \/ \E e \in Endpoints : SetEnabled(e)
    \/ Tick

Spec == Init /\ [][Next]_vars

(***************************************************************************)
(* Fairness.  The database clock advances.  A process that died is started *)
(* again.  A claim that keeps reaching its locked row commits now and then *)
(* (the database does not refuse every commit).  A started exchange ends   *)
(* (httpx bounds each of its operations) and a started finalization ends.  *)
(* The workers in `healthy` also get to open claims and lock rows now and  *)
(* then, however often their iterations fail; nothing is asked of the      *)
(* others.                                                                 *)
(***************************************************************************)
Fairness(healthy) ==
    /\ WF_vars(Tick)
    /\ \A w \in Workers : SF_vars(ResolveClaim(w))
    /\ \A w \in healthy :
          /\ WF_vars(Restart(w))
          /\ SF_vars(ReadClaimClock(w))
          /\ WF_vars(NothingDue(w))
          /\ SF_vars(\E d \in Deliveries : LockDue(w, d))
          /\ WF_vars(Send(w) \/ SendRaises(w))
          /\ WF_vars(ReadFinalizeClock(w))
          /\ WF_vars(FinishFinalize(w))

-----------------------------------------------------------------------------
(* Properties.                                                             *)

Row ==
    [status           : DeliveryStatuses \cup {"absent"},
     attempt_count    : Nat,
     next_attempt_at  : Instants \cup {None},
     lease_owner      : Workers \cup {None},
     lease_token      : Tokens \cup {None},
     lease_expires_at : Instants \cup {None}]

Attempt ==
    [attempt_number : Nat \ {0},
     lease_token    : Tokens,
     status         : AttemptStatuses,
     disposition    : Dispositions \cup {None}]

Process ==
    [pc          : {"down", "idle", "claiming", "locked", "claimed", "sent",
                    "finalizing"},
     budget      : Budgets,
     now         : Instants \cup {None},
     delivery    : Deliveries \cup {None},
     number      : Nat,
     token       : Tokens \cup {None},
     disposition : Dispositions \cup {None},
     retry_after : Nat \cup {None}]

\* The type of every variable.
TypeOK ==
    /\ delivery \in [Deliveries -> Row]
    /\ attempts \in [Deliveries -> Seq(Attempt)]
    /\ worker \in [Workers -> Process]
    /\ enabled \in [Endpoints -> BOOLEAN]
    /\ issued \in Nat
    /\ wire \subseteq [token : Tokens, disposition : Dispositions \cup {None}]

\* Attempts number their delivery's requests 1, 2, 3, ... without a gap, and
\* the row's attempt_count is the last number (claim_one adds one and inserts
\* that number; nothing else touches either).
AttemptsNumbered ==
    \A d \in Deliveries :
        /\ delivery[d].attempt_count = Len(attempts[d])
        /\ \A i \in DOMAIN attempts[d] : attempts[d][i].attempt_number = i

\* A delivery is in progress exactly when its newest attempt is, under the
\* same lease token; every older attempt is resolved.  So at most one attempt
\* is in progress, and the partial unique index on delivery_attempts never
\* refuses a claim.
EvidenceMatchesLease ==
    \A d \in Deliveries :
        /\ delivery[d].status = "in_progress" =>
              /\ attempts[d] # << >>
              /\ attempts[d][Len(attempts[d])].lease_token = delivery[d].lease_token
        /\ \A i \in DOMAIN attempts[d] :
              attempts[d][i].status = "in_progress"
                <=> delivery[d].status = "in_progress" /\ i = Len(attempts[d])

\* Unfinished work is always visible to the claim query: a waiting row has a
\* due time and no lease, a leased row has an expiry, a finished one neither.
\* A row outside these shapes would never be picked up again.
NeverLostToScheduler ==
    \A d \in Deliveries :
        LET row == delivery[d]
            leased == row.status = "in_progress"
        IN  /\ row.next_attempt_at # None <=> row.status \in {"pending", "retry_wait"}
            /\ row.lease_owner # None <=> leased
            /\ row.lease_token # None <=> leased
            /\ row.lease_expires_at # None <=> leased

\* The status of a delivery is explained by its newest attempt: delivered only
\* on a committed 2xx, waiting for a retry only on a committed retryable
\* failure, dead-lettered never over a success; and no attempt follows a
\* success ("A successful delivery is never retried").
StatusExplainedByEvidence ==
    \A d \in Deliveries :
        LET n == Len(attempts[d])
            last == attempts[d][n]
        IN  /\ delivery[d].status \in {"absent", "pending"} => n = 0
            /\ delivery[d].status = "delivered" =>
                  n > 0 /\ last.disposition = "succeeded"
            /\ delivery[d].status = "retry_wait" =>
                  n > 0 /\ last.disposition = "retry"
            /\ \A i \in 1 .. n :
                  attempts[d][i].disposition = "succeeded" =>
                      i = n /\ delivery[d].status = "delivered"
            /\ \A i \in 1 .. n - 1 :
                  attempts[d][i].disposition # "terminal_failure"

\* Evidence records the outcome of its own exchange: a completed attempt holds
\* what the request sent under its token returned, never what a late worker
\* brings back from an older request.
EvidenceIsOwnOutcome ==
    \A d \in Deliveries : \A i \in DOMAIN attempts[d] :
        attempts[d][i].status = "completed" =>
            \A x \in wire : x.token = attempts[d][i].lease_token =>
                x.disposition = attempts[d][i].disposition

\* Every request on the wire was reserved first: some attempt row carries its
\* token, and a token sends at most one request.
RequestsAreReserved ==
    \A x \in wire :
        /\ \E d \in Deliveries : \E i \in DOMAIN attempts[d] :
              attempts[d][i].lease_token = x.token
        /\ \A y \in wire : y.token = x.token => y = x

\* No attempt is reserved beyond the largest configured maximum, counting the
\* attempts that expired without a result.
WithinBudget ==
    \A d \in Deliveries :
        attempts[d] # << >> => \E b \in Budgets : Len(attempts[d]) <= b

\* The RuntimeErrors of _resolve_expired_attempt and finalize, and finalize's
\* attempt-number fence, are unreachable: a worker that finds an expired or an
\* own lease finds the evidence and the number that go with it.
EvidenceNeverMissing ==
    \A w \in Workers :
        LET d == worker[w].delivery
        IN  /\ worker[w].pc = "locked" /\ delivery[d].status = "in_progress" =>
                  \E i \in DOMAIN attempts[d] : ExpiredEvidence(d, i)
            /\ /\ worker[w].pc = "finalizing"
               /\ delivery[d].status = "in_progress"
               /\ delivery[d].lease_token = worker[w].token
               => /\ OwnsLease(w, d)
                  /\ \E i \in DOMAIN attempts[d] : ReservedEvidence(w, d, i)

\* A delivery that reached a terminal status never leaves it.
TerminalIsFinal ==
    [][\A d \in Deliveries :
          delivery[d].status \in Terminal => delivery'[d] = delivery[d]]_vars

\* Evidence only grows: no attempt row disappears, and a resolved one keeps
\* its token, status and disposition.
EvidenceIsPermanent ==
    [][\A d \in Deliveries :
          /\ Len(attempts[d]) <= Len(attempts'[d])
          /\ \A i \in DOMAIN attempts[d] :
                attempts[d][i].status # "in_progress" =>
                    attempts'[d][i] = attempts[d][i]]_vars

\* No request is repeated early: an attempt is given up as indeterminate only
\* once its lease has run out, and a new one is reserved only when the retry
\* was due or the lease had run out.
NothingHappensEarly ==
    [][\A d \in Deliveries :
          /\ Len(attempts'[d]) > Len(attempts[d]) => Due(d)
          /\ \A i \in DOMAIN attempts[d] :
                /\ attempts[d][i].status = "in_progress"
                /\ attempts'[d][i].status = "indeterminate"
                => delivery[d].lease_expires_at <= 0]_vars

\* Every accepted delivery is eventually delivered or dead-lettered.
EveryDeliveryTerminates ==
    \A d \in Deliveries :
        delivery[d].status \in ActiveStatuses ~> delivery[d].status \in Terminal
=============================================================================
