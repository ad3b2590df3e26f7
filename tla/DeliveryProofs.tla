--------------------------- MODULE DeliveryProofs ---------------------------
(***************************************************************************)
(* DeliveryWorker for any number of workers, deliveries and endpoints, any *)
(* budgets and any delays.  First type correctness and the consistency of  *)
(* the tables: TableInv is inductive under every interleaving of workers,  *)
(* crashes and time, and with it the safety properties that relate a       *)
(* delivery row, its attempt rows and the snapshots the workers hold.      *)
(* Then what one step of the system may do to one delivery: StepEffect     *)
(* lists the five possibilities; the action properties, the budget and the *)
(* meaning of a status follow from that list, and so do the history of the *)
(* exchanges and the refinement of DeliveryLifecycle.                      *)
(***************************************************************************)
EXTENDS DeliveryInvariant, DeliveryRefinement, SequenceTheorems, TLAPS

-----------------------------------------------------------------------------
(* The values the actions build have their types.                          *)

LEMMA InstantType ==
    ASSUME NEW t \in Int
    PROVE  Instant(t) \in Instants
BY WorkerAssumption DEF Instant, Instants, Larger

LEMMA NowType == 0 \in Instants /\ 0 # None
BY WorkerAssumption, NoneAssumption DEF Instants

\* Time passing keeps a timestamp a timestamp and NULL NULL.
LEMMA AgedType ==
    ASSUME NEW t \in Instants \cup {None}
    PROVE  /\ Aged(t) \in Instants \cup {None}
           /\ Aged(t) = None <=> t = None
           /\ t # None => Aged(t) <= t
BY WorkerAssumption, NoneAssumption DEF Aged, Instant, Instants, Larger

LEMMA IdleType ==
    ASSUME NEW b \in Budgets
    PROVE  Idle(b) \in Process
BY DEF Idle, Process

LEMMA RowTypes ==
    /\ AbsentRow \in Row
    /\ NewRow \in Row
<1>1. 0 \in Instants
  BY WorkerAssumption DEF Instants
<1>2. AbsentRow \in Row
  BY DEF AbsentRow, Row
<1>3. NewRow \in Row
  BY <1>1, <1>2 DEF NewRow, Row, DeliveryStatuses
<1>. QED
  BY <1>2, <1>3

\* send_webhook returns a disposition and, at most, a non-negative delay.
LEMMA SendResultsType ==
    ASSUME NEW result \in SendResults
    PROVE  /\ result.disposition \in Dispositions
           /\ result.retry_after \in Nat \cup {None}
<1>1. CASE result = TransportFailure
  BY <1>1 DEF TransportFailure, Dispositions
<1>2. ASSUME NEW code \in StatusCodes, NEW header \in RetryAfterHeaders,
             result = ResponseResult(code, header)
      PROVE  /\ result.disposition \in Dispositions
             /\ result.retry_after \in Nat \cup {None}
  <2>1. ClassifyStatusCode(code) \in Dispositions
    BY DEF ClassifyStatusCode, Dispositions
  <2>2. ParseRetryAfter(header) \in Nat \cup {None}
    <3>1. header.seconds \in Int
      BY WorkerAssumption
    <3>. QED
      BY <3>1, DelayAssumption DEF ParseRetryAfter, Smaller, Larger
  <2>. QED
    BY <1>2, <2>1, <2>2 DEF ResponseResult
<1>. QED
  BY <1>1, <1>2 DEF SendResults

\* A scheduled retry is a timestamp.
LEMMA RetryDelaysType ==
    ASSUME NEW n, NEW after \in Nat \cup {None}, NEW delay \in RetryDelays(n, after)
    PROVE  delay \in Int
BY NoneAssumption DEF RetryDelays, JitteredDelays, Larger

-----------------------------------------------------------------------------
(* Each action preserves the types.                                        *)

\* A worker record that keeps its shape when the others are left alone.
ShapeOf(p) ==
    /\ p.pc \in {"claiming", "locked", "finalizing"} => p.now # None
    /\ p.pc \in {"locked", "claimed", "sent", "finalizing"} => p.delivery # None
    /\ p.pc \in {"claimed", "sent", "finalizing"} => p.token # None
    /\ p.pc \in {"sent", "finalizing"} => p.disposition # None

LEMMA ShapeIsPerWorker ==
    WorkerShape <=> \A w \in Workers : ShapeOf(worker[w])
BY DEF WorkerShape, ShapeOf, Holding

LEMMA IdleShape ==
    ASSUME NEW b PROVE ShapeOf(Idle(b))
BY DEF ShapeOf, Idle

LEMMA TypeInit == Init => TypeInv
<1>. SUFFICES ASSUME Init PROVE TypeInv
  OBVIOUS
<1>1. \A w \in Workers : \E b \in Budgets : worker[w] = Idle(b)
  BY DEF Init
<1>2. worker \in [Workers -> Process]
  BY IdleType DEF Init
<1>3. TypeOK
  BY <1>2, RowTypes, EmptySeq DEF Init, TypeOK
<1>4. WorkerShape
  BY <1>1, ShapeIsPerWorker, IdleShape
<1>. QED
  BY <1>3, <1>4 DEF TypeInv

LEMMA ShapePrime ==
    WorkerShape' <=> \A w \in Workers : ShapeOf(worker'[w])
BY DEF WorkerShape, ShapeOf, Holding

LEMMA WorkerTypeStep ==
    ASSUME TypeInv, NEW w \in Workers, NEW p \in Process, ShapeOf(p),
           worker' = [worker EXCEPT ![w] = p]
    PROVE  worker' \in [Workers -> Process] /\ WorkerShape'
BY ShapeIsPerWorker, ShapePrime DEF TypeInv, TypeOK

LEMMA IdleStep ==
    ASSUME TypeInv, NEW w \in Workers, NEW b \in Budgets,
           worker' = [worker EXCEPT ![w] = Idle(b)]
    PROVE  worker' \in [Workers -> Process] /\ WorkerShape'
BY IdleShape, IdleType, WorkerTypeStep

\* The rows the tables receive.
LEMMA LeasedRowType ==
    ASSUME TypeInv, NEW w \in Workers, NEW d \in Deliveries,
           worker[w].pc = "locked"
    PROVE  LeasedRow(w, d) \in Row
<1>1. /\ delivery[d] \in Row
      /\ worker[w].now \in Instants
      /\ issued + 1 \in Tokens
  BY DEF TypeInv, TypeOK, WorkerShape, Process, Tokens
<1>2. Instant(worker[w].now + LeaseSeconds) \in Instants
  BY <1>1, InstantType, WorkerAssumption DEF Instants
<1>3. delivery[d].attempt_count + 1 \in Nat
  BY <1>1 DEF Row
<1>. QED
  BY <1>1, <1>2, <1>3 DEF LeasedRow, Row, DeliveryStatuses

LEMMA DeadLetteredRowType ==
    ASSUME TypeInv, NEW d \in Deliveries
    PROVE  DeadLetteredRow(d) \in Row
BY DEF TypeInv, TypeOK, DeadLetteredRow, Row, DeliveryStatuses

LEMMA FinalizedRowType ==
    ASSUME TypeInv, NEW w \in Workers, NEW d \in Deliveries,
           worker[w].pc = "finalizing", NEW next \in ScheduledInstants(w)
    PROVE  FinalizedRow(w, d, next) \in Row
<1>1. TargetStatus(w) \in DeliveryStatuses
  BY DEF TargetStatus, DeliveryStatuses
<1>2. next \in Instants \cup {None}
  <2>1. worker[w].now \in Int /\ worker[w].retry_after \in Nat \cup {None}
    BY DEF TypeInv, TypeOK, WorkerShape, Process, Instants
  <2>2. ASSUME NEW delay \in RetryDelays(worker[w].number, worker[w].retry_after),
               next = Instant(worker[w].now + delay)
        PROVE  next \in Instants
    <3>1. delay \in Int
      BY <2>1, RetryDelaysType
    <3>. QED
      BY <2>1, <2>2, <3>1, InstantType
  <2>. QED
    BY <2>2 DEF ScheduledInstants
<1>3. delivery[d] \in Row
  BY DEF TypeInv, TypeOK
<1>. QED
  BY <1>1, <1>2, <1>3 DEF FinalizedRow, Row

LEMMA AbandonedType ==
    ASSUME TypeInv, NEW d \in Deliveries, NEW i \in DOMAIN attempts[d]
    PROVE  /\ Abandoned(d, i) \in Seq(Attempt)
           /\ Len(Abandoned(d, i)) = Len(attempts[d])
           /\ DOMAIN Abandoned(d, i) = DOMAIN attempts[d]
           /\ \A j \in DOMAIN attempts[d] :
                 Abandoned(d, i)[j] =
                   IF j = i THEN [attempts[d][i] EXCEPT !.status = "indeterminate"]
                            ELSE attempts[d][j]
<1>1. attempts[d] \in Seq(Attempt) /\ i \in 1 .. Len(attempts[d])
  BY DEF TypeInv, TypeOK
<1>2. attempts[d][i] \in Attempt
  BY <1>1, ElementOfSeq
<1>3. [attempts[d][i] EXCEPT !.status = "indeterminate"] \in Attempt
  BY <1>2 DEF Attempt, AttemptStatuses
<1>. QED
  BY <1>1, <1>3, ExceptSeq DEF Abandoned

\* The attempt row finalize leaves.
CompletedAttempt(w, d, i) ==
    [attempts[d][i] EXCEPT !.status = "completed",
                           !.disposition = worker[w].disposition]

LEMMA CompletedType ==
    ASSUME TypeInv, NEW w \in Workers, NEW d \in Deliveries,
           NEW i \in DOMAIN attempts[d]
    PROVE  /\ Completed(w, d, i) \in Seq(Attempt)
           /\ Len(Completed(w, d, i)) = Len(attempts[d])
           /\ DOMAIN Completed(w, d, i) = DOMAIN attempts[d]
           /\ \A j \in DOMAIN attempts[d] :
                 Completed(w, d, i)[j] =
                   IF j = i THEN CompletedAttempt(w, d, i) ELSE attempts[d][j]
<1>1. attempts[d] \in Seq(Attempt) /\ i \in 1 .. Len(attempts[d])
  BY DEF TypeInv, TypeOK
<1>2. worker[w].disposition \in Dispositions \cup {None}
  BY DEF TypeInv, TypeOK, Process
<1>3. attempts[d][i] \in Attempt
  BY <1>1, ElementOfSeq
<1>4. CompletedAttempt(w, d, i) \in Attempt
  BY <1>2, <1>3 DEF CompletedAttempt, Attempt, AttemptStatuses
<1>5. Completed(w, d, i) = [attempts[d] EXCEPT ![i] = CompletedAttempt(w, d, i)]
  BY <1>1 DEF Completed, CompletedAttempt
<1>6. /\ Completed(w, d, i) \in Seq(Attempt)
      /\ Len(Completed(w, d, i)) = Len(attempts[d])
      /\ \A j \in 1 .. Len(attempts[d]) :
            Completed(w, d, i)[j] =
              IF j = i THEN CompletedAttempt(w, d, i) ELSE attempts[d][j]
  BY <1>1, <1>4, <1>5, ExceptSeq
<1>. QED
  BY <1>1, <1>6

\* The attempt row a claim inserts.
LEMMA NewAttemptType ==
    ASSUME NEW n \in Nat \ {0}, NEW t \in Tokens
    PROVE  NewAttempt(n, t) \in Attempt
BY DEF NewAttempt, Attempt, AttemptStatuses

\* What the tail of a claim does to the types.
LEMMA ReserveType ==
    ASSUME TypeInv, NEW w \in Workers, worker[w].pc = "locked",
           NEW evidence \in Seq(Attempt),
           Reserve(w, worker[w].delivery, evidence)
    PROVE  TypeInv'
<1>. DEFINE d == worker[w].delivery
            number == delivery[d].attempt_count + 1
            p == [worker[w] EXCEPT !.pc = "claimed", !.now = None,
                                   !.number = number, !.token = issued + 1]
<1>1. /\ d \in Deliveries
      /\ worker[w] \in Process
      /\ issued + 1 \in Tokens
      /\ None \notin Tokens
  BY NoneAssumption DEF TypeInv, TypeOK, WorkerShape, Process, Tokens
<1>2. number \in Nat \ {0}
  BY <1>1 DEF TypeInv, TypeOK, Row
<1>3. p \in Process /\ ShapeOf(p)
  BY <1>1, <1>2, WorkerAssumption DEF Process, ShapeOf
<1>4. worker' \in [Workers -> Process] /\ WorkerShape'
  <2>1. worker' = [worker EXCEPT ![w] = p]
    BY DEF Reserve
  <2>. QED
    BY <2>1, <1>3, WorkerTypeStep
<1>5. delivery' \in [Deliveries -> Row]
  BY <1>1, LeasedRowType DEF Reserve, TypeInv, TypeOK
<1>6. attempts' \in [Deliveries -> Seq(Attempt)]
  <2>1. Append(evidence, NewAttempt(number, issued + 1)) \in Seq(Attempt)
    BY <1>1, <1>2, NewAttemptType, AppendProperties
  <2>. QED
    BY <1>1, <2>1 DEF Reserve, TypeInv, TypeOK
<1>. QED
  BY <1>4, <1>5, <1>6 DEF Reserve, TypeInv, TypeOK

LEMMA TypeStep == TypeInv /\ [Next]_vars => TypeInv'
<1>. SUFFICES ASSUME TypeInv, [Next]_vars PROVE TypeInv'
  OBVIOUS
<1>. USE DEF TypeInv
<1>1. ASSUME NEW w \in Workers, ReadClaimClock(w) PROVE TypeInv'
  <2>. DEFINE p == [worker[w] EXCEPT !.pc = "claiming", !.now = 0]
  <2>1. p \in Process /\ ShapeOf(p)
    BY NowType DEF TypeOK, Process, ShapeOf
  <2>2. worker' = [worker EXCEPT ![w] = p]
    BY <1>1 DEF ReadClaimClock
  <2>. QED
    BY <1>1, <2>1, <2>2, WorkerTypeStep DEF ReadClaimClock, TypeOK
<1>2. ASSUME NEW w \in Workers, NothingDue(w) PROVE TypeInv'
  <2>1. worker[w].budget \in Budgets
    BY DEF TypeOK, Process
  <2>. QED
    BY <1>2, <2>1, IdleStep DEF NothingDue, TypeOK
<1>3. ASSUME NEW w \in Workers, NEW d \in Deliveries, LockDue(w, d) PROVE TypeInv'
  <2>. DEFINE p == [worker[w] EXCEPT !.pc = "locked", !.delivery = d]
  <2>1. p \in Process /\ ShapeOf(p)
    <3>1. worker[w].now # None /\ worker[w] \in Process
      BY <1>3 DEF LockDue, WorkerShape, TypeOK
    <3>2. /\ p \in Process /\ p.pc = "locked" /\ p.delivery = d
          /\ p.now = worker[w].now
      BY <3>1 DEF Process
    <3>. HIDE DEF p
    <3>. QED
      BY <3>1, <3>2, WorkerAssumption DEF ShapeOf
  <2>2. worker' = [worker EXCEPT ![w] = p]
    BY <1>3 DEF LockDue
  <2>. QED
    BY <1>3, <2>1, <2>2, WorkerTypeStep DEF LockDue, TypeOK
<1>4. ASSUME NEW w \in Workers, ClaimDue(w) PROVE TypeInv'
  <2>1. worker[w].pc = "locked" /\ worker[w].delivery \in Deliveries
    BY <1>4 DEF ClaimDue, TypeOK, WorkerShape, Process
  <2>2. attempts[worker[w].delivery] \in Seq(Attempt)
    BY <2>1 DEF TypeOK
  <2>. QED
    BY <1>4, <2>1, <2>2, ReserveType DEF ClaimDue
<1>5. ASSUME NEW w \in Workers, DeadLetterWithoutAttempt(w) PROVE TypeInv'
  <2>1. worker[w].delivery \in Deliveries /\ worker[w].budget \in Budgets
    BY <1>5 DEF DeadLetterWithoutAttempt, TypeOK, WorkerShape, Process
  <2>. QED
    BY <1>5, <2>1, IdleStep, DeadLetteredRowType DEF DeadLetterWithoutAttempt, TypeOK
<1>6. ASSUME NEW w \in Workers, NEW i \in DOMAIN attempts[worker[w].delivery],
             RedeliverExpired(w, i)
      PROVE  TypeInv'
  <2>1. worker[w].pc = "locked" /\ worker[w].delivery \in Deliveries
    BY <1>6 DEF RedeliverExpired, TypeOK, WorkerShape, Process
  <2>2. Abandoned(worker[w].delivery, i) \in Seq(Attempt)
    BY <2>1, AbandonedType
  <2>. QED
    BY <1>6, <2>1, <2>2, ReserveType DEF RedeliverExpired
<1>7. ASSUME NEW w \in Workers, NEW i \in DOMAIN attempts[worker[w].delivery],
             DeadLetterExpired(w, i)
      PROVE  TypeInv'
  <2>1. worker[w].delivery \in Deliveries /\ worker[w].budget \in Budgets
    BY <1>7 DEF DeadLetterExpired, TypeOK, WorkerShape, Process
  <2>. QED
    BY <1>7, <2>1, IdleStep, DeadLetteredRowType, AbandonedType
    DEF DeadLetterExpired, TypeOK
<1>8. ASSUME NEW w \in Workers, Send(w) PROVE TypeInv'
  <2>1. PICK result \in SendResults :
          /\ worker' = [worker EXCEPT ![w].pc = "sent",
                                      ![w].disposition = result.disposition,
                                      ![w].retry_after = result.retry_after]
          /\ wire' = wire \cup {[token |-> worker[w].token,
                                 disposition |-> result.disposition]}
    BY <1>8 DEF Send
  <2>. DEFINE p == [worker[w] EXCEPT !.pc = "sent",
                                     !.disposition = result.disposition,
                                     !.retry_after = result.retry_after]
  <2>2. /\ worker[w] \in Process
        /\ worker[w].delivery # None
        /\ worker[w].token # None
    BY <1>8 DEF Send, TypeOK, WorkerShape, Holding
  <2>3. result.disposition \in Dispositions /\ None \notin Dispositions
    BY SendResultsType, NoneAssumption DEF Dispositions
  <2>4. p \in Process /\ ShapeOf(p)
    BY <2>2, <2>3, SendResultsType DEF Process, ShapeOf
  <2>5. worker' = [worker EXCEPT ![w] = p]
    BY <2>1
  <2>6. worker' \in [Workers -> Process] /\ WorkerShape'
    BY <2>4, <2>5, WorkerTypeStep
  <2>7. wire' \subseteq [token : Tokens, disposition : Dispositions \cup {None}]
    BY <2>1, <2>2, <2>3 DEF TypeOK, Process
  <2>. QED
    BY <1>8, <2>6, <2>7 DEF Send, TypeOK
<1>9. ASSUME NEW w \in Workers, SendRaises(w) PROVE TypeInv'
  <2>1. worker[w].budget \in Budgets /\ worker[w].token \in Tokens
    BY <1>9 DEF SendRaises, TypeOK, WorkerShape, Holding, Process
  <2>2. worker' \in [Workers -> Process] /\ WorkerShape'
    BY <1>9, <2>1, IdleStep DEF SendRaises
  <2>. QED
    BY <1>9, <2>1, <2>2 DEF SendRaises, TypeOK
<1>10. ASSUME NEW w \in Workers, ReadFinalizeClock(w) PROVE TypeInv'
  <2>. DEFINE p == [worker[w] EXCEPT !.pc = "finalizing", !.now = 0]
  <2>1. /\ worker[w] \in Process
        /\ worker[w].delivery # None
        /\ worker[w].token # None
        /\ worker[w].disposition # None
    BY <1>10 DEF ReadFinalizeClock, TypeOK, WorkerShape, Holding
  <2>2. p \in Process /\ ShapeOf(p)
    BY <2>1, NowType DEF Process, ShapeOf
  <2>3. worker' = [worker EXCEPT ![w] = p]
    BY <1>10 DEF ReadFinalizeClock
  <2>. QED
    BY <1>10, <2>2, <2>3, WorkerTypeStep DEF ReadFinalizeClock, TypeOK
<1>11. ASSUME NEW w \in Workers, FinalizeStale(w) PROVE TypeInv'
  <2>1. worker[w].budget \in Budgets
    BY DEF TypeOK, Process
  <2>. QED
    BY <1>11, <2>1, IdleStep DEF FinalizeStale, TypeOK
<1>12. ASSUME NEW w \in Workers, NEW i \in DOMAIN attempts[worker[w].delivery],
              Finalize(w, i)
       PROVE  TypeInv'
  <2>1. /\ worker[w].delivery \in Deliveries /\ worker[w].budget \in Budgets
        /\ worker[w].pc = "finalizing"
    BY <1>12 DEF Finalize, TypeOK, WorkerShape, Holding, Process
  <2>2. delivery' \in [Deliveries -> Row]
    BY <1>12, <2>1, FinalizedRowType DEF Finalize, TypeOK
  <2>3. attempts' \in [Deliveries -> Seq(Attempt)]
    BY <1>12, <2>1, CompletedType DEF Finalize, TypeOK
  <2>. QED
    BY <1>12, <2>1, <2>2, <2>3, IdleStep DEF Finalize, TypeOK
<1>13. ASSUME NEW w \in Workers, IterationFails(w) PROVE TypeInv'
  <2>1. worker[w].budget \in Budgets
    BY DEF TypeOK, Process
  <2>. QED
    BY <1>13, <2>1, IdleStep DEF IterationFails, TypeOK
<1>14. ASSUME NEW w \in Workers, Crash(w) PROVE TypeInv'
  <2>. DEFINE p == [Idle(worker[w].budget) EXCEPT !.pc = "down"]
  <2>1. p \in Process /\ ShapeOf(p)
    BY DEF TypeOK, Process, ShapeOf, Idle
  <2>. QED
    BY <1>14, <2>1, WorkerTypeStep DEF Crash, TypeOK
<1>15. ASSUME NEW w \in Workers, Restart(w) PROVE TypeInv'
  BY <1>15, IdleStep DEF Restart, TypeOK
<1>16. ASSUME NEW d \in Deliveries, Enqueue(d) PROVE TypeInv'
  BY <1>16, RowTypes DEF Enqueue, TypeOK, WorkerShape, Holding
<1>17. ASSUME NEW e \in Endpoints, SetEnabled(e) PROVE TypeInv'
  BY <1>17 DEF SetEnabled, TypeOK, WorkerShape, Holding
<1>18. CASE Tick
  <2>1. \A d \in Deliveries :
          [delivery[d] EXCEPT !.next_attempt_at = Aged(@),
                              !.lease_expires_at = Aged(@)] \in Row
    <3>. SUFFICES ASSUME NEW row \in Row
                  PROVE  [row EXCEPT !.next_attempt_at = Aged(@),
                                     !.lease_expires_at = Aged(@)] \in Row
      BY DEF TypeOK
    <3>1. /\ Aged(row.next_attempt_at) \in Instants \cup {None}
          /\ Aged(row.lease_expires_at) \in Instants \cup {None}
      BY AgedType DEF Row
    <3>. QED
      BY <3>1 DEF Row
  <2>2. \A w \in Workers :
          LET p == [worker[w] EXCEPT !.now = Aged(@)]
          IN  p \in Process /\ ShapeOf(p)
    <3>. SUFFICES ASSUME NEW q \in Process, ShapeOf(q)
                  PROVE  LET p == [q EXCEPT !.now = Aged(@)]
                         IN  p \in Process /\ ShapeOf(p)
      BY ShapeIsPerWorker DEF TypeOK
    <3>. DEFINE p == [q EXCEPT !.now = Aged(@)]
    <3>1. Aged(q.now) \in Instants \cup {None} /\ (Aged(q.now) = None <=> q.now = None)
      BY AgedType DEF Process
    <3>2. /\ p \in Process /\ p.now = Aged(q.now) /\ p.pc = q.pc
          /\ p.delivery = q.delivery /\ p.token = q.token
          /\ p.disposition = q.disposition
      BY <3>1 DEF Process
    <3>. HIDE DEF p
    <3>3. ShapeOf(p)
      BY <3>1, <3>2 DEF ShapeOf
    <3>. QED
      BY <3>2, <3>3 DEF p
  <2>3. delivery' \in [Deliveries -> Row]
    BY <1>18, <2>1 DEF Tick
  <2>4. worker' \in [Workers -> Process] /\ WorkerShape'
    BY <1>18, <2>2, ShapePrime DEF Tick
  <2>. QED
    BY <1>18, <2>3, <2>4 DEF Tick, TypeOK
<1>19. CASE UNCHANGED vars
  BY <1>19 DEF vars, TypeOK, WorkerShape, Holding
<1>. QED
  BY <1>1, <1>2, <1>3, <1>4, <1>5, <1>6, <1>7, <1>8, <1>9, <1>10, <1>11, <1>12,
     <1>13, <1>14, <1>15, <1>16, <1>17, <1>18, <1>19
  DEF Next, WorkerStep, ResolveClaim, FinishFinalize

\* DeliveryWorker is type correct: every column and every field of a worker
\* holds a value of its declared type after any sequence of steps.
THEOREM TypeCorrect == Spec => []TypeOK
<1>1. Spec => []TypeInv
  BY TypeInit, TypeStep, PTL DEF Spec
<1>2. TypeInv => TypeOK
  BY DEF TypeInv
<1>. QED
  BY <1>1, <1>2, PTL

-----------------------------------------------------------------------------
(* The part of the invariant that concerns one delivery and its attempts.  *)

RowOK(row, seq) ==
    /\ row.attempt_count = Len(seq)
    /\ \A i \in DOMAIN seq : seq[i].attempt_number = i
    /\ row.status = "in_progress" =>
          seq # << >> /\ seq[Len(seq)].lease_token = row.lease_token
    /\ \A i \in DOMAIN seq :
          seq[i].status = "in_progress"
            <=> row.status = "in_progress" /\ i = Len(seq)
    /\ row.next_attempt_at # None <=> row.status \in {"pending", "retry_wait"}
    /\ row.lease_owner # None <=> row.status = "in_progress"
    /\ row.lease_token # None <=> row.status = "in_progress"
    /\ row.lease_expires_at # None <=> row.status = "in_progress"
    /\ \A i \in DOMAIN seq :
          seq[i].disposition # None <=> seq[i].status = "completed"
    /\ row.status \in {"absent", "pending"} => row.attempt_count = 0

RowsOK == \A d \in Deliveries : RowOK(delivery[d], attempts[d])

CrossOK == ClaimLocks /\ TokensAreUnique /\ SnapshotsMatch

LEMMA TableInvSplits == TableInv <=> TypeInv /\ RowsOK /\ CrossOK
BY DEF TableInv, RowsOK, RowOK, CrossOK, AttemptsNumbered, EvidenceMatchesLease,
       NeverLostToScheduler, DispositionWhenCompleted, FreshIsUntried

LEMMA TableInvSplitsPrime == TableInv' <=> TypeInv' /\ RowsOK' /\ CrossOK'
BY TableInvSplits, PTL

LEMMA RowUpdate ==
    ASSUME TypeInv, RowsOK, NEW d \in Deliveries, NEW row, NEW seq, RowOK(row, seq),
           delivery' = [delivery EXCEPT ![d] = row],
           attempts' = [attempts EXCEPT ![d] = seq]
    PROVE  RowsOK'
<1>1. \A e \in Deliveries :
        /\ delivery'[e] = IF e = d THEN row ELSE delivery[e]
        /\ attempts'[e] = IF e = d THEN seq ELSE attempts[e]
  BY DEF TypeInv, TypeOK
<1>2. \A e \in Deliveries : RowOK(delivery'[e], attempts'[e])
  BY <1>1 DEF RowsOK
<1>3. RowsOK' <=> \A e \in Deliveries : RowOK(delivery'[e], attempts'[e])
  BY DEF RowsOK, RowOK
<1>. QED
  BY <1>2, <1>3

-----------------------------------------------------------------------------
(* Steps that leave the tables alone.                                      *)

LEMMA QuietStep ==
    ASSUME TableInv, TypeInv', NEW w \in Workers, NEW p \in Process,
           worker' = [worker EXCEPT ![w] = p],
           UNCHANGED <<delivery, attempts, issued>>,
           p.pc = "locked" =>
             /\ p.delivery \in Deliveries /\ Due(p.delivery)
             /\ ~EndpointLocked(EndpointOf[p.delivery]),
           p.pc \in {"claimed", "sent", "finalizing"} =>
             /\ Holding(w)
             /\ p.delivery = worker[w].delivery
             /\ p.number = worker[w].number
             /\ p.token = worker[w].token
    PROVE  TableInv'
<1>1. RowsOK /\ CrossOK
  BY TableInvSplits
<1>2. \A v \in Workers : worker'[v] = IF v = w THEN p ELSE worker[v]
  BY TableInvSplits DEF TypeInv, TypeOK
<1>3. RowsOK'
  BY <1>1 DEF RowsOK, RowOK
<1>4. TokensAreUnique'
  BY <1>1 DEF CrossOK, TokensAreUnique
<1>5. ClaimLocks'
  BY <1>1, <1>2 DEF CrossOK, ClaimLocks, EndpointLocked, Due
<1>6. \A v \in Workers : Holding(v)' =>
        /\ Holding(v)
        /\ worker'[v].delivery = worker[v].delivery
        /\ worker'[v].number = worker[v].number
        /\ worker'[v].token = worker[v].token
  BY <1>2 DEF Holding
<1>7. SnapshotsMatch'
  BY <1>1, <1>6 DEF CrossOK, SnapshotsMatch, SnapshotMatches
<1>. QED
  BY <1>3, <1>4, <1>5, <1>7, TableInvSplitsPrime DEF CrossOK

-----------------------------------------------------------------------------
(* Steps that close a delivery's open attempt, or none, without a new one. *)

LEMMA CloseStep ==
    ASSUME TableInv, TypeInv', NEW w \in Workers, NEW p \in Process,
           NEW d \in Deliveries, NEW row, NEW seq,
           worker' = [worker EXCEPT ![w] = p], p.pc = "idle",
           delivery' = [delivery EXCEPT ![d] = row],
           attempts' = [attempts EXCEPT ![d] = seq],
           issued' = issued,
           RowOK(row, seq), row.lease_token = None,
           DOMAIN seq = DOMAIN attempts[d],
           \A i \in DOMAIN seq : seq[i].lease_token = attempts[d][i].lease_token,
           \A v \in Workers \ {w} :
             worker[v].pc = "locked" => worker[v].delivery # d,
           \A v \in Workers \ {w} :
             Holding(v) /\ worker[v].delivery = d =>
               seq[worker[v].number].status # "completed"
    PROVE  TableInv'
<1>1. RowsOK /\ CrossOK /\ TypeInv
  BY TableInvSplits
<1>2. /\ \A v \in Workers : worker'[v] = IF v = w THEN p ELSE worker[v]
      /\ \A e \in Deliveries :
            /\ delivery'[e] = IF e = d THEN row ELSE delivery[e]
            /\ attempts'[e] = IF e = d THEN seq ELSE attempts[e]
  BY <1>1 DEF TypeInv, TypeOK
<1>3. RowsOK'
  BY <1>1, RowUpdate
<1>4. TokensAreUnique'
  <2>1. \A e \in Deliveries :
          /\ DOMAIN attempts'[e] = DOMAIN attempts[e]
          /\ \A i \in DOMAIN attempts[e] :
                attempts'[e][i].lease_token = attempts[e][i].lease_token
    BY <1>2
  <2>. QED
    BY <1>1, <2>1 DEF CrossOK, TokensAreUnique
<1>5. ClaimLocks'
  <2>1. \A v \in Workers : worker'[v].pc = "locked" =>
          /\ v # w /\ worker'[v] = worker[v]
          /\ worker[v].delivery \in Deliveries
          /\ delivery'[worker[v].delivery] = delivery[worker[v].delivery]
    BY <1>1, <1>2 DEF TypeInv, TypeOK, WorkerShape, Process
  <2>. QED
    BY <1>1, <2>1 DEF CrossOK, ClaimLocks, Due
<1>6. SnapshotsMatch'
  <2>1. \A v \in Workers : Holding(v)' =>
          /\ v # w /\ worker'[v] = worker[v] /\ Holding(v)
          /\ worker[v].delivery \in Deliveries /\ worker[v].token # None
    BY <1>1, <1>2 DEF TypeInv, TypeOK, WorkerShape, Process, Holding
  <2>2. SUFFICES ASSUME NEW v \in Workers, Holding(v)'
                 PROVE  SnapshotMatches(v)'
    BY DEF SnapshotsMatch
  <2>. DEFINE e == worker[v].delivery
              n == worker[v].number
  <2>3. SnapshotMatches(v)
    BY <1>1, <2>1, <2>2 DEF CrossOK, SnapshotsMatch
  <2>4. /\ n \in DOMAIN attempts'[e]
        /\ attempts'[e][n].lease_token = worker[v].token
        /\ attempts'[e][n].status # "completed"
    BY <1>2, <2>1, <2>2, <2>3 DEF SnapshotMatches
  <2>5. delivery'[e].lease_token = worker[v].token => delivery'[e].lease_owner = v
    BY <1>2, <2>1, <2>2, <2>3 DEF SnapshotMatches
  <2>6. \A u \in Workers : Holding(u)' /\ worker'[u].token = worker'[v].token => u = v
    BY <2>1, <2>2, <2>3 DEF SnapshotMatches
  <2>. QED
    BY <2>1, <2>2, <2>4, <2>5, <2>6 DEF SnapshotMatches
<1>. QED
  BY <1>3, <1>4, <1>5, <1>6, TableInvSplitsPrime DEF CrossOK

-----------------------------------------------------------------------------
(* Steps that reserve an attempt.  `evidence` is the delivery's attempts   *)
(* with none of them open.                                                 *)

LEMMA ReserveStep ==
    ASSUME TableInv, TypeInv', NEW w \in Workers, worker[w].pc = "locked",
           NEW d \in Deliveries, d = worker[w].delivery,
           NEW evidence \in Seq(Attempt),
           Reserve(w, d, evidence),
           Len(evidence) = Len(attempts[d]),
           DOMAIN evidence = DOMAIN attempts[d],
           \A i \in DOMAIN evidence :
             /\ evidence[i].attempt_number = i
             /\ evidence[i].lease_token = attempts[d][i].lease_token
             /\ evidence[i].status # "in_progress"
             /\ evidence[i].status = "completed" => attempts[d][i].status = "completed"
             /\ evidence[i].disposition # None <=> evidence[i].status = "completed"
    PROVE  TableInv'
<1>1. RowsOK /\ CrossOK /\ TypeInv
  BY TableInvSplits
<1>. DEFINE n == Len(attempts[d]) + 1
            seq == Append(evidence, NewAttempt(n, issued + 1))
            row == LeasedRow(w, d)
<1>2. /\ Len(attempts[d]) \in Nat /\ issued \in Nat /\ issued + 1 \in Tokens
      /\ issued + 1 # None
      /\ delivery[d] \in Row /\ delivery[d].attempt_count = n - 1
      /\ attempts[d] \in Seq(Attempt)
  BY <1>1, NoneAssumption DEF TypeInv, TypeOK, RowsOK, RowOK, Tokens
<1>3. /\ Len(seq) = n /\ DOMAIN seq = 1 .. n
      /\ \A i \in 1 .. n - 1 : seq[i] = evidence[i]
      /\ seq[n] = NewAttempt(n, issued + 1)
  <2>1. NewAttempt(n, issued + 1) \in Attempt
    BY <1>2, NewAttemptType
  <2>. QED
    BY <1>2, <2>1, AppendProperties
<1>4. /\ \A v \in Workers \ {w} : worker'[v] = worker[v]
      /\ worker'[w].pc = "claimed" /\ worker'[w].number = n
      /\ worker'[w].token = issued + 1 /\ worker'[w].delivery = d
      /\ \A e \in Deliveries :
            /\ delivery'[e] = IF e = d THEN row ELSE delivery[e]
            /\ attempts'[e] = IF e = d THEN seq ELSE attempts[e]
      /\ issued' = issued + 1
  <2>. DEFINE q == [worker[w] EXCEPT !.pc = "claimed", !.now = None,
                                     !.number = delivery[d].attempt_count + 1,
                                     !.token = issued + 1]
  <2>1. worker[w] \in Process /\ delivery[d].attempt_count + 1 = n
    BY <1>1, <1>2 DEF TypeInv, TypeOK
  <2>2. q.pc = "claimed" /\ q.number = n /\ q.token = issued + 1 /\ q.delivery = d
    BY <2>1 DEF Process
  <2>3. worker' = [worker EXCEPT ![w] = q]
    BY DEF Reserve
  <2>4. /\ delivery' = [delivery EXCEPT ![d] = row]
        /\ attempts' = [attempts EXCEPT ![d] = seq]
        /\ issued' = issued + 1
    BY <1>2 DEF Reserve
  <2>. HIDE DEF q, row, seq, n
  <2>. QED
    BY <1>1, <2>2, <2>3, <2>4 DEF TypeInv, TypeOK
<1>5. /\ row.status = "in_progress" /\ row.attempt_count = n
      /\ row.next_attempt_at = None /\ row.lease_owner = w
      /\ row.lease_token = issued + 1
      /\ row.lease_expires_at \in Instants
  <2>1. row.lease_expires_at = Instant(worker[w].now + LeaseSeconds)
    BY <1>2 DEF LeasedRow, Row
  <2>2. worker[w].now \in Int
    BY <1>1 DEF TypeInv, TypeOK, WorkerShape, Process, Instants
  <2>3. row.lease_expires_at \in Instants
    BY <2>1, <2>2, InstantType, WorkerAssumption
  <2>. QED
    BY <1>2, <2>3 DEF LeasedRow, Row
<1>6. RowsOK'
  <2>1. RowOK(row, seq)
    <3>1. \A i \in DOMAIN seq :
            /\ seq[i].attempt_number = i
            /\ seq[i].status = "in_progress" <=> i = n
            /\ seq[i].disposition # None <=> seq[i].status = "completed"
      BY <1>2, <1>3 DEF NewAttempt
    <3>2. seq # << >> /\ seq[n].lease_token = issued + 1
      BY <1>2, <1>3 DEF NewAttempt
    <3>3. row.lease_expires_at # None /\ row.lease_owner # None
      BY <1>5, NoneAssumption, WorkerAssumption DEF Instants
    <3>. HIDE DEF seq, row, n
    <3>. QED
      BY <1>2, <1>3, <1>5, <3>1, <3>2, <3>3 DEF RowOK
  <2>2. /\ delivery' = [delivery EXCEPT ![d] = row]
        /\ attempts' = [attempts EXCEPT ![d] = seq]
    BY <1>2 DEF Reserve
  <2>. QED
    BY <1>1, <2>1, <2>2, RowUpdate
<1>7. \A e \in Deliveries : \A i \in DOMAIN attempts[e] :
        /\ i \in DOMAIN attempts'[e]
        /\ attempts'[e][i].lease_token = attempts[e][i].lease_token
        /\ attempts[e][i].lease_token \in Nat
        /\ attempts[e][i].lease_token <= issued
        /\ attempts'[e][i].status = "completed" => attempts[e][i].status = "completed"
  <2>1. \A e \in Deliveries : \A i \in DOMAIN attempts[e] :
          attempts[e][i].lease_token \in Nat /\ attempts[e][i].lease_token <= issued
    <3>1. \A e \in Deliveries : \A i \in DOMAIN attempts[e] : attempts[e][i] \in Attempt
      BY <1>1, ElementOfSeq DEF TypeInv, TypeOK
    <3>. QED
      BY <1>1, <3>1 DEF CrossOK, TokensAreUnique, Attempt, Tokens
  <2>2. n \in Nat /\ DOMAIN attempts[d] = 1 .. n - 1
    BY <1>2
  <2>. HIDE DEF seq, n
  <2>3. \A i \in DOMAIN attempts[d] :
          /\ i \in DOMAIN seq
          /\ seq[i].lease_token = attempts[d][i].lease_token
          /\ seq[i].status = "completed" => attempts[d][i].status = "completed"
    BY <1>3, <2>2
  <2>. QED
    BY <1>4, <2>1, <2>3
<1>8. TokensAreUnique'
  <2>1. \A e \in Deliveries : \A i \in DOMAIN attempts'[e] :
          \/ i \in DOMAIN attempts[e] /\ ~(e = d /\ i = n)
          \/ e = d /\ i = n /\ attempts'[e][i].lease_token = issued + 1
    <3>1. DOMAIN attempts[d] = 1 .. n - 1
      BY <1>2
    <3>2. seq[n].lease_token = issued + 1
      BY <1>3 DEF NewAttempt
    <3>. HIDE DEF seq, n
    <3>. QED
      BY <1>2, <1>3, <1>4, <3>1, <3>2
  <2>. HIDE DEF seq, n
  <2>2. \A e \in Deliveries : \A i \in DOMAIN attempts'[e] :
          attempts'[e][i].lease_token <= issued'
    BY <1>2, <1>4, <1>7, <2>1
  <2>3. \A e, f \in Deliveries :
          \A i \in DOMAIN attempts'[e], j \in DOMAIN attempts'[f] :
            attempts'[e][i].lease_token = attempts'[f][j].lease_token => e = f /\ i = j
    BY <1>1, <1>2, <1>7, <2>1 DEF CrossOK, TokensAreUnique
  <2>. QED
    BY <2>2, <2>3 DEF TokensAreUnique
<1>9. ClaimLocks'
  <2>1. \A v \in Workers : worker'[v].pc = "locked" =>
          v # w /\ worker'[v] = worker[v] /\ worker[v].delivery \in Deliveries
    BY <1>1, <1>4 DEF TypeInv, TypeOK, WorkerShape, Process
  <2>2. \A v \in Workers \ {w} : worker[v].pc = "locked" => worker[v].delivery # d
    BY <1>1 DEF CrossOK, ClaimLocks
  <2>3. \A v \in Workers : worker'[v].pc = "locked" =>
          delivery'[worker[v].delivery] = delivery[worker[v].delivery]
    BY <1>4, <2>1, <2>2
  <2>. QED
    BY <1>1, <2>1, <2>3 DEF CrossOK, ClaimLocks, Due
<1>10. \A v \in Workers \ {w} : Holding(v)' =>
         /\ worker'[v] = worker[v] /\ Holding(v) /\ SnapshotMatches(v)
         /\ worker[v].delivery \in Deliveries
         /\ worker[v].token \in Nat /\ worker[v].token <= issued
  <2>1. \A v \in Workers \ {w} : Holding(v)' =>
          /\ worker'[v] = worker[v] /\ Holding(v) /\ SnapshotMatches(v)
          /\ worker[v].delivery \in Deliveries
    BY <1>1, <1>4 DEF TypeInv, TypeOK, WorkerShape, Process, Holding, CrossOK, SnapshotsMatch
  <2>. QED
    BY <1>7, <2>1 DEF SnapshotMatches
<1>11. SnapshotMatches(w)'
  <2>1. /\ n \in DOMAIN seq
        /\ seq[n].lease_token = issued + 1
        /\ seq[n].status # "completed"
    BY <1>2, <1>3 DEF NewAttempt
  <2>2. \A v \in Workers : Holding(v)' /\ worker'[v].token = issued + 1 => v = w
    BY <1>2, <1>10
  <2>. HIDE DEF seq, row, n
  <2>. QED
    BY <1>4, <1>5, <2>1, <2>2 DEF SnapshotMatches
<1>12. ASSUME NEW v \in Workers \ {w}, Holding(v)' PROVE SnapshotMatches(v)'
  <2>. DEFINE e == worker[v].delivery
              k == worker[v].number
  <2>1. /\ k \in DOMAIN attempts[e]
        /\ attempts[e][k].lease_token = worker[v].token
        /\ attempts[e][k].status # "completed"
        /\ delivery[e].lease_token = worker[v].token => delivery[e].lease_owner = v
        /\ \A u \in Workers : Holding(u) /\ worker[u].token = worker[v].token => u = v
    BY <1>10, <1>12 DEF SnapshotMatches
  <2>2. /\ k \in DOMAIN attempts'[e]
        /\ attempts'[e][k].lease_token = worker[v].token
        /\ attempts'[e][k].status # "completed"
    BY <1>7, <1>10, <1>12, <2>1
  <2>3. delivery'[e].lease_token = worker[v].token => delivery'[e].lease_owner = v
    <3>1. e = d => delivery'[e].lease_token # worker[v].token
      BY <1>2, <1>4, <1>5, <1>10, <1>12
    <3>2. e # d => delivery'[e] = delivery[e]
      BY <1>4, <1>10, <1>12
    <3>. QED
      BY <2>1, <3>1, <3>2
  <2>4. \A u \in Workers : Holding(u)' /\ worker'[u].token = worker'[v].token => u = v
    BY <1>2, <1>4, <1>10, <1>12, <2>1
  <2>. QED
    BY <1>10, <1>12, <2>2, <2>3, <2>4 DEF SnapshotMatches
<1>13. SnapshotsMatch'
  BY <1>11, <1>12 DEF SnapshotsMatch
<1>. QED
  BY <1>6, <1>8, <1>9, <1>13, TableInvSplitsPrime DEF CrossOK

-----------------------------------------------------------------------------
(* TableInv is inductive.                                                  *)

LEMMA TableInit == Init => TableInv
<1>. SUFFICES ASSUME Init PROVE TableInv
  OBVIOUS
<1>1. TypeInv
  BY TypeInit
<1>2. \A w \in Workers : worker[w].pc = "idle"
  BY DEF Init, Idle
<1>3. RowsOK
  BY WorkerAssumption, EmptySeq DEF Init, RowsOK, RowOK, AbsentRow
<1>4. CrossOK
  BY <1>2 DEF Init, CrossOK, ClaimLocks, TokensAreUnique, SnapshotsMatch, Holding
<1>. QED
  BY <1>1, <1>3, <1>4, TableInvSplits

\* A worker record that ends an iteration.
LEMMA EndIteration ==
    ASSUME TableInv, TypeInv', NEW w \in Workers, NEW b \in Budgets,
           worker' = [worker EXCEPT ![w] = Idle(b)],
           UNCHANGED <<delivery, attempts, issued>>
    PROVE  TableInv'
<1>1. Idle(b) \in Process /\ Idle(b).pc = "idle"
  BY IdleType DEF Idle
<1>. QED
  BY <1>1, QuietStep

\* Facts about the row a claim has locked.
LEMMA LockedRow ==
    ASSUME TableInv, NEW w \in Workers, worker[w].pc = "locked"
    PROVE  /\ worker[w].delivery \in Deliveries
           /\ worker[w].budget \in Budgets
           /\ RowOK(delivery[worker[w].delivery], attempts[worker[w].delivery])
           /\ delivery[worker[w].delivery] \in Row
           /\ attempts[worker[w].delivery] \in Seq(Attempt)
           /\ \A v \in Workers \ {w} :
                 worker[v].pc = "locked" => worker[v].delivery # worker[w].delivery
<1>1. RowsOK /\ CrossOK /\ TypeInv
  BY TableInvSplits
<1>2. worker[w].delivery \in Deliveries /\ worker[w].budget \in Budgets
  BY <1>1 DEF TypeInv, TypeOK, WorkerShape, Process
<1>. QED
  BY <1>1, <1>2 DEF RowsOK, TypeInv, TypeOK, CrossOK, ClaimLocks

\* The snapshot of another worker names an attempt that is not completed.
LEMMA OtherSnapshot ==
    ASSUME TableInv, NEW v \in Workers, Holding(v)
    PROVE  /\ worker[v].delivery \in Deliveries
           /\ worker[v].number \in DOMAIN attempts[worker[v].delivery]
           /\ SnapshotMatches(v)
BY TableInvSplits DEF TypeInv, TypeOK, WorkerShape, Process, CrossOK, SnapshotsMatch,
                      SnapshotMatches

LEMMA TableStepClaimDue ==
    ASSUME TableInv, TypeInv', NEW w \in Workers, ClaimDue(w)
    PROVE  TableInv'
<1>. DEFINE d == worker[w].delivery
<1>1. worker[w].pc = "locked" /\ delivery[d].status # "in_progress"
  BY DEF ClaimDue
<1>2. d \in Deliveries /\ RowOK(delivery[d], attempts[d]) /\ attempts[d] \in Seq(Attempt)
  BY <1>1, LockedRow
<1>3. \A i \in DOMAIN attempts[d] :
        /\ attempts[d][i].attempt_number = i
        /\ attempts[d][i].status # "in_progress"
        /\ attempts[d][i].disposition # None <=> attempts[d][i].status = "completed"
  BY <1>1, <1>2 DEF RowOK
<1>. QED
  BY <1>1, <1>2, <1>3, ReserveStep DEF ClaimDue

\* Giving up the open attempt leaves every attempt resolved.
LEMMA AbandonedResolved ==
    ASSUME TableInv, NEW d \in Deliveries, delivery[d].status = "in_progress",
           NEW i \in DOMAIN attempts[d], ExpiredEvidence(d, i)
    PROVE  \A j \in DOMAIN attempts[d] :
             /\ Abandoned(d, i)[j].attempt_number = j
             /\ Abandoned(d, i)[j].lease_token = attempts[d][j].lease_token
             /\ Abandoned(d, i)[j].status # "in_progress"
             /\ Abandoned(d, i)[j].status = "completed" =>
                   attempts[d][j].status = "completed"
             /\ Abandoned(d, i)[j].disposition # None
                   <=> Abandoned(d, i)[j].status = "completed"
<1>1. TypeInv /\ RowOK(delivery[d], attempts[d])
  BY TableInvSplits DEF RowsOK
<1>2. attempts[d][i] \in Attempt
  BY <1>1, ElementOfSeq DEF TypeInv, TypeOK
<1>3. /\ i = Len(attempts[d])
      /\ \A j \in DOMAIN attempts[d] :
            Abandoned(d, i)[j] =
              IF j = i THEN [attempts[d][i] EXCEPT !.status = "indeterminate"]
                       ELSE attempts[d][j]
  BY <1>1, AbandonedType DEF ExpiredEvidence, RowOK
<1>. QED
  BY <1>1, <1>2, <1>3 DEF RowOK, ExpiredEvidence, Attempt

LEMMA TableStepRedeliver ==
    ASSUME TableInv, TypeInv', NEW w \in Workers,
           NEW i \in DOMAIN attempts[worker[w].delivery], RedeliverExpired(w, i)
    PROVE  TableInv'
<1>. DEFINE d == worker[w].delivery
<1>1. /\ worker[w].pc = "locked" /\ delivery[d].status = "in_progress"
      /\ ExpiredEvidence(d, i)
  BY DEF RedeliverExpired
<1>2. d \in Deliveries /\ TypeInv
  BY <1>1, LockedRow, TableInvSplits
<1>3. /\ Abandoned(d, i) \in Seq(Attempt)
      /\ Len(Abandoned(d, i)) = Len(attempts[d])
      /\ DOMAIN Abandoned(d, i) = DOMAIN attempts[d]
  BY <1>2, AbandonedType
<1>. QED
  BY <1>1, <1>2, <1>3, AbandonedResolved, ReserveStep DEF RedeliverExpired

\* The row both dead-letter paths write agrees with attempts all resolved.
LEMMA DeadLetteredRowOK ==
    ASSUME NEW d \in Deliveries, delivery[d] \in Row, NEW seq,
           delivery[d].attempt_count = Len(seq),
           \A i \in DOMAIN seq :
             /\ seq[i].attempt_number = i
             /\ seq[i].status # "in_progress"
             /\ seq[i].disposition # None <=> seq[i].status = "completed"
    PROVE  RowOK(DeadLetteredRow(d), seq) /\ DeadLetteredRow(d).lease_token = None
<1>1. /\ DeadLetteredRow(d).status = "dead_lettered"
      /\ DeadLetteredRow(d).attempt_count = delivery[d].attempt_count
      /\ DeadLetteredRow(d).next_attempt_at = None
      /\ DeadLetteredRow(d).lease_owner = None
      /\ DeadLetteredRow(d).lease_token = None
      /\ DeadLetteredRow(d).lease_expires_at = None
  BY DEF DeadLetteredRow, Row
<1>. QED
  BY <1>1 DEF RowOK

LEMMA TableStepDeadLetterDue ==
    ASSUME TableInv, TypeInv', NEW w \in Workers, DeadLetterWithoutAttempt(w)
    PROVE  TableInv'
<1>. DEFINE d == worker[w].delivery
<1>1. worker[w].pc = "locked" /\ delivery[d].status # "in_progress"
  BY DEF DeadLetterWithoutAttempt
<1>2. /\ d \in Deliveries /\ RowOK(delivery[d], attempts[d]) /\ delivery[d] \in Row
      /\ worker[w].budget \in Budgets
      /\ \A v \in Workers \ {w} : worker[v].pc = "locked" => worker[v].delivery # d
  BY <1>1, LockedRow
<1>3. RowOK(DeadLetteredRow(d), attempts[d]) /\ DeadLetteredRow(d).lease_token = None
  <2>1. \A i \in DOMAIN attempts[d] :
          /\ attempts[d][i].attempt_number = i
          /\ attempts[d][i].status # "in_progress"
          /\ attempts[d][i].disposition # None <=> attempts[d][i].status = "completed"
    BY <1>1, <1>2 DEF RowOK
  <2>. QED
    BY <1>2, <2>1, DeadLetteredRowOK DEF RowOK
<1>4. /\ Idle(worker[w].budget) \in Process /\ Idle(worker[w].budget).pc = "idle"
  BY <1>2, IdleType DEF Idle
<1>5. attempts' = [attempts EXCEPT ![d] = attempts[d]]
  BY TableInvSplits DEF DeadLetterWithoutAttempt, TypeInv, TypeOK
<1>6. \A v \in Workers \ {w} : Holding(v) /\ worker[v].delivery = d =>
        attempts[d][worker[v].number].status # "completed"
  BY OtherSnapshot DEF SnapshotMatches
<1>. QED
  BY <1>2, <1>3, <1>4, <1>5, <1>6, CloseStep DEF DeadLetterWithoutAttempt

LEMMA TableStepDeadLetterExpired ==
    ASSUME TableInv, TypeInv', NEW w \in Workers,
           NEW i \in DOMAIN attempts[worker[w].delivery], DeadLetterExpired(w, i)
    PROVE  TableInv'
<1>. DEFINE d == worker[w].delivery
            seq == Abandoned(d, i)
<1>1. /\ worker[w].pc = "locked" /\ delivery[d].status = "in_progress"
      /\ ExpiredEvidence(d, i)
  BY DEF DeadLetterExpired
<1>2. /\ d \in Deliveries /\ RowOK(delivery[d], attempts[d]) /\ delivery[d] \in Row
      /\ worker[w].budget \in Budgets /\ TypeInv
      /\ \A v \in Workers \ {w} : worker[v].pc = "locked" => worker[v].delivery # d
  BY <1>1, LockedRow, TableInvSplits
<1>3. Len(seq) = Len(attempts[d]) /\ DOMAIN seq = DOMAIN attempts[d]
  BY <1>2, AbandonedType
<1>4. \A j \in DOMAIN seq :
        /\ seq[j].attempt_number = j
        /\ seq[j].lease_token = attempts[d][j].lease_token
        /\ seq[j].status # "in_progress"
        /\ seq[j].status = "completed" => attempts[d][j].status = "completed"
        /\ seq[j].disposition # None <=> seq[j].status = "completed"
  BY <1>1, <1>2, <1>3, AbandonedResolved
<1>. HIDE DEF seq
<1>5. RowOK(DeadLetteredRow(d), seq) /\ DeadLetteredRow(d).lease_token = None
  BY <1>2, <1>3, <1>4, DeadLetteredRowOK DEF RowOK
<1>6. /\ Idle(worker[w].budget) \in Process /\ Idle(worker[w].budget).pc = "idle"
  BY <1>2, IdleType DEF Idle
<1>7. \A v \in Workers \ {w} : Holding(v) /\ worker[v].delivery = d =>
        seq[worker[v].number].status # "completed"
  BY <1>3, <1>4, OtherSnapshot DEF SnapshotMatches
<1>8. /\ delivery' = [delivery EXCEPT ![d] = DeadLetteredRow(d)]
      /\ attempts' = [attempts EXCEPT ![d] = seq]
      /\ worker' = [worker EXCEPT ![w] = Idle(worker[w].budget)]
      /\ issued' = issued
  BY DEF DeadLetterExpired, seq
<1>9. \A j \in DOMAIN seq : seq[j].lease_token = attempts[d][j].lease_token
  BY <1>4
<1>. DEFINE row == DeadLetteredRow(d)
            p == Idle(worker[w].budget)
<1>10. /\ RowOK(row, seq) /\ row.lease_token = None /\ p \in Process /\ p.pc = "idle"
       /\ delivery' = [delivery EXCEPT ![d] = row] /\ worker' = [worker EXCEPT ![w] = p]
  BY <1>5, <1>6, <1>8
<1>11. /\ d \in Deliveries /\ DOMAIN seq = DOMAIN attempts[d]
       /\ \A v \in Workers \ {w} : worker[v].pc = "locked" => worker[v].delivery # d
       /\ attempts' = [attempts EXCEPT ![d] = seq] /\ issued' = issued
  BY <1>2, <1>3, <1>8
<1>. HIDE DEF row, p, d
<1>. QED
  BY <1>7, <1>9, <1>10, <1>11, CloseStep

LEMMA TableStepFinalize ==
    ASSUME TableInv, TypeInv', NEW w \in Workers,
           NEW i \in DOMAIN attempts[worker[w].delivery], Finalize(w, i)
    PROVE  TableInv'
<1>. DEFINE d == worker[w].delivery
            seq == Completed(w, d, i)
<1>1. /\ worker[w].pc = "finalizing" /\ ~DeliveryLocked(d)
      /\ OwnsLease(w, d) /\ ReservedEvidence(w, d, i)
      /\ attempts' = [attempts EXCEPT ![d] = seq]
      /\ worker' = [worker EXCEPT ![w] = Idle(worker[w].budget)]
      /\ issued' = issued
  BY DEF Finalize
<1>2. /\ RowsOK /\ CrossOK /\ TypeInv
      /\ d \in Deliveries /\ worker[w].budget \in Budgets
      /\ RowOK(delivery[d], attempts[d]) /\ delivery[d] \in Row
      /\ worker[w].disposition # None
  BY <1>1, TableInvSplits
  DEF TypeInv, TypeOK, WorkerShape, Holding, Process, RowsOK
<1>3. PICK next \in ScheduledInstants(w) :
        delivery' = [delivery EXCEPT ![d] = FinalizedRow(w, d, next)]
  BY DEF Finalize
<1>. DEFINE row == FinalizedRow(w, d, next)
<1>4. attempts[d][i] \in Attempt /\ i = Len(attempts[d])
  <2>1. attempts[d][i] \in Attempt
    BY <1>2, ElementOfSeq DEF TypeInv, TypeOK
  <2>2. i = Len(attempts[d])
    BY <1>1, <1>2 DEF ReservedEvidence, RowOK
  <2>. QED
    BY <2>1, <2>2
<1>5. /\ Len(seq) = Len(attempts[d]) /\ DOMAIN seq = DOMAIN attempts[d]
      /\ \A j \in DOMAIN seq :
            /\ seq[j].attempt_number = j
            /\ seq[j].lease_token = attempts[d][j].lease_token
            /\ seq[j].status # "in_progress"
            /\ j # i => seq[j] = attempts[d][j]
            /\ seq[j].disposition # None <=> seq[j].status = "completed"
  <2>. DEFINE a == CompletedAttempt(w, d, i)
  <2>1. /\ Len(seq) = Len(attempts[d]) /\ DOMAIN seq = DOMAIN attempts[d]
        /\ \A j \in DOMAIN attempts[d] : seq[j] = IF j = i THEN a ELSE attempts[d][j]
    BY <1>2, CompletedType
  <2>2. /\ a.status = "completed" /\ a.disposition # None
        /\ a.attempt_number = attempts[d][i].attempt_number
        /\ a.lease_token = attempts[d][i].lease_token
    BY <1>2, <1>4 DEF Attempt, CompletedAttempt
  <2>3. \A j \in DOMAIN attempts[d] :
          /\ attempts[d][j].attempt_number = j
          /\ j # i => attempts[d][j].status # "in_progress"
          /\ attempts[d][j].disposition # None <=> attempts[d][j].status = "completed"
    BY <1>2, <1>4 DEF RowOK
  <2>. HIDE DEF a, seq, d
  <2>. QED
    BY <2>1, <2>2, <2>3
<1>6. /\ row.status = TargetStatus(w) /\ row.next_attempt_at = next
      /\ row.attempt_count = delivery[d].attempt_count
      /\ row.lease_owner = None /\ row.lease_token = None
      /\ row.lease_expires_at = None
  BY <1>2 DEF FinalizedRow, Row
<1>7. /\ TargetStatus(w) \in {"delivered", "retry_wait", "dead_lettered"}
      /\ next # None <=> TargetStatus(w) = "retry_wait"
  <2>1. TargetStatus(w) \in {"delivered", "retry_wait", "dead_lettered"}
    BY DEF TargetStatus
  <2>2. ASSUME TargetStatus(w) = "retry_wait" PROVE next # None
    <3>1. PICK delay \in RetryDelays(worker[w].number, worker[w].retry_after) :
            next = Instant(worker[w].now + delay)
      BY <2>2 DEF ScheduledInstants
    <3>2. worker[w].now \in Int /\ worker[w].retry_after \in Nat \cup {None}
      BY <1>1, <1>2 DEF TypeInv, TypeOK, WorkerShape, Process, Instants
    <3>3. delay \in Int
      BY <3>2, RetryDelaysType
    <3>4. next \in Instants
      BY <3>1, <3>2, <3>3, InstantType
    <3>. QED
      BY <3>4, NoneAssumption DEF Instants
  <2>. QED
    BY <2>1, <2>2 DEF ScheduledInstants
<1>. HIDE DEF seq, row
<1>8. RowOK(row, seq)
  BY <1>2, <1>5, <1>6, <1>7 DEF RowOK
<1>9. \A v \in Workers \ {w} : Holding(v) /\ worker[v].delivery = d =>
        seq[worker[v].number].status # "completed"
  <2>. SUFFICES ASSUME NEW v \in Workers \ {w}, Holding(v), worker[v].delivery = d
                PROVE  seq[worker[v].number].status # "completed"
    OBVIOUS
  <2>1. SnapshotMatches(v) /\ worker[v].number \in DOMAIN attempts[d]
    BY OtherSnapshot
  <2>2. Holding(w) /\ worker[w].token = attempts[d][i].lease_token
    BY <1>1 DEF Holding, ReservedEvidence
  <2>3. worker[v].number # i
    BY <2>1, <2>2 DEF SnapshotMatches
  <2>. QED
    BY <1>5, <2>1, <2>3 DEF SnapshotMatches
<1>10. \A v \in Workers \ {w} : worker[v].pc = "locked" => worker[v].delivery # d
  BY <1>1 DEF DeliveryLocked
<1>11. Idle(worker[w].budget) \in Process /\ Idle(worker[w].budget).pc = "idle"
  BY <1>2, IdleType DEF Idle
<1>12. delivery' = [delivery EXCEPT ![d] = row]
  BY <1>3 DEF row
<1>13. \A j \in DOMAIN seq : seq[j].lease_token = attempts[d][j].lease_token
  BY <1>5
<1>. DEFINE p == Idle(worker[w].budget)
<1>14. /\ d \in Deliveries /\ row.lease_token = None
       /\ DOMAIN seq = DOMAIN attempts[d]
       /\ attempts' = [attempts EXCEPT ![d] = seq] /\ issued' = issued
       /\ p \in Process /\ p.pc = "idle" /\ worker' = [worker EXCEPT ![w] = p]
  BY <1>1, <1>2, <1>5, <1>6, <1>11
<1>. HIDE DEF p, d
<1>. QED
  BY <1>8, <1>9, <1>10, <1>12, <1>13, <1>14, CloseStep

LEMMA TableStepEnqueue ==
    ASSUME TableInv, TypeInv', NEW d \in Deliveries, Enqueue(d)
    PROVE  TableInv'
<1>1. RowsOK /\ CrossOK /\ TypeInv /\ attempts[d] \in Seq(Attempt) /\ delivery[d] \in Row
  BY TableInvSplits DEF TypeInv, TypeOK
<1>2. /\ delivery[d].status = "absent"
      /\ \A e \in Deliveries : delivery'[e] = IF e = d THEN NewRow ELSE delivery[e]
      /\ attempts' = [attempts EXCEPT ![d] = attempts[d]]
      /\ UNCHANGED <<attempts, worker, issued>>
  BY <1>1 DEF Enqueue, TypeInv, TypeOK
<1>3. /\ NewRow.status = "pending" /\ NewRow.attempt_count = 0
      /\ NewRow.next_attempt_at = 0 /\ NewRow.lease_owner = None
      /\ NewRow.lease_token = None /\ NewRow.lease_expires_at = None
  BY DEF NewRow, AbsentRow
<1>4. Len(attempts[d]) = 0 /\ attempts[d] = << >>
  BY <1>1, <1>2, EmptySeq DEF RowsOK, RowOK
<1>5. RowsOK'
  <2>1. RowOK(NewRow, attempts[d])
    BY <1>3, <1>4, NowType DEF RowOK
  <2>. QED
    BY <1>1, <1>2, <2>1, RowUpdate DEF Enqueue
<1>6. TokensAreUnique'
  BY <1>1, <1>2 DEF CrossOK, TokensAreUnique
<1>7. ClaimLocks'
  <2>1. \A v \in Workers : worker[v].pc = "locked" =>
          /\ worker[v].delivery \in Deliveries
          /\ delivery'[worker[v].delivery] = delivery[worker[v].delivery]
    BY <1>1, <1>2 DEF TypeInv, TypeOK, WorkerShape, Process, CrossOK, ClaimLocks, Due
  <2>. QED
    BY <1>1, <1>2, <2>1 DEF CrossOK, ClaimLocks, Due
<1>8. SnapshotsMatch'
  <2>. SUFFICES ASSUME NEW v \in Workers, Holding(v) PROVE SnapshotMatches(v)'
    BY <1>2 DEF SnapshotsMatch, Holding
  <2>1. SnapshotMatches(v) /\ worker[v].delivery \in Deliveries /\ worker[v].token # None
    BY <1>1, OtherSnapshot DEF TypeInv, WorkerShape
  <2>. QED
    BY <1>2, <1>3, <2>1 DEF SnapshotMatches, Holding
<1>. QED
  BY <1>5, <1>6, <1>7, <1>8, TableInvSplitsPrime DEF CrossOK

LEMMA TableStepTick ==
    ASSUME TableInv, TypeInv', Tick
    PROVE  TableInv'
<1>1. RowsOK /\ CrossOK /\ TypeInv
  BY TableInvSplits
<1>2. \A d \in Deliveries :
        /\ delivery'[d].status = delivery[d].status
        /\ delivery'[d].attempt_count = delivery[d].attempt_count
        /\ delivery'[d].lease_owner = delivery[d].lease_owner
        /\ delivery'[d].lease_token = delivery[d].lease_token
        /\ delivery'[d].next_attempt_at = Aged(delivery[d].next_attempt_at)
        /\ delivery'[d].lease_expires_at = Aged(delivery[d].lease_expires_at)
  <2>. SUFFICES ASSUME NEW d \in Deliveries
                PROVE  /\ delivery'[d].status = delivery[d].status
                       /\ delivery'[d].attempt_count = delivery[d].attempt_count
                       /\ delivery'[d].lease_owner = delivery[d].lease_owner
                       /\ delivery'[d].lease_token = delivery[d].lease_token
                       /\ delivery'[d].next_attempt_at = Aged(delivery[d].next_attempt_at)
                       /\ delivery'[d].lease_expires_at = Aged(delivery[d].lease_expires_at)
    OBVIOUS
  <2>1. /\ delivery[d] \in Row
        /\ delivery'[d] = [delivery[d] EXCEPT !.next_attempt_at = Aged(@),
                                              !.lease_expires_at = Aged(@)]
    BY <1>1 DEF Tick, TypeInv, TypeOK
  <2>. QED
    BY <2>1 DEF Row
<1>3. \A d \in Deliveries :
        LET next == delivery[d].next_attempt_at
            expiry == delivery[d].lease_expires_at
        IN  /\ Aged(next) = None <=> next = None
            /\ Aged(expiry) = None <=> expiry = None
            /\ next # None => next \in Int /\ Aged(next) \in Int /\ Aged(next) <= next
            /\ expiry # None =>
                  expiry \in Int /\ Aged(expiry) \in Int /\ Aged(expiry) <= expiry
  BY <1>1, AgedType DEF TypeInv, TypeOK, Row, Instants
<1>4. \A w \in Workers :
        /\ worker'[w].pc = worker[w].pc
        /\ worker'[w].delivery = worker[w].delivery
        /\ worker'[w].number = worker[w].number
        /\ worker'[w].token = worker[w].token
  <2>1. \A w \in Workers : /\ worker[w] \in Process
                           /\ worker'[w] = [worker[w] EXCEPT !.now = Aged(@)]
    BY <1>1 DEF Tick, TypeInv, TypeOK
  <2>. QED
    BY <2>1 DEF Process
<1>5. attempts' = attempts /\ issued' = issued
  BY DEF Tick
<1>6. RowsOK'
  BY <1>1, <1>2, <1>3, <1>5 DEF RowsOK, RowOK
<1>7. TokensAreUnique'
  BY <1>1, <1>5 DEF CrossOK, TokensAreUnique
<1>8. ClaimLocks'
  <2>1. \A w \in Workers : worker[w].pc = "locked" => worker[w].delivery \in Deliveries
    BY <1>1 DEF TypeInv, TypeOK, WorkerShape, Process
  <2>2. \A d \in Deliveries : Due(d) => Due(d)'
    BY <1>2, <1>3 DEF Due
  <2>. QED
    BY <1>1, <1>4, <2>1, <2>2 DEF CrossOK, ClaimLocks
<1>9. SnapshotsMatch'
  <2>. SUFFICES ASSUME NEW v \in Workers, Holding(v) PROVE SnapshotMatches(v)'
    BY <1>4 DEF SnapshotsMatch, Holding
  <2>1. SnapshotMatches(v) /\ worker[v].delivery \in Deliveries
    BY OtherSnapshot
  <2>. QED
    BY <1>2, <1>4, <1>5, <2>1 DEF SnapshotMatches, Holding
<1>. QED
  BY <1>6, <1>7, <1>8, <1>9, TableInvSplitsPrime DEF CrossOK

LEMMA TableStep == TableInv /\ [Next]_vars => TableInv'
<1>. SUFFICES ASSUME TableInv, [Next]_vars PROVE TableInv'
  OBVIOUS
<1>1. TypeInv /\ TypeInv'
  BY TableInvSplits, TypeStep
<1>2. \A w \in Workers : worker[w] \in Process /\ worker[w].budget \in Budgets
  BY <1>1 DEF TypeInv, TypeOK, Process
<1>3. ASSUME NEW w \in Workers, ReadClaimClock(w) PROVE TableInv'
  <2>. DEFINE p == [worker[w] EXCEPT !.pc = "claiming", !.now = 0]
  <2>1. p \in Process /\ p.pc = "claiming"
    BY <1>2, NowType DEF Process
  <2>2. worker' = [worker EXCEPT ![w] = p]
    BY <1>3 DEF ReadClaimClock
  <2>. HIDE DEF p
  <2>. QED
    BY <1>1, <1>3, <2>1, <2>2, QuietStep DEF ReadClaimClock
<1>4. ASSUME NEW w \in Workers, NEW d \in Deliveries, LockDue(w, d) PROVE TableInv'
  <2>. DEFINE p == [worker[w] EXCEPT !.pc = "locked", !.delivery = d]
  <2>1. p \in Process /\ p.pc = "locked" /\ p.delivery = d
    BY <1>2 DEF Process
  <2>2. worker' = [worker EXCEPT ![w] = p]
    BY <1>4 DEF LockDue
  <2>. HIDE DEF p
  <2>. QED
    BY <1>1, <1>4, <2>1, <2>2, QuietStep DEF LockDue, Claimable
<1>5. ASSUME NEW w \in Workers, Send(w) PROVE TableInv'
  <2>1. PICK result \in SendResults :
          worker' = [worker EXCEPT ![w].pc = "sent",
                                   ![w].disposition = result.disposition,
                                   ![w].retry_after = result.retry_after]
    BY <1>5 DEF Send
  <2>. DEFINE p == [worker[w] EXCEPT !.pc = "sent",
                                     !.disposition = result.disposition,
                                     !.retry_after = result.retry_after]
  <2>2. /\ p \in Process /\ p.pc = "sent"
        /\ p.delivery = worker[w].delivery
        /\ p.number = worker[w].number
        /\ p.token = worker[w].token
    BY <1>2, SendResultsType DEF Process
  <2>3. worker' = [worker EXCEPT ![w] = p]
    BY <2>1
  <2>4. Holding(w)
    BY <1>5 DEF Send, Holding
  <2>. HIDE DEF p
  <2>. QED
    BY <1>1, <1>5, <2>2, <2>3, <2>4, QuietStep DEF Send
<1>6. ASSUME NEW w \in Workers, ReadFinalizeClock(w) PROVE TableInv'
  <2>. DEFINE p == [worker[w] EXCEPT !.pc = "finalizing", !.now = 0]
  <2>1. /\ p \in Process /\ p.pc = "finalizing"
        /\ p.delivery = worker[w].delivery
        /\ p.number = worker[w].number
        /\ p.token = worker[w].token
    BY <1>2, NowType DEF Process
  <2>2. worker' = [worker EXCEPT ![w] = p] /\ Holding(w)
    BY <1>6 DEF ReadFinalizeClock, Holding
  <2>. HIDE DEF p
  <2>. QED
    BY <1>1, <1>6, <2>1, <2>2, QuietStep DEF ReadFinalizeClock
<1>7. ASSUME NEW w \in Workers,
             NothingDue(w) \/ SendRaises(w) \/ FinalizeStale(w) \/ IterationFails(w)
      PROVE  TableInv'
  BY <1>1, <1>2, <1>7, EndIteration
  DEF NothingDue, SendRaises, FinalizeStale, IterationFails
<1>8. ASSUME NEW w \in Workers, Crash(w) PROVE TableInv'
  <2>. DEFINE p == [Idle(worker[w].budget) EXCEPT !.pc = "down"]
  <2>1. p \in Process /\ p.pc = "down"
    BY <1>2, IdleType DEF Process
  <2>2. worker' = [worker EXCEPT ![w] = p]
    BY <1>8 DEF Crash
  <2>. HIDE DEF p
  <2>. QED
    BY <1>1, <1>8, <2>1, <2>2, QuietStep DEF Crash
<1>9. ASSUME NEW w \in Workers, Restart(w) PROVE TableInv'
  BY <1>1, <1>9, EndIteration DEF Restart
<1>10. ASSUME NEW e \in Endpoints, SetEnabled(e) PROVE TableInv'
  <2>1. UNCHANGED <<delivery, attempts, worker, issued>>
    BY <1>10 DEF SetEnabled
  <2>. QED
    BY <1>1, <2>1, TableInvSplits, TableInvSplitsPrime
    DEF RowsOK, RowOK, CrossOK, ClaimLocks, Due, TokensAreUnique, SnapshotsMatch,
        SnapshotMatches, Holding
<1>11. CASE UNCHANGED vars
  BY <1>1, <1>11, TableInvSplits, TableInvSplitsPrime
  DEF vars, RowsOK, RowOK, CrossOK, ClaimLocks, Due, TokensAreUnique, SnapshotsMatch,
      SnapshotMatches, Holding
<1>. QED
  BY <1>1, <1>3, <1>4, <1>5, <1>6, <1>7, <1>8, <1>9, <1>10, <1>11, TableStepClaimDue,
     TableStepRedeliver, TableStepDeadLetterDue, TableStepDeadLetterExpired,
     TableStepFinalize, TableStepEnqueue, TableStepTick
  DEF Next, WorkerStep, ResolveClaim, FinishFinalize

LEMMA TableInvariant == Spec => []TableInv
BY TableInit, TableStep, PTL DEF Spec

-----------------------------------------------------------------------------
(* What follows for the tables.                                            *)

\* Attempt numbers run 1, 2, 3, ... and attempt_count is the last of them.
THEOREM NumberedCorrect == Spec => []AttemptsNumbered
<1>1. TableInv => AttemptsNumbered
  BY DEF TableInv
<1>. QED
  BY <1>1, TableInvariant, PTL

\* A delivery is in progress exactly when its newest attempt is, under the
\* same token, so claim_one never trips the one-in-progress index.
THEOREM LeaseCorrect == Spec => []EvidenceMatchesLease
<1>1. TableInv => EvidenceMatchesLease
  BY DEF TableInv
<1>. QED
  BY <1>1, TableInvariant, PTL

\* Unfinished rows always satisfy one arm of the claim query's WHERE once
\* their time has come.
THEOREM SchedulerCorrect == Spec => []NeverLostToScheduler
<1>1. TableInv => NeverLostToScheduler
  BY DEF TableInv
<1>. QED
  BY <1>1, TableInvariant, PTL

\* The RuntimeErrors about missing evidence and the attempt-number fence of
\* finalize can never be reached.
THEOREM EvidenceFound == Spec => []EvidenceNeverMissing
<1>1. TableInv => EvidenceNeverMissing
  <2>. SUFFICES ASSUME TableInv, NEW w \in Workers
                PROVE  LET d == worker[w].delivery
                       IN  /\ worker[w].pc = "locked" /\ delivery[d].status = "in_progress" =>
                                 \E i \in DOMAIN attempts[d] : ExpiredEvidence(d, i)
                           /\ /\ worker[w].pc = "finalizing"
                              /\ delivery[d].status = "in_progress"
                              /\ delivery[d].lease_token = worker[w].token
                              => /\ OwnsLease(w, d)
                                 /\ \E i \in DOMAIN attempts[d] : ReservedEvidence(w, d, i)
    BY DEF EvidenceNeverMissing
  <2>. DEFINE d == worker[w].delivery
              n == Len(attempts[d])
  <2>1. TypeInv /\ RowsOK /\ CrossOK
    BY TableInvSplits
  <2>2. ASSUME d \in Deliveries, delivery[d].status = "in_progress"
        PROVE  /\ n \in DOMAIN attempts[d] /\ attempts[d][n].attempt_number = n
               /\ delivery[d].attempt_count = n
               /\ attempts[d][n].lease_token = delivery[d].lease_token
               /\ attempts[d][n].status = "in_progress"
    <3>1. attempts[d] \in Seq(Attempt) /\ RowOK(delivery[d], attempts[d])
      BY <2>1, <2>2 DEF RowsOK, TypeInv, TypeOK
    <3>2. n \in DOMAIN attempts[d]
      BY <2>2, <3>1, EmptySeq DEF RowOK
    <3>. QED
      BY <2>2, <3>1, <3>2 DEF RowOK
  <2>3. ASSUME worker[w].pc = "locked", delivery[d].status = "in_progress"
        PROVE  \E i \in DOMAIN attempts[d] : ExpiredEvidence(d, i)
    <3>1. d \in Deliveries
      BY <2>3, LockedRow
    <3>. QED
      BY <2>2, <2>3, <3>1 DEF ExpiredEvidence
  <2>4. ASSUME worker[w].pc = "finalizing", delivery[d].status = "in_progress",
               delivery[d].lease_token = worker[w].token
        PROVE  /\ OwnsLease(w, d)
               /\ \E i \in DOMAIN attempts[d] : ReservedEvidence(w, d, i)
    <3>1. Holding(w)
      BY <2>4 DEF Holding
    <3>2. d \in Deliveries /\ SnapshotMatches(w)
      BY <3>1, OtherSnapshot
    <3>3. n = worker[w].number
      BY <2>1, <2>2, <2>4, <3>2 DEF SnapshotMatches, CrossOK, TokensAreUnique
    <3>. QED
      BY <2>2, <2>4, <3>2, <3>3 DEF OwnsLease, ReservedEvidence, SnapshotMatches
  <2>. QED
    BY <2>3, <2>4
<1>. QED
  BY <1>1, TableInvariant, PTL


-----------------------------------------------------------------------------
(* The effects of a step on delivery d.                                    *)

\* Nothing but the age of its timestamps changes.
Kept(d) ==
    /\ attempts'[d] = attempts[d]
    /\ delivery'[d].status = delivery[d].status
    /\ delivery[d].status \in Terminal => delivery'[d] = delivery[d]

\* publish or replay inserts it.
Accepted(d) ==
    /\ delivery[d].status = "absent" /\ delivery'[d].status = "pending"
    /\ attempts'[d] = attempts[d]

\* In seq no attempt differs, except an open one whose lease has run out.
Settled(d, seq) ==
    \A i \in DOMAIN attempts[d] :
        \/ seq[i] = attempts[d][i] /\ attempts[d][i].status # "in_progress"
        \/ /\ attempts[d][i].status = "in_progress"
           /\ delivery[d].lease_expires_at <= 0
           /\ seq[i].status = "indeterminate"
           /\ seq[i].disposition = None
           /\ seq[i].lease_token = attempts[d][i].lease_token

\* claim_one reserves the next attempt.
Reserved(d) ==
    LET n == Len(attempts[d])
    IN  /\ Due(d) /\ delivery'[d].status = "in_progress"
        /\ Len(attempts'[d]) = n + 1 /\ DOMAIN attempts'[d] = 1 .. n + 1
        /\ \E b \in Budgets : n + 1 <= b
        /\ Settled(d, attempts'[d])
        /\ attempts'[d][n + 1].status = "in_progress"
        /\ attempts'[d][n + 1].disposition = None

\* claim_one dead-letters it.
GivenUp(d) ==
    /\ Due(d) /\ delivery'[d].status = "dead_lettered"
    /\ Len(attempts'[d]) = Len(attempts[d])
    /\ DOMAIN attempts'[d] = DOMAIN attempts[d]
    /\ Settled(d, attempts'[d])

\* finalize commits the outcome w holds, and its consequence.
Concluded(w, d) ==
    LET n == Len(attempts[d])
        outcome == worker[w].disposition
    IN  /\ worker[w].pc = "finalizing"
        /\ delivery[d].status = "in_progress" /\ outcome \in Dispositions
        /\ delivery'[d].status \in {"delivered", "retry_wait", "dead_lettered"}
        /\ delivery'[d].status = "delivered" <=> outcome = "succeeded"
        /\ delivery'[d].status = "retry_wait" => outcome = "retry"
        /\ Len(attempts'[d]) = n /\ DOMAIN attempts'[d] = DOMAIN attempts[d]
        /\ \A i \in DOMAIN attempts[d] : i # n => attempts'[d][i] = attempts[d][i]
        /\ n \in DOMAIN attempts[d] /\ attempts[d][n].status = "in_progress"
        /\ attempts'[d][n].status = "completed"
        /\ attempts'[d][n].disposition = outcome
        /\ attempts[d][n].lease_token = worker[w].token
        /\ attempts'[d][n].lease_token = worker[w].token

Effect(d) ==
    \/ Kept(d)
    \/ Accepted(d)
    \/ Reserved(d)
    \/ GivenUp(d)
    \/ \E w \in Workers : Concluded(w, d)

\* A step touches at most one delivery.
Effects ==
    \/ \A e \in Deliveries : Kept(e)
    \/ \E d \in Deliveries : Effect(d) /\ \A e \in Deliveries \ {d} : Kept(e)

-----------------------------------------------------------------------------
(* Every step has one of these effects on every delivery.                  *)

LEMMA KeptWhenUnchanged ==
    ASSUME NEW d \in Deliveries, delivery'[d] = delivery[d], attempts'[d] = attempts[d]
    PROVE  Kept(d)
BY DEF Kept

\* An open attempt is the newest one, and its delivery is in progress.
LEMMA OpenAttempt ==
    ASSUME TableInv, NEW d \in Deliveries
    PROVE  /\ attempts[d] \in Seq(Attempt) /\ delivery[d] \in Row
           /\ Len(attempts[d]) \in Nat /\ DOMAIN attempts[d] = 1 .. Len(attempts[d])
           /\ delivery[d].attempt_count = Len(attempts[d])
           /\ \A i \in DOMAIN attempts[d] :
                 /\ attempts[d][i] \in Attempt
                 /\ attempts[d][i].status = "in_progress"
                      <=> delivery[d].status = "in_progress" /\ i = Len(attempts[d])
                 /\ attempts[d][i].disposition # None
                      <=> attempts[d][i].status = "completed"
<1>1. TypeInv /\ RowOK(delivery[d], attempts[d])
  BY TableInvSplits DEF RowsOK
<1>2. attempts[d] \in Seq(Attempt) /\ delivery[d] \in Row
  BY <1>1 DEF TypeInv, TypeOK
<1>. QED
  BY <1>1, <1>2, ElementOfSeq DEF RowOK

\* Attempts given up by a claim keep everything but an open one's status.
LEMMA AbandonedOlder ==
    ASSUME TableInv, NEW d \in Deliveries, delivery[d].status = "in_progress", Due(d),
           NEW i \in DOMAIN attempts[d], ExpiredEvidence(d, i)
    PROVE  Settled(d, Abandoned(d, i))
<1>1. TypeInv
  BY TableInvSplits
<1>2. /\ \A j \in DOMAIN attempts[d] :
            Abandoned(d, i)[j] =
              IF j = i THEN [attempts[d][i] EXCEPT !.status = "indeterminate"]
                       ELSE attempts[d][j]
      /\ attempts[d][i] \in Attempt
      /\ attempts[d][i].disposition = None
      /\ \A j \in DOMAIN attempts[d] : attempts[d][j].status = "in_progress" <=> j = i
  BY <1>1, AbandonedType, OpenAttempt DEF ExpiredEvidence
<1>3. delivery[d].lease_expires_at <= 0
  BY DEF Due
<1>. QED
  BY <1>2, <1>3 DEF Settled, ExpiredEvidence, Attempt

LEMMA ReserveEffect ==
    ASSUME TableInv, NEW w \in Workers, worker[w].pc = "locked",
           NEW d \in Deliveries, d = worker[w].delivery, ~Exhausted(w, d),
           NEW evidence \in Seq(Attempt), Reserve(w, d, evidence),
           Len(evidence) = Len(attempts[d]),
           Settled(d, evidence)
    PROVE  Effects
<1>. DEFINE n == Len(attempts[d])
            seq == Append(evidence, NewAttempt(n + 1, issued + 1))
<1>1. /\ TypeInv /\ Due(d)
      /\ n \in Nat /\ DOMAIN attempts[d] = 1 .. n
      /\ delivery[d] \in Row /\ delivery[d].attempt_count = n
      /\ issued + 1 \in Tokens
  BY TableInvSplits, OpenAttempt DEF CrossOK, ClaimLocks, TypeInv, TypeOK, Tokens
<1>2. /\ Len(seq) = n + 1 /\ DOMAIN seq = 1 .. n + 1
      /\ \A i \in 1 .. n : seq[i] = evidence[i]
      /\ seq[n + 1] = NewAttempt(n + 1, issued + 1)
  <2>1. NewAttempt(n + 1, issued + 1) \in Attempt
    BY <1>1, NewAttemptType
  <2>. QED
    BY <1>1, <2>1, AppendProperties
<1>3. \A e \in Deliveries :
        /\ delivery'[e] = IF e = d THEN LeasedRow(w, d) ELSE delivery[e]
        /\ attempts'[e] = IF e = d THEN seq ELSE attempts[e]
  BY <1>1 DEF Reserve, TypeInv, TypeOK
<1>4. LeasedRow(w, d).status = "in_progress"
  BY <1>1 DEF LeasedRow, Row
<1>5. \E b \in Budgets : n + 1 <= b
  <2>1. worker[w].budget \in Budgets /\ worker[w].budget \in Nat
    BY <1>1, WorkerAssumption DEF TypeInv, TypeOK, Process
  <2>2. n < worker[w].budget
    BY <1>1 DEF Exhausted, HasAttemptRemaining
  <2>. QED
    BY <1>1, <2>1, <2>2
<1>6. seq[n + 1].disposition = None /\ seq[n + 1].status = "in_progress"
  BY <1>2 DEF NewAttempt
<1>. HIDE DEF seq
<1>7. Settled(d, attempts'[d])
  BY <1>1, <1>2, <1>3 DEF Settled
<1>8. Reserved(d)
  BY <1>1, <1>2, <1>3, <1>4, <1>5, <1>6, <1>7 DEF Reserved
<1>. QED
  BY <1>3, <1>8, KeptWhenUnchanged DEF Effect, Effects

LEMMA DeadLetterEffect ==
    ASSUME TableInv, NEW d \in Deliveries, Due(d), NEW seq,
           delivery' = [delivery EXCEPT ![d] = DeadLetteredRow(d)],
           attempts' = [attempts EXCEPT ![d] = seq],
           Len(seq) = Len(attempts[d]), DOMAIN seq = DOMAIN attempts[d],
           Settled(d, seq)
    PROVE  Effects
<1>1. \A e \in Deliveries :
        /\ delivery'[e] = IF e = d THEN DeadLetteredRow(d) ELSE delivery[e]
        /\ attempts'[e] = IF e = d THEN seq ELSE attempts[e]
  BY TableInvSplits DEF TypeInv, TypeOK
<1>2. DeadLetteredRow(d).status = "dead_lettered"
  BY OpenAttempt DEF DeadLetteredRow, Row
<1>3. GivenUp(d)
  BY <1>1, <1>2 DEF GivenUp, Settled
<1>. QED
  BY <1>1, <1>3, KeptWhenUnchanged DEF Effect, Effects

LEMMA FinalizeEffect ==
    ASSUME TableInv, NEW w \in Workers,
           NEW i \in DOMAIN attempts[worker[w].delivery], Finalize(w, i)
    PROVE  Effects
<1>. DEFINE d == worker[w].delivery
            n == Len(attempts[d])
            outcome == worker[w].disposition
            a == CompletedAttempt(w, d, i)
<1>1. worker[w].pc = "finalizing" /\ OwnsLease(w, d) /\ ReservedEvidence(w, d, i)
  BY DEF Finalize
<1>2. /\ TypeInv /\ d \in Deliveries /\ outcome \in Dispositions
  BY <1>1, TableInvSplits DEF TypeInv, TypeOK, WorkerShape, Holding, Process
<1>3. /\ delivery[d].status = "in_progress" /\ delivery[d] \in Row
      /\ attempts[d][i].status = "in_progress" /\ attempts[d][i] \in Attempt
      /\ i = n
  BY <1>1, <1>2, OpenAttempt DEF OwnsLease, ReservedEvidence
<1>4. PICK next \in ScheduledInstants(w) :
        delivery' = [delivery EXCEPT ![d] = FinalizedRow(w, d, next)]
  BY DEF Finalize
<1>5. \A e \in Deliveries :
        /\ delivery'[e] = IF e = d THEN FinalizedRow(w, d, next) ELSE delivery[e]
        /\ attempts'[e] = IF e = d THEN Completed(w, d, i) ELSE attempts[e]
  BY <1>2, <1>4 DEF Finalize, TypeInv, TypeOK
<1>6. /\ Len(attempts'[d]) = n /\ DOMAIN attempts'[d] = DOMAIN attempts[d]
      /\ \A j \in DOMAIN attempts[d] :
            attempts'[d][j] = IF j = i THEN a ELSE attempts[d][j]
  BY <1>2, <1>5, CompletedType
<1>7. /\ a.status = "completed" /\ a.disposition = outcome
      /\ a.lease_token = attempts[d][i].lease_token
  BY <1>3 DEF CompletedAttempt, Attempt
<1>8. /\ delivery'[d].status = TargetStatus(w)
      /\ TargetStatus(w) \in {"delivered", "retry_wait", "dead_lettered"}
      /\ TargetStatus(w) = "delivered" <=> outcome = "succeeded"
      /\ TargetStatus(w) = "retry_wait" => outcome = "retry"
  <2>1. delivery'[d].status = TargetStatus(w)
    BY <1>2, <1>3, <1>5 DEF FinalizedRow, Row
  <2>. QED
    BY <2>1 DEF TargetStatus
<1>. HIDE DEF a
<1>9. Concluded(w, d)
  BY <1>1, <1>2, <1>3, <1>6, <1>7, <1>8 DEF Concluded, ReservedEvidence
<1>. QED
  BY <1>2, <1>5, <1>9, KeptWhenUnchanged DEF Effect, Effects

LEMMA ResolveClaimEffect ==
    ASSUME TableInv, NEW w \in Workers, ResolveClaim(w)
    PROVE  Effects
<1>. DEFINE d == worker[w].delivery
<1>1. worker[w].pc = "locked"
  BY DEF ResolveClaim, ClaimDue, DeadLetterWithoutAttempt
<1>2. TypeInv /\ d \in Deliveries /\ Due(d) /\ attempts[d] \in Seq(Attempt)
  BY <1>1, TableInvSplits, LockedRow DEF CrossOK, ClaimLocks
<1>3. CASE ClaimDue(w)
  <2>1. Settled(d, attempts[d])
    BY <1>2, <1>3, OpenAttempt DEF ClaimDue, Settled
  <2>. QED
    BY <1>1, <1>2, <1>3, <2>1, ReserveEffect DEF ClaimDue
<1>4. CASE DeadLetterWithoutAttempt(w)
  <2>1. Settled(d, attempts[d])
    BY <1>2, <1>4, OpenAttempt DEF DeadLetterWithoutAttempt, Settled
  <2>2. attempts' = [attempts EXCEPT ![d] = attempts[d]]
    BY <1>2, <1>4 DEF DeadLetterWithoutAttempt, TypeInv, TypeOK
  <2>. QED
    BY <1>2, <1>4, <2>1, <2>2, DeadLetterEffect DEF DeadLetterWithoutAttempt
<1>5. ASSUME NEW i \in DOMAIN attempts[d], RedeliverExpired(w, i)
      PROVE  Effects
  <2>1. delivery[d].status = "in_progress" /\ ExpiredEvidence(d, i)
    BY <1>5 DEF RedeliverExpired
  <2>2. Abandoned(d, i) \in Seq(Attempt) /\ Len(Abandoned(d, i)) = Len(attempts[d])
    BY <1>2, AbandonedType
  <2>. QED
    BY <1>1, <1>2, <1>5, <2>1, <2>2, AbandonedOlder, ReserveEffect DEF RedeliverExpired
<1>6. ASSUME NEW i \in DOMAIN attempts[d], DeadLetterExpired(w, i)
      PROVE  Effects
  <2>. DEFINE seq == Abandoned(d, i)
  <2>1. delivery[d].status = "in_progress" /\ ExpiredEvidence(d, i)
    BY <1>6 DEF DeadLetterExpired
  <2>2. Len(seq) = Len(attempts[d]) /\ DOMAIN seq = DOMAIN attempts[d]
    BY <1>2, AbandonedType
  <2>3. /\ delivery' = [delivery EXCEPT ![d] = DeadLetteredRow(d)]
        /\ attempts' = [attempts EXCEPT ![d] = seq]
    BY <1>6 DEF DeadLetterExpired
  <2>4. Settled(d, seq)
    BY <1>2, <2>1, AbandonedOlder
  <2>. HIDE DEF seq
  <2>. QED
    BY <1>2, <2>2, <2>3, <2>4, DeadLetterEffect
<1>. QED
  BY <1>3, <1>4, <1>5, <1>6 DEF ResolveClaim

LEMMA EnqueueEffect ==
    ASSUME TableInv, NEW d \in Deliveries, Enqueue(d)
    PROVE  Effects
<1>1. \A e \in Deliveries :
        /\ delivery'[e] = IF e = d THEN NewRow ELSE delivery[e]
        /\ attempts'[e] = attempts[e]
  BY TableInvSplits DEF Enqueue, TypeInv, TypeOK
<1>2. Accepted(d)
  <2>1. NewRow.status = "pending"
    BY DEF NewRow, AbsentRow
  <2>. QED
    BY <1>1, <2>1 DEF Accepted, Enqueue
<1>. QED
  BY <1>1, <1>2, KeptWhenUnchanged DEF Effect, Effects

LEMMA TickEffect ==
    ASSUME TableInv, Tick
    PROVE  Effects
<1>. SUFFICES ASSUME NEW d \in Deliveries PROVE Kept(d)
  BY DEF Effects
<1>1. delivery[d] \in Row /\ attempts' = attempts
  BY OpenAttempt DEF Tick
<1>2. delivery'[d] = [delivery[d] EXCEPT !.next_attempt_at = Aged(@),
                                         !.lease_expires_at = Aged(@)]
  BY DEF Tick
<1>3. delivery'[d].status = delivery[d].status
  BY <1>1, <1>2 DEF Row
<1>4. ASSUME delivery[d].status \in Terminal PROVE delivery'[d] = delivery[d]
  <2>1. delivery[d].next_attempt_at = None /\ delivery[d].lease_expires_at = None
    BY <1>4, TableInvSplits DEF RowsOK, RowOK, Terminal
  <2>2. Aged(delivery[d].next_attempt_at) = delivery[d].next_attempt_at
    BY <2>1 DEF Aged
  <2>3. Aged(delivery[d].lease_expires_at) = delivery[d].lease_expires_at
    BY <2>1 DEF Aged
  <2>. QED
    BY <1>1, <1>2, <2>2, <2>3 DEF Row
<1>. QED
  BY <1>1, <1>3, <1>4 DEF Kept

\* One step has one of the five effects on one delivery and keeps the others.
LEMMA StepEffects ==
    ASSUME TableInv, [Next]_vars
    PROVE  Effects
<1>1. CASE UNCHANGED <<delivery, attempts>>
  BY <1>1, KeptWhenUnchanged DEF Effects
<1>2. ASSUME NEW w \in Workers, WorkerStep(w)
      PROVE  Effects
  <2>1. \/ ResolveClaim(w)
        \/ \E i \in DOMAIN attempts[worker[w].delivery] : Finalize(w, i)
        \/ UNCHANGED <<delivery, attempts>>
    BY <1>2 DEF WorkerStep, ReadClaimClock, NothingDue, LockDue, Send, SendRaises,
                ReadFinalizeClock, FinishFinalize, FinalizeStale, IterationFails, Crash,
                Restart
  <2>. QED
    BY <1>1, <2>1, ResolveClaimEffect, FinalizeEffect
<1>3. ASSUME NEW e \in Endpoints, SetEnabled(e) PROVE UNCHANGED <<delivery, attempts>>
  BY <1>3 DEF SetEnabled
<1>. QED
  BY <1>1, <1>2, <1>3, EnqueueEffect, TickEffect DEF Next, vars

LEMMA StepEffect ==
    ASSUME TableInv, [Next]_vars, NEW d \in Deliveries
    PROVE  Effect(d)
BY StepEffects DEF Effects, Effect

-----------------------------------------------------------------------------
(* What follows for every step.                                            *)

\* A delivered or dead-lettered row is never written again, whatever late
\* worker, expired lease or clock there is.
THEOREM TerminalCorrect == Spec => TerminalIsFinal
<1>1. TableInv /\ [Next]_vars =>
        \A d \in Deliveries :
          delivery[d].status \in Terminal => delivery'[d] = delivery[d]
  <2>. SUFFICES ASSUME TableInv, [Next]_vars, NEW d \in Deliveries,
                       delivery[d].status \in Terminal
                PROVE  delivery'[d] = delivery[d]
    OBVIOUS
  <2>1. Effect(d)
    BY StepEffect
  <2>. QED
    BY <2>1 DEF Effect, Kept, Accepted, Reserved, GivenUp, Concluded, Due, Terminal
<1>. QED
  BY <1>1, TableInvariant, PTL DEF Spec, TerminalIsFinal

\* delivery_attempts is append-only but for the one open row: resolved
\* evidence is never rewritten.
THEOREM EvidenceKept == Spec => EvidenceIsPermanent
<1>1. TableInv /\ [Next]_vars =>
        \A d \in Deliveries :
          /\ Len(attempts[d]) <= Len(attempts'[d])
          /\ \A i \in DOMAIN attempts[d] :
                attempts[d][i].status # "in_progress" =>
                    attempts'[d][i] = attempts[d][i]
  <2>. SUFFICES ASSUME TableInv, [Next]_vars, NEW d \in Deliveries
                PROVE  /\ Len(attempts[d]) <= Len(attempts'[d])
                       /\ \A i \in DOMAIN attempts[d] :
                             attempts[d][i].status # "in_progress" =>
                                 attempts'[d][i] = attempts[d][i]
    OBVIOUS
  <2>1. Effect(d) /\ Len(attempts[d]) \in Nat
    BY StepEffect, OpenAttempt
  <2>. QED
    BY <2>1 DEF Effect, Kept, Accepted, Reserved, GivenUp, Concluded, Settled
<1>. QED
  BY <1>1, TableInvariant, PTL DEF Spec, EvidenceIsPermanent

\* A claim never takes over a lease that has not run out nor a retry that is
\* not due, although it decides on a clock it read before it had the lock.
THEOREM TimingCorrect == Spec => NothingHappensEarly
<1>1. TableInv /\ [Next]_vars =>
        \A d \in Deliveries :
          /\ Len(attempts'[d]) > Len(attempts[d]) => Due(d)
          /\ \A i \in DOMAIN attempts[d] :
                /\ attempts[d][i].status = "in_progress"
                /\ attempts'[d][i].status = "indeterminate"
                => delivery[d].lease_expires_at <= 0
  <2>. SUFFICES ASSUME TableInv, [Next]_vars, NEW d \in Deliveries
                PROVE  /\ Len(attempts'[d]) > Len(attempts[d]) => Due(d)
                       /\ \A i \in DOMAIN attempts[d] :
                             /\ attempts[d][i].status = "in_progress"
                             /\ attempts'[d][i].status = "indeterminate"
                             => delivery[d].lease_expires_at <= 0
    OBVIOUS
  <2>1. Effect(d) /\ Len(attempts[d]) \in Nat
    BY StepEffect, OpenAttempt
  <2>. QED
    BY <2>1 DEF Effect, Kept, Accepted, Reserved, GivenUp, Concluded, Settled
<1>. QED
  BY <1>1, TableInvariant, PTL DEF Spec, NothingHappensEarly

-----------------------------------------------------------------------------
(* The budget and the meaning of a status.                                 *)

\* However often leases expire and whatever budgets the workers are restarted
\* with, no delivery has more attempts than the largest budget allows.
THEOREM BudgetCorrect == Spec => []WithinBudget
<1>1. Init => WithinBudget
  BY DEF Init, WithinBudget
<1>2. TableInv /\ WithinBudget /\ [Next]_vars => WithinBudget'
  <2>. SUFFICES ASSUME TableInv, WithinBudget, [Next]_vars, NEW d \in Deliveries,
                       attempts'[d] # << >>
                PROVE  \E b \in Budgets : Len(attempts'[d]) <= b
    BY DEF WithinBudget
  <2>1. /\ Effect(d) /\ attempts[d] \in Seq(Attempt)
        /\ attempts[d] # << >> => \E b \in Budgets : Len(attempts[d]) <= b
    BY StepEffect, OpenAttempt DEF WithinBudget
  <2>2. CASE Reserved(d)
    BY <2>2 DEF Reserved
  <2>3. CASE attempts'[d] = attempts[d]
    BY <2>1, <2>3
  <2>4. CASE GivenUp(d) \/ \E w \in Workers : Concluded(w, d)
    <3>1. Len(attempts'[d]) = Len(attempts[d]) /\ DOMAIN attempts'[d] = DOMAIN attempts[d]
      BY <2>4 DEF GivenUp, Concluded
    <3>2. CASE attempts[d] # << >>
      BY <2>1, <3>1, <3>2
    <3>3. CASE attempts[d] = << >>
      <4>1. GivenUp(d)
        BY <2>4, <3>3 DEF Concluded
      <4>2. Len(attempts'[d]) = 0 /\ attempts' \in [Deliveries -> Seq(Attempt)]
        BY <3>1, <3>3, TypeStep, TableInvSplits DEF TypeInv, TypeOK
      <4>. QED
        BY <4>2, EmptySeq
    <3>. QED
      BY <3>2, <3>3
  <2>. QED
    BY <2>1, <2>2, <2>3, <2>4 DEF Effect, Kept, Accepted
<1>. QED
  BY <1>1, <1>2, TableInvariant, PTL DEF Spec

\* The part of StatusExplainedByEvidence that concerns one delivery.
Explained(status, seq) ==
    LET n == Len(seq)
        last == seq[n]
    IN  /\ status \in {"absent", "pending"} => n = 0
        /\ status = "delivered" => n > 0 /\ last.disposition = "succeeded"
        /\ status = "retry_wait" => n > 0 /\ last.disposition = "retry"
        /\ \A i \in 1 .. n :
              seq[i].disposition = "succeeded" => i = n /\ status = "delivered"
        /\ \A i \in 1 .. n - 1 : seq[i].disposition # "terminal_failure"

\* A status is explained by the newest attempt: a delivered row has a
\* committed success as its last attempt and no attempt follows a success or
\* a terminal failure.
THEOREM StatusCorrect == Spec => []StatusExplainedByEvidence
<1>1. Init => StatusExplainedByEvidence
  BY DEF Init, StatusExplainedByEvidence, AbsentRow
<1>2. TableInv /\ StatusExplainedByEvidence /\ [Next]_vars => StatusExplainedByEvidence'
  <2>. SUFFICES ASSUME TableInv, StatusExplainedByEvidence, [Next]_vars,
                       NEW d \in Deliveries
                PROVE  Explained(delivery'[d].status, attempts'[d])
    BY DEF StatusExplainedByEvidence, Explained
  <2>. DEFINE n == Len(attempts[d])
              status == delivery[d].status
  <2>1. Explained(status, attempts[d]) /\ Effect(d)
    BY StepEffect DEF StatusExplainedByEvidence, Explained
  <2>2. /\ n \in Nat /\ DOMAIN attempts[d] = 1 .. n
        /\ \A i \in 1 .. n :
             /\ attempts[d][i].status = "in_progress" <=> status = "in_progress" /\ i = n
             /\ attempts[d][i].disposition # None <=> attempts[d][i].status = "completed"
        /\ None \notin Dispositions
    BY OpenAttempt, NoneAssumption DEF Dispositions
  <2>3. CASE Kept(d) \/ Accepted(d)
    BY <2>1, <2>3 DEF Kept, Accepted, Explained
  <2>4. ASSUME Settled(d, attempts'[d]), Due(d)
        PROVE  \A i \in 1 .. n : /\ attempts'[d][i].disposition # "succeeded"
                                 /\ attempts'[d][i].disposition # "terminal_failure" \/ i = n
    <3>1. status # "delivered"
      BY <2>4 DEF Due
    <3>2. \A i \in 1 .. n : attempts[d][i].disposition # "succeeded"
      BY <2>1, <3>1 DEF Explained
    <3>3. \A i \in 1 .. n - 1 : attempts[d][i].disposition # "terminal_failure"
      BY <2>1 DEF Explained
    <3>. QED
      BY <2>2, <2>4, <3>2, <3>3 DEF Settled, Dispositions
  <2>5. CASE Reserved(d)
    <3>1. \A i \in 1 .. n : attempts'[d][i].disposition # "terminal_failure"
      <4>1. n > 0 => attempts'[d][n].disposition # "terminal_failure"
        <5>1. CASE status \in {"absent", "pending"}
          BY <2>1, <2>2, <5>1 DEF Explained
        <5>2. CASE status = "retry_wait"
          <6>1. n > 0 /\ attempts[d][n].disposition = "retry"
            BY <2>1, <5>2 DEF Explained
          <6>2. n \in 1 .. n
            BY <2>2, <6>1
          <6>. QED
            BY <2>2, <2>5, <6>1, <6>2 DEF Reserved, Settled, Dispositions
        <5>3. CASE status = "in_progress"
          BY <2>2, <2>5, <5>3 DEF Reserved, Settled, Dispositions
        <5>. QED
          BY <2>5, <5>1, <5>2, <5>3 DEF Reserved, Due
      <4>. QED
        BY <2>2, <2>4, <2>5, <4>1 DEF Reserved
    <3>2. \A i \in 1 .. n + 1 : attempts'[d][i].disposition # "succeeded"
      BY <2>2, <2>4, <2>5 DEF Reserved, Dispositions
    <3>3. Len(attempts'[d]) = n + 1 /\ delivery'[d].status = "in_progress"
      BY <2>5 DEF Reserved
    <3>. QED
      BY <2>2, <3>1, <3>2, <3>3 DEF Explained
  <2>6. CASE GivenUp(d)
    <3>1. Len(attempts'[d]) = n /\ delivery'[d].status = "dead_lettered"
      BY <2>6 DEF GivenUp
    <3>2. \A i \in 1 .. n : /\ attempts'[d][i].disposition # "succeeded"
                            /\ attempts'[d][i].disposition # "terminal_failure" \/ i = n
      BY <2>4, <2>6 DEF GivenUp
    <3>. QED
      BY <2>2, <3>1, <3>2 DEF Explained
  <2>7. ASSUME NEW w \in Workers, Concluded(w, d)
        PROVE  Explained(delivery'[d].status, attempts'[d])
    <3>. DEFINE outcome == worker[w].disposition
    <3>1. /\ Len(attempts'[d]) = n /\ n \in 1 .. n
          /\ attempts'[d][n].disposition = outcome
          /\ \A i \in 1 .. n - 1 : attempts'[d][i] = attempts[d][i]
      BY <2>2, <2>7 DEF Concluded
    <3>2. \A i \in 1 .. n - 1 : /\ attempts'[d][i].disposition # "succeeded"
                                /\ attempts'[d][i].disposition # "terminal_failure"
      BY <2>1, <2>2, <2>7, <3>1 DEF Explained, Concluded
    <3>3. /\ delivery'[d].status \in {"delivered", "retry_wait", "dead_lettered"}
          /\ delivery'[d].status = "delivered" <=> outcome = "succeeded"
          /\ delivery'[d].status = "retry_wait" => outcome = "retry"
      BY <2>7 DEF Concluded
    <3>. QED
      BY <2>2, <3>1, <3>2, <3>3 DEF Explained
  <2>. QED
    BY <2>1, <2>3, <2>5, <2>6, <2>7 DEF Effect
<1>. QED
  BY <1>1, <1>2, TableInvariant, PTL DEF Spec

-----------------------------------------------------------------------------
(* The HTTP exchanges and the evidence of them: each request was reserved, *)
(* each token sends one request, and a completed attempt records what its  *)
(* own request returned, whoever else still holds an older result.         *)

WireInv == WireMatches /\ EvidenceIsOwnOutcome /\ RequestsAreReserved

\* Evidence keeps its tokens, and an attempt that a step completes records
\* the disposition of the worker whose token it carries.
LEMMA TokensKept ==
    ASSUME TableInv, [Next]_vars, NEW d \in Deliveries
    PROVE  /\ \A i \in DOMAIN attempts[d] :
                 /\ i \in DOMAIN attempts'[d]
                 /\ attempts'[d][i].lease_token = attempts[d][i].lease_token
           /\ \A i \in DOMAIN attempts'[d] : attempts'[d][i].status = "completed" =>
                 \/ i \in DOMAIN attempts[d] /\ attempts'[d][i] = attempts[d][i]
                 \/ \E w \in Workers :
                       /\ Holding(w) /\ worker[w].pc # "claimed"
                       /\ attempts'[d][i].lease_token = worker[w].token
                       /\ attempts'[d][i].disposition = worker[w].disposition
<1>. DEFINE n == Len(attempts[d])
<1>1. Effect(d) /\ n \in Nat /\ DOMAIN attempts[d] = 1 .. n
  BY StepEffect, OpenAttempt
<1>2. CASE Kept(d) \/ Accepted(d)
  BY <1>2 DEF Kept, Accepted
<1>3. CASE Reserved(d)
  BY <1>1, <1>3 DEF Reserved, Settled
<1>4. CASE GivenUp(d)
  BY <1>1, <1>4 DEF GivenUp, Settled
<1>5. ASSUME NEW w \in Workers, Concluded(w, d)
      PROVE  /\ \A i \in DOMAIN attempts[d] :
                   /\ i \in DOMAIN attempts'[d]
                   /\ attempts'[d][i].lease_token = attempts[d][i].lease_token
             /\ \A i \in DOMAIN attempts'[d] :
                   \/ i \in DOMAIN attempts[d] /\ attempts'[d][i] = attempts[d][i]
                   \/ /\ Holding(w) /\ worker[w].pc # "claimed"
                      /\ attempts'[d][i].lease_token = worker[w].token
                      /\ attempts'[d][i].disposition = worker[w].disposition
  BY <1>1, <1>5 DEF Concluded, Holding
<1>. QED
  BY <1>1, <1>2, <1>3, <1>4, <1>5 DEF Effect

\* Steps that send nothing.
LEMMA NoRequest ==
    ASSUME TableInv, WireInv, [Next]_vars, UNCHANGED wire,
           issued \in Nat, issued' \in Nat, issued <= issued',
           \A x \in wire : x.token \in Nat,
           \A v \in Workers : Holding(v)' =>
             \/ /\ Holding(v) /\ worker'[v].token = worker[v].token
                /\ \/ worker[v].pc = "claimed"
                   \/ /\ worker'[v].pc # "claimed"
                      /\ worker'[v].disposition = worker[v].disposition
             \/ worker'[v].token = issued + 1
    PROVE  WireInv'
<1>1. WireMatches'
  <2>1. \A x \in wire : x.token <= issued /\ x.token # issued + 1
    BY DEF WireInv, WireMatches
  <2>2. ASSUME NEW v \in Workers, NEW x \in wire, Holding(v)', x.token = worker'[v].token
        PROVE  worker'[v].pc # "claimed" /\ x.disposition = worker'[v].disposition
    BY <2>1, <2>2 DEF WireInv, WireMatches
  <2>. QED
    BY <2>1, <2>2 DEF WireMatches
<1>2. EvidenceIsOwnOutcome'
  <2>. SUFFICES ASSUME NEW d \in Deliveries, NEW i \in DOMAIN attempts'[d],
                       attempts'[d][i].status = "completed",
                       NEW x \in wire, x.token = attempts'[d][i].lease_token
                PROVE  x.disposition = attempts'[d][i].disposition
    BY DEF EvidenceIsOwnOutcome
  <2>1. \/ i \in DOMAIN attempts[d] /\ attempts'[d][i] = attempts[d][i]
        \/ \E w \in Workers :
              /\ Holding(w) /\ worker[w].pc # "claimed"
              /\ attempts'[d][i].lease_token = worker[w].token
              /\ attempts'[d][i].disposition = worker[w].disposition
    BY TokensKept
  <2>. QED
    BY <2>1 DEF WireInv, WireMatches, EvidenceIsOwnOutcome
<1>3. RequestsAreReserved'
  <2>1. \A d \in Deliveries : \A i \in DOMAIN attempts[d] :
          /\ i \in DOMAIN attempts'[d]
          /\ attempts'[d][i].lease_token = attempts[d][i].lease_token
    BY TokensKept
  <2>. QED
    BY <2>1 DEF WireInv, RequestsAreReserved
<1>. QED
  BY <1>1, <1>2, <1>3 DEF WireInv

\* Steps that send the request reserved under w's token.
LEMMA OneRequest ==
    ASSUME TableInv, WireInv, NEW w \in Workers, worker[w].pc = "claimed",
           NEW outcome, wire' = wire \cup {[token |-> worker[w].token, disposition |-> outcome]},
           UNCHANGED <<delivery, attempts, issued>>,
           \A v \in Workers : Holding(v)' =>
             /\ Holding(v) /\ worker'[v].token = worker[v].token
             /\ IF v = w
                THEN worker'[v].pc # "claimed" /\ worker'[v].disposition = outcome
                ELSE worker'[v] = worker[v]
    PROVE  WireInv'
<1>. DEFINE x == [token |-> worker[w].token, disposition |-> outcome]
            d == worker[w].delivery
            n == worker[w].number
<1>1. /\ d \in Deliveries /\ n \in DOMAIN attempts[d]
      /\ attempts[d][n].lease_token = worker[w].token
      /\ attempts[d][n].status # "completed"
      /\ \A v \in Workers : Holding(v) /\ worker[v].token = worker[w].token => v = w
      /\ TokensAreUnique
  BY OtherSnapshot, TableInvSplits DEF Holding, SnapshotMatches, CrossOK
<1>2. \A y \in wire : y.token # worker[w].token
  BY DEF WireInv, WireMatches, Holding
<1>3. x.token = worker[w].token /\ x.disposition = outcome
  OBVIOUS
<1>4. wire' = wire \cup {x}
  OBVIOUS
<1>. HIDE DEF x
<1>5. WireMatches'
  <2>1. \A y \in wire' : y.token <= issued'
    BY <1>1, <1>3, <1>4 DEF WireInv, WireMatches, TokensAreUnique
  <2>2. ASSUME NEW v \in Workers, NEW y \in wire', Holding(v)', y.token = worker'[v].token
        PROVE  worker'[v].pc # "claimed" /\ y.disposition = worker'[v].disposition
    <3>1. CASE v = w
      BY <1>2, <1>3, <1>4, <2>2, <3>1
    <3>2. CASE v # w
      BY <1>1, <1>3, <1>4, <2>2, <3>2 DEF WireInv, WireMatches
    <3>. QED
      BY <3>1, <3>2
  <2>. QED
    BY <2>1, <2>2 DEF WireMatches
<1>6. EvidenceIsOwnOutcome'
  <2>. SUFFICES ASSUME NEW e \in Deliveries, NEW i \in DOMAIN attempts[e],
                       attempts[e][i].status = "completed",
                       NEW y \in wire', y.token = attempts[e][i].lease_token
                PROVE  y.disposition = attempts[e][i].disposition
    BY DEF EvidenceIsOwnOutcome
  <2>1. attempts[e][i].lease_token # worker[w].token
    BY <1>1 DEF TokensAreUnique
  <2>. QED
    BY <1>3, <1>4, <2>1 DEF WireInv, EvidenceIsOwnOutcome
<1>7. RequestsAreReserved'
  <2>1. ASSUME NEW y \in wire'
        PROVE  \E e \in Deliveries : \E i \in DOMAIN attempts'[e] :
                 attempts'[e][i].lease_token = y.token
    BY <1>1, <1>3, <1>4, <2>1 DEF WireInv, RequestsAreReserved
  <2>2. ASSUME NEW y \in wire', NEW z \in wire', z.token = y.token
        PROVE  z = y
    BY <1>2, <1>3, <1>4, <2>2 DEF WireInv, RequestsAreReserved
  <2>. QED
    BY <2>1, <2>2 DEF RequestsAreReserved
<1>. QED
  BY <1>5, <1>6, <1>7 DEF WireInv

-----------------------------------------------------------------------------
(* The exchanges' invariant is inductive, given the tables'.               *)

LEMMA WireInit == Init => WireInv
BY DEF Init, WireInv, WireMatches, EvidenceIsOwnOutcome, RequestsAreReserved

\* What a step that sends nothing does to the snapshots the workers hold.
SnapshotsKept ==
    \A v \in Workers : Holding(v)' =>
        \/ /\ Holding(v) /\ worker'[v].token = worker[v].token
           /\ \/ worker[v].pc = "claimed"
              \/ /\ worker'[v].pc # "claimed"
                 /\ worker'[v].disposition = worker[v].disposition
        \/ worker'[v].token = issued + 1

\* An iteration that ends drops its snapshot.
LEMMA SnapshotDropped ==
    ASSUME TypeInv, NEW w \in Workers, NEW p,
           worker' = [worker EXCEPT ![w] = p],
           p.pc \notin {"claimed", "sent", "finalizing"}
    PROVE  SnapshotsKept
BY DEF SnapshotsKept, Holding, TypeInv, TypeOK

LEMMA ReserveSnapshots ==
    ASSUME TypeInv, NEW w \in Workers, NEW d, NEW evidence, Reserve(w, d, evidence)
    PROVE  SnapshotsKept /\ issued' = issued + 1 /\ wire' = wire
<1>1. /\ \A v \in Workers \ {w} : worker'[v] = worker[v]
      /\ worker'[w].token = issued + 1
  BY DEF Reserve, TypeInv, TypeOK, Process
<1>2. SnapshotsKept
  BY <1>1 DEF SnapshotsKept, Holding
<1>. QED
  BY <1>2 DEF Reserve

LEMMA WireStep == TableInv /\ WireInv /\ [Next]_vars => WireInv'
<1>. SUFFICES ASSUME TableInv, WireInv, [Next]_vars PROVE WireInv'
  OBVIOUS
<1>1. /\ TypeInv /\ TypeInv' /\ issued \in Nat /\ issued' \in Nat
      /\ \A x \in wire : x.token \in Nat
      /\ \A w \in Workers : worker[w] \in Process
  BY TableInvSplits, TypeStep DEF TypeInv, TypeOK, Tokens
<1>2. ASSUME UNCHANGED wire, issued <= issued', SnapshotsKept PROVE WireInv'
  BY <1>1, <1>2, NoRequest DEF SnapshotsKept
<1>3. issued <= issued /\ issued <= issued + 1
  BY <1>1
<1>4. CASE UNCHANGED <<worker, issued, wire>>
  <2>1. SnapshotsKept
    BY <1>4 DEF SnapshotsKept, Holding
  <2>. QED
    BY <1>2, <1>3, <1>4, <2>1
<1>5. CASE Tick
  <2>1. \A v \in Workers : /\ worker'[v].pc = worker[v].pc
                           /\ worker'[v].token = worker[v].token
                           /\ worker'[v].disposition = worker[v].disposition
    BY <1>1, <1>5 DEF Tick, Process
  <2>2. SnapshotsKept
    BY <2>1 DEF SnapshotsKept, Holding
  <2>. QED
    BY <1>2, <1>3, <1>5, <2>2 DEF Tick
<1>6. ASSUME NEW w \in Workers, ReadClaimClock(w) PROVE WireInv'
  <2>. DEFINE p == [worker[w] EXCEPT !.pc = "claiming", !.now = 0]
  <2>1. worker' = [worker EXCEPT ![w] = p] /\ p.pc = "claiming"
    BY <1>1, <1>6 DEF ReadClaimClock, Process
  <2>. HIDE DEF p
  <2>. QED
    BY <1>1, <1>2, <1>3, <1>6, <2>1, SnapshotDropped DEF ReadClaimClock
<1>7. ASSUME NEW w \in Workers, NEW d \in Deliveries, LockDue(w, d) PROVE WireInv'
  <2>. DEFINE p == [worker[w] EXCEPT !.pc = "locked", !.delivery = d]
  <2>1. worker' = [worker EXCEPT ![w] = p] /\ p.pc = "locked"
    BY <1>1, <1>7 DEF LockDue, Process
  <2>. HIDE DEF p
  <2>. QED
    BY <1>1, <1>2, <1>3, <1>7, <2>1, SnapshotDropped DEF LockDue
<1>8. ASSUME NEW w \in Workers, NEW b, worker' = [worker EXCEPT ![w] = Idle(b)],
             UNCHANGED <<issued, wire>>
      PROVE  WireInv'
  <2>1. Idle(b).pc = "idle"
    BY DEF Idle
  <2>. QED
    BY <1>1, <1>2, <1>3, <1>8, <2>1, SnapshotDropped
<1>9. ASSUME NEW w \in Workers, Crash(w) PROVE WireInv'
  <2>. DEFINE p == [Idle(worker[w].budget) EXCEPT !.pc = "down"]
  <2>1. worker' = [worker EXCEPT ![w] = p] /\ p.pc = "down"
    BY <1>9 DEF Crash, Idle
  <2>. HIDE DEF p
  <2>. QED
    BY <1>1, <1>2, <1>3, <1>9, <2>1, SnapshotDropped DEF Crash
<1>10. ASSUME NEW w \in Workers, NEW d, NEW evidence, Reserve(w, d, evidence)
       PROVE  WireInv'
  BY <1>1, <1>2, <1>3, <1>10, ReserveSnapshots
<1>11. ASSUME NEW w \in Workers, ReadFinalizeClock(w) PROVE WireInv'
  <2>1. \A v \in Workers : /\ worker'[v].token = worker[v].token
                           /\ worker'[v].disposition = worker[v].disposition
                           /\ v # w => worker'[v] = worker[v]
    BY <1>1, <1>11 DEF ReadFinalizeClock, TypeInv, TypeOK, Process
  <2>2. worker[w].pc = "sent" /\ worker'[w].pc = "finalizing"
    BY <1>1, <1>11 DEF ReadFinalizeClock, TypeInv, TypeOK, Process
  <2>3. SnapshotsKept
    BY <2>1, <2>2 DEF SnapshotsKept, Holding
  <2>. QED
    BY <1>2, <1>3, <1>11, <2>3 DEF ReadFinalizeClock
<1>12. ASSUME NEW w \in Workers, Send(w) PROVE WireInv'
  <2>1. PICK result \in SendResults :
          /\ worker' = [worker EXCEPT ![w].pc = "sent",
                                      ![w].disposition = result.disposition,
                                      ![w].retry_after = result.retry_after]
          /\ wire' = wire \cup {[token |-> worker[w].token,
                                 disposition |-> result.disposition]}
    BY <1>12 DEF Send
  <2>2. /\ worker'[w].pc = "sent" /\ worker'[w].token = worker[w].token
        /\ worker'[w].disposition = result.disposition
        /\ \A v \in Workers : v # w => worker'[v] = worker[v]
    BY <1>1, <2>1 DEF TypeInv, TypeOK, Process
  <2>3. worker[w].pc = "claimed" /\ Holding(w) /\ UNCHANGED <<delivery, attempts, issued>>
    BY <1>12 DEF Send, Holding
  <2>4. \A v \in Workers : Holding(v)' =>
          /\ Holding(v) /\ worker'[v].token = worker[v].token
          /\ IF v = w
             THEN worker'[v].pc # "claimed" /\ worker'[v].disposition = result.disposition
             ELSE worker'[v] = worker[v]
    BY <2>2, <2>3 DEF Holding
  <2>. QED
    BY <2>1, <2>3, <2>4, OneRequest
<1>13. ASSUME NEW w \in Workers, SendRaises(w) PROVE WireInv'
  <2>1. /\ worker'[w].pc = "idle"
        /\ \A v \in Workers : v # w => worker'[v] = worker[v]
    BY <1>1, <1>13 DEF SendRaises, TypeInv, TypeOK, Idle
  <2>2. \A v \in Workers : Holding(v)' =>
          /\ Holding(v) /\ worker'[v].token = worker[v].token
          /\ IF v = w
             THEN worker'[v].pc # "claimed" /\ worker'[v].disposition = None
             ELSE worker'[v] = worker[v]
    BY <2>1 DEF Holding
  <2>. QED
    BY <1>13, <2>2, OneRequest DEF SendRaises
<1>14. ASSUME NEW w \in Workers, ResolveClaim(w) PROVE WireInv'
  BY <1>8, <1>10, <1>14
  DEF ResolveClaim, ClaimDue, DeadLetterWithoutAttempt, RedeliverExpired, DeadLetterExpired
<1>15. ASSUME NEW w \in Workers,
              \/ NothingDue(w) \/ FinishFinalize(w) \/ IterationFails(w) \/ Restart(w)
       PROVE  WireInv'
  BY <1>8, <1>15
  DEF NothingDue, FinishFinalize, FinalizeStale, Finalize, IterationFails, Restart
<1>16. ASSUME NEW w \in Workers, WorkerStep(w) PROVE WireInv'
  BY <1>6, <1>7, <1>9, <1>11, <1>12, <1>13, <1>14, <1>15, <1>16 DEF WorkerStep
<1>17. ASSUME NEW d \in Deliveries, Enqueue(d) PROVE UNCHANGED <<worker, issued, wire>>
  BY <1>17 DEF Enqueue
<1>18. ASSUME NEW e \in Endpoints, SetEnabled(e) PROVE UNCHANGED <<worker, issued, wire>>
  BY <1>18 DEF SetEnabled
<1>. QED
  BY <1>4, <1>5, <1>16, <1>17, <1>18 DEF Next, vars

LEMMA WireInvariant == Spec => []WireInv
BY WireInit, WireStep, TableInvariant, PTL DEF Spec

\* A completed attempt holds the outcome of the request sent under its own
\* token: the lease fence of finalize never lets a late result of an older
\* request into the evidence of a newer one.
THEOREM OutcomeCorrect == Spec => []EvidenceIsOwnOutcome
<1>1. WireInv => EvidenceIsOwnOutcome
  BY DEF WireInv
<1>. QED
  BY <1>1, WireInvariant, PTL

\* Nothing is sent that was not reserved in a committed transaction, and a
\* reservation sends at most one request.
THEOREM RequestsCorrect == Spec => []RequestsAreReserved
<1>1. WireInv => RequestsAreReserved
  BY DEF WireInv
<1>. QED
  BY <1>1, WireInvariant, PTL

-----------------------------------------------------------------------------
(* The workers implement the lifecycle: each of the five effects a step    *)
(* can have on a delivery is one action of DeliveryLifecycle, or leaves it *)
(* alone.                                                                  *)

LEMMA LargestBudgetBounds ==
    /\ LargestBudget \in Budgets
    /\ \A b \in Budgets : b <= LargestBudget
BY BudgetAssumption DEF LargestBudget

\* The evidence of one delivery, as the lifecycle sees it.
Seen(seq) == [i \in DOMAIN seq |-> OutcomeOf(seq[i])]

LEMMA MappedState ==
    ASSUME NEW d \in Deliveries
    PROVE  /\ statusBar[d] = delivery[d].status /\ evidenceBar[d] = Seen(attempts[d])
           /\ statusBar'[d] = delivery'[d].status /\ evidenceBar'[d] = Seen(attempts'[d])
BY DEF statusBar, evidenceBar, Seen

\* An attempt row reads "open" exactly while it is in progress.
LEMMA OutcomeReads ==
    ASSUME NEW a, a.status \in AttemptStatuses, a.disposition \in Dispositions \cup {None},
           a.disposition # None <=> a.status = "completed"
    PROVE  /\ OutcomeOf(a) = "open" <=> a.status = "in_progress"
           /\ a.status = "completed" => OutcomeOf(a) = a.disposition
           /\ a.status = "indeterminate" => OutcomeOf(a) = "unknown"
BY DEF OutcomeOf, AttemptStatuses, Dispositions

LEMMA SeenLength ==
    ASSUME NEW S, NEW seq \in Seq(S)
    PROVE  /\ DOMAIN Seen(seq) = 1 .. Len(seq) /\ Len(Seen(seq)) = Len(seq)
           /\ Seen(seq) \in Seq({OutcomeOf(seq[i]) : i \in DOMAIN seq})
BY DEF Seen

\* The lifecycle's variables when one delivery moves.
LEMMA MappedStep ==
    ASSUME NEW d \in Deliveries, \A e \in Deliveries \ {d} : Kept(e)
    PROVE  /\ statusBar' = [statusBar EXCEPT ![d] = delivery'[d].status]
           /\ evidenceBar' = [evidenceBar EXCEPT ![d] = Seen(attempts'[d])]
<1>1. \A e \in Deliveries \ {d} :
        delivery'[e].status = delivery[e].status /\ attempts'[e] = attempts[e]
  BY DEF Kept
<1>2. /\ statusBar = [e \in Deliveries |-> delivery[e].status]
      /\ statusBar' = [e \in Deliveries |-> delivery'[e].status]
  BY DEF statusBar
<1>3. /\ evidenceBar = [e \in Deliveries |-> Seen(attempts[e])]
      /\ evidenceBar' = [e \in Deliveries |-> Seen(attempts'[e])]
  BY DEF evidenceBar, Seen
<1>. QED
  BY <1>1, <1>2, <1>3

LEMMA KeptMapped ==
    ASSUME \A e \in Deliveries : Kept(e)
    PROVE  UNCHANGED <<statusBar, evidenceBar>>
BY DEF Kept, statusBar, evidenceBar

\* The lifecycle's Closed reads the open attempt with its new outcome.
LEMMA ClosedReads ==
    ASSUME TableInv, NEW d \in Deliveries, NEW outcome
    PROVE  Lifecycle!Closed(d, outcome) =
             [i \in 1 .. Len(attempts[d]) |->
                IF attempts[d][i].status = "in_progress"
                THEN outcome ELSE OutcomeOf(attempts[d][i])]
<1>1. DOMAIN attempts[d] = 1 .. Len(attempts[d])
  BY OpenAttempt
<1>2. \A i \in DOMAIN attempts[d] :
        OutcomeOf(attempts[d][i]) = "open" <=> attempts[d][i].status = "in_progress"
  BY OpenAttempt, OutcomeReads DEF Attempt
<1>3. evidenceBar[d] = [i \in DOMAIN attempts[d] |-> OutcomeOf(attempts[d][i])]
  BY DEF evidenceBar
<1>. QED
  BY <1>1, <1>2, <1>3 DEF Lifecycle!Closed

\* A settled attempt reads what Closed makes of it.
LEMMA SettledReads ==
    ASSUME TableInv, NEW d \in Deliveries, NEW seq, Settled(d, seq)
    PROVE  [i \in 1 .. Len(attempts[d]) |-> OutcomeOf(seq[i])] =
             Lifecycle!Closed(d, "unknown")
<1>1. \A i \in 1 .. Len(attempts[d]) :
        OutcomeOf(seq[i]) = IF attempts[d][i].status = "in_progress"
                            THEN "unknown" ELSE OutcomeOf(attempts[d][i])
  BY OpenAttempt DEF Settled, OutcomeOf
<1>. QED
  BY <1>1, ClosedReads

-----------------------------------------------------------------------------
(* Each effect is an action of the lifecycle.                              *)

LEMMA AcceptedMapped ==
    ASSUME NEW d \in Deliveries, \A e \in Deliveries \ {d} : Kept(e), Accepted(d)
    PROVE  Lifecycle!Accept(d)
<1>1. evidenceBar' = evidenceBar
  BY DEF evidenceBar, Accepted, Kept
<1>. QED
  BY <1>1, MappedState, MappedStep DEF Accepted, Lifecycle!Accept

LEMMA ReservedMapped ==
    ASSUME TableInv, NEW d \in Deliveries, \A e \in Deliveries \ {d} : Kept(e), Reserved(d)
    PROVE  Lifecycle!Reserve(d)
<1>. DEFINE n == Len(attempts[d])
            closed == Lifecycle!Closed(d, "unknown")
            S == {closed[i] : i \in 1 .. n} \cup {"open"}
<1>1. /\ n \in Nat /\ attempts[d] \in Seq(Attempt)
      /\ Settled(d, attempts'[d]) /\ DOMAIN attempts'[d] = 1 .. n + 1
      /\ attempts'[d][n + 1].status = "in_progress"
  BY OpenAttempt DEF Reserved
<1>2. closed = [i \in 1 .. n |-> OutcomeOf(attempts'[d][i])]
  BY <1>1, SettledReads
<1>3. closed \in Seq(S) /\ Len(closed) = n
  <2>1. closed \in [1 .. n -> S]
    BY <1>2
  <2>. HIDE DEF closed, S
  <2>. QED
    BY <1>1, <2>1
<1>4. Seen(attempts'[d]) = Append(closed, "open")
  <2>1. Seen(attempts'[d]) = [i \in 1 .. n + 1 |-> OutcomeOf(attempts'[d][i])]
    BY <1>1 DEF Seen
  <2>2. OutcomeOf(attempts'[d][n + 1]) = "open"
    BY <1>1 DEF OutcomeOf
  <2>3. \A i \in 1 .. n : closed[i] = OutcomeOf(attempts'[d][i])
    BY <1>2
  <2>4. "open" \in S
    OBVIOUS
  <2>. HIDE DEF closed, S, n
  <2>5. /\ Append(closed, "open") \in Seq(S)
        /\ Len(Append(closed, "open")) = n + 1
        /\ \A i \in 1 .. n : Append(closed, "open")[i] = closed[i]
        /\ Append(closed, "open")[n + 1] = "open"
    BY <1>1, <1>3, <2>4, AppendProperties
  <2>6. Append(closed, "open") = [i \in 1 .. n + 1 |-> Append(closed, "open")[i]]
    <3>. DEFINE whole == Append(closed, "open")
    <3>1. whole \in Seq(S) /\ Len(whole) = n + 1
      BY <2>5
    <3>. HIDE DEF whole
    <3>2. whole = [i \in 1 .. n + 1 |-> whole[i]]
      BY <3>1
    <3>. QED
      BY <3>2 DEF whole
  <2>7. \A i \in 1 .. n + 1 : Append(closed, "open")[i] = OutcomeOf(attempts'[d][i])
    BY <1>1, <2>2, <2>3, <2>5
  <2>. QED
    BY <2>1, <2>6, <2>7
<1>5. Len(evidenceBar[d]) < LargestBudget
  <2>1. PICK b \in Budgets : n + 1 <= b
    BY DEF Reserved
  <2>2. b <= LargestBudget /\ b \in Nat /\ LargestBudget \in Nat
    BY LargestBudgetBounds, WorkerAssumption
  <2>3. Len(evidenceBar[d]) = n
    BY <1>1, MappedState, SeenLength
  <2>. HIDE DEF n
  <2>. QED
    BY <1>1, <2>1, <2>2, <2>3
<1>6. statusBar[d] \in Lifecycle!ActiveStatuses
  BY MappedState DEF Reserved, Due, Lifecycle!ActiveStatuses
<1>. HIDE DEF closed, S
<1>7. /\ statusBar' = [statusBar EXCEPT ![d] = "in_progress"]
      /\ evidenceBar' = [evidenceBar EXCEPT ![d] = Append(closed, "open")]
  BY <1>4, MappedStep DEF Reserved
<1>. QED
  BY <1>5, <1>6, <1>7 DEF Lifecycle!Reserve, closed

LEMMA GivenUpMapped ==
    ASSUME TableInv, NEW d \in Deliveries, \A e \in Deliveries \ {d} : Kept(e), GivenUp(d)
    PROVE  Lifecycle!GiveUp(d)
<1>1. Seen(attempts'[d]) = Lifecycle!Closed(d, "unknown")
  BY OpenAttempt, SettledReads DEF GivenUp, Seen
<1>2. statusBar[d] \in Lifecycle!ActiveStatuses
  BY MappedState DEF GivenUp, Due, Lifecycle!ActiveStatuses
<1>3. statusBar' = [statusBar EXCEPT ![d] = "dead_lettered"]
  BY MappedStep DEF GivenUp
<1>. QED
  BY <1>1, <1>2, <1>3, MappedStep DEF Lifecycle!GiveUp

LEMMA ConcludedMapped ==
    ASSUME TableInv, NEW d \in Deliveries, \A e \in Deliveries \ {d} : Kept(e),
           NEW w \in Workers, Concluded(w, d)
    PROVE  Lifecycle!Conclude(d, worker[w].disposition, delivery'[d].status)
<1>. DEFINE n == Len(attempts[d])
            outcome == worker[w].disposition
<1>1. /\ delivery[d].status = "in_progress" /\ n \in Nat
      /\ DOMAIN attempts'[d] = 1 .. n /\ DOMAIN attempts[d] = 1 .. n
      /\ \A i \in 1 .. n : i # n => attempts'[d][i] = attempts[d][i]
      /\ \A i \in 1 .. n : attempts[d][i].status = "in_progress" <=> i = n
      /\ attempts'[d][n].status = "completed" /\ attempts'[d][n].disposition = outcome
  BY OpenAttempt DEF Concluded
<1>2. OutcomeOf(attempts'[d][n]) = outcome
  BY <1>1 DEF OutcomeOf
<1>3. Seen(attempts'[d]) = Lifecycle!Closed(d, outcome)
  BY <1>1, <1>2, ClosedReads DEF Seen
<1>4. /\ delivery'[d].status \in Lifecycle!ALLOWED_TRANSITIONS["in_progress"]
      /\ (delivery'[d].status = "delivered") = (outcome = "succeeded")
      /\ delivery'[d].status = "retry_wait" => outcome = "retry"
  BY DEF Concluded, Lifecycle!ALLOWED_TRANSITIONS
<1>. QED
  BY <1>1, <1>3, <1>4, MappedState, MappedStep DEF Lifecycle!Conclude

\* Every step of the workers, their crashes, the clock and the operator is a
\* step of the lifecycle or leaves it alone, so a delivery's status and the
\* evidence that justifies it are committed together and in lifecycle order.
THEOREM RefinementCorrect == Spec => ImplementsLifecycle
<1>1. Init => Lifecycle!Init
  BY DEF Init, Lifecycle!Init, statusBar, evidenceBar, AbsentRow
<1>2. TableInv /\ [Next]_vars => [Lifecycle!Next]_(Lifecycle!vars)
  <2>. SUFFICES ASSUME TableInv, [Next]_vars
                PROVE  [Lifecycle!Next]_(Lifecycle!vars)
    OBVIOUS
  <2>1. Effects
    BY StepEffects
  <2>2. CASE \A e \in Deliveries : Kept(e)
    BY <2>2, KeptMapped DEF Lifecycle!vars
  <2>3. ASSUME NEW d \in Deliveries, Effect(d), \A e \in Deliveries \ {d} : Kept(e)
        PROVE  [Lifecycle!Next]_(Lifecycle!vars)
    <3>1. CASE Kept(d)
      BY <2>2, <2>3, <3>1
    <3>2. CASE Accepted(d)
      BY <2>3, <3>2, AcceptedMapped DEF Lifecycle!Next
    <3>3. CASE Reserved(d)
      BY <2>3, <3>3, ReservedMapped DEF Lifecycle!Next
    <3>4. CASE GivenUp(d)
      BY <2>3, <3>4, GivenUpMapped DEF Lifecycle!Next
    <3>5. ASSUME NEW w \in Workers, Concluded(w, d)
          PROVE  Lifecycle!Next
      <4>1. /\ Lifecycle!Conclude(d, worker[w].disposition, delivery'[d].status)
            /\ worker[w].disposition \in Lifecycle!Outcomes
            /\ delivery'[d].status \in Lifecycle!DeliveryStatuses
        BY <2>3, <3>5, ConcludedMapped
        DEF Concluded, Lifecycle!Outcomes, Dispositions, Lifecycle!DeliveryStatuses
      <4>. QED
        BY <4>1 DEF Lifecycle!Next
    <3>. QED
      BY <2>3, <3>1, <3>2, <3>3, <3>4, <3>5 DEF Effect
  <2>. QED
    BY <2>1, <2>2, <2>3 DEF Effects
<1>. QED
  BY <1>1, <1>2, TableInvariant, PTL DEF Spec, ImplementsLifecycle, Lifecycle!Spec
=============================================================================
