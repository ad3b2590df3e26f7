------------------------- MODULE DeliveryLifecycle -------------------------
(***************************************************************************)
(* What docs/reliability-contract.md and deliveries/state_machine.py       *)
(* promise of a delivery, without workers, leases, tokens or time: a       *)
(* delivery moves along the lifecycle, and each move writes the evidence   *)
(* that justifies it.  DeliveryWorker is shown to implement this.          *)
(***************************************************************************)
EXTENDS Integers, Sequences, DeliveryStates

CONSTANTS
    Deliveries,
    MaxAttempts      \* no delivery has more attempts than this

VARIABLES
    status,      \* status[d]
    evidence     \* evidence[d]: the outcomes of d's attempts, oldest first;
                 \* "open" while one is in progress, "unknown" if it expired

vars == <<status, evidence>>

Outcomes == {"succeeded", "retry", "terminal_failure"}

Init ==
    /\ status = [d \in Deliveries |-> "absent"]
    /\ evidence = [d \in Deliveries |-> << >>]

Accept(d) ==
    /\ status[d] = "absent"
    /\ status' = [status EXCEPT ![d] = "pending"]
    /\ UNCHANGED evidence

\* The attempts of d once an open one is closed with `outcome`.
Closed(d, outcome) ==
    [i \in DOMAIN evidence[d] |->
        IF evidence[d][i] = "open" THEN outcome ELSE evidence[d][i]]

\* Reserve the next attempt; one that was still open ends unknown.
Reserve(d) ==
    /\ status[d] \in ActiveStatuses
    /\ Len(evidence[d]) < MaxAttempts
    /\ status' = [status EXCEPT ![d] = "in_progress"]
    /\ evidence' = [evidence EXCEPT ![d] = Append(Closed(d, "unknown"), "open")]

\* Record the outcome of the open attempt together with its consequence.
Conclude(d, outcome, next) ==
    /\ status[d] = "in_progress"
    /\ next \in ALLOWED_TRANSITIONS["in_progress"]
    /\ (next = "delivered") = (outcome = "succeeded")
    /\ next = "retry_wait" => outcome = "retry"
    /\ status' = [status EXCEPT ![d] = next]
    /\ evidence' = [evidence EXCEPT ![d] = Closed(d, outcome)]

\* Stop without another attempt; one that was still open ends unknown.
GiveUp(d) ==
    /\ status[d] \in ActiveStatuses
    /\ status' = [status EXCEPT ![d] = "dead_lettered"]
    /\ evidence' = [evidence EXCEPT ![d] = Closed(d, "unknown")]

Next ==
    \E d \in Deliveries :
        \/ Accept(d)
        \/ Reserve(d)
        \/ \E outcome \in Outcomes, next \in DeliveryStatuses :
              Conclude(d, outcome, next)
        \/ GiveUp(d)

Spec == Init /\ [][Next]_vars
=============================================================================
