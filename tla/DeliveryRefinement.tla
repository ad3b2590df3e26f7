------------------------- MODULE DeliveryRefinement -------------------------
(***************************************************************************)
(* The refinement mapping from the worker's tables to the lifecycle:       *)
(* leases, tokens, workers and time are forgotten, an attempt row becomes  *)
(* the outcome it records.                                                 *)
(***************************************************************************)
EXTENDS DeliveryWorker

\* Some budget is the largest: Settings caps worker_max_attempts at 100.
ASSUME BudgetAssumption ==
    \E b \in Budgets : \A other \in Budgets : other <= b

\* The largest budget any deployment configures.
LargestBudget ==
    CHOOSE b \in Budgets : \A other \in Budgets : other <= b

OutcomeOf(attempt) ==
    CASE attempt.status = "in_progress"   -> "open"
      [] attempt.status = "indeterminate" -> "unknown"
      [] OTHER                            -> attempt.disposition

statusBar == [d \in Deliveries |-> delivery[d].status]

evidenceBar ==
    [d \in Deliveries |->
        [i \in DOMAIN attempts[d] |-> OutcomeOf(attempts[d][i])]]

Lifecycle ==
    INSTANCE DeliveryLifecycle
    WITH MaxAttempts <- LargestBudget, status <- statusBar,
         evidence <- evidenceBar

\* Every step of the workers is a step of the lifecycle or leaves it alone:
\* in particular a status change and its evidence commit together.
ImplementsLifecycle == Lifecycle!Spec
=============================================================================
