--------------------------- MODULE DeliveryStates ---------------------------
(***************************************************************************)
(* The delivery lifecycle of deliveries/state_machine.py: the statuses of  *)
(* a delivery row, the statuses of an attempt row, and the table of legal  *)
(* transitions that the worker consults before it changes a status.        *)
(***************************************************************************)

DeliveryStatuses ==
    {"pending", "in_progress", "retry_wait", "delivered", "dead_lettered"}

AttemptStatuses == {"in_progress", "completed", "indeterminate"}

ALLOWED_TRANSITIONS ==
    [pending       |-> {"in_progress", "dead_lettered"},
     in_progress   |-> {"delivered", "retry_wait", "dead_lettered"},
     retry_wait    |-> {"in_progress", "dead_lettered"},
     delivered     |-> {},
     dead_lettered |-> {}]

\* ensure_transition returns when this holds and raises otherwise.
EnsureTransition(current, target) == target \in ALLOWED_TRANSITIONS[current]

\* The statuses the partial unique index and the retention query call active.
ActiveStatuses == {"pending", "in_progress", "retry_wait"}

Terminal == {"delivered", "dead_lettered"}
=============================================================================
