-------------------------- MODULE MCDeliveryWorker --------------------------
(* Instances of DeliveryWorker for TLC. *)
EXTENDS DeliveryRefinement, TLC

CONSTANTS w1, w2, d1, d2, e1

OneEndpoint == [d \in Deliveries |-> e1]

\* A success, a redirect, a retryable answer and a status
\* line that classify_status_code refuses.
AnyStatusCode == {200, 302, 503, 600}
FewStatusCodes == {204, 503}

AnyHeader ==
    {[kind |-> "absent", seconds |-> 0], [kind |-> "date", seconds |-> 5],
     [kind |-> "date", seconds |-> -3]}
NoHeader == {[kind |-> "absent", seconds |-> 0]}

WorkerSymmetry == Permutations(Workers)

LiveSpec == Spec /\ Fairness({w1})
=============================================================================
