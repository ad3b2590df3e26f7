--------------------------- MODULE MCReceiverLab ---------------------------
(* Instances of ReceiverLab for TLC. *)
EXTENDS ReceiverLab, TLC

CONSTANTS x1, x2, x3

Good == [f \in Fields |-> "good"]

Body(shape, type, fields) == [shape |-> shape, type |-> type, fields |-> fields]

\* One acceptable body and one that lacks a field.
TwoBodies ==
    {Body("object", "order_paid", Good),
     Body("object", "order_paid", [Good EXCEPT !["order_id"] = "absent"])}

\* Every body with at most one fault.
OneFault ==
    {Body(shape, type, Good) : shape \in {"not_json", "not_object", "data_not_object"},
                               type \in DOMAIN Contracts} \cup
    {Body("object", type, [Good EXCEPT ![f] = fault]) :
        type \in DOMAIN Contracts \cup {"unknown"}, f \in Fields,
        fault \in {"absent", "bad"}}

FailTwice == [mode |-> "fail_then_succeed", failures |-> 2]
RateLimitOnce == [mode |-> "rate_limited", failures |-> 1]
Rejecting == [mode |-> "permanent_failure", failures |-> 0]

Unscripted == [mode |-> "success", failures |-> 1]

Scripts == {FailTwice, RateLimitOnce, Unscripted}
AllKinds == {FailTwice, RateLimitOnce, Rejecting}

GenericRoute == {"none"}
Routes == {"none", "orders", "shipping", "inventory"}

RunSymmetry == Permutations(Runs)
=============================================================================
