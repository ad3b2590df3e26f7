--------------------------- MODULE DeliveryChains ---------------------------
(***************************************************************************)
(* What the parts that share the events and deliveries tables promise each *)
(* other (docs/reliability-contract.md), without locks, transactions or    *)
(* statements: an event is accepted once, with one pending delivery; a     *)
(* replay appends a generation to a chain that ends in a dead letter;      *)
(* retention takes away whole chains.  Each is a single step.              *)
(***************************************************************************)
EXTENDS Integers, DeliveryStates

CONSTANT Events

VARIABLES
    generations,   \* the deliveries there are: [event, generation, status]
    accepted       \* the events that were accepted, purged ones included

vars == <<generations, accepted>>

Pending(e, generation) == [event |-> e, generation |-> generation, status |-> "pending"]

\* A history may begin with events that are already accepted.
Init ==
    /\ accepted \in SUBSET Events
    /\ generations = {Pending(e, 0) : e \in accepted}

Accept(e) ==
    /\ e \notin accepted
    /\ accepted' = accepted \cup {e}
    /\ generations' = generations \cup {Pending(e, 0)}

Progress(g) ==
    /\ \E status \in ALLOWED_TRANSITIONS[g.status] :
           generations' = (generations \ {g}) \cup {[g EXCEPT !.status = status]}
    /\ UNCHANGED accepted

Replay(g) ==
    /\ g.status = "dead_lettered"
    /\ \A other \in generations :
           other.event = g.event => other.generation <= g.generation
    /\ generations' = generations \cup {Pending(g.event, g.generation + 1)}
    /\ UNCHANGED accepted

\* Later generations may still be active: see ReplayRetention.
Purge(S) ==
    /\ \A g \in generations :
           g.event \in S /\ g.generation = 0 => g.status \in Terminal
    /\ generations' = {g \in generations : g.event \notin S}
    /\ UNCHANGED accepted

Next ==
    \/ \E e \in Events : Accept(e)
    \/ \E g \in generations : Progress(g) \/ Replay(g)
    \/ \E S \in SUBSET accepted : Purge(S)

Spec == Init /\ [][Next]_vars
=============================================================================
