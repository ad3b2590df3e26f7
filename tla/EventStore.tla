----------------------------- MODULE EventStore -----------------------------
(***************************************************************************)
(* What publication promises a caller (docs/reliability-contract.md): each *)
(* call takes effect in the one step that answers it, against a store of   *)
(* accepted work.  An element of the store is an event together with its   *)
(* initial delivery, so neither is ever there without the other.           *)
(***************************************************************************)
CONSTANTS
    Calls,
    Requests    \* what a call may ask for: [key, endpoint, body]

VARIABLES
    request,    \* what each call asks for
    answer,     \* what it was told, and of which event
    store,      \* accepted work: [id, request]
    gone        \* what retention removed: [id, key]

vars == <<request, answer, store, gone>>

NoAnswer == [kind |-> "none", event |-> 0]

Init ==
    /\ request \in [Calls -> Requests]
    /\ answer = [c \in Calls |-> NoAnswer]
    /\ store = {} /\ gone = {}

Say(c, kind, id) ==
    /\ answer[c] = NoAnswer
    /\ answer' = [answer EXCEPT ![c] = [kind |-> kind, event |-> id]]

\* Nothing has the key: the request becomes work under an identity of its own.
\* The caller learns of it, or its connection is lost.
Create(c) ==
    /\ \A work \in store : work.request.key # request[c].key
    /\ \E new \in store' :
          /\ new.request = request[c]
          /\ \A work \in store \cup gone : work.id # new.id
          /\ store' = store \cup {new}
          /\ Say(c, "created", new.id) \/ Say(c, "lost", 0)
    /\ UNCHANGED <<request, gone>>

\* The same request is there already.
Find(c) ==
    /\ \E work \in store : work.request = request[c] /\ Say(c, "existing", work.id)
    /\ UNCHANGED <<request, store, gone>>

\* Another request has the key.
Reuse(c) ==
    /\ \E work \in store : work.request.key = request[c].key /\ work.request # request[c]
    /\ Say(c, "reused", 0)
    /\ UNCHANGED <<request, store, gone>>

\* A refused call has no effect, and a lost one may have none.
Refuse(c) ==
    /\ \E kind \in {"invalid", "missing", "disabled", "lost"} : Say(c, kind, 0)
    /\ UNCHANGED <<request, store, gone>>

\* An internal error has no effect and needs an event of this key that is gone.
Fail(c) ==
    /\ \E old \in gone : old.key = request[c].key
    /\ Say(c, "error", 0)
    /\ UNCHANGED <<request, store, gone>>

Remove(work) ==
    /\ store' = {other \in store : other.id # work.id}
    /\ gone' = gone \cup {[id |-> other.id, key |-> other.request.key] :
                             other \in {other \in store : other.id = work.id}}
    /\ UNCHANGED <<request, answer>>

Next ==
    \/ \E c \in Calls : Create(c) \/ Find(c) \/ Reuse(c) \/ Refuse(c) \/ Fail(c)
    \/ \E work \in store : Remove(work)

Spec == Init /\ [][Next]_vars
=============================================================================
