------------------------- MODULE DeliveryInvariant -------------------------
(***************************************************************************)
(* The strengthening that makes the worker's safety properties inductive:  *)
(* what each worker's snapshot still says about the tables while other     *)
(* workers, crashes and time move on.                                      *)
(***************************************************************************)
EXTENDS DeliveryWorker

Holding(w) == worker[w].pc \in {"claimed", "sent", "finalizing"}

\* The fields a process has filled in at each point of its iteration.
WorkerShape ==
    \A w \in Workers :
        /\ worker[w].pc \in {"claiming", "locked", "finalizing"} =>
              worker[w].now # None
        /\ worker[w].pc = "locked" \/ Holding(w) => worker[w].delivery # None
        /\ Holding(w) => worker[w].token # None
        /\ worker[w].pc \in {"sent", "finalizing"} =>
              worker[w].disposition # None

\* A claim's locked row is still due, and no two claims hold rows of one
\* endpoint (so neither do two hold the same row).
ClaimLocks ==
    \A w \in Workers : worker[w].pc = "locked" =>
        /\ Due(worker[w].delivery)
        /\ \A v \in Workers :
              /\ worker[v].pc = "locked"
              /\ EndpointOf[worker[v].delivery] = EndpointOf[worker[w].delivery]
              => v = w

\* A lease token was drawn for one attempt of one delivery only.
TokensAreUnique ==
    /\ \A d \in Deliveries : \A i \in DOMAIN attempts[d] :
          attempts[d][i].lease_token <= issued
    /\ \A d, e \in Deliveries :
          \A i \in DOMAIN attempts[d], j \in DOMAIN attempts[e] :
              attempts[d][i].lease_token = attempts[e][j].lease_token =>
                  d = e /\ i = j

\* A snapshot names the attempt row it was taken with, that row is not
\* completed while the snapshot is out, nobody else has the snapshot, and if
\* the delivery is still leased under its token the lease is the holder's.
SnapshotMatches(w) ==
    LET d == worker[w].delivery
        n == worker[w].number
    IN  /\ n \in DOMAIN attempts[d]
        /\ attempts[d][n].lease_token = worker[w].token
        /\ attempts[d][n].status # "completed"
        /\ delivery[d].lease_token = worker[w].token =>
              delivery[d].lease_owner = w
        /\ \A v \in Workers :
              Holding(v) /\ worker[v].token = worker[w].token => v = w

SnapshotsMatch == \A w \in Workers : Holding(w) => SnapshotMatches(w)

\* An attempt has a disposition exactly when it is completed.
DispositionWhenCompleted ==
    \A d \in Deliveries : \A i \in DOMAIN attempts[d] :
        attempts[d][i].disposition # None
            <=> attempts[d][i].status = "completed"

\* A row that was never leased has no attempts.
FreshIsUntried ==
    \A d \in Deliveries :
        delivery[d].status \in {"absent", "pending"} => delivery[d].attempt_count = 0

\* What is on the wire agrees with the snapshots still out.
WireMatches ==
    /\ \A x \in wire : x.token <= issued
    /\ \A w \in Workers : \A x \in wire :
          Holding(w) /\ x.token = worker[w].token =>
              /\ worker[w].pc # "claimed"
              /\ x.disposition = worker[w].disposition

\* The inductive invariants: of the types, of the tables, of the exchanges.
TypeInv == TypeOK /\ WorkerShape

TableInv ==
    /\ TypeInv
    /\ AttemptsNumbered
    /\ EvidenceMatchesLease
    /\ NeverLostToScheduler
    /\ ClaimLocks
    /\ TokensAreUnique
    /\ SnapshotsMatch
    /\ DispositionWhenCompleted
    /\ FreshIsUntried

EvidenceInv ==
    /\ TableInv
    /\ StatusExplainedByEvidence
    /\ WithinBudget
    /\ WireMatches
    /\ EvidenceIsOwnOutcome
    /\ RequestsAreReserved
=============================================================================
