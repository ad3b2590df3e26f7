-------------------------- MODULE ReliabilityTour --------------------------
(***************************************************************************)
(* The browser's reliability tour (frontend/src/reliabilityTour.ts) over   *)
(* the API and its demo service (demo.py): one run that scripts Receiver   *)
(* Lab, chooses the endpoint, publishes an event, follows it and, for an   *)
(* outage, replays it.                                                     *)
(*                                                                         *)
(* A call may lose its request or its answer, or be overtaken by the       *)
(* deadline: the tour is then paused, the request may still arrive later,  *)
(* and the tour is resumed with the identifiers it had learned.            *)
(***************************************************************************)
EXTENDS Integers, Sequences, FiniteSets

CONSTANTS
    Strategies,   \* of the scenarios that may be chosen
    Budget,       \* the worker's attempts for a delivery
    Failures,     \* the failures scripted for an automatic recovery, ...
    Outage,       \* ... and for an outage
    MaxFaults,    \* bound on interruptions, receiver restarts and lost attempts
    MaxLineage,   \* bound on the generations of the event
    MaxEndpoints  \* bound on the endpoints others register

ASSUME TourAssumption ==
    /\ Strategies \subseteq {"replay", "automatic", "terminal"}
    /\ Budget \in Nat \ {0} /\ Failures \in 0..Budget - 1 /\ Outage \in Nat /\ Outage > Budget
    /\ MaxFaults \in Nat /\ MaxLineage \in Nat /\ MaxEndpoints \in Nat

VARIABLES
    strategy,    \* of the chosen scenario
    receiver,    \* Receiver Lab's configuration for the run
    endpoints,   \* the endpoints of the receiver's URL, by number, and the one listed first
    published,   \* the run's events: their idempotency keys and endpoints
    lineage,     \* the event's deliveries; the first is the source
    late,        \* requests given up by the tour that may still arrive
    tour,        \* where the tour is and what it knows
    faults

vars == <<strategy, receiver, endpoints, published, lineage, late, tour, faults>>
server == <<receiver, endpoints, published, lineage>>

\* SCENARIOS of demo.py, by the failures that come before a success.
DEAD_LETTER == [preset |-> "dead_letter", left |-> Outage]
RECOVER == [preset |-> "recover", left |-> Failures]
SUCCESS == [preset |-> "success", left |-> 0]

\* demoScenarios.ts: a terminal scenario sends an invalid body to a healthy receiver.
Scenario ==
    CASE strategy = "replay" -> DEAD_LETTER
      [] strategy = "automatic" -> RECOVER
      [] OTHER -> SUCCESS

Ended == {"delivered", "dead_lettered"}

NewDelivery(key) == [key |-> key, status |-> "active", attempts |-> 0, rejected |-> FALSE]

Init ==
    /\ strategy \in Strategies
    /\ receiver = SUCCESS /\ published = {} /\ lineage = <<>> /\ late = {}
    /\ endpoints = [made |-> 0, first |-> 0]
    /\ tour = [pc |-> "idle", endpoint |-> 0, eventId |-> FALSE, replayId |-> 0, seen |-> <<>>]
    /\ faults = 0

-----------------------------------------------------------------------------
\* The server's side of the calls that change something

\* Mutant: a key for every call.
PublishKeyFresh == Cardinality(published)

\* Derived from the run, so that a repeated call carries the same key.
PublishKey == "story"

OwnReplays == {i \in 2..Len(lineage) : lineage[i].key = "tour"}

\* The replay of the source under the run's key: made before, or allowed now.
ReplayAnswered ==
    OwnReplays # {} \/ (Len(lineage) = 1 /\ lineage[1].status = "dead_lettered")

Configure(scenario) == receiver' = scenario /\ UNCHANGED <<endpoints, published, lineage>>

\* An endpoint is dated before it is committed and the list is ordered by date:
\* one that commits later need not be listed first.
Register ==
    /\ \E first \in {endpoints.made + 1} \cup ({endpoints.first} \ {0}) :
          endpoints' = [made |-> endpoints.made + 1, first |-> first]
    /\ UNCHANGED <<receiver, published, lineage>>

\* The events stored under the key of the call.
Stored == {event \in published : event.key = PublishKey}

\* The endpoint is part of the fingerprint that a repeated call is compared by.
PublishAccepted(endpoint) == \A event \in Stored : event.endpoint = endpoint

PublishEvent(endpoint) ==
    /\ \/ /\ Stored = {}
          /\ published' = published \cup {[key |-> PublishKey, endpoint |-> endpoint]}
          /\ lineage' = IF lineage = <<>> THEN <<NewDelivery("tour")>> ELSE lineage
       \/ Stored # {} /\ UNCHANGED <<published, lineage>>
    /\ UNCHANGED <<receiver, endpoints>>

ReplaySource ==
    /\ lineage' = IF OwnReplays = {} /\ ReplayAnswered
                  THEN Append(lineage, NewDelivery("tour")) ELSE lineage
    /\ UNCHANGED <<receiver, endpoints, published>>

Mutations == {"configure", "restore", "register", "publish", "replay", "recover"}

\* A call, named by the step that makes it; a publication names the endpoint.
Call(step) == [step |-> step, endpoint |-> IF step = "publish" THEN tour.endpoint ELSE 0]

Effect(call) ==
    CASE call.step = "configure" -> Configure(Scenario)
      [] call.step = "restore" -> Configure(SUCCESS)
      [] call.step = "register" -> Register
      [] call.step = "publish" -> PublishEvent(call.endpoint)
      [] call.step \in {"replay", "recover"} -> ReplaySource

-----------------------------------------------------------------------------
\* The tour

Goto(from, to) == tour.pc = from /\ tour' = [tour EXCEPT !.pc = to]

Local == UNCHANGED <<strategy, server, late, faults>>

\* A run starts, or is resumed, from its identifiers.
Begin ==
    /\ tour.pc \in {"idle", "paused"}
    /\ tour' = [tour EXCEPT !.pc = IF tour.eventId THEN "load" ELSE "configure",
                            !.endpoint = 0, !.seen = <<>>]
    /\ Local

\* The demo service configures with one request and reads the state with
\* another; the preset that comes back is the one of that moment.
ConfigureReceiver ==
    /\ Goto("configure", "configured")
    /\ Effect(Call("configure"))
    /\ UNCHANGED <<strategy, late, faults>>

ConfirmConfigured ==
    /\ Goto("configured", IF receiver.preset = Scenario.preset THEN "list" ELSE "paused")
    /\ Local

\* ensureReceiverLabEndpoint: the first of the listed endpoints, or a new one.
ListEndpoints ==
    /\ tour.pc = "list"
    /\ tour' = [tour EXCEPT !.pc = IF endpoints.first = 0 THEN "register" ELSE "publish",
                            !.endpoint = endpoints.first]
    /\ Local

CreateEndpoint ==
    /\ tour.pc = "register"
    /\ Effect(Call("register"))
    /\ tour' = [tour EXCEPT !.pc = "publish", !.endpoint = endpoints'.made]
    /\ UNCHANGED <<strategy, late, faults>>

\* A stored event of another endpoint is a conflict, which pauses the tour.
Publish ==
    /\ tour.pc = "publish"
    /\ Effect(Call("publish"))
    /\ tour' = IF PublishAccepted(tour.endpoint)
               THEN [tour EXCEPT !.pc = "load", !.endpoint = 0, !.eventId = TRUE]
               ELSE [tour EXCEPT !.pc = "paused"]
    /\ UNCHANGED <<strategy, late, faults>>

LoadEvent ==
    /\ tour.pc = "load"
    /\ tour' = [tour EXCEPT !.pc = "inspect", !.seen = lineage]
    /\ Local

Inspect ==
    /\ Goto("inspect",
            IF Len(tour.seen) > 2 \/ (strategy # "replay" /\ Len(tour.seen) > 1) THEN "failed"
            ELSE IF strategy # "replay" THEN "follow"
            ELSE IF tour.replayId # 0 THEN "known"
            ELSE IF Len(tour.seen) > 1 THEN "recover" ELSE "await")
    /\ Local

\* Mutant: the poll's answer is not kept.
PollStale == UNCHANGED tour

\* A wait, and the event read again.
Poll == tour' = [tour EXCEPT !.seen = lineage]

\* Automatic and terminal scenarios.
Follow ==
    LET status == tour.seen[1].status
    IN  /\ tour.pc = "follow"
        /\ \/ status \notin Ended /\ Poll
           \/ status \in Ended
              /\ Goto("follow",
                      CASE strategy = "automatic" /\ status = "delivered" -> "verified"
                        [] strategy = "terminal" /\ status = "dead_lettered" -> "evidence"
                        [] OTHER -> "failed")
        /\ Local

\* isExpectedSchemaRejection, on the source as seen and its attempts as read.
ReadEvidence ==
    /\ Goto("evidence", IF tour.seen[1].attempts = 1 /\ lineage[1].rejected
                        THEN "verified" ELSE "failed")
    /\ Local

\* The outage: wait until the source is contained.
Await ==
    LET status == tour.seen[1].status
    IN  /\ tour.pc = "await"
        /\ \/ status \notin Ended /\ Poll
           \/ status \in Ended
              /\ Goto("await", IF status = "delivered" THEN "failed" ELSE "contained")
        /\ Local

\* Mutant: the receiver is taken to be as it was left.
CheckReceiverTrusting ==
    /\ \/ Goto("contained", "replay")
       \/ Goto("known", "watch")
    /\ Local

\* The receiver is read, and repaired unless it is healthy: before the replay,
\* and on a resumption while the replay is going on.
CheckReceiver ==
    /\ \/ Goto("contained", IF receiver.preset = "success" THEN "replay" ELSE "restore")
       \/ Goto("known", IF tour.seen[tour.replayId].status \in Ended
                           \/ receiver.preset = "success" THEN "watch" ELSE "restore")
    /\ Local

Restore ==
    /\ Goto("restore", "restored")
    /\ Effect(Call("restore"))
    /\ UNCHANGED <<strategy, late, faults>>

ConfirmRestored ==
    /\ Goto("restored", IF receiver.preset # "success" THEN "paused"
                        ELSE IF tour.replayId = 0 THEN "replay" ELSE "watch")
    /\ Local

\* Mutant: any replay that exists is taken for the run's own.
ReplayAny(step, next) ==
    /\ tour.pc = step
    /\ Effect(Call(step))
    /\ tour' = [tour EXCEPT !.pc = IF lineage'[2].status # "" THEN next ELSE "paused",
                            !.replayId = 2]
    /\ UNCHANGED <<strategy, late, faults>>

\* The replay, or its recovery after an ambiguous answer, under the same key.
Replay(step, next) ==
    /\ tour.pc = step
    /\ Effect(Call(step))
    /\ tour' = IF ReplayAnswered
               THEN [tour EXCEPT !.pc = next, !.replayId = CHOOSE i \in OwnReplays' : TRUE]
               ELSE [tour EXCEPT !.pc = "paused"]
    /\ UNCHANGED <<strategy, late, faults>>

Reload ==
    /\ tour.pc = "reload"
    /\ tour' = [tour EXCEPT !.pc = "watch", !.seen = lineage]
    /\ Local

Watch ==
    LET status == tour.seen[tour.replayId].status
    IN  /\ tour.pc = "watch"
        /\ \/ status \notin Ended /\ Poll
           \/ status \in Ended
              /\ Goto("watch", IF status = "delivered" THEN "verified" ELSE "failed")
        /\ Local

-----------------------------------------------------------------------------
\* The worker and the receiver.  An invalid body is rejected before the script.

AttemptDelivery(i, lost) ==
    LET d == lineage[i]
        last == d.attempts + 1 = Budget
        fails == lost \/ receiver.left > 0
        invalid == strategy = "terminal" /\ ~lost
    IN  /\ d.status = "active"
        /\ lineage' = [lineage EXCEPT ![i] =
             [d EXCEPT !.attempts = @ + 1,
                       !.rejected = invalid,
                       !.status = IF invalid \/ (fails /\ last) THEN "dead_lettered"
                                  ELSE IF fails THEN "active" ELSE "delivered"]]
        /\ receiver' = IF lost \/ invalid \/ receiver.left = 0 THEN receiver
                       ELSE [receiver EXCEPT !.left = @ - 1]
        /\ UNCHANGED <<strategy, endpoints, published, late, tour>>

Attempt == \E i \in 1..Len(lineage) : AttemptDelivery(i, FALSE) /\ UNCHANGED faults

\* An operator replays the latest generation; a rejected body is blocked.
OtherReplay ==
    /\ lineage # <<>> /\ Len(lineage) < MaxLineage
    /\ lineage[Len(lineage)].status = "dead_lettered" /\ ~lineage[Len(lineage)].rejected
    /\ lineage' = Append(lineage, NewDelivery("other"))
    /\ UNCHANGED <<strategy, receiver, endpoints, published, late, tour, faults>>

\* Another browser found no endpoint either, or a client registers one more.
OtherEndpoint ==
    /\ endpoints.made < MaxEndpoints
    /\ Register
    /\ UNCHANGED <<strategy, late, tour, faults>>

-----------------------------------------------------------------------------
Running == tour.pc \notin {"idle", "paused", "verified", "failed"}

\* The catch clause: a request or its answer is lost, the deadline passes, or
\* the operator pauses the tour.
Interrupt ==
    /\ Running
    /\ tour' = [tour EXCEPT !.pc = "paused"]
    /\ late' = late \cup {Call(step) : step \in {tour.pc} \cap Mutations}
    /\ UNCHANGED <<strategy, server>>

Arrive ==
    /\ \E call \in late : Effect(call) /\ late' = late \ {call}
    /\ UNCHANGED <<strategy, tour, faults>>

\* Receiver Lab restarts or evicts the run: its state is the initial one when
\* it is read again.  Until then the shared default state answers the attempts;
\* one that was scripted to fail answers as LoseAttempt does.
ForgetRun ==
    /\ receiver' = SUCCESS
    /\ UNCHANGED <<strategy, endpoints, published, lineage, late, tour>>

LoseAttempt == \E i \in 1..Len(lineage) : AttemptDelivery(i, TRUE)

Fault ==
    /\ faults < MaxFaults
    /\ faults' = faults + 1
    /\ Interrupt \/ ForgetRun \/ LoseAttempt

TourStep ==
    \/ Begin \/ ConfigureReceiver \/ ConfirmConfigured
    \/ ListEndpoints \/ CreateEndpoint \/ Publish \/ LoadEvent \/ Inspect
    \/ Follow \/ ReadEvidence
    \/ Await \/ CheckReceiver \/ Restore \/ ConfirmRestored
    \/ Replay("replay", "reload") \/ Replay("recover", "known") \/ Reload \/ Watch

Next == TourStep \/ Attempt \/ OtherReplay \/ OtherEndpoint \/ Arrive \/ Fault

Spec == Init /\ [][Next]_vars /\ WF_vars(TourStep) /\ WF_vars(Attempt)

-----------------------------------------------------------------------------
\* However often the calls of a run are lost, repeated or late, it has one
\* event and one replay of its own (the keys derived from the run).
RunIsNotDoubled == Cardinality(published) <= 1 /\ Cardinality(OwnReplays) <= 1

\* "Verified" is true of the database: the source was contained and this run's
\* own replay of it was delivered; or the source was delivered without a
\* replay having been made; or the receiver rejected it at once.
VerifiedIsTrue ==
    tour.pc = "verified" =>
        CASE strategy = "replay" ->
                /\ lineage[1].status = "dead_lettered"
                /\ \E i \in OwnReplays : lineage[i].status = "delivered"
          [] strategy = "automatic" -> lineage[1].status = "delivered" /\ Len(lineage) = 1
          [] OTHER -> lineage[1].rejected /\ lineage[1].attempts = 1

\* A tour is paused or fails only after a fault or another operator's replay:
\* the order of configuring, publishing, repairing and replaying is right for
\* every speed of the worker.
FailureHasACause ==
    tour.pc \in {"paused", "failed"} =>
        faults > 0 \/ \E i \in 1..Len(lineage) : lineage[i].key = "other"

\* The answer to the publication was lost, and another endpoint is listed first.
Moved == ~tour.eventId /\ \E event \in published : event.endpoint # endpoints.first

\* A tour that is resumed whenever it pauses ends in a verdict, unless another
\* operator has replayed the source first, or the endpoint has moved for good:
\* each resumption then publishes to the new one under the old key, is answered
\* 409 and pauses again.
TourEnds ==
    \/ <>[]Moved
    \/ tour.pc # "idle" ~> \/ tour.pc \in {"verified", "failed"}
                           \/ \E i \in 1..Len(lineage) : lineage[i].key = "other"
=============================================================================
