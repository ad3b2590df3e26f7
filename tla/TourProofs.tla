----------------------------- MODULE TourProofs -----------------------------
(***************************************************************************)
(* The safety properties of ReliabilityTour for every budget, every script *)
(* of failures, any number of faults and any number of foreign replays.    *)
(***************************************************************************)
EXTENDS ReliabilityTour, FiniteSetTheorems, SequenceTheorems, TLAPS

-----------------------------------------------------------------------------
(* The inductive invariant.                                                *)

DeliveryRecords ==
    [key : {"tour", "other"}, status : {"active", "delivered", "dead_lettered"},
     attempts : Nat, rejected : BOOLEAN]

Steps ==
    {"idle", "configure", "configured", "list", "register", "publish", "load", "inspect", "follow",
     "evidence", "await", "contained", "known", "recover", "restore", "restored",
     "replay", "reload", "watch", "paused", "verified", "failed"}

TypeOK ==
    /\ strategy \in Strategies
    /\ receiver \in [preset : {"dead_letter", "recover", "success"}, left : Nat]
    /\ endpoints \in [made : Nat, first : Nat]
    /\ published \in SUBSET [key : {"story"}, endpoint : Nat]
    /\ lineage \in Seq(DeliveryRecords)
    /\ late \in SUBSET [step : Mutations, endpoint : Nat]
    /\ tour \in [pc : Steps, endpoint : Nat, eventId : BOOLEAN, replayId : {0, 2},
                 seen : Seq(DeliveryRecords)]
    /\ faults \in Nat

\* The run's key names one event, and the event has its source.
OneEvent ==
    /\ \A event, other \in published : event = other
    /\ published # {} => Len(lineage) >= 1

\* Only the latest generation may be open, and the run's own replay, which
\* only an outage makes, is the second one.
LineageInOrder ==
    /\ \A i \in 1 .. Len(lineage) :
          /\ i < Len(lineage) => lineage[i].status = "dead_lettered"
          /\ lineage[i].status = "active" => lineage[i].attempts < Budget
          /\ i > 2 => lineage[i].key = "other"
          /\ i = 2 /\ lineage[i].key = "tour" => strategy = "replay"
    /\ receiver.preset = "success" => receiver.left = 0
    /\ \A call \in late : call.step \in {"replay", "recover"} => strategy = "replay"
    /\ OneEvent

\* What the tour has seen is an earlier state of the lineage: an outcome it
\* has seen is final.
SeenWasTrue ==
    /\ Len(tour.seen) <= Len(lineage)
    /\ \A i \in 1 .. Len(tour.seen) :
          tour.seen[i].status \in Ended => lineage[i] = tour.seen[i]
    /\ tour.eventId => Len(lineage) >= 1
    /\ tour.replayId # 0 => Len(lineage) >= 2 /\ lineage[2].key = "tour"

\* The steps that only an outage takes.
Repairing == {"await", "contained", "known", "recover", "restore", "restored",
              "replay", "reload", "watch"}

\* Repairing the receiver for a replay that is known already.
Resumed == tour.pc \in {"restore", "restored"} /\ tour.replayId # 0

\* Repairing it before the replay.
Repaired == tour.pc \in {"restore", "restored"} /\ tour.replayId = 0

StepsInOrder ==
    /\ tour.pc \in {"load", "inspect", "follow", "evidence"} \cup Repairing => tour.eventId
    /\ tour.pc \in {"inspect", "follow", "evidence"} \cup Repairing => Len(tour.seen) >= 1
    /\ tour.pc \in Repairing => strategy = "replay"
    /\ tour.pc \in {"follow", "evidence"} => strategy # "replay"
    /\ tour.pc = "evidence" =>
          strategy = "terminal" /\ tour.seen[1].status = "dead_lettered"
    /\ tour.pc \in {"known", "watch"} \/ Resumed =>
          tour.replayId = 2 /\ Len(tour.seen) >= 2
    /\ tour.pc = "inspect" /\ tour.replayId # 0 => Len(tour.seen) >= 2
    /\ tour.pc \in {"await", "contained", "replay"} => tour.replayId = 0
    /\ tour.pc = "reload" => tour.replayId = 2
    /\ tour.pc \in {"contained", "replay"} \/ Repaired =>
          lineage[1].status = "dead_lettered"
    /\ tour.pc = "recover" => Len(tour.seen) >= 2
    /\ tour.pc = "verified" =>
          Len(lineage) >= 1 /\ (strategy = "terminal" => lineage[1].status = "dead_lettered")

\* No fault and nobody else's replay so far.
Quiet == faults = 0 /\ \A i \in 1 .. Len(lineage) : lineage[i].key = "tour"

\* Then every call arrived in its turn: the receiver is as the tour left it, ...
QuietTour ==
    /\ tour.pc \notin {"paused", "failed"}
    /\ tour.pc \in {"idle", "configure", "configured", "list", "register", "publish"} =>
          lineage = <<>> /\ published = {} /\ ~tour.eventId
    /\ tour.pc \in {"configured", "list", "register", "publish"} => receiver = Scenario
    /\ tour.pc \in {"restored", "replay"} => receiver.preset = "success"

\* ... and the script decides how the source and its replay end.
QuietSource ==
    LET source == lineage[1]
    IN  /\ strategy = "automatic" =>
              /\ source.status # "dead_lettered"
              /\ source.status = "active" => source.attempts + receiver.left <= Failures
        /\ strategy = "terminal" =>
              \/ source.status = "active" /\ source.attempts = 0
              \/ source.status = "dead_lettered" /\ source.rejected /\ source.attempts = 1
        /\ strategy = "replay" =>
              /\ source.status # "delivered"
              /\ source.status = "active" => source.attempts + receiver.left >= Outage

QuietServer ==
    /\ late = {}
    /\ Len(lineage) >= 1 => QuietSource
    /\ Len(lineage) >= 2 =>
          receiver.preset = "success" /\ lineage[2].status # "dead_lettered"

QuietRun == Quiet => QuietTour /\ QuietServer

TourInv ==
    /\ TypeOK /\ LineageInOrder /\ SeenWasTrue /\ StepsInOrder /\ QuietRun
    /\ VerifiedIsTrue

-----------------------------------------------------------------------------
(* The lineage, and the calls that change the server.                      *)

LEMMA OneAtMost ==
    ASSUME NEW n \in Nat, n >= 1, ~(1 < n)
    PROVE  n = 1
OBVIOUS

LEMMA OneOrMore ==
    ASSUME NEW n \in Nat, n >= 1
    PROVE  n = 1 \/ n >= 2
OBVIOUS

LEMMA JustTwo ==
    ASSUME NEW n \in Nat, n <= 2, n >= 2
    PROVE  n = 2
OBVIOUS

LEMMA TwoAtMost ==
    ASSUME NEW n \in Nat, NEW m \in Nat, n <= 2, m <= n
    PROVE  ~(m > 2) /\ (m > 1 => n = 2)
OBVIOUS

LEMMA ScenarioType ==
    ASSUME TypeOK
    PROVE  /\ Scenario \in [preset : {"dead_letter", "recover", "success"}, left : Nat]
           /\ Scenario.preset = "success" => Scenario.left = 0
           /\ strategy = "automatic" => Scenario.left = Failures
           /\ strategy = "replay" => Scenario.left = Outage
           /\ SUCCESS \in [preset : {"dead_letter", "recover", "success"}, left : Nat]
           /\ SUCCESS.preset = "success" /\ SUCCESS.left = 0
BY TourAssumption DEF TypeOK, Scenario, DEAD_LETTER, RECOVER, SUCCESS

LEMMA NewDeliveryType ==
    ASSUME NEW key \in {"tour", "other"}
    PROVE  /\ NewDelivery(key) \in DeliveryRecords /\ NewDelivery(key).key = key
           /\ NewDelivery(key).status = "active" /\ NewDelivery(key).attempts = 0
BY DEF NewDelivery, DeliveryRecords

\* The run's own replay can only be the second generation.
LEMMA OwnReplaysAre ==
    ASSUME TypeOK, LineageInOrder
    PROVE  OwnReplays = IF Len(lineage) >= 2 /\ lineage[2].key = "tour" THEN {2} ELSE {}
<1>1. Len(lineage) \in Nat
  BY DEF TypeOK
<1>2. \A i \in OwnReplays : i = 2
  BY <1>1 DEF OwnReplays, LineageInOrder
<1>3. 2 \in OwnReplays <=> Len(lineage) >= 2 /\ lineage[2].key = "tour"
  BY <1>1 DEF OwnReplays
<1>. QED
  BY <1>2, <1>3

\* The lineage grows at its end, and what has ended stays as it ended.
Extended ==
    /\ Len(lineage) <= Len(lineage')
    /\ \A i \in 1 .. Len(lineage) :
          /\ lineage'[i].key = lineage[i].key
          /\ lineage[i].status \in Ended => lineage'[i] = lineage[i]

\* One generation is added, and the others stay.
Added(key) ==
    /\ Len(lineage') = Len(lineage) + 1
    /\ \A i \in 1 .. Len(lineage) : lineage'[i] = lineage[i]
    /\ lineage'[Len(lineage) + 1] = NewDelivery(key)

LEMMA Appended ==
    ASSUME TypeOK, NEW key \in {"tour", "other"},
           lineage' = Append(lineage, NewDelivery(key))
    PROVE  lineage' \in Seq(DeliveryRecords) /\ Added(key)
BY NewDeliveryType, AppendProperties DEF TypeOK, Added

\* What a call may do, whoever makes it and whenever it arrives.
ServerStep ==
    /\ receiver' \in [preset : {"dead_letter", "recover", "success"}, left : Nat]
    /\ receiver'.preset = "success" => receiver'.left = 0
    /\ endpoints' \in [made : Nat, first : Nat]
    /\ published' \in SUBSET [key : {"story"}, endpoint : Nat]
    /\ lineage' \in Seq(DeliveryRecords)
    /\ OneEvent'
    /\ \/ lineage' = lineage
       \/ Added("tour") /\ Len(lineage) = 0
       \/ /\ Added("tour") /\ Len(lineage) = 1 /\ lineage[1].status = "dead_lettered"
          /\ strategy = "replay"

LEMMA ReplaySourceEffect ==
    ASSUME TypeOK, LineageInOrder, ReplaySource
    PROVE  \/ lineage' = lineage
           \/ /\ Added("tour") /\ Len(lineage) = 1 /\ lineage[1].status = "dead_lettered"
              /\ lineage' \in Seq(DeliveryRecords)
BY Appended DEF ReplaySource, ReplayAnswered

LEMMA PublishEffect ==
    ASSUME TypeOK, OneEvent, NEW endpoint \in Nat, PublishEvent(endpoint)
    PROVE  /\ published' \in SUBSET [key : {"story"}, endpoint : Nat]
           /\ UNCHANGED <<receiver, endpoints>>
           /\ lineage' \in Seq(DeliveryRecords)
           /\ OneEvent'
           /\ \/ lineage' = lineage /\ Len(lineage) >= 1
              \/ Added("tour") /\ Len(lineage) = 0
<1>0. Len(lineage) \in Nat /\ Stored = published
  BY LenProperties DEF TypeOK, Stored, PublishKey
<1>1. CASE Stored # {}
  BY <1>0, <1>1 DEF PublishEvent, OneEvent, TypeOK
<1>2. CASE Stored = {}
  <2>1. published' = {[key |-> "story", endpoint |-> endpoint]}
    BY <1>0, <1>2 DEF PublishEvent, PublishKey
  <2>2. published' \in SUBSET [key : {"story"}, endpoint : Nat]
    BY <2>1
  <2>3. CASE lineage # <<>>
    <3>1. Len(lineage) >= 1
      BY <2>3, EmptySeq, LenProperties DEF TypeOK
    <3>2. lineage' = lineage
      BY <1>2, <2>3 DEF PublishEvent
    <3>. QED
      BY <2>1, <2>2, <3>1, <3>2 DEF PublishEvent, TypeOK, OneEvent
  <2>4. CASE lineage = <<>>
    <3>1. lineage' = Append(lineage, NewDelivery("tour")) /\ Len(lineage) = 0
      BY <1>2, <2>4 DEF PublishEvent
    <3>2. lineage' \in Seq(DeliveryRecords) /\ Added("tour")
      BY <3>1, Appended
    <3>3. Len(lineage') >= 1
      BY <3>1, <3>2 DEF Added
    <3>. QED
      BY <2>1, <2>2, <3>1, <3>2, <3>3 DEF PublishEvent, OneEvent
  <2>. QED
    BY <2>3, <2>4
<1>. QED
  BY <1>1, <1>2

LEMMA RegisterEffect ==
    ASSUME TypeOK, Register
    PROVE  endpoints' \in [made : Nat, first : Nat] /\ endpoints'.made \in Nat
BY DEF TypeOK, Register

LEMMA ServerCall ==
    ASSUME TypeOK, LineageInOrder, NEW call \in [step : Mutations, endpoint : Nat],
           Effect(call),
           call.step \in {"replay", "recover"} => strategy = "replay"
    PROVE  ServerStep
<1>0. call.endpoint \in Nat /\ OneEvent
  BY DEF LineageInOrder
<1>1. CASE call.step \in {"configure", "restore"}
  <2>1. Configure(Scenario) \/ Configure(SUCCESS)
    BY <1>1 DEF Effect
  <2>. QED
    BY <1>0, <2>1, ScenarioType DEF Configure, ServerStep, TypeOK, OneEvent
<1>2. CASE call.step = "publish"
  <2>1. PublishEvent(call.endpoint)
    BY <1>2 DEF Effect
  <2>. QED
    BY <1>0, <2>1, PublishEffect DEF ServerStep, TypeOK, LineageInOrder
<1>3. CASE call.step \in {"replay", "recover"}
  <2>1. ReplaySource
    BY <1>3 DEF Effect
  <2>2. lineage' \in Seq(DeliveryRecords) /\ Len(lineage) <= Len(lineage')
    BY <2>1, ReplaySourceEffect, LenProperties DEF TypeOK, Added
  <2>3. OneEvent'
    BY <1>0, <2>1, <2>2, LenProperties DEF ReplaySource, OneEvent, TypeOK
  <2>. QED
    BY <1>3, <2>1, <2>3, ReplaySourceEffect DEF ReplaySource, ServerStep, TypeOK, LineageInOrder
<1>4. CASE call.step = "register"
  <2>1. Register
    BY <1>4 DEF Effect
  <2>. QED
    BY <1>0, <2>1, RegisterEffect DEF Register, ServerStep, TypeOK, LineageInOrder, OneEvent
<1>. QED
  BY <1>1, <1>2, <1>3, <1>4 DEF Mutations

LEMMA ServerStepEffect ==
    ASSUME TypeOK, LineageInOrder, ServerStep, UNCHANGED strategy,
           late' \in SUBSET late
    PROVE  Extended /\ LineageInOrder'
<1>1. Len(lineage) \in Nat /\ Len(lineage') \in Nat
  BY LenProperties DEF TypeOK, ServerStep
<1>2. CASE lineage' = lineage
  BY <1>1, <1>2 DEF ServerStep, LineageInOrder, Extended
<1>3. CASE Added("tour")
  <2>1. NewDelivery("tour").status = "active" /\ NewDelivery("tour").key = "tour"
        /\ NewDelivery("tour").attempts = 0
    BY NewDeliveryType
  <2>2. Extended
    BY <1>1, <1>3 DEF Added, Extended
  <2>3. \A i \in 1 .. Len(lineage') :
          \/ i \in 1 .. Len(lineage) /\ lineage'[i] = lineage[i]
          \/ i = Len(lineage) + 1 /\ lineage'[i] = NewDelivery("tour")
    BY <1>1, <1>3 DEF Added
  <2>4. Len(lineage) = 0 \/ (Len(lineage) = 1 /\ lineage[1].status = "dead_lettered" /\ strategy = "replay")
        \/ lineage' = lineage
    BY DEF ServerStep
  <2>. QED
    BY <1>1, <1>3, <2>1, <2>2, <2>3, <2>4, TourAssumption DEF ServerStep, LineageInOrder, Added
<1>. QED
  BY <1>2, <1>3 DEF ServerStep

-----------------------------------------------------------------------------
(* What the tour knows survives what the others do.                        *)

\* The tour rests while the lineage is extended.
LEMMA KnowledgeStays ==
    ASSUME TypeOK, LineageInOrder, SeenWasTrue, StepsInOrder, VerifiedIsTrue,
           LineageInOrder', Extended, UNCHANGED <<tour, strategy>>,
           lineage' \in Seq(DeliveryRecords)
    PROVE  SeenWasTrue' /\ StepsInOrder' /\ VerifiedIsTrue'
<1>1. Len(lineage) \in Nat /\ Len(lineage') \in Nat /\ Len(tour.seen) \in Nat
  BY LenProperties DEF TypeOK
<1>2. SeenWasTrue'
  BY <1>1 DEF SeenWasTrue, Extended
<1>3. StepsInOrder'
  BY <1>1 DEF StepsInOrder, SeenWasTrue, Extended, Repaired, Resumed, Repairing, Ended
<1>4. VerifiedIsTrue'
  <2>. SUFFICES ASSUME tour.pc = "verified"
                PROVE  VerifiedIsTrue'
    BY DEF VerifiedIsTrue
  <2>1. Len(lineage) >= 1 /\ Len(lineage') >= 1
    BY <1>1 DEF StepsInOrder, Extended
  <2>2. CASE strategy = "replay"
    <3>1. PICK i \in OwnReplays : lineage[i].status = "delivered"
      BY <2>2 DEF VerifiedIsTrue
    <3>2. i \in OwnReplays' /\ lineage'[i] = lineage[i]
      BY <1>1, <3>1 DEF OwnReplays, Extended, Ended
    <3>3. lineage'[1] = lineage[1] /\ lineage[1].status = "dead_lettered"
      BY <1>1, <2>1, <2>2 DEF VerifiedIsTrue, Extended, Ended
    <3>. QED
      BY <2>2, <3>1, <3>2, <3>3 DEF VerifiedIsTrue
  <2>3. CASE strategy = "automatic"
    <3>1. lineage[1].status = "delivered" /\ lineage'[1] = lineage[1]
      BY <1>1, <2>1, <2>3 DEF VerifiedIsTrue, Extended, Ended
    <3>2. 1 < Len(lineage') => lineage'[1].status = "dead_lettered"
      BY <1>1, <2>1 DEF LineageInOrder
    <3>3. Len(lineage') = 1
      BY <1>1, <2>1, <3>1, <3>2, OneAtMost
    <3>. QED
      BY <2>3, <3>1, <3>3 DEF VerifiedIsTrue
  <2>4. CASE strategy = "terminal"
    <3>1. lineage'[1] = lineage[1]
      BY <1>1, <2>1, <2>4 DEF StepsInOrder, Extended, Ended
    <3>. QED
      BY <2>4, <3>1 DEF VerifiedIsTrue
  <2>. QED
    BY <2>2, <2>3, <2>4, TourAssumption DEF TypeOK
<1>. QED
  BY <1>2, <1>3, <1>4

\* What was quiet stays so only while nobody else replays.
LEMMA QuietBefore ==
    ASSUME TypeOK, Extended, faults' = faults, Quiet',
           lineage' \in Seq(DeliveryRecords)
    PROVE  Quiet
<1>1. Len(lineage) \in Nat /\ Len(lineage') \in Nat
  BY LenProperties DEF TypeOK
<1>. QED
  BY <1>1 DEF Quiet, Extended

-----------------------------------------------------------------------------
(* The steps that change nothing but the tour.                             *)

TourRecords ==
    [pc : Steps, endpoint : Nat, eventId : BOOLEAN, replayId : {0, 2},
     seen : Seq(DeliveryRecords)]

\* What such a step has to keep.
TourKept ==
    /\ tour' \in TourRecords /\ SeenWasTrue' /\ StepsInOrder' /\ VerifiedIsTrue'
    /\ Quiet => QuietTour'

LEMMA LocalStep ==
    ASSUME TourInv, Local, TourKept
    PROVE  TourInv'
<1>. USE DEF Local, server
<1>1. TypeOK'
  BY DEF TourInv, TypeOK, TourKept, TourRecords
<1>2. LineageInOrder'
  BY DEF TourInv, LineageInOrder, OneEvent
<1>3. QuietRun'
  <2>1. Quiet' = Quiet
    BY DEF Quiet
  <2>2. QuietServer' = QuietServer
    BY DEF QuietServer, QuietSource
  <2>. QED
    BY <2>1, <2>2 DEF TourInv, QuietRun, TourKept
<1>. QED
  BY <1>1, <1>2, <1>3 DEF TourInv, TourKept

LEMMA BeginKeeps ==
    ASSUME TourInv, Begin
    PROVE  TourInv'
<1>. USE DEF TourInv, Local, server
<1>1. /\ tour' \in TourRecords /\ tour'.pc \in {"load", "configure"}
      /\ tour'.eventId = tour.eventId /\ tour'.replayId = tour.replayId
      /\ tour'.seen = <<>> /\ (tour'.pc = "load" <=> tour.eventId)
  BY EmptySeq DEF Begin, TypeOK, TourRecords, Steps
<1>2. SeenWasTrue'
  BY <1>1, LenProperties, EmptySeq DEF Begin, SeenWasTrue, TypeOK
<1>3. StepsInOrder' /\ VerifiedIsTrue'
  BY <1>1 DEF StepsInOrder, Repairing, Repaired, Resumed, VerifiedIsTrue
<1>4. Quiet => QuietTour'
  BY <1>1 DEF Begin, QuietRun, QuietTour
<1>. QED
  BY <1>1, <1>2, <1>3, <1>4, LocalStep DEF TourKept, Begin

LEMMA ConfirmConfiguredKeeps ==
    ASSUME TourInv, ConfirmConfigured
    PROVE  TourInv'
<1>. USE DEF TourInv, Local, server
<1>1. /\ tour' \in TourRecords /\ tour'.pc \in {"list", "paused"} /\ tour.pc = "configured"
      /\ tour'.eventId = tour.eventId /\ tour'.replayId = tour.replayId
      /\ tour'.seen = tour.seen /\ (receiver = Scenario => tour'.pc = "list")
  BY DEF ConfirmConfigured, Goto, TypeOK, TourRecords, Steps
<1>2. SeenWasTrue'
  BY <1>1 DEF ConfirmConfigured, SeenWasTrue
<1>3. StepsInOrder' /\ VerifiedIsTrue'
  BY <1>1 DEF StepsInOrder, Repairing, Repaired, Resumed, VerifiedIsTrue
<1>4. Quiet => QuietTour'
  BY <1>1 DEF ConfirmConfigured, QuietRun, QuietTour, Scenario
<1>. QED
  BY <1>1, <1>2, <1>3, <1>4, LocalStep DEF TourKept, ConfirmConfigured

LEMMA LoadEventKeeps ==
    ASSUME TourInv, LoadEvent
    PROVE  TourInv'
<1>. USE DEF TourInv, Local, server
<1>1. /\ tour' \in TourRecords /\ tour'.pc = "inspect" /\ tour.eventId
      /\ tour'.eventId = tour.eventId /\ tour'.replayId = tour.replayId
      /\ tour'.seen = lineage /\ Len(lineage) >= 1
  BY DEF LoadEvent, TypeOK, TourRecords, Steps, StepsInOrder, SeenWasTrue
<1>2. SeenWasTrue'
  BY <1>1, LenProperties DEF LoadEvent, SeenWasTrue, TypeOK
<1>3. StepsInOrder' /\ VerifiedIsTrue'
  BY <1>1 DEF StepsInOrder, SeenWasTrue, Repairing, Repaired, Resumed, VerifiedIsTrue
<1>4. Quiet => QuietTour'
  BY <1>1 DEF QuietTour
<1>. QED
  BY <1>1, <1>2, <1>3, <1>4, LocalStep DEF TourKept, LoadEvent

\* Without a fault or another's replay, the tour sees its own replay only.
LEMMA QuietLineage ==
    ASSUME TourInv, Quiet
    PROVE  Len(lineage) <= 2 /\ (Len(lineage) = 2 => strategy = "replay")
<1>1. Len(lineage) \in Nat
  BY LenProperties DEF TourInv, TypeOK
<1>2. \A i \in 1 .. Len(lineage) : lineage[i].key = "tour"
  BY DEF Quiet
<1>3. \A i \in 1 .. Len(lineage) :
        (i > 2 => lineage[i].key = "other")
        /\ (i = 2 /\ lineage[i].key = "tour" => strategy = "replay")
  BY DEF TourInv, LineageInOrder
<1>. QED
  BY <1>1, <1>2, <1>3

LEMMA InspectKeeps ==
    ASSUME TourInv, Inspect
    PROVE  TourInv'
<1>. USE DEF TourInv, Local, server
<1>0. Len(lineage) \in Nat /\ Len(tour.seen) \in Nat
  BY LenProperties DEF TypeOK
<1>1. /\ tour' \in TourRecords
      /\ tour.pc = "inspect" /\ tour.eventId /\ Len(tour.seen) >= 1
      /\ tour'.eventId = tour.eventId /\ tour'.replayId = tour.replayId
      /\ tour'.seen = tour.seen
      /\ \/ /\ tour'.pc = "failed"
            /\ Len(tour.seen) > 2 \/ (strategy # "replay" /\ Len(tour.seen) > 1)
         \/ tour'.pc = "follow" /\ strategy # "replay"
         \/ tour'.pc = "known" /\ strategy = "replay" /\ tour.replayId = 2
         \/ tour'.pc = "recover" /\ strategy = "replay" /\ Len(tour.seen) >= 2
         \/ tour'.pc = "await" /\ strategy = "replay" /\ tour.replayId = 0
  BY <1>0 DEF Inspect, Goto, TypeOK, TourRecords, Steps, StepsInOrder
<1>2. SeenWasTrue'
  BY <1>1 DEF Inspect, SeenWasTrue
<1>3. StepsInOrder' /\ VerifiedIsTrue'
  BY <1>0, <1>1 DEF Inspect, StepsInOrder, Repairing, Repaired, Resumed, VerifiedIsTrue
<1>4. Quiet => QuietTour'
  <2>. SUFFICES ASSUME Quiet
                PROVE  tour'.pc # "failed"
    BY <1>1 DEF QuietTour
  <2>1. Len(lineage) <= 2 /\ (Len(lineage) = 2 => strategy = "replay")
    BY QuietLineage
  <2>2. Len(tour.seen) <= Len(lineage)
    BY DEF SeenWasTrue
  <2>3. ~(Len(tour.seen) > 2) /\ (Len(tour.seen) > 1 => strategy = "replay")
    BY <1>0, <2>1, <2>2, TwoAtMost
  <2>. QED
    BY <1>1, <2>3
<1>. QED
  BY <1>1, <1>2, <1>3, <1>4, LocalStep DEF TourKept, Inspect

LEMMA PollKeeps ==
    ASSUME TourInv, Local, Poll, tour.pc \in {"follow", "await", "watch"}
    PROVE  TourInv'
<1>. USE DEF TourInv, Local, server
<1>0. Len(lineage) \in Nat /\ Len(tour.seen) \in Nat /\ Len(tour.seen) <= Len(lineage)
  BY LenProperties DEF TypeOK, SeenWasTrue
<1>1. /\ tour' \in TourRecords /\ tour'.pc = tour.pc
      /\ tour'.eventId = tour.eventId /\ tour'.replayId = tour.replayId
      /\ tour'.seen = lineage
  BY DEF Poll, TypeOK, TourRecords
<1>2. SeenWasTrue'
  BY <1>0, <1>1 DEF SeenWasTrue
<1>3. StepsInOrder' /\ VerifiedIsTrue'
  BY <1>0, <1>1 DEF StepsInOrder, Repairing, Repaired, Resumed, VerifiedIsTrue
<1>4. Quiet => QuietTour'
  BY <1>1 DEF QuietTour
<1>. QED
  BY <1>1, <1>2, <1>3, <1>4, LocalStep DEF TourKept

\* What has been seen to end has ended so, and a source that was delivered
\* has no replay.
LEMMA SeenEnded ==
    ASSUME TourInv, NEW i \in 1 .. Len(tour.seen), tour.seen[i].status \in Ended
    PROVE  /\ lineage[i] = tour.seen[i] /\ i \in 1 .. Len(lineage)
           /\ i = 1 /\ lineage[i].status = "delivered" => Len(lineage) = 1
<1>1. Len(lineage) \in Nat /\ Len(tour.seen) \in Nat /\ Len(tour.seen) <= Len(lineage)
  BY LenProperties DEF TourInv, TypeOK, SeenWasTrue
<1>2. lineage[i] = tour.seen[i] /\ i \in 1 .. Len(lineage) /\ Len(lineage) >= 1
  BY <1>1 DEF TourInv, SeenWasTrue
<1>3. i < Len(lineage) => lineage[i].status = "dead_lettered"
  BY <1>2 DEF TourInv, LineageInOrder
<1>4. i = 1 /\ lineage[i].status = "delivered" => ~(1 < Len(lineage))
  BY <1>3
<1>. QED
  BY <1>1, <1>2, <1>4, OneAtMost

LEMMA FollowKeeps ==
    ASSUME TourInv, Follow
    PROVE  TourInv'
<1>. USE DEF TourInv, Local, server
<1>1. CASE Poll
  BY <1>1, PollKeeps DEF Follow
<1>2. CASE ~Poll
  <2>0. Len(tour.seen) \in Nat /\ Len(lineage) \in Nat
    BY LenProperties DEF TypeOK
  <2>1. /\ tour.pc = "follow" /\ tour.eventId /\ Len(tour.seen) >= 1 /\ strategy # "replay"
        /\ tour.seen[1].status \in Ended
    BY <1>2 DEF Follow, StepsInOrder
  <2>2. lineage[1] = tour.seen[1] /\ Len(lineage) >= 1
        /\ (lineage[1].status = "delivered" => Len(lineage) = 1)
    BY <2>0, <2>1, SeenEnded
  <2>3. /\ tour' \in TourRecords
        /\ tour'.eventId = tour.eventId /\ tour'.replayId = tour.replayId
        /\ tour'.seen = tour.seen
        /\ \/ /\ tour'.pc = "verified" /\ strategy = "automatic"
              /\ tour.seen[1].status = "delivered"
           \/ /\ tour'.pc = "evidence" /\ strategy = "terminal"
              /\ tour.seen[1].status = "dead_lettered"
           \/ /\ tour'.pc = "failed"
              /\ ~(strategy = "automatic" /\ tour.seen[1].status = "delivered")
              /\ ~(strategy = "terminal" /\ tour.seen[1].status = "dead_lettered")
    BY <1>2 DEF Follow, Goto, TypeOK, TourRecords, Steps
  <2>4. SeenWasTrue'
    BY <2>3 DEF Follow, SeenWasTrue
  <2>5. StepsInOrder'
    BY <2>0, <2>1, <2>2, <2>3 DEF Follow, StepsInOrder, Repairing, Repaired, Resumed
  <2>6. VerifiedIsTrue'
    BY <2>2, <2>3 DEF Follow, VerifiedIsTrue
  <2>7. Quiet => QuietTour'
    <3>1. strategy \in {"automatic", "terminal"}
      BY <2>1, TourAssumption DEF TypeOK
    <3>2. Quiet => tour'.pc # "failed"
      BY <2>1, <2>2, <2>3, <3>1 DEF QuietRun, QuietServer, QuietSource, Ended
    <3>. QED
      BY <2>3, <3>2 DEF QuietTour
  <2>. QED
    BY <2>3, <2>4, <2>5, <2>6, <2>7, LocalStep DEF TourKept, Follow
<1>. QED
  BY <1>1, <1>2

LEMMA ReadEvidenceKeeps ==
    ASSUME TourInv, ReadEvidence
    PROVE  TourInv'
<1>. USE DEF TourInv, Local, server
<1>0. Len(tour.seen) \in Nat /\ Len(lineage) \in Nat
  BY LenProperties DEF TypeOK
<1>1. /\ tour.pc = "evidence" /\ Len(tour.seen) >= 1 /\ strategy = "terminal"
      /\ tour.seen[1].status = "dead_lettered"
  BY DEF ReadEvidence, Goto, StepsInOrder
<1>2. lineage[1] = tour.seen[1] /\ Len(lineage) >= 1
  BY <1>0, <1>1, SeenEnded DEF Ended
<1>3. /\ tour' \in TourRecords
      /\ tour'.eventId = tour.eventId /\ tour'.replayId = tour.replayId
      /\ tour'.seen = tour.seen /\ tour'.pc \in {"verified", "failed"}
      /\ tour'.pc = "verified" <=> lineage[1].attempts = 1 /\ lineage[1].rejected
  BY <1>2 DEF ReadEvidence, Goto, TypeOK, TourRecords, Steps
<1>4. SeenWasTrue'
  BY <1>3 DEF ReadEvidence, SeenWasTrue
<1>5. StepsInOrder'
  BY <1>0, <1>1, <1>2, <1>3 DEF ReadEvidence, StepsInOrder, Repairing, Repaired, Resumed
<1>6. VerifiedIsTrue'
  BY <1>1, <1>3 DEF ReadEvidence, VerifiedIsTrue
<1>7. Quiet => QuietTour'
  BY <1>1, <1>2, <1>3 DEF QuietRun, QuietServer, QuietSource, QuietTour
<1>. QED
  BY <1>3, <1>4, <1>5, <1>6, <1>7, LocalStep DEF TourKept, ReadEvidence

LEMMA AwaitKeeps ==
    ASSUME TourInv, Await
    PROVE  TourInv'
<1>. USE DEF TourInv, Local, server
<1>1. CASE Poll
  BY <1>1, PollKeeps DEF Await
<1>2. CASE ~Poll
  <2>0. Len(tour.seen) \in Nat /\ Len(lineage) \in Nat
    BY LenProperties DEF TypeOK
  <2>1. /\ tour.pc = "await" /\ tour.eventId /\ Len(tour.seen) >= 1 /\ strategy = "replay"
        /\ tour.seen[1].status \in Ended
    BY <1>2 DEF Await, StepsInOrder, Repairing
  <2>2. lineage[1] = tour.seen[1] /\ Len(lineage) >= 1
    BY <2>0, <2>1, SeenEnded
  <2>3. /\ tour' \in TourRecords
        /\ tour'.eventId = tour.eventId /\ tour'.replayId = tour.replayId
        /\ tour'.seen = tour.seen
        /\ \/ tour'.pc = "contained" /\ lineage[1].status = "dead_lettered"
           \/ tour'.pc = "failed" /\ lineage[1].status = "delivered"
    BY <1>2, <2>1, <2>2 DEF Await, Goto, TypeOK, TourRecords, Steps, Ended
  <2>4. SeenWasTrue'
    BY <2>3 DEF Await, SeenWasTrue
  <2>5. StepsInOrder' /\ VerifiedIsTrue'
    BY <2>0, <2>1, <2>2, <2>3
    DEF Await, StepsInOrder, Repairing, Repaired, Resumed, VerifiedIsTrue
  <2>6. Quiet => QuietTour'
    BY <2>1, <2>2, <2>3 DEF QuietRun, QuietServer, QuietSource, QuietTour
  <2>. QED
    BY <2>3, <2>4, <2>5, <2>6, LocalStep DEF TourKept, Await
<1>. QED
  BY <1>1, <1>2

LEMMA CheckReceiverKeeps ==
    ASSUME TourInv, CheckReceiver
    PROVE  TourInv'
<1>. USE DEF TourInv, Local, server
<1>0. Len(tour.seen) \in Nat /\ Len(lineage) \in Nat
  BY LenProperties DEF TypeOK
<1>1. /\ tour' \in TourRecords
      /\ tour'.eventId = tour.eventId /\ tour'.replayId = tour.replayId
      /\ tour'.seen = tour.seen
      /\ \/ /\ tour.pc = "contained"
            /\ \/ tour'.pc = "replay" /\ receiver.preset = "success"
               \/ tour'.pc = "restore"
         \/ tour.pc = "known" /\ tour'.pc \in {"watch", "restore"}
  BY DEF CheckReceiver, Goto, TypeOK, TourRecords, Steps
<1>2. SeenWasTrue'
  BY <1>1 DEF CheckReceiver, SeenWasTrue
<1>3. StepsInOrder'
  <2>1. CASE tour.pc = "contained"
    <3>1. /\ tour.eventId /\ strategy = "replay" /\ Len(tour.seen) >= 1
          /\ lineage[1].status = "dead_lettered"
          /\ tour.replayId = 0
      BY <2>1 DEF StepsInOrder, Repairing
    <3>. QED
      BY <1>0, <1>1, <2>1, <3>1
      DEF CheckReceiver, StepsInOrder, Repairing, Repaired, Resumed
  <2>2. CASE tour.pc = "known"
    <3>1. /\ tour.eventId /\ strategy = "replay" /\ Len(tour.seen) >= 2
          /\ tour.replayId = 2
      BY <2>2 DEF StepsInOrder, Repairing
    <3>. QED
      BY <1>0, <1>1, <2>2, <3>1
      DEF CheckReceiver, StepsInOrder, Repairing, Repaired, Resumed
  <2>. QED
    BY <1>1, <2>1, <2>2
<1>4. VerifiedIsTrue'
  BY <1>1 DEF VerifiedIsTrue
<1>5. Quiet => QuietTour'
  BY <1>1 DEF CheckReceiver, QuietTour
<1>. QED
  BY <1>1, <1>2, <1>3, <1>4, <1>5, LocalStep DEF TourKept, CheckReceiver

LEMMA ConfirmRestoredKeeps ==
    ASSUME TourInv, ConfirmRestored
    PROVE  TourInv'
<1>. USE DEF TourInv, Local, server
<1>0. Len(tour.seen) \in Nat /\ Len(lineage) \in Nat
  BY LenProperties DEF TypeOK
<1>1. /\ tour' \in TourRecords
      /\ tour'.eventId = tour.eventId /\ tour'.replayId = tour.replayId
      /\ tour'.seen = tour.seen /\ tour.pc = "restored"
      /\ \/ tour'.pc = "paused" /\ receiver.preset # "success"
         \/ tour'.pc = "replay" /\ tour.replayId = 0 /\ receiver.preset = "success"
         \/ tour'.pc = "watch" /\ tour.replayId # 0
  BY DEF ConfirmRestored, Goto, TypeOK, TourRecords, Steps
<1>2. SeenWasTrue'
  BY <1>1 DEF ConfirmRestored, SeenWasTrue
<1>3. /\ tour.eventId /\ strategy = "replay" /\ Len(tour.seen) >= 1
      /\ tour.replayId = 0 => lineage[1].status = "dead_lettered"
      /\ tour.replayId # 0 => tour.replayId = 2 /\ Len(tour.seen) >= 2
  BY <1>1 DEF StepsInOrder, Repairing, Repaired, Resumed
<1>4. StepsInOrder'
  BY <1>0, <1>1, <1>3 DEF ConfirmRestored, StepsInOrder, Repairing, Repaired, Resumed
<1>5. VerifiedIsTrue'
  BY <1>1 DEF VerifiedIsTrue
<1>6. Quiet => QuietTour'
  BY <1>1 DEF ConfirmRestored, QuietRun, QuietTour
<1>. QED
  BY <1>1, <1>2, <1>4, <1>5, <1>6, LocalStep DEF TourKept, ConfirmRestored

LEMMA ReloadKeeps ==
    ASSUME TourInv, Reload
    PROVE  TourInv'
<1>. USE DEF TourInv, Local, server
<1>0. Len(tour.seen) \in Nat /\ Len(lineage) \in Nat
  BY LenProperties DEF TypeOK
<1>1. /\ tour' \in TourRecords /\ tour.pc = "reload" /\ tour'.pc = "watch"
      /\ tour'.eventId = tour.eventId /\ tour'.replayId = tour.replayId
      /\ tour'.seen = lineage
  BY DEF Reload, TypeOK, TourRecords, Steps
<1>2. tour.eventId /\ strategy = "replay" /\ tour.replayId = 2
  BY <1>1 DEF StepsInOrder, Repairing
<1>3. Len(lineage) >= 2
  BY <1>2 DEF SeenWasTrue
<1>4. SeenWasTrue'
  BY <1>0, <1>1 DEF Reload, SeenWasTrue
<1>5. StepsInOrder' /\ VerifiedIsTrue'
  BY <1>0, <1>1, <1>2, <1>3
  DEF Reload, StepsInOrder, Repairing, Repaired, Resumed, VerifiedIsTrue
<1>6. Quiet => QuietTour'
  BY <1>1 DEF QuietTour
<1>. QED
  BY <1>1, <1>4, <1>5, <1>6, LocalStep DEF TourKept, Reload

LEMMA WatchKeeps ==
    ASSUME TourInv, Watch
    PROVE  TourInv'
<1>. USE DEF TourInv, Local, server
<1>1. CASE Poll
  BY <1>1, PollKeeps DEF Watch
<1>2. CASE ~Poll
  <2>0. Len(tour.seen) \in Nat /\ Len(lineage) \in Nat
    BY LenProperties DEF TypeOK
  <2>1. /\ tour.pc = "watch" /\ strategy = "replay" /\ tour.replayId = 2
        /\ Len(tour.seen) >= 2
    BY DEF Watch, StepsInOrder, Repairing
  <2>2. tour.seen[2].status \in Ended
    BY <1>2, <2>1 DEF Watch
  <2>3. lineage[2] = tour.seen[2] /\ 2 \in 1 .. Len(lineage)
    BY <2>0, <2>1, <2>2, SeenEnded
  <2>4. /\ tour' \in TourRecords
        /\ tour'.eventId = tour.eventId /\ tour'.replayId = tour.replayId
        /\ tour'.seen = tour.seen
        /\ \/ tour'.pc = "verified" /\ lineage[2].status = "delivered"
           \/ tour'.pc = "failed" /\ lineage[2].status = "dead_lettered"
    BY <1>2, <2>1, <2>2, <2>3 DEF Watch, Goto, TypeOK, TourRecords, Steps, Ended
  <2>5. lineage[1].status = "dead_lettered" /\ 2 \in OwnReplays
    BY <2>0, <2>1, <2>3 DEF SeenWasTrue, LineageInOrder, OwnReplays
  <2>6. SeenWasTrue'
    BY <2>4 DEF Watch, SeenWasTrue
  <2>7. StepsInOrder'
    BY <2>0, <2>1, <2>3, <2>4 DEF Watch, StepsInOrder, Repairing, Repaired, Resumed
  <2>8. VerifiedIsTrue'
    <3>1. OwnReplays' = OwnReplays
      BY DEF Watch, OwnReplays
    <3>. QED
      BY <2>1, <2>4, <2>5, <3>1 DEF Watch, VerifiedIsTrue
  <2>9. Quiet => QuietTour'
    BY <2>0, <2>3, <2>4 DEF QuietRun, QuietServer, QuietTour
  <2>. QED
    BY <2>4, <2>6, <2>7, <2>8, <2>9, LocalStep DEF TourKept, Watch
<1>. QED
  BY <1>1, <1>2

-----------------------------------------------------------------------------
(* The steps that call the server.                                         *)

\* What a call of the tour has to show, when it changes the server as a call
\* may: its own part, and that a quiet run stays in order.
LEMMA CallStep ==
    ASSUME TourInv, ServerStep, UNCHANGED <<strategy, late, faults>>,
           tour' \in TourRecords, SeenWasTrue', StepsInOrder', VerifiedIsTrue',
           Quiet /\ Quiet' => QuietTour' /\ QuietServer'
    PROVE  TourInv'
<1>1. TypeOK'
  BY DEF TourInv, TypeOK, ServerStep, TourRecords
<1>2. Extended /\ LineageInOrder'
  BY ServerStepEffect DEF TourInv
<1>3. QuietRun'
  BY <1>2, QuietBefore DEF TourInv, QuietRun, ServerStep
<1>. QED
  BY <1>1, <1>2, <1>3 DEF TourInv

LEMMA ConfigureReceiverKeeps ==
    ASSUME TourInv, ConfigureReceiver
    PROVE  TourInv'
<1>1. ServerStep /\ UNCHANGED <<lineage, published>> /\ receiver' = Scenario
  <2>1. Configure(Scenario) /\ Call("configure") \in [step : Mutations, endpoint : Nat]
    BY DEF ConfigureReceiver, Effect, Call, Mutations
  <2>2. Call("configure").step = "configure"
    BY DEF Call
  <2>. QED
    BY <2>1, <2>2, ServerCall DEF ConfigureReceiver, TourInv, Configure
<1>2. /\ tour' \in TourRecords /\ tour.pc = "configure" /\ tour'.pc = "configured"
      /\ tour'.eventId = tour.eventId /\ tour'.replayId = tour.replayId
      /\ tour'.seen = tour.seen
  BY DEF ConfigureReceiver, Goto, TourInv, TypeOK, TourRecords, Steps
<1>3. SeenWasTrue'
  BY <1>1, <1>2 DEF TourInv, SeenWasTrue
<1>4. StepsInOrder' /\ VerifiedIsTrue'
  BY <1>2 DEF StepsInOrder, Repairing, Repaired, Resumed, VerifiedIsTrue
<1>5. Quiet => QuietTour' /\ QuietServer'
  BY <1>1, <1>2
  DEF ConfigureReceiver, TourInv, QuietRun, QuietTour, QuietServer, Scenario
<1>. QED
  BY <1>1, <1>2, <1>3, <1>4, <1>5, CallStep DEF ConfigureReceiver

LEMMA ListEndpointsKeeps ==
    ASSUME TourInv, ListEndpoints
    PROVE  TourInv'
<1>. USE DEF TourInv, Local, server
<1>1. /\ tour' \in TourRecords /\ tour.pc = "list" /\ tour'.pc \in {"register", "publish"}
      /\ tour'.eventId = tour.eventId /\ tour'.replayId = tour.replayId
      /\ tour'.seen = tour.seen
  BY DEF ListEndpoints, TypeOK, TourRecords, Steps
<1>2. SeenWasTrue'
  BY <1>1 DEF ListEndpoints, SeenWasTrue
<1>3. StepsInOrder' /\ VerifiedIsTrue'
  BY <1>1 DEF StepsInOrder, Repairing, Repaired, Resumed, VerifiedIsTrue
<1>4. Quiet => QuietTour'
  BY <1>1 DEF ListEndpoints, QuietRun, QuietTour, Scenario
<1>. QED
  BY <1>1, <1>2, <1>3, <1>4, LocalStep DEF TourKept, ListEndpoints

LEMMA CreateEndpointKeeps ==
    ASSUME TourInv, CreateEndpoint
    PROVE  TourInv'
<1>1. /\ ServerStep /\ UNCHANGED <<receiver, published, lineage>>
      /\ endpoints'.made \in Nat
  <2>1. Register /\ Call("register") \in [step : Mutations, endpoint : Nat]
    BY DEF CreateEndpoint, Effect, Call, Mutations
  <2>2. Call("register").step = "register"
    BY DEF Call
  <2>. QED
    BY <2>1, <2>2, ServerCall, RegisterEffect DEF CreateEndpoint, TourInv, Register
<1>2. /\ tour' \in TourRecords /\ tour.pc = "register" /\ tour'.pc = "publish"
      /\ tour'.eventId = tour.eventId /\ tour'.replayId = tour.replayId
      /\ tour'.seen = tour.seen
  BY <1>1 DEF CreateEndpoint, TourInv, TypeOK, TourRecords, Steps
<1>3. SeenWasTrue'
  BY <1>1, <1>2 DEF TourInv, SeenWasTrue
<1>4. StepsInOrder' /\ VerifiedIsTrue'
  BY <1>2 DEF StepsInOrder, Repairing, Repaired, Resumed, VerifiedIsTrue
<1>5. Quiet => QuietTour' /\ QuietServer'
  BY <1>1, <1>2
  DEF CreateEndpoint, TourInv, QuietRun, QuietTour, QuietServer, QuietSource, Scenario
<1>. QED
  BY <1>1, <1>2, <1>3, <1>4, <1>5, CallStep DEF CreateEndpoint

LEMMA PublishKeeps ==
    ASSUME TourInv, Publish
    PROVE  TourInv'
<1>0. /\ PublishEvent(tour.endpoint) /\ tour.endpoint \in Nat
      /\ Call("publish") \in [step : Mutations, endpoint : Nat]
      /\ Call("publish").step = "publish" /\ OneEvent
  BY DEF Publish, Effect, Call, TourInv, TypeOK, Mutations, LineageInOrder
<1>1. ServerStep
  BY <1>0, ServerCall DEF Publish, TourInv
<1>2. /\ lineage' \in Seq(DeliveryRecords) /\ UNCHANGED receiver
      /\ \/ lineage' = lineage /\ Len(lineage) >= 1
         \/ Added("tour") /\ Len(lineage) = 0
  BY <1>0, PublishEffect DEF TourInv
<1>3. Len(lineage) \in Nat /\ Len(lineage') \in Nat /\ Len(tour.seen) \in Nat
  BY <1>2, LenProperties DEF TourInv, TypeOK
<1>4. Extended /\ Len(lineage') >= 1
  BY <1>1, <1>2, <1>3, ServerStepEffect DEF TourInv, Publish, Added
<1>5. /\ tour' \in TourRecords /\ tour.pc = "publish"
      /\ tour'.replayId = tour.replayId /\ tour'.seen = tour.seen
      /\ IF PublishAccepted(tour.endpoint) THEN tour'.pc = "load" /\ tour'.eventId
         ELSE tour'.pc = "paused" /\ tour'.eventId = tour.eventId
  BY DEF Publish, TourInv, TypeOK, TourRecords, Steps
<1>6. SeenWasTrue'
  BY <1>3, <1>4, <1>5 DEF TourInv, SeenWasTrue, Extended
<1>7. StepsInOrder' /\ VerifiedIsTrue'
  BY <1>5 DEF StepsInOrder, Repairing, Repaired, Resumed, VerifiedIsTrue
<1>8. Quiet => QuietTour' /\ QuietServer'
  <2>. SUFFICES ASSUME Quiet
                PROVE  QuietTour' /\ QuietServer'
    OBVIOUS
  <2>1. lineage = <<>> /\ published = {} /\ receiver = Scenario /\ late = {}
    BY <1>5 DEF TourInv, QuietRun, QuietTour, QuietServer
  <2>0. QuietTour'
    BY <1>5, <2>1 DEF QuietTour, PublishAccepted, Stored
  <2>2. Len(lineage') = 1 /\ lineage'[1] = NewDelivery("tour")
    BY <1>2, <2>1 DEF Added
  <2>3. lineage'[1].status = "active" /\ lineage'[1].attempts = 0
    BY <2>2, NewDeliveryType
  <2>4. receiver' = Scenario
    BY <1>2, <2>1
  <2>5. QuietSource'
    BY <2>3, <2>4, ScenarioType, TourAssumption DEF QuietSource, TourInv, Publish
  <2>. QED
    BY <2>0, <2>1, <2>2, <2>5 DEF QuietServer, Publish
<1>. QED
  BY <1>1, <1>5, <1>6, <1>7, <1>8, CallStep DEF Publish

LEMMA RestoreKeeps ==
    ASSUME TourInv, Restore
    PROVE  TourInv'
<1>0. Len(lineage) \in Nat /\ Len(tour.seen) \in Nat
  BY LenProperties DEF TourInv, TypeOK
<1>1. ServerStep /\ lineage' = lineage /\ receiver' = SUCCESS
  <2>1. Configure(SUCCESS) /\ Call("restore") \in [step : Mutations, endpoint : Nat]
    BY DEF Restore, Effect, Call, Mutations
  <2>2. Call("restore").step = "restore"
    BY DEF Call
  <2>. QED
    BY <2>1, <2>2, ServerCall DEF Restore, TourInv, Configure
<1>2. /\ tour' \in TourRecords /\ tour.pc = "restore" /\ tour'.pc = "restored"
      /\ tour'.eventId = tour.eventId /\ tour'.replayId = tour.replayId
      /\ tour'.seen = tour.seen
  BY DEF Restore, Goto, TourInv, TypeOK, TourRecords, Steps
<1>3. SeenWasTrue'
  BY <1>1, <1>2 DEF TourInv, SeenWasTrue
<1>4. StepsInOrder' /\ VerifiedIsTrue'
  BY <1>1, <1>2
  DEF Restore, TourInv, StepsInOrder, Repairing, Repaired, Resumed, VerifiedIsTrue
<1>5. lineage[1].status = "dead_lettered" /\ Len(lineage) >= 1 /\ strategy = "replay"
  <2>1. CASE tour.replayId = 0
    BY <1>2, <2>1, <1>0 DEF TourInv, StepsInOrder, Repaired, Repairing, SeenWasTrue
  <2>2. CASE tour.replayId # 0
    <3>1. Len(lineage) >= 2 /\ strategy = "replay"
      BY <1>2, <2>2 DEF TourInv, SeenWasTrue, StepsInOrder, Repairing
    <3>2. 1 \in 1 .. Len(lineage) /\ 1 < Len(lineage)
      BY <1>0, <3>1
    <3>. QED
      BY <1>0, <3>1, <3>2 DEF TourInv, LineageInOrder
  <2>. QED
    BY <2>1, <2>2
<1>6. Quiet => QuietTour' /\ QuietServer'
  BY <1>1, <1>2, <1>5
  DEF Restore, TourInv, QuietRun, QuietTour, QuietServer, QuietSource, SUCCESS
<1>. QED
  BY <1>1, <1>2, <1>3, <1>4, <1>6, CallStep DEF Restore

\* An answered replay is the second generation.
LEMMA AnsweredReplay ==
    ASSUME TypeOK, LineageInOrder, ReplaySource, ReplayAnswered,
           lineage' \in Seq(DeliveryRecords), LineageInOrder'
    PROVE  OwnReplays' = {2} /\ Len(lineage') >= 2 /\ lineage'[2].key = "tour"
<1>1. Len(lineage) \in Nat /\ Len(lineage') \in Nat
  BY LenProperties DEF TypeOK
<1>2. \A i \in OwnReplays' : i = 2
  BY <1>1 DEF OwnReplays, LineageInOrder
<1>3. Len(lineage') >= 2 /\ lineage'[2].key = "tour"
  <2>1. CASE OwnReplays = {}
    <3>1. Len(lineage) = 1 /\ lineage' = Append(lineage, NewDelivery("tour"))
      BY <2>1 DEF ReplaySource, ReplayAnswered
    <3>. QED
      BY <3>1, Appended, NewDeliveryType DEF Added
  <2>2. CASE OwnReplays # {}
    BY <1>1, <2>2, OwnReplaysAre DEF ReplaySource
  <2>. QED
    BY <2>1, <2>2
<1>4. 2 \in OwnReplays'
  BY <1>1, <1>3 DEF OwnReplays
<1>. QED
  BY <1>2, <1>3, <1>4

LEMMA ReplayKeeps ==
    ASSUME TourInv, NEW step \in {"replay", "recover"}, NEW next,
           next = (IF step = "replay" THEN "reload" ELSE "known"),
           Replay(step, next)
    PROVE  TourInv'
<1>0. /\ tour.pc = step /\ ReplaySource /\ UNCHANGED <<strategy, late, faults>>
      /\ strategy = "replay" /\ tour.eventId
  BY DEF Replay, Effect, Call, TourInv, StepsInOrder, Repairing
<1>1. ServerStep /\ UNCHANGED receiver
  <2>1. Call(step) \in [step : Mutations, endpoint : Nat]
    BY DEF Call, Mutations
  <2>. QED
    BY <1>0, <2>1, ServerCall DEF Replay, ReplaySource, TourInv
<1>2. Extended /\ LineageInOrder' /\ lineage' \in Seq(DeliveryRecords)
  BY <1>0, <1>1, ServerStepEffect DEF TourInv, ServerStep
<1>3. Len(lineage) \in Nat /\ Len(lineage') \in Nat /\ Len(tour.seen) \in Nat
  BY <1>2, LenProperties DEF TourInv, TypeOK
<1>4. ReplayAnswered =>
        /\ (CHOOSE i \in OwnReplays' : TRUE) = 2
        /\ Len(lineage') >= 2 /\ lineage'[2].key = "tour"
  BY <1>0, <1>2, AnsweredReplay DEF TourInv
<1>5. /\ tour' \in TourRecords
      /\ tour'.eventId = tour.eventId /\ tour'.seen = tour.seen
      /\ IF ReplayAnswered THEN tour'.pc = next /\ tour'.replayId = 2
         ELSE tour'.pc = "paused" /\ tour'.replayId = tour.replayId
  <2>1. CASE ReplayAnswered
    <3>1. tour' = [tour EXCEPT !.pc = next, !.replayId = 2]
      BY <1>4, <2>1 DEF Replay
    <3>. QED
      BY <2>1, <3>1 DEF TourInv, TypeOK, TourRecords, Steps
  <2>2. CASE ~ReplayAnswered
    BY <2>2 DEF Replay, TourInv, TypeOK, TourRecords, Steps
  <2>. QED
    BY <2>1, <2>2
<1>6. SeenWasTrue'
  BY <1>3, <1>2, <1>4, <1>5 DEF TourInv, SeenWasTrue, Extended
<1>7. StepsInOrder'
  <2>1. tour.pc = "recover" => Len(tour.seen) >= 2
    BY DEF TourInv, StepsInOrder
  <2>2. Len(tour.seen) >= 1
    BY <1>0 DEF TourInv, StepsInOrder, Repairing
  <2>. QED
    BY <1>0, <1>3, <1>5, <2>1, <2>2
    DEF StepsInOrder, Repairing, Repaired, Resumed
<1>8. VerifiedIsTrue'
  BY <1>5 DEF VerifiedIsTrue
<1>9. Quiet => QuietTour' /\ QuietServer'
  <2>. SUFFICES ASSUME Quiet
                PROVE  QuietTour' /\ QuietServer'
    OBVIOUS
  <2>1. Len(lineage) >= 1 /\ lineage[1].status = "dead_lettered"
        /\ (Len(lineage) >= 2 \/ step = "replay")
    <3>1. CASE step = "replay"
      BY <1>0, <3>1 DEF TourInv, StepsInOrder, SeenWasTrue
    <3>2. CASE step = "recover"
      <4>1. Len(lineage) >= 2
        BY <1>0, <1>3, <3>2 DEF TourInv, StepsInOrder, SeenWasTrue
      <4>2. 1 \in 1 .. Len(lineage) /\ 1 < Len(lineage)
        BY <1>3, <4>1
      <4>3. lineage[1].status = "dead_lettered"
        BY <4>2 DEF TourInv, LineageInOrder
      <4>. QED
        BY <1>3, <4>1, <4>3
    <3>. QED
      BY <3>1, <3>2
  <2>2. Len(lineage) >= 2 => 2 \in OwnReplays
    BY <1>3 DEF Quiet, OwnReplays
  <2>3. Len(lineage) = 1 \/ Len(lineage) >= 2
    BY <1>3, <2>1, OneOrMore
  <2>4. ReplayAnswered
    BY <2>1, <2>2, <2>3 DEF ReplayAnswered
  <2>5. QuietTour'
    BY <1>5, <2>4 DEF QuietTour
  <2>6. receiver'.preset = "success" /\ late' = {}
    BY <1>0, <1>1, <2>1 DEF TourInv, QuietRun, QuietTour, QuietServer
  <2>7. QuietSource'
    BY <1>0, <1>1, <1>2, <1>3, <2>1 DEF QuietSource, Extended, Ended
  <2>8. lineage'[2].status # "dead_lettered"
    <3>1. CASE Len(lineage) >= 2
      BY <2>2, <3>1, <1>0 DEF ReplaySource, TourInv, QuietRun, QuietServer
    <3>2. CASE Len(lineage) = 1
      <4>1. OwnReplays = {}
        BY <3>2, OwnReplaysAre DEF TourInv
      <4>2. lineage' = Append(lineage, NewDelivery("tour"))
        BY <1>0, <2>4, <4>1 DEF ReplaySource
      <4>. QED
        BY <3>2, <4>2, Appended, NewDeliveryType DEF TourInv, Added
    <3>. QED
      BY <2>3, <3>1, <3>2
  <2>. QED
    BY <2>5, <2>6, <2>7, <2>8 DEF QuietServer
<1>. QED
  BY <1>0, <1>1, <1>5, <1>6, <1>7, <1>8, <1>9, CallStep

-----------------------------------------------------------------------------
(* The worker, the other operator and the faults.                          *)

\* The status an attempt leaves.
Verdict(i, lost) ==
    IF \/ strategy = "terminal" /\ ~lost
       \/ (lost \/ receiver.left > 0) /\ lineage[i].attempts + 1 = Budget
    THEN "dead_lettered"
    ELSE IF lost \/ receiver.left > 0 THEN "active" ELSE "delivered"

\* An attempt, lost or not, is made for the latest generation.
LEMMA AttemptEffect ==
    ASSUME TourInv, NEW i \in 1 .. Len(lineage), NEW lost \in BOOLEAN,
           AttemptDelivery(i, lost)
    PROVE  /\ lineage' \in Seq(DeliveryRecords) /\ Len(lineage') = Len(lineage)
           /\ \A j \in 1 .. Len(lineage) : j # i => lineage'[j] = lineage[j]
           /\ i = Len(lineage) /\ lineage[i].status = "active"
           /\ lineage'[i].key = lineage[i].key
           /\ lineage'[i].attempts = lineage[i].attempts + 1
           /\ strategy = "terminal" /\ ~lost => lineage'[i].rejected
           /\ lineage'[i].status = Verdict(i, lost)
           /\ lineage[i].attempts \in Nat
           /\ receiver' \in [preset : {"dead_letter", "recover", "success"}, left : Nat]
           /\ receiver'.preset = receiver.preset
           /\ receiver'.left =
                (IF lost \/ strategy = "terminal" \/ receiver.left = 0 THEN receiver.left
                 ELSE receiver.left - 1)
           /\ UNCHANGED <<strategy, endpoints, published, late, tour>>
<1>. DEFINE rejected == strategy = "terminal" /\ ~lost
            status == Verdict(i, lost)
            q == [lineage[i] EXCEPT !.attempts = @ + 1, !.rejected = rejected,
                                    !.status = status]
<1>1. lineage[i] \in DeliveryRecords /\ Len(lineage) \in Nat
  BY LenProperties, ElementOfSeq DEF TourInv, TypeOK
<1>2. lineage' = [lineage EXCEPT ![i] = q] /\ lineage[i].status = "active"
  BY DEF AttemptDelivery, Verdict
<1>3. status \in {"active", "delivered", "dead_lettered"} /\ rejected \in BOOLEAN
  BY DEF Verdict
<1>4. strategy = "terminal" /\ ~lost => rejected
  OBVIOUS
<1>. HIDE DEF rejected, status
<1>q. q = [lineage[i] EXCEPT !.attempts = @ + 1, !.rejected = rejected, !.status = status]
  BY Zenon
<1>. HIDE DEF q
<1>5. /\ q \in DeliveryRecords /\ q.key = lineage[i].key
      /\ q.attempts = lineage[i].attempts + 1 /\ lineage[i].attempts \in Nat
      /\ q.rejected = rejected /\ q.status = status
  <2>1. lineage[i].attempts \in Nat /\ lineage[i].attempts + 1 \in Nat
    BY <1>1 DEF DeliveryRecords
  <2>2. q \in DeliveryRecords
    BY <1>1, <1>3, <1>q, <2>1, Zenon DEF DeliveryRecords
  <2>3. q.rejected = rejected
    BY <1>1, <1>q, Zenon DEF DeliveryRecords
  <2>4. q.key = lineage[i].key /\ q.attempts = lineage[i].attempts + 1 /\ q.status = status
    BY <1>1, <1>q DEF DeliveryRecords
  <2>. QED
    BY <2>1, <2>2, <2>3, <2>4, Zenon
<1>6. /\ lineage' \in Seq(DeliveryRecords) /\ Len(lineage') = Len(lineage)
      /\ lineage'[i] = q
      /\ \A j \in 1 .. Len(lineage) : j # i => lineage'[j] = lineage[j]
  BY <1>2, <1>5, ExceptSeq DEF TourInv, TypeOK
<1>7. i = Len(lineage)
  BY <1>1, <1>2 DEF TourInv, LineageInOrder
<1>8. /\ receiver' \in [preset : {"dead_letter", "recover", "success"}, left : Nat]
      /\ receiver'.preset = receiver.preset
      /\ receiver'.left =
           (IF lost \/ strategy = "terminal" \/ receiver.left = 0 THEN receiver.left
            ELSE receiver.left - 1)
  <2>1. receiver \in [preset : {"dead_letter", "recover", "success"}, left : Nat]
    BY DEF TourInv, TypeOK
  <2>2. CASE lost \/ strategy = "terminal" \/ receiver.left = 0
    <3>1. receiver' = receiver
      BY <2>2 DEF AttemptDelivery
    <3>. QED
      BY <2>1, <2>2, <3>1
  <2>3. CASE ~(lost \/ strategy = "terminal" \/ receiver.left = 0)
    <3>1. receiver' = [receiver EXCEPT !.left = @ - 1]
      BY <2>3 DEF AttemptDelivery
    <3>. QED
      BY <2>1, <2>3, <3>1
  <2>. QED
    BY <2>2, <2>3
<1>. QED
  BY <1>2, <1>4, <1>5, <1>6, <1>7, <1>8 DEF AttemptDelivery, status

LEMMA AttemptDeliveryKeeps ==
    ASSUME TourInv, NEW i \in 1 .. Len(lineage), NEW lost \in BOOLEAN,
           AttemptDelivery(i, lost), faults' \in Nat,
           IF lost THEN faults' # 0 ELSE faults' = faults
    PROVE  TourInv'
<1>0. Len(lineage) \in Nat
  BY LenProperties DEF TourInv, TypeOK
<1>1. TypeOK'
  BY AttemptEffect DEF TourInv, TypeOK
<1>2. Extended
  BY <1>0, AttemptEffect DEF Extended, Ended
<1>3. LineageInOrder'
  <2>1. lineage[i].attempts < Budget
    BY AttemptEffect DEF TourInv, LineageInOrder
  <2>2. lineage'[i].status = "active" => lineage'[i].attempts < Budget
    <3>1. lineage'[i].status = "active" => lineage[i].attempts + 1 # Budget
      BY AttemptEffect DEF Verdict
    <3>2. lineage[i].attempts + 1 # Budget => lineage[i].attempts + 1 < Budget
      BY <2>1, AttemptEffect, TourAssumption
    <3>. QED
      BY <3>1, <3>2, AttemptEffect
  <2>3. receiver'.preset = "success" => receiver'.left = 0
    BY AttemptEffect DEF TourInv, LineageInOrder, TypeOK
  <2>4. \A j \in 1 .. Len(lineage') :
          /\ lineage'[j].key = lineage[j].key
          /\ j < Len(lineage') => lineage'[j] = lineage[j]
          /\ j = i \/ lineage'[j] = lineage[j]
    BY <1>0, AttemptEffect
  <2>5. OneEvent'
    BY AttemptEffect DEF TourInv, LineageInOrder, OneEvent
  <2>. QED
    BY <1>0, <2>2, <2>3, <2>4, <2>5, AttemptEffect DEF TourInv, LineageInOrder
<1>4. SeenWasTrue' /\ StepsInOrder' /\ VerifiedIsTrue'
  BY <1>2, <1>3, AttemptEffect, KnowledgeStays DEF TourInv
<1>5. QuietRun'
  <2>. SUFFICES ASSUME Quiet'
                PROVE  QuietTour' /\ QuietServer'
    BY DEF QuietRun
  <2>1. ~lost /\ faults' = faults
    BY DEF Quiet
  <2>2. Quiet
    BY <1>2, <2>1, AttemptEffect, QuietBefore DEF TourInv
  <2>3. QuietTour /\ QuietServer
    BY <2>2 DEF TourInv, QuietRun
  <2>4. lineage # <<>> /\ Len(lineage) >= 1
    BY <1>0
  <2>5. QuietTour'
    BY <2>3, <2>4, AttemptEffect DEF QuietTour
  <2>6. QuietSource'
    <3>1. CASE i = 1
      <4>1. QuietSource /\ lineage[1].attempts < Budget
        BY <2>3, <2>4, <3>1, AttemptEffect DEF QuietServer, TourInv, LineageInOrder
      <4>2. receiver.left \in Nat
        BY DEF TourInv, TypeOK
      <4>3. CASE strategy = "terminal"
        BY <2>1, <3>1, <4>1, <4>3, AttemptEffect DEF QuietSource, Verdict
      <4>4. CASE strategy = "automatic"
        BY <2>1, <3>1, <4>1, <4>2, <4>4, AttemptEffect, TourAssumption DEF QuietSource, Verdict
      <4>5. CASE strategy = "replay"
        BY <2>1, <3>1, <4>1, <4>2, <4>5, AttemptEffect, TourAssumption DEF QuietSource, Verdict
      <4>. QED
        BY <4>3, <4>4, <4>5, TourAssumption DEF TourInv, TypeOK
    <3>2. CASE i # 1
      <4>1. lineage'[1] = lineage[1] /\ lineage[1].status = "dead_lettered"
        BY <1>0, <3>2, AttemptEffect DEF TourInv, LineageInOrder
      <4>. QED
        BY <2>3, <2>4, <4>1, AttemptEffect DEF QuietServer, QuietSource
    <3>. QED
      BY <3>1, <3>2
  <2>7. Len(lineage) >= 2 =>
          receiver'.preset = "success" /\ lineage'[2].status # "dead_lettered"
    <3>. SUFFICES ASSUME Len(lineage) >= 2
                  PROVE  receiver'.preset = "success" /\ lineage'[2].status # "dead_lettered"
      OBVIOUS
    <3>0. Len(lineage) <= 2 /\ (Len(lineage) = 2 => strategy = "replay")
      BY <2>2, QuietLineage
    <3>1. Len(lineage) = 2 /\ strategy = "replay"
      BY <1>0, <3>0, JustTwo
    <3>2. receiver.preset = "success" /\ receiver.left = 0
      BY <2>3 DEF QuietServer, TourInv, LineageInOrder
    <3>. QED
      BY <2>1, <3>1, <3>2, AttemptEffect DEF Verdict
  <2>. QED
    BY <2>3, <2>5, <2>6, <2>7, AttemptEffect DEF QuietServer
<1>. QED
  BY <1>1, <1>3, <1>4, <1>5 DEF TourInv

LEMMA OtherReplayKeeps ==
    ASSUME TourInv, OtherReplay
    PROVE  TourInv'
<1>0. Len(lineage) \in Nat /\ Len(lineage') \in Nat /\ Len(lineage) >= 1
  BY LenProperties, EmptySeq, AppendProperties, NewDeliveryType
  DEF TourInv, TypeOK, OtherReplay
<1>1. lineage' \in Seq(DeliveryRecords) /\ Added("other")
  BY Appended DEF TourInv, OtherReplay
<1>2. /\ NewDelivery("other").key = "other" /\ NewDelivery("other").status = "active"
      /\ NewDelivery("other").attempts = 0
  BY NewDeliveryType
<1>3. TypeOK'
  BY <1>1 DEF TourInv, TypeOK, OtherReplay
<1>4. Extended
  BY <1>0, <1>1 DEF Added, Extended
<1>5. LineageInOrder'
  <2>1. \A i \in 1 .. Len(lineage') :
          \/ i \in 1 .. Len(lineage) /\ lineage'[i] = lineage[i]
          \/ i = Len(lineage') /\ lineage'[i] = NewDelivery("other") /\ i >= 2
    BY <1>0, <1>1 DEF Added
  <2>2. \A i \in 1 .. Len(lineage) : lineage[i].status = "dead_lettered"
    BY <1>0 DEF TourInv, LineageInOrder, OtherReplay
  <2>3. OneEvent'
    BY <1>0, <1>1 DEF TourInv, LineageInOrder, OneEvent, OtherReplay, Added
  <2>. QED
    BY <1>0, <1>2, <2>1, <2>2, <2>3, TourAssumption DEF TourInv, LineageInOrder, OtherReplay
<1>6. SeenWasTrue' /\ StepsInOrder' /\ VerifiedIsTrue'
  BY <1>1, <1>4, <1>5, KnowledgeStays DEF TourInv, OtherReplay
<1>7. ~Quiet'
  <2>1. Len(lineage') \in 1 .. Len(lineage') /\ lineage'[Len(lineage')].key = "other"
    BY <1>0, <1>1, <1>2 DEF Added
  <2>. QED
    BY <2>1 DEF Quiet
<1>. QED
  BY <1>3, <1>5, <1>6, <1>7 DEF TourInv, QuietRun

LEMMA OtherEndpointKeeps ==
    ASSUME TourInv, OtherEndpoint
    PROVE  TourInv'
<1>1. UNCHANGED <<strategy, receiver, published, lineage, late, tour, faults>>
  BY DEF OtherEndpoint, Register
<1>2. TypeOK'
  BY <1>1, RegisterEffect DEF OtherEndpoint, TourInv, TypeOK
<1>. QED
  BY <1>1, <1>2
  DEF TourInv, LineageInOrder, OneEvent, SeenWasTrue, StepsInOrder, Repaired, Resumed,
      QuietRun, Quiet, QuietTour, QuietServer, QuietSource, Scenario, VerifiedIsTrue,
      OwnReplays

LEMMA ArriveKeeps ==
    ASSUME TourInv, Arrive
    PROVE  TourInv'
<1>1. PICK call \in late : Effect(call) /\ late' = late \ {call}
  BY DEF Arrive
<1>2. ServerStep
  BY <1>1, ServerCall DEF TourInv, TypeOK, LineageInOrder
<1>3. Extended /\ LineageInOrder' /\ lineage' \in Seq(DeliveryRecords)
  BY <1>1, <1>2, ServerStepEffect DEF TourInv, Arrive, ServerStep
<1>4. TypeOK'
  BY <1>1, <1>2 DEF TourInv, TypeOK, Arrive, ServerStep
<1>5. SeenWasTrue' /\ StepsInOrder' /\ VerifiedIsTrue'
  BY <1>3, KnowledgeStays DEF TourInv, Arrive
<1>6. ~Quiet'
  <2>1. ~Quiet
    BY <1>1 DEF TourInv, QuietRun, QuietServer
  <2>. QED
    BY <1>3, <2>1, QuietBefore DEF TourInv, Arrive
<1>. QED
  BY <1>3, <1>4, <1>5, <1>6 DEF TourInv, QuietRun

LEMMA FaultKeeps ==
    ASSUME TourInv, Fault
    PROVE  TourInv'
<1>1. faults' \in Nat /\ faults' # 0 /\ ~Quiet'
  BY DEF Fault, TourInv, TypeOK, Quiet
<1>2. CASE Interrupt
  <2>1. /\ tour' \in TourRecords /\ tour'.pc = "paused" /\ tour'.seen = tour.seen
        /\ tour'.eventId = tour.eventId /\ tour'.replayId = tour.replayId
    BY <1>2 DEF Interrupt, TourInv, TypeOK, TourRecords, Steps
  <2>2. TypeOK'
    <3>1. \A step \in Mutations : Call(step) \in [step : Mutations, endpoint : Nat]
      BY DEF Call, TourInv, TypeOK
    <3>2. late' \in SUBSET [step : Mutations, endpoint : Nat]
      BY <1>2, <3>1 DEF Interrupt, TourInv, TypeOK
    <3>. QED
      BY <1>1, <1>2, <2>1, <3>2 DEF Interrupt, server, TourInv, TypeOK, TourRecords
  <2>3. LineageInOrder'
    <3>1. \A call \in late' : call.step \in {"replay", "recover"} => strategy = "replay"
      BY <1>2 DEF Interrupt, Call, TourInv, LineageInOrder, StepsInOrder, Repairing
    <3>. QED
      BY <1>2, <3>1 DEF Interrupt, server, TourInv, LineageInOrder, OneEvent
  <2>4. SeenWasTrue'
    BY <1>2, <2>1 DEF Interrupt, server, TourInv, SeenWasTrue
  <2>5. StepsInOrder' /\ VerifiedIsTrue'
    BY <2>1 DEF StepsInOrder, Repairing, Repaired, Resumed, VerifiedIsTrue
  <2>. QED
    BY <1>1, <2>2, <2>3, <2>4, <2>5 DEF TourInv, QuietRun
<1>3. CASE ForgetRun
  <2>1. TypeOK'
    BY <1>1, <1>3, ScenarioType DEF ForgetRun, TourInv, TypeOK
  <2>2. LineageInOrder'
    BY <1>3, ScenarioType DEF ForgetRun, TourInv, LineageInOrder, OneEvent
  <2>3. SeenWasTrue' /\ StepsInOrder'
    BY <1>3 DEF ForgetRun, TourInv, SeenWasTrue, StepsInOrder, Repaired, Resumed
  <2>4. VerifiedIsTrue'
    BY <1>3 DEF ForgetRun, TourInv, VerifiedIsTrue, OwnReplays
  <2>. QED
    BY <1>1, <2>1, <2>2, <2>3, <2>4 DEF TourInv, QuietRun
<1>4. CASE LoseAttempt
  <2>1. PICK i \in 1 .. Len(lineage) : AttemptDelivery(i, TRUE)
    BY <1>4 DEF LoseAttempt
  <2>. QED
    BY <1>1, <2>1, AttemptDeliveryKeeps
<1>. QED
  BY <1>2, <1>3, <1>4 DEF Fault

-----------------------------------------------------------------------------
LEMMA InitTour ==
    ASSUME Init
    PROVE  TourInv
<1>1. Len(<<>>) = 0 /\ <<>> \in Seq(DeliveryRecords)
  BY EmptySeq
<1>2. TypeOK
  BY <1>1, TourAssumption DEF Init, TypeOK, SUCCESS, Steps
<1>. QED
  BY <1>1, <1>2
  DEF Init, TourInv, LineageInOrder, OneEvent, SeenWasTrue, StepsInOrder, Repairing, Repaired,
      Resumed, QuietRun, Quiet, QuietTour, QuietServer, VerifiedIsTrue, SUCCESS

LEMMA NextKeeps ==
    ASSUME TourInv, [Next]_vars
    PROVE  TourInv'
<1>1. CASE Begin \/ ConfirmConfigured \/ LoadEvent \/ Inspect \/ Follow \/ ReadEvidence
  BY <1>1, BeginKeeps, ConfirmConfiguredKeeps, LoadEventKeeps, InspectKeeps,
     FollowKeeps, ReadEvidenceKeeps
<1>2. CASE Await \/ CheckReceiver \/ ConfirmRestored \/ Reload \/ Watch
  BY <1>2, AwaitKeeps, CheckReceiverKeeps, ConfirmRestoredKeeps, ReloadKeeps, WatchKeeps
<1>3. CASE ConfigureReceiver \/ ListEndpoints \/ CreateEndpoint \/ Publish \/ Restore
  BY <1>3, ConfigureReceiverKeeps, ListEndpointsKeeps, CreateEndpointKeeps, PublishKeeps,
     RestoreKeeps
<1>4. CASE Replay("replay", "reload")
  BY <1>4, ReplayKeeps
<1>5. CASE Replay("recover", "known")
  BY <1>5, ReplayKeeps
<1>6. CASE Attempt
  <2>1. PICK i \in 1 .. Len(lineage) : AttemptDelivery(i, FALSE) /\ UNCHANGED faults
    BY <1>6 DEF Attempt
  <2>. QED
    BY <2>1, AttemptDeliveryKeeps DEF TourInv, TypeOK
<1>7. CASE OtherReplay \/ OtherEndpoint \/ Arrive \/ Fault
  BY <1>7, OtherReplayKeeps, OtherEndpointKeeps, ArriveKeeps, FaultKeeps
<1>8. CASE UNCHANGED vars
  BY <1>8
  DEF vars, TourInv, TypeOK, LineageInOrder, OneEvent, SeenWasTrue, StepsInOrder, Repaired, Resumed,
      QuietRun, Quiet, QuietTour, QuietServer, QuietSource, Scenario, VerifiedIsTrue,
      OwnReplays
<1>. QED
  BY <1>1, <1>2, <1>3, <1>4, <1>5, <1>6, <1>7, <1>8 DEF Next, TourStep

\* Every reachable state of a tour satisfies the inductive invariant.
THEOREM TourInvariant == Spec => []TourInv
<1>1. Init => TourInv
  BY InitTour
<1>2. TourInv /\ [Next]_vars => TourInv'
  BY NextKeeps
<1>. QED
  BY <1>1, <1>2, PTL DEF Spec

\* A run never has two events or two replays of its own, whatever calls are
\* lost, repeated or late.
THEOREM RunIsNeverDoubled == Spec => []RunIsNotDoubled
<1>1. TourInv => RunIsNotDoubled
  <2>. SUFFICES ASSUME TourInv
                PROVE  RunIsNotDoubled
    OBVIOUS
  <2>1. published = {} \/ \E event \in published : published = {event}
    BY DEF TourInv, LineageInOrder, OneEvent
  <2>2. OwnReplays = {} \/ OwnReplays = {2}
    BY OwnReplaysAre DEF TourInv
  <2>3. Cardinality({}) = 0 /\ Cardinality({2}) = 1
        /\ \A event \in published : Cardinality({event}) = 1
    BY FS_EmptySet, FS_Singleton
  <2>4. Cardinality(published) <= 1
    BY <2>1, <2>3
  <2>5. Cardinality(OwnReplays) <= 1
    BY <2>2, <2>3
  <2>. QED
    BY <2>4, <2>5 DEF RunIsNotDoubled
<1>. QED
  BY <1>1, TourInvariant, PTL

\* What a tour reports as verified is true of the database, and stays true.
THEOREM VerifiedIsAlwaysTrue == Spec => []VerifiedIsTrue
<1>1. TourInv => VerifiedIsTrue
  BY DEF TourInv
<1>. QED
  BY <1>1, TourInvariant, PTL

\* A tour pauses or fails only after a fault or another operator's replay.
THEOREM FailureAlwaysHasACause == Spec => []FailureHasACause
<1>1. TourInv => FailureHasACause
  <2>. SUFFICES ASSUME TourInv, tour.pc \in {"paused", "failed"}
                PROVE  faults > 0 \/ \E i \in 1 .. Len(lineage) : lineage[i].key = "other"
    BY DEF FailureHasACause
  <2>1. ~Quiet
    BY DEF TourInv, QuietRun, QuietTour
  <2>2. faults \in Nat
    BY DEF TourInv, TypeOK
  <2>3. \A i \in 1 .. Len(lineage) : lineage[i].key \in {"tour", "other"}
    <3>1. \A i \in 1 .. Len(lineage) : lineage[i] \in DeliveryRecords
      BY ElementOfSeq DEF TourInv, TypeOK
    <3>. QED
      BY <3>1 DEF DeliveryRecords
  <2>. QED
    BY <2>1, <2>2, <2>3 DEF Quiet
<1>. QED
  BY <1>1, TourInvariant, PTL
=============================================================================
