---------------------------- MODULE ReceiverLab ----------------------------
(***************************************************************************)
(* Receiver Lab (receiver_lab/api.py): the in-memory registry of demo runs *)
(* with its bound, the scripted failures of each run, and the evidence it  *)
(* keeps of the webhooks it answered.  Every handler changes the state     *)
(* under one asyncio.Lock, so a handler is one step; its delay comes after *)
(* the lock is released and changes nothing.                               *)
(***************************************************************************)
EXTENDS Integers, Sequences, FiniteSets, SequencesExt, ReceiverContract

CONSTANTS
    Runs,                \* demo run ids
    Default,             \* stands for a request without a run id
    MAX_SCOPED_RUNS,     \* runs kept
    MAX_REQUESTS_PER_RUN,\* evidence kept per run
    Configurations,      \* configurations the control plane sends
    Bodies,              \* webhook bodies
    Channels,            \* receiver routes, and "none" for /webhooks
    MaxTouches           \* bound on the requests Receiver Lab handles

ASSUME ReceiverAssumption ==
    /\ MAX_SCOPED_RUNS \in Nat \ {0} /\ MAX_REQUESTS_PER_RUN \in Nat \ {0}
    /\ Default \notin Runs /\ MaxTouches \in Nat
    /\ \A c \in Configurations :
          /\ c.mode \in {"success", "fail_then_succeed", "rate_limited", "timeout",
                         "permanent_failure"}
          /\ c.failures \in 0 .. 20

VARIABLES
    scoped,     \* the ids of the scoped runs, least recently used first
    run,        \* run[x]: the state of a scoped run or of Default
    script,     \* history: the answers x got since it was configured
    touched,    \* history: when each run id was last used, 0 if never
    clock       \* history: how many requests were handled

vars == <<scoped, run, script, touched, clock>>

PlainConfiguration == [mode |-> "success", failures |-> 0]

\* A pristine ReceiverRunState.
NewRun == [configuration |-> PlainConfiguration, attempts |-> 0, sequence |-> 0,
           requests |-> << >>]

Init ==
    /\ scoped = << >>
    /\ run = [x \in Runs \cup {Default} |-> NewRun]
    /\ script = [x \in Runs \cup {Default} |-> << >>]
    /\ touched = [x \in Runs |-> 0]
    /\ clock = 0

Known(x) == Contains(scoped, x)

\* pop(run_id) and insert it again at the end.
Refreshed(x) == Append(RemoveFirst(scoped, x), x)

\* popitem(last=False) while the registry is too large.
Bounded(order) ==
    IF Len(order) > MAX_SCOPED_RUNS
    THEN SubSeq(order, Len(order) - MAX_SCOPED_RUNS + 1, Len(order))
    ELSE order

\* One request is handled; x was used if it is a run id.
Touch(x) ==
    /\ clock < MaxTouches
    /\ clock' = clock + 1
    /\ touched' = IF x = Default THEN touched ELSE [touched EXCEPT ![x] = clock + 1]

-----------------------------------------------------------------------------
\* configured_state: the registry after a control-plane request for x, and
\* the state it works on.  An evicted run loses its state.
ConfiguredOrder(x) == IF x = Default THEN scoped ELSE Bounded(Refreshed(x))
ConfiguredState(x) == IF x = Default \/ Known(x) THEN run[x] ELSE NewRun

\* The runs after a control-plane request that leaves x in `state`.
Keeping(x, state) ==
    [y \in Runs \cup {Default} |->
        IF y = x THEN state
        ELSE IF y = Default \/ Contains(ConfiguredOrder(x), y) THEN run[y]
        ELSE NewRun]

\* Mutant: a new configuration keeps the count of the old one.
ConfigureKeepingCount(x, configuration) ==
    /\ Touch(x)
    /\ scoped' = ConfiguredOrder(x)
    /\ run' = Keeping(x, [ConfiguredState(x) EXCEPT !.configuration = configuration])
    /\ script' = [script EXCEPT ![x] = << >>]

\* PUT /control
Configure(x, configuration) ==
    /\ Touch(x)
    /\ scoped' = ConfiguredOrder(x)
    /\ run' = Keeping(x, [ConfiguredState(x) EXCEPT !.configuration = configuration,
                                                    !.attempts = 0])
    /\ script' = [script EXCEPT ![x] = << >>]

\* GET /control and GET /requests also create the run, and may evict another.
Inspect(x) ==
    /\ Touch(x)
    /\ scoped' = ConfiguredOrder(x)
    /\ run' = Keeping(x, ConfiguredState(x))
    /\ script' = [script EXCEPT ![x] = IF x = Default \/ Known(x) THEN @ ELSE << >>]

-----------------------------------------------------------------------------
\* webhook_state: an unknown run id falls back to the default state.
WebhookOwner(x) == IF x # Default /\ Known(x) THEN x ELSE Default

\* Mutant: a webhook does not count as a use of its run.
WebhookOrderUnchanged(x) == scoped

WebhookOrder(x) == IF WebhookOwner(x) = Default THEN scoped ELSE Refreshed(x)

\* The validation a webhook gets under a configuration.
Judgement(body, channel, configuration) ==
    PayloadError(body, channel,
                 channel # "none" \/ configuration.mode = "permanent_failure")

\* The status a valid or invalid webhook gets as attempt number `attempt`.
ResponseStatus(configuration, attempt, code) ==
    IF code # NoError THEN 400
    ELSE IF /\ configuration.mode = "rate_limited"
            /\ configuration.failures = 0 \/ attempt <= configuration.failures
         THEN 429
    ELSE IF configuration.mode = "fail_then_succeed" /\ attempt <= configuration.failures
         THEN 503
    ELSE 200

\* Mutant: the oldest evidence is kept.
TrimmedOldest(requests) ==
    SubSeq(requests, 1, IF Len(requests) > MAX_REQUESTS_PER_RUN
                        THEN MAX_REQUESTS_PER_RUN ELSE Len(requests))

\* run.requests[-MAX_REQUESTS_PER_RUN:]
Trimmed(requests) ==
    IF Len(requests) > MAX_REQUESTS_PER_RUN
    THEN SubSeq(requests, Len(requests) - MAX_REQUESTS_PER_RUN + 1, Len(requests))
    ELSE requests

\* POST /webhooks and POST /webhooks/{receiver_channel}
ReceiveWebhook(x, body, channel) ==
    LET owner == WebhookOwner(x)
        state == run[owner]
        code == Judgement(body, channel, state.configuration)
        evidence == [sequence |-> state.sequence + 1, code |-> code,
                     status |-> ResponseStatus(state.configuration,
                                               state.attempts + 1, code)]
    IN  /\ Touch(IF owner = Default THEN Default ELSE x)
        /\ scoped' = WebhookOrder(x)
        /\ run' = [run EXCEPT
              ![owner].attempts = @ + 1, ![owner].sequence = @ + 1,
              ![owner].requests = Trimmed(Append(@, evidence))]
        /\ script' = [script EXCEPT ![owner] = Append(@, evidence)]

\* The process starts again and remembers nothing.
Restart ==
    /\ Touch(Default)
    /\ scoped' = << >>
    /\ run' = [x \in Runs \cup {Default} |-> NewRun]
    /\ script' = [x \in Runs \cup {Default} |-> << >>]

\* The bound on the length of a behaviour is reached.
Finished == clock = MaxTouches /\ UNCHANGED vars

Next ==
    \/ \E x \in Runs \cup {Default} :
          \/ \E configuration \in Configurations : Configure(x, configuration)
          \/ Inspect(x)
          \/ \E body \in Bodies, channel \in Channels : ReceiveWebhook(x, body, channel)
    \/ Restart
    \/ Finished

Spec == Init /\ [][Next]_vars

-----------------------------------------------------------------------------
(* Properties.                                                             *)

\* The modes that count failures, with a count of zero left out: it means
\* "always" to the one and "never" to the other.
Scripted(configuration) ==
    configuration.mode \in {"fail_then_succeed", "rate_limited"} /\ configuration.failures > 0

\* A run's scripted failures are its own.  Of the webhooks since the run was last
\* configured, by the configuration it then got, the first `failures` fail and
\* all later ones succeed, but for bodies that are refused (which count),
\* whatever other runs, unknown runs and the control plane do in between, for as
\* long as the run is not evicted.
ScriptIsFollowed ==
    \A x \in Runs :
        LET configuration == run[x].configuration
            failure == IF configuration.mode = "rate_limited" THEN 429 ELSE 503
        IN  Known(x) /\ Scripted(configuration) =>
              \A i \in DOMAIN script[x] :
                script[x][i].status =
                    IF script[x][i].code # NoError THEN 400
                    ELSE IF i <= configuration.failures THEN failure ELSE 200

\* The evidence of a run is the unbroken tail of what it received, and neither
\* it nor the registry of runs outgrows its bound, whatever is asked for.
EvidenceIsTheTail ==
    /\ Len(scoped) <= MAX_SCOPED_RUNS
    /\ \A x \in Runs \cup {Default} :
        LET kept == run[x].requests
        IN  /\ Len(kept) = 0 <=> run[x].sequence = 0
            /\ Len(kept) <= MAX_REQUESTS_PER_RUN
            /\ \A i \in DOMAIN kept :
                  kept[i].sequence = run[x].sequence - (Len(kept) - i)

\* Only a run that no kept run is older than is evicted: a run in use is not
\* pushed out while idle ones stay.
EvictsTheIdlest ==
    [][scoped' # << >> =>
        \A x \in Runs : Known(x) /\ ~Contains(scoped', x) =>
            \A y \in Range(scoped') : touched'[y] > touched[x]]_vars

\* "Recognize Receiver Lab evidence that proves the immutable body is invalid":
\* a webhook refused for its body, not for its route, blocks a replay.
InvalidBodiesBlockReplay ==
    \A x \in Runs \cup {Default} : \A i \in DOMAIN run[x].requests :
        LET evidence == run[x].requests[i]
        IN  evidence.status = 400 /\ evidence.code # Code("wrong", "receiver_route") =>
                BlocksReplay(evidence.status, evidence.code)
=============================================================================
