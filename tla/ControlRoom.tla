---------------------------- MODULE ControlRoom ----------------------------
(***************************************************************************)
(* The Control Room's reads (control_room.py): cursor paging over events,  *)
(* dead letters and endpoints, and the overview, against a database that   *)
(* publishers, workers, replays and retention go on changing.              *)
(*                                                                         *)
(* Every statement sees what is committed when it starts.  A timestamp is  *)
(* that of its transaction's start, so rows appear out of timestamp order. *)
(* Readers change nothing, so one reader is enough.                        *)
(***************************************************************************)
EXTENDS DeliveryStates, Integers, FiniteSets

CONSTANTS
    EventIds,         \* the identities that events, ...
    DeliveryIds,      \* ... deliveries ...
    EndpointIds,      \* ... and endpoints may draw; random, and ordered
    MaxClock,         \* bound on time
    Limit,            \* the page size asked for
    Kinds             \* what the reader may read

ASSUME ControlRoomAssumption ==
    /\ Limit \in Nat \ {0} /\ MaxClock \in Nat
    /\ EventIds \cup DeliveryIds \cup EndpointIds \subseteq Nat
    /\ Kinds \subseteq {"overview", "events", "failed_events", "dead_letters", "endpoints"}

VARIABLES
    clock,
    events,       \* committed events: [id, at]
    deliveries,   \* committed deliveries: [id, event, generation, status, at]
    endpoints,    \* committed endpoints: [id, at]
    drawn,        \* the identities used up, by table; a purged row's stays so
    reader

vars == <<clock, events, deliveries, endpoints, drawn, reader>>

database == <<events, deliveries, endpoints, drawn>>

Counts == [events |-> 0, endpoints |-> 0, latest |-> 0, failed |-> 0, actionable |-> 0]

Identities == EventIds \cup DeliveryIds \cup EndpointIds

\* A page's `cursor` is the sort key to go on from.  `shown` counts how often an
\* item was shown: never, once or more often.  History: `kept`, what the list
\* has held ever since the reader started; `disturbed`, a commit since.
NoReader ==
    [kind |-> "none", pc |-> "idle", cursor |-> <<>>, shown |-> [id \in Identities |-> 0],
     kept |-> {}, counts |-> Counts, disturbed |-> FALSE]

Init ==
    /\ clock = 0 /\ events = {} /\ deliveries = {} /\ endpoints = {}
    /\ drawn = [events |-> {}, deliveries |-> {}, endpoints |-> {}]
    /\ reader = NoReader

-----------------------------------------------------------------------------
\* Mutant: every generation is listed.
LatestGenerationOrOlder(d) == TRUE

LatestGeneration(d) ==
    ~\E newer \in deliveries :
        newer.event = d.event /\ newer.generation > d.generation

\* list_events joins each event with its latest delivery; the status filter
\* is the only one whose answer changes.
EventRows(statuses) ==
    LET joined == {p \in events \X deliveries : /\ p[2].event = p[1].id
                                                /\ p[2].status \in statuses
                                                /\ LatestGeneration(p[2])}
    IN  {[at |-> p[1].at, id |-> p[1].id, delivery |-> p[2].id] : p \in joined}

ActionableDeadLetters ==
    {d \in deliveries : d.status = "dead_lettered" /\ LatestGeneration(d)}

DeadLetterRows == {[at |-> d.at, id |-> d.id, delivery |-> d.id] : d \in ActionableDeadLetters}

EndpointRows == {[at |-> e.at, id |-> e.id, delivery |-> 0] : e \in endpoints}

Rows(kind) ==
    CASE kind = "events" -> EventRows(DeliveryStatuses)
      [] kind = "failed_events" -> EventRows({"dead_lettered"})
      [] kind = "dead_letters" -> DeadLetterRows
      [] kind = "endpoints" -> EndpointRows
      [] OTHER -> {}

Listed(kind) == {row.id : row \in Rows(kind)}

\* Strictly below the cursor in the order (timestamp, id).
Below(row, cursor) ==
    \/ cursor = <<>>
    \/ row.at < cursor[1]
    \/ row.at = cursor[1] /\ row.id < cursor[2]

\* What an opaque cursor carries; decode_cursor gives back what encode_cursor took.
CursorOf(row) == <<row.at, row.id>>

\* Mutant: the page starts at the cursor's row.
FetchInclusive(kind, cursor) ==
    {row \in Rows(kind) : Below(row, cursor) \/ CursorOf(row) = cursor}

\* Mutant: the cursor's timestamp alone bounds the next page.
FetchByTimestamp(kind, cursor) ==
    {row \in Rows(kind) : cursor = <<>> \/ row.at < cursor[1]}

\* The rows a statement selects, of which it returns the newest limit + 1.
Fetch(kind, cursor) == {row \in Rows(kind) : Below(row, cursor)}

\* The newest of the rows, down to `last`.
DownTo(last, rows) == {row \in rows : ~Below(row, CursorOf(last))}

-----------------------------------------------------------------------------
Start(kind) ==
    /\ reader.pc = "idle"
    /\ reader' = [NoReader EXCEPT !.kind = kind, !.kept = Listed(kind),
                                  !.pc = IF kind = "overview" THEN "events" ELSE "paging"]
    /\ UNCHANGED <<clock, database>>

Smaller(a, b) == IF a < b THEN a ELSE b

Show(rows) ==
    [id \in Identities |->
        IF \E row \in rows : row.id = id THEN Smaller(reader.shown[id] + 1, 2)
                                         ELSE reader.shown[id]]

\* One page.  With more than limit rows the newest limit are shown, and the last
\* of them is the next cursor; otherwise all are shown and there is none.
ReadPage ==
    LET rows == Fetch(reader.kind, reader.cursor)
    IN  /\ reader.pc = "paging"
        /\ \/ /\ Cardinality(rows) > Limit
              /\ \E last \in rows :
                     /\ Cardinality(DownTo(last, rows)) = Limit
                     /\ reader' = [reader EXCEPT !.shown = Show(DownTo(last, rows)),
                                                 !.cursor = CursorOf(last)]
           \/ /\ Cardinality(rows) <= Limit
              /\ reader' = [reader EXCEPT !.shown = Show(rows), !.cursor = <<>>,
                                          !.pc = "ended"]
        /\ UNCHANGED <<clock, database>>

\* The overview's statements, one after the other.
Count(pc, counts, next) ==
    /\ reader.pc = pc
    /\ reader' = [reader EXCEPT !.counts = counts, !.pc = next]
    /\ UNCHANGED <<clock, database>>

CountEvents ==
    Count("events", [reader.counts EXCEPT !.events = Cardinality(events)], "endpoints")

CountEndpoints ==
    Count("endpoints", [reader.counts EXCEPT !.endpoints = Cardinality(endpoints)], "statuses")

CountStatuses ==
    LET latest == {d \in deliveries : LatestGeneration(d)}
    IN  Count("statuses",
              [reader.counts EXCEPT
                 !.latest = Cardinality(latest),
                 !.failed = Cardinality({d \in latest : d.status = "dead_lettered"})],
              "actionable")

CountActionable ==
    Count("actionable",
          [reader.counts EXCEPT !.actionable = Cardinality(ActionableDeadLetters)], "ended")

-----------------------------------------------------------------------------
\* The rest of the system, as the reader meets it: what a commit changes.

NewDelivery(id, event, generation) ==
    [id |-> id, event |-> event, generation |-> generation, status |-> "pending", at |-> 0]

\* EventService.publish commits an event and its first delivery.
Publish ==
    /\ \E id \in EventIds \ drawn.events, d \in DeliveryIds \ drawn.deliveries, at \in 0..clock :
           /\ events' = events \cup {[id |-> id, at |-> at]}
           /\ deliveries' = deliveries \cup {NewDelivery(d, id, 0)}
           /\ drawn' = [drawn EXCEPT !.events = @ \cup {id}, !.deliveries = @ \cup {d}]
    /\ UNCHANGED <<clock, endpoints>>

\* A worker moves a delivery on; updated_at is kept for dead letters, the only
\* rows it orders.
Progress ==
    /\ \E d \in deliveries : \E status \in ALLOWED_TRANSITIONS[d.status], at \in 0..clock :
           deliveries' = (deliveries \ {d}) \cup
               {[d EXCEPT !.status = status,
                          !.at = IF status = "dead_lettered" THEN at ELSE 0]}
    /\ UNCHANGED <<clock, events, endpoints, drawn>>

\* ReplayService appends a generation and leaves the source as it is.
Replay ==
    /\ \E d \in ActionableDeadLetters, id \in DeliveryIds \ drawn.deliveries :
           /\ deliveries' = deliveries \cup {NewDelivery(id, d.event, d.generation + 1)}
           /\ drawn' = [drawn EXCEPT !.deliveries = @ \cup {id}]
    /\ UNCHANGED <<clock, events, endpoints>>

\* Retention deletes an event whose deliveries it saw to be terminal, with all
\* of them: a replay that was committed meanwhile goes too (ReplayRetention).
Purge ==
    /\ \E e \in events :
           LET own == {d \in deliveries : d.event = e.id}
           IN  /\ \A d \in own : d.status \in Terminal \/ d.generation > 0
               /\ events' = events \ {e}
               /\ deliveries' = deliveries \ own
    /\ UNCHANGED <<clock, endpoints, drawn>>

\* EndpointService.create, for a URL of the Receiver Lab; others change nothing.
CreateEndpoint ==
    /\ \E id \in EndpointIds \ drawn.endpoints, at \in 0..clock :
           /\ endpoints' = endpoints \cup {[id |-> id, at |-> at]}
           /\ drawn' = [drawn EXCEPT !.endpoints = @ \cup {id}]
    /\ UNCHANGED <<clock, events, deliveries>>

Tick ==
    /\ clock < MaxClock
    /\ clock' = clock + 1
    /\ UNCHANGED <<database, reader>>

\* What the history variables note of a commit.
Observe ==
    \E kind \in {reader.kind} :
        reader' = IF reader.pc \in {"idle", "ended"} THEN reader
                  ELSE [reader EXCEPT !.kept = @ \cap Listed(kind)', !.disturbed = TRUE]

Read ==
    \/ \E kind \in Kinds : Start(kind)
    \/ ReadPage
    \/ CountEvents \/ CountEndpoints \/ CountStatuses \/ CountActionable

Next ==
    \/ Tick
    \/ Read
    \/ Publish /\ Observe
    \/ Progress /\ Observe
    \/ Replay /\ Observe
    \/ Purge /\ Observe
    \/ CreateEndpoint /\ Observe

Spec == Init /\ [][Next]_vars

-----------------------------------------------------------------------------
\* Going from page to page never shows an item twice, whatever is published,
\* replayed or purged between the pages and however many timestamps are equal
\* (control_room.py list_events, list_dead_letters, list_endpoints).
NothingShownTwice == \A id \in Identities : reader.shown[id] <= 1

\* When there is no next page, everything that was in the list from the first
\* page to the last has been shown.
NothingSkipped ==
    reader.pc = "ended" => \A id \in reader.kept : reader.shown[id] > 0

\* The order (timestamp, id) leaves no choice of a page: where there are more rows
\* than fit, there is one row with which the page ends, because an event is in
\* the list with one of its generations only.
PagesAreDetermined ==
    LET rows == Fetch(reader.kind, reader.cursor)
    IN  reader.pc = "paging" /\ Cardinality(rows) > Limit =>
            \E last \in rows :
                /\ Cardinality(DownTo(last, rows)) = Limit
                /\ \A row \in rows : Cardinality(DownTo(row, rows)) = Limit => row = last

\* An overview during which nothing was committed adds up: each event counts
\* once, under its latest generation, and the actionable dead letters are those
\* the status counts have.
QuietOverviewAddsUp ==
    reader.kind = "overview" /\ reader.pc = "ended" /\ ~reader.disturbed =>
        /\ reader.counts.events = reader.counts.latest
        /\ reader.counts.failed = reader.counts.actionable

generationsBar ==
    {[event |-> d.event, generation |-> d.generation, status |-> d.status] : d \in deliveries}

Chains ==
    INSTANCE DeliveryChains
    WITH Events <- EventIds, generations <- generationsBar, accepted <- drawn.events

\* The commits the reader is exposed to are steps of the specification that replay
\* and retention implement: nothing happens to the lists that they do not do.
ImplementsChains == Chains!Spec
=============================================================================
