------------------------- MODULE ControlRoomProofs -------------------------
(***************************************************************************)
(* The Control Room's pages and its overview, for any numbers of events,   *)
(* deliveries and endpoints, any timestamps and any page size.             *)
(*                                                                         *)
(* An item is a row of the table a list orders by.  Its sort key is fixed  *)
(* from the moment it can be listed, and an identity is drawn once; hence  *)
(* what was shown stays on one side of the cursor and what is still to be  *)
(* shown on the other, whatever is committed between the pages.            *)
(***************************************************************************)
EXTENDS ControlRoom, FiniteSetTheorems, TLAPS

-----------------------------------------------------------------------------
(* The inductive invariant.                                                *)

Counting == {"events", "endpoints", "statuses", "actionable"}
PagedKinds == {"events", "failed_events", "dead_letters", "endpoints"}

EventRecord == [id : EventIds, at : Nat]
EndpointRecord == [id : EndpointIds, at : Nat]
DeliveryRecord ==
    [id : DeliveryIds, event : EventIds, generation : Nat, status : DeliveryStatuses, at : Nat]

CountRecord == [events : Nat, endpoints : Nat, latest : Nat, failed : Nat, actionable : Nat]

ReaderRecord ==
    [kind : Kinds \cup {"none"}, pc : Counting \cup {"idle", "paging", "ended"},
     cursor : {<<>>} \cup (Nat \X Nat), shown : [Identities -> 0..2],
     kept : SUBSET Identities, counts : CountRecord, disturbed : BOOLEAN]

DatabaseTypeOK ==
    /\ clock \in Nat
    /\ events \subseteq EventRecord /\ IsFiniteSet(events)
    /\ deliveries \subseteq DeliveryRecord /\ IsFiniteSet(deliveries)
    /\ endpoints \subseteq EndpointRecord /\ IsFiniteSet(endpoints)
    /\ drawn \in [events : SUBSET EventIds, deliveries : SUBSET DeliveryIds,
                  endpoints : SUBSET EndpointIds]

ReaderTypeOK ==
    /\ reader \in ReaderRecord
    /\ reader.pc = "paging" => reader.kind \in PagedKinds
    /\ reader.pc \in Counting => reader.kind = "overview"
    /\ reader.kind = "overview" => reader.kept = {}

\* Identities are keys, and those of rows are drawn.
IdentitiesAreKeys ==
    /\ \A e \in events : e.id \in drawn.events /\ \A f \in events : f.id = e.id => f = e
    /\ \A d \in deliveries :
           d.id \in drawn.deliveries /\ \A c \in deliveries : c.id = d.id => c = d
    /\ \A e \in endpoints : e.id \in drawn.endpoints /\ \A f \in endpoints : f.id = e.id => f = e

\* The generations of an event are its own, differ, and one of them is the latest.
ChainsAreWhole ==
    /\ \A d \in deliveries : \E e \in events : e.id = d.event
    /\ \A c, d \in deliveries : c.event = d.event /\ c.generation = d.generation => c = d
    /\ \A e \in events : \E d \in deliveries : d.event = e.id /\ LatestGeneration(d)

\* The table a list orders by, and which of its rows have their final sort key.
Items(kind) ==
    IF kind = "dead_letters" THEN deliveries
    ELSE IF kind = "endpoints" THEN endpoints ELSE events
Drawn(kind) ==
    IF kind = "dead_letters" THEN drawn.deliveries
    ELSE IF kind = "endpoints" THEN drawn.endpoints ELSE drawn.events
Settled(kind, item) == kind = "dead_letters" => item.status = "dead_lettered"

\* What was shown is not below the cursor, and no row of that identity ever will be.
ShownIsBehind ==
    reader.pc = "paging" =>
        \A id \in Identities : reader.shown[id] > 0 =>
            /\ id \in Drawn(reader.kind)
            /\ reader.cursor # <<>>
            /\ \A item \in Items(reader.kind) : item.id = id =>
                   Settled(reader.kind, item) /\ ~Below(item, reader.cursor)

\* What stayed in the list and was not shown is below the cursor.
KeptIsAhead ==
    reader.pc = "paging" =>
        /\ reader.kept \subseteq Listed(reader.kind)
        /\ \A row \in Rows(reader.kind) : row.id \in reader.kept =>
               reader.shown[row.id] > 0 \/ Below(row, reader.cursor)

Latest == {d \in deliveries : LatestGeneration(d)}

\* As long as nothing was committed, the counts taken so far are those of now.
CountsAreCurrent ==
    reader.kind = "overview" /\ ~reader.disturbed =>
        /\ reader.pc \in Counting \ {"events"} => reader.counts.events = Cardinality(events)
        /\ reader.pc = "actionable" =>
               /\ reader.counts.latest = Cardinality(Latest)
               /\ reader.counts.failed = Cardinality(ActionableDeadLetters)

DatabaseInv == DatabaseTypeOK /\ IdentitiesAreKeys /\ ChainsAreWhole

ReaderInv ==
    /\ ReaderTypeOK
    /\ NothingShownTwice /\ ShownIsBehind
    /\ NothingSkipped /\ KeptIsAhead
    /\ QuietOverviewAddsUp /\ CountsAreCurrent

ControlRoomInv == DatabaseInv /\ ReaderInv

-----------------------------------------------------------------------------
(* The order of the rows.                                                  *)

Keyed(S) == \A row \in S : row.at \in Nat /\ row.id \in Nat

LEMMA LeastNatural ==
    ASSUME NEW T, T \subseteq Nat, T # {}
    PROVE  \E n \in T : \A m \in T : n <= m
<1> DEFINE R == {pair \in Nat \X Nat : pair[1] < pair[2]}
<1>1. IsWellFoundedOn(R, Nat)
  BY NatLessThanWellFounded, Zenon DEF OpToRel
<1>2. PICK n \in T : \A m \in T : ~(<<m, n>> \in R)
  <2> HIDE DEF R
  <2> QED
    BY <1>1, WFMin
<1>3. \A m \in T : ~(m < n)
  BY <1>2
<1> QED
  BY <1>3

\* Going below a row that is below a cursor leaves out what the cursor left out.
LEMMA BelowIsTransitive ==
    ASSUME NEW a, a.at \in Nat, a.id \in Nat, NEW b, b.at \in Nat, b.id \in Nat,
           NEW cursor \in {<<>>} \cup (Nat \X Nat)
    PROVE  /\ Below(b, cursor) /\ ~Below(a, cursor) => ~Below(a, CursorOf(b))
           /\ Below(b, cursor) /\ Below(a, CursorOf(b)) => Below(a, cursor)
           /\ CursorOf(b) \in Nat \X Nat /\ CursorOf(b) # <<>>
           /\ Below(a, CursorOf(b)) \/ Below(b, CursorOf(a)) \/ (a.at = b.at /\ a.id = b.id)
           /\ Below(a, CursorOf(b)) => ~Below(b, CursorOf(a))
           /\ ~Below(b, CursorOf(b))
BY DEF Below, CursorOf

LEMMA LastRow ==
    ASSUME NEW S, Keyed(S), S # {}
    PROVE  \E last \in S : DownTo(last, S) = S
<1>1. PICK t \in {row.at : row \in S} : \A u \in {row.at : row \in S} : t <= u
  BY LeastNatural, {row.at : row \in S} \subseteq Nat, {row.at : row \in S} # {} DEF Keyed
<1> DEFINE ids == {row.id : row \in {r \in S : r.at = t}}
<1>2. PICK n \in ids : \A m \in ids : n <= m
  <2>1. ids \subseteq Nat /\ ids # {}
    BY <1>1 DEF Keyed
  <2> HIDE DEF ids
  <2> QED
    BY <2>1, LeastNatural
<1>3. PICK last \in S : last.at = t /\ last.id = n
  BY <1>2
<1>4. ASSUME NEW row \in S
      PROVE  ~Below(row, CursorOf(last))
  <2>1. t <= row.at
    BY <1>1
  <2>2. row.at = t => n <= row.id
    BY <1>2
  <2> QED
    BY <1>3, <2>1, <2>2 DEF Below, CursorOf, Keyed
<1> QED
  BY <1>4 DEF DownTo

Distinct(S) == \A a, b \in S : a.at = b.at /\ a.id = b.id => a = b

\* The rows down to one that is higher up are fewer.
LEMMA HigherIsFewer ==
    ASSUME NEW S, Keyed(S), IsFiniteSet(S), NEW a \in S, NEW b \in S, Below(b, CursorOf(a))
    PROVE  Cardinality(DownTo(a, S)) # Cardinality(DownTo(b, S))
<1>1. DownTo(a, S) \subseteq DownTo(b, S)
  <2> SUFFICES ASSUME NEW row \in S, ~Below(row, CursorOf(a))
               PROVE  ~Below(row, CursorOf(b))
    BY DEF DownTo
  <2>1. CursorOf(a) \in {<<>>} \cup (Nat \X Nat)
    BY DEF Keyed, CursorOf
  <2> QED
    BY <2>1, BelowIsTransitive DEF Keyed
<1>2. b \in DownTo(b, S) /\ b \notin DownTo(a, S)
  BY BelowIsTransitive DEF DownTo, Keyed
<1>3. IsFiniteSet(DownTo(b, S))
  BY FS_Subset DEF DownTo
<1> QED
  BY <1>1, <1>2, <1>3, FS_Subset

\* Without its last row the rest of a set of rows is the set down to another one.
LEMMA OneRowFewer ==
    ASSUME NEW S, Keyed(S), Distinct(S), IsFiniteSet(S), NEW last \in S,
           Cardinality(DownTo(last, S)) > 1
    PROVE  \E row \in S : Cardinality(DownTo(row, S)) = Cardinality(DownTo(last, S)) - 1
<1> DEFINE rest == DownTo(last, S) \ {last}
<1>1. last \in DownTo(last, S) /\ IsFiniteSet(DownTo(last, S))
  BY BelowIsTransitive, FS_Subset DEF DownTo, Keyed
<1>2. IsFiniteSet(rest) /\ Cardinality(rest) = Cardinality(DownTo(last, S)) - 1
  BY <1>1, FS_RemoveElement
<1>3. rest # {} /\ Keyed(rest) /\ rest \subseteq S
  <2>1. rest # {}
    BY <1>1, <1>2, FS_EmptySet, FS_CardinalityType
  <2> QED
    BY <2>1 DEF DownTo, Keyed
<1>4. PICK row \in rest : DownTo(row, rest) = rest
  <2> HIDE DEF rest
  <2> QED
    BY <1>3, LastRow
<1>5. Below(last, CursorOf(row))
  BY <1>3, <1>4, BelowIsTransitive DEF DownTo, Keyed, Distinct
<1>6. ASSUME NEW r \in S
      PROVE  r \in DownTo(row, S) <=> r \in rest
  <2>1. CursorOf(row) \in {<<>>} \cup (Nat \X Nat)
    BY <1>3, <1>4 DEF Keyed, CursorOf
  <2>2. Below(r, CursorOf(last)) => Below(r, CursorOf(row))
    BY <1>3, <1>4, <1>5, <2>1, BelowIsTransitive DEF Keyed
  <2>3. CASE r \in rest
    BY <1>4, <2>3 DEF DownTo
  <2>4. CASE r \notin rest
    BY <1>5, <2>2, <2>4 DEF DownTo
  <2> QED
    BY <2>3, <2>4
<1>7. DownTo(row, S) = rest
  BY <1>3, <1>6 DEF DownTo
<1> QED
  BY <1>2, <1>3, <1>4, <1>7

\* Where there are more rows than fit, one row ends the page.
LEMMA PageEnds ==
    ASSUME NEW S, Keyed(S), Distinct(S), IsFiniteSet(S), Cardinality(S) > Limit
    PROVE  \E last \in S : /\ Cardinality(DownTo(last, S)) = Limit
                           /\ \A row \in S : Cardinality(DownTo(row, S)) = Limit => row = last
<1> DEFINE lengths == {n \in Nat : n >= Limit /\ \E last \in S : Cardinality(DownTo(last, S)) = n}
<1>1. Limit \in Nat \ {0} /\ Cardinality(S) \in Nat
  BY ControlRoomAssumption, FS_CardinalityType
<1>2. S # {}
  BY <1>1, FS_EmptySet
<1>3. lengths \subseteq Nat /\ lengths # {}
  <2>1. PICK last \in S : DownTo(last, S) = S
    BY <1>2, LastRow
  <2> QED
    BY <1>1, <2>1
<1>4. PICK n \in lengths : \A m \in lengths : n <= m
  <2> HIDE DEF lengths
  <2> QED
    BY <1>3, LeastNatural
<1>5. PICK last \in S : Cardinality(DownTo(last, S)) = n
  BY <1>4
<1>6. n = Limit
  <2> SUFFICES ASSUME n > Limit
               PROVE  FALSE
    BY <1>1, <1>4
  <2>1. PICK row \in S : Cardinality(DownTo(row, S)) = n - 1
    BY <1>1, <1>5, OneRowFewer
  <2>2. n - 1 \in lengths
    BY <1>1, <1>4, <2>1
  <2> QED
    BY <1>4, <2>2
<1>7. ASSUME NEW row \in S, Cardinality(DownTo(row, S)) = Limit, row # last
      PROVE  FALSE
  <2>1. Below(row, CursorOf(last)) \/ Below(last, CursorOf(row))
    BY <1>7, BelowIsTransitive DEF Keyed, Distinct
  <2> QED
    BY <1>5, <1>6, <1>7, <2>1, HigherIsFewer
<1> QED
  BY <1>5, <1>6, <1>7

-----------------------------------------------------------------------------
(* The rows of a list and the items they come from.                        *)

LEMMA RowsByKind ==
    /\ Rows("events") = EventRows(DeliveryStatuses)
    /\ Rows("failed_events") = EventRows({"dead_lettered"})
    /\ Rows("dead_letters") = DeadLetterRows
    /\ Rows("endpoints") = EndpointRows
    /\ Rows("overview") = {}
BY Zenon DEF Rows

LEMMA IdentityTypes ==
    /\ Identities \subseteq Nat
    /\ EventIds \subseteq Identities /\ DeliveryIds \subseteq Identities
    /\ EndpointIds \subseteq Identities
BY ControlRoomAssumption DEF Identities

LEMMA ItemTypes ==
    ASSUME DatabaseTypeOK, NEW kind, NEW item \in Items(kind)
    PROVE  item.id \in Identities /\ item.id \in Nat /\ item.at \in Nat
BY IdentityTypes DEF DatabaseTypeOK, Items, EventRecord, EndpointRecord, DeliveryRecord

LEMMA ItemsAreDrawn ==
    ASSUME IdentitiesAreKeys, NEW kind, NEW item \in Items(kind)
    PROVE  item.id \in Drawn(kind) /\ \A other \in Items(kind) : other.id = item.id => other = item
BY DEF IdentitiesAreKeys, Items, Drawn

LEMMA EventRowItem ==
    ASSUME NEW statuses, NEW row \in EventRows(statuses)
    PROVE  \E e \in events, d \in deliveries :
               /\ row = [at |-> e.at, id |-> e.id, delivery |-> d.id]
               /\ d.event = e.id /\ LatestGeneration(d)
BY DEF EventRows

RowsHaveItems ==
    \A kind \in PagedKinds : \A row \in Rows(kind) : \E item \in Items(kind) :
        item.id = row.id /\ item.at = row.at /\ Settled(kind, item)

LEMMA RowItem == RowsHaveItems
<1> SUFFICES ASSUME NEW kind \in PagedKinds, NEW row \in Rows(kind)
             PROVE  \E item \in Items(kind) :
                        item.id = row.id /\ item.at = row.at /\ Settled(kind, item)
  BY DEF RowsHaveItems
<1>1. CASE kind \in {"events", "failed_events"}
  <2>1. \E statuses : row \in EventRows(statuses)
    BY <1>1, RowsByKind
  <2>2. PICK e \in events : row.id = e.id /\ row.at = e.at
    BY <2>1, EventRowItem
  <2> QED
    BY <1>1, <2>2 DEF Items, Settled
<1>2. CASE kind = "dead_letters"
  BY <1>2, RowsByKind DEF DeadLetterRows, ActionableDeadLetters, Items, Settled
<1>3. CASE kind = "endpoints"
  BY <1>3, RowsByKind DEF EndpointRows, Items, Settled
<1> QED
  BY <1>1, <1>2, <1>3 DEF PagedKinds

LEMMA RowsAreKeyed ==
    ASSUME DatabaseTypeOK, NEW kind \in PagedKinds
    PROVE  Keyed(Rows(kind)) /\ Listed(kind) \subseteq Identities
BY RowItem, ItemTypes DEF Keyed, Listed, RowsHaveItems

\* An item is in a list at most once: an event with its latest generation only.
LEMMA RowsAreDistinct ==
    ASSUME DatabaseInv, NEW kind \in PagedKinds
    PROVE  \A a, b \in Rows(kind) : a.id = b.id => a = b
<1> SUFFICES ASSUME NEW a \in Rows(kind), NEW b \in Rows(kind), a.id = b.id
             PROVE  a = b
  OBVIOUS
<1>1. CASE kind \in {"events", "failed_events"}
  <2>1. (\E statuses : a \in EventRows(statuses)) /\ (\E statuses : b \in EventRows(statuses))
    BY <1>1, RowsByKind
  <2>2. PICK e \in events, d \in deliveries :
               /\ a = [at |-> e.at, id |-> e.id, delivery |-> d.id]
               /\ d.event = e.id /\ LatestGeneration(d)
    BY <2>1, EventRowItem
  <2>3. PICK f \in events, c \in deliveries :
               /\ b = [at |-> f.at, id |-> f.id, delivery |-> c.id]
               /\ c.event = f.id /\ LatestGeneration(c)
    BY <2>1, EventRowItem
  <2>4. e = f
    BY <2>2, <2>3 DEF DatabaseInv, IdentitiesAreKeys
  <2>5. c.generation \in Nat /\ d.generation \in Nat
    BY DEF DatabaseInv, DatabaseTypeOK, DeliveryRecord
  <2>6. ~(c.generation > d.generation) /\ ~(d.generation > c.generation)
    BY <2>2, <2>3, <2>4 DEF LatestGeneration
  <2>7. c.generation = d.generation
    BY <2>5, <2>6
  <2>8. c = d
    BY <2>2, <2>3, <2>4, <2>7 DEF DatabaseInv, ChainsAreWhole
  <2> QED
    BY <2>2, <2>3, <2>4, <2>8
<1>2. CASE kind = "dead_letters"
  BY <1>2, RowsByKind DEF DeadLetterRows, ActionableDeadLetters, DatabaseInv, IdentitiesAreKeys
<1>3. CASE kind = "endpoints"
  BY <1>3, RowsByKind DEF EndpointRows, DatabaseInv, IdentitiesAreKeys
<1> QED
  BY <1>1, <1>2, <1>3 DEF PagedKinds

\* A list has at most as many rows as its table.
LEMMA RowsAreFinite ==
    ASSUME DatabaseInv, NEW kind \in PagedKinds
    PROVE  IsFiniteSet(Rows(kind))
<1> DEFINE ItemOf(row) == CHOOSE item \in Items(kind) :
                              item.id = row.id /\ item.at = row.at /\ Settled(kind, item)
           f == [row \in Rows(kind) |-> ItemOf(row)]
<1>1. \A row \in Rows(kind) : ItemOf(row) \in Items(kind) /\ ItemOf(row).id = row.id
  BY RowItem DEF RowsHaveItems
<1>2. f \in Injection(Rows(kind), Items(kind))
  <2>1. f \in [Rows(kind) -> Items(kind)]
    BY <1>1
  <2>2. \A a, b \in Rows(kind) : f[a] = f[b] => a = b
    BY <1>1, RowsAreDistinct
  <2> QED
    BY <2>1, <2>2 DEF Injection, IsInjective
<1>3. IsFiniteSet(Items(kind))
  BY DEF DatabaseInv, DatabaseTypeOK, Items
<1> QED
  BY <1>2, <1>3, FS_Injection

\* Each event has one latest generation, so there are as many of these as events.
LEMMA LatestPerEvent ==
    ASSUME DatabaseInv
    PROVE  Cardinality(events) = Cardinality(Latest)
<1> DEFINE EventOf(d) == CHOOSE e \in events : e.id = d.event
           f == [d \in Latest |-> EventOf(d)]
<1>1. \A d \in Latest : EventOf(d) \in events /\ EventOf(d).id = d.event
  BY DEF DatabaseInv, ChainsAreWhole, Latest
<1>2. f \in Injection(Latest, events)
  <2>1. f \in [Latest -> events]
    BY <1>1
  <2>2. ASSUME NEW c \in Latest, NEW d \in Latest, f[c] = f[d]
        PROVE  c = d
    <3>1. c.event = d.event
      BY <1>1, <2>2
    <3>2. c.generation \in Nat /\ d.generation \in Nat
      BY DEF DatabaseInv, DatabaseTypeOK, DeliveryRecord, Latest
    <3>3. ~(c.generation > d.generation) /\ ~(d.generation > c.generation)
      BY <3>1 DEF Latest, LatestGeneration
    <3> QED
      BY <3>1, <3>2, <3>3 DEF DatabaseInv, ChainsAreWhole, Latest
  <2> QED
    BY <2>1, <2>2 DEF Injection, IsInjective
<1>3. f \in Surjection(Latest, events)
  <2>1. ASSUME NEW e \in events
        PROVE  \E d \in Latest : f[d] = e
    <3>1. PICK d \in Latest : d.event = e.id
      BY DEF DatabaseInv, ChainsAreWhole, Latest
    <3> QED
      BY <1>1, <3>1 DEF DatabaseInv, IdentitiesAreKeys
  <2> QED
    BY <1>1, <2>1 DEF Surjection
<1> QED
  BY <1>2, <1>3, FS_Injection DEF DatabaseInv, DatabaseTypeOK

-----------------------------------------------------------------------------
(* What a commit does to the database.                                     *)

LEMMA PublishKeepsDatabase ==
    ASSUME DatabaseInv, Publish
    PROVE  DatabaseInv'
<1>1. PICK id \in EventIds \ drawn.events, x \in DeliveryIds \ drawn.deliveries, at \in 0..clock :
          /\ events' = events \cup {[id |-> id, at |-> at]}
          /\ deliveries' = deliveries \cup {NewDelivery(x, id, 0)}
          /\ drawn' = [drawn EXCEPT !.events = @ \cup {id}, !.deliveries = @ \cup {x}]
  BY DEF Publish
<1>2. UNCHANGED <<clock, endpoints>>
  BY DEF Publish
<1> DEFINE e == [id |-> id, at |-> at]
           d == NewDelivery(x, id, 0)
<1>3. e \in EventRecord /\ e.id = id
  BY DEF EventRecord, DatabaseInv, DatabaseTypeOK
<1>4. d \in DeliveryRecord /\ d.id = x /\ d.event = id /\ d.generation = 0
  BY DEF DeliveryRecord, NewDelivery, DeliveryStatuses
<1>5. DatabaseTypeOK'
  <2>1. events' \subseteq EventRecord /\ deliveries' \subseteq DeliveryRecord
    BY <1>1, <1>3, <1>4 DEF DatabaseInv, DatabaseTypeOK
  <2>2. IsFiniteSet(events') /\ IsFiniteSet(deliveries')
    BY <1>1, FS_AddElement DEF DatabaseInv, DatabaseTypeOK
  <2> QED
    BY <1>1, <1>2, <2>1, <2>2 DEF DatabaseInv, DatabaseTypeOK
<1>6. IdentitiesAreKeys'
  <2>1. drawn'.events = drawn.events \cup {id} /\ drawn'.deliveries = drawn.deliveries \cup {x}
        /\ drawn'.endpoints = drawn.endpoints
    BY <1>1 DEF DatabaseInv, DatabaseTypeOK
  <2> HIDE DEF e, d
  <2>2. events' = events \cup {e} /\ deliveries' = deliveries \cup {d}
    BY <1>1 DEF e, d
  <2> QED
    BY <1>2, <1>3, <1>4, <2>1, <2>2 DEF DatabaseInv, IdentitiesAreKeys
<1>7. ChainsAreWhole'
  <2> HIDE DEF e, d
  <2>1. events' = events \cup {e} /\ deliveries' = deliveries \cup {d}
    BY <1>1 DEF e, d
  <2>2. \A c \in deliveries : c.event # id
    BY <1>1 DEF DatabaseInv, IdentitiesAreKeys, ChainsAreWhole
  <2>3. \A c \in deliveries : LatestGeneration(c) => LatestGeneration(c)'
    BY <1>4, <2>1, <2>2 DEF LatestGeneration
  <2>4. LatestGeneration(d)'
    BY <1>4, <2>1, <2>2 DEF LatestGeneration
  <2> QED
    BY <1>3, <1>4, <2>1, <2>2, <2>3, <2>4 DEF DatabaseInv, ChainsAreWhole
<1> QED
  BY <1>5, <1>6, <1>7 DEF DatabaseInv

LEMMA ProgressKeepsDatabase ==
    ASSUME DatabaseInv, Progress
    PROVE  DatabaseInv'
<1>0. PICK d \in deliveries : \E status \in ALLOWED_TRANSITIONS[d.status], at \in 0..clock :
          deliveries' = (deliveries \ {d}) \cup
               {[d EXCEPT !.status = status, !.at = IF status = "dead_lettered" THEN at ELSE 0]}
  BY DEF Progress
<1>1. PICK status \in ALLOWED_TRANSITIONS[d.status], at \in 0..clock :
          deliveries' = (deliveries \ {d}) \cup
               {[d EXCEPT !.status = status, !.at = IF status = "dead_lettered" THEN at ELSE 0]}
  BY <1>0
<1>2. UNCHANGED <<clock, events, endpoints, drawn>>
  BY DEF Progress
<1> DEFINE new == [d EXCEPT !.status = status, !.at = IF status = "dead_lettered" THEN at ELSE 0]
<1>3. d \in DeliveryRecord /\ clock \in Nat
  BY DEF DatabaseInv, DatabaseTypeOK
<1>4. /\ new \in DeliveryRecord
      /\ new.id = d.id /\ new.event = d.event /\ new.generation = d.generation
  <2>1. status \in DeliveryStatuses
    BY <1>3 DEF DeliveryRecord, DeliveryStatuses, ALLOWED_TRANSITIONS
  <2>2. (IF status = "dead_lettered" THEN at ELSE 0) \in Nat
    BY <1>3
  <2> QED
    BY <1>3, <2>1, <2>2 DEF DeliveryRecord
<1> HIDE DEF new
<1>5. deliveries' = (deliveries \ {d}) \cup {new}
  BY <1>1 DEF new
<1>6. DatabaseTypeOK'
  <2>1. IsFiniteSet(deliveries')
    BY <1>5, FS_AddElement, FS_RemoveElement DEF DatabaseInv, DatabaseTypeOK
  <2> QED
    BY <1>2, <1>4, <1>5, <2>1 DEF DatabaseInv, DatabaseTypeOK
<1>7. IdentitiesAreKeys'
  BY <1>2, <1>4, <1>5 DEF DatabaseInv, IdentitiesAreKeys
<1>8. ChainsAreWhole'
  <2>1. \A c \in deliveries : c # d /\ LatestGeneration(c) => LatestGeneration(c)'
    BY <1>4, <1>5 DEF LatestGeneration
  <2>2. LatestGeneration(d) => LatestGeneration(new)'
    BY <1>2, <1>4, <1>5 DEF LatestGeneration
  <2>3. \A e \in events' : \E c \in deliveries' : c.event = e.id /\ LatestGeneration(c)'
    BY <1>2, <1>4, <1>5, <2>1, <2>2 DEF DatabaseInv, ChainsAreWhole
  <2>4. \A c \in deliveries' : \E e \in events' : e.id = c.event
    BY <1>2, <1>4, <1>5 DEF DatabaseInv, ChainsAreWhole
  <2>5. \A b, c \in deliveries' : b.event = c.event /\ b.generation = c.generation => b = c
    BY <1>4, <1>5 DEF DatabaseInv, ChainsAreWhole
  <2> QED
    BY <2>3, <2>4, <2>5 DEF ChainsAreWhole
<1> QED
  BY <1>6, <1>7, <1>8 DEF DatabaseInv

LEMMA ReplayKeepsDatabase ==
    ASSUME DatabaseInv, Replay
    PROVE  DatabaseInv'
<1>1. PICK d \in ActionableDeadLetters, x \in DeliveryIds \ drawn.deliveries :
          /\ deliveries' = deliveries \cup {NewDelivery(x, d.event, d.generation + 1)}
          /\ drawn' = [drawn EXCEPT !.deliveries = @ \cup {x}]
  BY DEF Replay
<1>2. UNCHANGED <<clock, events, endpoints>>
  BY DEF Replay
<1> DEFINE new == NewDelivery(x, d.event, d.generation + 1)
<1>3. d \in deliveries /\ d \in DeliveryRecord /\ LatestGeneration(d)
  BY DEF DatabaseInv, DatabaseTypeOK, ActionableDeadLetters
<1>4. /\ new \in DeliveryRecord
      /\ new.id = x /\ new.event = d.event /\ new.generation = d.generation + 1
  BY <1>3 DEF DeliveryRecord, NewDelivery, DeliveryStatuses
<1> HIDE DEF new
<1>5. deliveries' = deliveries \cup {new}
  BY <1>1 DEF new
<1>6. /\ drawn'.deliveries = drawn.deliveries \cup {x}
      /\ drawn'.events = drawn.events /\ drawn'.endpoints = drawn.endpoints
  BY <1>1 DEF DatabaseInv, DatabaseTypeOK
<1>7. DatabaseTypeOK'
  <2>1. IsFiniteSet(deliveries')
    BY <1>5, FS_AddElement DEF DatabaseInv, DatabaseTypeOK
  <2> QED
    BY <1>1, <1>2, <1>4, <1>5, <2>1 DEF DatabaseInv, DatabaseTypeOK
<1>8. IdentitiesAreKeys'
  BY <1>1, <1>2, <1>4, <1>5, <1>6 DEF DatabaseInv, IdentitiesAreKeys
<1>9. ChainsAreWhole'
  <2>1. \A c \in deliveries : c.generation \in Nat
    BY DEF DatabaseInv, DatabaseTypeOK, DeliveryRecord
  <2>2. \A c \in deliveries : c.event = d.event => c.generation < new.generation
    BY <1>3, <1>4, <2>1 DEF LatestGeneration
  <2>3. LatestGeneration(new)'
    BY <1>3, <1>4, <1>5, <2>1, <2>2 DEF LatestGeneration
  <2>4. \A c \in deliveries : c.event # d.event /\ LatestGeneration(c) => LatestGeneration(c)'
    BY <1>4, <1>5 DEF LatestGeneration
  <2>5. \A e \in events' : \E c \in deliveries' : c.event = e.id /\ LatestGeneration(c)'
    BY <1>2, <1>4, <1>5, <2>3, <2>4 DEF DatabaseInv, ChainsAreWhole
  <2>6. \A c \in deliveries' : \E e \in events' : e.id = c.event
    BY <1>2, <1>3, <1>4, <1>5 DEF DatabaseInv, ChainsAreWhole
  <2>7. \A b, c \in deliveries' : b.event = c.event /\ b.generation = c.generation => b = c
    BY <1>4, <1>5, <2>1, <2>2 DEF DatabaseInv, ChainsAreWhole
  <2> QED
    BY <2>5, <2>6, <2>7 DEF ChainsAreWhole
<1> QED
  BY <1>7, <1>8, <1>9 DEF DatabaseInv

LEMMA PurgeKeepsDatabase ==
    ASSUME DatabaseInv, Purge
    PROVE  DatabaseInv'
<1>1. PICK e \in events : /\ events' = events \ {e}
                          /\ deliveries' = deliveries \ {d \in deliveries : d.event = e.id}
  BY DEF Purge
<1>2. UNCHANGED <<clock, endpoints, drawn>>
  BY DEF Purge
<1>3. DatabaseTypeOK'
  <2>1. IsFiniteSet(events') /\ IsFiniteSet(deliveries')
    BY <1>1, FS_Subset DEF DatabaseInv, DatabaseTypeOK
  <2> QED
    BY <1>1, <1>2, <2>1 DEF DatabaseInv, DatabaseTypeOK
<1>4. IdentitiesAreKeys'
  BY <1>1, <1>2 DEF DatabaseInv, IdentitiesAreKeys
<1>5. ChainsAreWhole'
  <2>1. \A c \in deliveries : LatestGeneration(c) => LatestGeneration(c)'
    BY <1>1 DEF LatestGeneration
  <2> QED
    BY <1>1, <2>1 DEF DatabaseInv, IdentitiesAreKeys, ChainsAreWhole
<1> QED
  BY <1>3, <1>4, <1>5 DEF DatabaseInv

LEMMA CreateEndpointKeepsDatabase ==
    ASSUME DatabaseInv, CreateEndpoint
    PROVE  DatabaseInv'
<1>1. PICK id \in EndpointIds \ drawn.endpoints, at \in 0..clock :
          /\ endpoints' = endpoints \cup {[id |-> id, at |-> at]}
          /\ drawn' = [drawn EXCEPT !.endpoints = @ \cup {id}]
  BY DEF CreateEndpoint
<1>2. UNCHANGED <<clock, events, deliveries>>
  BY DEF CreateEndpoint
<1>3. [id |-> id, at |-> at] \in EndpointRecord
  BY DEF EndpointRecord, DatabaseInv, DatabaseTypeOK
<1>4. DatabaseTypeOK'
  <2>1. IsFiniteSet(endpoints')
    BY <1>1, FS_AddElement DEF DatabaseInv, DatabaseTypeOK
  <2> QED
    BY <1>1, <1>2, <1>3, <2>1 DEF DatabaseInv, DatabaseTypeOK
<1>5. IdentitiesAreKeys'
  <2>1. /\ drawn'.endpoints = drawn.endpoints \cup {id}
        /\ drawn'.events = drawn.events /\ drawn'.deliveries = drawn.deliveries
    BY <1>1 DEF DatabaseInv, DatabaseTypeOK
  <2> QED
    BY <1>1, <1>2, <2>1 DEF DatabaseInv, IdentitiesAreKeys
<1>6. ChainsAreWhole'
  BY <1>2 DEF DatabaseInv, ChainsAreWhole, LatestGeneration
<1> QED
  BY <1>4, <1>5, <1>6 DEF DatabaseInv

Commit == Publish \/ Progress \/ Replay \/ Purge \/ CreateEndpoint

LEMMA CommitKeepsDatabase ==
    ASSUME DatabaseInv, Commit
    PROVE  DatabaseInv'
BY PublishKeepsDatabase, ProgressKeepsDatabase, ReplayKeepsDatabase, PurgeKeepsDatabase,
   CreateEndpointKeepsDatabase DEF Commit

\* A row with its final sort key keeps it, and an identity never names a second row.
LEMMA CommitKeepsKeys ==
    ASSUME DatabaseInv, Commit, NEW kind \in PagedKinds
    PROVE  /\ Drawn(kind) \subseteq Drawn(kind)'
           /\ \A new \in Items(kind)' : new.id \in Drawn(kind) =>
                  \E item \in Items(kind) :
                      /\ item.id = new.id
                      /\ Settled(kind, item) => Settled(kind, new) /\ new.at = item.at
<1> DEFINE Follows(old, new, used) ==
             new.id \in used => \E item \in old :
                 /\ item.id = new.id
                 /\ Settled(kind, item) => Settled(kind, new) /\ new.at = item.at
<1>1. /\ drawn.events \subseteq drawn'.events
      /\ drawn.deliveries \subseteq drawn'.deliveries
      /\ drawn.endpoints \subseteq drawn'.endpoints
  <2>1. drawn \in [events : SUBSET EventIds, deliveries : SUBSET DeliveryIds,
                   endpoints : SUBSET EndpointIds]
    BY DEF DatabaseInv, DatabaseTypeOK
  <2>2. CASE Publish
    BY <2>1, <2>2 DEF Publish
  <2>3. CASE Replay
    BY <2>1, <2>3 DEF Replay
  <2>4. CASE CreateEndpoint
    BY <2>1, <2>4 DEF CreateEndpoint
  <2>5. CASE Progress \/ Purge
    BY <2>5 DEF Progress, Purge
  <2> QED
    BY <2>2, <2>3, <2>4, <2>5 DEF Commit
<1>2. \A new \in events' : Follows(events, new, drawn.events)
  <2>1. CASE Publish
    <3>1. PICK id \in EventIds \ drawn.events, at \in 0..clock :
              events' = events \cup {[id |-> id, at |-> at]}
      BY <2>1 DEF Publish
    <3> QED
      BY <3>1 DEF Settled
  <2>2. CASE Progress \/ Replay \/ Purge \/ CreateEndpoint
    <3>1. events' \subseteq events
      BY <2>2 DEF Progress, Replay, Purge, CreateEndpoint
    <3> QED
      BY <3>1
  <2> QED
    BY <2>1, <2>2 DEF Commit
<1>3. \A new \in endpoints' : Follows(endpoints, new, drawn.endpoints)
  <2>1. CASE CreateEndpoint
    <3>1. PICK id \in EndpointIds \ drawn.endpoints, at \in 0..clock :
              endpoints' = endpoints \cup {[id |-> id, at |-> at]}
      BY <2>1 DEF CreateEndpoint
    <3> QED
      BY <3>1
  <2>2. CASE Publish \/ Progress \/ Replay \/ Purge
    <3>1. endpoints' = endpoints
      BY <2>2 DEF Progress, Replay, Purge, Publish
    <3> QED
      BY <3>1
  <2> QED
    BY <2>1, <2>2 DEF Commit
<1>4. kind = "dead_letters" => \A new \in deliveries' : Follows(deliveries, new, drawn.deliveries)
  <2> SUFFICES ASSUME kind = "dead_letters", NEW new \in deliveries',
                      new.id \in drawn.deliveries
               PROVE  \E item \in deliveries :
                          /\ item.id = new.id
                          /\ Settled(kind, item) => Settled(kind, new) /\ new.at = item.at
    OBVIOUS
  <2>1. CASE Publish \/ Replay
    <3>1. PICK x \in DeliveryIds \ drawn.deliveries : \E event, generation :
              deliveries' = deliveries \cup {NewDelivery(x, event, generation)}
      BY <2>1 DEF Publish, Replay
    <3>2. new \in deliveries
      BY <3>1 DEF NewDelivery
    <3> QED
      BY <3>2
  <2>2. CASE Progress
    <3>1. PICK d \in deliveries : \E status \in ALLOWED_TRANSITIONS[d.status], at \in 0..clock :
              deliveries' = (deliveries \ {d}) \cup
                  {[d EXCEPT !.status = status, !.at = IF status = "dead_lettered" THEN at ELSE 0]}
      BY <2>2 DEF Progress
    <3>2. d \in DeliveryRecord
      BY DEF DatabaseInv, DatabaseTypeOK
    <3>3. d.status # "dead_lettered"
      BY <3>1, <3>2 DEF ALLOWED_TRANSITIONS
    <3>4. (new # d /\ new \in deliveries) \/ new.id = d.id
      BY <3>1, <3>2 DEF DeliveryRecord
    <3> QED
      BY <3>3, <3>4 DEF Settled
  <2>3. CASE Purge \/ CreateEndpoint
    <3>1. deliveries' \subseteq deliveries
      BY <2>3 DEF Purge, CreateEndpoint
    <3> QED
      BY <3>1
  <2> QED
    BY <2>1, <2>2, <2>3 DEF Commit
<1> QED
  BY <1>1, <1>2, <1>3, <1>4 DEF Items, Drawn

\* What a row was when it was listed it is when it is listed again.
LEMMA RowsKeepTheirKeys ==
    ASSUME DatabaseInv, Commit, NEW kind \in PagedKinds,
           NEW old \in Rows(kind), NEW new \in Rows(kind)', new.id = old.id
    PROVE  new.at = old.at
<1>1. PICK item \in Items(kind) : item.id = old.id /\ item.at = old.at /\ Settled(kind, item)
  BY RowItem DEF RowsHaveItems
<1>2. PICK after \in Items(kind)' : after.id = new.id /\ after.at = new.at
  <2>1. RowsHaveItems'
    BY RowItem, PTL
  <2> QED
    BY <2>1 DEF RowsHaveItems
<1>3. after.id \in Drawn(kind) /\ \A other \in Items(kind) : other.id = item.id => other = item
  BY <1>1, <1>2, ItemsAreDrawn DEF DatabaseInv
<1> QED
  BY <1>1, <1>2, <1>3, CommitKeepsKeys

-----------------------------------------------------------------------------
(* What the reader's steps and the commits do to the reader.               *)

\* A step that leaves the tables alone leaves the lists alone.
LEMMA SameLists ==
    ASSUME UNCHANGED database
    PROVE  /\ \A kind : Rows(kind)' = Rows(kind) /\ Listed(kind)' = Listed(kind)
           /\ \A kind : Items(kind)' = Items(kind) /\ Drawn(kind)' = Drawn(kind)
           /\ Latest' = Latest /\ ActionableDeadLetters' = ActionableDeadLetters
           /\ Cardinality(events)' = Cardinality(events)
<1>1. events' = events /\ deliveries' = deliveries /\ endpoints' = endpoints /\ drawn' = drawn
  BY DEF database
<1>2. \A kind : Rows(kind)' = Rows(kind)
  BY <1>1, Zenon DEF Rows, EventRows, DeadLetterRows, EndpointRows, ActionableDeadLetters,
                     LatestGeneration
<1>3. \A kind : Listed(kind)' = Listed(kind)
  BY <1>2 DEF Listed
<1>4. Latest' = Latest /\ ActionableDeadLetters' = ActionableDeadLetters
  BY <1>1 DEF Latest, ActionableDeadLetters, LatestGeneration
<1> QED
  BY <1>1, <1>2, <1>3, <1>4 DEF Items, Drawn

LEMMA SameDatabase ==
    ASSUME DatabaseInv, UNCHANGED database, clock' \in Nat
    PROVE  DatabaseInv'
BY DEF DatabaseInv, DatabaseTypeOK, IdentitiesAreKeys, ChainsAreWhole, LatestGeneration, database

LEMMA StartKeepsReader ==
    ASSUME DatabaseInv, ReaderInv, NEW kind \in Kinds, Start(kind)
    PROVE  ReaderInv'
<1>1. UNCHANGED database
  BY DEF Start
<1>2. kind \in PagedKinds \cup {"overview"}
  BY ControlRoomAssumption DEF PagedKinds
<1>3. Listed(kind) \subseteq Identities /\ (kind = "overview" => Listed(kind) = {})
  BY <1>2, RowsAreKeyed, RowsByKind DEF Listed, DatabaseInv
<1>4. /\ reader' \in ReaderRecord
      /\ reader'.kind = kind /\ reader'.kept = Listed(kind) /\ reader'.cursor = <<>>
      /\ reader'.pc = IF kind = "overview" THEN "events" ELSE "paging"
      /\ \A id \in Identities : reader'.shown[id] = 0
  <2>1. /\ NoReader \in ReaderRecord /\ NoReader.cursor = <<>>
        /\ \A id \in Identities : NoReader.shown[id] = 0
    BY DEF NoReader, ReaderRecord, Counts, CountRecord
  <2>2. reader' = [NoReader EXCEPT !.kind = kind, !.kept = Listed(kind),
                                   !.pc = IF kind = "overview" THEN "events" ELSE "paging"]
    BY DEF Start
  <2> QED
    BY <1>3, <2>1, <2>2 DEF ReaderRecord, Counting
<1>5. ReaderTypeOK'
  BY <1>2, <1>3, <1>4 DEF ReaderTypeOK, Counting, PagedKinds
<1>6. NothingShownTwice' /\ ShownIsBehind' /\ NothingSkipped'
  BY <1>4 DEF NothingShownTwice, ShownIsBehind, NothingSkipped
<1>7. KeptIsAhead'
  <2>1. Listed(kind)' = Listed(kind)
    BY <1>1, SameLists
  <2> QED
    BY <1>4, <2>1 DEF KeptIsAhead, Below
<1>8. QuietOverviewAddsUp' /\ CountsAreCurrent'
  BY <1>4 DEF QuietOverviewAddsUp, CountsAreCurrent, Counting
<1> QED
  BY <1>5, <1>6, <1>7, <1>8 DEF ReaderInv

\* Nothing on a page has been shown before.
LEMMA PagesAreFresh ==
    ASSUME DatabaseInv, ReaderInv, reader.pc = "paging",
           NEW row \in Fetch(reader.kind, reader.cursor)
    PROVE  row.id \in Identities /\ reader.shown[row.id] = 0
<1>1. reader.kind \in PagedKinds /\ row \in Rows(reader.kind) /\ Below(row, reader.cursor)
  BY DEF ReaderInv, ReaderTypeOK, Fetch
<1>2. PICK item \in Items(reader.kind) : item.id = row.id /\ item.at = row.at
  BY <1>1, RowItem DEF RowsHaveItems
<1>3. row.id \in Identities
  BY <1>2, ItemTypes DEF DatabaseInv
<1>4. Below(item, reader.cursor)
  BY <1>1, <1>2 DEF Below
<1>5. ~(reader.shown[row.id] > 0)
  BY <1>2, <1>3, <1>4 DEF ReaderInv, ShownIsBehind
<1>6. reader.shown[row.id] \in 0..2
  BY <1>3 DEF ReaderInv, ReaderTypeOK, ReaderRecord
<1> QED
  BY <1>3, <1>5, <1>6

\* What showing rows of the page does to the counts of what was shown.
LEMMA ShowOnce ==
    ASSUME DatabaseInv, ReaderInv, reader.pc = "paging",
           NEW visible, visible \subseteq Fetch(reader.kind, reader.cursor)
    PROVE  /\ Show(visible) \in [Identities -> 0..2]
           /\ \A id \in Identities :
                  /\ Show(visible)[id] <= 1
                  /\ Show(visible)[id] > 0 <=>
                         reader.shown[id] > 0 \/ \E row \in visible : row.id = id
<1>1. reader.shown \in [Identities -> 0..2] /\ \A id \in Identities : reader.shown[id] <= 1
  BY DEF ReaderInv, ReaderTypeOK, ReaderRecord, NothingShownTwice
<1>2. \A row \in visible : reader.shown[row.id] = 0
  BY PagesAreFresh
<1> QED
  BY <1>1, <1>2 DEF Show, Smaller

LEMMA PageKeepsReader ==
    ASSUME DatabaseInv, ReaderInv, ReadPage
    PROVE  ReaderInv'
<1>0. PICK kind : kind = reader.kind
  OBVIOUS
<1> DEFINE rows == Fetch(kind, reader.cursor)
<1>1. reader.pc = "paging" /\ UNCHANGED database
  BY DEF ReadPage
<1>2. kind \in PagedKinds /\ reader \in ReaderRecord
  BY <1>0, <1>1 DEF ReaderInv, ReaderTypeOK
<1>3. kind # "overview"
  BY <1>2 DEF PagedKinds
<1>4. reader.cursor \in {<<>>} \cup (Nat \X Nat)
  BY <1>2 DEF ReaderRecord
<1>5. Keyed(Rows(kind))
  BY <1>2, RowsAreKeyed DEF DatabaseInv
<1>6. Rows(kind)' = Rows(kind) /\ Listed(kind)' = Listed(kind) /\ Items(kind)' = Items(kind)
      /\ Drawn(kind)' = Drawn(kind)
  BY <1>1, SameLists
<1>7. CASE \E last \in rows :
               reader' = [reader EXCEPT !.shown = Show(DownTo(last, rows)), !.cursor = CursorOf(last)]
  <2>1. PICK last \in rows :
               reader' = [reader EXCEPT !.shown = Show(DownTo(last, rows)), !.cursor = CursorOf(last)]
    BY <1>7
  <2> DEFINE visible == DownTo(last, rows)
  <2>2. visible \subseteq rows
    BY DEF DownTo
  <2>3. /\ Show(visible) \in [Identities -> 0..2]
        /\ \A id \in Identities :
               /\ Show(visible)[id] <= 1
               /\ Show(visible)[id] > 0 <=>
                      reader.shown[id] > 0 \/ \E row \in visible : row.id = id
    BY <1>0, <1>1, <2>2, ShowOnce
  <2>4. last.at \in Nat /\ last.id \in Nat /\ Below(last, reader.cursor)
    BY <1>5 DEF Fetch, Keyed
  <2>5. CursorOf(last) \in Nat \X Nat /\ CursorOf(last) # <<>>
    BY <2>4 DEF CursorOf
  <2>6. /\ reader' \in ReaderRecord
        /\ reader'.kind = kind /\ reader'.pc = "paging" /\ reader'.kept = reader.kept
        /\ reader'.cursor = CursorOf(last) /\ reader'.shown = Show(visible)
    BY <1>0, <1>1, <1>2, <2>1, <2>3, <2>5 DEF ReaderRecord
  <2>7. ReaderTypeOK'
    BY <1>2, <1>3, <2>6 DEF ReaderTypeOK, Counting
  <2>8. NothingShownTwice'
    BY <2>3, <2>6 DEF NothingShownTwice
  <2>9. ShownIsBehind'
    <3> SUFFICES ASSUME NEW id \in Identities, reader'.shown[id] > 0
                 PROVE  /\ id \in Drawn(kind)
                        /\ \A item \in Items(kind) : item.id = id =>
                               Settled(kind, item) /\ ~Below(item, CursorOf(last))
      BY <1>6, <2>5, <2>6 DEF ShownIsBehind
    <3>1. CASE reader.shown[id] > 0
      <4>1. /\ id \in Drawn(kind)
            /\ \A item \in Items(kind) : item.id = id =>
                   Settled(kind, item) /\ ~Below(item, reader.cursor)
        BY <1>0, <1>1, <3>1 DEF ReaderInv, ShownIsBehind
      <4>2. \A item \in Items(kind) : item.at \in Nat /\ item.id \in Nat
        BY ItemTypes DEF DatabaseInv
      <4> QED
        BY <1>4, <2>4, <4>1, <4>2, BelowIsTransitive
    <3>2. CASE \E row \in visible : row.id = id
      <4>1. PICK row \in visible : row.id = id
        BY <3>2
      <4>2. row \in Rows(kind) /\ ~Below(row, CursorOf(last))
        BY DEF DownTo, Fetch
      <4>3. PICK item \in Items(kind) : item.id = row.id /\ item.at = row.at /\ Settled(kind, item)
        BY <1>2, <4>2, RowItem DEF RowsHaveItems
      <4>4. ~Below(item, CursorOf(last))
        BY <4>2, <4>3 DEF Below
      <4>5. id \in Drawn(kind) /\ \A other \in Items(kind) : other.id = id => other = item
        BY <4>1, <4>3, ItemsAreDrawn DEF DatabaseInv
      <4> QED
        BY <4>3, <4>4, <4>5
    <3> QED
      BY <2>3, <2>6, <3>1, <3>2
  <2>10. KeptIsAhead'
    <3>1. reader.kept \subseteq Listed(kind)
      BY <1>0, <1>1 DEF ReaderInv, KeptIsAhead
    <3>2. ASSUME NEW row \in Rows(kind), row.id \in reader.kept
          PROVE  Show(visible)[row.id] > 0 \/ Below(row, CursorOf(last))
      <4>1. row.id \in Identities
        BY <1>2, <3>2 DEF ReaderRecord
      <4>2. reader.shown[row.id] > 0 \/ Below(row, reader.cursor)
        BY <1>0, <1>1, <3>2 DEF ReaderInv, KeptIsAhead
      <4>3. Below(row, reader.cursor) => row \in visible \/ Below(row, CursorOf(last))
        BY DEF Fetch, DownTo
      <4> QED
        BY <2>3, <4>1, <4>2, <4>3
    <3> QED
      BY <1>6, <2>6, <3>1, <3>2 DEF KeptIsAhead
  <2>11. NothingSkipped' /\ QuietOverviewAddsUp' /\ CountsAreCurrent'
    BY <1>3, <2>6 DEF NothingSkipped, QuietOverviewAddsUp, CountsAreCurrent
  <2> QED
    BY <2>7, <2>8, <2>9, <2>10, <2>11 DEF ReaderInv
<1>8. CASE reader' = [reader EXCEPT !.shown = Show(rows), !.cursor = <<>>, !.pc = "ended"]
  <2>1. /\ Show(rows) \in [Identities -> 0..2]
        /\ \A id \in Identities :
               /\ Show(rows)[id] <= 1
               /\ Show(rows)[id] > 0 <=>
                      reader.shown[id] > 0 \/ \E row \in rows : row.id = id
    BY <1>0, <1>1, ShowOnce
  <2>2. /\ reader' \in ReaderRecord
        /\ reader'.kind = kind /\ reader'.pc = "ended" /\ reader'.kept = reader.kept
        /\ reader'.shown = Show(rows)
    BY <1>0, <1>2, <1>8, <2>1 DEF ReaderRecord
  <2>3. ReaderTypeOK'
    BY <1>3, <2>2 DEF ReaderTypeOK, Counting
  <2>4. NothingShownTwice'
    BY <2>1, <2>2 DEF NothingShownTwice
  <2>5. NothingSkipped'
    <3>1. ASSUME NEW id \in reader.kept
          PROVE  Show(rows)[id] > 0
      <4>1. id \in Identities
        BY <1>2 DEF ReaderRecord
      <4>2. PICK row \in Rows(kind) : row.id = id
        BY <1>0, <1>1 DEF ReaderInv, KeptIsAhead, Listed
      <4>3. reader.shown[id] > 0 \/ Below(row, reader.cursor)
        BY <1>0, <1>1, <4>2 DEF ReaderInv, KeptIsAhead
      <4> QED
        BY <2>1, <4>1, <4>2, <4>3 DEF Fetch
    <3> QED
      BY <2>2, <3>1 DEF NothingSkipped
  <2>6. ShownIsBehind' /\ KeptIsAhead' /\ QuietOverviewAddsUp' /\ CountsAreCurrent'
    BY <1>3, <2>2 DEF ShownIsBehind, KeptIsAhead, QuietOverviewAddsUp, CountsAreCurrent
  <2> QED
    BY <2>3, <2>4, <2>5, <2>6 DEF ReaderInv
<1> QED
  BY <1>0, <1>7, <1>8 DEF ReadPage

LEMMA CommitKeepsReader ==
    ASSUME DatabaseInv, ReaderInv, Commit, Observe
    PROVE  ReaderInv'
<1>0. PICK kind : kind = reader.kind
  OBVIOUS
<1>1. reader \in ReaderRecord
  BY DEF ReaderInv, ReaderTypeOK
<1>2. CASE reader.pc \in {"idle", "ended"}
  <2>1. reader' = reader
    BY <1>2 DEF Observe
  <2>2. ReaderTypeOK' /\ NothingShownTwice' /\ NothingSkipped' /\ QuietOverviewAddsUp'
    BY <2>1 DEF ReaderInv, ReaderTypeOK, NothingShownTwice, NothingSkipped, QuietOverviewAddsUp
  <2>3. ShownIsBehind' /\ KeptIsAhead' /\ CountsAreCurrent'
    BY <1>2, <2>1 DEF ShownIsBehind, KeptIsAhead, CountsAreCurrent, Counting
  <2> QED
    BY <2>2, <2>3 DEF ReaderInv
<1>3. CASE reader.pc \notin {"idle", "ended"}
  <2>1. reader' = [reader EXCEPT !.kept = @ \cap Listed(kind)', !.disturbed = TRUE]
    BY <1>0, <1>3 DEF Observe
  <2>2. /\ reader' \in ReaderRecord
        /\ reader'.kind = kind /\ reader'.pc = reader.pc /\ reader'.cursor = reader.cursor
        /\ reader'.shown = reader.shown /\ reader'.disturbed = TRUE
        /\ reader'.kept = reader.kept \cap Listed(kind)'
    BY <1>0, <1>1, <2>1 DEF ReaderRecord
  <2>3. ReaderTypeOK'
    BY <1>0, <2>2 DEF ReaderInv, ReaderTypeOK
  <2>4. NothingShownTwice' /\ NothingSkipped'
    BY <1>3, <2>2 DEF ReaderInv, NothingShownTwice, NothingSkipped
  <2>5. QuietOverviewAddsUp' /\ CountsAreCurrent'
    BY <2>2 DEF QuietOverviewAddsUp, CountsAreCurrent
  <2>6. ShownIsBehind'
    <3> SUFFICES ASSUME reader.pc = "paging", NEW id \in Identities, reader.shown[id] > 0
                 PROVE  /\ id \in Drawn(kind)'
                        /\ reader.cursor # <<>>
                        /\ \A new \in Items(kind)' : new.id = id =>
                               Settled(kind, new) /\ ~Below(new, reader.cursor)
      BY <2>2 DEF ShownIsBehind, Items, Drawn, Settled, Below
    <3>1. kind \in PagedKinds
      BY <1>0 DEF ReaderInv, ReaderTypeOK
    <3>2. /\ id \in Drawn(kind) /\ reader.cursor # <<>>
          /\ \A item \in Items(kind) : item.id = id =>
                 Settled(kind, item) /\ ~Below(item, reader.cursor)
      BY <1>0 DEF ReaderInv, ShownIsBehind
    <3>3. ASSUME NEW new \in Items(kind)', new.id = id
          PROVE  Settled(kind, new) /\ ~Below(new, reader.cursor)
      <4>1. PICK item \in Items(kind) :
                /\ item.id = new.id
                /\ Settled(kind, item) => Settled(kind, new) /\ new.at = item.at
        BY <3>1, <3>2, <3>3, CommitKeepsKeys
      <4>2. Settled(kind, new) /\ new.at = item.at /\ ~Below(item, reader.cursor)
        BY <3>2, <3>3, <4>1
      <4> QED
        BY <4>1, <4>2 DEF Below
    <3> QED
      BY <3>1, <3>2, <3>3, CommitKeepsKeys
  <2>7. KeptIsAhead'
    <3> SUFFICES ASSUME reader.pc = "paging", NEW new \in Rows(kind)',
                        new.id \in reader.kept
                 PROVE  reader.shown[new.id] > 0 \/ Below(new, reader.cursor)
      BY <2>2 DEF KeptIsAhead, Below
    <3>1. kind \in PagedKinds
      BY <1>0 DEF ReaderInv, ReaderTypeOK
    <3>2. PICK old \in Rows(kind) : old.id = new.id
      BY <1>0 DEF ReaderInv, KeptIsAhead, Listed
    <3>3. reader.shown[old.id] > 0 \/ Below(old, reader.cursor)
      BY <1>0, <3>2 DEF ReaderInv, KeptIsAhead
    <3>4. new.at = old.at
      BY <3>1, <3>2, RowsKeepTheirKeys
    <3> QED
      BY <3>2, <3>3, <3>4 DEF Below
  <2> QED
    BY <2>3, <2>4, <2>5, <2>6, <2>7 DEF ReaderInv
<1> QED
  BY <1>2, <1>3

LEMMA CountsAreNumbers ==
    ASSUME DatabaseInv
    PROVE  /\ Cardinality(events) \in Nat /\ Cardinality(endpoints) \in Nat
           /\ Cardinality(Latest) \in Nat /\ Cardinality(ActionableDeadLetters) \in Nat
<1>1. IsFiniteSet(Latest) /\ IsFiniteSet(ActionableDeadLetters)
  BY FS_Subset DEF DatabaseInv, DatabaseTypeOK, Latest, ActionableDeadLetters
<1> QED
  BY <1>1, FS_CardinalityType DEF DatabaseInv, DatabaseTypeOK

\* One statement of the overview: what its counts have to be for the rest.
LEMMA CountKeepsReader ==
    ASSUME DatabaseInv, ReaderInv, NEW pc \in Counting, NEW counts \in CountRecord,
           NEW next \in (Counting \ {"events"}) \cup {"ended"}, Count(pc, counts, next),
           ~reader.disturbed =>
               /\ next \in Counting => counts.events = Cardinality(events)
               /\ next = "actionable" => /\ counts.latest = Cardinality(Latest)
                                         /\ counts.failed = Cardinality(ActionableDeadLetters)
               /\ next = "ended" => /\ counts.events = counts.latest
                                    /\ counts.failed = counts.actionable
    PROVE  ReaderInv'
<1>1. reader.pc = pc /\ UNCHANGED database
      /\ reader' = [reader EXCEPT !.counts = counts, !.pc = next]
  BY DEF Count
<1>2. reader \in ReaderRecord /\ reader.kind = "overview" /\ reader.kept = {}
  BY <1>1 DEF ReaderInv, ReaderTypeOK
<1>3. /\ reader' \in ReaderRecord /\ reader'.kind = "overview" /\ reader'.kept = {}
      /\ reader'.pc = next /\ reader'.counts = counts /\ reader'.shown = reader.shown
      /\ reader'.disturbed = reader.disturbed
  BY <1>1, <1>2 DEF ReaderRecord
<1>4. next # "paging"
  BY DEF Counting
<1>5. ReaderTypeOK'
  BY <1>3, <1>4 DEF ReaderTypeOK
<1>6. NothingShownTwice' /\ NothingSkipped' /\ ShownIsBehind' /\ KeptIsAhead'
  BY <1>3, <1>4 DEF ReaderInv, NothingShownTwice, NothingSkipped, ShownIsBehind, KeptIsAhead
<1>7. QuietOverviewAddsUp'
  BY <1>3 DEF QuietOverviewAddsUp
<1>8. CountsAreCurrent'
  <2>1. /\ Cardinality(events)' = Cardinality(events) /\ Latest' = Latest
        /\ ActionableDeadLetters' = ActionableDeadLetters
    BY <1>1, SameLists
  <2>2. "actionable" \in Counting
    BY DEF Counting
  <2> QED
    BY <1>3, <2>1, <2>2 DEF CountsAreCurrent
<1> QED
  BY <1>5, <1>6, <1>7, <1>8 DEF ReaderInv

LEMMA OverviewKeepsReader ==
    ASSUME DatabaseInv, ReaderInv,
           CountEvents \/ CountEndpoints \/ CountStatuses \/ CountActionable
    PROVE  ReaderInv'
<1>1. reader.counts \in CountRecord
  BY DEF ReaderInv, ReaderTypeOK, ReaderRecord
<1>2. /\ Cardinality(events) \in Nat /\ Cardinality(endpoints) \in Nat
      /\ Cardinality(Latest) \in Nat /\ Cardinality(ActionableDeadLetters) \in Nat
  BY CountsAreNumbers
<1>3. reader.pc \in Counting => reader.kind = "overview"
  BY DEF ReaderInv, ReaderTypeOK
<1>4. CASE CountEvents
  <2> DEFINE counts == [reader.counts EXCEPT !.events = Cardinality(events)]
  <2>1. Count("events", counts, "endpoints")
    BY <1>4 DEF CountEvents
  <2>2. counts \in CountRecord /\ counts.events = Cardinality(events)
    BY <1>1, <1>2 DEF CountRecord
  <2> HIDE DEF counts
  <2> QED
    BY <2>1, <2>2, CountKeepsReader DEF Counting
<1>5. CASE CountEndpoints
  <2> DEFINE counts == [reader.counts EXCEPT !.endpoints = Cardinality(endpoints)]
  <2>1. Count("endpoints", counts, "statuses")
    BY <1>5 DEF CountEndpoints
  <2>2. counts \in CountRecord /\ counts.events = reader.counts.events
    BY <1>1, <1>2 DEF CountRecord
  <2>3. ~reader.disturbed => reader.counts.events = Cardinality(events)
    BY <1>3, <2>1 DEF Count, ReaderInv, CountsAreCurrent, Counting
  <2> HIDE DEF counts
  <2> QED
    BY <2>1, <2>2, <2>3, CountKeepsReader DEF Counting
<1>6. CASE CountStatuses
  <2>0. {d \in Latest : d.status = "dead_lettered"} = ActionableDeadLetters
    BY DEF Latest, ActionableDeadLetters
  <2> DEFINE counts == [reader.counts EXCEPT !.latest = Cardinality(Latest),
                                             !.failed = Cardinality(ActionableDeadLetters)]
  <2>1. Count("statuses", counts, "actionable")
    BY <1>6, <2>0 DEF CountStatuses, Latest
  <2>2. /\ counts \in CountRecord /\ counts.events = reader.counts.events
        /\ counts.latest = Cardinality(Latest)
        /\ counts.failed = Cardinality(ActionableDeadLetters)
    BY <1>1, <1>2 DEF CountRecord
  <2>3. ~reader.disturbed => reader.counts.events = Cardinality(events)
    BY <1>3, <2>1 DEF Count, ReaderInv, CountsAreCurrent, Counting
  <2> HIDE DEF counts
  <2> QED
    BY <2>1, <2>2, <2>3, CountKeepsReader DEF Counting
<1>7. CASE CountActionable
  <2> DEFINE counts == [reader.counts EXCEPT !.actionable = Cardinality(ActionableDeadLetters)]
  <2>1. Count("actionable", counts, "ended")
    BY <1>7 DEF CountActionable
  <2>2. /\ counts \in CountRecord /\ counts.events = reader.counts.events
        /\ counts.latest = reader.counts.latest /\ counts.failed = reader.counts.failed
        /\ counts.actionable = Cardinality(ActionableDeadLetters)
    BY <1>1, <1>2 DEF CountRecord
  <2>3. ~reader.disturbed =>
            /\ reader.counts.events = Cardinality(events)
            /\ reader.counts.latest = Cardinality(Latest)
            /\ reader.counts.failed = Cardinality(ActionableDeadLetters)
    BY <1>3, <2>1 DEF Count, ReaderInv, CountsAreCurrent, Counting
  <2> HIDE DEF counts
  <2> QED
    BY <2>1, <2>2, <2>3, LatestPerEvent, CountKeepsReader DEF Counting
<1> QED
  BY <1>4, <1>5, <1>6, <1>7

-----------------------------------------------------------------------------
(* The theorems.                                                           *)

\* The invariant holds: what the reader has seen fits the tables, whatever the
\* rest of the system commits between its statements (control_room.py).
THEOREM ControlRoomInvariant == Spec => []ControlRoomInv
<1>1. Init => ControlRoomInv
  <2> SUFFICES ASSUME Init
               PROVE  ControlRoomInv
    OBVIOUS
  <2>1. DatabaseInv
    BY FS_EmptySet DEF Init, DatabaseInv, DatabaseTypeOK, IdentitiesAreKeys, ChainsAreWhole
  <2>2. reader \in ReaderRecord /\ reader.pc = "idle" /\ reader.kind = "none"
        /\ \A id \in Identities : reader.shown[id] = 0
    BY DEF Init, NoReader, ReaderRecord, Counts, CountRecord
  <2>3. ReaderTypeOK
    BY <2>2 DEF ReaderTypeOK, Counting
  <2>4. /\ NothingShownTwice /\ ShownIsBehind /\ NothingSkipped /\ KeptIsAhead
        /\ QuietOverviewAddsUp /\ CountsAreCurrent
    BY <2>2 DEF NothingShownTwice, ShownIsBehind, NothingSkipped, KeptIsAhead,
                QuietOverviewAddsUp, CountsAreCurrent
  <2> QED
    BY <2>1, <2>3, <2>4 DEF ControlRoomInv, ReaderInv
<1>2. ControlRoomInv /\ [Next]_vars => ControlRoomInv'
  <2> SUFFICES ASSUME DatabaseInv, ReaderInv, [Next]_vars
               PROVE  DatabaseInv' /\ ReaderInv'
    BY DEF ControlRoomInv
  <2>1. CASE Commit /\ Observe
    BY <2>1, CommitKeepsDatabase, CommitKeepsReader
  <2>2. CASE Read
    <3>1. UNCHANGED database /\ clock' = clock
      BY <2>2 DEF Read, Start, ReadPage, Count, CountEvents, CountEndpoints, CountStatuses,
                  CountActionable
    <3>2. DatabaseInv'
      BY <3>1, SameDatabase DEF DatabaseInv, DatabaseTypeOK
    <3> QED
      BY <2>2, <3>2, StartKeepsReader, PageKeepsReader, OverviewKeepsReader DEF Read
  <2>3. CASE Tick \/ UNCHANGED vars
    <3>1. UNCHANGED database /\ reader' = reader /\ clock' \in Nat
      BY <2>3 DEF Tick, vars, database, DatabaseInv, DatabaseTypeOK
    <3>2. DatabaseInv'
      BY <3>1, SameDatabase
    <3>3. ReaderTypeOK' /\ NothingShownTwice' /\ NothingSkipped' /\ QuietOverviewAddsUp'
      BY <3>1 DEF ReaderInv, ReaderTypeOK, NothingShownTwice, NothingSkipped, QuietOverviewAddsUp
    <3>4. ShownIsBehind' /\ KeptIsAhead' /\ CountsAreCurrent'
      <4>1. PICK kind : kind = reader.kind
        OBVIOUS
      <4>2. /\ Rows(kind)' = Rows(kind) /\ Listed(kind)' = Listed(kind)
            /\ Items(kind)' = Items(kind) /\ Drawn(kind)' = Drawn(kind)
            /\ Latest' = Latest /\ ActionableDeadLetters' = ActionableDeadLetters
            /\ Cardinality(events)' = Cardinality(events)
        BY <3>1, SameLists
      <4> QED
        BY <3>1, <4>1, <4>2 DEF ReaderInv, ShownIsBehind, KeptIsAhead, CountsAreCurrent
    <3> QED
      BY <3>2, <3>3, <3>4 DEF ReaderInv
  <2> QED
    BY <2>1, <2>2, <2>3 DEF Next, Commit
<1> QED
  BY <1>1, <1>2, PTL DEF Spec

\* Going from page to page shows nothing twice (control_room.py list_events,
\* list_dead_letters, list_endpoints), for any page size and any commits.
THEOREM NothingIsEverShownTwice == Spec => []NothingShownTwice
<1>1. ControlRoomInv => NothingShownTwice
  BY DEF ControlRoomInv, ReaderInv
<1> QED
  BY <1>1, ControlRoomInvariant, PTL

\* What was in the list from the first page to the last has been shown when
\* there is no next page.
THEOREM NothingIsEverSkipped == Spec => []NothingSkipped
<1>1. ControlRoomInv => NothingSkipped
  BY DEF ControlRoomInv, ReaderInv
<1> QED
  BY <1>1, ControlRoomInvariant, PTL

\* The order by (timestamp, id) determines every page.
THEOREM PagesAreAlwaysDetermined == Spec => []PagesAreDetermined
<1>1. ControlRoomInv => PagesAreDetermined
  <2> DEFINE rows == Fetch(reader.kind, reader.cursor)
  <2> SUFFICES ASSUME ControlRoomInv, reader.pc = "paging", Cardinality(rows) > Limit
               PROVE  \E last \in rows :
                          /\ Cardinality(DownTo(last, rows)) = Limit
                          /\ \A row \in rows : Cardinality(DownTo(row, rows)) = Limit => row = last
    BY DEF PagesAreDetermined
  <2>1. DatabaseInv /\ reader.kind \in PagedKinds
    BY DEF ControlRoomInv, ReaderInv, ReaderTypeOK
  <2>2. rows \subseteq Rows(reader.kind)
    BY DEF Fetch
  <2>3. IsFiniteSet(rows)
    BY <2>1, <2>2, RowsAreFinite, FS_Subset
  <2>4. Keyed(rows) /\ Distinct(rows)
    BY <2>1, <2>2, RowsAreKeyed, RowsAreDistinct DEF DatabaseInv, Keyed, Distinct
  <2> HIDE DEF rows
  <2> QED
    BY <2>3, <2>4, PageEnds
<1> QED
  BY <1>1, ControlRoomInvariant, PTL

\* An overview during which nothing was committed adds up (control_room.py overview).
THEOREM QuietOverviewAlwaysAddsUp == Spec => []QuietOverviewAddsUp
<1>1. ControlRoomInv => QuietOverviewAddsUp
  BY DEF ControlRoomInv, ReaderInv
<1> QED
  BY <1>1, ControlRoomInvariant, PTL

-----------------------------------------------------------------------------
(* The refinement: each commit is one step of DeliveryChains.              *)

\* What the abstract specification sees of a delivery.
Seen(d) == [event |-> d.event, generation |-> d.generation, status |-> d.status]

LEMMA GenerationsAreDeliveries ==
    generationsBar = {Seen(d) : d \in deliveries}
BY DEF generationsBar, Seen

LEMMA PublishRefines ==
    ASSUME DatabaseInv, Publish
    PROVE  \E e \in EventIds : Chains!Accept(e)
<1>1. PICK id \in EventIds \ drawn.events, x \in DeliveryIds \ drawn.deliveries, at \in 0..clock :
          /\ deliveries' = deliveries \cup {NewDelivery(x, id, 0)}
          /\ drawn' = [drawn EXCEPT !.events = @ \cup {id}, !.deliveries = @ \cup {x}]
  BY DEF Publish
<1>2. drawn'.events = drawn.events \cup {id}
  BY <1>1 DEF DatabaseInv, DatabaseTypeOK
<1>3. Seen(NewDelivery(x, id, 0)) = Chains!Pending(id, 0)
  BY DEF Seen, NewDelivery, Chains!Pending
<1>4. generationsBar' = {Seen(d) : d \in deliveries'}
  BY DEF generationsBar, Seen
<1>5. generationsBar' = generationsBar \cup {Chains!Pending(id, 0)}
  BY <1>1, <1>3, <1>4, GenerationsAreDeliveries
<1> QED
  BY <1>1, <1>2, <1>5 DEF Chains!Accept

LEMMA ProgressRefines ==
    ASSUME DatabaseInv, Progress
    PROVE  \E g \in generationsBar : Chains!Progress(g)
<1>0. PICK d \in deliveries : \E status \in ALLOWED_TRANSITIONS[d.status], at \in 0..clock :
          deliveries' = (deliveries \ {d}) \cup
               {[d EXCEPT !.status = status, !.at = IF status = "dead_lettered" THEN at ELSE 0]}
  BY DEF Progress
<1>1. PICK status \in ALLOWED_TRANSITIONS[d.status], at \in 0..clock :
          deliveries' = (deliveries \ {d}) \cup
               {[d EXCEPT !.status = status, !.at = IF status = "dead_lettered" THEN at ELSE 0]}
  BY <1>0
<1> DEFINE new == [d EXCEPT !.status = status, !.at = IF status = "dead_lettered" THEN at ELSE 0]
           g == Seen(d)
           moved == [g EXCEPT !.status = status]
<1>2. d \in DeliveryRecord
  BY DEF DatabaseInv, DatabaseTypeOK
<1>3. new.event = d.event /\ new.generation = d.generation /\ new.status = status
  BY <1>2 DEF DeliveryRecord
<1> HIDE DEF new
<1>4. deliveries' = (deliveries \ {d}) \cup {new}
  BY <1>1 DEF new
<1>5. Seen(new) = moved /\ g.status = d.status
  BY <1>3 DEF Seen
<1>6. \A c \in deliveries : c # d => Seen(c) # g
  BY DEF Seen, DatabaseInv, ChainsAreWhole
<1>7. generationsBar' = {Seen(c) : c \in deliveries'}
  BY DEF generationsBar, Seen
<1>8. g \in generationsBar
  BY GenerationsAreDeliveries
<1> HIDE DEF g, moved
<1>9. generationsBar' = (generationsBar \ {g}) \cup {moved}
  BY <1>4, <1>5, <1>6, <1>7, GenerationsAreDeliveries DEF g
<1>10. drawn' = drawn
  BY DEF Progress
<1>11. Chains!Progress(g)
  BY <1>5, <1>9, <1>10 DEF moved, Chains!Progress, Chains!ALLOWED_TRANSITIONS, ALLOWED_TRANSITIONS
<1> QED
  BY <1>8, <1>11

LEMMA ReplayRefines ==
    ASSUME DatabaseInv, Replay
    PROVE  \E g \in generationsBar : Chains!Replay(g)
<1>1. PICK d \in ActionableDeadLetters, x \in DeliveryIds \ drawn.deliveries :
          /\ deliveries' = deliveries \cup {NewDelivery(x, d.event, d.generation + 1)}
          /\ drawn' = [drawn EXCEPT !.deliveries = @ \cup {x}]
  BY DEF Replay
<1> DEFINE g == Seen(d)
           new == Chains!Pending(g.event, g.generation + 1)
<1>2. d \in deliveries /\ LatestGeneration(d) /\ g.status = "dead_lettered"
  BY DEF ActionableDeadLetters, Seen
<1>3. Seen(NewDelivery(x, d.event, d.generation + 1)) = new
  BY DEF Seen, NewDelivery, Chains!Pending
<1>4. generationsBar' = {Seen(c) : c \in deliveries'}
  BY DEF generationsBar, Seen
<1>5. generationsBar' = generationsBar \cup {new}
  BY <1>1, <1>3, <1>4, GenerationsAreDeliveries
<1>6. drawn'.events = drawn.events
  BY <1>1 DEF DatabaseInv, DatabaseTypeOK
<1>7. ASSUME NEW other \in generationsBar, other.event = g.event
      PROVE  other.generation <= g.generation
  <2>1. PICK c \in deliveries : other = Seen(c)
    BY GenerationsAreDeliveries
  <2>2. c.generation \in Nat /\ d.generation \in Nat
    BY <1>2 DEF DatabaseInv, DatabaseTypeOK, DeliveryRecord
  <2> QED
    BY <1>2, <1>7, <2>1, <2>2 DEF LatestGeneration, Seen
<1>8. Chains!Replay(g)
  BY <1>2, <1>5, <1>6, <1>7 DEF Chains!Replay
<1> QED
  BY <1>2, <1>8, GenerationsAreDeliveries

LEMMA PurgeRefines ==
    ASSUME DatabaseInv, Purge
    PROVE  \E S \in SUBSET drawn.events : Chains!Purge(S)
<1>1. PICK e \in events :
          /\ \A d \in deliveries : d.event = e.id => d.status \in Terminal \/ d.generation > 0
          /\ deliveries' = deliveries \ {d \in deliveries : d.event = e.id}
  BY DEF Purge
<1>2. {e.id} \subseteq drawn.events /\ drawn' = drawn
  BY DEF Purge, DatabaseInv, IdentitiesAreKeys
<1>3. \A d : Seen(d).event = d.event /\ Seen(d).generation = d.generation
             /\ Seen(d).status = d.status
  BY DEF Seen
<1>4. generationsBar' = {Seen(d) : d \in deliveries'}
  BY DEF generationsBar, Seen
<1>5. generationsBar' = {g \in generationsBar : g.event \notin {e.id}}
  BY <1>1, <1>3, <1>4, GenerationsAreDeliveries
<1>6. \A g \in generationsBar : g.event \in {e.id} /\ g.generation = 0 => g.status \in Terminal
  <2>1. \A d \in deliveries : d.event = e.id /\ d.generation = 0 => d.status \in Terminal
    BY <1>1
  <2> QED
    BY <1>3, <2>1, GenerationsAreDeliveries
<1>7. Chains!Purge({e.id})
  BY <1>2, <1>5, <1>6 DEF Chains!Purge, Chains!Terminal, Terminal
<1> QED
  BY <1>2, <1>7

\* The lists are read from tables that the rest of the system changes only in
\* the steps of DeliveryChains, the specification that replay and retention
\* implement (RetentionProofs).
THEOREM CommitsImplementChains == Spec => ImplementsChains
<1>1. Init => Chains!Init
  BY DEF Init, generationsBar, Chains!Init
<1>2. ASSUME DatabaseInv, [Next]_vars
      PROVE  [Chains!Next]_(Chains!vars)
  <2> USE <1>2
  <2>1. CASE Publish
    BY <2>1, PublishRefines DEF Chains!Next
  <2>2. CASE Progress
    BY <2>2, ProgressRefines DEF Chains!Next
  <2>3. CASE Replay
    BY <2>3, ReplayRefines DEF Chains!Next
  <2>4. CASE Purge
    BY <2>4, PurgeRefines DEF Chains!Next
  <2>5. CASE CreateEndpoint
    <3>1. drawn'.events = drawn.events /\ deliveries' = deliveries
      BY <2>5 DEF CreateEndpoint, DatabaseInv, DatabaseTypeOK
    <3> QED
      BY <3>1 DEF Chains!vars, generationsBar
  <2>6. CASE UNCHANGED database
    BY <2>6 DEF database, Chains!vars, generationsBar
  <2> QED
    BY <2>1, <2>2, <2>3, <2>4, <2>5, <2>6
       DEF Next, vars, database, Tick, Read, Start, ReadPage, Count, CountEvents,
           CountEndpoints, CountStatuses, CountActionable
<1> QED
  BY <1>1, <1>2, ControlRoomInvariant, PTL DEF Spec, ControlRoomInv, ImplementsChains, Chains!Spec
=============================================================================
