-------------------------- MODULE IsolationProofs --------------------------
(***************************************************************************)
(* Proofs about Isolation: a database that changed hands was backed up and *)
(* reviewed, an Apply that succeeded kept the data, and Verify tells the   *)
(* truth, for every set of executions, runs and objects.                   *)
(*                                                                         *)
(* What a job has established is a matter of the steps it still has to     *)
(* make, so each part of the inductive invariant speaks of Left(j), their  *)
(* number.                                                                 *)
(***************************************************************************)
EXTENDS Isolation, TLAPS

StepNames ==
    {"inventory", "frozen", "snapshot", "manifest", "dump", "close", "upload_dump", "download",
     "upload_manifest", "compare", "inventory_again", "guard", "transfer", "checks", "commit",
     "login", "roles", "privileges", "other_login", "denied"}

Modes == {"Inspect", "Apply", "Verify"}

Snaps == [rows : Nat, objects : SUBSET Objects]

Databases ==
    [rows : Nat, seq : Nat, owners : Inventories, role : Runs \cup {None}, public : BOOLEAN,
     lock : Jobs \cup {None}, pending : SUBSET Objects, reviewed : BOOLEAN]

Sessions == [connected : BOOLEAN, connects : Nat]

Backups == [dump : Images \cup {None}, manifest : Manifests \cup {None}]

JobRecords ==
    [outcome : {"idle", "running", "done", "failed"}, mode : Modes \cup {None},
     run : Runs \cup {None}, todo : Seq(StepNames),
     inventory : Inventories \cup {None}, snap : Snaps \cup {None},
     expected : Images \cup {None}, dump : Images \cup {None},
     frozenAt : Nat, inventoryAt : Nat]

\* The values the variables range over.
TypeOK ==
    /\ db \in Databases
    /\ session \in Sessions
    /\ backup \in [Runs -> Backups]
    /\ other \in [role : BOOLEAN, public : BOOLEAN]
    /\ job \in [Jobs -> JobRecords]

Left(j) == Len(job[j].todo)

\* A job that was started and has not failed has a mode and a run; what it still
\* has to do is the end of its mode's steps, and something as long as it runs.
IsSuffix(todo, steps) ==
    /\ Len(todo) <= Len(steps)
    /\ \A i \in 1..Len(todo) : todo[i] = steps[Len(steps) - Len(todo) + i]

InSequence ==
    \A j \in Jobs : job[j].outcome \in {"running", "done"} =>
        /\ job[j].mode \in Modes /\ job[j].run \in Runs
        /\ IsSuffix(job[j].todo, StepsOf(job[j].mode))
        /\ job[j].outcome = "running" => Left(j) > 0
        /\ job[j].outcome = "done" => Left(j) = 0

\* An Apply that has not failed.
Applying(j) == job[j].outcome \in {"running", "done"} /\ job[j].mode = "Apply"

(***************************************************************************)
(* What an Apply with record r and n steps left has established, in a      *)
(* database d, among sessions s and beside a container b.                  *)
(***************************************************************************)

\* What the backup phase has in hand.  Objects are only ever added, so what the
\* first inventory listed is in the dump, and what is in the dump is still there.
Collected(r, n, d) ==
    /\ n <= 21 =>
           /\ r.inventory \in Inventories /\ Present(r.inventory) \subseteq Present(d.owners)
           /\ \A o \in Present(r.inventory) : r.inventory[o] = "owner"
    /\ n \in (16..19) \cup {11, 2} => r.snap \in Snaps
    /\ n \in 16..19 =>
           /\ Present(r.inventory) \subseteq r.snap.objects
           /\ r.snap.objects \subseteq Present(d.owners)
    /\ n <= 18 => r.expected \in Images /\ r.expected.seq <= d.seq
    /\ n = 18 => /\ r.expected.rows = r.snap.rows
                 /\ r.expected.objects = r.snap.objects \cap Tables
    /\ n <= 17 =>
           /\ r.dump \in Images
           /\ r.expected.rows = r.dump.rows /\ r.expected.objects = r.dump.objects \cap Tables
           /\ r.expected.seq <= r.dump.seq /\ r.dump.seq <= d.seq
           /\ Present(r.inventory) \subseteq r.dump.objects
           /\ r.dump.objects \subseteq Present(d.owners)
    /\ n <= 10 => r.expected = ManifestOf(r.dump)
    /\ n <= 8 => r.dump.objects = Present(r.inventory)

\* What the container holds of it.
Stored(r, n, b) ==
    /\ n <= 14 => b[r.run].dump = r.dump
    /\ n <= 12 => b[r.run].manifest =
           [inventory |-> r.inventory, expected |-> r.expected, dump |-> r.dump]

\* A freeze check counted the sessions there had been; if that is still their
\* number, there is none now.
Counted(at, s) == at <= s.connects /\ (at = s.connects => ~s.connected)

FreezeCounted(r, n, s) ==
    /\ n <= 20 => Counted(r.frozenAt, s)
    /\ n <= 8 => Counted(r.inventoryAt, s)

\* Until the role exists, and no session having come, the database is the one
\* the second inventory reviewed, and the transaction has altered all it can.
Reviewed(r, n, d, s) ==
    /\ n \in 4..8 /\ d.role = None /\ r.inventoryAt = s.connects => d.owners = r.inventory
    /\ n \in {4, 5} /\ r.frozenAt = s.connects => d.pending = Present(d.owners) \cap Movable

\* After the commit, and no session having come since the guard, what can be
\* handed over is the application's, and the tables are what the backup says.
HandedOver(r, n, d, s) ==
    n <= 3 =>
        /\ d.role = r.run
        /\ r.frozenAt = s.connects =>
               /\ \A o \in Present(d.owners) \cap Movable : d.owners[o] = "app"
               /\ n = 2 => r.snap = [rows |-> d.rows, objects |-> Present(d.owners)]
               /\ n <= 1 => r.expected = ManifestOf([rows |-> d.rows,
                                       objects |-> Present(d.owners), seq |-> d.seq])

Established(r, n, d, s, b) ==
    /\ Collected(r, n, d) /\ Stored(r, n, b) /\ FreezeCounted(r, n, s)
    /\ Reviewed(r, n, d, s) /\ HandedOver(r, n, d, s)

AppliesEstablish ==
    \A j \in Jobs : Applying(j) => Established(job[j], Left(j), db, session, backup)

\* The ownership transaction is open exactly between its guard and its commit;
\* the role does not exist before one committed, and without it there is
\* nothing it owns.
LockHeld ==
    /\ \A j \in Jobs : db.lock = j <=> Applying(j) /\ Left(j) \in 4..6
    /\ db.lock # None => db.role = None
    /\ db.role = None => \A o \in Objects : db.owners[o] # "app"
    /\ db.pending \subseteq Present(db.owners)

\* A Verify with n steps left goes on only from what it saw, and none of that is
\* ever undone.
Confirmed(n, d, o) ==
    /\ n <= 4 => d.role # None /\ o.role
    /\ n <= 3 => ~d.public /\ ~o.public

VerifiesConfirm ==
    \A j \in Jobs : job[j].outcome \in {"running", "done"} /\ job[j].mode = "Verify" =>
        Confirmed(Left(j), db, other)

IsolationInv ==
    /\ TypeOK /\ InSequence /\ AppliesEstablish /\ LockHeld /\ VerifiesConfirm
    /\ ChangeIsBackedUpAndReviewed

-----------------------------------------------------------------------------
\* The order of the steps.

LEMMA StepsTypes ==
    \A mode \in Modes :
        /\ StepsOf(mode) \in Seq(StepNames) /\ Len(StepsOf(mode)) > 0
        /\ mode = "Apply" => Len(StepsOf(mode)) = 22
        /\ mode = "Verify" => Len(StepsOf(mode)) = 5
<1>1. Len(ApplySteps) = 22 /\ ApplySteps = [i \in 1..22 |-> ApplySteps[i]]
  BY DEF ApplySteps
<1>2. \A i \in 1..22 : ApplySteps[i] \in StepNames
  BY DEF ApplySteps, StepNames
<1>3. ApplySteps \in Seq(StepNames)
  BY <1>1, <1>2
<1>4. <<"inventory">> \in Seq(StepNames) /\ Len(<<"inventory">>) = 1
  BY DEF StepNames
<1>5. /\ <<"roles", "privileges", "login", "other_login", "denied">> \in Seq(StepNames)
      /\ Len(<<"roles", "privileges", "login", "other_login", "denied">>) = 5
  BY DEF StepNames
<1> QED
  BY <1>1, <1>3, <1>4, <1>5 DEF StepsOf, Modes

LEMMA ApplyOrder ==
    \A n \in 1..22 :
        /\ ApplySteps[23 - n] = "inventory" => n = 22
        /\ ApplySteps[23 - n] = "frozen" => n \in {21, 17, 10, 8}
        /\ ApplySteps[23 - n] = "snapshot" => n \in {20, 12, 3}
        /\ ApplySteps[23 - n] = "manifest" => n = 19
        /\ ApplySteps[23 - n] = "dump" => n = 18
        /\ ApplySteps[23 - n] = "close" => n = 16
        /\ ApplySteps[23 - n] = "upload_dump" => n = 15
        /\ ApplySteps[23 - n] = "download" => n = 14
        /\ ApplySteps[23 - n] = "upload_manifest" => n = 13
        /\ ApplySteps[23 - n] = "compare" => n \in {11, 2}
        /\ ApplySteps[23 - n] = "inventory_again" => n = 9
        /\ ApplySteps[23 - n] = "guard" => n = 7
        /\ ApplySteps[23 - n] = "transfer" => n = 6
        /\ ApplySteps[23 - n] = "checks" => n = 5
        /\ ApplySteps[23 - n] = "commit" => n = 4
        /\ ApplySteps[23 - n] = "login" => n = 1
        /\ ApplySteps[23 - n] \notin {"roles", "privileges", "other_login", "denied"}
BY DEF ApplySteps

\* What an end of a sequence starts with, and that its tail is an end too.
LEMMA SuffixHead ==
    ASSUME NEW todo \in Seq(StepNames), NEW steps \in Seq(StepNames),
           IsSuffix(todo, steps), Len(todo) > 0
    PROVE  /\ Len(todo) \in 1..Len(steps)
           /\ Head(todo) = steps[Len(steps) + 1 - Len(todo)]
<1>1. Len(todo) \in Nat /\ Len(steps) \in Nat /\ Head(todo) = todo[1]
  OBVIOUS
<1>2. Len(todo) <= Len(steps) /\ 1 \in 1..Len(todo)
  BY <1>1 DEF IsSuffix
<1>3. todo[1] = steps[Len(steps) - Len(todo) + 1]
  BY <1>2 DEF IsSuffix
<1>4. Len(steps) - Len(todo) + 1 = Len(steps) + 1 - Len(todo) /\ Len(todo) \in 1..Len(steps)
  BY <1>1, <1>2
<1> QED
  BY <1>1, <1>3, <1>4

LEMMA SuffixTail ==
    ASSUME NEW todo \in Seq(StepNames), NEW steps \in Seq(StepNames),
           IsSuffix(todo, steps), Len(todo) > 0
    PROVE  /\ Tail(todo) \in Seq(StepNames) /\ Len(Tail(todo)) = Len(todo) - 1
           /\ IsSuffix(Tail(todo), steps)
<1> DEFINE n == Len(todo)
           m == Len(steps)
<1>1. n \in Nat \ {0} /\ m \in Nat /\ n <= m
  BY DEF IsSuffix
<1>2. /\ Tail(todo) \in Seq(StepNames) /\ Len(Tail(todo)) = n - 1
      /\ \A i \in 1..(n - 1) : Tail(todo)[i] = todo[i + 1]
  BY <1>1
<1>3. ASSUME NEW i \in 1..(n - 1) PROVE Tail(todo)[i] = steps[m - (n - 1) + i]
  <2>1. i + 1 \in 1..n /\ m - n + (i + 1) = m - (n - 1) + i
    BY <1>1
  <2>2. todo[i + 1] = steps[m - n + (i + 1)]
    BY <2>1 DEF IsSuffix
  <2> QED
    BY <1>2, <2>1, <2>2
<1>4. n - 1 <= m
  BY <1>1
<1> QED
  BY <1>2, <1>3, <1>4 DEF IsSuffix

\* A live Apply that stands at a step has as many left as the step's place says.
LEMMA AtApply ==
    ASSUME TypeOK, InSequence, NEW j \in Jobs, NEW step, At(j, step), job[j].mode = "Apply"
    PROVE  Left(j) \in 1..22 /\ ApplySteps[23 - Left(j)] = step
<1>1. job[j] \in JobRecords /\ job[j].outcome = "running" /\ Head(job[j].todo) = step
  BY DEF TypeOK, At, Live
<1>2. /\ job[j].todo \in Seq(StepNames) /\ Left(j) > 0
      /\ IsSuffix(job[j].todo, StepsOf("Apply"))
  BY <1>1 DEF InSequence, JobRecords
<1>3. /\ Len(StepsOf("Apply")) = 22 /\ StepsOf("Apply") = ApplySteps
      /\ ApplySteps \in Seq(StepNames)
  BY StepsTypes DEF Modes, StepsOf
<1>4. Left(j) \in 1..22 /\ step = ApplySteps[22 + 1 - Left(j)]
  BY <1>1, <1>2, <1>3, SuffixHead DEF Left
<1> QED
  BY <1>4

LEMMA AtVerify ==
    ASSUME TypeOK, InSequence, NEW j \in Jobs, NEW step, At(j, step), job[j].mode = "Verify"
    PROVE  \/ step = "roles" /\ Left(j) = 5
           \/ step = "privileges" /\ Left(j) = 4
           \/ step = "login" /\ Left(j) = 3
           \/ step = "other_login" /\ Left(j) = 2
           \/ step = "denied" /\ Left(j) = 1
<1> DEFINE steps == <<"roles", "privileges", "login", "other_login", "denied">>
<1>1. job[j] \in JobRecords /\ job[j].outcome = "running" /\ Head(job[j].todo) = step
  BY DEF TypeOK, At, Live
<1>2. /\ job[j].todo \in Seq(StepNames) /\ Left(j) > 0
      /\ IsSuffix(job[j].todo, StepsOf("Verify"))
  BY <1>1 DEF InSequence, JobRecords
<1>3. StepsOf("Verify") \in Seq(StepNames) /\ Len(StepsOf("Verify")) = 5
  BY StepsTypes DEF Modes
<1>4. Left(j) \in 1..5 /\ step = StepsOf("Verify")[5 + 1 - Left(j)]
  BY <1>1, <1>2, <1>3, SuffixHead DEF Left
<1>5. StepsOf("Verify") = steps
  BY DEF StepsOf
<1> QED
  BY <1>4, <1>5

LEMMA AtInspect ==
    ASSUME TypeOK, InSequence, NEW j \in Jobs, NEW step, At(j, step), job[j].mode = "Inspect"
    PROVE  step = "inventory"
<1>1. job[j] \in JobRecords /\ job[j].outcome = "running" /\ Head(job[j].todo) = step
  BY DEF TypeOK, At, Live
<1>2. /\ job[j].todo \in Seq(StepNames) /\ Left(j) > 0
      /\ IsSuffix(job[j].todo, <<"inventory">>)
  BY <1>1 DEF InSequence, JobRecords, StepsOf
<1>3. <<"inventory">> \in Seq(StepNames) /\ Len(<<"inventory">>) = 1
  BY DEF StepNames
<1>4. Left(j) \in 1..1 /\ step = <<"inventory">>[1 + 1 - Left(j)]
  BY <1>1, <1>2, <1>3, SuffixHead DEF Left
<1> QED
  BY <1>4

\* One step done: the job has one less to make, and is done after the last.
LEMMA Advanced ==
    ASSUME TypeOK, InSequence, NEW j \in Jobs, Live(j), NEW r \in JobRecords,
           r.outcome = "running", r.mode = job[j].mode, r.run = job[j].run,
           r.todo = job[j].todo, Advance(j, r)
    PROVE  /\ job' \in [Jobs -> JobRecords] /\ InSequence'
           /\ \A k \in Jobs \ {j} : job'[k] = job[k]
           /\ Left(j) \in Nat \ {0} /\ Left(j)' = Left(j) - 1
           /\ job'[j].outcome \in {"running", "done"}
           /\ job'[j].mode = r.mode /\ job'[j].run = r.run
           /\ job'[j].inventory = r.inventory /\ job'[j].snap = r.snap
           /\ job'[j].expected = r.expected /\ job'[j].dump = r.dump
           /\ job'[j].frozenAt = r.frozenAt /\ job'[j].inventoryAt = r.inventoryAt
<1> DEFINE steps == StepsOf(job[j].mode)
           q == [r EXCEPT !.todo = Tail(@), !.outcome = IF Len(r.todo) = 1 THEN "done" ELSE @]
<1>1. /\ job[j] \in JobRecords /\ job[j].outcome = "running"
      /\ job[j].mode \in Modes /\ job[j].run \in Runs
      /\ IsSuffix(job[j].todo, steps) /\ Left(j) > 0
      /\ r.todo \in Seq(StepNames)
  BY DEF TypeOK, Live, InSequence, JobRecords
<1>2. Left(j) \in Nat \ {0} /\ Left(j) = Len(r.todo)
  BY <1>1 DEF Left
<1>3. /\ Tail(r.todo) \in Seq(StepNames) /\ Len(Tail(r.todo)) = Left(j) - 1
      /\ IsSuffix(Tail(r.todo), steps)
  <2>1. steps \in Seq(StepNames)
    BY <1>1, StepsTypes
  <2> HIDE DEF steps
  <2> QED
    BY <1>1, <1>2, <2>1, SuffixTail
<1>6. /\ q \in JobRecords
      /\ q.todo = Tail(r.todo)
      /\ q.outcome = (IF Left(j) = 1 THEN "done" ELSE "running")
      /\ q.mode = r.mode /\ q.run = r.run
      /\ q.inventory = r.inventory /\ q.snap = r.snap
      /\ q.expected = r.expected /\ q.dump = r.dump
      /\ q.frozenAt = r.frozenAt /\ q.inventoryAt = r.inventoryAt
  BY <1>2, <1>3 DEF JobRecords
<1>7. job' = [job EXCEPT ![j] = q]
  BY DEF Advance
<1> HIDE DEF q
<1>8. job' \in [Jobs -> JobRecords] /\ job'[j] = q /\ \A k \in Jobs \ {j} : job'[k] = job[k]
  BY <1>6, <1>7 DEF TypeOK
<1>9. Left(j)' = Left(j) - 1
  BY <1>3, <1>6, <1>8 DEF Left
<1>10. InSequence'
  <2> SUFFICES ASSUME NEW k \in Jobs, job'[k].outcome \in {"running", "done"}
               PROVE  /\ job'[k].mode \in Modes /\ job'[k].run \in Runs
                      /\ IsSuffix(job'[k].todo, StepsOf(job'[k].mode))
                      /\ job'[k].outcome = "running" => Len(job'[k].todo) > 0
                      /\ job'[k].outcome = "done" => Len(job'[k].todo) = 0
    BY DEF InSequence, Left
  <2>1. CASE k = j
    <3>1. job'[k].mode = job[j].mode /\ job'[k].run = job[j].run /\ job'[k].todo = Tail(r.todo)
      BY <2>1, <1>6, <1>8
    <3>2. IsSuffix(job'[k].todo, StepsOf(job'[k].mode))
      BY <3>1, <1>3
    <3>3. /\ job'[k].outcome = "running" => Len(job'[k].todo) > 0
          /\ job'[k].outcome = "done" => Len(job'[k].todo) = 0
      <4>1. job'[k].outcome = (IF Left(j) = 1 THEN "done" ELSE "running")
        BY <2>1, <1>6, <1>8
      <4>2. Len(job'[k].todo) = Left(j) - 1
        BY <3>1, <1>3
      <4>3. CASE Left(j) = 1
        BY <4>1, <4>2, <4>3
      <4>4. CASE Left(j) # 1
        <5>1. job'[k].outcome = "running"
          BY <4>1, <4>4
        <5>2. Left(j) - 1 > 0
          <6>1. \A n \in Nat \ {0} : n # 1 => n - 1 > 0
            OBVIOUS
          <6> QED
            BY <6>1, <4>4, <1>2
        <5> QED
          BY <5>1, <5>2, <4>2
      <4> QED
        BY <4>3, <4>4
    <3> QED
      BY <3>1, <3>2, <3>3, <1>1
  <2>2. CASE k # j
    BY <2>2, <1>8 DEF InSequence, Left
  <2> QED
    BY <2>1, <2>2
<1> QED
  BY <1>2, <1>6, <1>8, <1>9, <1>10

\* Established speaks of these fields of the record only.
LEMMA SameFacts ==
    ASSUME NEW q, NEW r, NEW n, NEW d, NEW s, NEW b, Established(r, n, d, s, b),
           q.run = r.run, q.inventory = r.inventory, q.snap = r.snap,
           q.expected = r.expected, q.dump = r.dump,
           q.frozenAt = r.frozenAt, q.inventoryAt = r.inventoryAt
    PROVE  Established(q, n, d, s, b)
<1>1. Collected(q, n, d)
  BY DEF Established, Collected
<1>2. Stored(q, n, b) /\ FreezeCounted(q, n, s)
  BY DEF Established, Stored, FreezeCounted
<1>3. Reviewed(q, n, d, s) /\ HandedOver(q, n, d, s)
  BY DEF Established, Reviewed, HandedOver
<1> QED
  BY <1>1, <1>2, <1>3 DEF Established

-----------------------------------------------------------------------------
\* A step of one job: the sequence parts of the invariant follow from what the
\* step adds to what its job has established, and from what it leaves to others.
LEMMA JobStep ==
    ASSUME IsolationInv, NEW j \in Jobs, Live(j), NEW r \in JobRecords,
           r.outcome = "running", r.mode = job[j].mode, r.run = job[j].run,
           r.todo = job[j].todo, Advance(j, r),
           \A k \in Jobs \ {j} : Applying(k) =>
               Established(job[k], Left(k), db', session', backup'),
           job[j].mode = "Apply" => Established(r, Left(j) - 1, db', session', backup'),
           \A n : Confirmed(n, db, other) => Confirmed(n, db', other'),
           job[j].mode = "Verify" => Confirmed(Left(j) - 1, db', other')
    PROVE  /\ job' \in [Jobs -> JobRecords] /\ InSequence' /\ AppliesEstablish'
           /\ VerifiesConfirm'
           /\ \A k \in Jobs \ {j} : Left(k)' = Left(k) /\ (Applying(k)' <=> Applying(k))
           /\ Left(j) \in Nat \ {0} /\ Left(j)' = Left(j) - 1
           /\ Applying(j) <=> job[j].mode = "Apply"
           /\ Applying(j)' <=> job[j].mode = "Apply"
<1>1. TypeOK /\ InSequence
  BY DEF IsolationInv
<1>2. /\ job' \in [Jobs -> JobRecords] /\ InSequence'
      /\ \A k \in Jobs \ {j} : job'[k] = job[k]
      /\ Left(j) \in Nat \ {0} /\ Left(j)' = Left(j) - 1
      /\ job'[j].outcome \in {"running", "done"}
      /\ job'[j].mode = r.mode /\ job'[j].run = r.run
      /\ job'[j].inventory = r.inventory /\ job'[j].snap = r.snap
      /\ job'[j].expected = r.expected /\ job'[j].dump = r.dump
      /\ job'[j].frozenAt = r.frozenAt /\ job'[j].inventoryAt = r.inventoryAt
  BY <1>1, Advanced
<1>3. \A k \in Jobs \ {j} : Left(k)' = Left(k) /\ (Applying(k)' <=> Applying(k))
  BY <1>2 DEF Left, Applying
<1>4. /\ Applying(j) <=> job[j].mode = "Apply"
      /\ Applying(j)' <=> job[j].mode = "Apply"
  BY <1>2 DEF Applying, Live
<1>5. AppliesEstablish'
  <2> SUFFICES ASSUME NEW k \in Jobs, Applying(k)'
               PROVE  Established(job'[k], Left(k)', db', session', backup')
    BY DEF AppliesEstablish
  <2>1. CASE k = j
    <3>1. Established(r, Left(k)', db', session', backup')
      BY <2>1, <1>2, <1>4
    <3> QED
      BY <3>1, <2>1, <1>2, SameFacts
  <2>2. CASE k # j
    BY <2>2, <1>2, <1>3
  <2> QED
    BY <2>1, <2>2
<1>6. VerifiesConfirm'
  <2> SUFFICES ASSUME NEW k \in Jobs, job'[k].outcome \in {"running", "done"},
                      job'[k].mode = "Verify"
               PROVE  Confirmed(Left(k)', db', other')
    BY DEF VerifiesConfirm
  <2>1. CASE k = j
    BY <2>1, <1>2
  <2>2. CASE k # j
    BY <2>2, <1>2, <1>3 DEF IsolationInv, VerifiesConfirm
  <2> QED
    BY <2>1, <2>2
<1> QED
  BY <1>2, <1>3, <1>4, <1>5, <1>6

\* A step that only reads, and neither opens nor commits the transaction.
LEMMA ReadStep ==
    ASSUME IsolationInv, NEW j \in Jobs, Live(j), NEW r \in JobRecords,
           r.outcome = "running", r.mode = job[j].mode, r.run = job[j].run,
           r.todo = job[j].todo, Reads(j, r),
           job[j].mode = "Apply" =>
               Established(r, Left(j) - 1, db, session, backup) /\ Left(j) \notin {7, 4},
           job[j].mode = "Verify" => Confirmed(Left(j) - 1, db, other)
    PROVE  IsolationInv'
<1>1. Advance(j, r) /\ UNCHANGED <<db, session, backup, other>>
  BY DEF Reads
<1>2. \A k \in Jobs \ {j} : Applying(k) => Established(job[k], Left(k), db, session, backup)
  BY DEF IsolationInv, AppliesEstablish
<1>3. /\ job' \in [Jobs -> JobRecords] /\ InSequence' /\ AppliesEstablish'
      /\ VerifiesConfirm'
      /\ \A k \in Jobs \ {j} : Left(k)' = Left(k) /\ (Applying(k)' <=> Applying(k))
      /\ Left(j) \in Nat \ {0} /\ Left(j)' = Left(j) - 1
      /\ Applying(j) <=> job[j].mode = "Apply"
      /\ Applying(j)' <=> job[j].mode = "Apply"
  BY <1>1, <1>2, JobStep
<1>4. TypeOK'
  BY <1>1, <1>3 DEF IsolationInv, TypeOK
<1>5. LockHeld'
  <2>1. ASSUME NEW k \in Jobs PROVE db.lock = k <=> Applying(k)' /\ Left(k)' \in 4..6
    <3>1. db.lock = k <=> Applying(k) /\ Left(k) \in 4..6
      BY DEF IsolationInv, LockHeld
    <3>2. CASE k = j
      BY <3>1, <3>2, <1>3
    <3>3. CASE k # j
      BY <3>1, <3>3, <1>3
    <3> QED
      BY <3>2, <3>3
  <2> QED
    BY <2>1, <1>1 DEF IsolationInv, LockHeld
<1>6. ChangeIsBackedUpAndReviewed'
  BY <1>1 DEF IsolationInv, ChangeIsBackedUpAndReviewed
<1> QED
  BY <1>3, <1>4, <1>5, <1>6 DEF IsolationInv

\* A job that stands at a step, and what it has established.
LEMMA AtFacts ==
    ASSUME IsolationInv, NEW j \in Jobs, NEW step, At(j, step)
    PROVE  /\ job[j] \in JobRecords /\ Live(j) /\ job[j].outcome = "running"
           /\ job[j].mode \in Modes /\ job[j].run \in Runs
           /\ job[j].mode = "Apply" =>
                  /\ Left(j) \in 1..22 /\ ApplySteps[23 - Left(j)] = step
                  /\ Applying(j) /\ Established(job[j], Left(j), db, session, backup)
           /\ job[j].mode = "Verify" =>
                  /\ \/ step = "roles" /\ Left(j) = 5
                     \/ step = "privileges" /\ Left(j) = 4
                     \/ step = "login" /\ Left(j) = 3
                     \/ step = "other_login" /\ Left(j) = 2
                     \/ step = "denied" /\ Left(j) = 1
                  /\ Confirmed(Left(j), db, other)
<1>1. TypeOK /\ InSequence /\ AppliesEstablish /\ VerifiesConfirm
  BY DEF IsolationInv
<1>2. job[j] \in JobRecords /\ Live(j) /\ job[j].outcome = "running"
  BY <1>1 DEF TypeOK, At, Live
<1>3. job[j].mode \in Modes /\ job[j].run \in Runs
  BY <1>1, <1>2 DEF InSequence
<1>4. ASSUME job[j].mode = "Apply"
      PROVE  /\ Left(j) \in 1..22 /\ ApplySteps[23 - Left(j)] = step
             /\ Applying(j) /\ Established(job[j], Left(j), db, session, backup)
  BY <1>1, <1>2, <1>4, AtApply DEF Applying, AppliesEstablish
<1>5. ASSUME job[j].mode = "Verify"
      PROVE  /\ \/ step = "roles" /\ Left(j) = 5
                \/ step = "privileges" /\ Left(j) = 4
                \/ step = "login" /\ Left(j) = 3
                \/ step = "other_login" /\ Left(j) = 2
                \/ step = "denied" /\ Left(j) = 1
             /\ Confirmed(Left(j), db, other)
  <2>1. Confirmed(Left(j), db, other)
    BY <1>1, <1>2, <1>5 DEF VerifiesConfirm
  <2> QED
    BY <2>1, <1>1, <1>5, AtVerify
<1> QED
  BY <1>2, <1>3, <1>4, <1>5

\* Only an Apply makes the steps of the backup and of the transaction.
LEMMA ApplyOnly ==
    ASSUME IsolationInv, NEW j \in Jobs, NEW step, At(j, step),
           step \notin {"inventory", "roles", "privileges", "login", "other_login", "denied"}
    PROVE  job[j].mode = "Apply"
<1>1. job[j].mode \in Modes /\ job[j].mode # "Verify"
  BY AtFacts
<1>2. job[j].mode # "Inspect"
  BY AtInspect DEF IsolationInv
<1> QED
  BY <1>1, <1>2 DEF Modes

\* A manifest has the rows and the sequence of the image it is made from.
LEMMA ManifestFields ==
    ASSUME NEW image \in Images
    PROVE  /\ ManifestOf(image) \in Images
           /\ ManifestOf(image).rows = image.rows /\ ManifestOf(image).seq = image.seq
           /\ ManifestOf(image).objects = image.objects \cap Tables
BY DEF ManifestOf, Images

LEMMA SameImage ==
    ASSUME NEW image \in Images, NEW copy \in Images, image.rows = copy.rows,
           image.objects = copy.objects, image.seq = copy.seq
    PROVE  image = copy
BY DEF Images

\* What is read through a snapshot.
LEMMA ImageFields ==
    ASSUME IsolationInv, NEW snap \in Snaps
    PROVE  /\ Image(snap) \in Images /\ db.seq \in Nat
           /\ Image(snap).rows = snap.rows /\ Image(snap).objects = snap.objects
           /\ Image(snap).seq = db.seq
BY DEF Image, Images, Snaps, IsolationInv, TypeOK, Databases

LEMMA InventoryStep ==
    ASSUME IsolationInv, NEW j \in Jobs, Inventory(j)
    PROVE  IsolationInv'
<1> DEFINE r == [job[j] EXCEPT !.inventory = db.owners]
<1>1. /\ At(j, "inventory") /\ Reads(j, r)
      /\ job[j].mode = "Apply" => \A o \in Present(db.owners) : db.owners[o] = "owner"
  BY DEF Inventory, ValidateInventory
<1>2. db.owners \in Inventories
  BY DEF IsolationInv, TypeOK, Databases
<1>3. /\ r \in JobRecords /\ r.outcome = "running" /\ r.mode = job[j].mode
      /\ r.run = job[j].run /\ r.todo = job[j].todo /\ r.inventory = db.owners
  BY <1>1, <1>2, AtFacts DEF JobRecords
<1>4. Live(j) /\ job[j].mode # "Verify" /\ (job[j].mode = "Apply" => Left(j) = 22)
  BY <1>1, AtFacts, ApplyOrder
<1> HIDE DEF r
<1>5. job[j].mode = "Apply" => Established(r, 21, db, session, backup)
  BY <1>1, <1>2, <1>3
  DEF Established, Collected, Stored, FreezeCounted, Reviewed, HandedOver
<1> QED
  BY <1>1, <1>3, <1>4, <1>5, ReadStep

LEMMA RequireFrozenStep ==
    ASSUME IsolationInv, NEW j \in Jobs, RequireFrozen(j)
    PROVE  IsolationInv'
<1> DEFINE r == [job[j] EXCEPT !.frozenAt = session.connects]
           n == Left(j)
<1>1. At(j, "frozen") /\ Reads(j, r) /\ ~session.connected
  BY DEF RequireFrozen, Drained
<1>2. session.connects \in Nat
  BY DEF IsolationInv, TypeOK, Sessions
<1>3. /\ r \in JobRecords /\ r.outcome = "running" /\ r.mode = job[j].mode
      /\ r.run = job[j].run /\ r.todo = job[j].todo /\ r.inventory = job[j].inventory
      /\ r.snap = job[j].snap /\ r.expected = job[j].expected /\ r.dump = job[j].dump
      /\ r.frozenAt = session.connects /\ r.inventoryAt = job[j].inventoryAt
  BY <1>1, <1>2, AtFacts DEF JobRecords
<1>4. Live(j) /\ job[j].mode # "Verify"
  BY <1>1, AtFacts
<1>5. ASSUME job[j].mode = "Apply"
      PROVE  Established(r, n - 1, db, session, backup) /\ n \notin {7, 4}
  <2>1. n \in {21, 17, 10, 8} /\ Established(job[j], n, db, session, backup)
    BY <1>1, <1>5, AtFacts, ApplyOrder
  <2> HIDE DEF r, n
  <2>2. Collected(r, n - 1, db)
    BY <2>1, <1>3 DEF Established, Collected
  <2>3. Stored(r, n - 1, backup)
    BY <2>1, <1>3 DEF Established, Stored
  <2>4. FreezeCounted(r, n - 1, session)
    BY <2>1, <1>1, <1>2, <1>3 DEF Established, FreezeCounted, Counted
  <2>5. Reviewed(r, n - 1, db, session) /\ HandedOver(r, n - 1, db, session)
    BY <2>1, <1>3 DEF Established, Reviewed, HandedOver
  <2> QED
    BY <2>1, <2>2, <2>3, <2>4, <2>5 DEF Established
<1> HIDE DEF r
<1> QED
  BY <1>1, <1>3, <1>4, <1>5, ReadStep

LEMMA OpenSnapshotStep ==
    ASSUME IsolationInv, NEW j \in Jobs, OpenSnapshot(j)
    PROVE  IsolationInv'
<1> DEFINE snap == [rows |-> db.rows, objects |-> Present(db.owners)]
           r == [job[j] EXCEPT !.snap = snap]
           n == Left(j)
<1>1. At(j, "snapshot") /\ Reads(j, r)
  BY DEF OpenSnapshot
<1>2. snap \in Snaps /\ snap.objects = Present(db.owners)
  BY DEF IsolationInv, TypeOK, Databases, Snaps, Present
<1> HIDE DEF snap
<1>3. /\ r \in JobRecords /\ r.outcome = "running" /\ r.mode = job[j].mode
      /\ r.run = job[j].run /\ r.todo = job[j].todo /\ r.inventory = job[j].inventory
      /\ r.snap = snap /\ r.expected = job[j].expected /\ r.dump = job[j].dump
      /\ r.frozenAt = job[j].frozenAt /\ r.inventoryAt = job[j].inventoryAt
  BY <1>1, <1>2, AtFacts DEF JobRecords
<1>4. Live(j) /\ job[j].mode # "Verify"
  BY <1>1, AtFacts
<1>5. ASSUME job[j].mode = "Apply"
      PROVE  Established(r, n - 1, db, session, backup) /\ n \notin {7, 4}
  <2>1. n \in {20, 12, 3} /\ Established(job[j], n, db, session, backup)
    BY <1>1, <1>5, AtFacts, ApplyOrder
  <2> HIDE DEF r, n
  <2>2. Collected(r, n - 1, db)
    <3>1. Collected(job[j], n, db) /\ r.snap \in Snaps /\ r.snap.objects = Present(db.owners)
      BY <2>1, <1>2, <1>3 DEF Established
    <3>2. CASE n = 20
      BY <3>1, <3>2, <1>3 DEF Collected
    <3>3. CASE n = 12
      BY <3>1, <3>3, <1>3 DEF Collected
    <3>4. CASE n = 3
      BY <3>1, <3>4, <1>3 DEF Collected
    <3> QED
      BY <3>2, <3>3, <3>4, <2>1
  <2>3. Stored(r, n - 1, backup) /\ FreezeCounted(r, n - 1, session)
    BY <2>1, <1>3 DEF Established, Stored, FreezeCounted
  <2>4. Reviewed(r, n - 1, db, session)
    BY <2>1, <1>3 DEF Established, Reviewed
  <2>5. HandedOver(r, n - 1, db, session)
    BY <2>1, <1>3 DEF Established, HandedOver, snap
  <2> QED
    BY <2>1, <2>2, <2>3, <2>4, <2>5 DEF Established
<1> HIDE DEF r
<1> QED
  BY <1>1, <1>3, <1>4, <1>5, ReadStep

LEMMA ManifestStep ==
    ASSUME IsolationInv, NEW j \in Jobs, Manifest(j)
    PROVE  IsolationInv'
<1> DEFINE image == ManifestOf(Image(job[j].snap))
           r == [job[j] EXCEPT !.expected = image]
<1>1. At(j, "manifest") /\ Reads(j, r)
  BY DEF Manifest
<1>2. Live(j) /\ job[j].mode = "Apply" /\ Left(j) = 19
  BY <1>1, ApplyOnly, AtFacts, ApplyOrder
<1>3. Established(job[j], 19, db, session, backup) /\ job[j].snap \in Snaps
  BY <1>1, <1>2, AtFacts DEF Established, Collected
<1>4. /\ image \in Images /\ image.rows = job[j].snap.rows
      /\ image.objects = job[j].snap.objects \cap Tables
      /\ image.seq = db.seq /\ db.seq \in Nat
  BY <1>3, ImageFields, ManifestFields
<1> HIDE DEF image
<1>5. /\ r \in JobRecords /\ r.outcome = "running" /\ r.mode = job[j].mode
      /\ r.run = job[j].run /\ r.todo = job[j].todo /\ r.inventory = job[j].inventory
      /\ r.snap = job[j].snap /\ r.expected = image /\ r.dump = job[j].dump
      /\ r.frozenAt = job[j].frozenAt /\ r.inventoryAt = job[j].inventoryAt
  BY <1>1, <1>4, AtFacts DEF JobRecords
<1> HIDE DEF r
<1>6. Collected(r, 18, db)
  BY <1>3, <1>4, <1>5 DEF Established, Collected
<1>7. Established(r, 18, db, session, backup)
  BY <1>3, <1>5, <1>6 DEF Established, Stored, FreezeCounted, Reviewed, HandedOver
<1> QED
  BY <1>1, <1>2, <1>5, <1>7, ReadStep

LEMMA DumpStep ==
    ASSUME IsolationInv, NEW j \in Jobs, Dump(j)
    PROVE  IsolationInv'
<1> DEFINE image == Image(job[j].snap)
           r == [job[j] EXCEPT !.dump = image]
<1>1. At(j, "dump") /\ Reads(j, r)
  BY DEF Dump
<1>2. Live(j) /\ job[j].mode = "Apply" /\ Left(j) = 18
  BY <1>1, ApplyOnly, AtFacts, ApplyOrder
<1>3. Established(job[j], 18, db, session, backup) /\ job[j].snap \in Snaps
  BY <1>1, <1>2, AtFacts DEF Established, Collected
<1>4. /\ image \in Images /\ image.rows = job[j].snap.rows
      /\ image.objects = job[j].snap.objects
      /\ image.seq = db.seq /\ db.seq \in Nat
  BY <1>3, ImageFields
<1> HIDE DEF image
<1>5. /\ r \in JobRecords /\ r.outcome = "running" /\ r.mode = job[j].mode
      /\ r.run = job[j].run /\ r.todo = job[j].todo /\ r.inventory = job[j].inventory
      /\ r.snap = job[j].snap /\ r.expected = job[j].expected /\ r.dump = image
      /\ r.frozenAt = job[j].frozenAt /\ r.inventoryAt = job[j].inventoryAt
  BY <1>1, <1>4, AtFacts DEF JobRecords
<1> HIDE DEF r
<1>6. Collected(r, 17, db)
  BY <1>3, <1>4, <1>5 DEF Established, Collected
<1>7. Established(r, 17, db, session, backup)
  BY <1>3, <1>5, <1>6 DEF Established, Stored, FreezeCounted, Reviewed, HandedOver
<1> QED
  BY <1>1, <1>2, <1>5, <1>7, ReadStep

LEMMA CloseSnapshotStep ==
    ASSUME IsolationInv, NEW j \in Jobs, CloseSnapshot(j)
    PROVE  IsolationInv'
<1> DEFINE r == [job[j] EXCEPT !.snap = None]
<1>1. At(j, "close") /\ Reads(j, r)
  BY DEF CloseSnapshot
<1>2. Live(j) /\ job[j].mode = "Apply" /\ Left(j) = 16
  BY <1>1, ApplyOnly, AtFacts, ApplyOrder
<1>3. Established(job[j], 16, db, session, backup)
  BY <1>1, <1>2, AtFacts
<1>4. /\ r \in JobRecords /\ r.outcome = "running" /\ r.mode = job[j].mode
      /\ r.run = job[j].run /\ r.todo = job[j].todo /\ r.inventory = job[j].inventory
      /\ r.expected = job[j].expected /\ r.dump = job[j].dump
      /\ r.frozenAt = job[j].frozenAt /\ r.inventoryAt = job[j].inventoryAt
  BY <1>1, AtFacts DEF JobRecords
<1> HIDE DEF r
<1>5. Collected(r, 15, db)
  BY <1>3, <1>4 DEF Established, Collected
<1>6. Established(r, 15, db, session, backup)
  BY <1>3, <1>4, <1>5 DEF Established, Stored, FreezeCounted, Reviewed, HandedOver
<1> QED
  BY <1>1, <1>2, <1>4, <1>6, ReadStep

\* The sequence is read now: equal to the manifest's, it has not moved since,
\* and the dump made in between is exact.
LEMMA CompareStep ==
    ASSUME IsolationInv, NEW j \in Jobs, Compare(j)
    PROVE  IsolationInv'
<1> DEFINE r == [job[j] EXCEPT !.snap = None]
           n == Left(j)
<1>1. At(j, "compare") /\ Reads(j, r)
      /\ ManifestOf(Image(job[j].snap)) = job[j].expected
  BY DEF Compare
<1>2. Live(j) /\ job[j].mode = "Apply" /\ n \in {11, 2}
  BY <1>1, ApplyOnly, AtFacts, ApplyOrder
<1>3. Established(job[j], n, db, session, backup)
  BY <1>1, <1>2, AtFacts
<1>4. /\ r \in JobRecords /\ r.outcome = "running" /\ r.mode = job[j].mode
      /\ r.run = job[j].run /\ r.todo = job[j].todo /\ r.inventory = job[j].inventory
      /\ r.expected = job[j].expected /\ r.dump = job[j].dump
      /\ r.frozenAt = job[j].frozenAt /\ r.inventoryAt = job[j].inventoryAt
  BY <1>1, AtFacts DEF JobRecords
<1> HIDE DEF r, n
<1>5. job[j].expected = ManifestOf(job[j].dump)
  <2>1. /\ job[j].snap \in Snaps /\ job[j].expected \in Images /\ job[j].dump \in Images
        /\ job[j].expected.rows = job[j].dump.rows
        /\ job[j].expected.objects = job[j].dump.objects \cap Tables
        /\ job[j].expected.seq <= job[j].dump.seq /\ job[j].dump.seq <= db.seq
    BY <1>2, <1>3 DEF Established, Collected
  <2>2. job[j].expected.seq = db.seq /\ db.seq \in Nat
    BY <1>1, <2>1, ImageFields, ManifestFields
  <2>3. job[j].expected.seq = job[j].dump.seq
    BY <2>1, <2>2 DEF Images
  <2>4. /\ ManifestOf(job[j].dump) \in Images
        /\ ManifestOf(job[j].dump).rows = job[j].expected.rows
        /\ ManifestOf(job[j].dump).objects = job[j].expected.objects
        /\ ManifestOf(job[j].dump).seq = job[j].expected.seq
    BY <2>1, <2>3, ManifestFields
  <2> QED
    BY <2>1, <2>4, SameImage
<1>6. Collected(r, n - 1, db)
  BY <1>2, <1>3, <1>4, <1>5 DEF Established, Collected
<1>7. Stored(r, n - 1, backup) /\ FreezeCounted(r, n - 1, session)
  BY <1>2, <1>3, <1>4 DEF Established, Stored, FreezeCounted
<1>8. Reviewed(r, n - 1, db, session)
  BY <1>2, <1>3, <1>4 DEF Established, Reviewed
<1>9. HandedOver(r, n - 1, db, session)
  <2>1. CASE n = 11
    BY <2>1 DEF HandedOver
  <2>2. CASE n = 2
    <3>1. /\ db.role = job[j].run
          /\ job[j].frozenAt = session.connects =>
                 /\ \A o \in Present(db.owners) \cap Movable : db.owners[o] = "app"
                 /\ job[j].snap = [rows |-> db.rows, objects |-> Present(db.owners)]
      BY <2>2, <1>3 DEF Established, HandedOver
    <3>2. job[j].frozenAt = session.connects =>
              Image(job[j].snap)
                  = [rows |-> db.rows, objects |-> Present(db.owners), seq |-> db.seq]
      BY <3>1 DEF Image
    <3> QED
      BY <3>1, <3>2, <2>2, <1>1, <1>4 DEF HandedOver
  <2> QED
    BY <2>1, <2>2, <1>2
<1> QED
  BY <1>1, <1>2, <1>4, <1>6, <1>7, <1>8, <1>9, ReadStep DEF Established, n

LEMMA DownloadVerifiedStep ==
    ASSUME IsolationInv, NEW j \in Jobs, DownloadVerified(j)
    PROVE  IsolationInv'
<1>1. At(j, "download") /\ Reads(j, job[j]) /\ backup[job[j].run].dump = job[j].dump
  BY DEF DownloadVerified
<1>2. Live(j) /\ job[j].mode = "Apply" /\ Left(j) = 14
  BY <1>1, ApplyOnly, AtFacts, ApplyOrder
<1>3. Established(job[j], 14, db, session, backup)
  BY <1>1, <1>2, AtFacts
<1>4. Collected(job[j], 13, db)
  BY <1>3 DEF Established, Collected
<1>5. Established(job[j], 13, db, session, backup)
  BY <1>3, <1>4 DEF Established, Stored, FreezeCounted, Reviewed, HandedOver
<1> QED
  BY <1>1, <1>2, <1>5, AtFacts, ReadStep

LEMMA InventoryAgainStep ==
    ASSUME IsolationInv, NEW j \in Jobs, InventoryAgain(j)
    PROVE  IsolationInv'
<1> DEFINE r == [job[j] EXCEPT !.inventoryAt = job[j].frozenAt]
<1>1. At(j, "inventory_again") /\ Reads(j, r) /\ db.owners = job[j].inventory
  BY DEF InventoryAgain
<1>2. Live(j) /\ job[j].mode = "Apply" /\ Left(j) = 9
  BY <1>1, ApplyOnly, AtFacts, ApplyOrder
<1>3. Established(job[j], 9, db, session, backup)
  BY <1>1, <1>2, AtFacts
<1>4. /\ r \in JobRecords /\ r.outcome = "running" /\ r.mode = job[j].mode
      /\ r.run = job[j].run /\ r.todo = job[j].todo /\ r.inventory = job[j].inventory
      /\ r.snap = job[j].snap /\ r.expected = job[j].expected /\ r.dump = job[j].dump
      /\ r.frozenAt = job[j].frozenAt /\ r.inventoryAt = job[j].frozenAt
  BY <1>1, AtFacts DEF JobRecords
<1> HIDE DEF r
<1>5. Collected(r, 8, db)
  <2>1. Collected(job[j], 9, db)
    BY <1>3 DEF Established
  <2>2. /\ Present(job[j].inventory) \subseteq job[j].dump.objects
        /\ job[j].dump.objects \subseteq Present(db.owners)
    BY <2>1 DEF Collected
  <2>3. job[j].dump.objects = Present(job[j].inventory)
    BY <2>2, <1>1, Zenon
  <2> QED
    BY <2>1, <2>3, <1>4 DEF Collected
<1>6. Stored(r, 8, backup) /\ FreezeCounted(r, 8, session)
  BY <1>3, <1>4 DEF Established, Stored, FreezeCounted
<1>7. Reviewed(r, 8, db, session) /\ HandedOver(r, 8, db, session)
  BY <1>1, <1>3, <1>4 DEF Established, Reviewed, HandedOver
<1> QED
  BY <1>1, <1>2, <1>4, <1>5, <1>6, <1>7, ReadStep DEF Established

LEMMA CheckOwnershipStep ==
    ASSUME IsolationInv, NEW j \in Jobs, CheckOwnership(j)
    PROVE  IsolationInv'
<1>1. At(j, "checks") /\ Reads(j, job[j])
  BY DEF CheckOwnership
<1>2. Live(j) /\ job[j].mode = "Apply" /\ Left(j) = 5
  BY <1>1, ApplyOnly, AtFacts, ApplyOrder
<1>3. Established(job[j], 5, db, session, backup)
  BY <1>1, <1>2, AtFacts
<1>4. Collected(job[j], 4, db)
  BY <1>3 DEF Established, Collected
<1>5. Stored(job[j], 4, backup) /\ FreezeCounted(job[j], 4, session)
  BY <1>3 DEF Established, Stored, FreezeCounted
<1>6. Reviewed(job[j], 4, db, session) /\ HandedOver(job[j], 4, db, session)
  BY <1>3 DEF Established, Reviewed, HandedOver
<1> QED
  BY <1>1, <1>2, <1>4, <1>5, <1>6, AtFacts, ReadStep DEF Established

\* The login an Apply ends with is a Verify's too.
LEMMA VerifyOwnLoginStep ==
    ASSUME IsolationInv, NEW j \in Jobs, VerifyOwnLogin(j)
    PROVE  IsolationInv'
<1>1. PICK step \in {"login", "other_login"} : At(j, step) /\ Reads(j, job[j])
  BY DEF VerifyOwnLogin
<1>2. ASSUME job[j].mode = "Verify" PROVE Confirmed(Left(j) - 1, db, other)
  <2>1. Left(j) \in {3, 2} /\ Confirmed(Left(j), db, other)
    BY <1>1, <1>2, AtFacts
  <2> QED
    BY <2>1 DEF Confirmed
<1>3. ASSUME job[j].mode = "Apply"
      PROVE  Established(job[j], Left(j) - 1, db, session, backup) /\ Left(j) \notin {7, 4}
  <2>1. /\ Left(j) \in 1..22 /\ ApplySteps[23 - Left(j)] \in {"login", "other_login"}
        /\ Established(job[j], Left(j), db, session, backup)
    BY <1>1, <1>3, AtFacts
  <2>2. Left(j) = 1 /\ Established(job[j], 1, db, session, backup)
    BY <2>1, ApplyOrder
  <2>3. Collected(job[j], 0, db)
    BY <2>2 DEF Established, Collected
  <2>4. Stored(job[j], 0, backup) /\ FreezeCounted(job[j], 0, session)
    BY <2>2 DEF Established, Stored, FreezeCounted
  <2>5. Reviewed(job[j], 0, db, session) /\ HandedOver(job[j], 0, db, session)
    BY <2>2 DEF Established, Reviewed, HandedOver
  <2> QED
    BY <2>2, <2>3, <2>4, <2>5 DEF Established
<1> QED
  BY <1>1, <1>2, <1>3, AtFacts, ReadStep

LEMMA VerifyRolesStep ==
    ASSUME IsolationInv, NEW j \in Jobs, VerifyRoles(j)
    PROVE  IsolationInv'
<1>1. At(j, "roles") /\ Reads(j, job[j]) /\ db.role # None /\ other.role
  BY DEF VerifyRoles
<1>2. job[j].mode # "Apply"
  BY <1>1, AtFacts, ApplyOrder
<1>3. job[j].mode = "Verify" => Confirmed(Left(j) - 1, db, other)
  BY <1>1, AtFacts DEF Confirmed
<1> QED
  BY <1>1, <1>2, <1>3, AtFacts, ReadStep

LEMMA VerifyDeniedStep ==
    ASSUME IsolationInv, NEW j \in Jobs, VerifyDenied(j)
    PROVE  IsolationInv'
<1>1. PICK step \in {"privileges", "denied"} : At(j, step) /\ Reads(j, job[j])
  BY DEF VerifyDenied
<1>2. ~db.public /\ ~other.public
  BY DEF VerifyDenied, CrossDenied
<1>3. job[j].mode # "Apply"
  BY <1>1, AtFacts, ApplyOrder
<1>4. ASSUME job[j].mode = "Verify" PROVE Confirmed(Left(j) - 1, db, other)
  <2>1. Left(j) \in {4, 1} /\ Confirmed(Left(j), db, other)
    BY <1>1, <1>4, AtFacts
  <2> QED
    BY <2>1, <1>2 DEF Confirmed
<1> QED
  BY <1>1, <1>3, <1>4, AtFacts, ReadStep

-----------------------------------------------------------------------------
\* What others do.

LEMMA EnvironmentStep ==
    ASSUME IsolationInv, UNCHANGED job,
           \A k \in Jobs : Applying(k) =>
               Established(job[k], Left(k), db', session', backup'),
           \A n : Confirmed(n, db, other) => Confirmed(n, db', other')
    PROVE  /\ InSequence' /\ AppliesEstablish' /\ VerifiesConfirm'
           /\ job' \in [Jobs -> JobRecords]
           /\ \A k \in Jobs : Left(k)' = Left(k) /\ (Applying(k)' <=> Applying(k))
<1>1. \A k \in Jobs : Left(k)' = Left(k) /\ (Applying(k)' <=> Applying(k))
  BY DEF Left, Applying
<1>2. InSequence' /\ job' \in [Jobs -> JobRecords]
  BY DEF IsolationInv, InSequence, TypeOK, Left
<1>3. AppliesEstablish'
  BY <1>1 DEF AppliesEstablish
<1>4. VerifiesConfirm'
  BY <1>1 DEF IsolationInv, VerifiesConfirm
<1> QED
  BY <1>1, <1>2, <1>3, <1>4

\* Coming or leaving, a session takes nothing back: a count that is still the
\* number of sessions was it before.
LEMMA SessionKeeps ==
    ASSUME NEW r \in JobRecords, NEW n \in Nat, NEW d, NEW b,
           NEW s \in Sessions, NEW t \in Sessions,
           Established(r, n, d, s, b), s.connects <= t.connects,
           s.connects = t.connects => ~t.connected
    PROVE  Established(r, n, d, t, b)
<1>1. r.frozenAt \in Nat /\ r.inventoryAt \in Nat /\ s.connects \in Nat /\ t.connects \in Nat
  BY DEF JobRecords, Sessions
<1>2. FreezeCounted(r, n, t)
  BY <1>1 DEF Established, FreezeCounted, Counted
<1>3. /\ n <= 20 /\ r.frozenAt = t.connects => r.frozenAt = s.connects
      /\ n <= 8 /\ r.inventoryAt = t.connects => r.inventoryAt = s.connects
  BY <1>1 DEF Established, FreezeCounted, Counted
<1>4. Reviewed(r, n, d, t)
  BY <1>3 DEF Established, Reviewed
<1>5. HandedOver(r, n, d, t)
  BY <1>3 DEF Established, HandedOver
<1> QED
  BY <1>2, <1>4, <1>5 DEF Established

LEMMA SessionStep ==
    ASSUME IsolationInv, Connect \/ Disconnect
    PROVE  IsolationInv'
<1>1. /\ session \in Sessions /\ session' \in Sessions
      /\ session.connects <= session'.connects
      /\ session.connects = session'.connects => ~session'.connected
      /\ UNCHANGED <<db, backup, other, job>>
  <2>1. session \in Sessions
    BY DEF IsolationInv, TypeOK, Sessions
  <2>2. CASE Connect
    <3>1. session' = [connected |-> TRUE, connects |-> session.connects + 1]
      BY <2>2 DEF Connect
    <3>2. session.connects \in Nat /\ session.connects + 1 \in Nat
      BY <2>1 DEF Sessions
    <3>3. session' \in Sessions
      BY <3>1, <3>2, Zenon DEF Sessions
    <3> QED
      BY <2>1, <2>2, <3>1, <3>2, <3>3 DEF Connect
  <2>3. CASE Disconnect
    <3>1. session.connected /\ session' = [session EXCEPT !.connected = FALSE]
      BY <2>3 DEF Disconnect
    <3>2. session'.connected = FALSE /\ session'.connects = session.connects
      BY <2>1, <3>1 DEF Sessions
    <3>3. session' \in Sessions
      BY <2>1, <3>1, Zenon DEF Sessions
    <3>4. session.connects <= session'.connects
      BY <2>1, <3>2 DEF Sessions
    <3> QED
      BY <2>1, <2>3, <3>2, <3>3, <3>4 DEF Disconnect
  <2> QED
    BY <2>2, <2>3
<1>2. ASSUME NEW k \in Jobs, Applying(k)
      PROVE  Established(job[k], Left(k), db', session', backup')
  <2>1. job[k] \in JobRecords /\ Left(k) \in Nat
    BY DEF IsolationInv, TypeOK, JobRecords, Left
  <2>2. Established(job[k], Left(k), db, session, backup)
    BY <1>2 DEF IsolationInv, AppliesEstablish
  <2> QED
    BY <1>1, <2>1, <2>2, SessionKeeps
<1>3. /\ InSequence' /\ AppliesEstablish' /\ VerifiesConfirm'
      /\ job' \in [Jobs -> JobRecords]
      /\ \A k \in Jobs : Left(k)' = Left(k) /\ (Applying(k)' <=> Applying(k))
  BY <1>1, <1>2, EnvironmentStep
<1>4. TypeOK'
  BY <1>1, <1>3 DEF IsolationInv, TypeOK, Sessions
<1>5. LockHeld' /\ ChangeIsBackedUpAndReviewed'
  BY <1>1, <1>3 DEF IsolationInv, LockHeld, ChangeIsBackedUpAndReviewed
<1> QED
  BY <1>3, <1>4, <1>5 DEF IsolationInv

LEMMA CopyOtherStep ==
    ASSUME IsolationInv, CopyOther
    PROVE  IsolationInv'
<1>1. UNCHANGED <<db, session, backup, job>>
  BY DEF CopyOther
<1>2. /\ other' \in [role : BOOLEAN, public : BOOLEAN]
      /\ other.role => other'.role
      /\ ~other.public => ~other'.public
  BY DEF IsolationInv, TypeOK, CopyOther
<1>3. \A n : Confirmed(n, db, other) => Confirmed(n, db', other')
  BY <1>1, <1>2 DEF Confirmed
<1>4. \A k \in Jobs : Applying(k) => Established(job[k], Left(k), db', session', backup')
  BY <1>1 DEF IsolationInv, AppliesEstablish
<1>5. /\ InSequence' /\ AppliesEstablish' /\ VerifiesConfirm'
      /\ job' \in [Jobs -> JobRecords]
      /\ \A k \in Jobs : Left(k)' = Left(k) /\ (Applying(k)' <=> Applying(k))
  BY <1>1, <1>3, <1>4, EnvironmentStep
<1>6. TypeOK'
  BY <1>1, <1>2, <1>5 DEF IsolationInv, TypeOK
<1>7. LockHeld' /\ ChangeIsBackedUpAndReviewed'
  BY <1>1, <1>5 DEF IsolationInv, LockHeld, ChangeIsBackedUpAndReviewed
<1> QED
  BY <1>5, <1>6, <1>7 DEF IsolationInv

\* What a session writes was counted by no freeze check that still stands.
LEMMA WriteKeeps ==
    ASSUME NEW r \in JobRecords, NEW n \in Nat, NEW d, NEW e, NEW b, NEW s \in Sessions,
           Established(r, n, d, s, b), s.connected,
           d.seq \in Nat, e.seq \in Nat, d.seq <= e.seq, e.role = d.role,
           Present(d.owners) \subseteq Present(e.owners)
    PROVE  Established(r, n, e, s, b)
<1>1. /\ n <= 20 => r.frozenAt # s.connects
      /\ n <= 8 => r.inventoryAt # s.connects
  BY DEF Established, FreezeCounted, Counted
<1>2. Collected(r, n, e)
  BY DEF Established, Collected, Images
<1>3. Reviewed(r, n, e, s)
  BY <1>1 DEF Reviewed
<1>4. HandedOver(r, n, e, s)
  BY <1>1 DEF Established, HandedOver
<1> QED
  BY <1>2, <1>3, <1>4 DEF Established

LEMMA WriteStep ==
    ASSUME IsolationInv, Write
    PROVE  IsolationInv'
<1>1. session.connected /\ UNCHANGED <<session, backup, other, job>>
  BY DEF Write
<1>2. db \in Databases
  BY DEF IsolationInv, TypeOK
<1>3. /\ db' \in Databases /\ db'.seq \in Nat /\ db.seq \in Nat /\ db.seq <= db'.seq
      /\ db'.role = db.role /\ db'.public = db.public /\ db'.lock = db.lock
      /\ db'.pending = db.pending /\ db'.reviewed = db.reviewed
      /\ Present(db.owners) \subseteq Present(db'.owners)
      /\ \A o \in Objects : db'.owners[o] = "app" <=> db.owners[o] = "app"
  <2>1. CASE db.rows < MaxWrites /\ db' = [db EXCEPT !.rows = @ + 1]
    BY <1>2, <2>1 DEF Databases
  <2>2. CASE db.seq < MaxWrites /\ db' = [db EXCEPT !.seq = @ + 1]
    BY <1>2, <2>2 DEF Databases
  <2>3. ASSUME NEW o \in Objects, db.owners[o] = None,
               db' = [db EXCEPT !.owners[o] = "owner"]
        PROVE  <1>3
    <3> DEFINE owners == [db.owners EXCEPT ![o] = "owner"]
    <3>1. /\ owners \in Inventories /\ Present(db.owners) \subseteq Present(owners)
          /\ \A p \in Objects : owners[p] = "app" <=> db.owners[p] = "app"
      BY <1>2, <2>3, IsolationAssumption DEF Databases, Inventories, Owners, Present
    <3>2. db' = [db EXCEPT !.owners = owners]
      BY <2>3
    <3> HIDE DEF owners
    <3> QED
      BY <1>2, <3>1, <3>2 DEF Databases
  <2> QED
    BY <2>1, <2>2, <2>3 DEF Write
<1>4. ASSUME NEW k \in Jobs, Applying(k)
      PROVE  Established(job[k], Left(k), db', session', backup')
  <2>1. job[k] \in JobRecords /\ Left(k) \in Nat /\ session \in Sessions
    BY DEF IsolationInv, TypeOK, JobRecords, Left, Sessions
  <2>2. Established(job[k], Left(k), db, session, backup)
    BY <1>4 DEF IsolationInv, AppliesEstablish
  <2> QED
    BY <1>1, <1>3, <2>1, <2>2, WriteKeeps
<1>5. \A n : Confirmed(n, db, other) => Confirmed(n, db', other')
  BY <1>1, <1>3 DEF Confirmed
<1>6. /\ InSequence' /\ AppliesEstablish' /\ VerifiesConfirm'
      /\ job' \in [Jobs -> JobRecords]
      /\ \A k \in Jobs : Left(k)' = Left(k) /\ (Applying(k)' <=> Applying(k))
  BY <1>1, <1>4, <1>5, EnvironmentStep
<1>7. TypeOK'
  BY <1>1, <1>3, <1>6 DEF IsolationInv, TypeOK
<1>8. LockHeld'
  BY <1>3, <1>6 DEF IsolationInv, LockHeld
<1>9. ChangeIsBackedUpAndReviewed'
  BY <1>1, <1>3 DEF IsolationInv, ChangeIsBackedUpAndReviewed
<1> QED
  BY <1>6, <1>7, <1>8, <1>9 DEF IsolationInv

-----------------------------------------------------------------------------
\* Starting, failing, and the steps that change the container or the database.

LEMMA StartStep ==
    ASSUME IsolationInv, NEW j \in Jobs, NEW mode \in Modes, NEW run \in Runs,
           Start(j, mode, run)
    PROVE  IsolationInv'
<1> DEFINE q == [job[j] EXCEPT !.outcome = "running", !.mode = mode, !.run = run,
                               !.todo = StepsOf(mode)]
<1>1. /\ job[j].outcome = "idle" /\ job[j] \in JobRecords
      /\ job' = [job EXCEPT ![j] = q] /\ UNCHANGED <<db, session, backup, other>>
  BY DEF Start, IsolationInv, TypeOK
<1>2. /\ StepsOf(mode) \in Seq(StepNames) /\ Len(StepsOf(mode)) \in Nat \ {0}
      /\ mode = "Apply" => Len(StepsOf(mode)) = 22
      /\ mode = "Verify" => Len(StepsOf(mode)) = 5
  BY StepsTypes
<1>3. /\ q \in JobRecords /\ q.outcome = "running" /\ q.mode = mode /\ q.run = run
      /\ q.todo = StepsOf(mode)
  BY <1>1, <1>2 DEF JobRecords
<1> HIDE DEF q
<1>4. job' \in [Jobs -> JobRecords] /\ job'[j] = q /\ \A k \in Jobs \ {j} : job'[k] = job[k]
  BY <1>1, <1>3 DEF IsolationInv, TypeOK
<1>5. /\ \A k \in Jobs \ {j} : Left(k)' = Left(k) /\ (Applying(k)' <=> Applying(k))
      /\ Left(j)' = Len(StepsOf(mode)) /\ (Applying(j)' <=> mode = "Apply") /\ ~Applying(j)
  BY <1>1, <1>3, <1>4 DEF Left, Applying
<1>6. TypeOK'
  BY <1>1, <1>4 DEF IsolationInv, TypeOK
<1>7. InSequence'
  <2> SUFFICES ASSUME NEW k \in Jobs, job'[k].outcome \in {"running", "done"}
               PROVE  /\ job'[k].mode \in Modes /\ job'[k].run \in Runs
                      /\ IsSuffix(job'[k].todo, StepsOf(job'[k].mode))
                      /\ job'[k].outcome = "running" => Len(job'[k].todo) > 0
                      /\ job'[k].outcome = "done" => Len(job'[k].todo) = 0
    BY DEF InSequence, Left
  <2>1. CASE k = j
    <3>1. IsSuffix(StepsOf(mode), StepsOf(mode))
      <4>1. \A n \in Nat : n <= n /\ \A i \in 1..n : n - n + i = i
        OBVIOUS
      <4> QED
        BY <4>1, <1>2 DEF IsSuffix
    <3> QED
      BY <3>1, <2>1, <1>2, <1>3, <1>4
  <2>2. CASE k # j
    BY <2>2, <1>4 DEF IsolationInv, InSequence, Left
  <2> QED
    BY <2>1, <2>2
<1>8. AppliesEstablish'
  <2> SUFFICES ASSUME NEW k \in Jobs, Applying(k)'
               PROVE  Established(job'[k], Left(k)', db, session, backup)
    BY <1>1 DEF AppliesEstablish
  <2>1. CASE k = j
    <3>1. Left(k)' = 22
      BY <2>1, <1>2, <1>5
    <3> QED
      BY <3>1
      DEF Established, Collected, Stored, FreezeCounted, Reviewed, HandedOver
  <2>2. CASE k # j
    BY <2>2, <1>4, <1>5 DEF IsolationInv, AppliesEstablish
  <2> QED
    BY <2>1, <2>2
<1>9. LockHeld'
  <2>1. ASSUME NEW k \in Jobs PROVE db.lock = k <=> Applying(k)' /\ Left(k)' \in 4..6
    <3>1. db.lock = k <=> Applying(k) /\ Left(k) \in 4..6
      BY DEF IsolationInv, LockHeld
    <3>2. CASE k = j
      <4>1. db.lock # k
        BY <3>1, <3>2, <1>5
      <4>2. Applying(k)' => Left(k)' = 22
        BY <3>2, <1>2, <1>5
      <4> QED
        BY <4>1, <4>2
    <3>3. CASE k # j
      BY <3>1, <3>3, <1>5
    <3> QED
      BY <3>2, <3>3
  <2> QED
    BY <2>1, <1>1 DEF IsolationInv, LockHeld
<1>10. VerifiesConfirm'
  <2> SUFFICES ASSUME NEW k \in Jobs, job'[k].outcome \in {"running", "done"},
                      job'[k].mode = "Verify"
               PROVE  Confirmed(Left(k)', db, other)
    BY <1>1 DEF VerifiesConfirm
  <2>1. CASE k = j
    <3>1. Left(k)' = 5
      BY <2>1, <1>2, <1>3, <1>4, <1>5
    <3> QED
      BY <3>1 DEF Confirmed
  <2>2. CASE k # j
    BY <2>2, <1>4, <1>5 DEF IsolationInv, VerifiesConfirm
  <2> QED
    BY <2>1, <2>2
<1>11. ChangeIsBackedUpAndReviewed'
  BY <1>1 DEF IsolationInv, ChangeIsBackedUpAndReviewed
<1> QED
  BY <1>6, <1>7, <1>8, <1>9, <1>10, <1>11 DEF IsolationInv

\* A transaction that ends without a commit was its job's, and leaves the
\* database as it was.
LEMMA FailStep ==
    ASSUME IsolationInv, NEW j \in Jobs, Fail(j)
    PROVE  IsolationInv'
<1>1. /\ job[j].outcome = "running" /\ job[j] \in JobRecords /\ db \in Databases
      /\ job' = [job EXCEPT ![j] = [IdleJob EXCEPT !.outcome = "failed"]]
      /\ db' = (IF db.lock = j THEN [db EXCEPT !.lock = None, !.pending = {}] ELSE db)
      /\ UNCHANGED <<session, backup, other>>
  BY DEF Fail, Live, IsolationInv, TypeOK
<1>2. /\ job' \in [Jobs -> JobRecords]
      /\ \A k \in Jobs \ {j} : job'[k] = job[k]
      /\ job'[j].outcome = "failed"
  <2> DEFINE q == [IdleJob EXCEPT !.outcome = "failed"]
  <2>1. IdleJob \in JobRecords
    BY DEF IdleJob, JobRecords
  <2>2. q \in JobRecords /\ q.outcome = "failed"
    BY <2>1 DEF JobRecords
  <2>3. job \in [Jobs -> JobRecords] /\ job' = [job EXCEPT ![j] = q]
    BY <1>1 DEF IsolationInv, TypeOK
  <2> HIDE DEF q
  <2> QED
    BY <2>2, <2>3
<1>3. /\ \A k \in Jobs \ {j} : Left(k)' = Left(k) /\ (Applying(k)' <=> Applying(k))
      /\ ~Applying(j)'
  BY <1>2 DEF Left, Applying
<1>4. /\ db' \in Databases /\ db'.rows = db.rows /\ db'.seq = db.seq
      /\ db'.owners = db.owners /\ db'.role = db.role /\ db'.public = db.public
      /\ db'.reviewed = db.reviewed
      /\ db.lock # j => db'.lock = db.lock /\ db'.pending = db.pending
      /\ db.lock = j => db'.lock = None /\ db'.pending = {}
  BY <1>1 DEF Databases
<1>5. TypeOK'
  BY <1>1, <1>2, <1>4 DEF IsolationInv, TypeOK
<1>6. InSequence'
  BY <1>1, <1>2 DEF IsolationInv, InSequence, Left
<1>7. AppliesEstablish'
  <2> SUFFICES ASSUME NEW k \in Jobs, Applying(k)'
               PROVE  Established(job'[k], Left(k)', db', session, backup)
    BY <1>1 DEF AppliesEstablish
  <2>1. k # j /\ Applying(k) /\ job'[k] = job[k] /\ Left(k)' = Left(k)
    BY <1>2, <1>3
  <2>2. Established(job[k], Left(k), db, session, backup)
    BY <2>1 DEF IsolationInv, AppliesEstablish
  <2>3. Left(k) \in {4, 5} => db'.pending = db.pending
    BY <2>1, <1>4 DEF IsolationInv, LockHeld
  <2>4. Collected(job[k], Left(k), db')
    BY <2>2, <1>4 DEF Established, Collected
  <2>5. Reviewed(job[k], Left(k), db', session) /\ HandedOver(job[k], Left(k), db', session)
    BY <2>2, <2>3, <1>4 DEF Established, Reviewed, HandedOver
  <2> QED
    BY <2>1, <2>2, <2>4, <2>5 DEF Established
<1>8. LockHeld'
  <2>1. ASSUME NEW k \in Jobs PROVE db'.lock = k <=> Applying(k)' /\ Left(k)' \in 4..6
    <3>1. db.lock = k <=> Applying(k) /\ Left(k) \in 4..6
      BY DEF IsolationInv, LockHeld
    <3>2. CASE k = j
      BY <3>2, <1>3, <1>4, IsolationAssumption
    <3>3. CASE k # j
      BY <3>1, <3>3, <1>3, <1>4, IsolationAssumption
    <3> QED
      BY <3>2, <3>3
  <2> QED
    BY <2>1, <1>4 DEF IsolationInv, LockHeld
<1>9. VerifiesConfirm'
  <2> SUFFICES ASSUME NEW k \in Jobs, job'[k].outcome \in {"running", "done"},
                      job'[k].mode = "Verify"
               PROVE  Confirmed(Left(k)', db', other)
    BY <1>1 DEF VerifiesConfirm
  <2>1. k # j
    BY <1>2
  <2> QED
    BY <2>1, <1>2, <1>3, <1>4 DEF IsolationInv, VerifiesConfirm, Confirmed
<1>10. ChangeIsBackedUpAndReviewed'
  BY <1>1, <1>4 DEF IsolationInv, ChangeIsBackedUpAndReviewed
<1> QED
  BY <1>5, <1>6, <1>7, <1>8, <1>9, <1>10 DEF IsolationInv

\* A name that is taken is never written again.
LEMMA UploadKeeps ==
    ASSUME NEW r \in JobRecords, NEW n \in Nat, NEW d, NEW s, r.run \in Runs,
           NEW b \in [Runs -> Backups], NEW c \in [Runs -> Backups],
           Established(r, n, d, s, b),
           \A run \in Runs : b[run].dump # None => c[run].dump = b[run].dump,
           \A run \in Runs : b[run].manifest # None => c[run].manifest = b[run].manifest
    PROVE  Established(r, n, d, s, c)
<1>1. n <= 14 => b[r.run].dump # None
  BY IsolationAssumption DEF Established, Collected, Stored
<1>2. n <= 12 => b[r.run].manifest # None
  <2> SUFFICES ASSUME n <= 12 PROVE b[r.run].manifest # None
    OBVIOUS
  <2>1. /\ r.inventory \in Inventories /\ r.expected \in Images /\ r.dump \in Images
        /\ b[r.run].manifest =
               [inventory |-> r.inventory, expected |-> r.expected, dump |-> r.dump]
    BY DEF Established, Collected, Stored
  <2>2. b[r.run].manifest \in Manifests
    BY <2>1 DEF Manifests
  <2> QED
    BY <2>2, IsolationAssumption
<1>3. Stored(r, n, c)
  BY <1>1, <1>2 DEF Established, Stored
<1> QED
  BY <1>3 DEF Established

LEMMA UploadStep ==
    ASSUME IsolationInv, NEW j \in Jobs, NEW step, At(j, step),
           Advance(j, job[j]), UNCHANGED <<db, session, other>>,
           job[j].mode = "Apply", Left(j) \in {15, 13},
           backup' \in [Runs -> Backups],
           \A run \in Runs : backup[run].dump # None => backup'[run].dump = backup[run].dump,
           \A run \in Runs :
               backup[run].manifest # None => backup'[run].manifest = backup[run].manifest,
           Stored(job[j], Left(j) - 1, backup')
    PROVE  IsolationInv'
<1>1. /\ job[j] \in JobRecords /\ Live(j) /\ job[j].outcome = "running"
      /\ job[j].run \in Runs
      /\ Established(job[j], Left(j), db, session, backup)
  BY AtFacts
<1>2. Established(job[j], Left(j) - 1, db', session', backup')
  <2>1. Collected(job[j], Left(j) - 1, db)
    BY <1>1 DEF Established, Collected
  <2>2. FreezeCounted(job[j], Left(j) - 1, session)
    BY <1>1 DEF Established, FreezeCounted
  <2>3. Reviewed(job[j], Left(j) - 1, db, session) /\ HandedOver(job[j], Left(j) - 1, db, session)
    BY DEF Reviewed, HandedOver
  <2> QED
    BY <2>1, <2>2, <2>3 DEF Established
<1>3. backup \in [Runs -> Backups]
  BY DEF IsolationInv, TypeOK, Backups
<1>4. ASSUME NEW k \in Jobs \ {j}, Applying(k)
      PROVE  Established(job[k], Left(k), db', session', backup')
  <2>1. job[k] \in JobRecords /\ Left(k) \in Nat
    BY DEF IsolationInv, TypeOK, JobRecords, Left
  <2>2. job[k].run \in Runs
    BY <1>4 DEF IsolationInv, InSequence, Applying
  <2>3. Established(job[k], Left(k), db, session, backup)
    BY <1>4 DEF IsolationInv, AppliesEstablish
  <2>4. Established(job[k], Left(k), db, session, backup')
    BY <1>3, <2>1, <2>2, <2>3, UploadKeeps
  <2> QED
    BY <2>4
<1>5. /\ job' \in [Jobs -> JobRecords] /\ InSequence' /\ AppliesEstablish'
      /\ VerifiesConfirm'
      /\ \A k \in Jobs \ {j} : Left(k)' = Left(k) /\ (Applying(k)' <=> Applying(k))
      /\ Left(j) \in Nat \ {0} /\ Left(j)' = Left(j) - 1
      /\ Applying(j) <=> job[j].mode = "Apply"
      /\ Applying(j)' <=> job[j].mode = "Apply"
  BY <1>1, <1>2, <1>4, JobStep
<1>6. TypeOK'
  BY <1>5 DEF IsolationInv, TypeOK, Backups
<1>7. LockHeld'
  <2>1. ASSUME NEW k \in Jobs PROVE db.lock = k <=> Applying(k)' /\ Left(k)' \in 4..6
    <3>1. db.lock = k <=> Applying(k) /\ Left(k) \in 4..6
      BY DEF IsolationInv, LockHeld
    <3>2. CASE k = j
      BY <3>1, <3>2, <1>5
    <3>3. CASE k # j
      BY <3>1, <3>3, <1>5
    <3> QED
      BY <3>2, <3>3
  <2> QED
    BY <2>1 DEF IsolationInv, LockHeld
<1>8. ChangeIsBackedUpAndReviewed'
  <2> SUFFICES ASSUME db.role # None PROVE ChangeIsBackedUpAndReviewed'
    BY DEF ChangeIsBackedUpAndReviewed
  <2>1. db.role \in Runs
    BY DEF IsolationInv, TypeOK, Databases
  <2>2. backup[db.role].dump # None /\ backup[db.role].manifest # None
    BY DEF IsolationInv, ChangeIsBackedUpAndReviewed
  <2>3. /\ backup'[db.role].dump = backup[db.role].dump
        /\ backup'[db.role].manifest = backup[db.role].manifest
    BY <2>1, <2>2
  <2> QED
    BY <2>3 DEF IsolationInv, ChangeIsBackedUpAndReviewed
<1> QED
  BY <1>5, <1>6, <1>7, <1>8 DEF IsolationInv

LEMMA UploadDumpStep ==
    ASSUME IsolationInv, NEW j \in Jobs, UploadDump(j)
    PROVE  IsolationInv'
<1> DEFINE run == job[j].run
<1>1. /\ At(j, "upload_dump") /\ backup[run].dump = None
      /\ backup' = [backup EXCEPT ![run].dump = job[j].dump]
      /\ Advance(j, job[j]) /\ UNCHANGED <<db, session, other>>
  BY DEF UploadDump, Upload
<1>2. job[j].mode = "Apply" /\ Left(j) = 15
  BY <1>1, ApplyOnly, AtFacts, ApplyOrder
<1>3. run \in Runs /\ job[j].dump \in Images
  BY <1>1, <1>2, AtFacts DEF Established, Collected
<1>4. backup \in [Runs -> Backups]
  BY DEF IsolationInv, TypeOK, Backups
<1> HIDE DEF run
<1>5. /\ backup' \in [Runs -> Backups] /\ backup'[run].dump = job[j].dump
      /\ \A x \in Runs : /\ x # run => backup'[x] = backup[x]
                         /\ backup'[x].manifest = backup[x].manifest
  BY <1>1, <1>3, <1>4 DEF Backups
<1>6. \A x \in Runs : backup[x].dump # None => backup'[x].dump = backup[x].dump
  BY <1>1, <1>5
<1>7. Stored(job[j], 14, backup')
  BY <1>5 DEF Stored, run
<1>8. Left(j) \in {15, 13} /\ Stored(job[j], Left(j) - 1, backup')
  BY <1>2, <1>7
<1>9. \A x \in Runs : backup[x].manifest # None => backup'[x].manifest = backup[x].manifest
  BY <1>5
<1> QED
  BY <1>1, <1>2, <1>5, <1>6, <1>8, <1>9, UploadStep

LEMMA UploadManifestStep ==
    ASSUME IsolationInv, NEW j \in Jobs, UploadManifest(j)
    PROVE  IsolationInv'
<1> DEFINE run == job[j].run
           manifest == [inventory |-> job[j].inventory, expected |-> job[j].expected,
                        dump |-> job[j].dump]
<1>1. /\ At(j, "upload_manifest") /\ backup[run].manifest = None
      /\ backup' = [backup EXCEPT ![run].manifest = manifest]
      /\ Advance(j, job[j]) /\ UNCHANGED <<db, session, other>>
  BY DEF UploadManifest, Upload
<1>2. job[j].mode = "Apply" /\ Left(j) = 13
  BY <1>1, ApplyOnly, AtFacts, ApplyOrder
<1>3. run \in Runs /\ Established(job[j], 13, db, session, backup)
  BY <1>1, <1>2, AtFacts
<1>4. manifest \in Manifests
  BY <1>3 DEF Established, Collected, Manifests
<1>5. backup \in [Runs -> Backups] /\ backup[run].dump = job[j].dump
  BY <1>3 DEF IsolationInv, TypeOK, Backups, Established, Stored
<1> HIDE DEF run, manifest
<1>6. /\ backup' \in [Runs -> Backups] /\ backup'[run].manifest = manifest
      /\ \A x \in Runs : /\ x # run => backup'[x] = backup[x]
                         /\ backup'[x].dump = backup[x].dump
  BY <1>1, <1>3, <1>4, <1>5 DEF Backups
<1>7. \A x \in Runs : backup[x].manifest # None => backup'[x].manifest = backup[x].manifest
  BY <1>1, <1>6
<1>8. Stored(job[j], 12, backup')
  BY <1>3, <1>5, <1>6 DEF Stored, run, manifest
<1>9. Left(j) \in {15, 13} /\ Stored(job[j], Left(j) - 1, backup')
  BY <1>2, <1>8
<1>10. \A x \in Runs : backup[x].dump # None => backup'[x].dump = backup[x].dump
  BY <1>6
<1> QED
  BY <1>1, <1>2, <1>6, <1>7, <1>9, <1>10, UploadStep

-----------------------------------------------------------------------------
\* The ownership transaction.

\* Opening it and altering owners inside it touch the lock and `pending` only.
LEMMA TransactionStep ==
    ASSUME IsolationInv, NEW j \in Jobs, Live(j), NEW r \in JobRecords,
           r.outcome = "running", r.mode = job[j].mode, r.run = job[j].run,
           r.todo = job[j].todo, Advance(j, r), UNCHANGED <<session, backup, other>>,
           job[j].mode = "Apply", Left(j) \in {7, 6},
           NEW pending \in SUBSET Present(db.owners),
           db' = [db EXCEPT !.lock = j, !.pending = pending], db.role = None,
           \A k \in Jobs \ {j} : db.lock # k,
           Established(r, Left(j) - 1, db', session, backup)
    PROVE  IsolationInv'
<1>1. db \in Databases /\ pending \in SUBSET Objects
  BY DEF IsolationInv, TypeOK, Present
<1>2. /\ db' \in Databases /\ db'.rows = db.rows /\ db'.seq = db.seq
      /\ db'.owners = db.owners /\ db'.role = db.role /\ db'.public = db.public
      /\ db'.reviewed = db.reviewed /\ db'.lock = j /\ db'.pending = pending
  BY <1>1 DEF Databases
<1>3. ASSUME NEW k \in Jobs \ {j}, Applying(k)
      PROVE  Established(job[k], Left(k), db', session', backup')
  <2>1. Left(k) \notin 4..6
    BY <1>3 DEF IsolationInv, LockHeld
  <2>2. Established(job[k], Left(k), db, session, backup)
    BY <1>3 DEF IsolationInv, AppliesEstablish
  <2>3. Collected(job[k], Left(k), db')
    BY <2>2, <1>2 DEF Established, Collected
  <2>4. Reviewed(job[k], Left(k), db', session)
    BY <2>1, <2>2, <1>2 DEF Established, Reviewed
  <2>5. HandedOver(job[k], Left(k), db', session)
    BY <2>2, <1>2 DEF Established, HandedOver
  <2> QED
    BY <2>2, <2>3, <2>4, <2>5 DEF Established
<1>4. \A n : Confirmed(n, db, other) => Confirmed(n, db', other')
  BY <1>2 DEF Confirmed
<1>5. /\ job' \in [Jobs -> JobRecords] /\ InSequence' /\ AppliesEstablish'
      /\ VerifiesConfirm'
      /\ \A k \in Jobs \ {j} : Left(k)' = Left(k) /\ (Applying(k)' <=> Applying(k))
      /\ Left(j) \in Nat \ {0} /\ Left(j)' = Left(j) - 1
      /\ Applying(j) <=> job[j].mode = "Apply"
      /\ Applying(j)' <=> job[j].mode = "Apply"
  BY <1>3, <1>4, JobStep
<1>6. TypeOK'
  BY <1>2, <1>5 DEF IsolationInv, TypeOK
<1>7. LockHeld'
  <2>1. ASSUME NEW k \in Jobs PROVE db'.lock = k <=> Applying(k)' /\ Left(k)' \in 4..6
    <3>1. db.lock = k <=> Applying(k) /\ Left(k) \in 4..6
      BY DEF IsolationInv, LockHeld
    <3>2. CASE k = j
      BY <3>2, <1>2, <1>5
    <3>3. CASE k # j
      BY <3>1, <3>3, <1>2, <1>5
    <3> QED
      BY <3>2, <3>3
  <2> QED
    BY <2>1, <1>2 DEF IsolationInv, LockHeld
<1>8. ChangeIsBackedUpAndReviewed'
  BY <1>2 DEF ChangeIsBackedUpAndReviewed
<1> QED
  BY <1>5, <1>6, <1>7, <1>8 DEF IsolationInv

LEMMA OwnershipGuardStep ==
    ASSUME IsolationInv, NEW j \in Jobs, OwnershipGuard(j)
    PROVE  IsolationInv'
<1> DEFINE r == [job[j] EXCEPT !.frozenAt = session.connects]
<1>1. /\ At(j, "guard") /\ db.lock = None /\ db.role = None /\ ~session.connected
      /\ db' = [db EXCEPT !.lock = j] /\ Advance(j, r)
      /\ UNCHANGED <<session, backup, other>>
  BY DEF OwnershipGuard, Drained
<1>2. Live(j) /\ job[j].mode = "Apply" /\ Left(j) = 7
  BY <1>1, ApplyOnly, AtFacts, ApplyOrder
<1>3. /\ Established(job[j], 7, db, session, backup)
      /\ db \in Databases /\ session.connects \in Nat
  BY <1>1, <1>2, AtFacts DEF IsolationInv, TypeOK, Sessions
<1>4. /\ r \in JobRecords /\ r.outcome = "running" /\ r.mode = job[j].mode
      /\ r.run = job[j].run /\ r.todo = job[j].todo /\ r.inventory = job[j].inventory
      /\ r.snap = job[j].snap /\ r.expected = job[j].expected /\ r.dump = job[j].dump
      /\ r.frozenAt = session.connects /\ r.inventoryAt = job[j].inventoryAt
  BY <1>1, <1>3, AtFacts DEF JobRecords
<1>5. /\ db' = [db EXCEPT !.lock = j, !.pending = db.pending]
      /\ db'.seq = db.seq /\ db'.owners = db.owners
  BY <1>1, <1>3 DEF Databases
<1> HIDE DEF r
<1>6. Established(r, 6, db', session, backup)
  <2>1. Collected(r, 6, db')
    BY <1>3, <1>4, <1>5 DEF Established, Collected
  <2>2. Stored(r, 6, backup)
    BY <1>3, <1>4 DEF Established, Stored
  <2>3. FreezeCounted(r, 6, session)
    BY <1>1, <1>3, <1>4 DEF Established, FreezeCounted, Counted
  <2>4. Reviewed(r, 6, db', session) /\ HandedOver(r, 6, db', session)
    BY <1>1, <1>3, <1>4, <1>5 DEF Established, Reviewed, HandedOver
  <2> QED
    BY <2>1, <2>2, <2>3, <2>4 DEF Established
<1>7. db.pending \in SUBSET Present(db.owners) /\ \A k \in Jobs \ {j} : db.lock # k
  BY <1>1, IsolationAssumption DEF IsolationInv, LockHeld
<1>8. Left(j) \in {7, 6} /\ Established(r, Left(j) - 1, db', session, backup)
  BY <1>2, <1>6
<1> QED
  BY <1>1, <1>2, <1>4, <1>5, <1>7, <1>8, TransactionStep

LEMMA TransferOwnershipStep ==
    ASSUME IsolationInv, NEW j \in Jobs, TransferOwnership(j)
    PROVE  IsolationInv'
<1> DEFINE pending == Present(db.owners) \cap Movable
<1>1. /\ At(j, "transfer") /\ db' = [db EXCEPT !.pending = pending] /\ Advance(j, job[j])
      /\ UNCHANGED <<session, backup, other>>
  BY DEF TransferOwnership
<1>2. Live(j) /\ job[j].mode = "Apply" /\ Left(j) = 6
  BY <1>1, ApplyOnly, AtFacts, ApplyOrder
<1>3. Established(job[j], 6, db, session, backup) /\ db \in Databases /\ Applying(j)
  BY <1>1, <1>2, AtFacts DEF IsolationInv, TypeOK
<1>4. db.lock = j /\ db.role = None
  BY <1>2, <1>3, IsolationAssumption DEF IsolationInv, LockHeld
<1>5. db' = [db EXCEPT !.lock = j, !.pending = pending]
  BY <1>1, <1>3, <1>4 DEF Databases
<1>6. db'.seq = db.seq /\ db'.owners = db.owners /\ db'.pending = Present(db.owners) \cap Movable
  BY <1>1, <1>3 DEF Databases
<1>7. Established(job[j], 5, db', session, backup)
  <2>1. Collected(job[j], 5, db')
    BY <1>3, <1>6 DEF Established, Collected
  <2>2. Stored(job[j], 5, backup) /\ FreezeCounted(job[j], 5, session)
    BY <1>3 DEF Established, Stored, FreezeCounted
  <2>3. Reviewed(job[j], 5, db', session) /\ HandedOver(job[j], 5, db', session)
    BY <1>3, <1>4, <1>6 DEF Established, Reviewed, HandedOver
  <2> QED
    BY <2>1, <2>2, <2>3 DEF Established
<1>8. Left(j) \in {7, 6} /\ Established(job[j], Left(j) - 1, db', session, backup)
  BY <1>2, <1>7
<1>9. pending \in SUBSET Present(db.owners) /\ \A k \in Jobs \ {j} : db.lock # k
  BY <1>4
<1> HIDE DEF pending
<1> QED
  BY <1>1, <1>2, <1>4, <1>5, <1>8, <1>9, AtFacts, TransactionStep

\* The commit hands over what the transaction altered.  With the lock held no
\* other transaction is open or has committed, so what was reviewed is what it
\* found, unless a session came.
LEMMA CommitOwnershipStep ==
    ASSUME IsolationInv, NEW j \in Jobs, CommitOwnership(j)
    PROVE  IsolationInv'
<1> DEFINE owners == [o \in Objects |-> IF o \in db.pending THEN "app" ELSE db.owners[o]]
           reviewed == job[j].inventoryAt = session.connects
           run == job[j].run
<1>1. /\ At(j, "commit") /\ Advance(j, job[j]) /\ UNCHANGED <<session, backup, other>>
      /\ db' = [db EXCEPT !.owners = owners, !.role = run, !.public = FALSE,
                          !.lock = None, !.pending = {}, !.reviewed = reviewed]
  BY DEF CommitOwnership
<1>2. Live(j) /\ job[j].mode = "Apply" /\ Left(j) = 4
  BY <1>1, ApplyOnly, AtFacts, ApplyOrder
<1>3. /\ Established(job[j], 4, db, session, backup) /\ job[j] \in JobRecords
      /\ db \in Databases /\ Applying(j) /\ run \in Runs /\ run # None
  BY <1>1, <1>2, AtFacts, IsolationAssumption DEF IsolationInv, TypeOK
<1>4. /\ db.lock = j /\ db.role = None /\ db.pending \subseteq Present(db.owners)
      /\ \A o \in Objects : db.owners[o] # "app"
  BY <1>2, <1>3, IsolationAssumption DEF IsolationInv, LockHeld
<1>5. /\ owners \in Inventories /\ Present(owners) = Present(db.owners)
      /\ \A o \in Objects : owners[o] = "app" <=> o \in db.pending
  BY <1>3, <1>4, IsolationAssumption DEF Databases, Inventories, Owners, Present
<1>6. reviewed \in BOOLEAN
  OBVIOUS
<1> HIDE DEF owners, reviewed, run
<1>7. /\ db' \in Databases /\ db'.rows = db.rows /\ db'.seq = db.seq
      /\ db'.owners = owners /\ db'.role = run /\ db'.public = FALSE
      /\ db'.lock = None /\ db'.pending = {} /\ db'.reviewed = reviewed
  BY <1>1, <1>3, <1>5, <1>6 DEF Databases
<1>8. Established(job[j], 3, db', session, backup)
  <2>1. Collected(job[j], 3, db')
    BY <1>3, <1>5, <1>7 DEF Established, Collected
  <2>2. Stored(job[j], 3, backup) /\ FreezeCounted(job[j], 3, session)
    BY <1>3 DEF Established, Stored, FreezeCounted
  <2>3. Reviewed(job[j], 3, db', session)
    BY DEF Reviewed
  <2>4. job[j].frozenAt = session.connects => db.pending = Present(db.owners) \cap Movable
    BY <1>3 DEF Established, Reviewed
  <2>5. job[j].frozenAt = session.connects =>
            \A o \in Present(owners) \cap Movable : owners[o] = "app"
    BY <2>4, <1>5 DEF Present
  <2>6. HandedOver(job[j], 3, db', session)
    BY <2>5, <1>7 DEF HandedOver, run
  <2> QED
    BY <2>1, <2>2, <2>3, <2>6 DEF Established
<1>9. ASSUME NEW k \in Jobs \ {j}, Applying(k)
      PROVE  Established(job[k], Left(k), db', session', backup')
  <2>1. Established(job[k], Left(k), db, session, backup)
    BY <1>9 DEF IsolationInv, AppliesEstablish
  <2>2. Left(k) \in Nat /\ job[k].run \in Runs
    BY <1>9 DEF IsolationInv, TypeOK, JobRecords, Left, InSequence, Applying
  <2>3. Left(k) \notin 4..6
    BY <1>4, <1>9 DEF IsolationInv, LockHeld
  <2>4. ~(Left(k) <= 3)
    BY <2>1, <2>2, <1>4, IsolationAssumption DEF Established, HandedOver
  <2>5. Collected(job[k], Left(k), db')
    BY <2>1, <1>5, <1>7 DEF Established, Collected
  <2>6. Reviewed(job[k], Left(k), db', session)
    BY <2>3, <1>3, <1>7 DEF Reviewed
  <2>7. HandedOver(job[k], Left(k), db', session)
    BY <2>4 DEF HandedOver
  <2> QED
    BY <2>1, <2>5, <2>6, <2>7, <1>1 DEF Established
<1>10. \A n : Confirmed(n, db, other) => Confirmed(n, db', other')
  BY <1>1, <1>3, <1>7 DEF Confirmed
<1>11. Established(job[j], Left(j) - 1, db', session', backup')
  BY <1>1, <1>2, <1>8
<1>12. /\ job' \in [Jobs -> JobRecords] /\ InSequence' /\ AppliesEstablish'
       /\ VerifiesConfirm'
       /\ \A k \in Jobs \ {j} : Left(k)' = Left(k) /\ (Applying(k)' <=> Applying(k))
       /\ Left(j)' = Left(j) - 1
  BY <1>1, <1>2, <1>9, <1>10, <1>11, AtFacts, JobStep
<1>13. TypeOK'
  BY <1>1, <1>7, <1>12 DEF IsolationInv, TypeOK
<1>14. LockHeld'
  <2>1. ASSUME NEW k \in Jobs PROVE ~(Applying(k)' /\ Left(k)' \in 4..6)
    <3>1. CASE k = j
      BY <3>1, <1>2, <1>12
    <3>2. CASE k # j
      BY <3>2, <1>4, <1>12 DEF IsolationInv, LockHeld
    <3> QED
      BY <3>1, <3>2
  <2> QED
    BY <2>1, <1>3, <1>7, IsolationAssumption DEF LockHeld
<1>15. ChangeIsBackedUpAndReviewed'
  <2>1. /\ job[j].inventory \in Inventories /\ job[j].expected \in Images
        /\ job[j].dump \in Images /\ job[j].expected = ManifestOf(job[j].dump)
        /\ job[j].dump.objects = Present(job[j].inventory)
        /\ \A o \in Present(job[j].inventory) : job[j].inventory[o] = "owner"
        /\ backup[run].dump = job[j].dump
        /\ backup[run].manifest =
               [inventory |-> job[j].inventory, expected |-> job[j].expected,
                dump |-> job[j].dump]
    BY <1>3 DEF Established, Collected, Stored, run
  <2>2. backup[run].manifest \in Manifests
    BY <2>1 DEF Manifests
  <2>3. reviewed => {o \in Objects : owners[o] = "app"} \subseteq Present(job[j].inventory)
    <3>1. reviewed => db.owners = job[j].inventory
      BY <1>3, <1>4 DEF Established, Reviewed, reviewed
    <3> QED
      BY <3>1, <1>4, <1>5
  <2>4. backup[run].dump # None /\ backup[run].manifest # None
    BY <2>1, <2>2, IsolationAssumption
  <2> QED
    BY <2>1, <2>3, <2>4, <1>1, <1>7 DEF ChangeIsBackedUpAndReviewed
<1> QED
  BY <1>12, <1>13, <1>14, <1>15 DEF IsolationInv

-----------------------------------------------------------------------------
LEMMA IsolationInit == Init => IsolationInv
<1> SUFFICES ASSUME Init PROVE IsolationInv
  OBVIOUS
<1>1. /\ db \in Databases /\ db.role = None /\ db.lock = None /\ db.pending = {}
      /\ \A o \in Objects : db.owners[o] # "app"
  <2>1. PICK owners \in Inventories :
            /\ \A o \in Objects : owners[o] # "app"
            /\ db = [rows |-> 0, seq |-> 0, owners |-> owners, role |-> None, public |-> TRUE,
                     lock |-> None, pending |-> {}, reviewed |-> TRUE]
    BY DEF Init
  <2>2. 0 \in Nat /\ {} \in SUBSET Objects
    OBVIOUS
  <2>3. db \in Databases
    BY <2>1, <2>2, Zenon DEF Databases
  <2> QED
    BY <2>1, <2>3
<1>2. session \in Sessions
  <2>1. 0 \in Nat
    OBVIOUS
  <2> QED
    BY <2>1, Zenon DEF Init, Sessions
<1>3. backup \in [Runs -> Backups]
  BY DEF Init, Backups
<1>4. other \in [role : BOOLEAN, public : BOOLEAN]
  BY Zenon DEF Init
<1>5. IdleJob \in JobRecords /\ IdleJob.outcome = "idle"
  BY DEF IdleJob, JobRecords
<1>6. job \in [Jobs -> JobRecords] /\ \A j \in Jobs : job[j].outcome = "idle"
  BY <1>5 DEF Init
<1>7. TypeOK
  BY <1>1, <1>2, <1>3, <1>4, <1>6 DEF TypeOK, Sessions, Backups
<1>8. InSequence /\ AppliesEstablish /\ VerifiesConfirm
  BY <1>6 DEF InSequence, AppliesEstablish, VerifiesConfirm, Applying
<1>9. LockHeld
  BY <1>1, <1>6, IsolationAssumption DEF LockHeld, Applying
<1> QED
  BY <1>1, <1>7, <1>8, <1>9 DEF IsolationInv, ChangeIsBackedUpAndReviewed

LEMMA IsolationStep ==
    ASSUME IsolationInv, [Next]_vars
    PROVE  IsolationInv'
<1>1. CASE Connect \/ Disconnect
  BY <1>1, SessionStep
<1>2. CASE Write
  BY <1>2, WriteStep
<1>3. CASE CopyOther
  BY <1>3, CopyOtherStep
<1>4. ASSUME NEW j \in Jobs, NEW mode \in {"Inspect", "Apply", "Verify"}, NEW run \in Runs,
             Start(j, mode, run)
      PROVE  IsolationInv'
  BY <1>4, StartStep DEF Modes
<1>5. ASSUME NEW j \in Jobs, BackupStep(j) PROVE IsolationInv'
  BY <1>5, RequireFrozenStep, OpenSnapshotStep, ManifestStep, DumpStep, CloseSnapshotStep,
     CompareStep, UploadDumpStep, DownloadVerifiedStep, UploadManifestStep
  DEF BackupStep
<1>6. ASSUME NEW j \in Jobs, ApplyStep(j) PROVE IsolationInv'
  BY <1>6, InventoryStep, InventoryAgainStep, OwnershipGuardStep, TransferOwnershipStep,
     CheckOwnershipStep, CommitOwnershipStep
  DEF ApplyStep
<1>7. ASSUME NEW j \in Jobs, VerifyStep(j) PROVE IsolationInv'
  BY <1>7, VerifyRolesStep, VerifyDeniedStep, VerifyOwnLoginStep DEF VerifyStep
<1>8. ASSUME NEW j \in Jobs, Fail(j) PROVE IsolationInv'
  BY <1>8, FailStep
<1>9. CASE UNCHANGED vars
  BY <1>9 DEF vars, IsolationInv, TypeOK, InSequence, AppliesEstablish, LockHeld,
              VerifiesConfirm, ChangeIsBackedUpAndReviewed, Left, Applying
<1> QED
  BY <1>1, <1>2, <1>3, <1>4, <1>5, <1>6, <1>7, <1>8, <1>9 DEF Next

\* isolate_eventharbor.py keeps IsolationInv whatever sessions come, whichever
\* step of whichever execution fails, and however executions interleave.
THEOREM IsolationInvariant == Spec => []IsolationInv
<1>1. Init => IsolationInv
  BY IsolationInit
<1>2. IsolationInv /\ [Next]_vars => IsolationInv'
  BY IsolationStep
<1> QED
  BY <1>1, <1>2, PTL DEF Spec

\* apply_isolation changes a database only after an exact recovery backup of it
\* and a review in which every object was the owner's, and the role owns only
\* what was reviewed unless a session slipped in.
THEOREM ChangeIsAlwaysBackedUp == Spec => []ChangeIsBackedUpAndReviewed
<1>1. IsolationInv => ChangeIsBackedUpAndReviewed
  BY DEF IsolationInv
<1> QED
  BY <1>1, IsolationInvariant, PTL

\* An Apply that ended well with no session since its guard left the rows, tables
\* and sequences of its dump, and what it can hand over is the application's.
THEOREM AppliedAlwaysKeepsTheData == Spec => []AppliedKeepsTheData
<1>1. IsolationInv => AppliedKeepsTheData
  <2> SUFFICES ASSUME IsolationInv, NEW j \in Jobs, job[j].outcome = "done",
                      job[j].mode = "Apply", job[j].frozenAt = session.connects
               PROVE  /\ ManifestOf([rows |-> db.rows, objects |-> Present(db.owners),
                                     seq |-> db.seq])
                             = ManifestOf(backup[db.role].dump)
                      /\ db.role = job[j].run
                      /\ \A o \in Present(db.owners) \cap Movable : db.owners[o] = "app"
    BY DEF AppliedKeepsTheData
  <2>1. Left(j) = 0 /\ Applying(j)
    BY DEF IsolationInv, InSequence, Applying
  <2>2. Established(job[j], 0, db, session, backup)
    BY <2>1 DEF IsolationInv, AppliesEstablish
  <2>3. job[j].expected = ManifestOf(job[j].dump) /\ backup[job[j].run].dump = job[j].dump
    BY <2>2 DEF Established, Collected, Stored
  <2>4. /\ db.role = job[j].run
        /\ \A o \in Present(db.owners) \cap Movable : db.owners[o] = "app"
        /\ job[j].expected = ManifestOf([rows |-> db.rows, objects |-> Present(db.owners),
                                         seq |-> db.seq])
    BY <2>2 DEF Established, HandedOver
  <2> QED
    BY <2>3, <2>4
<1> QED
  BY <1>1, IsolationInvariant, PTL

\* A Verify that succeeded is right: both roles exist and neither database is
\* open to PUBLIC, whatever other helpers did while it looked.
THEOREM VerifiedIsAlwaysIsolated == Spec => []VerifiedIsIsolated
<1>1. IsolationInv => VerifiedIsIsolated
  <2> SUFFICES ASSUME IsolationInv, NEW j \in Jobs, job[j].outcome = "done",
                      job[j].mode = "Verify"
               PROVE  db.role # None /\ other.role /\ ~db.public /\ ~other.public
    BY DEF VerifiedIsIsolated
  <2>1. Left(j) = 0
    BY DEF IsolationInv, InSequence
  <2>2. Confirmed(0, db, other)
    BY <2>1 DEF IsolationInv, VerifiesConfirm
  <2> QED
    BY <2>2 DEF Confirmed
<1> QED
  BY <1>1, IsolationInvariant, PTL

=============================================================================
