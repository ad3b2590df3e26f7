----------------------------- MODULE CopyProofs -----------------------------
(***************************************************************************)
(* Proofs about DatabaseCopy: exact backups, destinations that are their   *)
(* backup, final copies that miss nothing and grants that go, for any      *)
(* number of executions, runs, writes and writer sessions of both helpers. *)
(*                                                                         *)
(* As in IsolationProofs, what a job has established depends on the steps  *)
(* it has left.                                                            *)
(***************************************************************************)
EXTENDS DatabaseCopy, SequenceTheorems, TLAPS

-----------------------------------------------------------------------------
(* The inductive invariant.                                                *)

StepNames ==
    {"absent", "alter_schema", "claim", "comment_database", "compare", "create_database",
     "create_role", "download", "dump", "empty_foundation", "frozen", "grant", "manifest",
     "prepare_schema", "read_manifest", "read_record", "restore", "revoke", "snapshot",
     "upload_dump", "upload_manifest", "verify_target"}

AllModes == {"Inspect", "Rehearse", "FinalCopy", "Verify", "RecoverRehearsal"}

Writers == [connected : BOOLEAN, connects : Nat]

Backups == [dump : Images \cup {None}, manifest : Records \cup {None}]

Databases ==
    [exists : BOOLEAN, role : Runs \cup {None}, marker : Runs \cup {None},
     schema : {"admin", "owner"}, data : Images \cup {None}, granted : BOOLEAN]

JobRecords ==
    [outcome : {"idle", "running", "unwinding", "done", "failed", "killed"},
     mode : AllModes \cup {None}, run : Runs \cup {None}, target : Targets \cup {None},
     todo : Seq(StepNames), snap : (0..MaxWrites) \cup {None},
     expected : Images \cup {None}, dump : Images \cup {None}, fetched : Images \cup {None},
     owner : {"admin", "owner", None}, frozenAt : Nat]

\* The values the variables range over.
TypeOK ==
    /\ helper \in {"economy", "interim"}
    /\ source \in Images
    /\ writer \in Writers
    /\ backup \in [Runs -> Backups]
    /\ target \in [Targets -> Databases]
    /\ job \in [Jobs -> JobRecords]

IsEnd(todo, steps) ==
    /\ Len(todo) <= Len(steps)
    /\ \A i \in 1..Len(todo) : todo[i] = steps[Len(steps) - Len(todo) + i]

\* What prepare_rehearsal_schema puts before the restore.
IsRepair(todo) ==
    \/ /\ Len(todo) = 5 /\ todo[1] = "grant" /\ todo[2] = "alter_schema"
       /\ todo[3] = "revoke" /\ todo[4] = "restore" /\ todo[5] = "verify_target"
    \/ /\ Len(todo) = 4 /\ todo[1] = "alter_schema"
       /\ todo[2] = "revoke" /\ todo[3] = "restore" /\ todo[4] = "verify_target"
    \/ /\ Len(todo) = 3 /\ todo[1] \in {"revoke", "alter_schema"}
       /\ todo[2] = "restore" /\ todo[3] = "verify_target"

Left(j) == Len(job[j].todo)

\* What a started job has to do is the end of its mode's steps, or the repair of
\* the rehearsal's schema before the last two, or after a failure its finally
\* clause.
Ordered(r) ==
    /\ r.outcome # "idle" =>
           /\ r.mode \in AllModes /\ r.run \in Runs
           /\ r.mode = "RecoverRehearsal" => helper = "economy"
           /\ r.target \in TargetsOf(r.mode)
    /\ r.outcome \in {"running", "done"} =>
           \/ IsEnd(r.todo, StepsOf(r.mode))
           \/ /\ IsRepair(r.todo) /\ helper = "economy"
              /\ r.mode \in {"Rehearse", "RecoverRehearsal"}
    /\ r.outcome = "running" => Len(r.todo) > 0
    /\ r.outcome = "done" => Len(r.todo) = 0
    /\ r.outcome = "unwinding" => Len(r.todo) = 1 /\ r.todo[1] = "revoke"

InSequence == \A j \in Jobs : Ordered(job[j])

\* The job has not failed.
Succeeding(j) == job[j].outcome \in {"running", "done"}

(***************************************************************************)
(* What a job with record r has established.  `h` is the helper, n the     *)
(* number of steps left, p that number before the download is over.        *)
(***************************************************************************)

AfterDownload(h, mode) ==
    IF mode = "Rehearse" THEN IF h = "economy" THEN 7 ELSE 6
    ELSE IF h = "economy" THEN 8 ELSE 10

DumpAt(mode) == IF mode = "FinalCopy" THEN 10 ELSE 5

\* Manifest and dump come from one snapshot, and their sequence values enclose
\* each other until they are compared.
Collected(r, p, src) ==
    LET d == DumpAt(r.mode)
    IN  /\ p \in {d, d + 1} => r.snap \in 0..MaxWrites
        /\ p <= d => r.expected \in Images /\ r.expected.seq <= src.seq
        /\ p = d => r.expected.rows = r.snap
        /\ p < d =>
               /\ r.dump \in Images /\ r.dump.rows = r.expected.rows
               /\ r.expected.seq <= r.dump.seq /\ r.dump.seq <= src.seq
        /\ r.mode = "FinalCopy" /\ p <= 7 => r.expected = r.dump

\* What the container holds of it.
Kept(r, p, b) ==
    /\ p <= 3 => b[r.run].dump = r.dump
    /\ p <= 2 => b[r.run].manifest = [mode |-> r.mode, target |-> r.target,
                                      expected |-> r.expected, dump |-> r.dump]
    /\ p <= 0 => r.fetched = r.dump

\* A recovery works from what it found there.
Recovering(r, n, b) ==
    /\ n <= 4 => b[r.run].manifest # None /\ b[r.run].manifest.target = r.target
    /\ n <= 3 => r.fetched \in Images /\ b[r.run].dump = r.fetched

\* The destination's role is the run's between its creation and the comment on
\* the database; when the restore is due, both are.
RoleMade(h, mode) ==
    IF mode = "Rehearse" THEN IF h = "economy" THEN {5, 4} ELSE {4, 3}
    ELSE IF h = "economy" THEN {} ELSE {7, 6}

RestoreAt(mode) == IF mode = "FinalCopy" THEN 5 ELSE 2

Owned(r, t) == t.role = r.run /\ t.marker = r.run

\* The end of a final copy, provided no writer came since its freeze check.
Counted(at, w) == at <= w.connects /\ (at = w.connects => ~w.connected)

Compared(r, n, src, w, t) ==
    /\ n <= 3 => t.data = r.expected
    /\ n <= 2 => Counted(r.frozenAt, w)
    /\ n = 1 /\ r.frozenAt = w.connects => r.snap = src.rows
    /\ n = 0 /\ r.frozenAt = w.connects => r.expected = src

Standing(r, h, n, t) ==
    /\ r.mode \in {"Rehearse", "FinalCopy"} /\ n \in RoleMade(h, r.mode) => t.role = r.run
    /\ r.mode \in {"Rehearse", "FinalCopy", "RecoverRehearsal"} /\ n <= RestoreAt(r.mode)
           => Owned(r, t)

Established(r, h, n, src, w, b, t) ==
    /\ r.mode = "Inspect" /\ n = 1 => r.snap \in 0..MaxWrites
    /\ r.mode \in {"Rehearse", "FinalCopy"} =>
           LET p == n - AfterDownload(h, r.mode)
           IN  Collected(r, p, src) /\ Kept(r, p, b)
    /\ r.mode = "RecoverRehearsal" => Recovering(r, n, b)
    /\ Standing(r, h, n, t)
    /\ r.mode = "FinalCopy" => Compared(r, n, src, w, t)

\* The steps of its mode that a job has left, the repair not counted.
Place(todo) == IF IsRepair(todo) THEN 2 ELSE Len(todo)

JobsEstablish ==
    \A j \in Jobs : Succeeding(j) =>
        Established(job[j], helper, Place(job[j].todo), source, writer, backup, Target(j))

\* The job will revoke the grants, or could not.
MayRevoke(r) ==
    /\ Contains(r.todo, "revoke")
    /\ \/ r.outcome \in {"running", "unwinding", "killed"}
       \/ r.outcome = "failed" /\ Head(r.todo) = "revoke"

CopyInv ==
    /\ TypeOK /\ InSequence /\ JobsEstablish
    /\ BackupIsExact /\ TargetIsItsBackup /\ GrantsAreTemporary

-----------------------------------------------------------------------------
(* Where a step stands in the sequence of its mode.  `n` is the number of  *)
(* steps left, that one included.                                          *)

Placed(step, h, mode, n) ==
    LET p == n - AfterDownload(h, mode)
        final == mode = "FinalCopy"
        copying == mode \in {"Rehearse", "FinalCopy"}
        recovering == mode = "RecoverRehearsal"
    IN  /\ step = "frozen" => final /\ (p \in {0, 5, 9, 13} \/ n = 3)
        /\ step = "snapshot" =>
               \/ mode = "Inspect" /\ n = 2
               \/ copying /\ p = DumpAt(mode) + 2
               \/ final /\ (p = 7 \/ n = 2)
        /\ step = "manifest" => \/ mode = "Inspect" /\ n = 1
                                \/ copying /\ p = DumpAt(mode) + 1
        /\ step = "dump" => copying /\ p = DumpAt(mode)
        /\ step = "compare" => final /\ (p \in {6, 8} \/ n = 1)
        /\ step = "upload_dump" => copying /\ p = 4
        /\ step = "upload_manifest" => copying /\ p = 3
        /\ step = "read_manifest" => copying /\ p = 2
        /\ step = "read_record" => \/ mode = "Verify"
                                   \/ recovering /\ n = 5
        /\ step = "download" => \/ mode = "Verify"
                                \/ recovering /\ n = 4
                                \/ copying /\ p = 1
        /\ step = "absent" => \/ mode = "Rehearse" /\ p \in {0, 8}
                              \/ final /\ h = "interim" /\ p \in {-1, 14}
        /\ step = "empty_foundation" => \/ mode = "Inspect" /\ n = 3
                                        \/ final /\ h = "economy" /\ p \in {-1, 14}
        /\ step = "create_role" => copying /\ n \notin RoleMade(h, mode)
               /\ p < 0 /\ n - 1 \in RoleMade(h, mode) /\ n - 1 > RestoreAt(mode)
        /\ step = "create_database" => copying /\ p < 0
               /\ n \in RoleMade(h, mode) /\ n - 1 \in RoleMade(h, mode)
               /\ n - 1 > RestoreAt(mode)
        /\ step = "comment_database" => copying /\ p < 0
               /\ n \in RoleMade(h, mode) /\ n - 1 \notin RoleMade(h, mode)
               /\ n - 1 >= RestoreAt(mode)
        /\ step = "claim" => final /\ h = "economy" /\ n = 6
        /\ step = "prepare_schema" =>
               h = "economy" /\ n = 3 /\ mode \in {"Rehearse", "RecoverRehearsal"}
        /\ step = "restore" =>
               mode \in {"Rehearse", "FinalCopy", "RecoverRehearsal"} /\ n = RestoreAt(mode)
        /\ step = "verify_target" =>
               \/ mode = "Verify"
               \/ mode \in {"Rehearse", "FinalCopy", "RecoverRehearsal"}
                  /\ n = RestoreAt(mode) - 1
        /\ step \notin {"grant", "alter_schema", "revoke"}

\* The sequence of steps `s` of a mode of a helper is well placed.
WellPlaced(s, h, mode) ==
    /\ s \in Seq(StepNames) /\ Len(s) > 0
    /\ \A n \in 1..Len(s) : Placed(s[Len(s) + 1 - n], h, mode, n)
    /\ mode \in {"Rehearse", "FinalCopy"} =>
           Len(s) - AfterDownload(h, mode) = IF mode = "FinalCopy" THEN 14 ELSE 8
    /\ mode = "Inspect" => Len(s) \in {2, 3}
    /\ mode = "RecoverRehearsal" => Len(s) = 5

LEMMA InterimInspectPlaces == WellPlaced(InterimSteps("Inspect"), "interim", "Inspect")
<1>. DEFINE s == InterimSteps("Inspect")
           PlacedAt(step, n) == Placed(step, "interim", "Inspect", n)
<1>1. s \in Seq(StepNames) /\ Len(s) = 2
  BY DEF InterimSteps, BackupSteps, StoreSteps, CreateTarget, VerifySteps, StepNames
<1>2. /\ s[1] = "snapshot" /\ s[2] = "manifest"
  BY DEF InterimSteps, BackupSteps, StoreSteps, CreateTarget, VerifySteps
<1>3. /\ PlacedAt("snapshot", 2) /\ PlacedAt("manifest", 1)
  BY DEF Placed, AfterDownload, DumpAt, RoleMade, RestoreAt
<1>. HIDE DEF s, PlacedAt
<1>4. \A n \in 1..2 : PlacedAt(s[3 - n], n)
  BY <1>2, <1>3
<1>5. Len(s) > 0 /\ \A n \in 1..Len(s) : PlacedAt(s[Len(s) + 1 - n], n)
  BY <1>1, <1>4
<1>. QED
  BY <1>1, <1>5 DEF WellPlaced, AfterDownload, PlacedAt, s

LEMMA InterimVerifyPlaces == WellPlaced(InterimSteps("Verify"), "interim", "Verify")
<1>. DEFINE s == InterimSteps("Verify")
           PlacedAt(step, n) == Placed(step, "interim", "Verify", n)
<1>1. s \in Seq(StepNames) /\ Len(s) = 3
  BY DEF InterimSteps, BackupSteps, StoreSteps, CreateTarget, VerifySteps, StepNames
<1>2. /\ s[1] = "read_record" /\ s[2] = "download" /\ s[3] = "verify_target"
  BY DEF InterimSteps, BackupSteps, StoreSteps, CreateTarget, VerifySteps
<1>3. /\ PlacedAt("read_record", 3) /\ PlacedAt("download", 2)
      /\ PlacedAt("verify_target", 1)
  BY DEF Placed, AfterDownload, DumpAt, RoleMade, RestoreAt
<1>. HIDE DEF s, PlacedAt
<1>4. \A n \in 1..3 : PlacedAt(s[4 - n], n)
  BY <1>2, <1>3
<1>5. Len(s) > 0 /\ \A n \in 1..Len(s) : PlacedAt(s[Len(s) + 1 - n], n)
  BY <1>1, <1>4
<1>. QED
  BY <1>1, <1>5 DEF WellPlaced, AfterDownload, PlacedAt, s

LEMMA InterimRehearsePlaces == WellPlaced(InterimSteps("Rehearse"), "interim", "Rehearse")
<1>. DEFINE s == InterimSteps("Rehearse")
           PlacedAt(step, n) == Placed(step, "interim", "Rehearse", n)
<1>1. s \in Seq(StepNames) /\ Len(s) = 14
  BY DEF InterimSteps, BackupSteps, StoreSteps, CreateTarget, VerifySteps, StepNames
<1>2. /\ s[1] = "absent" /\ s[2] = "snapshot" /\ s[3] = "manifest" /\ s[4] = "dump"
      /\ s[5] = "upload_dump" /\ s[6] = "upload_manifest" /\ s[7] = "read_manifest"
      /\ s[8] = "download" /\ s[9] = "absent" /\ s[10] = "create_role"
      /\ s[11] = "create_database" /\ s[12] = "comment_database" /\ s[13] = "restore"
      /\ s[14] = "verify_target"
  BY DEF InterimSteps, BackupSteps, StoreSteps, CreateTarget, VerifySteps
<1>3. /\ PlacedAt("absent", 14) /\ PlacedAt("snapshot", 13) /\ PlacedAt("manifest", 12)
      /\ PlacedAt("dump", 11) /\ PlacedAt("upload_dump", 10)
      /\ PlacedAt("upload_manifest", 9) /\ PlacedAt("read_manifest", 8)
      /\ PlacedAt("download", 7) /\ PlacedAt("absent", 6) /\ PlacedAt("create_role", 5)
      /\ PlacedAt("create_database", 4) /\ PlacedAt("comment_database", 3)
      /\ PlacedAt("restore", 2) /\ PlacedAt("verify_target", 1)
  BY DEF Placed, AfterDownload, DumpAt, RoleMade, RestoreAt
<1>. HIDE DEF s, PlacedAt
<1>4. \A n \in 1..14 : PlacedAt(s[15 - n], n)
  BY <1>2, <1>3
<1>5. Len(s) > 0 /\ \A n \in 1..Len(s) : PlacedAt(s[Len(s) + 1 - n], n)
  BY <1>1, <1>4
<1>. QED
  BY <1>1, <1>5 DEF WellPlaced, AfterDownload, PlacedAt, s

LEMMA InterimFinalCopyPlaces == WellPlaced(InterimSteps("FinalCopy"), "interim", "FinalCopy")
<1>. DEFINE s == InterimSteps("FinalCopy")
           PlacedAt(step, n) == Placed(step, "interim", "FinalCopy", n)
<1>1. s \in Seq(StepNames) /\ Len(s) = 24
  BY DEF InterimSteps, BackupSteps, StoreSteps, CreateTarget, VerifySteps, StepNames
<1>2. /\ s[1] = "absent" /\ s[2] = "frozen" /\ s[3] = "snapshot" /\ s[4] = "manifest"
      /\ s[5] = "dump" /\ s[6] = "frozen" /\ s[7] = "compare" /\ s[8] = "snapshot"
      /\ s[9] = "compare" /\ s[10] = "frozen" /\ s[11] = "upload_dump"
      /\ s[12] = "upload_manifest" /\ s[13] = "read_manifest" /\ s[14] = "download"
      /\ s[15] = "frozen" /\ s[16] = "absent" /\ s[17] = "create_role"
      /\ s[18] = "create_database" /\ s[19] = "comment_database" /\ s[20] = "restore"
      /\ s[21] = "verify_target" /\ s[22] = "frozen" /\ s[23] = "snapshot"
      /\ s[24] = "compare"
  BY DEF InterimSteps, BackupSteps, StoreSteps, CreateTarget, VerifySteps
<1>3. /\ PlacedAt("absent", 24) /\ PlacedAt("frozen", 23) /\ PlacedAt("snapshot", 22)
      /\ PlacedAt("manifest", 21) /\ PlacedAt("dump", 20) /\ PlacedAt("frozen", 19)
  BY DEF Placed, AfterDownload, DumpAt, RoleMade, RestoreAt
<1>4. /\ PlacedAt("compare", 18) /\ PlacedAt("snapshot", 17) /\ PlacedAt("compare", 16)
      /\ PlacedAt("frozen", 15) /\ PlacedAt("upload_dump", 14)
      /\ PlacedAt("upload_manifest", 13)
  BY DEF Placed, AfterDownload, DumpAt, RoleMade, RestoreAt
<1>5. /\ PlacedAt("read_manifest", 12) /\ PlacedAt("download", 11) /\ PlacedAt("frozen", 10)
      /\ PlacedAt("absent", 9) /\ PlacedAt("create_role", 8)
      /\ PlacedAt("create_database", 7)
  BY DEF Placed, AfterDownload, DumpAt, RoleMade, RestoreAt
<1>6. /\ PlacedAt("comment_database", 6) /\ PlacedAt("restore", 5)
      /\ PlacedAt("verify_target", 4) /\ PlacedAt("frozen", 3) /\ PlacedAt("snapshot", 2)
      /\ PlacedAt("compare", 1)
  BY DEF Placed, AfterDownload, DumpAt, RoleMade, RestoreAt
<1>. HIDE DEF s, PlacedAt
<1>7. \A n \in 1..24 : PlacedAt(s[25 - n], n)
  BY <1>2, <1>3, <1>4, <1>5, <1>6
<1>8. Len(s) > 0 /\ \A n \in 1..Len(s) : PlacedAt(s[Len(s) + 1 - n], n)
  BY <1>1, <1>7
<1>. QED
  BY <1>1, <1>8 DEF WellPlaced, AfterDownload, PlacedAt, s

LEMMA EconomyInspectPlaces == WellPlaced(EconomySteps("Inspect"), "economy", "Inspect")
<1>. DEFINE s == EconomySteps("Inspect")
           PlacedAt(step, n) == Placed(step, "economy", "Inspect", n)
<1>1. s \in Seq(StepNames) /\ Len(s) = 3
  BY DEF EconomySteps, BackupSteps, StoreSteps, CreateTarget, VerifySteps, StepNames
<1>2. /\ s[1] = "empty_foundation" /\ s[2] = "snapshot" /\ s[3] = "manifest"
  BY DEF EconomySteps, BackupSteps, StoreSteps, CreateTarget, VerifySteps
<1>3. /\ PlacedAt("empty_foundation", 3) /\ PlacedAt("snapshot", 2)
      /\ PlacedAt("manifest", 1)
  BY DEF Placed, AfterDownload, DumpAt, RoleMade, RestoreAt
<1>. HIDE DEF s, PlacedAt
<1>4. \A n \in 1..3 : PlacedAt(s[4 - n], n)
  BY <1>2, <1>3
<1>5. Len(s) > 0 /\ \A n \in 1..Len(s) : PlacedAt(s[Len(s) + 1 - n], n)
  BY <1>1, <1>4
<1>. QED
  BY <1>1, <1>5 DEF WellPlaced, AfterDownload, PlacedAt, s

LEMMA EconomyVerifyPlaces == WellPlaced(EconomySteps("Verify"), "economy", "Verify")
<1>. DEFINE s == EconomySteps("Verify")
           PlacedAt(step, n) == Placed(step, "economy", "Verify", n)
<1>1. s \in Seq(StepNames) /\ Len(s) = 3
  BY DEF EconomySteps, BackupSteps, StoreSteps, CreateTarget, VerifySteps, StepNames
<1>2. /\ s[1] = "read_record" /\ s[2] = "download" /\ s[3] = "verify_target"
  BY DEF EconomySteps, BackupSteps, StoreSteps, CreateTarget, VerifySteps
<1>3. /\ PlacedAt("read_record", 3) /\ PlacedAt("download", 2)
      /\ PlacedAt("verify_target", 1)
  BY DEF Placed, AfterDownload, DumpAt, RoleMade, RestoreAt
<1>. HIDE DEF s, PlacedAt
<1>4. \A n \in 1..3 : PlacedAt(s[4 - n], n)
  BY <1>2, <1>3
<1>5. Len(s) > 0 /\ \A n \in 1..Len(s) : PlacedAt(s[Len(s) + 1 - n], n)
  BY <1>1, <1>4
<1>. QED
  BY <1>1, <1>5 DEF WellPlaced, AfterDownload, PlacedAt, s

LEMMA EconomyRecoverRehearsalPlaces == WellPlaced(EconomySteps("RecoverRehearsal"), "economy", "RecoverRehearsal")
<1>. DEFINE s == EconomySteps("RecoverRehearsal")
           PlacedAt(step, n) == Placed(step, "economy", "RecoverRehearsal", n)
<1>1. s \in Seq(StepNames) /\ Len(s) = 5
  BY DEF EconomySteps, BackupSteps, StoreSteps, CreateTarget, VerifySteps, StepNames
<1>2. /\ s[1] = "read_record" /\ s[2] = "download" /\ s[3] = "prepare_schema"
      /\ s[4] = "restore" /\ s[5] = "verify_target"
  BY DEF EconomySteps, BackupSteps, StoreSteps, CreateTarget, VerifySteps
<1>3. /\ PlacedAt("read_record", 5) /\ PlacedAt("download", 4)
      /\ PlacedAt("prepare_schema", 3) /\ PlacedAt("restore", 2)
      /\ PlacedAt("verify_target", 1)
  BY DEF Placed, AfterDownload, DumpAt, RoleMade, RestoreAt
<1>. HIDE DEF s, PlacedAt
<1>4. \A n \in 1..5 : PlacedAt(s[6 - n], n)
  BY <1>2, <1>3
<1>5. Len(s) > 0 /\ \A n \in 1..Len(s) : PlacedAt(s[Len(s) + 1 - n], n)
  BY <1>1, <1>4
<1>. QED
  BY <1>1, <1>5 DEF WellPlaced, AfterDownload, PlacedAt, s

LEMMA EconomyRehearsePlaces == WellPlaced(EconomySteps("Rehearse"), "economy", "Rehearse")
<1>. DEFINE s == EconomySteps("Rehearse")
           PlacedAt(step, n) == Placed(step, "economy", "Rehearse", n)
<1>1. s \in Seq(StepNames) /\ Len(s) = 15
  BY DEF EconomySteps, BackupSteps, StoreSteps, CreateTarget, VerifySteps, StepNames
<1>2. /\ s[1] = "absent" /\ s[2] = "snapshot" /\ s[3] = "manifest" /\ s[4] = "dump"
      /\ s[5] = "upload_dump" /\ s[6] = "upload_manifest" /\ s[7] = "read_manifest"
      /\ s[8] = "download" /\ s[9] = "absent" /\ s[10] = "create_role"
      /\ s[11] = "create_database" /\ s[12] = "comment_database" /\ s[13] = "prepare_schema"
      /\ s[14] = "restore" /\ s[15] = "verify_target"
  BY DEF EconomySteps, BackupSteps, StoreSteps, CreateTarget, VerifySteps
<1>3. /\ PlacedAt("absent", 15) /\ PlacedAt("snapshot", 14) /\ PlacedAt("manifest", 13)
      /\ PlacedAt("dump", 12) /\ PlacedAt("upload_dump", 11)
      /\ PlacedAt("upload_manifest", 10) /\ PlacedAt("read_manifest", 9)
      /\ PlacedAt("download", 8) /\ PlacedAt("absent", 7) /\ PlacedAt("create_role", 6)
      /\ PlacedAt("create_database", 5) /\ PlacedAt("comment_database", 4)
      /\ PlacedAt("prepare_schema", 3) /\ PlacedAt("restore", 2)
      /\ PlacedAt("verify_target", 1)
  BY DEF Placed, AfterDownload, DumpAt, RoleMade, RestoreAt
<1>. HIDE DEF s, PlacedAt
<1>4. \A n \in 1..15 : PlacedAt(s[16 - n], n)
  BY <1>2, <1>3
<1>5. Len(s) > 0 /\ \A n \in 1..Len(s) : PlacedAt(s[Len(s) + 1 - n], n)
  BY <1>1, <1>4
<1>. QED
  BY <1>1, <1>5 DEF WellPlaced, AfterDownload, PlacedAt, s

LEMMA EconomyFinalCopyPlaces == WellPlaced(EconomySteps("FinalCopy"), "economy", "FinalCopy")
<1>. DEFINE s == EconomySteps("FinalCopy")
           PlacedAt(step, n) == Placed(step, "economy", "FinalCopy", n)
<1>1. s \in Seq(StepNames) /\ Len(s) = 22
  BY DEF EconomySteps, BackupSteps, StoreSteps, CreateTarget, VerifySteps, StepNames
<1>2. /\ s[1] = "empty_foundation" /\ s[2] = "frozen" /\ s[3] = "snapshot"
      /\ s[4] = "manifest" /\ s[5] = "dump" /\ s[6] = "frozen" /\ s[7] = "compare"
      /\ s[8] = "snapshot" /\ s[9] = "compare" /\ s[10] = "frozen" /\ s[11] = "upload_dump"
      /\ s[12] = "upload_manifest" /\ s[13] = "read_manifest" /\ s[14] = "download"
      /\ s[15] = "frozen" /\ s[16] = "empty_foundation" /\ s[17] = "claim"
      /\ s[18] = "restore" /\ s[19] = "verify_target" /\ s[20] = "frozen"
      /\ s[21] = "snapshot" /\ s[22] = "compare"
  BY DEF EconomySteps, BackupSteps, StoreSteps, CreateTarget, VerifySteps
<1>3. /\ PlacedAt("empty_foundation", 22) /\ PlacedAt("frozen", 21)
      /\ PlacedAt("snapshot", 20) /\ PlacedAt("manifest", 19) /\ PlacedAt("dump", 18)
      /\ PlacedAt("frozen", 17)
  BY DEF Placed, AfterDownload, DumpAt, RoleMade, RestoreAt
<1>4. /\ PlacedAt("compare", 16) /\ PlacedAt("snapshot", 15) /\ PlacedAt("compare", 14)
      /\ PlacedAt("frozen", 13) /\ PlacedAt("upload_dump", 12)
      /\ PlacedAt("upload_manifest", 11)
  BY DEF Placed, AfterDownload, DumpAt, RoleMade, RestoreAt
<1>5. /\ PlacedAt("read_manifest", 10) /\ PlacedAt("download", 9) /\ PlacedAt("frozen", 8)
      /\ PlacedAt("empty_foundation", 7) /\ PlacedAt("claim", 6) /\ PlacedAt("restore", 5)
  BY DEF Placed, AfterDownload, DumpAt, RoleMade, RestoreAt
<1>6. /\ PlacedAt("verify_target", 4) /\ PlacedAt("frozen", 3) /\ PlacedAt("snapshot", 2)
      /\ PlacedAt("compare", 1)
  BY DEF Placed, AfterDownload, DumpAt, RoleMade, RestoreAt
<1>. HIDE DEF s, PlacedAt
<1>7. \A n \in 1..22 : PlacedAt(s[23 - n], n)
  BY <1>2, <1>3, <1>4, <1>5, <1>6
<1>8. Len(s) > 0 /\ \A n \in 1..Len(s) : PlacedAt(s[Len(s) + 1 - n], n)
  BY <1>1, <1>7
<1>. QED
  BY <1>1, <1>8 DEF WellPlaced, AfterDownload, PlacedAt, s

-----------------------------------------------------------------------------
(* What a job has left is placed.                                          *)

LEMMA StepsPlaced ==
    ASSUME TypeOK, NEW mode \in AllModes, mode = "RecoverRehearsal" => helper = "economy"
    PROVE  WellPlaced(StepsOf(mode), helper, mode)
<1>1. helper \in {"economy", "interim"}
  BY DEF TypeOK
<1>2. CASE helper = "economy"
  BY <1>2, EconomyInspectPlaces, EconomyVerifyPlaces, EconomyRecoverRehearsalPlaces,
     EconomyRehearsePlaces, EconomyFinalCopyPlaces DEF StepsOf, AllModes
<1>3. CASE helper = "interim"
  BY <1>3, InterimInspectPlaces, InterimVerifyPlaces, InterimRehearsePlaces,
     InterimFinalCopyPlaces DEF StepsOf, AllModes
<1>. QED
  BY <1>1, <1>2, <1>3

LEMMA EndHead ==
    ASSUME NEW todo \in Seq(StepNames), NEW steps \in Seq(StepNames),
           IsEnd(todo, steps), Len(todo) > 0
    PROVE  /\ Len(todo) \in 1..Len(steps)
           /\ Head(todo) = steps[Len(steps) + 1 - Len(todo)]
<1>1. Len(todo) \in Nat /\ Len(steps) \in Nat /\ Head(todo) = todo[1]
  OBVIOUS
<1>2. Len(todo) <= Len(steps) /\ 1 \in 1..Len(todo)
  BY <1>1 DEF IsEnd
<1>3. todo[1] = steps[Len(steps) - Len(todo) + 1]
  BY <1>2 DEF IsEnd
<1>4. Len(steps) - Len(todo) + 1 = Len(steps) + 1 - Len(todo) /\ Len(todo) \in 1..Len(steps)
  BY <1>1, <1>2
<1>. QED
  BY <1>1, <1>3, <1>4

LEMMA EndTail ==
    ASSUME NEW todo \in Seq(StepNames), NEW steps \in Seq(StepNames),
           IsEnd(todo, steps), Len(todo) > 0
    PROVE  /\ Tail(todo) \in Seq(StepNames) /\ Len(Tail(todo)) = Len(todo) - 1
           /\ IsEnd(Tail(todo), steps)
<1>. DEFINE n == Len(todo)
            m == Len(steps)
<1>1. n \in Nat \ {0} /\ m \in Nat /\ n <= m
  BY DEF IsEnd
<1>2. /\ Tail(todo) \in Seq(StepNames) /\ Len(Tail(todo)) = n - 1
      /\ \A i \in 1..(n - 1) : Tail(todo)[i] = todo[i + 1]
  BY <1>1
<1>3. ASSUME NEW i \in 1..(n - 1) PROVE Tail(todo)[i] = steps[m - (n - 1) + i]
  <2>1. i + 1 \in 1..n /\ m - n + (i + 1) = m - (n - 1) + i
    BY <1>1
  <2>2. todo[i + 1] = steps[m - n + (i + 1)]
    BY <2>1 DEF IsEnd
  <2>. QED
    BY <1>2, <2>1, <2>2
<1>4. n - 1 <= m
  BY <1>1
<1>. QED
  BY <1>2, <1>3, <1>4 DEF IsEnd

LEMMA NoRepairInMode ==
    ASSUME NEW todo \in Seq(StepNames), NEW steps, NEW h, NEW mode,
           WellPlaced(steps, h, mode), IsEnd(todo, steps)
    PROVE  ~IsRepair(todo) /\ ~Contains(todo, "revoke")
<1>. DEFINE n == Len(todo)
            m == Len(steps)
<1>1. n \in Nat /\ m \in Nat /\ n <= m
  BY DEF WellPlaced, IsEnd
<1>2. ASSUME NEW i \in 1..n PROVE todo[i] \notin {"grant", "alter_schema", "revoke"}
  <2>1. n + 1 - i \in 1..m /\ m + 1 - (n + 1 - i) = m - n + i
    BY <1>1
  <2>2. todo[i] = steps[m + 1 - (n + 1 - i)]
    BY <2>1 DEF IsEnd
  <2>3. Placed(steps[m + 1 - (n + 1 - i)], h, mode, n + 1 - i)
    BY <2>1 DEF WellPlaced
  <2>. HIDE DEF n, m
  <2>. QED
    BY <2>2, <2>3 DEF Placed
<1>3. ~Contains(todo, "revoke")
  BY <1>2 DEF Contains
<1>4. ~IsRepair(todo)
  <2>1. SUFFICES ASSUME IsRepair(todo) PROVE FALSE
    OBVIOUS
  <2>2. 1 \in 1..n
    BY <2>1, <1>1 DEF IsRepair
  <2>3. todo[1] \in {"grant", "alter_schema", "revoke"}
    BY <2>1 DEF IsRepair
  <2>. QED
    BY <2>2, <2>3, <1>2
<1>. QED
  BY <1>3, <1>4

\* What is known of a live job that stands at a step of its mode.
LEMMA AtFacts ==
    ASSUME CopyInv, NEW j \in Jobs, NEW step, At(j, step),
           step \notin {"grant", "alter_schema", "revoke"}
    PROVE  /\ job[j] \in JobRecords /\ job[j].outcome = "running"
           /\ job[j].mode \in AllModes /\ job[j].run \in Runs /\ job[j].target \in Targets
           /\ job[j].target \in TargetsOf(job[j].mode)
           /\ job[j].mode = "RecoverRehearsal" => helper = "economy"
           /\ Left(j) \in Nat \ {0} /\ IsEnd(job[j].todo, StepsOf(job[j].mode))
           /\ Placed(step, helper, job[j].mode, Left(j))
           /\ Established(job[j], helper, Left(j), source, writer, backup, Target(j))
           /\ Target(j) \in Databases /\ Stored(j) \in Backups
           /\ source \in Images /\ writer \in Writers
<1>1. TypeOK /\ InSequence /\ JobsEstablish
  BY DEF CopyInv
<1>2. /\ job[j] \in JobRecords /\ Live(j) /\ Head(job[j].todo) = step
      /\ job[j].todo \in Seq(StepNames)
  BY <1>1 DEF TypeOK, At, JobRecords
<1>3. job[j].outcome = "running"
  <2>1. SUFFICES ASSUME job[j].outcome = "unwinding" PROVE FALSE
    BY <1>2 DEF Live
  <2>2. Left(j) = 1 /\ job[j].todo[1] = "revoke"
    BY <2>1, <1>1 DEF InSequence, Ordered, Left
  <2>3. Head(job[j].todo) = job[j].todo[1]
    BY <2>2, <1>2 DEF Left
  <2>. QED
    BY <2>2, <2>3, <1>2
<1>4. /\ job[j].mode \in AllModes /\ job[j].run \in Runs
      /\ job[j].mode = "RecoverRehearsal" => helper = "economy"
      /\ job[j].target \in TargetsOf(job[j].mode) /\ Left(j) > 0
      /\ IsEnd(job[j].todo, StepsOf(job[j].mode)) \/ IsRepair(job[j].todo)
  BY <1>1, <1>3 DEF InSequence, Ordered, Left
<1>5. job[j].target \in Targets
  BY <1>4 DEF TargetsOf, Targets, AllModes
<1>6. Left(j) \in Nat \ {0}
  BY <1>2, <1>4 DEF Left
<1>7. IsEnd(job[j].todo, StepsOf(job[j].mode))
  <2>1. Head(job[j].todo) = job[j].todo[1]
    BY <1>2, <1>6 DEF Left
  <2>. QED
    BY <2>1, <1>2, <1>4 DEF IsRepair
<1>8. WellPlaced(StepsOf(job[j].mode), helper, job[j].mode)
  BY <1>1, <1>4, StepsPlaced
<1>9. Placed(step, helper, job[j].mode, Left(j))
  <2>1. StepsOf(job[j].mode) \in Seq(StepNames)
    BY <1>8 DEF WellPlaced
  <2>2. /\ Left(j) \in 1..Len(StepsOf(job[j].mode))
        /\ step = StepsOf(job[j].mode)[Len(StepsOf(job[j].mode)) + 1 - Left(j)]
    BY <2>1, <1>2, <1>4, <1>7, EndHead DEF Left
  <2>. QED
    BY <2>2, <1>8 DEF WellPlaced
<1>10. Established(job[j], helper, Left(j), source, writer, backup, Target(j))
  <2>1. Place(job[j].todo) = Left(j)
    BY <1>2, <1>7, <1>8, NoRepairInMode DEF Place, Left
  <2>. QED
    BY <2>1, <1>1, <1>3 DEF JobsEstablish, Succeeding
<1>11. Target(j) \in Databases /\ Stored(j) \in Backups
  BY <1>1, <1>4, <1>5 DEF TypeOK, Target, Stored
<1>12. source \in Images /\ writer \in Writers
  BY <1>1 DEF TypeOK
<1>. QED
  BY <1>2, <1>3, <1>4, <1>5, <1>6, <1>7, <1>9, <1>10, <1>11, <1>12

-----------------------------------------------------------------------------
(* What the steps of one leave to the others.  A destination's role, its   *)
(* mark once it is the role's, and its data are written once; so are the   *)
(* names of the container; and no writer goes unnoticed by the count.      *)

Grows(t, t2) ==
    /\ t.role # None => t2.role = t.role /\ (t.marker = t.role => t2.marker = t.marker)
    /\ t.data # None => t2.data = t.data

Fills(b, b2) ==
    \A run \in Runs :
        /\ b[run].dump # None => b2[run].dump = b[run].dump
        /\ b[run].manifest # None => b2[run].manifest = b[run].manifest

Passes(src, w, src2, w2) ==
    /\ src.seq <= src2.seq
    /\ \A at \in Nat : Counted(at, w) =>
           Counted(at, w2) /\ (at = w2.connects => at = w.connects /\ src2 = src)

LEMMA Framed ==
    ASSUME NEW r \in JobRecords, r.run \in Runs, r.target \in Targets,
           NEW h \in {"economy", "interim"}, NEW n \in Nat,
           NEW src \in Images, NEW src2 \in Images, NEW w \in Writers, NEW w2 \in Writers,
           NEW b \in [Runs -> Backups], NEW b2 \in [Runs -> Backups],
           NEW t \in Databases, NEW t2 \in Databases,
           Established(r, h, n, src, w, b, t),
           Grows(t, t2), Fills(b, b2), Passes(src, w, src2, w2)
    PROVE  Established(r, h, n, src2, w2, b2, t2)
<1>. DEFINE p == n - AfterDownload(h, r.mode)
            copying == r.mode \in {"Rehearse", "FinalCopy"}
<1>1. p \in Int /\ AfterDownload(h, r.mode) \in Nat /\ DumpAt(r.mode) \in {5, 10}
  BY DEF AfterDownload, DumpAt
<1>2. r.mode = "Inspect" /\ n = 1 => r.snap \in 0..MaxWrites
  BY DEF Established
<1>3. copying => Collected(r, p, src) /\ Kept(r, p, b)
  BY DEF Established
<1>4. /\ r.mode = "RecoverRehearsal" => Recovering(r, n, b)
      /\ Standing(r, h, n, t)
      /\ r.mode = "FinalCopy" => Compared(r, n, src, w, t)
  BY DEF Established
<1>5. r.run # None /\ None \notin Images /\ None \notin Records
  BY CopyAssumption
<1>. HIDE DEF p
<1>6. copying => Collected(r, p, src2)
  <2>1. src.seq \in Nat /\ src2.seq \in Nat /\ src.seq <= src2.seq
    BY DEF Images, Passes
  <2>2. r.expected \in Images => r.expected.seq \in Nat
    BY DEF Images
  <2>3. r.dump \in Images => r.dump.seq \in Nat
    BY DEF Images
  <2>. QED
    BY <1>1, <1>3, <2>1, <2>2, <2>3 DEF Collected
<1>7. copying => Kept(r, p, b2)
  <2>1. SUFFICES ASSUME copying PROVE Kept(r, p, b2)
    OBVIOUS
  <2>2. p <= 3 => r.dump \in Images /\ r.expected \in Images
    BY <1>1, <1>3, <2>1 DEF Collected
  <2>3. [mode |-> r.mode, target |-> r.target, expected |-> r.expected, dump |-> r.dump] \in Records
        \/ ~(p <= 3)
    BY <2>1, <2>2 DEF Records
  <2>4. p <= 3 => b2[r.run].dump = r.dump
    BY <1>3, <1>5, <2>1, <2>2 DEF Kept, Fills
  <2>5. p <= 2 => b2[r.run].manifest = [mode |-> r.mode, target |-> r.target,
                                        expected |-> r.expected, dump |-> r.dump]
    <3>1. SUFFICES ASSUME p <= 2
                   PROVE b2[r.run].manifest = [mode |-> r.mode, target |-> r.target,
                                        expected |-> r.expected, dump |-> r.dump]
      OBVIOUS
    <3>2. p <= 3
      BY <1>1, <3>1
    <3>. QED
      BY <1>3, <1>5, <2>1, <2>3, <3>1, <3>2 DEF Kept, Fills
  <2>. QED
    BY <1>3, <2>1, <2>4, <2>5 DEF Kept
<1>8. r.mode = "RecoverRehearsal" => Recovering(r, n, b2)
  BY <1>4, <1>5 DEF Recovering, Fills
<1>9. Standing(r, h, n, t2)
  BY <1>4, <1>5 DEF Grows, Owned, Standing
<1>10. r.mode = "FinalCopy" => Compared(r, n, src2, w2, t2)
  <2>1. SUFFICES ASSUME r.mode = "FinalCopy" PROVE Compared(r, n, src2, w2, t2)
    OBVIOUS
  <2>2. n <= 3 => t2.data = r.expected
    <3>1. n <= 3 => r.expected \in Images
      <4>1. n <= 3 => p <= DumpAt(r.mode)
        BY <2>1 DEF p, AfterDownload, DumpAt
      <4>. QED
        BY <4>1, <1>3, <2>1 DEF Collected
    <3>. QED
      BY <3>1, <1>4, <1>5, <2>1 DEF Compared, Grows
  <2>3. r.frozenAt \in Nat
    BY DEF JobRecords
  <2>4. Compared(r, n, src, w, t)
    BY <1>4, <2>1
  <2>5. n <= 2 => /\ Counted(r.frozenAt, w2)
                  /\ r.frozenAt = w2.connects => r.frozenAt = w.connects /\ src2 = src
    BY <2>3, <2>4 DEF Compared, Passes
  <2>. QED
    BY <2>2, <2>4, <2>5 DEF Compared
<1>. QED
  BY <1>2, <1>6, <1>7, <1>8, <1>9, <1>10 DEF Established, p

\* Established speaks of these fields of the record only.
LEMMA SameFacts ==
    ASSUME NEW q, NEW r, NEW h, NEW n, NEW src, NEW w, NEW b, NEW t,
           Established(r, h, n, src, w, b, t),
           q.mode = r.mode, q.run = r.run, q.target = r.target, q.snap = r.snap,
           q.expected = r.expected, q.dump = r.dump, q.fetched = r.fetched,
           q.frozenAt = r.frozenAt
    PROVE  Established(q, h, n, src, w, b, t)
<1>. DEFINE p == n - AfterDownload(h, r.mode)
<1>1. r.mode \in {"Rehearse", "FinalCopy"} => Collected(q, p, src) /\ Kept(q, p, b)
  <2>1. r.mode \in {"Rehearse", "FinalCopy"} => Collected(r, p, src) /\ Kept(r, p, b)
    BY DEF Established
  <2>. HIDE DEF p
  <2>. QED
    BY <2>1 DEF Collected, Kept
<1>2. r.mode = "RecoverRehearsal" => Recovering(q, n, b)
  BY DEF Established, Recovering
<1>3. Standing(q, h, n, t)
  BY DEF Established, Standing, Owned
<1>4. r.mode = "FinalCopy" => Compared(q, n, src, w, t)
  BY DEF Established, Compared
<1>. QED
  BY <1>1, <1>2, <1>3, <1>4 DEF Established

LEMMA Temporary ==
    GrantsAreTemporary <=>
        \A name \in Targets : target[name].granted =>
            \E j \in Jobs : job[j].target = name /\ MayRevoke(job[j])
BY DEF GrantsAreTemporary, MayRevoke, Live

LEMMA TemporaryNext ==
    GrantsAreTemporary' <=>
        \A name \in Targets : target'[name].granted =>
            \E j \in Jobs : job'[j].target = name /\ MayRevoke(job'[j])
BY DEF GrantsAreTemporary, MayRevoke, Live

-----------------------------------------------------------------------------
\* The record of a job that has done a step of its mode.
LEMMA Advanced ==
    ASSUME CopyInv, NEW j \in Jobs, NEW step, At(j, step),
           step \notin {"grant", "alter_schema", "revoke"},
           NEW r \in JobRecords, r.outcome = "running", r.mode = job[j].mode,
           r.run = job[j].run, r.target = job[j].target, r.todo = job[j].todo,
           Advance(j, r), helper' = helper
    PROVE  /\ job' \in [Jobs -> JobRecords] /\ InSequence'
           /\ \A k \in Jobs \ {j} : job'[k] = job[k]
           /\ ~MayRevoke(job[j]) /\ ~IsRepair(job'[j].todo)
           /\ Len(job'[j].todo) = Left(j) - 1
           /\ job'[j].mode = r.mode /\ job'[j].run = r.run /\ job'[j].target = r.target
           /\ job'[j].snap = r.snap /\ job'[j].expected = r.expected
           /\ job'[j].dump = r.dump /\ job'[j].fetched = r.fetched
           /\ job'[j].frozenAt = r.frozenAt
<1>. DEFINE steps == StepsOf(job[j].mode)
            rest == Tail(job[j].todo)
            q == [r EXCEPT !.todo = rest,
                           !.outcome = IF rest # <<>> THEN @
                                       ELSE IF @ = "unwinding" THEN "failed" ELSE "done"]
<1>1. /\ job[j] \in JobRecords /\ job[j].outcome = "running"
      /\ job[j].mode \in AllModes /\ job[j].run \in Runs /\ job[j].target \in Targets
      /\ job[j].target \in TargetsOf(job[j].mode)
      /\ job[j].mode = "RecoverRehearsal" => helper = "economy"
      /\ Left(j) \in Nat \ {0} /\ IsEnd(job[j].todo, steps)
  BY AtFacts
<1>2. TypeOK /\ InSequence /\ job[j].todo \in Seq(StepNames)
  BY <1>1 DEF CopyInv, JobRecords
<1>3. WellPlaced(steps, helper, job[j].mode) /\ steps \in Seq(StepNames)
  BY <1>1, <1>2, StepsPlaced DEF WellPlaced
<1>4. rest \in Seq(StepNames) /\ Len(rest) = Left(j) - 1 /\ IsEnd(rest, steps)
  <2>. HIDE DEF steps
  <2>. QED
    BY <1>1, <1>2, <1>3, EndTail DEF Left
<1>5. ~IsRepair(rest) /\ ~MayRevoke(job[j])
  BY <1>1, <1>2, <1>3, <1>4, NoRepairInMode DEF MayRevoke
<1>6. rest = <<>> <=> Left(j) = 1
  <2>1. rest = <<>> <=> Len(rest) = 0
    BY <1>4, EmptySeq
  <2>2. \A n \in Nat \ {0} : n - 1 = 0 <=> n = 1
    OBVIOUS
  <2>. QED
    BY <1>1, <1>4, <2>1, <2>2
<1>7. /\ q \in JobRecords
      /\ q.todo = rest /\ q.outcome = (IF Left(j) = 1 THEN "done" ELSE "running")
      /\ q.mode = r.mode /\ q.run = r.run /\ q.target = r.target
      /\ q.snap = r.snap /\ q.expected = r.expected
      /\ q.dump = r.dump /\ q.fetched = r.fetched /\ q.frozenAt = r.frozenAt
  <2>. HIDE DEF rest
  <2>. QED
    BY <1>4, <1>6 DEF JobRecords
<1>8. job' = [job EXCEPT ![j] = q]
  BY DEF Advance, Proceed
<1>. HIDE DEF q, rest, steps
<1>9. job' \in [Jobs -> JobRecords] /\ job'[j] = q /\ \A k \in Jobs \ {j} : job'[k] = job[k]
  BY <1>2, <1>7, <1>8 DEF TypeOK
<1>10. /\ Left(j) = 1 => Len(rest) = 0
       /\ Left(j) # 1 => Len(rest) > 0
  <2>1. \A n \in Nat \ {0} : (n = 1 => n - 1 = 0) /\ (n # 1 => n - 1 > 0)
    OBVIOUS
  <2>. QED
    BY <2>1, <1>1, <1>4
<1>11. InSequence'
  <2>. SUFFICES ASSUME NEW k \in Jobs
                PROVE  /\ job'[k].outcome # "idle" =>
                              /\ job'[k].mode \in AllModes /\ job'[k].run \in Runs
                              /\ job'[k].mode = "RecoverRehearsal" => helper = "economy"
                              /\ job'[k].target \in TargetsOf(job'[k].mode)
                       /\ job'[k].outcome \in {"running", "done"} =>
                              \/ IsEnd(job'[k].todo, StepsOf(job'[k].mode))
                              \/ /\ IsRepair(job'[k].todo) /\ helper = "economy"
                                 /\ job'[k].mode \in {"Rehearse", "RecoverRehearsal"}
                       /\ job'[k].outcome = "running" => Len(job'[k].todo) > 0
                       /\ job'[k].outcome = "done" => Len(job'[k].todo) = 0
                       /\ job'[k].outcome = "unwinding" =>
                              Len(job'[k].todo) = 1 /\ job'[k].todo[1] = "revoke"
    BY DEF InSequence, Ordered, StepsOf
  <2>1. CASE k = j
    <3>1. job'[k] = q
      BY <2>1, <1>9
    <3>2. IsEnd(job'[k].todo, StepsOf(job'[k].mode))
      BY <3>1, <1>4, <1>7 DEF steps
    <3>3. /\ job'[k].outcome = "running" => Len(job'[k].todo) > 0
          /\ job'[k].outcome = "done" => Len(job'[k].todo) = 0
          /\ job'[k].outcome \in {"running", "done"}
      BY <3>1, <1>7, <1>10
    <3>. QED
      BY <3>1, <3>2, <3>3, <1>1, <1>7
  <2>2. CASE k # j
    BY <2>2, <1>2, <1>9 DEF InSequence, Ordered
  <2>. QED
    BY <2>1, <2>2
<1>. QED
  BY <1>4, <1>5, <1>7, <1>9, <1>11

\* A step of one job: all but what is stored follows from what the step adds to
\* what its job has established, and from what it leaves to the others.
LEMMA JobStep ==
    ASSUME CopyInv, NEW j \in Jobs, NEW step, At(j, step),
           step \notin {"grant", "alter_schema", "revoke"},
           NEW r \in JobRecords, r.outcome = "running", r.mode = job[j].mode,
           r.run = job[j].run, r.target = job[j].target, r.todo = job[j].todo,
           Advance(j, r), UNCHANGED <<helper, source, writer>>,
           backup' \in [Runs -> Backups], target' \in [Targets -> Databases],
           Fills(backup, backup'),
           \A name \in Targets : Grows(target[name], target'[name])
                                 /\ (target'[name].granted => target[name].granted),
           Established(r, helper, Left(j) - 1, source, writer, backup', target'[r.target])
    PROVE  TypeOK' /\ InSequence' /\ JobsEstablish' /\ GrantsAreTemporary'
<1>1. TypeOK /\ InSequence /\ JobsEstablish /\ GrantsAreTemporary
  BY DEF CopyInv
<1>2. /\ job' \in [Jobs -> JobRecords] /\ InSequence'
      /\ \A k \in Jobs \ {j} : job'[k] = job[k]
      /\ ~MayRevoke(job[j]) /\ ~IsRepair(job'[j].todo)
      /\ Len(job'[j].todo) = Left(j) - 1
      /\ job'[j].mode = r.mode /\ job'[j].run = r.run /\ job'[j].target = r.target
      /\ job'[j].snap = r.snap /\ job'[j].expected = r.expected
      /\ job'[j].dump = r.dump /\ job'[j].fetched = r.fetched
      /\ job'[j].frozenAt = r.frozenAt
  BY Advanced
<1>3. TypeOK'
  BY <1>1, <1>2 DEF TypeOK
<1>4. GrantsAreTemporary'
  <2>1. ASSUME NEW name \in Targets, target'[name].granted
        PROVE  \E k \in Jobs : job'[k].target = name /\ MayRevoke(job'[k])
    <3>1. PICK k \in Jobs : job[k].target = name /\ MayRevoke(job[k])
      BY <1>1, <2>1, Temporary
    <3>. QED
      BY <3>1, <1>2
  <2>. QED
    BY <2>1, TemporaryNext
<1>5. JobsEstablish'
  <2>. SUFFICES ASSUME NEW k \in Jobs, job'[k].outcome \in {"running", "done"}
                PROVE  Established(job'[k], helper, Place(job'[k].todo), source, writer,
                                   backup', target'[job'[k].target])
    BY DEF JobsEstablish, Succeeding, Target
  <2>1. CASE k = j
    <3>1. Place(job'[k].todo) = Left(j) - 1
      BY <2>1, <1>2 DEF Place
    <3>2. Established(r, helper, Place(job'[k].todo), source, writer, backup',
                      target'[job'[k].target])
      BY <3>1, <2>1, <1>2
    <3>. QED
      BY <3>2, <2>1, <1>2, SameFacts
  <2>2. CASE k # j
    <3>1. job'[k] = job[k] /\ job[k] \in JobRecords /\ job[k].outcome \in {"running", "done"}
      BY <2>2, <1>1, <1>2 DEF TypeOK
    <3>2. job[k].run \in Runs /\ job[k].target \in Targets
      BY <3>1, <1>1 DEF InSequence, Ordered, TargetsOf, Targets, AllModes
    <3>3. Established(job[k], helper, Place(job[k].todo), source, writer, backup,
                      target[job[k].target])
      BY <3>1, <1>1 DEF JobsEstablish, Succeeding, Target
    <3>4. Place(job[k].todo) \in Nat
      BY <3>1 DEF Place, JobRecords
    <3>5. /\ helper \in {"economy", "interim"} /\ source \in Images /\ writer \in Writers
          /\ backup \in [Runs -> Backups]
          /\ target[job[k].target] \in Databases /\ target'[job[k].target] \in Databases
      BY <3>2, <1>1 DEF TypeOK
    <3>6. Passes(source, writer, source, writer)
      BY <3>5 DEF Passes, Images
    <3>7. Grows(target[job[k].target], target'[job[k].target])
      BY <3>2
    <3>. QED
      BY <3>1, <3>2, <3>3, <3>4, <3>5, <3>6, <3>7, Framed
  <2>. QED
    BY <2>1, <2>2
<1>. QED
  BY <1>2, <1>3, <1>4, <1>5

\* A step that changes neither the container nor a destination.
LEMMA ReadStep ==
    ASSUME CopyInv, NEW j \in Jobs, NEW step, At(j, step),
           step \notin {"grant", "alter_schema", "revoke"},
           NEW r \in JobRecords, r.outcome = "running", r.mode = job[j].mode,
           r.run = job[j].run, r.target = job[j].target, r.todo = job[j].todo,
           Advance(j, r), UNCHANGED <<helper, source, writer, backup, target>>,
           Established(r, helper, Left(j) - 1, source, writer, backup, Target(j))
    PROVE  CopyInv'
<1>1. TypeOK /\ BackupIsExact /\ TargetIsItsBackup
  BY DEF CopyInv
<1>2. /\ backup' \in [Runs -> Backups] /\ target' \in [Targets -> Databases]
      /\ Fills(backup, backup')
      /\ \A name \in Targets : Grows(target[name], target'[name])
                               /\ (target'[name].granted => target[name].granted)
  BY <1>1 DEF TypeOK, Fills, Grows
<1>3. Established(r, helper, Left(j) - 1, source, writer, backup', target'[r.target])
  BY DEF Target
<1>4. TypeOK' /\ InSequence' /\ JobsEstablish' /\ GrantsAreTemporary'
  BY <1>2, <1>3, JobStep
<1>5. BackupIsExact' /\ TargetIsItsBackup'
  BY <1>1 DEF BackupIsExact, TargetIsItsBackup
<1>. QED
  BY <1>4, <1>5 DEF CopyInv

-----------------------------------------------------------------------------
(* From one step to the next: what is not due yet needs no more.           *)

LEMMA CollectedOn ==
    ASSUME NEW r, NEW q, NEW p \in Int, NEW src, Collected(r, p, src),
           q.mode = r.mode, q.expected = r.expected, q.dump = r.dump,
           p \notin {DumpAt(r.mode), DumpAt(r.mode) + 1, DumpAt(r.mode) + 2},
           r.mode = "FinalCopy" => p # 8
    PROVE  Collected(q, p - 1, src)
BY DEF Collected, DumpAt

LEMMA KeptOn ==
    ASSUME NEW r, NEW q, NEW p \in Int, NEW b, Kept(r, p, b),
           q.mode = r.mode, q.run = r.run, q.target = r.target,
           q.expected = r.expected, q.dump = r.dump, q.fetched = r.fetched,
           p \notin {4, 3, 1}
    PROVE  Kept(q, p - 1, b)
<1>1. /\ p - 1 <= 3 => p <= 3
      /\ p - 1 <= 2 => p <= 2
      /\ p - 1 <= 0 => p <= 0
  OBVIOUS
<1>. QED
  BY <1>1 DEF Kept

LEMMA StandingOn ==
    ASSUME NEW r, NEW q, NEW h, NEW n \in Nat, NEW t, Standing(r, h, n, t),
           q.mode = r.mode, q.run = r.run,
           \/ r.mode \in {"Inspect", "Verify"}
           \/ /\ n # RestoreAt(r.mode) + 1
              /\ n - 1 \notin RoleMade(h, r.mode) \/ n \in RoleMade(h, r.mode)
    PROVE  Standing(q, h, n - 1, t)
<1>1. n - 1 <= RestoreAt(r.mode) /\ n # RestoreAt(r.mode) + 1 => n <= RestoreAt(r.mode)
  BY DEF RestoreAt
<1>. QED
  BY <1>1 DEF Standing, Owned

LEMMA Progress ==
    ASSUME NEW q, NEW h \in {"economy", "interim"}, NEW n \in Nat,
           NEW src, NEW w, NEW b, NEW t,
           q.mode = "Inspect" /\ n = 2 => q.snap \in 0..MaxWrites,
           q.mode \in {"Rehearse", "FinalCopy"} =>
               /\ Collected(q, n - AfterDownload(h, q.mode) - 1, src)
               /\ Kept(q, n - AfterDownload(h, q.mode) - 1, b),
           q.mode = "RecoverRehearsal" => Recovering(q, n - 1, b),
           Standing(q, h, n - 1, t),
           q.mode = "FinalCopy" => Compared(q, n - 1, src, w, t)
    PROVE  Established(q, h, n - 1, src, w, b, t)
<1>1. n - 1 - AfterDownload(h, q.mode) = n - AfterDownload(h, q.mode) - 1
  BY DEF AfterDownload
<1>2. n - 1 = 1 => n = 2
  OBVIOUS
<1>. QED
  BY <1>1, <1>2 DEF Established

-----------------------------------------------------------------------------
(* The steps that read.                                                    *)

LEMMA RequireFrozenStep ==
    ASSUME CopyInv, NEW j \in Jobs, RequireFrozen(j)
    PROVE  CopyInv'
<1>. DEFINE r == [job[j] EXCEPT !.frozenAt = writer.connects]
            n == Left(j)
            t == Target(j)
            p == n - AfterDownload(helper, r.mode)
<1>0. At(j, "frozen") /\ Advance(j, r) /\ ~writer.connected
      /\ UNCHANGED <<helper, source, writer, backup, target>>
  BY DEF RequireFrozen
<1>1. /\ job[j] \in JobRecords /\ job[j].outcome = "running"
      /\ n \in Nat \ {0} /\ Placed("frozen", helper, job[j].mode, n)
      /\ Established(job[j], helper, n, source, writer, backup, t)
      /\ writer \in Writers /\ helper \in {"economy", "interim"}
  BY <1>0, AtFacts DEF CopyInv, TypeOK
<1>2. /\ r \in JobRecords /\ r.outcome = "running" /\ r.mode = job[j].mode
      /\ r.run = job[j].run /\ r.target = job[j].target /\ r.todo = job[j].todo
      /\ r.snap = job[j].snap /\ r.expected = job[j].expected /\ r.dump = job[j].dump
      /\ r.fetched = job[j].fetched /\ r.frozenAt = writer.connects
  BY <1>1 DEF JobRecords, Writers
<1>. HIDE DEF r, n, t
<1>3. r.mode = "FinalCopy" /\ (p \in {0, 5, 9, 13} \/ n = 3)
  BY <1>1, <1>2 DEF Placed
<1>4. /\ p \in Int /\ p \notin {10, 11, 12, 8, 4, 3, 1}
      /\ n # 6 /\ (n - 1 > 3 \/ n = 3)
      /\ n - 1 \notin RoleMade(helper, r.mode)
  BY <1>1, <1>3 DEF AfterDownload, RoleMade
<1>5. Collected(job[j], p, source) /\ Kept(job[j], p, backup)
      /\ Standing(job[j], helper, n, t) /\ Compared(job[j], n, source, writer, t)
  BY <1>1, <1>2, <1>3 DEF Established
<1>. HIDE DEF p
<1>6. Collected(r, p - 1, source)
  <2>1. p \notin {DumpAt(job[j].mode), DumpAt(job[j].mode) + 1, DumpAt(job[j].mode) + 2}
    BY <1>2, <1>3, <1>4 DEF DumpAt
  <2>. QED
    BY <2>1, <1>2, <1>4, <1>5, CollectedOn
<1>7. Kept(r, p - 1, backup)
  BY <1>2, <1>4, <1>5, KeptOn
<1>8. Standing(r, helper, n - 1, t)
  <2>1. n # RestoreAt(job[j].mode) + 1
    BY <1>2, <1>3, <1>4 DEF RestoreAt
  <2>. QED
    BY <2>1, <1>1, <1>2, <1>4, <1>5, StandingOn
<1>9. Compared(r, n - 1, source, writer, t)
  BY <1>0, <1>1, <1>2, <1>4, <1>5 DEF Compared, Counted, Writers
<1>10. Established(r, helper, n - 1, source, writer, backup, t)
  BY <1>1, <1>3, <1>6, <1>7, <1>8, <1>9, Progress DEF p
<1>. QED
  BY <1>0, <1>2, <1>10, ReadStep DEF n, t

LEMMA ExportSnapshotStep ==
    ASSUME CopyInv, NEW j \in Jobs, ExportSnapshot(j)
    PROVE  CopyInv'
<1>. DEFINE r == [job[j] EXCEPT !.snap = source.rows]
            n == Left(j)
            t == Target(j)
            p == n - AfterDownload(helper, r.mode)
            d == DumpAt(r.mode)
<1>0. At(j, "snapshot") /\ Advance(j, r)
      /\ UNCHANGED <<helper, source, writer, backup, target>>
  BY DEF ExportSnapshot
<1>1. /\ job[j] \in JobRecords /\ job[j].outcome = "running"
      /\ n \in Nat \ {0} /\ Placed("snapshot", helper, job[j].mode, n)
      /\ Established(job[j], helper, n, source, writer, backup, t)
      /\ source.rows \in 0..MaxWrites /\ helper \in {"economy", "interim"}
  BY <1>0, AtFacts DEF CopyInv, TypeOK, Images
<1>2. /\ r \in JobRecords /\ r.outcome = "running" /\ r.mode = job[j].mode
      /\ r.run = job[j].run /\ r.target = job[j].target /\ r.todo = job[j].todo
      /\ r.snap = source.rows /\ r.expected = job[j].expected /\ r.dump = job[j].dump
      /\ r.fetched = job[j].fetched /\ r.frozenAt = job[j].frozenAt
  BY <1>1 DEF JobRecords
<1>. HIDE DEF r, n, t
<1>3. \/ r.mode = "Inspect" /\ n = 2
      \/ r.mode \in {"Rehearse", "FinalCopy"} /\ p = d + 2
      \/ r.mode = "FinalCopy" /\ (p = 7 \/ n = 2)
  BY <1>1, <1>2 DEF Placed
<1>4. Standing(job[j], helper, n, t)
  BY <1>1 DEF Established
<1>5. CASE r.mode = "Inspect"
  <2>1. Standing(r, helper, n - 1, t)
    BY <1>1, <1>2, <1>4, <1>5, StandingOn
  <2>. QED
    <3>1. Established(r, helper, n - 1, source, writer, backup, t)
      BY <1>1, <1>2, <1>5, <2>1, Progress
    <3>. QED
      BY <1>0, <1>2, <3>1, ReadStep DEF n, t
<1>6. CASE r.mode \in {"Rehearse", "FinalCopy"}
  <2>1. /\ p \in Int /\ p \notin {4, 3, 1, 8} /\ d \in {5, 10}
        /\ p = d + 2 \/ p \notin {d, d + 1, d + 2}
        /\ r.mode = "FinalCopy" => d = 10
        /\ n # RestoreAt(r.mode) + 1
        /\ n - 1 \notin RoleMade(helper, r.mode) \/ n \in RoleMade(helper, r.mode)
        /\ r.mode = "FinalCopy" => n - 1 > 3 \/ n = 2
    BY <1>1, <1>3, <1>6 DEF AfterDownload, RoleMade, RestoreAt, DumpAt
  <2>2. /\ Collected(job[j], p, source) /\ Kept(job[j], p, backup)
        /\ r.mode = "FinalCopy" => Compared(job[j], n, source, writer, t)
    BY <1>1, <1>2, <1>6 DEF Established
  <2>. HIDE DEF p
  <2>3. Collected(r, p - 1, source)
    <3>1. CASE p = d + 2
      BY <3>1, <1>1, <1>2, <1>6, <2>1 DEF Collected
    <3>2. CASE p \notin {d, d + 1, d + 2}
      BY <3>2, <1>2, <2>1, <2>2, CollectedOn
    <3>. QED
      BY <2>1, <3>1, <3>2
  <2>4. Kept(r, p - 1, backup)
    BY <1>2, <2>1, <2>2, KeptOn
  <2>5. Standing(r, helper, n - 1, t)
    BY <1>1, <1>2, <1>4, <2>1, StandingOn
  <2>6. r.mode = "FinalCopy" => Compared(r, n - 1, source, writer, t)
    BY <1>1, <1>2, <2>1, <2>2 DEF Compared, Counted
  <2>7. Established(r, helper, n - 1, source, writer, backup, t)
    BY <1>1, <1>6, <2>3, <2>4, <2>5, <2>6, Progress DEF p
  <2>. QED
    BY <1>0, <1>2, <2>7, ReadStep DEF n, t
<1>. QED
  BY <1>3, <1>5, <1>6

LEMMA ManifestStep ==
    ASSUME CopyInv, NEW j \in Jobs, Manifest(j)
    PROVE  CopyInv'
<1>. DEFINE image == ManifestNow(j)
            r == [job[j] EXCEPT !.expected = image,
                                !.snap = IF job[j].mode = "Inspect" THEN None ELSE @]
            n == Left(j)
            t == Target(j)
            p == n - AfterDownload(helper, r.mode)
            d == DumpAt(r.mode)
<1>0. At(j, "manifest") /\ Advance(j, r)
      /\ UNCHANGED <<helper, source, writer, backup, target>>
  BY DEF Manifest
<1>1. /\ job[j] \in JobRecords /\ job[j].outcome = "running"
      /\ n \in Nat \ {0} /\ Placed("manifest", helper, job[j].mode, n)
      /\ Established(job[j], helper, n, source, writer, backup, t)
      /\ source.seq \in 0..MaxWrites /\ helper \in {"economy", "interim"}
  BY <1>0, AtFacts DEF CopyInv, TypeOK, Images
<1>. HIDE DEF n, t
<1>2. \/ job[j].mode = "Inspect" /\ n = 1
      \/ /\ job[j].mode \in {"Rehearse", "FinalCopy"}
         /\ n - AfterDownload(helper, job[j].mode) = DumpAt(job[j].mode) + 1
  BY <1>1 DEF Placed
<1>3. job[j].snap \in 0..MaxWrites
  <2>1. CASE job[j].mode = "Inspect"
    BY <1>1, <1>2, <2>1 DEF Established
  <2>2. CASE job[j].mode # "Inspect"
    BY <1>1, <1>2, <2>2 DEF Established, Collected, DumpAt
  <2>. QED
    BY <2>1, <2>2
<1>4. image \in Images /\ image.rows = job[j].snap /\ image.seq = source.seq
  BY <1>1, <1>3 DEF ManifestNow, Images
<1>. HIDE DEF image
<1>5. /\ r \in JobRecords /\ r.outcome = "running" /\ r.mode = job[j].mode
      /\ r.run = job[j].run /\ r.target = job[j].target /\ r.todo = job[j].todo
      /\ r.expected = image /\ r.dump = job[j].dump
      /\ r.mode # "Inspect" => r.snap = job[j].snap
      /\ r.fetched = job[j].fetched /\ r.frozenAt = job[j].frozenAt
  BY <1>1, <1>4 DEF JobRecords
<1>. HIDE DEF r
<1>6. Standing(job[j], helper, n, t)
  BY <1>1 DEF Established
<1>7. CASE r.mode = "Inspect"
  <2>1. Standing(r, helper, n - 1, t)
    BY <1>1, <1>5, <1>6, <1>7, StandingOn
  <2>2. n # 2
    BY <1>2, <1>5, <1>7
  <2>3. Established(r, helper, n - 1, source, writer, backup, t)
    BY <1>1, <1>5, <1>7, <2>1, <2>2, Progress
  <2>. QED
    BY <1>0, <1>5, <2>3, ReadStep DEF n, t
<1>8. CASE r.mode \in {"Rehearse", "FinalCopy"}
  <2>1. /\ p \in Int /\ d \in {5, 10} /\ p = d + 1
        /\ r.mode = "FinalCopy" => d = 10
        /\ n # RestoreAt(r.mode) + 1 /\ n - 1 > 3
        /\ n - 1 \notin RoleMade(helper, r.mode)
    BY <1>1, <1>2, <1>5, <1>8 DEF AfterDownload, RoleMade, RestoreAt, DumpAt
  <2>. HIDE DEF p
  <2>3. Collected(r, p - 1, source)
    BY <1>1, <1>3, <1>4, <1>5, <1>8, <2>1 DEF Collected
  <2>4. Kept(r, p - 1, backup)
    BY <2>1 DEF Kept
  <2>5. Standing(r, helper, n - 1, t)
    BY <1>1, <1>5, <1>6, <2>1, StandingOn
  <2>6. Compared(r, n - 1, source, writer, t)
    BY <1>1, <2>1 DEF Compared
  <2>7. Established(r, helper, n - 1, source, writer, backup, t)
    BY <1>1, <1>8, <2>3, <2>4, <2>5, <2>6, Progress DEF p
  <2>. QED
    BY <1>0, <1>5, <2>7, ReadStep DEF n, t
<1>. QED
  BY <1>2, <1>5, <1>7, <1>8

LEMMA DumpStep ==
    ASSUME CopyInv, NEW j \in Jobs, Dump(j)
    PROVE  CopyInv'
<1>. DEFINE image == ManifestNow(j)
            r == [job[j] EXCEPT !.dump = image,
                                !.snap = IF job[j].mode = "FinalCopy" THEN @ ELSE None]
            n == Left(j)
            t == Target(j)
            p == n - AfterDownload(helper, r.mode)
            d == DumpAt(r.mode)
<1>0. At(j, "dump") /\ Advance(j, r)
      /\ UNCHANGED <<helper, source, writer, backup, target>>
  BY DEF Dump
<1>1. /\ job[j] \in JobRecords /\ job[j].outcome = "running"
      /\ n \in Nat \ {0} /\ Placed("dump", helper, job[j].mode, n)
      /\ Established(job[j], helper, n, source, writer, backup, t)
      /\ source.seq \in 0..MaxWrites /\ helper \in {"economy", "interim"}
  BY <1>0, AtFacts DEF CopyInv, TypeOK, Images
<1>. HIDE DEF n, t
<1>2. /\ job[j].mode \in {"Rehearse", "FinalCopy"}
      /\ n - AfterDownload(helper, job[j].mode) = DumpAt(job[j].mode)
  BY <1>1 DEF Placed
<1>3. /\ job[j].snap \in 0..MaxWrites
      /\ job[j].expected \in Images /\ job[j].expected.seq <= source.seq
      /\ job[j].expected.rows = job[j].snap
  BY <1>1, <1>2 DEF Established, Collected, DumpAt
<1>4. image \in Images /\ image.rows = job[j].snap /\ image.seq = source.seq
  BY <1>1, <1>3 DEF ManifestNow, Images
<1>. HIDE DEF image
<1>5. /\ r \in JobRecords /\ r.outcome = "running" /\ r.mode = job[j].mode
      /\ r.run = job[j].run /\ r.target = job[j].target /\ r.todo = job[j].todo
      /\ r.expected = job[j].expected /\ r.dump = image
      /\ r.fetched = job[j].fetched /\ r.frozenAt = job[j].frozenAt
  BY <1>1, <1>4 DEF JobRecords
<1>. HIDE DEF r
<1>6. Standing(job[j], helper, n, t)
  BY <1>1 DEF Established
<1>7. /\ p \in Int /\ d \in {5, 10} /\ p = d
      /\ r.mode = "FinalCopy" => d = 10
      /\ n # RestoreAt(r.mode) + 1 /\ n - 1 > 3
      /\ n - 1 \notin RoleMade(helper, r.mode)
  BY <1>1, <1>2, <1>5 DEF AfterDownload, RoleMade, RestoreAt, DumpAt
<1>. HIDE DEF p
<1>8. Collected(r, p - 1, source)
  BY <1>1, <1>3, <1>4, <1>5, <1>7 DEF Collected
<1>9. Kept(r, p - 1, backup)
  BY <1>7 DEF Kept
<1>10. Standing(r, helper, n - 1, t)
  BY <1>1, <1>5, <1>6, <1>7, StandingOn
<1>11. Compared(r, n - 1, source, writer, t)
  BY <1>1, <1>7 DEF Compared
<1>12. Established(r, helper, n - 1, source, writer, backup, t)
  BY <1>1, <1>2, <1>5, <1>8, <1>9, <1>10, <1>11, Progress DEF p
<1>. QED
  BY <1>0, <1>5, <1>12, ReadStep DEF n, t

LEMMA CompareStep ==
    ASSUME CopyInv, NEW j \in Jobs, Compare(j)
    PROVE  CopyInv'
<1>. DEFINE r == [job[j] EXCEPT !.snap = None]
            n == Left(j)
            t == Target(j)
            p == n - AfterDownload(helper, r.mode)
<1>0. /\ At(j, "compare") /\ Advance(j, r)
      /\ UNCHANGED <<helper, source, writer, backup, target>>
      /\ job[j].expected.rows = job[j].snap /\ job[j].expected.seq = source.seq
  BY DEF Compare, RequireSame, ManifestNow
<1>1. /\ job[j] \in JobRecords /\ job[j].outcome = "running"
      /\ n \in Nat \ {0} /\ Placed("compare", helper, job[j].mode, n)
      /\ Established(job[j], helper, n, source, writer, backup, t)
      /\ source \in Images /\ helper \in {"economy", "interim"}
  BY <1>0, AtFacts DEF CopyInv, TypeOK
<1>2. /\ r \in JobRecords /\ r.outcome = "running" /\ r.mode = job[j].mode
      /\ r.run = job[j].run /\ r.target = job[j].target /\ r.todo = job[j].todo
      /\ r.expected = job[j].expected /\ r.dump = job[j].dump
      /\ r.fetched = job[j].fetched /\ r.frozenAt = job[j].frozenAt
  BY <1>1 DEF JobRecords
<1>. HIDE DEF r, n, t
<1>3. r.mode = "FinalCopy" /\ (p \in {6, 8} \/ n = 1)
  BY <1>1, <1>2 DEF Placed
<1>4. /\ p \in Int /\ p \notin {10, 11, 12, 4, 3, 1} /\ p < 10
      /\ n # 6 /\ (n - 1 > 3 \/ n = 1)
      /\ n - 1 \notin RoleMade(helper, r.mode)
  BY <1>1, <1>3 DEF AfterDownload, RoleMade
<1>5. /\ Collected(job[j], p, source) /\ Kept(job[j], p, backup)
      /\ Standing(job[j], helper, n, t) /\ Compared(job[j], n, source, writer, t)
  BY <1>1, <1>2, <1>3 DEF Established
<1>. HIDE DEF p
<1>6. Collected(r, p - 1, source)
  <2>0. DumpAt(job[j].mode) = 10 /\ DumpAt(r.mode) = 10
    BY <1>2, <1>3 DEF DumpAt
  <2>1. CASE p = 8
    <3>1. /\ r.expected \in Images /\ r.dump \in Images /\ r.dump.rows = r.expected.rows
          /\ r.expected.seq <= r.dump.seq /\ r.dump.seq <= source.seq
      BY <1>2, <1>4, <1>5, <2>0, <2>1 DEF Collected
    <3>2. r.expected.seq = r.dump.seq
      BY <1>0, <1>1, <1>2, <3>1 DEF Images
    <3>3. r.expected = r.dump
      BY <3>1, <3>2 DEF Images
    <3>4. r.expected.seq <= source.seq
      BY <1>0, <1>1, <1>2 DEF Images
    <3>. QED
      BY <2>0, <2>1, <3>1, <3>3, <3>4 DEF Collected
  <2>2. CASE p # 8
    <3>1. p \notin {DumpAt(job[j].mode), DumpAt(job[j].mode) + 1, DumpAt(job[j].mode) + 2}
      BY <2>0, <1>4
    <3>. QED
      BY <3>1, <2>2, <1>2, <1>4, <1>5, CollectedOn
  <2>. QED
    BY <2>1, <2>2
<1>7. Kept(r, p - 1, backup)
  BY <1>2, <1>4, <1>5, KeptOn
<1>8. Standing(r, helper, n - 1, t)
  <2>1. n # RestoreAt(job[j].mode) + 1
    BY <1>2, <1>3, <1>4 DEF RestoreAt
  <2>. QED
    BY <2>1, <1>1, <1>2, <1>4, <1>5, StandingOn
<1>9. Compared(r, n - 1, source, writer, t)
  <2>1. CASE n = 1
    <3>1. /\ t.data = r.expected /\ Counted(r.frozenAt, writer)
          /\ r.frozenAt = writer.connects => job[j].snap = source.rows
      BY <1>2, <1>5, <2>1 DEF Compared
    <3>2. r.expected \in Images
      <4>1. DumpAt(job[j].mode) = 10
        BY <1>2, <1>3 DEF DumpAt
      <4>. QED
        BY <4>1, <1>2, <1>4, <1>5 DEF Collected
    <3>3. r.frozenAt = writer.connects => r.expected = source
      BY <3>1, <3>2, <1>0, <1>1, <1>2 DEF Images
    <3>. QED
      BY <2>1, <3>1, <3>3 DEF Compared
  <2>2. CASE n - 1 > 3
    BY <1>1, <2>2 DEF Compared
  <2>. QED
    BY <1>4, <2>1, <2>2
<1>10. Established(r, helper, n - 1, source, writer, backup, t)
  BY <1>1, <1>3, <1>6, <1>7, <1>8, <1>9, Progress DEF p
<1>. QED
  BY <1>0, <1>2, <1>10, ReadStep DEF n, t

\* A step that only checks: nothing is due that was not before.
LEMMA CheckStep ==
    ASSUME CopyInv, NEW j \in Jobs, NEW step, At(j, step),
           step \in {"read_manifest", "absent", "empty_foundation"},
           Advance(j, job[j]), UNCHANGED <<helper, source, writer, backup, target>>
    PROVE  CopyInv'
<1>. DEFINE r == job[j]
            n == Left(j)
            t == Target(j)
            p == n - AfterDownload(helper, r.mode)
<1>1. /\ job[j] \in JobRecords /\ job[j].outcome = "running"
      /\ n \in Nat \ {0} /\ Placed(step, helper, job[j].mode, n)
      /\ Established(job[j], helper, n, source, writer, backup, t)
      /\ helper \in {"economy", "interim"}
  BY AtFacts DEF CopyInv, TypeOK
<1>. HIDE DEF n, t
<1>2. \/ r.mode = "Inspect" /\ n = 3
      \/ r.mode = "Rehearse" /\ p \in {0, 8, 2}
      \/ r.mode = "FinalCopy" /\ p \in {-1, 14, 2}
  BY <1>1 DEF Placed
<1>3. Standing(r, helper, n, t)
  BY <1>1 DEF Established
<1>4. CASE r.mode = "Inspect"
  <2>1. Standing(r, helper, n - 1, t)
    BY <1>1, <1>3, <1>4, StandingOn
  <2>2. n # 2
    BY <1>2, <1>4
  <2>3. Established(r, helper, n - 1, source, writer, backup, t)
    BY <1>1, <1>4, <2>1, <2>2, Progress
  <2>. QED
    BY <1>1, <2>3, ReadStep DEF n, t
<1>5. CASE r.mode \in {"Rehearse", "FinalCopy"}
  <2>1. /\ p \in Int /\ p \notin {4, 3, 1}
        /\ p \notin {DumpAt(r.mode), DumpAt(r.mode) + 1, DumpAt(r.mode) + 2}
        /\ r.mode = "FinalCopy" => p # 8
        /\ n # RestoreAt(r.mode) + 1 /\ n - 1 > 3
        /\ n - 1 \notin RoleMade(helper, r.mode) \/ n \in RoleMade(helper, r.mode)
    BY <1>1, <1>2, <1>5 DEF AfterDownload, RoleMade, RestoreAt, DumpAt
  <2>2. Collected(r, p, source) /\ Kept(r, p, backup)
    BY <1>1, <1>5 DEF Established
  <2>. HIDE DEF p
  <2>3. Collected(r, p - 1, source)
    BY <2>1, <2>2, CollectedOn
  <2>4. Kept(r, p - 1, backup)
    BY <2>1, <2>2, KeptOn
  <2>5. Standing(r, helper, n - 1, t)
    BY <1>1, <1>3, <2>1, StandingOn
  <2>6. Compared(r, n - 1, source, writer, t)
    BY <1>1, <2>1 DEF Compared
  <2>7. Established(r, helper, n - 1, source, writer, backup, t)
    BY <1>1, <1>5, <2>3, <2>4, <2>5, <2>6, Progress DEF p
  <2>. QED
    BY <1>1, <2>7, ReadStep DEF n, t
<1>. QED
  BY <1>2, <1>4, <1>5

LEMMA ChecksStep ==
    ASSUME CopyInv, NEW j \in Jobs, ReadManifest(j) \/ RequireAbsent(j) \/ EmptyFoundation(j)
    PROVE  CopyInv'
<1>1. CASE ReadManifest(j)
  BY <1>1, CheckStep DEF ReadManifest
<1>2. CASE RequireAbsent(j)
  BY <1>2, CheckStep DEF RequireAbsent
<1>3. CASE EmptyFoundation(j)
  BY <1>3, CheckStep DEF EmptyFoundation
<1>. QED
  BY <1>1, <1>2, <1>3

\* Nothing is asked of a Verify.
LEMMA VerifyEstablishes ==
    ASSUME NEW q, q.mode = "Verify", NEW h, NEW n, NEW src, NEW w, NEW b, NEW t
    PROVE  Established(q, h, n, src, w, b, t)
BY DEF Established, Standing

LEMMA ReadRecordStep ==
    ASSUME CopyInv, NEW j \in Jobs, ReadRecord(j)
    PROVE  CopyInv'
<1>. DEFINE m == Stored(j).manifest
            r == [job[j] EXCEPT !.expected = m.expected, !.dump = m.dump]
            n == Left(j)
            t == Target(j)
<1>0. /\ At(j, "read_record") /\ Advance(j, r)
      /\ UNCHANGED <<helper, source, writer, backup, target>>
      /\ m # None /\ m.target = job[j].target
  BY DEF ReadRecord
<1>1. /\ job[j] \in JobRecords /\ job[j].outcome = "running"
      /\ n \in Nat \ {0} /\ Placed("read_record", helper, job[j].mode, n)
      /\ Established(job[j], helper, n, source, writer, backup, t)
      /\ Stored(j) \in Backups /\ helper \in {"economy", "interim"}
  BY <1>0, AtFacts DEF CopyInv, TypeOK
<1>2. m \in Records /\ m = backup[job[j].run].manifest
  BY <1>0, <1>1 DEF Backups, Stored
<1>3. m.expected \in Images /\ m.dump \in Images
  BY <1>2 DEF Records
<1>. HIDE DEF m
<1>4. /\ r \in JobRecords /\ r.outcome = "running" /\ r.mode = job[j].mode
      /\ r.run = job[j].run /\ r.target = job[j].target /\ r.todo = job[j].todo
  BY <1>1, <1>3 DEF JobRecords
<1>. HIDE DEF r, n, t
<1>5. Established(r, helper, n - 1, source, writer, backup, t)
  <2>1. CASE r.mode = "Verify"
    BY <2>1, VerifyEstablishes
  <2>2. CASE r.mode = "RecoverRehearsal" /\ n = 5
    <3>1. Recovering(r, n - 1, backup)
      BY <2>2, <1>0, <1>2, <1>4 DEF Recovering
    <3>2. Standing(r, helper, n - 1, t)
      BY <2>2 DEF Standing, RestoreAt
    <3>. QED
      BY <2>2, <1>1, <3>1, <3>2, Progress
  <2>. QED
    BY <2>1, <2>2, <1>1, <1>4 DEF Placed
<1>. QED
  BY <1>0, <1>4, <1>5, ReadStep DEF n, t

LEMMA DownloadDumpStep ==
    ASSUME CopyInv, NEW j \in Jobs, DownloadDump(j)
    PROVE  CopyInv'
<1>. DEFINE image == Stored(j).dump
            r == [job[j] EXCEPT !.fetched = image]
            n == Left(j)
            t == Target(j)
            p == n - AfterDownload(helper, r.mode)
<1>0. /\ At(j, "download") /\ Advance(j, r)
      /\ UNCHANGED <<helper, source, writer, backup, target>>
      /\ image # None /\ image = job[j].dump
  BY DEF DownloadDump
<1>1. /\ job[j] \in JobRecords /\ job[j].outcome = "running"
      /\ n \in Nat \ {0} /\ Placed("download", helper, job[j].mode, n)
      /\ Established(job[j], helper, n, source, writer, backup, t)
      /\ Stored(j) \in Backups /\ helper \in {"economy", "interim"}
  BY <1>0, AtFacts DEF CopyInv, TypeOK
<1>2. image \in Images /\ image = backup[job[j].run].dump
  BY <1>0, <1>1 DEF Backups, Stored
<1>. HIDE DEF image
<1>3. /\ r \in JobRecords /\ r.outcome = "running" /\ r.mode = job[j].mode
      /\ r.run = job[j].run /\ r.target = job[j].target /\ r.todo = job[j].todo
      /\ r.expected = job[j].expected /\ r.dump = job[j].dump
      /\ r.fetched = image
  BY <1>1, <1>2 DEF JobRecords
<1>. HIDE DEF r, n, t
<1>4. \/ r.mode = "Verify"
      \/ r.mode = "RecoverRehearsal" /\ n = 4
      \/ r.mode \in {"Rehearse", "FinalCopy"} /\ p = 1
  BY <1>1, <1>3 DEF Placed
<1>5. CASE r.mode = "Verify"
  BY <1>0, <1>3, <1>5, VerifyEstablishes, ReadStep DEF n, t
<1>6. CASE r.mode = "RecoverRehearsal" /\ n = 4
  <2>1. Recovering(job[j], n, backup)
    BY <1>1, <1>3, <1>6 DEF Established
  <2>2. Recovering(r, n - 1, backup)
    BY <2>1, <1>2, <1>3, <1>6 DEF Recovering
  <2>3. Standing(r, helper, n - 1, t)
    BY <1>6 DEF Standing, RestoreAt
  <2>4. Established(r, helper, n - 1, source, writer, backup, t)
    BY <1>1, <1>6, <2>2, <2>3, Progress
  <2>. QED
    BY <1>0, <1>3, <2>4, ReadStep DEF n, t
<1>7. CASE r.mode \in {"Rehearse", "FinalCopy"} /\ p = 1
  <2>1. /\ p \in Int /\ p \notin {DumpAt(r.mode), DumpAt(r.mode) + 1, DumpAt(r.mode) + 2}
        /\ r.mode = "FinalCopy" => p # 8
        /\ n # RestoreAt(r.mode) + 1 /\ n - 1 > 3
        /\ n - 1 \notin RoleMade(helper, r.mode)
    BY <1>1, <1>7 DEF AfterDownload, RoleMade, RestoreAt, DumpAt
  <2>2. Collected(job[j], p, source) /\ Kept(job[j], p, backup) /\ Standing(job[j], helper, n, t)
    BY <1>1, <1>3, <1>7 DEF Established
  <2>. HIDE DEF p
  <2>3. Collected(r, p - 1, source)
    BY <1>3, <2>1, <2>2, CollectedOn
  <2>4. Kept(r, p - 1, backup)
    BY <1>0, <1>3, <1>7, <2>2 DEF Kept
  <2>5. Standing(r, helper, n - 1, t)
    BY <1>1, <1>3, <2>1, <2>2, StandingOn
  <2>6. Compared(r, n - 1, source, writer, t)
    BY <1>1, <2>1 DEF Compared
  <2>7. Established(r, helper, n - 1, source, writer, backup, t)
    BY <1>1, <1>7, <2>3, <2>4, <2>5, <2>6, Progress DEF p
  <2>. QED
    BY <1>0, <1>3, <2>7, ReadStep DEF n, t
<1>. QED
  BY <1>4, <1>5, <1>6, <1>7

LEMMA VerifyTargetStep ==
    ASSUME CopyInv, NEW j \in Jobs, VerifyTarget(j)
    PROVE  CopyInv'
<1>. DEFINE r == job[j]
            n == Left(j)
            t == Target(j)
            p == n - AfterDownload(helper, r.mode)
<1>0. /\ At(j, "verify_target") /\ Advance(j, r)
      /\ UNCHANGED <<helper, source, writer, backup, target>>
      /\ t.data # None /\ RequireSame(r.expected, t.data, r.target = "final")
  BY DEF VerifyTarget, Final
<1>1. /\ job[j] \in JobRecords /\ job[j].outcome = "running"
      /\ n \in Nat \ {0} /\ Placed("verify_target", helper, job[j].mode, n)
      /\ Established(job[j], helper, n, source, writer, backup, t)
      /\ r.target \in TargetsOf(r.mode)
      /\ t \in Databases /\ helper \in {"economy", "interim"}
  BY <1>0, AtFacts DEF CopyInv, TypeOK
<1>. HIDE DEF n, t
<1>2. \/ r.mode = "Verify"
      \/ r.mode \in {"Rehearse", "FinalCopy", "RecoverRehearsal"} /\ n = RestoreAt(r.mode) - 1
  BY <1>1 DEF Placed
<1>3. CASE r.mode = "Verify"
  BY <1>0, <1>1, <1>3, VerifyEstablishes, ReadStep DEF n, t
<1>4. Standing(r, helper, n, t)
  BY <1>1 DEF Established
<1>5. CASE r.mode = "RecoverRehearsal"
  <2>1. n = 1 /\ Recovering(r, n, backup)
    BY <1>1, <1>2, <1>5 DEF Established, RestoreAt
  <2>2. Recovering(r, n - 1, backup)
    BY <2>1 DEF Recovering
  <2>3. Standing(r, helper, n - 1, t)
    BY <1>4, <1>5, <2>1 DEF Standing, RestoreAt
  <2>4. Established(r, helper, n - 1, source, writer, backup, t)
    BY <1>1, <1>5, <2>2, <2>3, Progress
  <2>. QED
    BY <1>0, <1>1, <2>4, ReadStep DEF n, t
<1>6. CASE r.mode \in {"Rehearse", "FinalCopy"}
  <2>1. /\ p \in Int /\ p <= DumpAt(r.mode) /\ p \notin {4, 3, 1, 8}
        /\ p \notin {DumpAt(r.mode), DumpAt(r.mode) + 1, DumpAt(r.mode) + 2}
        /\ n # RestoreAt(r.mode) + 1
        /\ r.mode = "FinalCopy" => n = 4
        /\ n - 1 \notin RoleMade(helper, r.mode)
    BY <1>1, <1>2, <1>6 DEF AfterDownload, RoleMade, RestoreAt, DumpAt
  <2>2. Collected(r, p, source) /\ Kept(r, p, backup)
    BY <1>1, <1>6 DEF Established
  <2>. HIDE DEF p
  <2>3. Collected(r, p - 1, source)
    BY <2>1, <2>2, CollectedOn
  <2>4. Kept(r, p - 1, backup)
    BY <2>1, <2>2, KeptOn
  <2>5. Standing(r, helper, n - 1, t)
    BY <1>1, <1>4, <2>1, StandingOn
  <2>6. r.mode = "FinalCopy" => Compared(r, n - 1, source, writer, t)
    <3>1. SUFFICES ASSUME r.mode = "FinalCopy" PROVE Compared(r, 3, source, writer, t)
      BY <2>1
    <3>2. r.target = "final"
      BY <3>1, <1>1 DEF TargetsOf
    <3>3. r.expected \in Images /\ t.data \in Images
      <4>1. r.expected \in Images
        BY <2>1, <2>2 DEF Collected
      <4>2. t.data \in Images
        BY <1>0, <1>1 DEF Databases
      <4>. QED
        BY <4>1, <4>2
    <3>4. t.data = r.expected
      BY <3>2, <3>3, <1>0 DEF RequireSame, Images
    <3>. QED
      BY <3>4 DEF Compared
  <2>7. Established(r, helper, n - 1, source, writer, backup, t)
    BY <1>1, <1>6, <2>3, <2>4, <2>5, <2>6, Progress DEF p
  <2>. QED
    BY <1>0, <1>1, <2>7, ReadStep DEF n, t
<1>. QED
  BY <1>2, <1>3, <1>5, <1>6

-----------------------------------------------------------------------------
(* The uploads.                                                            *)

LEMMA UploadStep ==
    ASSUME CopyInv, NEW j \in Jobs, NEW step \in {"upload_dump", "upload_manifest"},
           At(j, step), Advance(j, job[j]), UNCHANGED <<helper, source, writer, target>>,
           backup' \in [Runs -> Backups], Fills(backup, backup'), BackupIsExact',
           Kept(job[j], Left(j) - AfterDownload(helper, job[j].mode) - 1, backup')
    PROVE  CopyInv'
<1>. DEFINE r == job[j]
            n == Left(j)
            t == Target(j)
            p == n - AfterDownload(helper, r.mode)
<1>1. /\ r \in JobRecords /\ r.outcome = "running"
      /\ n \in Nat \ {0} /\ Placed(step, helper, r.mode, n)
      /\ Established(r, helper, n, source, writer, backup, t)
      /\ helper \in {"economy", "interim"}
  BY AtFacts DEF CopyInv, TypeOK
<1>2. TypeOK /\ TargetIsItsBackup
  BY DEF CopyInv
<1>. HIDE DEF n, t
<1>3. r.mode \in {"Rehearse", "FinalCopy"} /\ p \in {4, 3}
  BY <1>1 DEF Placed
<1>4. /\ p \in Int /\ p \notin {DumpAt(r.mode), DumpAt(r.mode) + 1, DumpAt(r.mode) + 2}
      /\ p # 8 /\ n # RestoreAt(r.mode) + 1 /\ n - 1 > 3
      /\ n - 1 \notin RoleMade(helper, r.mode)
  BY <1>1, <1>3 DEF AfterDownload, RoleMade, RestoreAt, DumpAt
<1>5. Collected(r, p, source) /\ Standing(r, helper, n, t)
  BY <1>1, <1>3 DEF Established
<1>6. Kept(r, p - 1, backup')
  BY DEF n
<1>. HIDE DEF p
<1>7. Collected(r, p - 1, source)
  BY <1>4, <1>5, CollectedOn
<1>8. Standing(r, helper, n - 1, t)
  BY <1>1, <1>4, <1>5, StandingOn
<1>9. Compared(r, n - 1, source, writer, t)
  BY <1>1, <1>4 DEF Compared
<1>10. Established(r, helper, n - 1, source, writer, backup', t)
  BY <1>1, <1>3, <1>6, <1>7, <1>8, <1>9, Progress DEF p
<1>11. /\ target' \in [Targets -> Databases]
       /\ \A name \in Targets : Grows(target[name], target'[name])
                                /\ (target'[name].granted => target[name].granted)
       /\ target'[r.target] = t
  BY <1>2 DEF TypeOK, Grows, t, Target
<1>12. TypeOK' /\ InSequence' /\ JobsEstablish' /\ GrantsAreTemporary'
  BY <1>1, <1>10, <1>11, JobStep DEF n
<1>13. TargetIsItsBackup'
  <2>. SUFFICES ASSUME NEW name \in Targets, target[name].data # None
                PROVE  /\ target[name].marker # None /\ target[name].role = target[name].marker
                       /\ backup'[target[name].marker].manifest # None
                       /\ backup'[target[name].marker].manifest.target = name
                       /\ backup'[target[name].marker].dump = target[name].data
    BY DEF TargetIsItsBackup
  <2>1. /\ target[name].marker # None /\ target[name].role = target[name].marker
        /\ backup[target[name].marker].manifest # None
        /\ backup[target[name].marker].manifest.target = name
        /\ backup[target[name].marker].dump = target[name].data
    BY <1>2 DEF TargetIsItsBackup
  <2>2. target[name].marker \in Runs
    BY <1>2, <2>1 DEF TypeOK, Databases
  <2>. QED
    BY <2>1, <2>2 DEF Fills
<1>. QED
  BY <1>12, <1>13 DEF CopyInv

LEMMA UploadDumpStep ==
    ASSUME CopyInv, NEW j \in Jobs, UploadDump(j)
    PROVE  CopyInv'
<1>. DEFINE run == job[j].run
            p == Left(j) - AfterDownload(helper, job[j].mode)
<1>1. /\ At(j, "upload_dump") /\ backup[run].dump = None
      /\ backup' = [backup EXCEPT ![run].dump = job[j].dump]
      /\ Advance(j, job[j]) /\ UNCHANGED <<helper, source, writer, target>>
  BY DEF UploadDump, Upload, FreeName
<1>2. /\ run \in Runs /\ job[j].mode \in {"Rehearse", "FinalCopy"} /\ p = 4
      /\ Established(job[j], helper, Left(j), source, writer, backup, Target(j))
  BY <1>1, AtFacts DEF Placed
<1>3. Collected(job[j], p, source) /\ DumpAt(job[j].mode) > 4
  BY <1>2 DEF Established, DumpAt
<1>4. job[j].dump \in Images
  BY <1>2, <1>3 DEF Collected
<1>5. backup \in [Runs -> Backups] /\ BackupIsExact
  BY DEF CopyInv, TypeOK
<1>. HIDE DEF run, p
<1>6. /\ backup' \in [Runs -> Backups] /\ backup'[run].dump = job[j].dump
      /\ \A x \in Runs : /\ x # run => backup'[x] = backup[x]
                         /\ backup'[x].manifest = backup[x].manifest
  BY <1>1, <1>2, <1>4, <1>5 DEF Backups
<1>7. Fills(backup, backup')
  BY <1>1, <1>6 DEF Fills
<1>8. BackupIsExact'
  <2>1. backup'[run].manifest = None
    BY <1>1, <1>2, <1>5, <1>6 DEF BackupIsExact
  <2>. QED
    BY <2>1, <1>5, <1>6 DEF BackupIsExact
<1>9. Kept(job[j], p - 1, backup')
  BY <1>2, <1>6 DEF Kept, run
<1>. QED
  BY <1>1, <1>6, <1>7, <1>8, <1>9, UploadStep DEF p

LEMMA UploadManifestStep ==
    ASSUME CopyInv, NEW j \in Jobs, UploadManifest(j)
    PROVE  CopyInv'
<1>. DEFINE run == job[j].run
            m == RecordOf(j)
            p == Left(j) - AfterDownload(helper, job[j].mode)
<1>1. /\ At(j, "upload_manifest") /\ backup[run].manifest = None
      /\ backup' = [backup EXCEPT ![run].manifest = m]
      /\ Advance(j, job[j]) /\ UNCHANGED <<helper, source, writer, target>>
  BY DEF UploadManifest, Upload, FreeName
<1>2. /\ run \in Runs /\ job[j].mode \in {"Rehearse", "FinalCopy"} /\ p = 3
      /\ job[j].target \in Targets
      /\ Established(job[j], helper, Left(j), source, writer, backup, Target(j))
  BY <1>1, AtFacts DEF Placed
<1>3. /\ Collected(job[j], p, source) /\ Kept(job[j], p, backup)
      /\ 3 < DumpAt(job[j].mode) /\ 3 <= DumpAt(job[j].mode)
  BY <1>2 DEF Established, DumpAt
<1>. HIDE DEF p
<1>4. /\ job[j].dump \in Images /\ job[j].expected \in Images
      /\ job[j].expected.rows = job[j].dump.rows
      /\ job[j].mode = "FinalCopy" => job[j].expected = job[j].dump
  <2>1. Collected(job[j], 3, source)
    BY <1>2, <1>3
  <2>. QED
    BY <2>1, <1>3 DEF Collected
<1>5. backup \in [Runs -> Backups] /\ BackupIsExact /\ backup[run].dump = job[j].dump
  BY <1>2, <1>3 DEF CopyInv, TypeOK, Kept
<1>6. /\ m \in Records /\ m.mode = job[j].mode /\ m.target = job[j].target
      /\ m.expected = job[j].expected /\ m.dump = job[j].dump
      /\ m = [mode |-> job[j].mode, target |-> job[j].target,
              expected |-> job[j].expected, dump |-> job[j].dump]
  BY <1>2, <1>4 DEF RecordOf, Records
<1>. HIDE DEF run, m
<1>7. /\ backup' \in [Runs -> Backups] /\ backup'[run].manifest = m
      /\ \A x \in Runs : /\ x # run => backup'[x] = backup[x]
                         /\ backup'[x].dump = backup[x].dump
  BY <1>1, <1>2, <1>5, <1>6 DEF Backups
<1>8. Fills(backup, backup')
  BY <1>1, <1>7 DEF Fills
<1>9. BackupIsExact'
  <2>1. /\ backup'[run].dump # None /\ m.dump = backup'[run].dump
        /\ RequireSame(m.expected, backup'[run].dump, m.mode = "FinalCopy")
    BY <1>2, <1>4, <1>5, <1>6, <1>7, CopyAssumption DEF RequireSame
  <2>. QED
    BY <2>1, <1>5, <1>7 DEF BackupIsExact
<1>10. Kept(job[j], p - 1, backup')
  BY <1>2, <1>5, <1>6, <1>7 DEF Kept, run
<1>. QED
  BY <1>1, <1>7, <1>8, <1>9, <1>10, UploadStep DEF p

-----------------------------------------------------------------------------
(* The steps that change a destination.                                    *)

LEMMA ChangeStep ==
    ASSUME CopyInv, NEW j \in Jobs, NEW step, At(j, step),
           step \notin {"grant", "alter_schema", "revoke"},
           Advance(j, job[j]), UNCHANGED <<helper, source, writer, backup>>,
           NEW t2 \in Databases, Change(j, t2), Grows(Target(j), t2),
           t2.granted = Target(j).granted,
           t2.data # None =>
               \/ t2.data = Target(j).data
               \/ /\ t2.marker # None /\ t2.role = t2.marker
                  /\ backup[t2.marker].manifest # None
                  /\ backup[t2.marker].manifest.target = job[j].target
                  /\ backup[t2.marker].dump = t2.data,
           Established(job[j], helper, Left(j) - 1, source, writer, backup, t2)
    PROVE  CopyInv'
<1>. DEFINE name == job[j].target
<1>1. job[j] \in JobRecords /\ job[j].outcome = "running" /\ name \in Targets
  BY AtFacts
<1>2. TypeOK /\ BackupIsExact /\ TargetIsItsBackup
  BY DEF CopyInv
<1>3. /\ target' \in [Targets -> Databases] /\ target'[name] = t2
      /\ \A x \in Targets : x # name => target'[x] = target[x]
      /\ Target(j) = target[name]
  BY <1>1, <1>2 DEF TypeOK, Change, Target
<1>. HIDE DEF name
<1>4. \A x \in Targets : Grows(target[x], target'[x])
                         /\ (target'[x].granted => target[x].granted)
  BY <1>3 DEF Grows
<1>5. backup' \in [Runs -> Backups] /\ Fills(backup, backup')
  BY <1>2 DEF TypeOK, Fills
<1>6. TypeOK' /\ InSequence' /\ JobsEstablish' /\ GrantsAreTemporary'
  BY <1>1, <1>3, <1>4, <1>5, JobStep DEF name
<1>7. BackupIsExact'
  BY <1>2 DEF BackupIsExact
<1>8. TargetIsItsBackup'
  <2>. SUFFICES ASSUME NEW x \in Targets, target'[x].data # None
                PROVE  /\ target'[x].marker # None /\ target'[x].role = target'[x].marker
                       /\ backup[target'[x].marker].manifest # None
                       /\ backup[target'[x].marker].manifest.target = x
                       /\ backup[target'[x].marker].dump = target'[x].data
    BY DEF TargetIsItsBackup
  <2>1. CASE target[x].data # None
    <3>1. /\ target[x].marker # None /\ target[x].role = target[x].marker
          /\ backup[target[x].marker].manifest # None
          /\ backup[target[x].marker].manifest.target = x
          /\ backup[target[x].marker].dump = target[x].data
      BY <1>2, <2>1 DEF TargetIsItsBackup
    <3>2. /\ target'[x].role = target[x].role /\ target'[x].marker = target[x].marker
          /\ target'[x].data = target[x].data
      BY <1>4, <2>1, <3>1 DEF Grows
    <3>. QED
      BY <3>1, <3>2
  <2>2. CASE target[x].data = None
    BY <1>3, <2>2 DEF name
  <2>. QED
    BY <2>1, <2>2
<1>. QED
  BY <1>6, <1>7, <1>8 DEF CopyInv

\* Between the download and the restore of a copy only its standing changes.
LEMMA CopyGoesOn ==
    ASSUME NEW r \in JobRecords, NEW h \in {"economy", "interim"}, NEW n \in Nat \ {0},
           NEW src, NEW w, NEW b, NEW t, NEW t2,
           r.mode \in {"Rehearse", "FinalCopy"}, n - AfterDownload(h, r.mode) < 0,
           r.mode = "FinalCopy" => n > 4,
           Established(r, h, n, src, w, b, t), Standing(r, h, n - 1, t2)
    PROVE  Established(r, h, n - 1, src, w, b, t2)
<1>. DEFINE p == n - AfterDownload(h, r.mode)
<1>1. /\ p \in Int /\ p \notin {DumpAt(r.mode), DumpAt(r.mode) + 1, DumpAt(r.mode) + 2}
      /\ p # 8 /\ p \notin {4, 3, 1}
  BY DEF AfterDownload, DumpAt
<1>2. Collected(r, p, src) /\ Kept(r, p, b)
  BY DEF Established
<1>. HIDE DEF p
<1>3. Collected(r, p - 1, src)
  BY <1>1, <1>2, CollectedOn
<1>4. Kept(r, p - 1, b)
  BY <1>1, <1>2, KeptOn
<1>5. r.mode = "FinalCopy" => Compared(r, n - 1, src, w, t2)
  BY DEF Compared
<1>. QED
  BY <1>3, <1>4, <1>5, Progress DEF p

LEMMA CreateRoleStep ==
    ASSUME CopyInv, NEW j \in Jobs, CreateRole(j)
    PROVE  CopyInv'
<1>. DEFINE t == Target(j)
            r == job[j]
            t2 == [t EXCEPT !.role = r.run]
            n == Left(j)
<1>0. /\ At(j, "create_role") /\ t.role = None /\ Change(j, t2) /\ Advance(j, r)
      /\ UNCHANGED <<helper, source, writer, backup>>
  BY DEF CreateRole
<1>1. /\ r \in JobRecords /\ r.run \in Runs /\ t \in Databases
      /\ n \in Nat \ {0} /\ Placed("create_role", helper, r.mode, n)
      /\ Established(r, helper, n, source, writer, backup, t)
      /\ helper \in {"economy", "interim"}
  BY <1>0, AtFacts DEF CopyInv, TypeOK
<1>. HIDE DEF t, n
<1>2. /\ t2 \in Databases /\ t2.role = r.run /\ t2.marker = t.marker /\ t2.data = t.data
      /\ t2.granted = t.granted
  BY <1>1 DEF Databases
<1>. HIDE DEF t2
<1>3. /\ r.mode \in {"Rehearse", "FinalCopy"} /\ n - AfterDownload(helper, r.mode) < 0
      /\ n - 1 > RestoreAt(r.mode) /\ RestoreAt(r.mode) \in {2, 5}
      /\ r.mode = "FinalCopy" => RestoreAt(r.mode) = 5
  BY <1>1 DEF Placed, RestoreAt
<1>4. r.mode = "FinalCopy" => n > 4
  BY <1>1, <1>3
<1>5. Standing(r, helper, n - 1, t2)
  BY <1>1, <1>2, <1>3 DEF Standing
<1>6. Established(r, helper, n - 1, source, writer, backup, t2)
  BY <1>1, <1>3, <1>4, <1>5, CopyGoesOn
<1>7. Grows(t, t2)
  BY <1>0, <1>2 DEF Grows
<1>. QED
  BY <1>0, <1>2, <1>6, <1>7, ChangeStep DEF t, n

LEMMA CreateDatabaseStep ==
    ASSUME CopyInv, NEW j \in Jobs, CreateDatabase(j)
    PROVE  CopyInv'
<1>. DEFINE t == Target(j)
            r == job[j]
            n == Left(j)
<1>0. PICK schema \in {"admin", "owner"} :
        Change(j, [t EXCEPT !.exists = TRUE, !.schema = schema])
  BY DEF CreateDatabase
<1>1. /\ At(j, "create_database") /\ Advance(j, r)
      /\ UNCHANGED <<helper, source, writer, backup>>
  BY DEF CreateDatabase
<1>. DEFINE t2 == [t EXCEPT !.exists = TRUE, !.schema = schema]
<1>2. /\ r \in JobRecords /\ r.run \in Runs /\ t \in Databases
      /\ n \in Nat \ {0} /\ Placed("create_database", helper, r.mode, n)
      /\ Established(r, helper, n, source, writer, backup, t)
      /\ helper \in {"economy", "interim"}
  BY <1>1, AtFacts DEF CopyInv, TypeOK
<1>3. Change(j, t2)
  BY <1>0
<1>. HIDE DEF t, n
<1>4. /\ t2.role = t.role /\ t2.marker = t.marker /\ t2.data = t.data
      /\ t2.granted = t.granted /\ t2.exists = TRUE /\ t2.schema = schema
  BY <1>2 DEF Databases
<1>5. t2 \in Databases
  BY <1>2 DEF Databases
<1>. HIDE DEF t2
<1>6. /\ r.mode \in {"Rehearse", "FinalCopy"} /\ n - AfterDownload(helper, r.mode) < 0
      /\ n - 1 > RestoreAt(r.mode) /\ RestoreAt(r.mode) \in {2, 5}
      /\ r.mode = "FinalCopy" => RestoreAt(r.mode) = 5
      /\ n \in RoleMade(helper, r.mode)
  BY <1>2 DEF Placed, RestoreAt
<1>7. r.mode = "FinalCopy" => n > 4
  BY <1>2, <1>6
<1>8. Standing(r, helper, n - 1, t2)
  BY <1>2, <1>4, <1>6 DEF Standing, Established
<1>9. Established(r, helper, n - 1, source, writer, backup, t2)
  BY <1>2, <1>6, <1>7, <1>8, CopyGoesOn
<1>10. Grows(t, t2)
  BY <1>4 DEF Grows
<1>. QED
  BY <1>1, <1>3, <1>4, <1>5, <1>9, <1>10, ChangeStep DEF t, n

LEMMA CommentDatabaseStep ==
    ASSUME CopyInv, NEW j \in Jobs, CommentDatabase(j)
    PROVE  CopyInv'
<1>. DEFINE t == Target(j)
            r == job[j]
            t2 == [t EXCEPT !.marker = r.run]
            n == Left(j)
<1>0. /\ At(j, "comment_database") /\ Change(j, t2) /\ Advance(j, r)
      /\ UNCHANGED <<helper, source, writer, backup>>
  BY DEF CommentDatabase
<1>1. /\ r \in JobRecords /\ r.run \in Runs /\ t \in Databases
      /\ n \in Nat \ {0} /\ Placed("comment_database", helper, r.mode, n)
      /\ Established(r, helper, n, source, writer, backup, t)
      /\ helper \in {"economy", "interim"}
  BY <1>0, AtFacts DEF CopyInv, TypeOK
<1>. HIDE DEF t, n
<1>2. /\ t2 \in Databases /\ t2.role = t.role /\ t2.marker = r.run /\ t2.data = t.data
      /\ t2.granted = t.granted
  BY <1>1 DEF Databases
<1>. HIDE DEF t2
<1>3. /\ r.mode \in {"Rehearse", "FinalCopy"} /\ n - AfterDownload(helper, r.mode) < 0
      /\ n - 1 >= RestoreAt(r.mode) /\ RestoreAt(r.mode) \in {2, 5}
      /\ r.mode = "FinalCopy" => RestoreAt(r.mode) = 5
      /\ n \in RoleMade(helper, r.mode) /\ n - 1 \notin RoleMade(helper, r.mode)
  BY <1>1 DEF Placed, RestoreAt
<1>4. r.mode = "FinalCopy" => n > 4
  BY <1>1, <1>3
<1>5. t.role = r.run
  BY <1>1, <1>3 DEF Standing, Established
<1>6. Standing(r, helper, n - 1, t2)
  BY <1>2, <1>3, <1>5 DEF Standing, Owned
<1>7. Established(r, helper, n - 1, source, writer, backup, t2)
  BY <1>1, <1>3, <1>4, <1>6, CopyGoesOn
<1>8. Grows(t, t2)
  BY <1>2, <1>5 DEF Grows
<1>. QED
  BY <1>0, <1>2, <1>7, <1>8, ChangeStep DEF t, n

LEMMA ClaimEmptyFoundationStep ==
    ASSUME CopyInv, NEW j \in Jobs, ClaimEmptyFoundation(j)
    PROVE  CopyInv'
<1>. DEFINE t == Target(j)
            r == job[j]
            t2 == [t EXCEPT !.role = r.run, !.schema = "owner", !.marker = r.run]
            n == Left(j)
<1>0. /\ At(j, "claim") /\ t.role = None /\ Change(j, t2) /\ Advance(j, r)
      /\ UNCHANGED <<helper, source, writer, backup>>
  BY DEF ClaimEmptyFoundation, EmptyFoundationGuard
<1>1. /\ r \in JobRecords /\ r.run \in Runs /\ t \in Databases
      /\ n \in Nat \ {0} /\ Placed("claim", helper, r.mode, n)
      /\ Established(r, helper, n, source, writer, backup, t)
      /\ helper \in {"economy", "interim"}
  BY <1>0, AtFacts DEF CopyInv, TypeOK
<1>. HIDE DEF t, n
<1>2. /\ t2.role = r.run /\ t2.marker = r.run /\ t2.data = t.data
      /\ t2.granted = t.granted
  BY <1>1 DEF Databases
<1>3. t2 \in Databases
  BY <1>1 DEF Databases
<1>. HIDE DEF t2
<1>4. r.mode = "FinalCopy" /\ n = 6 /\ n - AfterDownload(helper, r.mode) < 0
  BY <1>1 DEF Placed, AfterDownload
<1>5. Standing(r, helper, n - 1, t2)
  BY <1>2 DEF Standing, Owned
<1>6. Established(r, helper, n - 1, source, writer, backup, t2)
  BY <1>1, <1>4, <1>5, CopyGoesOn
<1>7. Grows(t, t2)
  BY <1>0, <1>2 DEF Grows
<1>. QED
  BY <1>0, <1>2, <1>3, <1>6, <1>7, ChangeStep DEF t, n

\* When the restore is due, the fetched archive is the one stored for the run.
LEMMA Restorable ==
    ASSUME NEW r \in JobRecords, r.target \in Targets, NEW h \in {"economy", "interim"}, NEW n \in Nat,
           NEW src, NEW w, NEW b, NEW t, Established(r, h, n, src, w, b, t),
           \/ /\ r.mode \in {"Rehearse", "FinalCopy", "RecoverRehearsal"}
              /\ n = RestoreAt(r.mode)
           \/ r.mode \in {"Rehearse", "RecoverRehearsal"} /\ n = 3 /\ h = "economy"
    PROVE  /\ r.fetched \in Images /\ b[r.run].dump = r.fetched
           /\ b[r.run].manifest # None /\ b[r.run].manifest.target = r.target
<1>1. CASE r.mode = "RecoverRehearsal"
  BY <1>1 DEF Established, Recovering, RestoreAt
<1>2. CASE r.mode \in {"Rehearse", "FinalCopy"}
  <2>. DEFINE p == n - AfterDownload(h, r.mode)
              m == [mode |-> r.mode, target |-> r.target, expected |-> r.expected, dump |-> r.dump]
  <2>1. p \in Int /\ p <= 0 /\ p <= 2 /\ p <= 3 /\ p < DumpAt(r.mode) /\ p <= DumpAt(r.mode)
    BY <1>2 DEF AfterDownload, RestoreAt, DumpAt
  <2>2. Collected(r, p, src) /\ Kept(r, p, b)
    BY <1>2 DEF Established
  <2>. HIDE DEF p
  <2>3. r.expected \in Images /\ r.dump \in Images
    BY <2>1, <2>2 DEF Collected
  <2>4. b[r.run].dump = r.dump /\ b[r.run].manifest = m /\ r.fetched = r.dump
    BY <2>1, <2>2 DEF Kept
  <2>5. r.target \in Targets => m \in Records
    BY <1>2, <2>3 DEF Records
  <2>6. m.target = r.target
    OBVIOUS
  <2>. HIDE DEF m
  <2>. QED
    BY <2>3, <2>4, <2>5, <2>6, CopyAssumption
<1>. QED
  BY <1>1, <1>2

LEMMA RestoreStep ==
    ASSUME CopyInv, NEW j \in Jobs, Restore(j)
    PROVE  CopyInv'
<1>. DEFINE t == Target(j)
            r == job[j]
            t2 == [t EXCEPT !.data = r.fetched]
            n == Left(j)
<1>0. /\ At(j, "restore") /\ t.data = None /\ Change(j, t2) /\ Advance(j, r)
      /\ UNCHANGED <<helper, source, writer, backup>>
  BY DEF Restore
<1>1. /\ r \in JobRecords /\ r.run \in Runs /\ r.target \in Targets /\ t \in Databases
      /\ n \in Nat \ {0} /\ Placed("restore", helper, r.mode, n)
      /\ Established(r, helper, n, source, writer, backup, t)
      /\ helper \in {"economy", "interim"}
  BY <1>0, AtFacts DEF CopyInv, TypeOK
<1>. HIDE DEF t, n
<1>2. r.mode \in {"Rehearse", "FinalCopy", "RecoverRehearsal"} /\ n = RestoreAt(r.mode)
  BY <1>1 DEF Placed
<1>3. /\ r.fetched \in Images /\ backup[r.run].dump = r.fetched
      /\ backup[r.run].manifest # None /\ backup[r.run].manifest.target = r.target
  BY <1>1, <1>2, Restorable
<1>4. /\ t2 \in Databases /\ t2.role = t.role /\ t2.marker = t.marker /\ t2.data = r.fetched
      /\ t2.granted = t.granted
  BY <1>1, <1>3 DEF Databases
<1>. HIDE DEF t2
<1>5. t.role = r.run /\ t.marker = r.run /\ r.run # None
  <2>1. n <= RestoreAt(r.mode)
    BY <1>1, <1>2
  <2>. QED
    BY <2>1, <1>1, <1>2, CopyAssumption DEF Standing, Established, Owned
<1>6. Standing(r, helper, n - 1, t2)
  BY <1>4, <1>5 DEF Standing, Owned
<1>7. Established(r, helper, n - 1, source, writer, backup, t2)
  <2>1. CASE r.mode = "RecoverRehearsal"
    <3>1. Recovering(r, n - 1, backup)
      BY <1>3 DEF Recovering
    <3>. QED
      BY <2>1, <1>1, <1>6, <3>1, Progress
  <2>2. CASE r.mode # "RecoverRehearsal"
    <3>1. n - AfterDownload(helper, r.mode) < 0 /\ (r.mode = "FinalCopy" => n > 4)
      BY <2>2, <1>1, <1>2 DEF AfterDownload, RestoreAt
    <3>. QED
      BY <2>2, <3>1, <1>1, <1>2, <1>6, CopyGoesOn
  <2>. QED
    BY <2>1, <2>2
<1>8. Grows(t, t2)
  BY <1>0, <1>4 DEF Grows
<1>. QED
  BY <1>0, <1>3, <1>4, <1>5, <1>7, <1>8, ChangeStep DEF t, n

-----------------------------------------------------------------------------
(* Steps of a job outside its mode's sequence: the repair of the           *)
(* rehearsal's schema, starting, failing and dying.                        *)

LEMMA OneJobStep ==
    ASSUME CopyInv, NEW j \in Jobs, NEW q \in JobRecords, job' = [job EXCEPT ![j] = q],
           UNCHANGED <<helper, source, writer, backup>>,
           target' \in [Targets -> Databases],
           \A x \in Targets : /\ target'[x].role = target[x].role
                              /\ target'[x].marker = target[x].marker
                              /\ target'[x].data = target[x].data,
           Ordered(q),
           q.outcome \in {"running", "done"} =>
               Established(q, helper, Place(q.todo), source, writer, backup, target'[q.target]),
           GrantsAreTemporary'
    PROVE  CopyInv'
<1>1. TypeOK /\ InSequence /\ JobsEstablish /\ BackupIsExact /\ TargetIsItsBackup
  BY DEF CopyInv
<1>2. job' \in [Jobs -> JobRecords] /\ job'[j] = q /\ \A k \in Jobs \ {j} : job'[k] = job[k]
  BY <1>1 DEF TypeOK
<1>3. TypeOK'
  BY <1>1, <1>2 DEF TypeOK
<1>4. InSequence'
  <2>1. ASSUME NEW k \in Jobs PROVE Ordered(job'[k])
    BY <1>1, <1>2 DEF InSequence
  <2>. QED
    BY <2>1 DEF InSequence, Ordered, StepsOf
<1>5. JobsEstablish'
  <2>. SUFFICES ASSUME NEW k \in Jobs, job'[k].outcome \in {"running", "done"}
                PROVE  Established(job'[k], helper, Place(job'[k].todo), source, writer,
                                   backup, target'[job'[k].target])
    BY DEF JobsEstablish, Succeeding, Target
  <2>1. CASE k = j
    BY <2>1, <1>2
  <2>2. CASE k # j
    <3>1. job'[k] = job[k] /\ job[k] \in JobRecords /\ job[k].outcome \in {"running", "done"}
      BY <2>2, <1>1, <1>2 DEF TypeOK
    <3>2. job[k].run \in Runs /\ job[k].target \in Targets
      BY <3>1, <1>1 DEF InSequence, Ordered, TargetsOf, Targets, AllModes
    <3>3. Established(job[k], helper, Place(job[k].todo), source, writer, backup,
                      target[job[k].target])
      BY <3>1, <1>1 DEF JobsEstablish, Succeeding, Target
    <3>4. Place(job[k].todo) \in Nat
      BY <3>1 DEF Place, JobRecords
    <3>5. /\ helper \in {"economy", "interim"} /\ source \in Images /\ writer \in Writers
          /\ backup \in [Runs -> Backups]
          /\ target[job[k].target] \in Databases /\ target'[job[k].target] \in Databases
      BY <3>2, <1>1 DEF TypeOK
    <3>6. Passes(source, writer, source, writer) /\ Fills(backup, backup)
      BY <3>5 DEF Passes, Images, Fills
    <3>7. Grows(target[job[k].target], target'[job[k].target])
      BY <3>2 DEF Grows
    <3>. QED
      BY <3>1, <3>2, <3>3, <3>4, <3>5, <3>6, <3>7, Framed
  <2>. QED
    BY <2>1, <2>2
<1>6. BackupIsExact' /\ TargetIsItsBackup'
  BY <1>1 DEF BackupIsExact, TargetIsItsBackup
<1>. QED
  BY <1>3, <1>4, <1>5, <1>6 DEF CopyInv

\* The restore and the verification end both sequences that repair.
LEMMA RepairEnds ==
    ASSUME NEW mode \in {"Rehearse", "RecoverRehearsal"}, helper = "economy"
    PROVE  LET s == StepsOf(mode)
           IN  Len(s) \in {15, 5} /\ s[Len(s) - 1] = "restore" /\ s[Len(s)] = "verify_target"
<1>1. /\ Len(EconomySteps("Rehearse")) = 15
      /\ EconomySteps("Rehearse")[14] = "restore" /\ EconomySteps("Rehearse")[15] = "verify_target"
  BY DEF EconomySteps, BackupSteps, StoreSteps, CreateTarget, VerifySteps
<1>2. /\ Len(EconomySteps("RecoverRehearsal")) = 5
      /\ EconomySteps("RecoverRehearsal")[4] = "restore"
      /\ EconomySteps("RecoverRehearsal")[5] = "verify_target"
  BY DEF EconomySteps
<1>. QED
  BY <1>1, <1>2 DEF StepsOf

LEMMA AfterRepair ==
    ASSUME NEW mode \in {"Rehearse", "RecoverRehearsal"}, helper = "economy",
           NEW u \in Seq(StepNames), Len(u) = 2, u[1] = "restore", u[2] = "verify_target"
    PROVE  IsEnd(u, StepsOf(mode)) /\ ~IsRepair(u)
<1>1. ~IsRepair(u)
  BY DEF IsRepair
<1>2. IsEnd(u, StepsOf(mode))
  <2>. DEFINE s == StepsOf(mode)
  <2>1. Len(s) \in {15, 5} /\ s[Len(s) - 1] = "restore" /\ s[Len(s)] = "verify_target"
    BY RepairEnds
  <2>. HIDE DEF s
  <2>2. \A m \in {15, 5} : m - 2 + 1 = m - 1 /\ m - 2 + 2 = m /\ 2 <= m
    OBVIOUS
  <2>3. \A i \in 1..2 : u[i] = s[Len(s) - 2 + i]
    BY <2>1, <2>2
  <2>. QED
    BY <2>1, <2>2, <2>3 DEF IsEnd, s
<1>. QED
  BY <1>1, <1>2

LEMMA RepairTail ==
    ASSUME NEW todo \in Seq(StepNames), IsRepair(todo)
    PROVE  /\ Tail(todo) \in Seq(StepNames) /\ Len(Tail(todo)) > 0 /\ Tail(todo) # <<>>
           /\ \/ IsRepair(Tail(todo))
              \/ /\ Len(Tail(todo)) = 2 /\ Tail(todo)[1] = "restore"
                 /\ Tail(todo)[2] = "verify_target"
           /\ Head(todo) = todo[1]
           /\ Head(todo) = "grant" => Contains(Tail(todo), "revoke")
           /\ Head(todo) = "alter_schema" /\ Contains(todo, "revoke")
                  => Contains(Tail(todo), "revoke")
<1>1. Len(todo) \in {5, 4, 3} /\ Head(todo) = todo[1]
  BY DEF IsRepair
<1>. DEFINE u == Tail(todo)
<1>2. /\ u \in Seq(StepNames) /\ Len(u) = Len(todo) - 1
      /\ \A i \in 1..(Len(todo) - 1) : u[i] = todo[i + 1]
  BY <1>1
<1>3. u \in Seq(StepNames) /\ Len(u) > 0
  BY <1>1, <1>2
<1>. HIDE DEF u
<1>4. u # <<>>
  BY <1>3, EmptySeq
<1>5. CASE Len(todo) = 5
  <2>0. Len(u) = 4 /\ \A i \in 1..4 : u[i] = todo[i + 1]
    BY <1>2, <1>5
  <2>1. Len(u) = 4 /\ u[1] = todo[2] /\ u[2] = todo[3] /\ u[3] = todo[4] /\ u[4] = todo[5]
    BY <2>0
  <2>2. /\ u[1] = "alter_schema" /\ u[2] = "revoke" /\ u[3] = "restore"
        /\ u[4] = "verify_target"
    BY <2>1, <1>5 DEF IsRepair
  <2>3. IsRepair(u) /\ Contains(u, "revoke")
    BY <2>1, <2>2 DEF IsRepair, Contains
  <2>. QED
    BY <1>1, <1>3, <1>4, <2>3 DEF u
<1>6. CASE Len(todo) = 4
  <2>1. Len(u) = 3 /\ u[1] = todo[2] /\ u[2] = todo[3] /\ u[3] = todo[4]
    BY <1>2, <1>6
  <2>2. u[1] = "revoke" /\ u[2] = "restore" /\ u[3] = "verify_target"
    BY <2>1, <1>6 DEF IsRepair
  <2>3. IsRepair(u) /\ Contains(u, "revoke")
    BY <2>1, <2>2 DEF IsRepair, Contains
  <2>. QED
    BY <1>1, <1>3, <1>4, <2>3 DEF u
<1>7. CASE Len(todo) = 3
  <2>1. Len(u) = 2 /\ u[1] = todo[2] /\ u[2] = todo[3]
    BY <1>2, <1>7
  <2>2. /\ u[1] = "restore" /\ u[2] = "verify_target" /\ todo[1] \in {"revoke", "alter_schema"}
        /\ todo[2] = "restore" /\ todo[3] = "verify_target"
    BY <2>1, <1>7 DEF IsRepair
  <2>3. todo[1] = "alter_schema" => ~Contains(todo, "revoke")
    BY <2>2, <1>7 DEF Contains
  <2>. QED
    BY <1>1, <1>3, <1>4, <2>1, <2>2, <2>3 DEF u
<1>. QED
  BY <1>1, <1>5, <1>6, <1>7

\* What prepare_rehearsal_schema puts in front is a repair.
LEMMA RepairBegins ==
    ASSUME NEW u \in Seq(StepNames), Len(u) = 2, u[1] = "restore", u[2] = "verify_target",
           NEW before \in {<<"grant", "alter_schema", "revoke">>, <<"alter_schema">>}
    PROVE  /\ before \o u \in Seq(StepNames) /\ IsRepair(before \o u)
           /\ Len(before \o u) > 0 /\ before \o u # <<>>
<1>. DEFINE s == before \o u
<1>0. before \in Seq(StepNames)
  <2>1. /\ <<"grant", "alter_schema", "revoke">> \in Seq(StepNames)
        /\ <<"alter_schema">> \in Seq(StepNames)
    BY DEF StepNames
  <2>. QED
    BY <2>1
<1>3. /\ s \in Seq(StepNames) /\ Len(s) = Len(before) + Len(u)
      /\ \A i \in 1 .. Len(before) + Len(u) :
             s[i] = IF i <= Len(before) THEN before[i] ELSE u[i - Len(before)]
  <2>1. ASSUME NEW v \in Seq(StepNames)
        PROVE  /\ v \o u \in Seq(StepNames) /\ Len(v \o u) = Len(v) + Len(u)
               /\ \A i \in 1 .. Len(v) + Len(u) :
                      (v \o u)[i] = IF i <= Len(v) THEN v[i] ELSE u[i - Len(v)]
    BY ConcatProperties
  <2>. QED
    BY <1>0, <2>1
<1>. HIDE DEF s
<1>1. CASE before = <<"grant", "alter_schema", "revoke">>
  <2>0. /\ before \in Seq(StepNames) /\ Len(before) = 3 /\ before[1] = "grant"
        /\ before[2] = "alter_schema" /\ before[3] = "revoke"
    BY <1>1 DEF StepNames
  <2>1. /\ s \in Seq(StepNames) /\ Len(s) = 3 + 2
        /\ \A i \in 1 .. 3 + 2 : s[i] = IF i <= 3 THEN before[i] ELSE u[i - 3]
    BY <1>3, <2>0
  <2>2. /\ Len(s) = 5 /\ s[1] = "grant" /\ s[2] = "alter_schema" /\ s[3] = "revoke"
        /\ s[4] = u[1] /\ s[5] = u[2]
    BY <2>0, <2>1
  <2>3. s # <<>>
    BY <2>1, EmptySeq
  <2>. QED
    BY <2>1, <2>2, <2>3 DEF IsRepair, s
<1>2. CASE before = <<"alter_schema">>
  <2>0. before \in Seq(StepNames) /\ Len(before) = 1 /\ before[1] = "alter_schema"
    BY <1>2 DEF StepNames
  <2>1. /\ s \in Seq(StepNames) /\ Len(s) = 1 + 2
        /\ \A i \in 1 .. 1 + 2 : s[i] = IF i <= 1 THEN before[i] ELSE u[i - 1]
    BY <1>3, <2>0
  <2>2. Len(s) = 3 /\ s[1] = "alter_schema" /\ s[2] = u[1] /\ s[3] = u[2]
    BY <2>0, <2>1
  <2>3. s # <<>>
    BY <2>1, EmptySeq
  <2>. QED
    BY <2>1, <2>2, <2>3 DEF IsRepair, s
<1>. QED
  BY <1>1, <1>2

\* A job at a step of its mode will revoke nothing.
LEMMA NothingToRevoke ==
    ASSUME CopyInv, NEW j \in Jobs, NEW step, At(j, step),
           step \notin {"grant", "alter_schema", "revoke"}
    PROVE  ~MayRevoke(job[j])
<1>1. /\ job[j].mode \in AllModes /\ IsEnd(job[j].todo, StepsOf(job[j].mode))
      /\ job[j].mode = "RecoverRehearsal" => helper = "economy"
      /\ job[j].todo \in Seq(StepNames)
  BY AtFacts DEF JobRecords
<1>2. WellPlaced(StepsOf(job[j].mode), helper, job[j].mode)
  BY <1>1, StepsPlaced DEF CopyInv
<1>. QED
  BY <1>1, <1>2, NoRepairInMode DEF MayRevoke

LEMMA EmptyRehearsalStep ==
    ASSUME CopyInv, NEW j \in Jobs, EmptyRehearsal(j)
    PROVE  CopyInv'
<1>. DEFINE t == Target(j)
            owner == t.schema
            before == IF owner = "admin" /\ ~t.granted
                      THEN <<"grant", "alter_schema", "revoke">> ELSE <<"alter_schema">>
            todo == before \o Tail(job[j].todo)
            r == [job[j] EXCEPT !.owner = owner]
            q == [r EXCEPT !.todo = todo,
                           !.outcome = IF todo # <<>> THEN @
                                       ELSE IF @ = "unwinding" THEN "failed" ELSE "done"]
            n == Left(j)
<1>0. /\ At(j, "prepare_schema") /\ t.role = job[j].run /\ t.marker = job[j].run
      /\ job' = [job EXCEPT ![j] = q]
      /\ UNCHANGED <<helper, source, writer, backup, target>>
  BY DEF EmptyRehearsal, RehearsalGuard, Proceed
<1>1. /\ job[j] \in JobRecords /\ job[j].outcome = "running"
      /\ job[j].run \in Runs /\ t \in Databases /\ job[j].target \in TargetsOf(job[j].mode)
      /\ job[j].mode = "RecoverRehearsal" => helper = "economy"
      /\ n \in Nat \ {0} /\ Placed("prepare_schema", helper, job[j].mode, n)
      /\ Established(job[j], helper, n, source, writer, backup, t)
      /\ IsEnd(job[j].todo, StepsOf(job[j].mode))
      /\ job[j].mode \in AllModes /\ ~MayRevoke(job[j])
  BY <1>0, AtFacts, NothingToRevoke
<1>2. helper = "economy" /\ n = 3 /\ job[j].mode \in {"Rehearse", "RecoverRehearsal"}
  <2>. HIDE DEF n
  <2>. QED
    BY <1>1 DEF Placed
<1>3. /\ Tail(job[j].todo) \in Seq(StepNames) /\ Len(Tail(job[j].todo)) = 2
      /\ Tail(job[j].todo)[1] = "restore" /\ Tail(job[j].todo)[2] = "verify_target"
  <2>. DEFINE s == StepsOf(job[j].mode)
              u == job[j].todo
  <2>1. Len(s) \in {15, 5} /\ s[Len(s) - 1] = "restore" /\ s[Len(s)] = "verify_target"
    BY <1>2, RepairEnds
  <2>2. u \in Seq(StepNames) /\ Len(u) = 3 /\ IsEnd(u, s)
    BY <1>1, <1>2 DEF JobRecords, Left
  <2>. HIDE DEF s, u
  <2>3. \A m \in {15, 5} : m - 3 + 2 = m - 1 /\ m - 3 + 3 = m
    OBVIOUS
  <2>4. u[2] = s[Len(s) - 3 + 2] /\ u[3] = s[Len(s) - 3 + 3]
    BY <2>2 DEF IsEnd
  <2>5. u[2] = "restore" /\ u[3] = "verify_target"
    BY <2>1, <2>3, <2>4
  <2>6. /\ Tail(u) \in Seq(StepNames) /\ Len(Tail(u)) = 2
        /\ Tail(u)[1] = u[2] /\ Tail(u)[2] = u[3]
    BY <2>2
  <2>. QED
    BY <2>5, <2>6 DEF u
<1>4. before \in {<<"grant", "alter_schema", "revoke">>, <<"alter_schema">>}
  OBVIOUS
<1>. HIDE DEF before
<1>5. todo \in Seq(StepNames) /\ IsRepair(todo) /\ Len(todo) > 0 /\ todo # <<>>
  BY <1>3, <1>4, RepairBegins
<1>6. owner \in {"admin", "owner"}
  BY <1>1 DEF Databases
<1>. HIDE DEF todo, owner, t, n
<1>7. /\ r \in JobRecords /\ r.outcome = "running" /\ r.mode = job[j].mode
      /\ r.run = job[j].run /\ r.target = job[j].target /\ r.snap = job[j].snap
      /\ r.expected = job[j].expected /\ r.dump = job[j].dump
      /\ r.fetched = job[j].fetched /\ r.frozenAt = job[j].frozenAt
  BY <1>1, <1>6 DEF JobRecords
<1>. HIDE DEF r
<1>8. /\ q \in JobRecords /\ q.outcome = "running" /\ q.mode = r.mode /\ q.todo = todo
      /\ q.run = r.run /\ q.target = r.target /\ q.snap = r.snap
      /\ q.expected = r.expected /\ q.dump = r.dump
      /\ q.fetched = r.fetched /\ q.frozenAt = r.frozenAt
  BY <1>5, <1>7 DEF JobRecords
<1>. HIDE DEF q
<1>9. Ordered(q)
  BY <1>1, <1>2, <1>5, <1>7, <1>8 DEF Ordered
<1>10. Established(q, helper, Place(q.todo), source, writer, backup, target'[q.target])
  <2>1. Place(q.todo) = 2 /\ target'[q.target] = t
    BY <1>0, <1>5, <1>7, <1>8 DEF Place, t, Target
  <2>2. Standing(job[j], helper, 2, t)
    BY <1>0 DEF Standing, Owned, RoleMade
  <2>3. Established(job[j], helper, 2, source, writer, backup, t)
    <3>1. CASE job[j].mode = "Rehearse"
      <4>1. 3 - AfterDownload(helper, job[j].mode) < 0
        BY <1>2, <3>1 DEF AfterDownload
      <4>2. Established(job[j], helper, 3 - 1, source, writer, backup, t)
        BY <1>1, <1>2, <2>2, <3>1, <4>1, CopyGoesOn
      <4>. QED
        BY <4>2
    <3>2. CASE job[j].mode = "RecoverRehearsal"
      <4>1. Recovering(job[j], 3, backup)
        BY <1>1, <1>2, <3>2 DEF Established
      <4>2. Recovering(job[j], 2, backup)
        BY <4>1 DEF Recovering
      <4>. QED
        BY <2>2, <3>2, <4>2 DEF Established
    <3>. QED
      BY <1>2, <3>1, <3>2
  <2>. QED
    BY <1>7, <1>8, <2>1, <2>3, SameFacts
<1>11. GrantsAreTemporary'
  <2>1. job'[j] = q /\ \A k \in Jobs \ {j} : job'[k] = job[k]
    BY <1>0 DEF CopyInv, TypeOK
  <2>2. ASSUME NEW name \in Targets, target'[name].granted
        PROVE  \E k \in Jobs : job'[k].target = name /\ MayRevoke(job'[k])
    <3>1. PICK k \in Jobs : job[k].target = name /\ MayRevoke(job[k])
      BY <1>0, <2>2, Temporary DEF CopyInv
    <3>. QED
      BY <3>1, <1>1, <2>1
  <2>. QED
    BY <2>2, TemporaryNext
<1>12. /\ target' \in [Targets -> Databases]
       /\ \A x \in Targets : /\ target'[x].role = target[x].role
                             /\ target'[x].marker = target[x].marker
                             /\ target'[x].data = target[x].data
  BY <1>0 DEF CopyInv, TypeOK
<1>. QED
  BY <1>0, <1>8, <1>9, <1>10, <1>11, <1>12, OneJobStep

\* What is known of a job that repairs, or revokes after a failure.
LEMMA RepairFacts ==
    ASSUME CopyInv, NEW j \in Jobs, NEW step \in {"grant", "alter_schema", "revoke"}, At(j, step)
    PROVE  /\ job[j] \in JobRecords /\ job[j].mode \in AllModes /\ job[j].run \in Runs
           /\ job[j].target \in Targets /\ job[j].target \in TargetsOf(job[j].mode)
           /\ job[j].mode = "RecoverRehearsal" => helper = "economy"
           /\ Target(j) \in Databases
           /\ \/ /\ job[j].outcome = "running" /\ IsRepair(job[j].todo) /\ helper = "economy"
                 /\ job[j].mode \in {"Rehearse", "RecoverRehearsal"}
                 /\ Established(job[j], helper, 2, source, writer, backup, Target(j))
              \/ /\ job[j].outcome = "unwinding" /\ step = "revoke"
                 /\ Len(job[j].todo) = 1
<1>1. TypeOK /\ InSequence /\ JobsEstablish
  BY DEF CopyInv
<1>2. /\ job[j] \in JobRecords /\ Head(job[j].todo) = step /\ job[j].todo \in Seq(StepNames)
      /\ job[j].outcome \in {"running", "unwinding"}
  BY <1>1 DEF TypeOK, At, Live, JobRecords
<1>3. /\ job[j].mode \in AllModes /\ job[j].run \in Runs
      /\ job[j].mode = "RecoverRehearsal" => helper = "economy"
      /\ job[j].target \in TargetsOf(job[j].mode)
  BY <1>1, <1>2 DEF InSequence, Ordered
<1>4. job[j].target \in Targets
  BY <1>3 DEF TargetsOf, Targets, AllModes
<1>5. Target(j) \in Databases
  BY <1>1, <1>4 DEF TypeOK, Target
<1>6. CASE job[j].outcome = "unwinding"
  <2>1. Len(job[j].todo) = 1 /\ job[j].todo[1] = "revoke"
    BY <1>1, <1>6 DEF InSequence, Ordered
  <2>2. Head(job[j].todo) = job[j].todo[1]
    BY <2>1, <1>2
  <2>. QED
    BY <2>1, <2>2, <1>2, <1>3, <1>4, <1>5, <1>6
<1>7. CASE job[j].outcome = "running"
  <2>1. /\ Len(job[j].todo) > 0
        /\ \/ IsEnd(job[j].todo, StepsOf(job[j].mode))
           \/ /\ IsRepair(job[j].todo) /\ helper = "economy"
              /\ job[j].mode \in {"Rehearse", "RecoverRehearsal"}
    BY <1>1, <1>7 DEF InSequence, Ordered
  <2>2. ASSUME IsEnd(job[j].todo, StepsOf(job[j].mode)) PROVE FALSE
    <3>. DEFINE s == StepsOf(job[j].mode)
    <3>1. WellPlaced(s, helper, job[j].mode) /\ s \in Seq(StepNames)
      BY <1>1, <1>3, StepsPlaced DEF WellPlaced
    <3>2. /\ Len(job[j].todo) \in 1..Len(s)
          /\ Head(job[j].todo) = s[Len(s) + 1 - Len(job[j].todo)]
      BY <1>2, <2>1, <2>2, <3>1, EndHead
    <3>3. Placed(s[Len(s) + 1 - Len(job[j].todo)], helper, job[j].mode, Len(job[j].todo))
      BY <3>1, <3>2 DEF WellPlaced
    <3>. HIDE DEF s
    <3>4. step \notin {"grant", "alter_schema", "revoke"}
      BY <3>2, <3>3, <1>2 DEF Placed
    <3>. QED
      BY <3>4
  <2>3. Established(job[j], helper, 2, source, writer, backup, Target(j))
    BY <1>1, <1>7, <2>1, <2>2 DEF JobsEstablish, Succeeding, Place
  <2>. QED
    BY <2>1, <2>2, <2>3, <1>2, <1>3, <1>4, <1>5, <1>7
<1>. QED
  BY <1>2, <1>6, <1>7

\* A step of a repair that goes on: the schema and the grants may change.
LEMMA RepairStep ==
    ASSUME CopyInv, NEW j \in Jobs, NEW step \in {"grant", "alter_schema", "revoke"},
           At(j, step), job[j].outcome = "running", Advance(j, job[j]),
           UNCHANGED <<helper, source, writer, backup>>,
           NEW t2 \in Databases, Change(j, t2),
           t2.role = Target(j).role, t2.marker = Target(j).marker, t2.data = Target(j).data,
           \/ t2.granted = Target(j).granted /\ step = "alter_schema"
           \/ step = "grant"
           \/ ~t2.granted
    PROVE  CopyInv'
<1>. DEFINE r == job[j]
            rest == Tail(r.todo)
            q == [r EXCEPT !.todo = rest,
                           !.outcome = IF rest # <<>> THEN @
                                       ELSE IF @ = "unwinding" THEN "failed" ELSE "done"]
<1>1. /\ r \in JobRecords /\ r.mode \in AllModes /\ r.run \in Runs
      /\ r.target \in Targets /\ r.target \in TargetsOf(r.mode) /\ Target(j) \in Databases
      /\ IsRepair(r.todo) /\ helper = "economy"
      /\ r.mode \in {"Rehearse", "RecoverRehearsal"}
      /\ Established(r, helper, 2, source, writer, backup, Target(j))
      /\ r.todo \in Seq(StepNames)
  BY RepairFacts DEF JobRecords
<1>2. /\ rest \in Seq(StepNames) /\ Len(rest) > 0 /\ rest # <<>>
      /\ \/ IsRepair(rest)
         \/ Len(rest) = 2 /\ rest[1] = "restore" /\ rest[2] = "verify_target"
      /\ step = "grant" => Contains(rest, "revoke")
      /\ step = "alter_schema" /\ Contains(r.todo, "revoke") => Contains(rest, "revoke")
  BY <1>1, RepairTail DEF At
<1>3. IsRepair(rest) \/ (IsEnd(rest, StepsOf(r.mode)) /\ ~IsRepair(rest) /\ Len(rest) = 2)
  <2>. HIDE DEF rest
  <2>. QED
    BY <1>1, <1>2, AfterRepair
<1>4. job' = [job EXCEPT ![j] = q]
  BY DEF Advance, Proceed
<1>. HIDE DEF rest
<1>5. /\ q \in JobRecords /\ q.outcome = "running" /\ q.mode = r.mode /\ q.todo = rest
      /\ q.run = r.run /\ q.target = r.target /\ q.snap = r.snap
      /\ q.expected = r.expected /\ q.dump = r.dump
      /\ q.fetched = r.fetched /\ q.frozenAt = r.frozenAt
  BY <1>1, <1>2 DEF JobRecords
<1>. HIDE DEF q
<1>6. Ordered(q)
  BY <1>1, <1>2, <1>3, <1>5 DEF Ordered
<1>7. /\ target' \in [Targets -> Databases] /\ target'[r.target] = t2
      /\ Target(j) = target[r.target]
      /\ \A x \in Targets : x # r.target => target'[x] = target[x]
  BY <1>1 DEF CopyInv, TypeOK, Change, Target
<1>8. \A x \in Targets : /\ target'[x].role = target[x].role
                         /\ target'[x].marker = target[x].marker
                         /\ target'[x].data = target[x].data
  BY <1>7
<1>9. Established(q, helper, Place(q.todo), source, writer, backup, target'[q.target])
  <2>1. Place(q.todo) = 2 /\ target'[q.target] = t2
    BY <1>3, <1>5, <1>7 DEF Place
  <2>2. Established(r, helper, 2, source, writer, backup, t2)
    <3>1. /\ r.run \in Runs /\ helper \in {"economy", "interim"} /\ source \in Images
          /\ writer \in Writers /\ backup \in [Runs -> Backups]
      BY <1>1 DEF CopyInv, TypeOK
    <3>2. Passes(source, writer, source, writer) /\ Fills(backup, backup)
      BY <3>1 DEF Passes, Images, Fills
    <3>3. Grows(Target(j), t2)
      BY DEF Grows
    <3>. QED
      BY <1>1, <3>1, <3>2, <3>3, Framed
  <2>. QED
    BY <1>5, <2>1, <2>2, SameFacts
<1>10. GrantsAreTemporary'
  <2>1. job'[j] = q /\ \A k \in Jobs \ {j} : job'[k] = job[k]
    BY <1>4 DEF CopyInv, TypeOK
  <2>2. ASSUME NEW name \in Targets, target'[name].granted
        PROVE  \E k \in Jobs : job'[k].target = name /\ MayRevoke(job'[k])
    <3>1. CASE name = r.target /\ step = "grant"
      <4>1. job'[j].target = name /\ MayRevoke(job'[j])
        BY <1>2, <1>5, <2>1, <3>1 DEF MayRevoke
      <4>. QED
        BY <4>1
    <3>2. CASE name = r.target /\ step # "grant"
      <4>1. step = "alter_schema" /\ target[name].granted
        BY <1>7, <2>2, <3>2
      <4>2. PICK k \in Jobs : job[k].target = name /\ MayRevoke(job[k])
        BY <4>1, Temporary DEF CopyInv
      <4>3. CASE k = j
        <5>1. job'[j].target = name /\ MayRevoke(job'[j])
          BY <1>2, <1>5, <2>1, <4>1, <4>2, <4>3 DEF MayRevoke
        <5>. QED
          BY <5>1
      <4>4. CASE k # j
        BY <2>1, <4>2, <4>4
      <4>. QED
        BY <4>3, <4>4
    <3>3. CASE name # r.target
      <4>1. target[name].granted
        BY <1>7, <2>2, <3>3
      <4>2. PICK k \in Jobs : job[k].target = name /\ MayRevoke(job[k])
        BY <4>1, Temporary DEF CopyInv
      <4>. QED
        BY <2>1, <3>3, <4>2
    <3>. QED
      BY <3>1, <3>2, <3>3
  <2>. QED
    BY <2>2, TemporaryNext
<1>. QED
  BY <1>4, <1>5, <1>6, <1>7, <1>8, <1>9, <1>10, OneJobStep

LEMMA GrantAdminStep ==
    ASSUME CopyInv, NEW j \in Jobs, GrantAdmin(j)
    PROVE  CopyInv'
<1>. DEFINE t == Target(j)
            t2 == [t EXCEPT !.granted = TRUE]
<1>1. At(j, "grant") /\ Change(j, t2) /\ Advance(j, job[j])
      /\ UNCHANGED <<helper, source, writer, backup>>
  BY DEF GrantAdmin
<1>2. t \in Databases /\ job[j].outcome = "running"
  BY <1>1, RepairFacts
<1>. HIDE DEF t
<1>3. t2.role = t.role /\ t2.marker = t.marker /\ t2.data = t.data
  BY <1>2 DEF Databases
<1>4. t2 \in Databases
  BY <1>2 DEF Databases
<1>. QED
  BY <1>1, <1>2, <1>3, <1>4, RepairStep DEF t

LEMMA AlterSchemaStep ==
    ASSUME CopyInv, NEW j \in Jobs, AlterSchema(j)
    PROVE  CopyInv'
<1>. DEFINE t == Target(j)
            t2 == [t EXCEPT !.schema = "owner"]
<1>1. At(j, "alter_schema") /\ Change(j, t2) /\ Advance(j, job[j])
      /\ UNCHANGED <<helper, source, writer, backup>>
  BY DEF AlterSchema
<1>2. t \in Databases /\ job[j].outcome = "running"
  BY <1>1, RepairFacts
<1>. HIDE DEF t
<1>3. t2.role = t.role /\ t2.marker = t.marker /\ t2.data = t.data /\ t2.granted = t.granted
  BY <1>2 DEF Databases
<1>4. t2 \in Databases
  BY <1>2 DEF Databases
<1>. QED
  BY <1>1, <1>2, <1>3, <1>4, RepairStep DEF t

\* The finally clause of a job that has failed.
LEMMA UnwindStep ==
    ASSUME CopyInv, NEW j \in Jobs, At(j, "revoke"), job[j].outcome = "unwinding",
           Advance(j, job[j]), UNCHANGED <<helper, source, writer, backup>>,
           NEW t2 \in Databases, Change(j, t2), ~t2.granted,
           t2.role = Target(j).role, t2.marker = Target(j).marker, t2.data = Target(j).data
    PROVE  CopyInv'
<1>. DEFINE r == job[j]
            rest == Tail(r.todo)
            q == [r EXCEPT !.todo = rest,
                           !.outcome = IF rest # <<>> THEN @
                                       ELSE IF @ = "unwinding" THEN "failed" ELSE "done"]
<1>1. /\ r \in JobRecords /\ r.mode \in AllModes /\ r.run \in Runs
      /\ r.target \in Targets /\ r.target \in TargetsOf(r.mode)
      /\ r.mode = "RecoverRehearsal" => helper = "economy"
      /\ Len(r.todo) = 1 /\ r.todo \in Seq(StepNames)
  BY RepairFacts DEF JobRecords
<1>2. rest \in Seq(StepNames) /\ rest = <<>>
  <2>1. rest \in Seq(StepNames) /\ Len(rest) = 0
    <3>1. ASSUME NEW u \in Seq(StepNames), Len(u) = 1
          PROVE  Tail(u) \in Seq(StepNames) /\ Len(Tail(u)) = 0
      <4>0. Len(u) > 0
        BY <3>1
      <4>1. u # <<>>
        BY <4>0, EmptySeq
      <4>2. Tail(u) \in Seq(StepNames) /\ Len(Tail(u)) = Len(u) - 1
        BY <4>1, HeadTailProperties
      <4>. QED
        BY <3>1, <4>2
    <3>. QED
      BY <1>1, <3>1
  <2>. HIDE DEF rest
  <2>. QED
    BY <2>1, EmptySeq
<1>3. job' = [job EXCEPT ![j] = q]
  BY DEF Advance, Proceed
<1>. HIDE DEF rest
<1>4. /\ q \in JobRecords /\ q.outcome = "failed" /\ q.mode = r.mode
      /\ q.run = r.run /\ q.target = r.target
  BY <1>1, <1>2 DEF JobRecords
<1>. HIDE DEF q
<1>5. Ordered(q)
  BY <1>1, <1>4 DEF Ordered
<1>6. /\ target' \in [Targets -> Databases] /\ target'[r.target] = t2
      /\ Target(j) = target[r.target]
      /\ \A x \in Targets : x # r.target => target'[x] = target[x]
  BY <1>1 DEF CopyInv, TypeOK, Change, Target
<1>7. \A x \in Targets : /\ target'[x].role = target[x].role
                         /\ target'[x].marker = target[x].marker
                         /\ target'[x].data = target[x].data
  BY <1>6
<1>8. GrantsAreTemporary'
  <2>1. \A k \in Jobs \ {j} : job'[k] = job[k]
    BY <1>3 DEF CopyInv, TypeOK
  <2>2. ASSUME NEW name \in Targets, target'[name].granted
        PROVE  \E k \in Jobs : job'[k].target = name /\ MayRevoke(job'[k])
    <3>1. name # r.target /\ target[name].granted
      BY <1>6, <2>2
    <3>2. PICK k \in Jobs : job[k].target = name /\ MayRevoke(job[k])
      BY <3>1, Temporary DEF CopyInv
    <3>. QED
      BY <2>1, <3>1, <3>2
  <2>. QED
    BY <2>2, TemporaryNext
<1>. QED
  BY <1>3, <1>4, <1>5, <1>6, <1>7, <1>8, OneJobStep

LEMMA RevokeAdminStep ==
    ASSUME CopyInv, NEW j \in Jobs, RevokeAdmin(j)
    PROVE  CopyInv'
<1>. DEFINE t == Target(j)
            t2 == [t EXCEPT !.granted = FALSE]
<1>1. At(j, "revoke") /\ Change(j, t2) /\ Advance(j, job[j])
      /\ UNCHANGED <<helper, source, writer, backup>>
  BY DEF RevokeAdmin
<1>2. t \in Databases /\ job[j].outcome \in {"running", "unwinding"}
  BY <1>1, RepairFacts
<1>. HIDE DEF t
<1>3. t2.role = t.role /\ t2.marker = t.marker /\ t2.data = t.data /\ ~t2.granted
  BY <1>2 DEF Databases
<1>4. t2 \in Databases
  BY <1>2 DEF Databases
<1>. HIDE DEF t2
<1>. QED
  BY <1>1, <1>2, <1>3, <1>4, RepairStep, UnwindStep DEF t

LEMMA StartStep ==
    ASSUME CopyInv, NEW j \in Jobs, NEW mode \in Modes, NEW run \in Runs, NEW name \in Targets,
           Start(j, mode, run, name)
    PROVE  CopyInv'
<1>. DEFINE r == job[j]
            steps == StepsOf(mode)
            q == [r EXCEPT !.outcome = "running", !.mode = mode, !.run = run,
                           !.target = name, !.todo = steps]
<1>0. /\ r.outcome = "idle" /\ name \in TargetsOf(mode) /\ job' = [job EXCEPT ![j] = q]
      /\ UNCHANGED <<helper, source, writer, backup, target>>
  BY DEF Start
<1>1. /\ r \in JobRecords /\ helper \in {"economy", "interim"} /\ mode \in AllModes
      /\ mode = "RecoverRehearsal" => helper = "economy"
  BY DEF CopyInv, TypeOK, Modes, AllModes
<1>2. WellPlaced(steps, helper, mode)
  BY <1>1, StepsPlaced DEF CopyInv
<1>3. steps \in Seq(StepNames) /\ Len(steps) > 0
  BY <1>2 DEF WellPlaced
<1>. HIDE DEF steps
<1>4. IsEnd(steps, steps)
  <2>1. ASSUME NEW i \in 1 .. Len(steps) PROVE Len(steps) - Len(steps) + i = i
    BY <1>3
  <2>. QED
    BY <1>3, <2>1 DEF IsEnd
<1>5. ~IsRepair(steps)
  BY <1>2, <1>3, <1>4, NoRepairInMode
<1>6. /\ q \in JobRecords /\ q.outcome = "running" /\ q.mode = mode /\ q.run = run
      /\ q.target = name /\ q.todo = steps
  BY <1>1, <1>3 DEF JobRecords
<1>. HIDE DEF q
<1>7. Ordered(q)
  BY <1>0, <1>1, <1>3, <1>4, <1>6 DEF Ordered, steps
<1>8. Established(q, helper, Place(q.todo), source, writer, backup, target'[q.target])
  <2>. DEFINE n == Len(steps)
              p == n - AfterDownload(helper, q.mode)
  <2>1. Place(q.todo) = n /\ n \in Nat
    BY <1>3, <1>5, <1>6 DEF Place
  <2>2. /\ q.mode \in {"Rehearse", "FinalCopy"} => p = IF q.mode = "FinalCopy" THEN 14 ELSE 8
        /\ q.mode = "Inspect" => n \in {2, 3}
        /\ q.mode = "RecoverRehearsal" => n = 5
    BY <1>2, <1>6 DEF WellPlaced
  <2>. HIDE DEF n
  <2>3. q.mode \in {"Rehearse", "FinalCopy"} => Collected(q, p, source) /\ Kept(q, p, backup)
    <3>. HIDE DEF p
    <3>. QED
      BY <2>2 DEF Collected, Kept, DumpAt
  <2>4. q.mode = "RecoverRehearsal" => Recovering(q, n, backup)
    BY <2>2 DEF Recovering
  <2>5. Standing(q, helper, n, target'[q.target])
    <3>1. q.mode \in {"Rehearse", "FinalCopy"} => n > 10 /\ n \in Nat
      BY <1>1, <2>1, <2>2 DEF AfterDownload
    <3>. QED
      BY <2>2, <3>1 DEF Standing, RoleMade, RestoreAt
  <2>6. q.mode = "FinalCopy" => Compared(q, n, source, writer, target'[q.target])
    <3>1. q.mode = "FinalCopy" => n > 10 /\ n \in Nat
      BY <1>1, <2>1, <2>2 DEF AfterDownload
    <3>. QED
      BY <3>1 DEF Compared
  <2>7. ~(q.mode = "Inspect" /\ n = 1)
    BY <2>2
  <2>. QED
    BY <2>1, <2>3, <2>4, <2>5, <2>6, <2>7 DEF Established, p
<1>9. /\ target' \in [Targets -> Databases]
      /\ \A x \in Targets : /\ target'[x].role = target[x].role
                            /\ target'[x].marker = target[x].marker
                            /\ target'[x].data = target[x].data
  BY <1>0 DEF CopyInv, TypeOK
<1>10. GrantsAreTemporary'
  <2>1. \A k \in Jobs \ {j} : job'[k] = job[k]
    BY <1>0 DEF CopyInv, TypeOK
  <2>2. ASSUME NEW x \in Targets, target'[x].granted
        PROVE  \E k \in Jobs : job'[k].target = x /\ MayRevoke(job'[k])
    <3>1. PICK k \in Jobs : job[k].target = x /\ MayRevoke(job[k])
      BY <1>0, <2>2, Temporary DEF CopyInv
    <3>2. k # j
      BY <1>0, <3>1 DEF MayRevoke
    <3>. QED
      BY <2>1, <3>1, <3>2
  <2>. QED
    BY <2>2, TemporaryNext
<1>. QED
  BY <1>0, <1>6, <1>7, <1>8, <1>9, <1>10, OneJobStep

\* A job that stops: what it was to revoke, it still is, or the revocation failed.
LEMMA StopStep ==
    ASSUME CopyInv, NEW j \in Jobs, Live(j), NEW q \in JobRecords, job' = [job EXCEPT ![j] = q],
           UNCHANGED <<helper, source, writer, backup, target>>,
           q.mode = job[j].mode, q.run = job[j].run, q.target = job[j].target,
           \/ q.outcome \in {"failed", "killed"}
           \/ q.outcome = "unwinding" /\ Len(q.todo) = 1 /\ q.todo[1] = "revoke",
           MayRevoke(job[j]) => MayRevoke(q)
    PROVE  CopyInv'
<1>1. /\ job[j].mode \in AllModes /\ job[j].run \in Runs
      /\ job[j].mode = "RecoverRehearsal" => helper = "economy"
      /\ job[j].target \in TargetsOf(job[j].mode)
  BY DEF CopyInv, InSequence, Ordered, Live
<1>2. Ordered(q) /\ q.outcome \notin {"running", "done"}
  BY <1>1 DEF Ordered
<1>3. /\ target' \in [Targets -> Databases]
      /\ \A x \in Targets : /\ target'[x].role = target[x].role
                            /\ target'[x].marker = target[x].marker
                            /\ target'[x].data = target[x].data
  BY DEF CopyInv, TypeOK
<1>4. GrantsAreTemporary'
  <2>1. job'[j] = q /\ \A k \in Jobs \ {j} : job'[k] = job[k]
    BY DEF CopyInv, TypeOK
  <2>2. ASSUME NEW x \in Targets, target'[x].granted
        PROVE  \E k \in Jobs : job'[k].target = x /\ MayRevoke(job'[k])
    <3>1. PICK k \in Jobs : job[k].target = x /\ MayRevoke(job[k])
      BY <2>2, Temporary DEF CopyInv
    <3>2. job'[k].target = x /\ MayRevoke(job'[k])
      BY <2>1, <3>1
    <3>. QED
      BY <3>2
  <2>. QED
    BY <2>2, TemporaryNext
<1>. QED
  BY <1>2, <1>3, <1>4, OneJobStep

LEMMA FailStep ==
    ASSUME CopyInv, NEW j \in Jobs, Fail(j)
    PROVE  CopyInv'
<1>. DEFINE r == job[j]
            unwound == [r EXCEPT !.outcome = "unwinding", !.todo = <<"revoke">>]
            failed == [r EXCEPT !.outcome = "failed"]
<1>1. /\ Live(j) /\ r \in JobRecords /\ job \in [Jobs -> JobRecords]
      /\ UNCHANGED <<helper, source, writer, backup, target>>
  BY DEF Fail, CopyInv, TypeOK
<1>2. <<"revoke">> \in Seq(StepNames) /\ Len(<<"revoke">>) = 1 /\ <<"revoke">>[1] = "revoke"
  BY DEF StepNames
<1>3. CASE Contains(r.todo, "revoke") /\ Head(r.todo) # "revoke"
  <2>1. job' = [job EXCEPT ![j] = unwound]
    BY <1>1, <1>3 DEF Fail, JobRecords
  <2>2. /\ unwound.outcome = "unwinding" /\ unwound.mode = r.mode /\ unwound.run = r.run
        /\ unwound.target = r.target /\ unwound.todo = <<"revoke">>
    BY <1>1 DEF JobRecords
  <2>3. unwound \in JobRecords
    BY <1>1, <1>2 DEF JobRecords
  <2>. HIDE DEF unwound
  <2>4. MayRevoke(unwound)
    BY <1>2, <2>2 DEF MayRevoke, Contains
  <2>. QED
    BY <1>1, <1>2, <2>1, <2>2, <2>3, <2>4, StopStep
<1>4. CASE ~(Contains(r.todo, "revoke") /\ Head(r.todo) # "revoke")
  <2>1. job' = [job EXCEPT ![j] = failed]
    BY <1>1, <1>4 DEF Fail
  <2>2. /\ failed \in JobRecords /\ failed.outcome = "failed" /\ failed.mode = r.mode
        /\ failed.run = r.run /\ failed.target = r.target /\ failed.todo = r.todo
    BY <1>1 DEF JobRecords
  <2>. HIDE DEF failed
  <2>3. MayRevoke(r) => MayRevoke(failed)
    BY <1>4, <2>2 DEF MayRevoke
  <2>. QED
    BY <1>1, <2>1, <2>2, <2>3, StopStep
<1>. QED
  BY <1>3, <1>4

LEMMA KillStep ==
    ASSUME CopyInv, NEW j \in Jobs, Kill(j)
    PROVE  CopyInv'
<1>. DEFINE r == job[j]
            killed == [r EXCEPT !.outcome = "killed"]
<1>1. /\ Live(j) /\ r \in JobRecords /\ job \in [Jobs -> JobRecords]
      /\ UNCHANGED <<helper, source, writer, backup, target>>
      /\ job' = [job EXCEPT ![j] = killed]
  BY DEF Kill, CopyInv, TypeOK
<1>2. /\ killed \in JobRecords /\ killed.outcome = "killed" /\ killed.mode = r.mode
      /\ killed.run = r.run /\ killed.target = r.target /\ killed.todo = r.todo
  BY <1>1 DEF JobRecords
<1>. HIDE DEF killed
<1>3. MayRevoke(r) => MayRevoke(killed)
  BY <1>2 DEF MayRevoke
<1>. QED
  BY <1>1, <1>2, <1>3, StopStep

-----------------------------------------------------------------------------
(* The writers of the source.                                              *)

LEMMA WriterStep ==
    ASSUME CopyInv, UNCHANGED <<helper, backup, target, job>>,
           source' \in Images, writer' \in Writers, Passes(source, writer, source', writer')
    PROVE  CopyInv'
<1>1. TypeOK /\ InSequence /\ JobsEstablish
  BY DEF CopyInv
<1>2. TypeOK'
  BY <1>1 DEF TypeOK
<1>3. InSequence'
  BY <1>1 DEF InSequence, Ordered, StepsOf
<1>4. JobsEstablish'
  <2>. SUFFICES ASSUME NEW k \in Jobs, job[k].outcome \in {"running", "done"}
                PROVE  Established(job[k], helper, Place(job[k].todo), source', writer',
                                   backup, target[job[k].target])
    BY DEF JobsEstablish, Succeeding, Target
  <2>1. job[k] \in JobRecords /\ job[k].run \in Runs /\ job[k].target \in Targets
    BY <1>1 DEF TypeOK, InSequence, Ordered, TargetsOf, Targets, AllModes
  <2>2. Established(job[k], helper, Place(job[k].todo), source, writer, backup,
                    target[job[k].target])
    BY <1>1 DEF JobsEstablish, Succeeding, Target
  <2>3. Place(job[k].todo) \in Nat
    BY <2>1 DEF Place, JobRecords
  <2>4. /\ helper \in {"economy", "interim"} /\ source \in Images /\ writer \in Writers
        /\ backup \in [Runs -> Backups] /\ target[job[k].target] \in Databases
    BY <2>1, <1>1 DEF TypeOK
  <2>5. Fills(backup, backup) /\ Grows(target[job[k].target], target[job[k].target])
    BY DEF Fills, Grows
  <2>. QED
    BY <2>1, <2>2, <2>3, <2>4, <2>5, Framed
<1>5. BackupIsExact' /\ TargetIsItsBackup'
  BY DEF CopyInv, BackupIsExact, TargetIsItsBackup
<1>6. GrantsAreTemporary'
  BY Temporary, TemporaryNext DEF CopyInv
<1>. QED
  BY <1>2, <1>3, <1>4, <1>5, <1>6 DEF CopyInv

LEMMA WritersStep ==
    ASSUME CopyInv, Connect \/ Disconnect \/ Write
    PROVE  CopyInv'
<1>1. source \in Images /\ writer \in Writers
  BY DEF CopyInv, TypeOK
<1>2. /\ source.rows \in 0..MaxWrites /\ source.seq \in 0..MaxWrites /\ MaxWrites \in Nat
      /\ writer.connected \in BOOLEAN /\ writer.connects \in Nat
  BY <1>1, CopyAssumption DEF Images, Writers
<1>3. CASE Connect
  <2>1. /\ UNCHANGED <<helper, source, backup, target, job>>
        /\ writer' \in Writers /\ writer'.connects = writer.connects + 1
    BY <1>2, <1>3 DEF Connect, Writers
  <2>2. Passes(source, writer, source', writer')
    BY <1>2, <2>1 DEF Passes, Counted
  <2>. QED
    BY <1>1, <2>1, <2>2, WriterStep
<1>4. CASE Disconnect
  <2>1. /\ UNCHANGED <<helper, source, backup, target, job>>
        /\ writer' \in Writers /\ writer'.connects = writer.connects /\ ~writer'.connected
    BY <1>1, <1>4 DEF Disconnect, Writers
  <2>2. Passes(source, writer, source', writer')
    BY <1>2, <2>1 DEF Passes, Counted
  <2>. QED
    BY <1>1, <2>1, <2>2, WriterStep
<1>5. CASE Write
  <2>1. UNCHANGED <<helper, writer, backup, target, job>> /\ writer.connected
    BY <1>5 DEF Write
  <2>2. source' \in Images /\ source.seq <= source'.seq
    BY <1>1, <1>2, <1>5 DEF Write, Images
  <2>3. Passes(source, writer, source', writer')
    BY <2>1, <2>2 DEF Passes, Counted
  <2>. QED
    BY <1>1, <2>1, <2>2, <2>3, WriterStep
<1>. QED
  BY <1>3, <1>4, <1>5

-----------------------------------------------------------------------------
LEMMA CopyInit == Init => CopyInv
<1>. SUFFICES ASSUME Init PROVE CopyInv
  OBVIOUS
<1>1. IdleJob \in JobRecords /\ IdleJob.outcome = "idle"
  <2>1. <<>> \in Seq(StepNames)
    BY EmptySeq
  <2>. QED
    BY <2>1 DEF IdleJob, JobRecords
<1>2. /\ AbsentTarget \in Databases /\ AbsentTarget.data = None /\ AbsentTarget.granted = FALSE
  BY DEF AbsentTarget, Databases
<1>3. Foundation \in Databases /\ Foundation.data = None /\ Foundation.granted = FALSE
  BY DEF Foundation, AbsentTarget, Databases
<1>4. TypeOK
  <2>1. source \in Images /\ writer \in Writers
    BY CopyAssumption DEF Init, Images, Writers
  <2>2. backup \in [Runs -> Backups]
    BY DEF Init, Backups
  <2>3. target \in [Targets -> Databases] /\ job \in [Jobs -> JobRecords]
    BY <1>1, <1>2, <1>3 DEF Init
  <2>. QED
    BY <2>1, <2>2, <2>3 DEF Init, TypeOK
<1>5. \A j \in Jobs : job[j].outcome = "idle"
  BY <1>1 DEF Init
<1>6. InSequence /\ JobsEstablish
  BY <1>5 DEF InSequence, Ordered, JobsEstablish, Succeeding
<1>7. BackupIsExact
  BY DEF Init, BackupIsExact
<1>8. \A name \in Targets : target[name].data = None /\ ~target[name].granted
  BY <1>2, <1>3 DEF Init
<1>9. TargetIsItsBackup /\ GrantsAreTemporary
  BY <1>8 DEF TargetIsItsBackup, GrantsAreTemporary
<1>. QED
  BY <1>4, <1>6, <1>7, <1>9 DEF CopyInv

LEMMA CopyStep ==
    ASSUME CopyInv, [Next]_vars
    PROVE  CopyInv'
<1>1. CASE Connect \/ Disconnect \/ Write
  BY <1>1, WritersStep
<1>2. ASSUME NEW j \in Jobs,
             \E mode \in Modes, run \in Runs, name \in Targets : Start(j, mode, run, name)
      PROVE  CopyInv'
  BY <1>2, StartStep
<1>3. ASSUME NEW j \in Jobs, SourceStep(j) PROVE CopyInv'
  BY <1>3, RequireFrozenStep, ExportSnapshotStep, ManifestStep, DumpStep, CompareStep
  DEF SourceStep
<1>4. ASSUME NEW j \in Jobs, ContainerStep(j) PROVE CopyInv'
  BY <1>4, UploadDumpStep, UploadManifestStep, ChecksStep, ReadRecordStep, DownloadDumpStep
  DEF ContainerStep
<1>5. ASSUME NEW j \in Jobs, CreateStep(j) PROVE CopyInv'
  BY <1>5, ChecksStep, CreateRoleStep, CreateDatabaseStep, CommentDatabaseStep DEF CreateStep
<1>6. ASSUME NEW j \in Jobs, EconomyStep(j) PROVE CopyInv'
  BY <1>6, ChecksStep, ClaimEmptyFoundationStep, EmptyRehearsalStep, GrantAdminStep,
     AlterSchemaStep, RevokeAdminStep DEF EconomyStep
<1>7. ASSUME NEW j \in Jobs, Restore(j) \/ VerifyTarget(j) \/ Fail(j) \/ Kill(j)
      PROVE  CopyInv'
  BY <1>7, RestoreStep, VerifyTargetStep, FailStep, KillStep
<1>8. CASE UNCHANGED vars
  <2>1. UNCHANGED <<helper, source, writer, backup, target, job>>
    BY <1>8 DEF vars
  <2>2. source \in Images /\ writer \in Writers
    BY DEF CopyInv, TypeOK
  <2>3. Passes(source, writer, source', writer')
    BY <2>1, <2>2 DEF Passes, Images
  <2>. QED
    BY <2>1, <2>2, <2>3, WriterStep
<1>. QED
  BY <1>1, <1>2, <1>3, <1>4, <1>5, <1>6, <1>7, <1>8 DEF Next

-----------------------------------------------------------------------------
(* The theorems.                                                           *)

\* The inductive invariant of both helpers, for any number of jobs and runs.
THEOREM CopyInvariant == Spec => []CopyInv
<1>1. Init => CopyInv
  BY CopyInit
<1>2. CopyInv /\ [Next]_vars => CopyInv'
  BY CopyStep
<1>. QED
  BY <1>1, <1>2, PTL DEF Spec

\* A stored manifest names the dump beside it, which has the rows it counts, and
\* for a final copy the sequence too: Upload refuses a name in use and the frozen
\* source is compared after pg_dump (migrate.py run, economy_migrate.py run).
THEOREM BackupIsAlwaysExact == Spec => []BackupIsExact
<1>1. CopyInv => BackupIsExact
  BY DEF CopyInv
<1>. QED
  BY <1>1, CopyInvariant, PTL

\* What a destination holds is the dump stored for the run marked on it, whatever
\* jobs of whichever runs failed or died: the restore comes after the role and
\* the mark are the run's, and both are written once.
THEOREM TargetIsAlwaysItsBackup == Spec => []TargetIsItsBackup
<1>1. CopyInv => TargetIsItsBackup
  BY DEF CopyInv
<1>. QED
  BY <1>1, CopyInvariant, PTL

\* A verified final copy has missed nothing unless a writer has come to the source
\* since the last freeze check.
THEOREM VerifiedNeverMisses == Spec => []VerifiedMissesNothing
<1>1. CopyInv => VerifiedMissesNothing
  <2>. SUFFICES ASSUME CopyInv, NEW j \in Jobs, job[j].outcome = "done",
                       job[j].mode = "FinalCopy", job[j].frozenAt = writer.connects
                PROVE  target["final"].data = source
    BY DEF VerifiedMissesNothing
  <2>1. /\ Ordered(job[j])
        /\ Established(job[j], helper, Place(job[j].todo), source, writer, backup, Target(j))
    BY DEF CopyInv, InSequence, JobsEstablish, Succeeding
  <2>2. Len(job[j].todo) = 0 /\ job[j].target = "final"
    BY <2>1 DEF Ordered, TargetsOf
  <2>3. Place(job[j].todo) = 0
    BY <2>2 DEF Place, IsRepair
  <2>4. Compared(job[j], 0, source, writer, target["final"])
    BY <2>1, <2>2, <2>3 DEF Established, Target
  <2>. QED
    BY <2>4 DEF Compared
<1>. QED
  BY <1>1, CopyInvariant, PTL

\* The administrator's grants on the rehearsal outlive its repair only when the
\* job that made them was killed or its REVOKE failed: the finally clause of
\* prepare_rehearsal_schema covers every other way out.
THEOREM GrantsAreAlwaysTemporary == Spec => []GrantsAreTemporary
<1>1. CopyInv => GrantsAreTemporary
  BY DEF CopyInv
<1>. QED
  BY <1>1, CopyInvariant, PTL

=============================================================================
