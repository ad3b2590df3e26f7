--------------------------- MODULE DatabaseCopy ---------------------------
(***************************************************************************)
(* The database copy jobs of infra/azure-shared-postgres: migrate.py, the  *)
(* interim helper, and economy_migrate.py, which specialises it for the    *)
(* shared server and adds the rehearsal's recovery.                        *)
(*                                                                         *)
(* A job is the list of statements and requests that its mode still has to *)
(* make, each of them one action.  Anything it checks may refuse and       *)
(* anything it calls may fail or lose its answer (Fail), and the container *)
(* may die (Kill): nothing is undone, and what was committed or stored     *)
(* stays for the jobs that follow.  Writers of the source come and go: the *)
(* freeze is an acknowledgment (WRITERS_FROZEN), checked at instants only. *)
(***************************************************************************)
EXTENDS Integers, Sequences, SequencesExt

CONSTANTS
    Jobs,         \* executions of the helper
    Runs,         \* MIGRATION_RUN_ID values
    MaxWrites,    \* bound on the writes to the source
    MaxConnects,  \* bound on the writer sessions
    None

VARIABLES
    helper,   \* the one in use, "economy" or "interim"; each has its own server
    source,   \* the source's committed rows and its sequence, as versions
    writer,   \* the session of an application on the source, how many there were
    backup,   \* the private container: a dump and a manifest for each run
    target,   \* the two databases of the destination server
    job

vars == <<helper, source, writer, backup, target, job>>

Targets == {"final", "rehearsal"}
Modes == {"Inspect", "Rehearse", "FinalCopy", "Verify"}
         \cup (IF helper = "economy" THEN {"RecoverRehearsal"} ELSE {})

\* What a dump or a manifest holds: rows of one snapshot and a sequence value.
Images == [rows : 0..MaxWrites, seq : 0..MaxWrites]

\* The stored manifest; `dump` stands for the size and digest of the archive.
Records == [mode : {"Rehearse", "FinalCopy"}, target : Targets,
            expected : Images, dump : Images]

ASSUME CopyAssumption ==
    /\ None \notin Runs /\ None \notin Images /\ None \notin Records
    /\ MaxWrites \in Nat /\ MaxConnects \in Nat

\* The databases a mode may address.
TargetsOf(mode) ==
    CASE mode \in {"Rehearse", "RecoverRehearsal"} -> {"rehearsal"}
      [] mode = "Verify" -> Targets
      [] OTHER -> {"final"}

-----------------------------------------------------------------------------
\* The statements of a run, in order.  Within `with source.snapshot()` the
\* steps "manifest", "dump" and "compare" read through the exported snapshot.

\* Mutant: a frozen source is not compared after the dump.
BackupStepsUncompared(final) ==
    <<"snapshot", "manifest", "dump">> \o IF final THEN <<"frozen">> ELSE <<>>

BackupSteps(final) ==
    <<"snapshot", "manifest", "dump">>
    \o IF final THEN <<"frozen", "compare", "snapshot", "compare", "frozen">> ELSE <<>>

StoreSteps == <<"upload_dump", "upload_manifest", "read_manifest", "download">>

VerifySteps(final) ==
    <<"verify_target">> \o IF final THEN <<"frozen", "snapshot", "compare">> ELSE <<>>

CreateTarget == <<"absent", "create_role", "create_database", "comment_database">>

\* migrate.py
InterimSteps(mode) ==
    LET final == mode = "FinalCopy"
        frozen == IF final THEN <<"frozen">> ELSE <<>>
    IN  CASE mode = "Inspect" -> <<"snapshot", "manifest">>
          [] mode = "Verify" -> <<"read_record", "download", "verify_target">>
          [] OTHER -> <<"absent">> \o frozen \o BackupSteps(final) \o StoreSteps
                      \o frozen \o CreateTarget \o <<"restore">> \o VerifySteps(final)

\* economy_migrate.py
EconomySteps(mode) ==
    CASE mode = "Inspect" -> <<"empty_foundation", "snapshot", "manifest">>
      [] mode = "Verify" -> <<"read_record", "download", "verify_target">>
      [] mode = "RecoverRehearsal" ->
            <<"read_record", "download", "prepare_schema", "restore", "verify_target">>
      [] mode = "Rehearse" ->
            <<"absent">> \o BackupSteps(FALSE) \o StoreSteps \o CreateTarget
            \o <<"prepare_schema", "restore">> \o VerifySteps(FALSE)
      [] mode = "FinalCopy" ->
            <<"empty_foundation", "frozen">> \o BackupSteps(TRUE) \o StoreSteps
            \o <<"frozen", "empty_foundation", "claim", "restore">> \o VerifySteps(TRUE)

StepsOf(mode) == IF helper = "economy" THEN EconomySteps(mode) ELSE InterimSteps(mode)

-----------------------------------------------------------------------------
\* `role` and `marker` are the runs named by the comments on the application
\* role and on the database (the economy claim marks the database only; its
\* role is created in the same transaction).  `schema` is whose the public
\* schema is: the administrator's, or the database owner's.  `granted` is the
\* administrator's temporary CONNECT and CREATE.
AbsentTarget ==
    [exists |-> FALSE, role |-> None, marker |-> None, schema |-> "admin",
     data |-> None, granted |-> FALSE]

Foundation == [AbsentTarget EXCEPT !.exists = TRUE]

\* `snap` is the rows of the open snapshot, `expected` the first manifest or
\* the stored one, `dump` and `fetched` the local archives.  History:
\* `frozenAt`, the writer sessions there had been at the last freeze check.
IdleJob ==
    [outcome |-> "idle", mode |-> None, run |-> None, target |-> None, todo |-> <<>>,
     snap |-> None, expected |-> None, dump |-> None, fetched |-> None, owner |-> None,
     frozenAt |-> 0]

Init ==
    /\ source = [rows |-> 0, seq |-> 0]
    /\ writer = [connected |-> FALSE, connects |-> 0]
    /\ backup = [r \in Runs |-> [dump |-> None, manifest |-> None]]
    /\ helper \in {"economy", "interim"}
    /\ target = [name \in Targets |->
                    IF name = "final" /\ helper = "economy" THEN Foundation ELSE AbsentTarget]
    /\ job = [j \in Jobs |-> IdleJob]

Live(j) == job[j].outcome \in {"running", "unwinding"}

At(j, step) == Live(j) /\ Head(job[j].todo) = step

Target(j) == target[job[j].target]
Stored(j) == backup[job[j].run]
Final(j) == job[j].target = "final"

\* The job has done its first step and carries on with `todo`.
Proceed(j, record, todo) ==
    job' = [job EXCEPT ![j] =
        [record EXCEPT !.todo = todo,
                       !.outcome = IF todo # <<>> THEN @
                                   ELSE IF @ = "unwinding" THEN "failed" ELSE "done"]]

Advance(j, record) == Proceed(j, record, Tail(job[j].todo))

Start(j, mode, run, name) ==
    /\ job[j].outcome = "idle"
    /\ name \in TargetsOf(mode)
    /\ job' = [job EXCEPT ![j] = [@ EXCEPT !.outcome = "running", !.mode = mode,
                                           !.run = run, !.target = name,
                                           !.todo = StepsOf(mode)]]
    /\ UNCHANGED <<helper, source, writer, backup, target>>

-----------------------------------------------------------------------------
\* The applications that write to the source.  A sequence moves at once, rows
\* when their transaction commits.

Connect ==
    /\ ~writer.connected /\ writer.connects < MaxConnects
    /\ writer' = [connected |-> TRUE, connects |-> writer.connects + 1]
    /\ UNCHANGED <<helper, source, backup, target, job>>

Disconnect ==
    /\ writer.connected
    /\ writer' = [writer EXCEPT !.connected = FALSE]
    /\ UNCHANGED <<helper, source, backup, target, job>>

Write ==
    /\ writer.connected
    /\ \/ source.rows < MaxWrites /\ source' = [source EXCEPT !.rows = @ + 1]
       \/ source.seq < MaxWrites /\ source' = [source EXCEPT !.seq = @ + 1]
    /\ UNCHANGED <<helper, writer, backup, target, job>>

-----------------------------------------------------------------------------
\* Reading the source

\* A job's open snapshot is a session of the source, named after its run.
HoldsSession(j) == Live(j) /\ job[j].snap # None

\* Mutant: no session is counted, as if the names were always equal.
RequireFrozenUnnamed(j) ==
    /\ At(j, "frozen")
    /\ Advance(j, [job[j] EXCEPT !.frozenAt = writer.connects])
    /\ UNCHANGED <<helper, source, writer, backup, target>>

\* The economy helper counts names that are DISTINCT FROM its own, the interim
\* helper names that are <> to it: no client session is without a name (it is
\* empty at least), so both count the same sessions.
RequireFrozen(j) ==
    /\ At(j, "frozen")
    /\ ~writer.connected
    /\ \A k \in Jobs : HoldsSession(k) => job[k].run = job[j].run
    /\ Advance(j, [job[j] EXCEPT !.frozenAt = writer.connects])
    /\ UNCHANGED <<helper, source, writer, backup, target>>

ExportSnapshot(j) ==
    /\ At(j, "snapshot")
    /\ Advance(j, [job[j] EXCEPT !.snap = source.rows])
    /\ UNCHANGED <<helper, source, writer, backup, target>>

\* The manifest's queries read rows through the snapshot; a sequence has the
\* value of the moment.
ManifestNow(j) == [rows |-> job[j].snap, seq |-> source.seq]

Manifest(j) ==
    /\ At(j, "manifest")
    /\ Advance(j, [job[j] EXCEPT !.expected = ManifestNow(j),
                                 !.snap = IF job[j].mode = "Inspect" THEN None ELSE @])
    /\ UNCHANGED <<helper, source, writer, backup, target>>

Dump(j) ==
    /\ At(j, "dump")
    /\ Advance(j, [job[j] EXCEPT !.dump = ManifestNow(j),
                                 !.snap = IF job[j].mode = "FinalCopy" THEN @ ELSE None])
    /\ UNCHANGED <<helper, source, writer, backup, target>>

RequireSame(expected, actual, sequences) ==
    expected.rows = actual.rows /\ (sequences => expected.seq = actual.seq)

Compare(j) ==
    /\ At(j, "compare")
    /\ RequireSame(job[j].expected, ManifestNow(j), TRUE)
    /\ Advance(j, [job[j] EXCEPT !.snap = None])
    /\ UNCHANGED <<helper, source, writer, backup, target>>

-----------------------------------------------------------------------------
\* The private container

\* If-None-Match: * refuses a name that exists.
FreeName(run, name) == backup[run][name] = None

Upload(j, name, contents) ==
    /\ FreeName(job[j].run, name)
    /\ backup' = [backup EXCEPT ![job[j].run][name] = contents]
    /\ Advance(j, job[j])
    /\ UNCHANGED <<helper, source, writer, target>>

RecordOf(j) == [mode |-> job[j].mode, target |-> job[j].target,
                expected |-> job[j].expected, dump |-> job[j].dump]

UploadDump(j) == At(j, "upload_dump") /\ Upload(j, "dump", job[j].dump)

UploadManifest(j) == At(j, "upload_manifest") /\ Upload(j, "manifest", RecordOf(j))

ReadManifest(j) ==
    /\ At(j, "read_manifest")
    /\ Stored(j).manifest = RecordOf(j)
    /\ Advance(j, job[j])
    /\ UNCHANGED <<helper, source, writer, backup, target>>

\* Verify and RecoverRehearsal work from the manifest stored for their run.
ReadRecord(j) ==
    /\ At(j, "read_record")
    /\ Stored(j).manifest # None
    /\ Stored(j).manifest.target = job[j].target
    /\ Stored(j).manifest.mode = IF Final(j) THEN "FinalCopy" ELSE "Rehearse"
    /\ Advance(j, [job[j] EXCEPT !.expected = Stored(j).manifest.expected,
                                 !.dump = Stored(j).manifest.dump])
    /\ UNCHANGED <<helper, source, writer, backup, target>>

\* The bytes that come back must have the digest of the dump.
DownloadDump(j) ==
    /\ At(j, "download")
    /\ Stored(j).dump # None /\ Stored(j).dump = job[j].dump
    /\ Advance(j, [job[j] EXCEPT !.fetched = Stored(j).dump])
    /\ UNCHANGED <<helper, source, writer, backup, target>>

-----------------------------------------------------------------------------
\* The destination

Change(j, record) == target' = [target EXCEPT ![job[j].target] = record]

RequireAbsent(j) ==
    /\ At(j, "absent")
    /\ ~Target(j).exists /\ Target(j).role = None
    /\ Advance(j, job[j])
    /\ UNCHANGED <<helper, source, writer, backup, target>>

\* create_target commits three times; a role or a database that exists is an error.
CreateRole(j) ==
    /\ At(j, "create_role")
    /\ Target(j).role = None
    /\ Change(j, [Target(j) EXCEPT !.role = job[j].run])
    /\ Advance(j, job[j])
    /\ UNCHANGED <<helper, source, writer, backup>>

CreateDatabase(j) ==
    /\ At(j, "create_database")
    /\ ~Target(j).exists
    /\ \E schema \in {"admin", "owner"} :
           Change(j, [Target(j) EXCEPT !.exists = TRUE, !.schema = schema])
    /\ Advance(j, job[j])
    /\ UNCHANGED <<helper, source, writer, backup>>

CommentDatabase(j) ==
    /\ At(j, "comment_database")
    /\ Change(j, [Target(j) EXCEPT !.marker = job[j].run])
    /\ Advance(j, job[j])
    /\ UNCHANGED <<helper, source, writer, backup>>

EmptyFoundationGuard(j) == Target(j).exists /\ Target(j).role = None /\ Target(j).data = None

EmptyFoundation(j) ==
    /\ At(j, "empty_foundation")
    /\ EmptyFoundationGuard(j)
    /\ Advance(j, job[j])
    /\ UNCHANGED <<helper, source, writer, backup, target>>

\* One transaction under an advisory lock, which repeats the guard.
ClaimEmptyFoundation(j) ==
    /\ At(j, "claim")
    /\ EmptyFoundationGuard(j)
    /\ Change(j, [Target(j) EXCEPT !.role = job[j].run, !.schema = "owner",
                                   !.marker = job[j].run])
    /\ Advance(j, job[j])
    /\ UNCHANGED <<helper, source, writer, backup>>

-----------------------------------------------------------------------------
\* The rehearsal's schema

\* Mutant: the comment on the database is not read, as if the role's were enough.
RehearsalGuardUnmarked(j, owner) ==
    /\ Target(j).exists /\ Target(j).data = None
    /\ Target(j).role = job[j].run
    /\ Target(j).schema = owner

RehearsalGuard(j, owner) ==
    /\ Target(j).exists /\ Target(j).data = None
    /\ Target(j).role = job[j].run /\ Target(j).marker = job[j].run
    /\ Target(j).schema = owner

\* empty_rehearsal: what prepare_rehearsal_schema will do is decided on what
\* it reads here.  A recovery takes the administrator's schema only.
EmptyRehearsal(j) ==
    LET owner == Target(j).schema
        temporary == owner = "admin" /\ ~Target(j).granted
    IN  /\ At(j, "prepare_schema")
        /\ RehearsalGuard(j, owner)
        /\ job[j].mode = "RecoverRehearsal" => owner = "admin"
        /\ Proceed(j, [job[j] EXCEPT !.owner = owner],
                   (IF temporary THEN <<"grant", "alter_schema", "revoke">>
                    ELSE <<"alter_schema">>) \o Tail(job[j].todo))
        /\ UNCHANGED <<helper, source, writer, backup, target>>

GrantAdmin(j) ==
    /\ At(j, "grant")
    /\ RehearsalGuard(j, job[j].owner)
    /\ Change(j, [Target(j) EXCEPT !.granted = TRUE])
    /\ Advance(j, job[j])
    /\ UNCHANGED <<helper, source, writer, backup>>

\* The administrator needs the grants; the owner of the schema does not.
AlterSchema(j) ==
    /\ At(j, "alter_schema")
    /\ RehearsalGuard(j, job[j].owner)
    /\ job[j].owner = "admin" => Target(j).granted
    /\ Change(j, [Target(j) EXCEPT !.schema = "owner"])
    /\ Advance(j, job[j])
    /\ UNCHANGED <<helper, source, writer, backup>>

RevokeAdmin(j) ==
    /\ At(j, "revoke")
    /\ Change(j, [Target(j) EXCEPT !.granted = FALSE])
    /\ Advance(j, job[j])
    /\ UNCHANGED <<helper, source, writer, backup>>

-----------------------------------------------------------------------------
\* pg_restore in one transaction, as the application role: an object that
\* exists, or a schema the role does not own, fails it whole.
Restore(j) ==
    /\ At(j, "restore")
    /\ Target(j).exists /\ Target(j).role # None /\ Target(j).schema = "owner"
    /\ Target(j).data = None
    /\ Change(j, [Target(j) EXCEPT !.data = job[j].fetched])
    /\ Advance(j, job[j])
    /\ UNCHANGED <<helper, source, writer, backup>>

VerifyTarget(j) ==
    /\ At(j, "verify_target")
    /\ Target(j).data # None
    /\ RequireSame(job[j].expected, Target(j).data, Final(j))
    /\ Advance(j, job[j])
    /\ UNCHANGED <<helper, source, writer, backup, target>>

-----------------------------------------------------------------------------
\* Mutant: the grants are revoked on success only.
FailOutright(j) ==
    /\ Live(j)
    /\ job' = [job EXCEPT ![j].outcome = "failed"]
    /\ UNCHANGED <<helper, source, writer, backup, target>>

\* A check refuses, a statement or a request fails, or its answer is lost.
\* Between the grant and its revocation the `finally` clause runs first.
Fail(j) ==
    /\ Live(j)
    /\ IF Contains(job[j].todo, "revoke") /\ Head(job[j].todo) # "revoke"
       THEN job' = [job EXCEPT ![j].outcome = "unwinding", ![j].todo = <<"revoke">>]
       ELSE job' = [job EXCEPT ![j].outcome = "failed"]
    /\ UNCHANGED <<helper, source, writer, backup, target>>

\* The container dies.
Kill(j) ==
    /\ Live(j)
    /\ job' = [job EXCEPT ![j].outcome = "killed"]
    /\ UNCHANGED <<helper, source, writer, backup, target>>

-----------------------------------------------------------------------------
SourceStep(j) ==
    \/ RequireFrozen(j) \/ ExportSnapshot(j) \/ Manifest(j) \/ Dump(j) \/ Compare(j)

ContainerStep(j) ==
    \/ UploadDump(j) \/ UploadManifest(j) \/ ReadManifest(j) \/ ReadRecord(j)
    \/ DownloadDump(j)

CreateStep(j) ==
    \/ RequireAbsent(j) \/ CreateRole(j) \/ CreateDatabase(j) \/ CommentDatabase(j)

\* Only the economy helper takes these.
EconomyStep(j) ==
    \/ EmptyFoundation(j) \/ ClaimEmptyFoundation(j)
    \/ EmptyRehearsal(j) \/ GrantAdmin(j) \/ AlterSchema(j) \/ RevokeAdmin(j)

Next ==
    \/ Connect \/ Disconnect \/ Write
    \/ \E j \in Jobs :
           \/ \E mode \in Modes, run \in Runs, name \in Targets : Start(j, mode, run, name)
           \/ SourceStep(j) \/ ContainerStep(j) \/ CreateStep(j) \/ EconomyStep(j)
           \/ Restore(j) \/ VerifyTarget(j) \/ Fail(j) \/ Kill(j)

Spec == Init /\ [][Next]_vars

-----------------------------------------------------------------------------
\* A manifest is stored only beside the dump it names, which has the rows the
\* manifest counts.  For a final copy the sequence is the same too, although
\* the manifest and pg_dump read it at different moments: the comparison made
\* after the dump closes the gap (economy_migrate.py run, migrate.py run).
BackupIsExact ==
    \A r \in Runs :
        LET stored == backup[r]
        IN  stored.manifest # None =>
                /\ stored.dump # None /\ stored.manifest.dump = stored.dump
                /\ RequireSame(stored.manifest.expected, stored.dump,
                               stored.manifest.mode = "FinalCopy")

\* Whatever a destination database holds came from the dump stored for the run
\* that is marked on it, whichever jobs ran, failed or died in between, and
\* that run's manifest was made for this destination.
TargetIsItsBackup ==
    \A name \in Targets :
        LET t == target[name]
        IN  t.data # None =>
                /\ t.marker # None /\ t.role = t.marker
                /\ backup[t.marker].manifest # None
                /\ backup[t.marker].manifest.target = name
                /\ backup[t.marker].dump = t.data

\* A FinalCopy that returned "verified" has left nothing behind, unless a
\* writer has connected to the source since the last freeze check: the freeze
\* is not enforced, but one that holds from the last check on is enough.
VerifiedMissesNothing ==
    \A j \in Jobs :
        job[j].outcome = "done" /\ job[j].mode = "FinalCopy"
            /\ job[j].frozenAt = writer.connects
        => target["final"].data = source

\* The administrator's temporary grants outlive the repair only when the job
\* that made them was killed or its REVOKE failed.
GrantsAreTemporary ==
    \A name \in Targets : target[name].granted =>
        \E j \in Jobs :
            /\ job[j].target = name /\ Contains(job[j].todo, "revoke")
            /\ \/ Live(j) \/ job[j].outcome = "killed"
               \/ job[j].outcome = "failed" /\ Head(job[j].todo) = "revoke"

=============================================================================
