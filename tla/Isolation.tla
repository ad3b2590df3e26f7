----------------------------- MODULE Isolation -----------------------------
(***************************************************************************)
(* isolate_eventharbor.py: back up the eventharbor database, hand its      *)
(* public schema to a new application role in one transaction, and verify  *)
(* that neither application can enter the other's database.                *)
(*                                                                         *)
(* As in DatabaseCopy, a job is the list of steps it still has to make,    *)
(* each of which may fail, and nothing is undone.  Sessions with the old   *)
(* credentials come and go; the freeze is checked at instants only, the    *)
(* last of them inside the ownership transaction.                          *)
(***************************************************************************)
EXTENDS Integers, Sequences

CONSTANTS
    Jobs,         \* executions of the helper
    Runs,         \* MIGRATION_RUN_ID values
    Objects,      \* relations, types and routines of the public schema, beside
                  \* alembic_version: what the inventory lists
    Movable,      \* those of the kinds that are handed over: relations, enums,
                  \* functions and procedures
    Relations,    \* tables, views and sequences, which are checked afterwards
    Tables,       \* tables, materialized views and sequences, which a manifest lists
    Supported,    \* those of the kinds that the inventory may hold
    MaxWrites,    \* bound on the row versions and on the sequence
    MaxConnects,  \* bound on the sessions with the old credentials
    None

\* "owner" is the database owner or administrator, "stranger" any other role.
Owners == {"owner", "stranger", "app"}

Inventories == [Objects -> Owners \cup {None}]

\* What a dump or a manifest records of the database, and the stored manifest.
Images == [rows : Nat, objects : SUBSET Objects, seq : Nat]

Manifests == [inventory : Inventories, expected : Images, dump : Images]

ASSUME IsolationAssumption ==
    /\ None \notin Runs \cup Jobs \cup Owners
    /\ None \notin Images /\ None \notin Manifests
    /\ Tables \subseteq Relations /\ Relations \subseteq Movable
    /\ Movable \subseteq Objects /\ Supported \subseteq Movable
    /\ MaxWrites \in Nat /\ MaxConnects \in Nat

VARIABLES
    db,        \* the eventharbor database
    session,   \* a session with the old credentials, how many there were
    backup,    \* the private container: a dump and a manifest for each run
    other,     \* the pulseexchange database: its role, CONNECT for PUBLIC
    job

vars == <<db, session, backup, other, job>>

ApplySteps ==
    <<"inventory", "frozen",
      "snapshot", "manifest", "dump", "frozen", "close",
      "upload_dump", "download", "upload_manifest", "snapshot", "compare", "frozen",
      "inventory_again", "frozen", "guard", "transfer", "checks", "commit",
      "snapshot", "compare", "login">>

StepsOf(mode) ==
    CASE mode = "Inspect" -> <<"inventory">>
      [] mode = "Apply" -> ApplySteps
      [] mode = "Verify" -> <<"roles", "privileges", "login", "other_login", "denied">>

\* `snap` is the open snapshot.  History: `frozenAt`, the sessions there had
\* been at the last freeze check, and `inventoryAt`, at the last one before the
\* second inventory.
IdleJob ==
    [outcome |-> "idle", mode |-> None, run |-> None, todo |-> <<>>,
     inventory |-> None, snap |-> None, expected |-> None, dump |-> None,
     frozenAt |-> 0, inventoryAt |-> 0]

\* `role` is the run named by the comment on eventharbor_app, `public` whether
\* PUBLIC may connect.  `pending` is the objects an open ownership transaction
\* has altered, `lock` the job that holds its advisory lock.  History:
\* `reviewed`, that no session came between the freeze check before the second
\* inventory and the commit.
Init ==
    /\ \E owners \in Inventories :
           /\ \A o \in Objects : owners[o] # "app"
           /\ db = [rows |-> 0, seq |-> 0, owners |-> owners, role |-> None, public |-> TRUE,
                    lock |-> None, pending |-> {}, reviewed |-> TRUE]
    /\ session = [connected |-> FALSE, connects |-> 0]
    /\ backup = [r \in Runs |-> [dump |-> None, manifest |-> None]]
    /\ other = [role |-> FALSE, public |-> TRUE]
    /\ job = [j \in Jobs |-> IdleJob]

Live(j) == job[j].outcome = "running"

At(j, step) == Live(j) /\ Head(job[j].todo) = step

Advance(j, record) ==
    job' = [job EXCEPT ![j] =
        [record EXCEPT !.todo = Tail(@),
                       !.outcome = IF Len(record.todo) = 1 THEN "done" ELSE @]]

\* A step that only reads.
Reads(j, record) == Advance(j, record) /\ UNCHANGED <<db, session, backup, other>>

Start(j, mode, run) ==
    /\ job[j].outcome = "idle"
    /\ job' = [job EXCEPT ![j] = [@ EXCEPT !.outcome = "running", !.mode = mode, !.run = run,
                                           !.todo = StepsOf(mode)]]
    /\ UNCHANGED <<db, session, backup, other>>

-----------------------------------------------------------------------------
\* Applications with the old credentials, and the copy of the other database.

Connect ==
    /\ ~session.connected /\ session.connects < MaxConnects
    /\ session' = [connected |-> TRUE, connects |-> session.connects + 1]
    /\ UNCHANGED <<db, backup, other, job>>

Disconnect ==
    /\ session.connected
    /\ session' = [session EXCEPT !.connected = FALSE]
    /\ UNCHANGED <<db, backup, other, job>>

\* Rows, a sequence, or a new object, which is theirs.
Write ==
    /\ session.connected
    /\ \/ db.rows < MaxWrites /\ db' = [db EXCEPT !.rows = @ + 1]
       \/ db.seq < MaxWrites /\ db' = [db EXCEPT !.seq = @ + 1]
       \/ \E o \in Objects :
              db.owners[o] = None /\ db' = [db EXCEPT !.owners[o] = "owner"]
    /\ UNCHANGED <<session, backup, other, job>>

\* The other application's role and database appear, closed to PUBLIC last.
CopyOther ==
    /\ \/ ~other.role /\ other' = [other EXCEPT !.role = TRUE]
       \/ other.role /\ other.public /\ other' = [other EXCEPT !.public = FALSE]
    /\ UNCHANGED <<db, session, backup, job>>

-----------------------------------------------------------------------------
\* Inspection and backup

Present(owners) == {o \in Objects : owners[o] # None}

ValidateInventory(owners, role, applying) ==
    /\ Present(owners) \subseteq Supported
    /\ applying => role = None /\ \A o \in Present(owners) : owners[o] = "owner"

Inventory(j) ==
    /\ At(j, "inventory")
    /\ ValidateInventory(db.owners, db.role, job[j].mode = "Apply")
    /\ Reads(j, [job[j] EXCEPT !.inventory = db.owners])

\* A snapshot or the ownership transaction keeps a session open.
HoldsSession(j) == Live(j) /\ (job[j].snap # None \/ db.lock = j)

Drained(j) ==
    ~session.connected /\ \A k \in Jobs : HoldsSession(k) => job[k].run = job[j].run

RequireFrozen(j) ==
    /\ At(j, "frozen")
    /\ Drained(j)
    /\ Reads(j, [job[j] EXCEPT !.frozenAt = session.connects])

\* An exported snapshot, and what is read through it: rows and objects as of
\* the snapshot, sequences as of now.
Image(snap) == [rows |-> snap.rows, objects |-> snap.objects, seq |-> db.seq]

\* A manifest lists the tables and sequences only, a dump every object.
ManifestOf(image) == [image EXCEPT !.objects = @ \cap Tables]

OpenSnapshot(j) ==
    /\ At(j, "snapshot")
    /\ Reads(j, [job[j] EXCEPT !.snap = [rows |-> db.rows, objects |-> Present(db.owners)]])

Manifest(j) ==
    /\ At(j, "manifest")
    /\ Reads(j, [job[j] EXCEPT !.expected = ManifestOf(Image(job[j].snap))])

Dump(j) ==
    /\ At(j, "dump")
    /\ Reads(j, [job[j] EXCEPT !.dump = Image(job[j].snap)])

CloseSnapshot(j) ==
    /\ At(j, "close")
    /\ Reads(j, [job[j] EXCEPT !.snap = None])

Compare(j) ==
    /\ At(j, "compare")
    /\ ManifestOf(Image(job[j].snap)) = job[j].expected
    /\ Reads(j, [job[j] EXCEPT !.snap = None])

\* If-None-Match: * refuses a name that exists.
Upload(j, name, contents) ==
    /\ backup[job[j].run][name] = None
    /\ backup' = [backup EXCEPT ![job[j].run][name] = contents]
    /\ Advance(j, job[j])
    /\ UNCHANGED <<db, session, other>>

UploadDump(j) == At(j, "upload_dump") /\ Upload(j, "dump", job[j].dump)

DownloadVerified(j) ==
    /\ At(j, "download")
    /\ backup[job[j].run].dump = job[j].dump
    /\ Reads(j, job[j])

UploadManifest(j) ==
    /\ At(j, "upload_manifest")
    /\ Upload(j, "manifest", [inventory |-> job[j].inventory, expected |-> job[j].expected,
                              dump |-> job[j].dump])

\* Mutant: the inventory is validated again but not compared.
InventoryAgainUncompared(j) ==
    /\ At(j, "inventory_again")
    /\ ValidateInventory(db.owners, db.role, TRUE)
    /\ Reads(j, [job[j] EXCEPT !.inventoryAt = job[j].frozenAt])

InventoryAgain(j) ==
    /\ At(j, "inventory_again")
    /\ db.owners = job[j].inventory
    /\ ValidateInventory(db.owners, db.role, TRUE)
    /\ Reads(j, [job[j] EXCEPT !.inventoryAt = job[j].frozenAt])

-----------------------------------------------------------------------------
\* The ownership transaction.  What it does is seen when it commits; until
\* then a session may still come and add an object.

OwnershipGuard(j) ==
    /\ At(j, "guard")
    /\ db.lock = None
    /\ db.role = None /\ Drained(j)
    /\ db' = [db EXCEPT !.lock = j]
    /\ Advance(j, [job[j] EXCEPT !.frozenAt = session.connects])
    /\ UNCHANGED <<session, backup, other>>

\* Mutant: the routines and types are not altered.
TransferRelations(j) ==
    /\ At(j, "transfer")
    /\ db.role = None
    /\ db' = [db EXCEPT !.pending = Present(db.owners) \cap Relations]
    /\ Advance(j, job[j])
    /\ UNCHANGED <<session, backup, other>>

\* CREATE ROLE fails when the role exists.
TransferOwnership(j) ==
    /\ At(j, "transfer")
    /\ db.role = None
    /\ db' = [db EXCEPT !.pending = Present(db.owners) \cap Movable]
    /\ Advance(j, job[j])
    /\ UNCHANGED <<session, backup, other>>

\* The checks that end the transaction see what others have committed by then,
\* but look at relations only.
CheckOwnership(j) ==
    /\ At(j, "checks")
    /\ Present(db.owners) \cap Relations \subseteq db.pending
    /\ Reads(j, job[j])

CommitOwnership(j) ==
    /\ At(j, "commit")
    /\ db' = [db EXCEPT !.owners = [o \in Objects |-> IF o \in db.pending THEN "app" ELSE @[o]],
                        !.role = job[j].run, !.public = FALSE,
                        !.lock = None, !.pending = {},
                        !.reviewed = job[j].inventoryAt = session.connects]
    /\ Advance(j, job[j])
    /\ UNCHANGED <<session, backup, other>>

-----------------------------------------------------------------------------
\* Verification

VerifyOwnLogin(j) ==
    \/ At(j, "login") /\ db.role # None /\ Reads(j, job[j])
    \/ At(j, "other_login") /\ other.role /\ Reads(j, job[j])

VerifyRoles(j) ==
    /\ At(j, "roles")
    /\ db.role # None /\ other.role
    /\ Reads(j, job[j])

\* Mutant: one direction is enough.
CrossDeniedOneWay == ~db.public

\* Neither role has a grant on the other's database, so PUBLIC's decides.
CrossDenied == ~db.public /\ ~other.public

VerifyDenied(j) ==
    /\ At(j, "privileges") \/ At(j, "denied")
    /\ CrossDenied
    /\ Reads(j, job[j])

\* A check refuses, a statement or a request fails or its answer is lost, or
\* the container dies.  An open transaction is rolled back; if the answer to
\* its COMMIT is lost, it is committed all the same.
Fail(j) ==
    /\ Live(j)
    /\ job' = [job EXCEPT ![j] = [IdleJob EXCEPT !.outcome = "failed"]]
    /\ db' = IF db.lock = j THEN [db EXCEPT !.lock = None, !.pending = {}] ELSE db
    /\ UNCHANGED <<session, backup, other>>

-----------------------------------------------------------------------------
BackupStep(j) ==
    \/ RequireFrozen(j) \/ OpenSnapshot(j) \/ Manifest(j) \/ Dump(j) \/ CloseSnapshot(j)
    \/ Compare(j) \/ UploadDump(j) \/ DownloadVerified(j) \/ UploadManifest(j)

ApplyStep(j) ==
    \/ Inventory(j) \/ InventoryAgain(j)
    \/ OwnershipGuard(j) \/ TransferOwnership(j) \/ CheckOwnership(j)
    \/ CommitOwnership(j)

VerifyStep(j) == VerifyRoles(j) \/ VerifyDenied(j) \/ VerifyOwnLogin(j)

Next ==
    \/ Connect \/ Disconnect \/ Write \/ CopyOther
    \/ \E j \in Jobs :
           \/ \E mode \in {"Inspect", "Apply", "Verify"}, run \in Runs : Start(j, mode, run)
           \/ BackupStep(j) \/ ApplyStep(j) \/ VerifyStep(j) \/ Fail(j)

Spec == Init /\ [][Next]_vars

-----------------------------------------------------------------------------
\* The database changes hands only after a recovery backup of it and a review of
\* what is in it: the run named on the role has a stored dump, a manifest made
\* from the same rows, tables and sequences, and an inventory of just the objects
\* in the dump, all of them the owner's.  (The manifest is stored before it is
\* compared again, so the backup of a run that failed may be inexact, but then
\* nothing was changed.)  The role owns only what that inventory lists, unless a
\* session came after the freeze check that precedes the second inventory: the
\* transaction hands over whatever it finds.
ChangeIsBackedUpAndReviewed ==
    db.role # None =>
        LET stored == backup[db.role]
            listed == Present(stored.manifest.inventory)
        IN  /\ stored.dump # None /\ stored.manifest # None
            /\ stored.manifest.dump = stored.dump
            /\ stored.manifest.expected = ManifestOf(stored.dump)
            /\ listed = stored.dump.objects
            /\ \A o \in listed : stored.manifest.inventory[o] = "owner"
            /\ db.reviewed => {o \in Objects : db.owners[o] = "app"} \subseteq listed

\* An Apply that succeeded, with no session since its transaction's guard, left
\* the rows, tables and sequences of its backup, and every object of a kind that
\* is handed over belongs to the application.  (A view, a routine or a domain
\* that a session added after the second inventory goes unnoticed: the former
\* two are handed over and the domain stays with its owner.)
AppliedKeepsTheData ==
    \A j \in Jobs :
        job[j].outcome = "done" /\ job[j].mode = "Apply" /\ job[j].frozenAt = session.connects
        => /\ ManifestOf([rows |-> db.rows, objects |-> Present(db.owners), seq |-> db.seq])
                  = ManifestOf(backup[db.role].dump)
           /\ db.role = job[j].run
           /\ \A o \in Present(db.owners) \cap Movable : db.owners[o] = "app"

\* "Verified" means that both databases exist with their roles and are closed
\* to each other, whichever helper was still at work while it looked.
VerifiedIsIsolated ==
    \A j \in Jobs : job[j].outcome = "done" /\ job[j].mode = "Verify" =>
        db.role # None /\ other.role /\ ~db.public /\ ~other.public

=============================================================================
