----------------------------- MODULE Deployment -----------------------------
(***************************************************************************)
(* One deployment and the scripts that back it up, update it, restore it   *)
(* and rotate its secrets (scripts/backup.sh, update.sh, restore.sh,       *)
(* rotate_runtime_role.sh, bootstrap.sh, migrate.sh, record_images.py).    *)
(*                                                                         *)
(* A release knows its migrations, a database the ones it has applied: a   *)
(* schema is the number of them.  The state volume carries the release     *)
(* whose initializer last advanced it, which cannot be taken back, and the *)
(* files that the artifact rows of the database name.  Every release is    *)
(* unpacked in a directory of its own, with its own deployment-lock.json.  *)
(* A script is one action per step that changes something or that can      *)
(* refuse after consumers were stopped; before any step it can fail, which *)
(* runs its cleanup, or be killed, which runs nothing.  Left out: secrets  *)
(* and role restrictions, image identifiers of one release, the inbox, and *)
(* the bytes of archives.                                                  *)
(***************************************************************************)
EXTENDS Integers, FiniteSets

CONSTANTS
  Releases,      \* package versions, numbered as they were published
  Level,         \* how many migrations a release carries
  Artifacts,     \* documents that are filed in the state volume
  MaxPoints,     \* bound on published recovery points
  None           \* no release

ASSUME ReleasesAreNumbered == Releases \subseteq Nat \ {0} /\ None \notin Releases
ASSUME LevelsGrow ==
  /\ Level \in [Releases -> Nat \ {0}]
  /\ \A r, s \in Releases : r < s => Level[r] <= Level[s]
ASSUME PointsAreBounded == MaxPoints \in Nat

VARIABLES
  here,       \* the package directory the operator works in
  lock,       \* deployment-lock.json of each directory: the release it records
  db,         \* the production database: its schema and its artifact rows
  volume,     \* the state volume: its release and its files
  gateway,    \* the release whose gateway runs
  turn,       \* a `docker compose run` CLI turn is alive
  points,     \* the published recovery points
  held,       \* which lock directories exist in /tmp
  op,         \* the script that runs, its next step, was the gateway running
  staged,     \* the private staging of a backup or a restore
  partial     \* a restore dropped the database and did not complete

live == <<db, volume, gateway, turn>>
vars == <<here, lock, live, points, held, op, staged, partial>>

Kinds == {"backup", "update", "bootstrap", "rotate", "restore"}
Steps == {"stop", "reread", "dump", "archive", "inventory", "resume", "publish",
          "rotate", "drop", "load", "refill", "verify",
          "migrate", "init", "start", "check", "record"}

Idle == [kind |-> "none", at |-> "none", was |-> FALSE]
Blank == [stamp |-> None, level |-> 0, rows |-> {}, state |-> 0, files |-> {}, inventory |-> {}]

At(kinds, step) == op.kind \in kinds /\ op.at = step
Goto(step) == op' = [op EXCEPT !.at = step]

(* The scripts that reconcile through rotate_runtime_role.sh.              *)
Rotating == {"update", "bootstrap", "rotate"}
Migrating == Rotating \cup {"restore"}
Capturing == {"backup", "update"}

(***************************************************************************)
(* The guards, all of them before anything is stopped.                     *)
(***************************************************************************)
LockAlone(r) == lock[r] # None                             \* mutant

(* record_images.py --validate-applied-migrations: no applied migration    *)
(* that the lock does not record.                                          *)
LedgerAccounted(r) == lock[r] # None /\ db.level <= Level[lock[r]]

(* record_images.py --validate-live: the lock is this package's own.       *)
LockIsExact(r) == lock[r] = r

(* What a restore proves of a recovery point before it drops anything.     *)
Restorable(p) ==
  /\ p.stamp = here
  /\ p.inventory = p.rows
  /\ p.inventory \subseteq p.files

(* mkdir of the lifecycle lock.  Nothing records a restore that stopped    *)
(* half way; its message tells the operator to repair it or to retry it    *)
(* before anything else, and the operator does.                            *)
Start(kind, step) ==
  /\ op = Idle
  /\ "lifecycle" \notin held
  /\ partial => kind = "restore"
  /\ op' = [kind |-> kind, at |-> step, was |-> gateway # None]
  /\ held' = held \cup {"lifecycle"}
  /\ UNCHANGED <<here, lock, live, points, partial>>

(* The inputs are those of an operator who backs up from the directory of  *)
(* the release that runs: backup.sh itself does not compare the two.       *)
Backup ==
  /\ Cardinality(points) < MaxPoints
  /\ gateway \in {None, here}
  /\ LedgerAccounted(here) /\ LockIsExact(here)
  /\ staged' = [Blank EXCEPT !.stamp = here]
  /\ Start("backup", "stop")

Update ==
  /\ Cardinality(points) < MaxPoints
  /\ LedgerAccounted(here)
  /\ ~turn
  /\ "rotation" \notin held
  /\ staged' = [Blank EXCEPT !.stamp = lock[here]]
  /\ Start("update", "stop")

Bootstrap ==
  /\ "rotation" \notin held
  /\ UNCHANGED staged
  /\ Start("bootstrap", "rotate")

Rotate ==
  /\ "rotation" \notin held
  /\ UNCHANGED staged
  /\ Start("rotate", "rotate")

Restore(p) ==
  /\ LockIsExact(here)
  /\ Restorable(p)
  /\ ~turn
  /\ staged' = p
  /\ Start("restore", "stop")

(***************************************************************************)
(* The steps.                                                              *)
(***************************************************************************)
StopConsumers ==
  /\ At({"backup", "update", "restore"}, "stop")
  /\ gateway' = None
  /\ Goto(IF op.kind = "restore" THEN "drop" ELSE "reread")
  /\ UNCHANGED <<here, lock, db, volume, turn, points, held, staged, partial>>

(* A CLI turn does not stop with its service.                              *)
RereadConsumers ==
  /\ At(Capturing, "reread")
  /\ ~turn
  /\ Goto("dump")
  /\ UNCHANGED <<here, lock, live, points, held, staged, partial>>

Dump ==
  /\ At(Capturing, "dump")
  /\ staged' = [staged EXCEPT !.level = db.level, !.rows = db.rows]
  /\ Goto("archive")
  /\ UNCHANGED <<here, lock, live, points, held, partial>>

Archive ==
  /\ At(Capturing, "archive")
  /\ staged' = [staged EXCEPT !.state = volume.state, !.files = volume.files]
  /\ Goto("inventory")
  /\ UNCHANGED <<here, lock, live, points, held, partial>>

(* The inventory is a query of its own, compared with the archived bytes.  *)
Inventory ==
  /\ At(Capturing, "inventory")
  /\ db.rows \subseteq staged.files
  /\ staged' = [staged EXCEPT !.inventory = db.rows]
  /\ Goto(IF op.kind = "backup" /\ op.was THEN "resume" ELSE "publish")
  /\ UNCHANGED <<here, lock, live, points, held, partial>>

(* A gateway refuses a state volume that a later release has advanced.     *)
CanStart(r) == volume.state <= r

Resume ==
  /\ At({"backup"}, "resume")
  /\ CanStart(here)
  /\ gateway' = here
  /\ Goto("publish")
  /\ UNCHANGED <<here, lock, db, volume, turn, points, held, staged, partial>>

Finish ==
  /\ op' = Idle
  /\ held' = held \ (IF op.kind \in Rotating THEN {"lifecycle", "rotation"} ELSE {"lifecycle"})

Publish ==
  /\ At(Capturing, "publish")
  /\ points' = points \cup {staged}
  /\ staged' = Blank
  /\ IF op.kind = "backup" THEN Finish ELSE Goto("rotate") /\ UNCHANGED held
  /\ UNCHANGED <<here, lock, live, partial>>

EnterServing ==                                            \* mutant
  /\ At(Rotating, "rotate")
  /\ held' = held \cup {"rotation"}
  /\ Goto("migrate")
  /\ UNCHANGED <<here, lock, live, points, staged, partial>>

(* The rotation takes its own lock and stops every consumer.               *)
EnterRotation ==
  /\ At(Rotating, "rotate")
  /\ held' = held \cup {"rotation"}
  /\ gateway' = None
  /\ Goto("migrate")
  /\ UNCHANGED <<here, lock, db, volume, turn, points, staged, partial>>

DropDatabase ==
  /\ At({"restore"}, "drop")
  /\ db' = [level |-> 0, rows |-> {}]
  /\ partial' = TRUE
  /\ Goto("load")
  /\ UNCHANGED <<here, lock, volume, gateway, turn, points, held, staged>>

LoadDatabase ==
  /\ At({"restore"}, "load")
  /\ db' = [level |-> staged.level, rows |-> staged.rows]
  /\ Goto("refill")
  /\ UNCHANGED <<here, lock, volume, gateway, turn, points, held, staged, partial>>

RefillVolume ==
  /\ At({"restore"}, "refill")
  /\ volume' = [state |-> staged.state, files |-> staged.files]
  /\ Goto("verify")
  /\ UNCHANGED <<here, lock, db, gateway, turn, points, held, staged, partial>>

(* The restored trees are read back and compared with the inventory.       *)
VerifyRestored ==
  /\ At({"restore"}, "verify")
  /\ staged.inventory \subseteq volume.files
  /\ Goto("migrate")
  /\ UNCHANGED <<here, lock, live, points, held, staged, partial>>

(* migrate.sh: no row that this package does not know.                     *)
Compatible == db.level <= Level[here]

(* One migration is one transaction, so a kill can leave some of them.     *)
ApplyMigration ==
  /\ At(Migrating, "migrate")
  /\ Compatible
  /\ db.level < Level[here]
  /\ db' = [db EXCEPT !.level = @ + 1]
  /\ UNCHANGED <<here, lock, volume, gateway, turn, points, held, op, staged, partial>>

(* The ledger must equal this release's before the script goes on.         *)
Migrated ==
  /\ At(Migrating, "migrate")
  /\ db.level = Level[here]
  /\ Goto("init")
  /\ UNCHANGED <<here, lock, live, points, held, staged, partial>>

(* The initializer advances the state volume and never takes it back.      *)
InitState ==
  /\ At(Migrating, "init")
  /\ volume' = [volume EXCEPT !.state = IF CanStart(here) THEN here ELSE @]
  /\ Goto("start")
  /\ UNCHANGED <<here, lock, db, gateway, turn, points, held, staged, partial>>

StartGateway ==
  /\ At(Migrating, "start")
  /\ CanStart(here)
  /\ gateway' = here
  /\ Goto("check")
  /\ UNCHANGED <<here, lock, db, volume, turn, points, held, staged, partial>>

CheckDatabase ==
  /\ At(Migrating, "check")
  /\ IF op.kind \in {"update", "bootstrap"}
       THEN Goto("record") /\ held' = held \ {"rotation"}
       ELSE Finish
  /\ partial' = (partial /\ op.kind # "restore")
  /\ staged' = Blank
  /\ UNCHANGED <<here, lock, live, points>>

RecordLock ==
  /\ At({"update", "bootstrap"}, "record")
  /\ lock' = [lock EXCEPT ![here] = here]
  /\ Finish
  /\ UNCHANGED <<here, live, points, staged, partial>>

(***************************************************************************)
(* Failures.  A script that fails, or is interrupted, cleans up: a plain   *)
(* backup brings back the gateway it found, every other script stops the   *)
(* consumers once it is armed.  A kill leaves the lock directories.        *)
(***************************************************************************)
ArmedLate ==                                               \* mutant
  op.kind = "backup" /\ op.was /\ op.at \notin {"reread", "publish"}

Armed == op.kind # "backup" /\ ~At({"rotate"}, "rotate")
BringsBack == op.kind = "backup" /\ op.was /\ op.at # "publish"

Fail ==
  /\ op # Idle
  /\ gateway' = IF Armed THEN None
                ELSE IF BringsBack /\ CanStart(here) THEN here ELSE gateway
  /\ staged' = Blank
  /\ Finish
  /\ UNCHANGED <<here, lock, db, volume, turn, points, partial>>

Kill ==
  /\ op # Idle
  /\ op' = Idle
  /\ staged' = Blank
  /\ UNCHANGED <<here, lock, live, points, held, partial>>

(***************************************************************************)
(* The operator, and the consumers.                                        *)
(***************************************************************************)
ClearLock(l) ==
  /\ op = Idle
  /\ l \in held
  /\ held' = held \ {l}
  /\ UNCHANGED <<here, lock, live, points, op, staged, partial>>

(* A later package takes over the lock of the one before it; the operator  *)
(* may also return to a directory as it was left.                          *)
ChangePackage(r) ==
  /\ op = Idle
  /\ r # here
  /\ here' = r
  /\ \/ UNCHANGED lock
     \/ r > here /\ lock[here] # None /\ lock' = [lock EXCEPT ![r] = lock[here]]
  /\ UNCHANGED <<live, points, held, op, staged, partial>>

(* A turn is started between scripts, or while one is about to stop the    *)
(* consumers: that is what the second reading is for.  One started later   *)
(* is not caught (restore.sh:355), so the operator does not start one.     *)
StartTurn ==
  /\ ~turn /\ ~partial
  /\ op = Idle \/ At(Capturing, "stop") \/ At(Capturing, "reread")
  /\ turn' = TRUE
  /\ UNCHANGED <<here, lock, db, volume, gateway, points, held, op, staged, partial>>

EndTurn ==
  /\ turn
  /\ turn' = FALSE
  /\ UNCHANGED <<here, lock, db, volume, gateway, points, held, op, staged, partial>>

(* A consumer snapshots a document before it records it.                   *)
SnapshotFile(a) ==
  /\ gateway # None \/ turn
  /\ a \notin volume.files
  /\ volume' = [volume EXCEPT !.files = @ \cup {a}]
  /\ UNCHANGED <<here, lock, db, gateway, turn, points, held, op, staged, partial>>

InsertArtifact(a) ==
  /\ gateway # None \/ turn
  /\ db.level > 0
  /\ a \in volume.files \ db.rows
  /\ db' = [db EXCEPT !.rows = @ \cup {a}]
  /\ UNCHANGED <<here, lock, volume, gateway, turn, points, held, op, staged, partial>>

-----------------------------------------------------------------------------
Init ==
  /\ here \in Releases
  /\ lock = [r \in Releases |-> None]
  /\ db = [level |-> 0, rows |-> {}]
  /\ volume = [state |-> 0, files |-> {}]
  /\ gateway = None
  /\ turn = FALSE
  /\ points = {}
  /\ held = {}
  /\ op = Idle
  /\ staged = Blank
  /\ partial = FALSE

Capture == StopConsumers \/ RereadConsumers \/ Dump \/ Archive \/ Inventory \/ Resume \/ Publish
Replace == DropDatabase \/ LoadDatabase \/ RefillVolume \/ VerifyRestored
Reconcile ==
  \/ EnterRotation \/ ApplyMigration \/ Migrated \/ InitState
  \/ StartGateway \/ CheckDatabase \/ RecordLock

Next ==
  \/ Backup \/ Update \/ Bootstrap \/ Rotate
  \/ \E p \in points : Restore(p)
  \/ Capture \/ Replace \/ Reconcile
  \/ Fail \/ Kill
  \/ \E l \in held : ClearLock(l)
  \/ \E r \in Releases : ChangePackage(r)
  \/ StartTurn \/ EndTurn
  \/ \E a \in Artifacts : SnapshotFile(a) \/ InsertArtifact(a)

Spec == Init /\ [][Next]_vars

-----------------------------------------------------------------------------
Point ==
  [stamp : Releases \cup {None}, level : Nat, rows : SUBSET Artifacts,
   state : Releases \cup {0}, files : SUBSET Artifacts, inventory : SUBSET Artifacts]

TypeOK ==
  /\ here \in Releases
  /\ lock \in [Releases -> Releases \cup {None}]
  /\ db \in [level : Nat, rows : SUBSET Artifacts]
  /\ volume \in [state : Releases \cup {0}, files : SUBSET Artifacts]
  /\ gateway \in Releases \cup {None}
  /\ turn \in BOOLEAN /\ partial \in BOOLEAN
  /\ points \subseteq Point
  /\ staged \in Point
  /\ held \subseteq {"lifecycle", "rotation"}
  /\ op \in [kind : Kinds, at : Steps, was : BOOLEAN] \cup {Idle}

(* A published recovery point can be restored by the release it is stamped *)
(* with: no migration that this release does not know, every artifact row  *)
(* it holds with its file, and no volume that this release refuses, except *)
(* one that a release with the very same migrations has advanced, which    *)
(* the ledger cannot tell.  Otherwise the point is rejected only after     *)
(* production was dropped (backup.sh:227-234, 457-483, restore.sh:374).    *)
CanRestore(p) ==
  /\ p.stamp \in Releases
  /\ p.level <= Level[p.stamp]
  /\ p.state <= p.stamp \/ Level[p.state] = Level[p.stamp]
  /\ p.inventory = p.rows
  /\ p.inventory \subseteq p.files

RecoveryPointsRestore == \A p \in points : CanRestore(p)

(* No script, failed, killed or finished, leaves a gateway running over a  *)
(* schema or a state volume of another release, or over artifact rows      *)
(* without their files (update.sh:411-413, restore.sh:371-416).            *)
RunningIsCoherent ==
  gateway # None =>
    /\ db.level = Level[gateway]
    /\ volume.state = gateway
    /\ db.rows \subseteq volume.files

(* A backup that was not killed ends with the gateway it found running,    *)
(* whichever step failed (backup.sh:106-110, 460-467).                     *)
BackupKeepsService ==
  [][op.kind = "backup" /\ op.was /\ op' = Idle /\ "lifecycle" \notin held'
       => gateway' = here]_vars
=============================================================================
