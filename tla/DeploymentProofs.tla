-------------------------- MODULE DeploymentProofs --------------------------
(***************************************************************************)
(* What the lifecycle scripts guarantee, for every set of releases whose   *)
(* migrations only grow, every set of artifacts and every bound.           *)
(*                                                                         *)
(* The scripts hold one lock, so the argument follows a single script from *)
(* step to step: what its guards proved of the ledger stays true because   *)
(* nothing but its own migrate steps changes the schema, and what it       *)
(* captured stays true because the consumers are down and no turn is left. *)
(***************************************************************************)
EXTENDS Deployment, TLAPS

(***************************************************************************)
(* The inductive invariant.  Each conjunct says what one phase of a script *)
(* has established for the next.                                           *)
(***************************************************************************)
CaptureSteps == {"stop", "reread", "dump", "archive", "inventory", "publish"}
ReconcileSteps == {"migrate", "init", "start", "check"}

(* Which steps a script of each kind can be at.                            *)
Shape ==
  /\ op.kind \in Kinds \cup {"none"}
  /\ op.kind = "none" => op = Idle
  /\ op.kind = "backup" => op.at \in CaptureSteps \cup {"resume"}
  /\ op.at = "resume" => op.was
  /\ op.kind = "update" => op.at \in CaptureSteps \cup ReconcileSteps \cup {"rotate", "record"}
  /\ op.kind = "bootstrap" => op.at \in ReconcileSteps \cup {"rotate", "record"}
  /\ op.kind = "rotate" => op.at \in ReconcileSteps \cup {"rotate"}
  /\ op.kind = "restore" =>
       op.at \in ReconcileSteps \cup {"stop", "drop", "load", "refill", "verify"}

Locked ==
  /\ op # Idle => "lifecycle" \in held
  /\ op.kind \notin {"none", "restore"} => ~partial
  /\ op.kind = "restore" /\ op.at \notin {"stop", "drop"} => partial

(* Outside a restore the volume is not ahead of the schema, and holds the  *)
(* file of every artifact row.                                             *)
Behind == volume.state = 0 \/ Level[volume.state] <= db.level
Filed == db.rows \subseteq volume.files
Sound == ~partial => Behind /\ Filed

(* A capture sees nothing move, and ends with a point that restores.       *)
Staging ==
  op.kind \in Capturing =>
    /\ op.at \in CaptureSteps \cup {"resume"} =>
         staged.stamp \in Releases /\ db.level <= Level[staged.stamp]
    /\ op.at \in {"reread", "dump", "archive", "inventory", "resume"} => gateway = None
    /\ op.at \in {"dump", "archive", "inventory", "resume"} => ~turn
    /\ op.at \in {"archive", "inventory"} => staged.level = db.level /\ staged.rows = db.rows
    /\ op.at = "inventory" => staged.state = volume.state
    /\ op.at \in {"resume", "publish"} => CanRestore(staged)

(* A backup that found a gateway can bring it back.                        *)
Serving ==
  op.kind = "backup" /\ op.was =>
    /\ op.at \in {"stop", "publish"} => gateway = here
    /\ db.level = Level[here]
    /\ volume.state = here

(* A restore drops production only for a point that it can load.           *)
Restoring ==
  op.kind = "restore" =>
    /\ CanRestore(staged) /\ staged.stamp = here
    /\ ~turn
    /\ op.at \notin {"stop", "check"} => gateway = None
    /\ op.at \in {"refill", "verify"} => db.rows = staged.rows
    /\ op.at = "verify" => volume.files = staged.files

(* The gateway starts over its own schema and its own volume.              *)
Reconciling ==
  /\ op.at \in {"migrate", "init", "start"} => gateway = None
  /\ op.at \in ReconcileSteps => Filed
  /\ op.at \in {"init", "start", "check"} => db.level = Level[here]
  /\ op.at = "start" => here <= volume.state
  /\ op.at = "check" => gateway = here

IInv ==
  /\ TypeOK /\ Shape /\ Locked /\ Sound
  /\ Staging /\ Serving /\ Restoring /\ Reconciling
  /\ RunningIsCoherent /\ RecoveryPointsRestore

-----------------------------------------------------------------------------
(* Two captures that write several fields of the staging at once.          *)
LEMMA DumpPreserves ==
  ASSUME IInv, Dump
  PROVE  IInv'
<1> USE DEF Dump, At, Goto, Capturing
<1>1. staged' \in Point
  BY DEF IInv, TypeOK, Point
<1>2. op' \in [kind : Kinds, at : Steps, was : BOOLEAN]
  BY DEF IInv, TypeOK, Kinds, Steps, Idle
<1>3. TypeOK'
  BY <1>1, <1>2 DEF IInv, TypeOK, live
<1>4. Shape' /\ Locked' /\ Sound'
  BY DEF IInv, TypeOK, Shape, Locked, Sound, Behind, Filed, CaptureSteps, Idle, live
<1>5. Staging' /\ Serving'
  BY DEF IInv, TypeOK, Point, Staging, Serving, CaptureSteps, Idle, live
<1>6. Restoring' /\ Reconciling'
  BY DEF IInv, TypeOK, Filed, Restoring, CanRestore, Reconciling, ReconcileSteps, Idle, live
<1>7. RunningIsCoherent' /\ RecoveryPointsRestore'
  BY DEF IInv, RunningIsCoherent, RecoveryPointsRestore, CanRestore, live
<1> QED
  BY <1>3, <1>4, <1>5, <1>6, <1>7 DEF IInv

LEMMA ArchivePreserves ==
  ASSUME IInv, Archive
  PROVE  IInv'
<1> USE DEF Archive, At, Goto, Capturing
<1>1. staged' \in Point
  BY DEF IInv, TypeOK, Point
<1>2. op' \in [kind : Kinds, at : Steps, was : BOOLEAN]
  BY DEF IInv, TypeOK, Kinds, Steps, Idle
<1>3. TypeOK'
  BY <1>1, <1>2 DEF IInv, TypeOK, live
<1>4. Shape' /\ Locked' /\ Sound'
  BY DEF IInv, TypeOK, Shape, Locked, Sound, Behind, Filed, CaptureSteps, Idle, live
<1>5. Staging' /\ Serving'
  BY DEF IInv, TypeOK, Point, Staging, Serving, CaptureSteps, Idle, live
<1>6. Restoring' /\ Reconciling'
  BY DEF IInv, TypeOK, Filed, Restoring, CanRestore, Reconciling, ReconcileSteps, Idle, live
<1>7. RunningIsCoherent' /\ RecoveryPointsRestore'
  BY DEF IInv, RunningIsCoherent, RecoveryPointsRestore, CanRestore, live
<1> QED
  BY <1>3, <1>4, <1>5, <1>6, <1>7 DEF IInv

LEMMA ResumePreserves ==
  ASSUME IInv, Resume
  PROVE  IInv'
<1> USE DEF Resume, CanStart, At, Goto, Capturing
<1>1. gateway' \in Releases
  BY DEF IInv, TypeOK
<1>2. op' \in [kind : Kinds, at : Steps, was : BOOLEAN]
  BY DEF IInv, TypeOK, Kinds, Steps, Idle
<1>3. TypeOK'
  BY <1>1, <1>2 DEF IInv, TypeOK, live
<1>4. Shape' /\ Locked' /\ Sound'
  BY DEF IInv, TypeOK, Shape, Locked, Sound, Behind, Filed, CaptureSteps, Idle, live
<1>5. Staging' /\ Serving'
  BY DEF IInv, TypeOK, Point, Staging, Serving, CaptureSteps, Idle, live
<1>6. Restoring' /\ Reconciling'
  BY DEF IInv, TypeOK, Filed, Restoring, CanRestore, Reconciling, ReconcileSteps, Idle, live
<1>7. RunningIsCoherent' /\ RecoveryPointsRestore'
  BY DEF IInv, TypeOK, Sound, Filed, Locked, Shape, Serving, RunningIsCoherent, RecoveryPointsRestore,
         CanRestore
<1> QED
  BY <1>3, <1>4, <1>5, <1>6, <1>7 DEF IInv

LEMMA StartGatewayPreserves ==
  ASSUME IInv, StartGateway
  PROVE  IInv'
<1> USE DEF StartGateway, CanStart, At, Goto, Migrating, Rotating
<1>1. gateway' \in Releases
  BY DEF IInv, TypeOK
<1>2. op' \in [kind : Kinds, at : Steps, was : BOOLEAN]
  BY DEF IInv, TypeOK, Kinds, Steps, Idle
<1>3. TypeOK'
  BY <1>1, <1>2 DEF IInv, TypeOK, live
<1>4. Shape' /\ Locked' /\ Sound'
  BY DEF IInv, TypeOK, Shape, Locked, Sound, Behind, Filed, CaptureSteps, ReconcileSteps,
         Idle, live
<1>5. Staging' /\ Serving'
  BY DEF IInv, TypeOK, Point, Staging, Serving, CaptureSteps, Idle, live
<1>6. Restoring' /\ Reconciling'
  BY DEF IInv, TypeOK, Filed, Restoring, CanRestore, Reconciling, ReconcileSteps, Idle, live
<1>7. volume.state = here
  BY ReleasesAreNumbered DEF IInv, TypeOK, Reconciling, ReconcileSteps
<1>8. RunningIsCoherent' /\ RecoveryPointsRestore'
  BY <1>7 DEF IInv, TypeOK, Filed, Reconciling, ReconcileSteps, RunningIsCoherent,
         RecoveryPointsRestore, CanRestore
<1> QED
  BY <1>3, <1>4, <1>5, <1>6, <1>8 DEF IInv

LEMMA EndTurnPreserves ==
  ASSUME IInv, EndTurn
  PROVE  IInv'
<1> USE DEF EndTurn
<1>1. TypeOK'
  BY DEF IInv, TypeOK
<1>2. Shape' /\ Locked' /\ Sound'
  BY DEF IInv, Shape, Locked, Sound, Behind, Filed, CaptureSteps, Idle
<1>3. Staging' /\ Serving'
  BY DEF IInv, Staging, Serving, CaptureSteps, Idle
<1>4. Restoring' /\ Reconciling'
  BY DEF IInv, TypeOK, Filed, Restoring, CanRestore, Reconciling, ReconcileSteps, Idle
<1>5. RunningIsCoherent' /\ RecoveryPointsRestore'
  BY DEF IInv, RunningIsCoherent, RecoveryPointsRestore, CanRestore
<1> QED
  BY <1>1, <1>2, <1>3, <1>4, <1>5 DEF IInv

(* A script that begins has proved what its first step relies on.          *)
LEMMA BeginPreserves ==
  ASSUME IInv, Backup \/ Update \/ Bootstrap \/ Rotate \/ (\E p \in points : Restore(p))
  PROVE  IInv'
<1> USE ReleasesAreNumbered, LevelsGrow
    DEF IInv, TypeOK, Shape, Locked, Sound, Behind, Filed, Staging, Serving, Restoring,
        Reconciling, RunningIsCoherent, RecoveryPointsRestore, CanRestore, Point, Kinds,
        Steps, CaptureSteps, ReconcileSteps, Capturing, Rotating, Migrating, At, Goto,
        live, Idle
<1>1. ASSUME Backup
      PROVE  IInv'
  BY <1>1 DEF Backup, Start, LedgerAccounted, LockIsExact, Blank
<1>2. ASSUME Update
      PROVE  IInv'
  BY <1>2 DEF Update, Start, LedgerAccounted, Blank
<1>3. ASSUME Bootstrap
      PROVE  IInv'
  BY <1>3 DEF Bootstrap, Start
<1>4. ASSUME Rotate
      PROVE  IInv'
  BY <1>4 DEF Rotate, Start
<1>5. ASSUME NEW p \in points, Restore(p)
      PROVE  IInv'
  BY <1>5 DEF Restore, Start, LockIsExact, Restorable
<1> QED
  BY <1>1, <1>2, <1>3, <1>4, <1>5

(* The consumers are stopped and read again, then the capture is taken.    *)
LEMMA CapturePreserves ==
  ASSUME IInv, Capture
  PROVE  IInv'
<1> USE ReleasesAreNumbered, LevelsGrow
    DEF IInv, TypeOK, Shape, Locked, Sound, Behind, Filed, Staging, Serving, Restoring,
        Reconciling, RunningIsCoherent, RecoveryPointsRestore, CanRestore, Point, Kinds,
        Steps, CaptureSteps, ReconcileSteps, Capturing, Rotating, Migrating, At, Goto,
        live, Idle
<1>1. ASSUME StopConsumers
      PROVE  IInv'
  BY <1>1 DEF StopConsumers
<1>2. ASSUME RereadConsumers
      PROVE  IInv'
  BY <1>2 DEF RereadConsumers
<1>3. ASSUME Dump
      PROVE  IInv'
  BY <1>3, DumpPreserves
<1>4. ASSUME Archive
      PROVE  IInv'
  BY <1>4, ArchivePreserves
<1>5. ASSUME Inventory
      PROVE  IInv'
  BY <1>5 DEF Inventory
<1>6. ASSUME Resume
      PROVE  IInv'
  BY <1>6, ResumePreserves
<1>7. ASSUME Publish
      PROVE  IInv'
  BY <1>7 DEF Publish, Finish, Blank
<1> QED
  BY <1>1, <1>2, <1>3, <1>4, <1>5, <1>6, <1>7 DEF Capture

(* A restore replaces the database and the volume by the staged point.     *)
LEMMA ReplacePreserves ==
  ASSUME IInv, Replace
  PROVE  IInv'
<1> USE ReleasesAreNumbered, LevelsGrow
    DEF IInv, TypeOK, Shape, Locked, Sound, Behind, Filed, Staging, Serving, Restoring,
        Reconciling, RunningIsCoherent, RecoveryPointsRestore, CanRestore, Point, Kinds,
        Steps, CaptureSteps, ReconcileSteps, Capturing, Rotating, Migrating, At, Goto,
        live, Idle
<1>1. ASSUME DropDatabase
      PROVE  IInv'
  BY <1>1 DEF DropDatabase
<1>2. ASSUME LoadDatabase
      PROVE  IInv'
  BY <1>2 DEF LoadDatabase
<1>3. ASSUME RefillVolume
      PROVE  IInv'
  BY <1>3 DEF RefillVolume
<1>4. ASSUME VerifyRestored
      PROVE  IInv'
  BY <1>4 DEF VerifyRestored
<1> QED
  BY <1>1, <1>2, <1>3, <1>4 DEF Replace

(* The schema and the volume are brought to this release before it starts. *)
LEMMA ReconcilePreserves ==
  ASSUME IInv, Reconcile
  PROVE  IInv'
<1> USE ReleasesAreNumbered, LevelsGrow
    DEF IInv, TypeOK, Shape, Locked, Sound, Behind, Filed, Staging, Serving, Restoring,
        Reconciling, RunningIsCoherent, RecoveryPointsRestore, CanRestore, Point, Kinds,
        Steps, CaptureSteps, ReconcileSteps, Capturing, Rotating, Migrating, At, Goto,
        live, Idle
<1>1. ASSUME EnterRotation
      PROVE  IInv'
  BY <1>1 DEF EnterRotation
<1>2. ASSUME ApplyMigration
      PROVE  IInv'
  BY <1>2 DEF ApplyMigration, Compatible
<1>3. ASSUME Migrated
      PROVE  IInv'
  BY <1>3 DEF Migrated
<1>4. ASSUME InitState
      PROVE  IInv'
  BY <1>4 DEF InitState, CanStart
<1>5. ASSUME StartGateway
      PROVE  IInv'
  BY <1>5, StartGatewayPreserves
<1>6. ASSUME CheckDatabase
      PROVE  IInv'
  BY <1>6 DEF CheckDatabase, Finish, Blank
<1>7. ASSUME RecordLock
      PROVE  IInv'
  BY <1>7 DEF RecordLock, Finish
<1> QED
  BY <1>1, <1>2, <1>3, <1>4, <1>5, <1>6, <1>7 DEF Reconcile

(* Failures, the operator and the consumers.                               *)
LEMMA OthersPreserve ==
  ASSUME IInv, \/ Fail \/ Kill \/ StartTurn \/ EndTurn
               \/ \E l \in held : ClearLock(l)
               \/ \E r \in Releases : ChangePackage(r)
               \/ \E a \in Artifacts : SnapshotFile(a) \/ InsertArtifact(a)
  PROVE  IInv'
<1> USE ReleasesAreNumbered, LevelsGrow
    DEF IInv, TypeOK, Shape, Locked, Sound, Behind, Filed, Staging, Serving, Restoring,
        Reconciling, RunningIsCoherent, RecoveryPointsRestore, CanRestore, Point, Kinds,
        Steps, CaptureSteps, ReconcileSteps, Capturing, Rotating, Migrating, At, Goto,
        live, Idle
<1>1. ASSUME Fail
      PROVE  IInv'
  BY <1>1 DEF Fail, Finish, Blank, Armed, BringsBack, CanStart
<1>2. ASSUME Kill
      PROVE  IInv'
  BY <1>2 DEF Kill, Blank
<1>3. ASSUME StartTurn
      PROVE  IInv'
  BY <1>3 DEF StartTurn
<1>4. ASSUME EndTurn
      PROVE  IInv'
  BY <1>4, EndTurnPreserves
<1>5. ASSUME NEW l \in held, ClearLock(l)
      PROVE  IInv'
  BY <1>5 DEF ClearLock
<1>6. ASSUME NEW r \in Releases, ChangePackage(r)
      PROVE  IInv'
  BY <1>6 DEF ChangePackage
<1>7. ASSUME NEW a \in Artifacts, SnapshotFile(a)
      PROVE  IInv'
  BY <1>7 DEF SnapshotFile
<1>8. ASSUME NEW a \in Artifacts, InsertArtifact(a)
      PROVE  IInv'
  BY <1>8 DEF InsertArtifact
<1> QED
  BY <1>1, <1>2, <1>3, <1>4, <1>5, <1>6, <1>7, <1>8

LEMMA Starts == Init => IInv
<1> USE DEF Init, Idle
<1>1. Blank \in Point /\ Idle.was = FALSE
  BY DEF Point, Blank
<1>2. Init => TypeOK
  <2>1. [state |-> 0, files |-> {}] \in [state : Releases \cup {0}, files : SUBSET Artifacts]
    OBVIOUS
  <2>2. [level |-> 0, rows |-> {}] \in [level : Nat, rows : SUBSET Artifacts]
    OBVIOUS
  <2> QED
    BY <1>1, <2>1, <2>2 DEF TypeOK
<1>3. Init => Shape /\ Locked /\ Sound
  BY DEF Shape, Locked, Sound, Behind, Filed
<1>4. Init => Staging /\ Serving /\ Restoring
  BY DEF Staging, Serving, Restoring, Capturing
<1>5. Init => Reconciling /\ RunningIsCoherent /\ RecoveryPointsRestore
  BY DEF Reconciling, ReconcileSteps, RunningIsCoherent, RecoveryPointsRestore
<1> QED
  BY <1>2, <1>3, <1>4, <1>5 DEF IInv

LEMMA Stutters ==
  ASSUME IInv, UNCHANGED vars
  PROVE  IInv'
BY DEF vars, live, IInv, TypeOK, Shape, Locked, Sound, Behind, Filed, Staging, Serving, Restoring,
         Reconciling, RunningIsCoherent, RecoveryPointsRestore, CanRestore, Point

LEMMA Inductive == Spec => []IInv
<1>1. ASSUME IInv, [Next]_vars
      PROVE  IInv'
  BY <1>1, BeginPreserves, CapturePreserves, ReplacePreserves, ReconcilePreserves,
     OthersPreserve, Stutters DEF Next
<1> QED
  BY Starts, <1>1, PTL DEF Spec

-----------------------------------------------------------------------------
(* Every variable keeps its type (TypeOK).                                 *)
THEOREM DeploymentTyped == Spec => []TypeOK
<1>1. IInv => TypeOK
  BY DEF IInv
<1> QED
  BY Inductive, <1>1, PTL

(* Every published recovery point restores with the release it names: the  *)
(* ledger comparison, the stop of every consumer and the second reading    *)
(* are enough (backup.sh:227-248, 452-483, 535).                           *)
THEOREM PointsRestore == Spec => []RecoveryPointsRestore
<1>1. IInv => RecoveryPointsRestore
  BY DEF IInv
<1> QED
  BY Inductive, <1>1, PTL

(* A gateway that runs, runs over its own schema, a volume of its own      *)
(* release, and rows that have their files, whatever failed before         *)
(* (update.sh:411-413).                                                    *)
THEOREM CoherentService == Spec => []RunningIsCoherent
<1>1. IInv => RunningIsCoherent
  BY DEF IInv
<1> QED
  BY Inductive, <1>1, PTL

(* A backup that was not killed leaves the gateway that it found running   *)
(* (backup.sh:106-110, 460-467).                                           *)
THEOREM BackupsKeepService == Spec => BackupKeepsService
<1> DEFINE Kept == op.kind = "backup" /\ op.was /\ op' = Idle /\ "lifecycle" \notin held'
                     => gateway' = here
<1>1. ASSUME IInv, Next
      PROVE  Kept
  <2>1. CASE Fail
    BY <1>1, <2>1, ReleasesAreNumbered
    DEF IInv, TypeOK, Serving, Shape, CaptureSteps, Fail, Armed, BringsBack, CanStart, At, Idle
  <2>2. CASE Publish
    BY <1>1, <2>2 DEF IInv, Serving, Publish, At, live
  <2>3. CASE Kill
    BY <1>1, <2>3 DEF IInv, Locked, Kill, Idle
  <2>4. CASE ~(Fail \/ Publish \/ Kill)
    <3> USE <1>1 DEF Idle, At, Goto
    <3>1. ASSUME op' = Idle
          PROVE  op.kind # "backup"
      BY <2>4, <3>1 DEF Next, Backup, Update, Bootstrap, Rotate, Restore, Start, Capture,
         StopConsumers, RereadConsumers, Dump, Archive, Inventory, Resume, Replace,
         DropDatabase, LoadDatabase, RefillVolume, VerifyRestored, Reconcile, EnterRotation,
         ApplyMigration, Migrated, InitState, StartGateway, CheckDatabase, RecordLock,
         Migrating, Rotating, ClearLock, ChangePackage, StartTurn, EndTurn, SnapshotFile,
         InsertArtifact
    <3> QED
      BY <3>1
  <2> QED
    BY <2>1, <2>2, <2>3, <2>4
<1>2. ASSUME IInv, UNCHANGED vars
      PROVE  Kept
  BY <1>2 DEF vars, Idle
<1>3. IInv /\ [Next]_vars => [Kept]_vars
  BY <1>1, <1>2
<1> QED
  BY Inductive, <1>3, PTL DEF Spec, BackupKeepsService
=============================================================================
