-------------------------- MODULE WorkflowRunProofs --------------------------
(***************************************************************************)
(* The properties of WorkflowRun for every set of helpers and payloads and *)
(* every bound on the record version.                                      *)
(*                                                                         *)
(* The argument: a record_version names one row image, so what a helper    *)
(* read without a lock is still true when the database function finds the  *)
(* version unchanged (SnapshotStillTrue).  With the row's bookkeeping      *)
(* (Consistent) this is inductive, and the action properties and the       *)
(* refinement of RunLifecycle follow from it step by step.                 *)
(***************************************************************************)
EXTENDS WorkflowRun, FiniteSetTheorems, TLAPS

IInv ==
  /\ TypeOK
  /\ BookkeepingMatchesStatus
  /\ SnapshotStillTrue

(* Every edge vcops may ask for keeps a live run inside the status set.    *)
LEMMA EdgesStayInStatuses ==
  \A s : /\ RunTransitions(s) \subseteq Statuses \ {"queued"}
         /\ RunTransitions(s) # {} => s \in Live
BY DEF RunTransitions, Statuses, Live, Terminal

LEMMA TargetsAreStatuses == Targets \subseteq Statuses
BY EdgesStayInStatuses DEF Targets

(* What the three UPDATE statements make of a row, field by field.         *)
LEMMA TransitionedRow ==
  ASSUME NEW r \in Row, Consistent(r), r.status \in Live,
         NEW t \in Statuses \ {"queued"}
  PROVE  /\ Transitioned(r, t) \in Row
         /\ Consistent(Transitioned(r, t))
         /\ Transitioned(r, t).status = t
         /\ Transitioned(r, t).version = r.version + 1
         /\ Transitioned(r, t).attempt = r.attempt
         /\ Transitioned(r, t).digest = r.digest
         /\ CancelAsked(Transitioned(r, t)) <=> CancelAsked(r) \/ t = "cancelled"
<1> DEFINE n == Transitioned(r, t)
<1>1. n = [status |-> t, version |-> r.version + 1, attempt |-> r.attempt,
           digest |-> r.digest,
           filled |-> (IF t = "failed" THEN r.filled \cup {"error_class"} ELSE r.filled)
                        \cup StampsOf(t)]
  BY DEF Transitioned, Stamped, TransitionSets
<1>2. /\ "cancel_requested_at" \in n.filled
             <=> "cancel_requested_at" \in r.filled \/ t = "cancelled"
      /\ "finished_at" \in n.filled
             <=> "finished_at" \in r.filled \/ t \in Terminal
      /\ "error_class" \in n.filled
             <=> "error_class" \in r.filled \/ t = "failed"
      /\ n.filled \subseteq Nullable
  BY <1>1 DEF StampsOf, Row, Nullable
<1>3. /\ "finished_at" \notin r.filled
      /\ "error_class" \notin r.filled
      /\ r.version # 0
  BY DEF Consistent, Live, Terminal
<1> HIDE DEF n
<1>4. Transitioned(r, t) \in Row
  BY <1>1, <1>2 DEF Row, n
<1>5. Consistent(Transitioned(r, t))
  BY <1>1, <1>2, <1>3 DEF Row, Consistent, CancelAsked, Statuses, Live, Terminal, n
<1> QED BY <1>1, <1>2, <1>4, <1>5 DEF CancelAsked, n

LEMMA CancelRequestedRow ==
  ASSUME NEW r \in Row, Consistent(r), r.status \in Live
  PROVE  /\ CancelRequested(r) \in Row
         /\ Consistent(CancelRequested(r))
         /\ CancelRequested(r).status = r.status
         /\ CancelRequested(r).version = r.version + 1
         /\ CancelRequested(r).attempt = r.attempt
         /\ CancelRequested(r).digest = r.digest
         /\ CancelAsked(CancelRequested(r))
<1>1. StampsOf(r.status) = {}
  BY DEF StampsOf, Live, Terminal
<1>2. CancelRequested(r) =
        [status |-> r.status, version |-> r.version + 1, attempt |-> r.attempt,
         digest |-> r.digest, filled |-> r.filled \cup {"cancel_requested_at"}]
  BY <1>1 DEF Row, CancelRequested, Stamped, CancelRequestSets
<1> QED BY <1>2 DEF Row, Nullable, Consistent, CancelAsked, Live, Terminal

LEMMA RetriedRow ==
  ASSUME NEW r \in Row, Consistent(r), r.status = "failed"
  PROVE  /\ Retried(r) \in Row
         /\ Consistent(Retried(r))
         /\ Retried(r).status = "queued"
         /\ Retried(r).version = r.version + 1
         /\ Retried(r).attempt = r.attempt + 1
         /\ Retried(r).digest = r.digest
         /\ CancelAsked(Retried(r)) <=> CancelAsked(r)
<1>1. StampsOf("queued") = {}
  BY DEF StampsOf, Terminal
<1>2. Retried(r) =
        [status |-> "queued", version |-> r.version + 1, attempt |-> r.attempt + 1,
         digest |-> r.digest, filled |-> r.filled \ {"finished_at", "error_class"}]
  BY <1>1 DEF Retried, Stamped, RetrySets
<1> QED BY <1>2 DEF Row, Nullable, Consistent, CancelAsked, Statuses, Live, Terminal

-----------------------------------------------------------------------------
(* All a helper can do to the row, whichever command it executes.          *)
RowOpens == ~Exists /\ \E d \in Digests \cup {NoDigest} : row' = OpenedRow(d)

RowReopens ==
  row.status = "failed" /\ ~CancelAsked(row) /\ row' = Retried(row)

RowMoves ==
  /\ row.status \in Live
  /\ \E t \in RunTransitions(row.status) :
       /\ CancelAsked(row) => t \in {"cancelled", "failed", "lost"}
       /\ row' = Transitioned(row, t)

RowIsAskedToStop ==
  row.status \in Live /\ ~CancelAsked(row) /\ row' = CancelRequested(row)

RowIsStopped ==
  /\ row.status \in Live /\ ~CancelAsked(row)
  /\ row' = Transitioned(CancelRequested(row), "cancelled")

RowStep == \/ UNCHANGED row
           \/ RowOpens \/ RowReopens \/ RowMoves
           \/ RowIsAskedToStop \/ RowIsStopped

(* All it can do to its own unlocked read: drop it, or take a new one      *)
(* without touching the row.                                               *)
Snapshot(p) ==
  /\ p \in [cmd : {"start", "probe", "reconcile"}, version : Nat,
            digest : Digests \cup {NoDigest}]
  /\ p.version = row.version
  /\ p.cmd \in {"start", "probe"} => row.status = "failed"
  /\ p.cmd = "reconcile" => row.status \in Live

PendingStep ==
  \/ UNCHANGED pending
  \/ \E c \in Clients : pending' = [pending EXCEPT ![c] = Idle]
  \/ /\ UNCHANGED row
     /\ \E c \in Clients : \E p : Snapshot(p) /\ pending' = [pending EXCEPT ![c] = p]

(* A commit replaces the row by what the trigger makes of the SET list.    *)
LEMMA CommittedRow ==
  ASSUME NEW ev, NEW n
  PROVE  /\ \A t : Commit(TransitionSets(row, t), ev, n)
                => row' = Transitioned(row, t)
         /\ Commit(CancelRequestSets(row), ev, n) => row' = CancelRequested(row)
         /\ Commit(RetrySets(row), ev, n) => row' = Retried(row)
BY DEF Commit, Transitioned, CancelRequested, Retried

LEMMA MoveToTarget ==
  ASSUME IInv, NEW t \in Targets, t \in RunTransitions(row.status), NEW n,
         Commit(TransitionSets(row, t), "workflow.transition", n), t # row.status
  PROVE  RowMoves
<1>1. row.status \in Live
  BY EdgesStayInStatuses
<1>2. CancelAsked(row) => t \in {"cancelled", "failed", "lost"}
  BY DEF Commit, TriggerAdmits, CancelAdmits, TransitionSets
<1> QED BY <1>1, <1>2, CommittedRow DEF RowMoves

(* Every command is one of these.                                          *)
LEMMA NextIsRowStep ==
  ASSUME IInv, Next
  PROVE  RowStep
<1> USE DEF RowStep
<1>1. ASSUME NEW c \in Clients, NEW d \in Digests \cup {NoDigest},
             Start(c, d) \/ ReplayProbe(c, d)
      PROVE  RowStep
  BY <1>1 DEF Start, ReplayProbe, Classify, Refuse, RowOpens
<1>2. ASSUME NEW c \in Clients, Retry(c)
      PROVE  RowStep
  BY <1>2, CommittedRow DEF Retry, Reopenable, RowReopens
<1>3. ASSUME NEW c \in Clients, NEW e \in 1..MaxVersion, NEW t \in Targets,
             Transition(c, e, t)
      PROVE  RowStep
  BY <1>3, MoveToTarget DEF Transition, Refuse
<1>4. ASSUME NEW c \in Clients, NEW e \in 1..MaxVersion, NEW terminal \in BOOLEAN,
             Cancel(c, e, terminal)
      PROVE  RowStep
  <2>1. CASE CancelWaiting(terminal, e)
    <3>1. row.status \in Live /\ "cancelled" \in RunTransitions(row.status)
      BY <2>1 DEF CancelWaiting, Live, RunTransitions, Terminal
    <3> QED BY <2>1, <3>1, CommittedRow DEF CancelWaiting, RowMoves
  <2>2. CASE CancelWorking(terminal, e)
    BY <2>2, CommittedRow DEF CancelWorking, Refuse, RowIsAskedToStop, RowIsStopped, Live
  <2> QED BY <1>4, <2>1, <2>2 DEF Cancel, Refuse
<1>5. ASSUME NEW c \in Clients, Reconcile(c) \/ Abort(c)
      PROVE  RowStep
  BY <1>5 DEF Reconcile, Abort, Refuse
<1>6. ASSUME NEW c \in Clients, MarkFailed(c)
      PROVE  RowStep
  <2>1. CASE UNCHANGED row
    BY <2>1
  <2>2. CASE row.version = pending[c].version /\ row' = Transitioned(row, "failed")
    <3>1. row.status \in Live
      BY <1>6, <2>2 DEF MarkFailed, IInv, SnapshotStillTrue
    <3>2. "failed" \in RunTransitions(row.status)
      BY <3>1 DEF Live, RunTransitions, Terminal
    <3> QED BY <2>2, <3>1, <3>2 DEF RowMoves
  <2> QED BY <1>6, <2>1, <2>2, CommittedRow DEF MarkFailed
<1> QED BY <1>1, <1>2, <1>3, <1>4, <1>5, <1>6 DEF Next

LEMMA NextIsPendingStep ==
  ASSUME IInv, Next
  PROVE  PendingStep
<1> USE DEF PendingStep
<1>1. ASSUME NEW c \in Clients, NEW d \in Digests \cup {NoDigest},
             NEW cmd \in {"start", "probe"}, Classify(c, cmd, d)
      PROVE  PendingStep
  <2>1. CASE UNCHANGED pending
    BY <2>1
  <2>2. CASE /\ row.status = "failed" /\ UNCHANGED row
             /\ pending' = [pending EXCEPT ![c] =
                   [cmd |-> cmd, version |-> row.version, digest |-> d]]
    <3>1. Snapshot([cmd |-> cmd, version |-> row.version, digest |-> d])
      BY <2>2 DEF Snapshot, IInv, TypeOK, Row
    <3> QED BY <2>2, <3>1
  <2> QED BY <1>1, <2>1, <2>2 DEF Classify, Refuse
<1>2. ASSUME NEW c \in Clients, NEW d \in Digests \cup {NoDigest},
             Start(c, d) \/ ReplayProbe(c, d)
      PROVE  PendingStep
  BY <1>1, <1>2 DEF Start, ReplayProbe, Refuse
<1>3. ASSUME NEW c \in Clients, Retry(c) \/ MarkFailed(c) \/ Abort(c)
      PROVE  PendingStep
  BY <1>3 DEF Retry, MarkFailed, Abort
<1>4. ASSUME NEW c \in Clients, NEW e \in 1..MaxVersion,
             \/ \E t \in Targets : Transition(c, e, t)
             \/ \E terminal \in BOOLEAN : Cancel(c, e, terminal)
      PROVE  PendingStep
  BY <1>4 DEF Transition, Cancel, CancelWorking, CancelWaiting, Refuse
<1>5. ASSUME NEW c \in Clients, Reconcile(c)
      PROVE  PendingStep
  <2>1. CASE UNCHANGED pending
    BY <2>1
  <2>2. CASE /\ row.status \in Live /\ UNCHANGED row
             /\ pending' = [pending EXCEPT ![c] =
                   [cmd |-> "reconcile", version |-> row.version, digest |-> NoDigest]]
    <3>1. Snapshot([cmd |-> "reconcile", version |-> row.version, digest |-> NoDigest])
      BY <2>2 DEF Snapshot, IInv, TypeOK, Row
    <3> QED BY <2>2, <3>1
  <2> QED BY <1>5, <2>1, <2>2 DEF Reconcile, Refuse
<1> QED BY <1>2, <1>3, <1>4, <1>5 DEF Next

-----------------------------------------------------------------------------
(* Type correctness.  The row's part follows from the kinds of row step.   *)
LEMMA RowStepPreservesRow ==
  ASSUME IInv, RowStep
  PROVE  row' \in Row /\ Consistent(row')
<1> USE DEF IInv, TypeOK, BookkeepingMatchesStatus
<1>1. CASE UNCHANGED row
  BY <1>1
<1>2. CASE RowOpens
  BY <1>2 DEF RowOpens, OpenedRow, Row, Consistent, CancelAsked, Statuses, Live, Terminal
<1>3. CASE RowReopens
  BY <1>3, RetriedRow DEF RowReopens
<1>4. CASE RowMoves
  BY <1>4, TransitionedRow, EdgesStayInStatuses DEF RowMoves
<1>5. CASE RowIsAskedToStop
  BY <1>5, CancelRequestedRow DEF RowIsAskedToStop
<1>6. CASE RowIsStopped
  <2>1. /\ CancelRequested(row) \in Row
        /\ Consistent(CancelRequested(row))
        /\ CancelRequested(row).status \in Live
    BY <1>6, CancelRequestedRow DEF RowIsStopped
  <2> QED BY <1>6, <2>1, TransitionedRow DEF RowIsStopped, Statuses, Terminal
<1> QED BY <1>1, <1>2, <1>3, <1>4, <1>5, <1>6 DEF RowStep

(* A row step either leaves the row alone or gives it a greater version.   *)
LEMMA RowStepRaisesVersion ==
  ASSUME IInv, RowStep
  PROVE  row' = row \/ row'.version > row.version
<1> USE DEF IInv, TypeOK, BookkeepingMatchesStatus
<1>1. row.version \in Nat
  BY DEF Row
<1>2. CASE RowOpens
  BY <1>2 DEF RowOpens, OpenedRow, Exists, Consistent
<1>3. CASE RowReopens
  BY <1>1, <1>3, RetriedRow DEF RowReopens
<1>4. CASE RowMoves
  BY <1>1, <1>4, TransitionedRow, EdgesStayInStatuses DEF RowMoves
<1>5. CASE RowIsAskedToStop
  BY <1>1, <1>5, CancelRequestedRow DEF RowIsAskedToStop
<1>6. CASE RowIsStopped
  <2>1. /\ CancelRequested(row) \in Row
        /\ Consistent(CancelRequested(row))
        /\ CancelRequested(row).status \in Live
        /\ CancelRequested(row).version = row.version + 1
    BY <1>6, CancelRequestedRow DEF RowIsStopped
  <2>2. row'.version = row.version + 1 + 1
    BY <1>6, <2>1, TransitionedRow DEF RowIsStopped, Statuses, Terminal
  <2> QED BY <1>1, <2>2
<1> QED BY <1>2, <1>3, <1>4, <1>5, <1>6 DEF RowStep

LEMMA SnapshotsPreserved ==
  ASSUME IInv, RowStep, PendingStep, row' \in Row
  PROVE  SnapshotStillTrue'
<1> USE DEF IInv, TypeOK, SnapshotStillTrue
<1>1. CASE UNCHANGED pending
  BY <1>1, RowStepRaisesVersion DEF Row
<1>2. ASSUME NEW c \in Clients, pending' = [pending EXCEPT ![c] = Idle]
      PROVE  SnapshotStillTrue'
  BY <1>2, RowStepRaisesVersion DEF Row, Idle
<1>3. ASSUME UNCHANGED row, NEW c \in Clients, NEW p, Snapshot(p),
             pending' = [pending EXCEPT ![c] = p]
      PROVE  SnapshotStillTrue'
  BY <1>3 DEF Snapshot, Row
<1> QED BY <1>1, <1>2, <1>3 DEF PendingStep

LogTyped   == audit \in Seq([event : Events, expected : Nat, after : Statuses])
ReplyTyped == reply \in [cmd : Commands, result : Results,
                         digest : Digests \cup {NoDigest}]
HelpersTyped == pending \in [Clients -> [cmd : {"idle", "start", "probe", "reconcile"},
                                         version : Nat,
                                         digest : Digests \cup {NoDigest}]]

LEMMA CommitTyped ==
  ASSUME LogTyped, NEW sets, sets.status \in Statuses,
         NEW ev \in Events, NEW n \in Nat, Commit(sets, ev, n)
  PROVE  LogTyped'
<1>1. Logged(ev, n, sets.status) \in [event : Events, expected : Nat, after : Statuses]
  BY DEF Logged
<1> QED BY <1>1 DEF LogTyped, Commit

(* The status each SET list leaves the row in.                             *)
LEMMA SetStatuses ==
  /\ \A t : TransitionSets(row, t).status = t
  /\ RetrySets(row).status = "queued"
  /\ IInv => CancelRequestSets(row).status = row.status
BY DEF TransitionSets, RetrySets, CancelRequestSets, IInv, TypeOK, Row

LEMMA AnswerTyped ==
  ASSUME NEW cmd \in Commands, NEW result \in Results,
         NEW d \in Digests \cup {NoDigest}, Answer(cmd, result, d)
  PROVE  ReplyTyped'
BY DEF Answer, ReplyTyped

LEMMA HelpersStayTyped ==
  ASSUME IInv, PendingStep
  PROVE  HelpersTyped'
BY DEF IInv, TypeOK, HelpersTyped, PendingStep, Snapshot, Idle

LEMMA PrintedAndLogged ==
  ASSUME IInv, Next
  PROVE  LogTyped' /\ ReplyTyped'
<1>1. LogTyped /\ ReplyTyped /\ row.version \in Nat
  BY DEF IInv, TypeOK, LogTyped, ReplyTyped, Row
<1>2. UNCHANGED audit => LogTyped'
  BY <1>1 DEF LogTyped
<1>3. UNCHANGED reply => ReplyTyped'
  BY <1>1 DEF ReplyTyped
<1>4. 1..MaxVersion \subseteq Nat
  BY MaxVersionAssumption
<1>10. {"queued", "failed", "cancelled"} \cup Targets \subseteq Statuses
  BY TargetsAreStatuses DEF Statuses, Live, Terminal
<1> USE DEF Commands, Results, Events
<1>5. ASSUME NEW c \in Clients, NEW d \in Digests \cup {NoDigest},
             Start(c, d) \/ ReplayProbe(c, d)
      PROVE  LogTyped' /\ ReplyTyped'
  <2>1. UNCHANGED audit
    BY <1>5 DEF Start, ReplayProbe, Classify, Refuse
  <2>2. ReplyTyped'
    BY <1>5, <1>3, AnswerTyped DEF Start, ReplayProbe, Classify, Refuse
  <2> QED BY <1>2, <2>1, <2>2
<1>6. ASSUME NEW c \in Clients, Retry(c) \/ MarkFailed(c)
      PROVE  LogTyped' /\ ReplyTyped'
  <2>1. /\ pending[c].version \in Nat
        /\ pending[c].digest \in Digests \cup {NoDigest}
    BY DEF IInv, TypeOK
  <2>2. NoDigest \in Digests \cup {NoDigest}
    OBVIOUS
  <2>3. LogTyped'
    BY <1>1, <1>2, <1>6, <1>10, <2>1, CommitTyped, SetStatuses DEF Retry, MarkFailed
  <2>4. ReplyTyped'
    BY <1>6, <2>1, <2>2, AnswerTyped DEF Retry, MarkFailed
  <2> QED BY <2>3, <2>4
<1>7. ASSUME NEW c \in Clients, NEW e \in 1..MaxVersion, NEW t \in Targets,
             Transition(c, e, t)
      PROVE  LogTyped' /\ ReplyTyped'
  <2>1. LogTyped'
    BY <1>1, <1>2, <1>4, <1>7, <1>10, CommitTyped, SetStatuses DEF Transition, Refuse
  <2>2. ReplyTyped'
    BY <1>7, AnswerTyped DEF Transition, Refuse
  <2> QED BY <2>1, <2>2
<1>8. ASSUME NEW c \in Clients, NEW e \in 1..MaxVersion, NEW terminal \in BOOLEAN,
             Cancel(c, e, terminal)
      PROVE  LogTyped' /\ ReplyTyped'
  <2>1. CancelCommand(terminal) \in Commands
    BY DEF CancelCommand
  <2>2. CASE CancelWaiting(terminal, e)
    BY <1>1, <1>4, <1>10, <2>1, <2>2, CommitTyped, SetStatuses, AnswerTyped
       DEF CancelWaiting
  <2>3. CASE CancelWorking(terminal, e)
    <3>1. row.status \in Statuses
      BY <2>3 DEF CancelWorking, Statuses, Live
    <3>2. ASSUME audit' = audit \o
             <<Logged("workflow.cancel_requested", e, row.status),
               Logged("workflow.transition", e + 1, "cancelled")>>
          PROVE  LogTyped'
      <4>1. /\ Logged("workflow.cancel_requested", e, row.status)
                  \in [event : Events, expected : Nat, after : Statuses]
            /\ Logged("workflow.transition", e + 1, "cancelled")
                  \in [event : Events, expected : Nat, after : Statuses]
        BY <1>4, <1>10, <3>1 DEF Logged
      <4> QED BY <1>1, <3>2, <4>1 DEF LogTyped
    <3>4. LogTyped'
      BY <1>1, <1>2, <1>4, <2>3, <3>1, <3>2, CommitTyped, SetStatuses
         DEF CancelWorking, Refuse
    <3>3. ReplyTyped'
      BY <2>1, <2>3, AnswerTyped DEF CancelWorking, Refuse
    <3> QED BY <3>3, <3>4
  <2>4. CASE Refuse(CancelCommand(terminal), "revision_conflict", NoDigest)
             \/ Refuse(CancelCommand(terminal), "already_terminal", NoDigest)
    BY <1>2, <2>1, <2>4, AnswerTyped DEF Refuse
  <2> QED BY <1>8, <2>2, <2>3, <2>4 DEF Cancel
<1>9. ASSUME NEW c \in Clients, Reconcile(c) \/ Abort(c)
      PROVE  LogTyped' /\ ReplyTyped'
  BY <1>2, <1>3, <1>9, AnswerTyped DEF Reconcile, Abort, Refuse
<1> QED BY <1>5, <1>6, <1>7, <1>8, <1>9 DEF Next

LEMMA InitIInv == Init => IInv
BY DEF Init, IInv, TypeOK, BookkeepingMatchesStatus, SnapshotStillTrue, NoRow, Row,
       Consistent, CancelAsked, Nullable, Idle, Statuses, Live, Terminal, Commands,
       Results

LEMMA NextIInv == IInv /\ [Next]_vars => IInv'
<1> SUFFICES ASSUME IInv, [Next]_vars PROVE IInv'
  OBVIOUS
<1>1. CASE Next
  BY <1>1, NextIsRowStep, NextIsPendingStep, RowStepPreservesRow, SnapshotsPreserved,
     HelpersStayTyped, PrintedAndLogged DEF IInv, TypeOK, LogTyped, ReplyTyped, HelpersTyped, BookkeepingMatchesStatus
<1>2. CASE UNCHANGED vars
  BY <1>2 DEF vars, IInv, TypeOK, BookkeepingMatchesStatus, SnapshotStillTrue
<1> QED BY <1>1, <1>2

(* The inductive invariant: types, bookkeeping, and unlocked reads that    *)
(* are still true while the version stands.                                *)
THEOREM Invariance == Spec => []IInv
BY InitIInv, NextIInv, PTL DEF Spec

(* A row never carries finished_at or an error_class its status does not   *)
(* explain, however often it failed and was reopened.                      *)
THEOREM Bookkeeping == Spec => []BookkeepingMatchesStatus
BY Invariance, PTL DEF IInv

(* What a helper read without a lock still holds when it writes.           *)
THEOREM SnapshotsHold == Spec => []SnapshotStillTrue
BY Invariance, PTL DEF IInv

-----------------------------------------------------------------------------
(* The action properties are read off the kinds of row step.               *)
LEMMA StoppedRow ==
  ASSUME IInv, RowIsStopped
  PROVE  /\ row'.status = "cancelled"
         /\ row'.version = row.version + 1 + 1
         /\ row'.attempt = row.attempt
         /\ row'.digest = row.digest
         /\ CancelAsked(row')
<1>1. /\ CancelRequested(row) \in Row
      /\ Consistent(CancelRequested(row))
      /\ CancelRequested(row).status \in Live
      /\ CancelRequested(row).version = row.version + 1
      /\ CancelRequested(row).attempt = row.attempt
      /\ CancelRequested(row).digest = row.digest
  BY CancelRequestedRow DEF RowIsStopped, IInv, TypeOK, BookkeepingMatchesStatus
<1>2. "cancelled" \in Statuses \ {"queued"}
  BY DEF Statuses, Terminal
<1> QED BY <1>1, <1>2, TransitionedRow DEF RowIsStopped

LEMMA TerminalStep ==
  ASSUME IInv, RowStep, row.status \in Terminal, row' # row
  PROVE  /\ row.status = "failed" /\ ~CancelAsked(row)
         /\ row'.status = "queued" /\ row'.attempt = row.attempt + 1
BY RetriedRow DEF IInv, TypeOK, BookkeepingMatchesStatus, RowStep, RowOpens,
   RowReopens, RowMoves, RowIsAskedToStop, RowIsStopped, Exists, Live, Terminal

(* succeeded, cancelled and lost have no edge out, and a failed run leaves *)
(* failed only through the retry of a run nobody asked to cancel.          *)
THEOREM TerminalRunsStay == Spec => TerminalIsFinal
<1>1. IInv /\ [Next]_vars
        => [ row.status \in Terminal /\ row' # row
              => /\ row.status = "failed" /\ ~CancelAsked(row)
                 /\ row'.status = "queued" /\ row'.attempt = row.attempt + 1 ]_vars
  BY NextIsRowStep, TerminalStep
<1> QED BY <1>1, Invariance, PTL DEF Spec, TerminalIsFinal

LEMMA CancelledStep ==
  ASSUME IInv, RowStep, CancelAsked(row)
  PROVE  /\ CancelAsked(row')
         /\ row'.status \in {row.status, "cancelled", "failed", "lost"}
<1> USE DEF IInv, TypeOK, BookkeepingMatchesStatus
<1>1. CASE UNCHANGED row
  BY <1>1
<1>2. CASE RowMoves
  <2>1. PICK t \in RunTransitions(row.status) :
          /\ t \in {"cancelled", "failed", "lost"}
          /\ row' = Transitioned(row, t)
    BY <1>2 DEF RowMoves
  <2>2. t \in Statuses \ {"queued"} /\ row.status \in Live
    BY <1>2, EdgesStayInStatuses DEF RowMoves
  <2> QED BY <2>1, <2>2, TransitionedRow
<1>3. CASE RowReopens
  BY <1>3 DEF RowReopens
<1>4. CASE RowOpens
  BY <1>4 DEF RowOpens, Exists, Consistent
<1> QED BY <1>1, <1>2, <1>3, <1>4 DEF RowStep, RowIsAskedToStop, RowIsStopped

(* A requested cancellation survives every later step and stops the run    *)
(* from going forward.                                                     *)
THEOREM CancellationsStick == Spec => CancelIsSticky
<1>1. IInv /\ [Next]_vars
        => [ CancelAsked(row)
              => /\ CancelAsked(row')
                 /\ row'.status \in {row.status, "cancelled", "failed", "lost"} ]_vars
  BY NextIsRowStep, CancelledStep
<1> QED BY <1>1, Invariance, PTL DEF Spec, CancelIsSticky

-----------------------------------------------------------------------------
(* Refinement: every kind of row step is a step of the abstract life cycle *)
(* or leaves what the life cycle sees unchanged.                           *)
LEMMA MoveIsLifecycleStep ==
  ASSUME IInv, RowMoves
  PROVE  [Lifecycle!Next]_(Lifecycle!vars)
<1> USE DEF IInv, TypeOK, BookkeepingMatchesStatus, Lifecycle!Active
<1>1. PICK t \in RunTransitions(row.status) :
        /\ CancelAsked(row) => t \in {"cancelled", "failed", "lost"}
        /\ row' = Transitioned(row, t)
  BY DEF RowMoves
<1>2. /\ t \in Statuses \ {"queued"}
      /\ row.status \in Live
  BY EdgesStayInStatuses DEF RowMoves
<1>3. /\ row'.status = t
      /\ row'.attempt = row.attempt
      /\ CancelAsked(row') <=> CancelAsked(row) \/ t = "cancelled"
  BY <1>1, <1>2, TransitionedRow
<1>4. row.status \in Lifecycle!Active
  BY <1>2 DEF Live
<1>5. CASE t = "cancelled"
  BY <1>3, <1>4, <1>5 DEF Lifecycle!Next, Lifecycle!Cancel
<1>6. CASE t \in {"failed", "lost"}
  BY <1>3, <1>4, <1>6 DEF Lifecycle!Next, Lifecycle!Abandon,
                                 CancelAsked
<1>7. CASE t \in {"started", "running", "waiting", "blocked", "succeeded"}
  <2>1. /\ t = "started" => row.status = "queued"
        /\ t = "succeeded" => row.status \in {"started", "running", "waiting"}
    BY <1>1, <1>2, <1>7 DEF RunTransitions, Live, Terminal
  <2> QED BY <1>1, <1>3, <1>4, <1>7, <2>1 DEF Lifecycle!Next, Lifecycle!Advance,
                                               CancelAsked
<1> QED BY <1>2, <1>5, <1>6, <1>7 DEF Statuses, Live, Terminal

LEMMA RowStepIsLifecycleStep ==
  ASSUME IInv, RowStep
  PROVE  [Lifecycle!Next]_(Lifecycle!vars)
<1> USE DEF IInv, TypeOK, BookkeepingMatchesStatus
<1>1. CASE UNCHANGED row
  BY <1>1 DEF Lifecycle!vars, CancelAsked
<1>2. CASE RowOpens
  <2>1. /\ row.status = "absent" /\ ~CancelAsked(row)
        /\ row'.status = "queued" /\ row'.attempt = 1 /\ ~CancelAsked(row')
    BY <1>2 DEF RowOpens, Exists, Consistent, OpenedRow, CancelAsked
  <2> QED BY <2>1 DEF Lifecycle!Next, Lifecycle!Open, CancelAsked
<1>3. CASE RowReopens
  <2>1. /\ row'.status = "queued"
        /\ row'.attempt = row.attempt + 1
        /\ CancelAsked(row') <=> CancelAsked(row)
    BY <1>3, RetriedRow DEF RowReopens
  <2> QED BY <1>3, <2>1 DEF RowReopens, Lifecycle!Next, Lifecycle!Retry, CancelAsked
<1>4. CASE RowMoves
  BY <1>4, MoveIsLifecycleStep
<1>5. CASE RowIsAskedToStop
  <2>1. /\ row'.status = row.status
        /\ row'.attempt = row.attempt
        /\ CancelAsked(row')
    BY <1>5, CancelRequestedRow DEF RowIsAskedToStop
  <2> QED BY <1>5, <2>1 DEF RowIsAskedToStop, Live, Lifecycle!Next,
                            Lifecycle!RequestCancel, Lifecycle!Active
<1>6. CASE RowIsStopped
  BY <1>6, StoppedRow DEF RowIsStopped, Live, Lifecycle!Next, Lifecycle!Cancel,
                          Lifecycle!Active
<1> QED BY <1>1, <1>2, <1>3, <1>4, <1>5, <1>6 DEF RowStep

(* The concurrent helpers implement the atomic life cycle.                 *)
THEOREM HelpersImplementLifecycle == Spec => ImplementsLifecycle
<1>1. Init => Lifecycle!Init
  BY DEF Init, NoRow, CancelAsked, Lifecycle!Init
<1>2. IInv /\ [Next]_vars => [Lifecycle!Next]_(Lifecycle!vars)
  <2>1. IInv /\ UNCHANGED vars => UNCHANGED Lifecycle!vars
    BY DEF vars, Lifecycle!vars, CancelAsked
  <2> QED BY <2>1, NextIsRowStep, RowStepIsLifecycleStep
<1> QED BY <1>1, <1>2, Invariance, PTL DEF Spec, ImplementsLifecycle, Lifecycle!Spec

-----------------------------------------------------------------------------
(* The audit trail.  A write appends the event of each database function   *)
(* it calls, under the version that function was given.                    *)
LoggedOnce(ev) ==
  /\ audit' = Append(audit, Logged(ev, row.version, row'.status))
  /\ Exists /\ row'.status # "absent"
  /\ row'.version = row.version + 1
  /\ row'.attempt = IF ev = "workflow.retry" THEN row.attempt + 1 ELSE row.attempt
  /\ ev = "workflow.retry" => row.status = "failed"

LoggedTwice ==
  /\ audit' = Append(Append(audit, Logged("workflow.cancel_requested",
                                          row.version, row.status)),
                     Logged("workflow.transition", row.version + 1, row'.status))
  /\ Exists /\ row'.status # "absent"
  /\ row'.version = row.version + 1 + 1
  /\ row'.attempt = row.attempt

AuditStep ==
  \/ UNCHANGED <<row, audit>>
  \/ RowOpens /\ UNCHANGED audit
  \/ \E ev \in Events : LoggedOnce(ev)
  \/ LoggedTwice

LEMMA MoveIsLoggedOnce ==
  ASSUME IInv, row.status \in Live, NEW t \in RunTransitions(row.status),
         Commit(TransitionSets(row, t), "workflow.transition", row.version)
  PROVE  AuditStep
<1>1. t \in Statuses \ {"queued"}
  BY EdgesStayInStatuses
<1>2. /\ row'.status = t
      /\ row'.version = row.version + 1
      /\ row'.attempt = row.attempt
  <2>1. row' = Transitioned(row, t)
    BY CommittedRow
  <2> QED BY <1>1, <2>1, TransitionedRow DEF IInv, TypeOK, BookkeepingMatchesStatus
<1>3. row.status # "absent" /\ t # "absent"
  BY <1>1 DEF Statuses, Live, Terminal
<1> QED BY <1>2, <1>3, SetStatuses DEF AuditStep, LoggedOnce, Commit, Exists, Events

LEMMA NextIsAuditStep ==
  ASSUME IInv, Next
  PROVE  AuditStep
<1> USE DEF IInv, TypeOK, BookkeepingMatchesStatus
<1>1. ASSUME NEW c \in Clients, NEW d \in Digests \cup {NoDigest},
             Start(c, d) \/ ReplayProbe(c, d)
      PROVE  AuditStep
  BY <1>1 DEF Start, ReplayProbe, Classify, Refuse, RowOpens, AuditStep
<1>2. ASSUME NEW c \in Clients, Retry(c)
      PROVE  AuditStep
  <2>1. CASE UNCHANGED <<row, audit>>
    BY <2>1 DEF AuditStep
  <2>2. CASE /\ row.version = pending[c].version /\ Reopenable(row)
             /\ Commit(RetrySets(row), "workflow.retry", pending[c].version)
    <3>1. row.status = "failed"
      BY <2>2 DEF Reopenable
    <3>2. /\ row'.status = "queued"
          /\ row'.version = row.version + 1
          /\ row'.attempt = row.attempt + 1
      BY <2>2, <3>1, RetriedRow, CommittedRow
    <3> QED BY <2>2, <3>1, <3>2, SetStatuses DEF AuditStep, LoggedOnce, Commit, Exists, Events
  <2> QED BY <1>2, <2>1, <2>2 DEF Retry
<1>3. ASSUME NEW c \in Clients, NEW e \in 1..MaxVersion, NEW t \in Targets,
             Transition(c, e, t)
      PROVE  AuditStep
  <2>1. CASE UNCHANGED <<row, audit>>
    BY <2>1 DEF AuditStep
  <2>2. CASE /\ t \in RunTransitions(row.status)
             /\ Commit(TransitionSets(row, t), "workflow.transition", row.version)
    BY <2>2, MoveIsLoggedOnce, EdgesStayInStatuses
  <2> QED BY <1>3, <2>1, <2>2 DEF Transition, Refuse
<1>4. ASSUME NEW c \in Clients, NEW e \in 1..MaxVersion, NEW terminal \in BOOLEAN,
             Cancel(c, e, terminal)
      PROVE  AuditStep
  <2>1. CASE UNCHANGED <<row, audit>>
    BY <2>1 DEF AuditStep
  <2>2. CASE row.version = e /\ CancelWaiting(terminal, e)
    <3>1. row.status \in Live /\ "cancelled" \in RunTransitions(row.status)
      BY <2>2 DEF CancelWaiting, Live, RunTransitions, Terminal
    <3> QED BY <2>2, <3>1, MoveIsLoggedOnce DEF CancelWaiting
  <2>3. CASE /\ row.version = e /\ row.status \in {"started", "running"}
             /\ Commit(CancelRequestSets(row), "workflow.cancel_requested", e)
    <3>1. /\ row'.status = row.status
          /\ row'.version = row.version + 1
          /\ row'.attempt = row.attempt
      BY <2>3, CancelRequestedRow, CommittedRow DEF Live
    <3> QED BY <2>3, <3>1, SetStatuses DEF AuditStep, LoggedOnce, Commit, Exists, Events
  <2>4. CASE /\ row.version = e /\ row.status \in {"started", "running"}
             /\ ~CancelAsked(row)
             /\ row' = Transitioned(CancelRequested(row), "cancelled")
             /\ audit' = audit \o
                  <<Logged("workflow.cancel_requested", e, row.status),
                    Logged("workflow.transition", e + 1, "cancelled")>>
    <3>1. RowIsStopped
      BY <2>4 DEF RowIsStopped, Live
    <3>2. audit' = Append(Append(audit, Logged("workflow.cancel_requested",
                                               row.version, row.status)),
                          Logged("workflow.transition", row.version + 1, "cancelled"))
      BY <2>4
    <3> QED BY <2>4, <3>1, <3>2, StoppedRow DEF AuditStep, LoggedTwice, Exists
  <2> QED BY <1>4, <2>1, <2>2, <2>3, <2>4 DEF Cancel, CancelWorking, Refuse
<1>5. ASSUME NEW c \in Clients, Reconcile(c) \/ Abort(c)
      PROVE  AuditStep
  BY <1>5 DEF Reconcile, Abort, Refuse, AuditStep
<1>6. ASSUME NEW c \in Clients, MarkFailed(c)
      PROVE  AuditStep
  <2>1. CASE UNCHANGED <<row, audit>>
    BY <2>1 DEF AuditStep
  <2>2. CASE /\ row.version = pending[c].version
             /\ Commit(TransitionSets(row, "failed"), "workflow.transition", row.version)
    <3>1. row.status \in Live
      BY <1>6, <2>2 DEF MarkFailed, SnapshotStillTrue
    <3>2. "failed" \in RunTransitions(row.status)
      BY <3>1 DEF Live, RunTransitions, Terminal
    <3> QED BY <2>2, <3>1, <3>2, MoveIsLoggedOnce
  <2> QED BY <1>6, <2>1, <2>2 DEF MarkFailed
<1> QED BY <1>1, <1>2, <1>3, <1>4, <1>5, <1>6 DEF Next

(* What an appended event does to the set of retries in the log.           *)
LEMMA RetriesAfterAppend ==
  ASSUME NEW S, NEW log \in Seq(S), NEW e
  PROVE  /\ e.event = "workflow.retry"
              => RetriesIn(Append(log, e)) = RetriesIn(log) \cup {Len(log) + 1}
         /\ e.event # "workflow.retry"
              => RetriesIn(Append(log, e)) = RetriesIn(log)
BY DEF RetriesIn

LEMMA RetriesAreCounted ==
  ASSUME NEW S, NEW log \in Seq(S)
  PROVE  /\ IsFiniteSet(RetriesIn(log))
         /\ Cardinality(RetriesIn(log)) \in Nat
         /\ Len(log) + 1 \notin RetriesIn(log)
<1>1. IsFiniteSet(1..Len(log))
  BY FS_Interval
<1>2. RetriesIn(log) \subseteq 1..Len(log)
  BY DEF RetriesIn
<1> QED BY <1>1, <1>2, FS_Subset, FS_CardinalityType

(* The log and the row count together.                                     *)
AuditInv == NoLostUpdate /\ OneRetryPerAttempt

LEMMA AuditStepCounts ==
  ASSUME IInv, AuditInv, AuditStep
  PROVE  AuditInv'
<1> USE DEF IInv, TypeOK, AuditInv
<1> DEFINE E == [event : Events, expected : Nat, after : Statuses]
<1>0. /\ audit \in Seq(E) /\ Len(audit) \in Nat
      /\ row.version \in Nat /\ row.attempt \in Nat
  BY DEF Row
<1>1. CASE UNCHANGED <<row, audit>>
  BY <1>1 DEF NoLostUpdate, OneRetryPerAttempt, Exists, RetriesIn
<1>2. CASE RowOpens /\ UNCHANGED audit
  <2>1. audit = <<>>
    BY <1>0, <1>2 DEF RowOpens, NoLostUpdate
  <2>2. RetriesIn(audit) = {}
    BY <2>1 DEF RetriesIn
  <2>3. Cardinality({}) = 0
    BY FS_EmptySet
  <2>4. row'.status = "queued" /\ row'.version = 1 /\ row'.attempt = 1
    BY <1>2 DEF RowOpens, OpenedRow
  <2>5. NoLostUpdate'
    BY <1>2, <2>1, <2>4 DEF NoLostUpdate, Exists
  <2>6. row'.attempt = 1 + Cardinality(RetriesIn(audit'))
    BY <1>2, <2>2, <2>3, <2>4
  <2>7. OneRetryPerAttempt'
    BY <2>6 DEF OneRetryPerAttempt, RetriesIn
  <2> QED BY <2>5, <2>7
<1>3. ASSUME NEW ev \in Events, LoggedOnce(ev) PROVE AuditInv'
  <2> DEFINE e == [event |-> ev, expected |-> row.version, after |-> row'.status]
  <2>1. /\ audit' = Append(audit, e) /\ Exists /\ Exists'
        /\ row'.version = row.version + 1
        /\ row'.attempt = IF ev = "workflow.retry" THEN row.attempt + 1 ELSE row.attempt
    BY <1>3 DEF LoggedOnce, Logged, Exists
  <2>2. NoLostUpdate'
    BY <1>0, <2>1 DEF NoLostUpdate
  <2>3. Cardinality(RetriesIn(audit')) =
          IF ev = "workflow.retry" THEN Cardinality(RetriesIn(audit)) + 1
          ELSE Cardinality(RetriesIn(audit))
    <3>1. CASE ev = "workflow.retry"
      <4>1. RetriesIn(audit') = RetriesIn(audit) \cup {Len(audit) + 1}
        BY <1>0, <2>1, <3>1, RetriesAfterAppend
      <4>2. IsFiniteSet(RetriesIn(audit)) /\ Len(audit) + 1 \notin RetriesIn(audit)
        BY <1>0, RetriesAreCounted
      <4> QED BY <3>1, <4>1, <4>2, FS_AddElement
    <3>2. CASE ev # "workflow.retry"
      BY <1>0, <2>1, <3>2, RetriesAfterAppend
    <3> QED BY <3>1, <3>2
  <2>4. Cardinality(RetriesIn(audit)) \in Nat
    BY <1>0, RetriesAreCounted
  <2>5. row'.attempt = 1 + Cardinality(RetriesIn(audit'))
    BY <2>1, <2>3, <2>4, <1>0 DEF OneRetryPerAttempt
  <2>6. OneRetryPerAttempt'
    BY <2>5 DEF OneRetryPerAttempt, RetriesIn
  <2> QED BY <2>2, <2>6
<1>4. CASE LoggedTwice
  <2> DEFINE e1 == [event |-> "workflow.cancel_requested", expected |-> row.version,
                    after |-> row.status]
             e2 == [event |-> "workflow.transition", expected |-> row.version + 1,
                    after |-> row'.status]
             once == Append(audit, e1)
  <2>1. /\ audit' = Append(once, e2) /\ Exists /\ Exists'
        /\ row'.version = row.version + 1 + 1
        /\ row'.attempt = row.attempt
    BY <1>4 DEF LoggedTwice, Logged, Exists
  <2>2. once \in Seq(E)
    <3>1. e1 \in E
      BY <1>0, <2>1 DEF Events, Exists, Row
    <3> QED BY <1>0, <3>1
  <2>3. NoLostUpdate'
    BY <1>0, <2>1 DEF NoLostUpdate
  <2>4. RetriesIn(audit') = RetriesIn(audit)
    <3>1. RetriesIn(once) = RetriesIn(audit)
      BY <1>0, RetriesAfterAppend
    <3> HIDE DEF once
    <3>2. RetriesIn(Append(once, e2)) = RetriesIn(once)
      BY <2>2, RetriesAfterAppend
    <3> QED BY <2>1, <3>1, <3>2
  <2>5. row'.attempt = 1 + Cardinality(RetriesIn(audit'))
    BY <2>1, <2>4 DEF OneRetryPerAttempt
  <2>6. OneRetryPerAttempt'
    BY <2>5 DEF OneRetryPerAttempt, RetriesIn
  <2> QED BY <2>3, <2>6
<1> QED BY <1>1, <1>2, <1>3, <1>4 DEF AuditStep

LEMMA AuditInvariance == Spec => []AuditInv
<1>1. Init => AuditInv
  BY FS_EmptySet DEF Init, NoRow, AuditInv, NoLostUpdate, OneRetryPerAttempt, Exists
<1>2. IInv /\ AuditInv /\ [Next]_vars => AuditInv'
  <2>1. IInv /\ AuditInv /\ UNCHANGED vars => AuditInv'
    BY DEF vars, AuditInv, NoLostUpdate, OneRetryPerAttempt, Exists, RetriesIn
  <2> QED BY <2>1, NextIsAuditStep, AuditStepCounts
<1> QED BY <1>1, <1>2, Invariance, PTL DEF Spec

(* Every write replaced the version its caller had in hand, and left its   *)
(* event in the audit trail.                                               *)
THEOREM NoUpdateIsLost == Spec => []NoLostUpdate
BY AuditInvariance, PTL DEF AuditInv

(* Each attempt after the first was opened by exactly one audited retry.   *)
THEOREM AttemptsAreRetries == Spec => []OneRetryPerAttempt
BY AuditInvariance, PTL DEF AuditInv

(* The trail ends with the status of the row, so the event below a retry   *)
(* is the failure it answers.                                              *)
TrailInv ==
  /\ RetriesFollowFailures
  /\ audit = <<>> => row.status # "failed"
  /\ audit # <<>> => audit[Len(audit)].after = row.status

LEMMA EntryOf ==
  ASSUME NEW S, NEW log \in Seq(S), NEW i \in 1..Len(log)
  PROVE  log[i] \in S
OBVIOUS

LEMMA TrailStep ==
  ASSUME IInv, TrailInv, AuditStep
  PROVE  TrailInv'
<1> DEFINE E == [event : Events, expected : Nat, after : Statuses]
<1>0. audit \in Seq(E) /\ Len(audit) \in Nat
  BY DEF IInv, TypeOK
<1>1. CASE UNCHANGED <<row, audit>>
  BY <1>1 DEF TrailInv, RetriesFollowFailures, RetriesIn
<1>2. CASE RowOpens /\ UNCHANGED audit
  <2>1. row.version = 0 /\ row.status = "absent" /\ row'.status = "queued"
    BY <1>2 DEF RowOpens, OpenedRow, Exists, IInv, BookkeepingMatchesStatus, Consistent
  <2>2. audit = <<>>
    <3>1. ASSUME audit # <<>> PROVE audit[Len(audit)].after \in Statuses
      <4>1. Len(audit) \in 1..Len(audit)
        BY <1>0, <3>1
      <4>2. audit[Len(audit)] \in E
        BY <1>0, <4>1, EntryOf
      <4> QED BY <4>2
    <3>2. "absent" \notin Statuses
      BY DEF Statuses, Live, Terminal
    <3> QED BY <2>1, <3>1, <3>2 DEF TrailInv
  <2> QED BY <1>2, <2>1, <2>2 DEF TrailInv, RetriesFollowFailures, RetriesIn
<1>3. ASSUME NEW ev \in Events, LoggedOnce(ev) PROVE TrailInv'
  <2> DEFINE e == Logged(ev, row.version, row'.status)
  <2>1. /\ audit' = Append(audit, e) /\ e.event = ev /\ e.after = row'.status
        /\ ev = "workflow.retry" => row.status = "failed"
    BY <1>3 DEF LoggedOnce, Logged
  <2> HIDE DEF e
  <2>2. /\ Len(audit') = Len(audit) + 1 /\ audit'[Len(audit')] = e
        /\ \A i \in 1..Len(audit) : audit'[i] = audit[i]
    BY <1>0, <2>1
  <2>3. ASSUME NEW i \in RetriesIn(audit')
        PROVE  i > 1 /\ audit'[i - 1].after = "failed"
    <3>1. CASE i \in 1..Len(audit)
      <4>1. i \in RetriesIn(audit)
        BY <2>2, <3>1 DEF RetriesIn
      <4>2. i > 1 /\ audit[i - 1].after = "failed"
        BY <4>1 DEF TrailInv, RetriesFollowFailures
      <4> QED BY <1>0, <2>2, <3>1, <4>2
    <3>2. CASE i = Len(audit) + 1
      <4>1. ev = "workflow.retry"
        BY <2>1, <2>2, <3>2 DEF RetriesIn
      <4>2. audit # <<>> /\ audit[Len(audit)].after = "failed"
        BY <2>1, <4>1 DEF TrailInv
      <4>3. Len(audit) \in 1..Len(audit)
        BY <1>0, <4>2
      <4> QED BY <1>0, <2>2, <3>2, <4>2, <4>3
    <3> QED BY <1>0, <2>2, <3>1, <3>2 DEF RetriesIn
  <2>4. audit' # <<>>
    BY <1>0, <2>1
  <2> QED BY <2>1, <2>2, <2>3, <2>4 DEF TrailInv, RetriesFollowFailures
<1>4. CASE LoggedTwice
  <2> DEFINE e1 == Logged("workflow.cancel_requested", row.version, row.status)
             e2 == Logged("workflow.transition", row.version + 1, row'.status)
  <2>1. /\ audit' = Append(Append(audit, e1), e2)
        /\ e1.event # "workflow.retry" /\ e2.event # "workflow.retry"
        /\ e2.after = row'.status
    BY <1>4 DEF LoggedTwice, Logged
  <2>2. row.status \in Statuses /\ e1 \in E
    BY <1>4 DEF LoggedTwice, Logged, Exists, Events, IInv, TypeOK, Row
  <2> HIDE DEF e1, e2
  <2>3. /\ Len(audit') = Len(audit) + 2
        /\ audit'[Len(audit) + 1] = e1 /\ audit'[Len(audit) + 2] = e2
        /\ \A i \in 1..Len(audit) : audit'[i] = audit[i]
    BY <1>0, <2>1, <2>2
  <2>4. RetriesIn(audit') = RetriesIn(audit)
    BY <1>0, <2>1, <2>3 DEF RetriesIn
  <2>5. ASSUME NEW i \in RetriesIn(audit')
        PROVE  i > 1 /\ audit'[i - 1].after = "failed"
    <3>1. i \in RetriesIn(audit)
      BY <2>4
    <3>2. i \in 1..Len(audit)
      BY <3>1 DEF RetriesIn
    <3>3. i > 1 /\ audit[i - 1].after = "failed"
      BY <3>1 DEF TrailInv, RetriesFollowFailures
    <3>4. i - 1 \in 1..Len(audit)
      BY <1>0, <3>2, <3>3
    <3>5. audit'[i - 1] = audit[i - 1]
      BY <2>3, <3>4
    <3> QED BY <3>3, <3>5
  <2>6. audit' # <<>>
    BY <1>0, <2>3
  <2> QED BY <2>1, <2>3, <2>5, <2>6 DEF TrailInv, RetriesFollowFailures
<1> QED BY <1>1, <1>2, <1>3, <1>4 DEF AuditStep

LEMMA TrailInvariance == Spec => []TrailInv
<1>1. Init => TrailInv
  BY DEF Init, NoRow, TrailInv, RetriesFollowFailures, RetriesIn
<1>2. IInv /\ TrailInv /\ [Next]_vars => TrailInv'
  <2>1. IInv /\ TrailInv /\ UNCHANGED vars => TrailInv'
    BY DEF vars, TrailInv, RetriesFollowFailures, RetriesIn
  <2> QED BY <2>1, NextIsAuditStep, TrailStep
<1> QED BY <1>1, <1>2, Invariance, PTL DEF Spec

(* A reopened run has one audited retry for each attempt, each answering a *)
(* failure of its own, and carries nothing of the attempt that failed.     *)
THEOREM RetriesAreClean == Spec => []RetriesStartClean
<1>1. TrailInv => RetriesFollowFailures
  BY DEF TrailInv
<1> QED BY <1>1, Bookkeeping, AttemptsAreRetries, TrailInvariance, PTL
        DEF RetriesStartClean

-----------------------------------------------------------------------------
(* What helpers are told.                                                  *)

(* Once a row exists its digest is the one it was opened with.             *)
LEMMA DigestStays ==
  ASSUME IInv, RowStep, Exists
  PROVE  Exists' /\ row'.digest = row.digest
<1> USE DEF IInv, TypeOK, BookkeepingMatchesStatus
<1>1. CASE RowReopens
  BY <1>1, RetriedRow DEF RowReopens, Exists
<1>2. CASE RowMoves
  BY <1>2, TransitionedRow, EdgesStayInStatuses
     DEF RowMoves, Exists, Statuses, Live, Terminal
<1>3. CASE RowIsAskedToStop
  BY <1>3, CancelRequestedRow DEF RowIsAskedToStop, Exists
<1>4. CASE RowIsStopped
  BY <1>4, StoppedRow DEF Exists
<1> QED BY <1>1, <1>2, <1>3, <1>4 DEF RowStep, RowOpens, Exists

(* A helper about to reopen a run presented that run's digest.             *)
PendingBound ==
  \A c \in Clients :
    /\ pending[c].cmd = "start" => pending[c].digest = row.digest
    /\ pending[c].cmd = "probe" /\ pending[c].digest # NoDigest
         => pending[c].digest = row.digest
    /\ pending[c].cmd # "idle" => Exists

(* An answer that lets the caller go on, or tells it the work is done.     *)
GoAhead ==
  /\ reply.cmd \in {"start", "probe"}
  /\ reply.result \in {"opened", "in_progress", "completed", "retried"}
  /\ reply.cmd = "probe" => reply.digest # NoDigest

AnswerInv ==
  /\ PendingBound
  /\ GoAhead => Exists /\ row.digest = reply.digest
  /\ TriggerRefusesOnlyCancelled

NewAnswer ==
  /\ GoAhead' => Exists' /\ row'.digest = reply'.digest
  /\ reply'.result = "constraint_violation" => CancelAsked(row')

NewPending ==
  \/ UNCHANGED pending
  \/ \E c \in Clients : pending' = [pending EXCEPT ![c] = Idle]
  \/ /\ UNCHANGED row /\ Exists
     /\ \E c \in Clients : \E p :
          /\ p.cmd = "start" => p.digest = row.digest
          /\ p.cmd = "probe" /\ p.digest # NoDigest => p.digest = row.digest
          /\ pending' = [pending EXCEPT ![c] = p]

(* The trigger has every edge of the helper's table.                       *)
LEMMA TablesAgree ==
  ASSUME NEW t \in RunTransitions(row.status),
         ~TriggerAdmits(row, TransitionSets(row, t))
  PROVE  CancelAsked(row)
<1>1. <<row.status, t>> \in TriggerEdges
  BY DEF RunTransitions, TriggerEdges, Terminal
<1> QED BY <1>1 DEF TriggerAdmits, CancelAdmits, TransitionSets

LEMMA ClassifiedAnswer ==
  ASSUME IInv, NEW c \in Clients, NEW d \in Digests \cup {NoDigest},
         NEW cmd \in {"start", "probe"}, Exists,
         d = row.digest \/ (cmd = "probe" /\ d = NoDigest),
         Classify(c, cmd, d)
  PROVE  (UNCHANGED reply \/ NewAnswer) /\ NewPending
<1>1. CASE UNCHANGED <<row, pending>> /\ \E r : Answer(cmd, r, d) /\ r # "constraint_violation"
  BY <1>1 DEF Answer, NewAnswer, NewPending, GoAhead, Exists
<1>2. CASE /\ UNCHANGED <<row, reply>>
           /\ pending' = [pending EXCEPT ![c] =
                            [cmd |-> cmd, version |-> row.version, digest |-> d]]
  BY <1>2 DEF NewPending
<1> QED BY <1>1, <1>2 DEF Classify, Refuse

LEMMA NextAnswers ==
  ASSUME IInv, AnswerInv, Next
  PROVE  (UNCHANGED reply \/ NewAnswer) /\ NewPending
<1>1. ASSUME NEW c \in Clients, NEW d \in Digests \cup {NoDigest}, Start(c, d)
      PROVE  (UNCHANGED reply \/ NewAnswer) /\ NewPending
  <2>1. CASE Exists /\ HashMatches(d) /\ Classify(c, "start", d)
    BY <2>1, ClassifiedAnswer DEF HashMatches
  <2>2. CASE row' = OpenedRow(d) /\ Answer("start", "opened", d) /\ UNCHANGED pending
    BY <2>2 DEF Answer, OpenedRow, NewAnswer, NewPending, GoAhead, Exists
  <2>3. CASE Refuse("start", "payload_mismatch", d)
    BY <2>3 DEF Refuse, Answer, NewAnswer, NewPending, GoAhead
  <2> QED BY <1>1, <2>1, <2>2, <2>3 DEF Start
<1>2. ASSUME NEW c \in Clients, NEW d \in Digests \cup {NoDigest}, ReplayProbe(c, d)
      PROVE  (UNCHANGED reply \/ NewAnswer) /\ NewPending
  <2>1. CASE /\ Exists /\ (d # NoDigest => row.digest # NoDigest)
             /\ DigestMatches(d) /\ Classify(c, "probe", d)
    BY <2>1, ClassifiedAnswer DEF DigestMatches
  <2>2. CASE \E r \in {"absent", "unverifiable", "payload_mismatch"} : Refuse("probe", r, d)
    BY <2>2 DEF Refuse, Answer, NewAnswer, NewPending, GoAhead
  <2> QED BY <1>2, <2>1, <2>2 DEF ReplayProbe
<1>3. ASSUME NEW c \in Clients, Retry(c)
      PROVE  (UNCHANGED reply \/ NewAnswer) /\ NewPending
  <2>1. NewPending
    BY <1>3 DEF Retry, NewPending
  <2>2. CASE \E r \in {"revision_conflict", "invalid_state"} :
               Answer(pending[c].cmd, r, pending[c].digest)
    BY <2>1, <2>2 DEF Answer, NewAnswer, GoAhead
  <2>3. CASE /\ row.version = pending[c].version
             /\ row' = Retried(row)
             /\ Answer(pending[c].cmd, "retried", pending[c].digest)
    <3>1. pending[c].cmd \in {"start", "probe"} /\ row.status = "failed"
      BY <1>3, <2>3 DEF Retry, IInv, SnapshotStillTrue
    <3>2. row'.status = "queued" /\ row'.digest = row.digest
      BY <2>3, <3>1, RetriedRow DEF IInv, TypeOK, BookkeepingMatchesStatus
    <3> QED BY <2>1, <2>3, <3>1, <3>2
            DEF Answer, NewAnswer, GoAhead, AnswerInv, PendingBound, Exists
  <2> QED BY <1>3, <2>2, <2>3, CommittedRow DEF Retry
<1>4. ASSUME NEW c \in Clients, NEW e \in 1..MaxVersion, NEW t \in Targets,
             Transition(c, e, t)
      PROVE  (UNCHANGED reply \/ NewAnswer) /\ NewPending
  <2>1. NewPending
    BY <1>4 DEF Transition, Refuse, NewPending
  <2>2. CASE \E r \in {"revision_conflict", "unchanged", "invalid_transition",
                        "transitioned"} : Answer("transition", r, NoDigest)
    BY <2>1, <2>2 DEF Answer, NewAnswer, GoAhead
  <2>3. CASE /\ t \in RunTransitions(row.status)
             /\ ~TriggerAdmits(row, TransitionSets(row, t))
             /\ Refuse("transition", "constraint_violation", NoDigest)
    BY <2>1, <2>3, TablesAgree DEF Refuse, Answer, NewAnswer, GoAhead
  <2> QED BY <1>4, <2>2, <2>3 DEF Transition, Refuse
<1>5. ASSUME NEW c \in Clients, NEW e \in 1..MaxVersion, NEW terminal \in BOOLEAN,
             Cancel(c, e, terminal)
      PROVE  (UNCHANGED reply \/ NewAnswer) /\ NewPending
  <2>1. NewPending
    BY <1>5 DEF Cancel, CancelWorking, CancelWaiting, Refuse, NewPending
  <2>2. \E r \in {"revision_conflict", "already_terminal", "already_requested",
                  "cancel_requested", "cancelled"} :
           Answer(CancelCommand(terminal), r, NoDigest)
    BY <1>5 DEF Cancel, CancelWorking, CancelWaiting, Refuse
  <2> QED BY <2>1, <2>2 DEF CancelCommand, Answer, NewAnswer, GoAhead
<1>6. ASSUME NEW c \in Clients, Reconcile(c)
      PROVE  (UNCHANGED reply \/ NewAnswer) /\ NewPending
  <2>1. CASE \E r \in {"not_started", "already_failed", "reconciliation_refused"} :
               Refuse("reconcile", r, NoDigest)
    BY <2>1 DEF Refuse, Answer, NewAnswer, NewPending, GoAhead
  <2>2. CASE /\ row.status \in Live /\ UNCHANGED <<row, reply>>
             /\ pending' = [pending EXCEPT ![c] =
                   [cmd |-> "reconcile", version |-> row.version, digest |-> NoDigest]]
    BY <2>2 DEF NewPending, Exists, Live
  <2> QED BY <1>6, <2>1, <2>2 DEF Reconcile
<1>7. ASSUME NEW c \in Clients, MarkFailed(c) \/ Abort(c)
      PROVE  (UNCHANGED reply \/ NewAnswer) /\ NewPending
  BY <1>7 DEF MarkFailed, Abort, Answer, NewAnswer, NewPending, GoAhead
<1> QED BY <1>1, <1>2, <1>3, <1>4, <1>5, <1>6, <1>7 DEF Next

LEMMA AnswerInvariance == Spec => []AnswerInv
<1>1. Init => AnswerInv
  BY DEF Init, Idle, AnswerInv, PendingBound, GoAhead, TriggerRefusesOnlyCancelled
<1>2. ASSUME IInv, AnswerInv, Next PROVE AnswerInv'
  <2>1. RowStep /\ (UNCHANGED reply \/ NewAnswer) /\ NewPending
    BY <1>2, NextIsRowStep, NextAnswers
  <2>2. PendingBound'
    <3>1. pending \in [Clients -> [cmd : {"idle", "start", "probe", "reconcile"},
                                   version : Nat, digest : Digests \cup {NoDigest}]]
      BY <1>2 DEF IInv, TypeOK
    <3>2. \A c \in Clients :
            pending[c].cmd # "idle" => Exists' /\ row'.digest = row.digest
      BY <1>2, <2>1, DigestStays DEF AnswerInv, PendingBound
    <3>3. CASE UNCHANGED pending
      BY <1>2, <3>1, <3>2, <3>3 DEF AnswerInv, PendingBound
    <3>4. ASSUME NEW c \in Clients, pending' = [pending EXCEPT ![c] = Idle]
          PROVE  PendingBound'
      BY <1>2, <3>1, <3>2, <3>4 DEF AnswerInv, PendingBound, Idle
    <3>5. ASSUME UNCHANGED row, Exists, NEW c \in Clients, NEW p,
                 p.cmd = "start" => p.digest = row.digest,
                 p.cmd = "probe" /\ p.digest # NoDigest => p.digest = row.digest,
                 pending' = [pending EXCEPT ![c] = p]
          PROVE  PendingBound'
      BY <1>2, <3>1, <3>5 DEF AnswerInv, PendingBound, Exists
    <3> QED BY <2>1, <3>3, <3>4, <3>5 DEF NewPending
  <2>3. GoAhead' => Exists' /\ row'.digest = reply'.digest
    BY <1>2, <2>1, DigestStays DEF AnswerInv, NewAnswer, GoAhead
  <2>4. TriggerRefusesOnlyCancelled'
    BY <1>2, <2>1, CancelledStep DEF AnswerInv, NewAnswer, TriggerRefusesOnlyCancelled, CancelAsked
  <2> QED BY <2>2, <2>3, <2>4 DEF AnswerInv
<1>3. AnswerInv /\ UNCHANGED vars => AnswerInv'
  BY DEF vars, AnswerInv, PendingBound, GoAhead, TriggerRefusesOnlyCancelled, Exists,
         CancelAsked
<1> QED BY <1>1, <1>2, <1>3, Invariance, PTL DEF Spec

(* Whoever is told to go on presented the payload the run was opened with. *)
THEOREM PayloadsAreBound == Spec => []PayloadBound
<1>1. AnswerInv => PayloadBound
  BY DEF AnswerInv, GoAhead, PayloadBound
<1> QED BY <1>1, AnswerInvariance, PTL

(* The trigger refuses a helper only because of a cancellation.            *)
THEOREM TriggerNeverSurprises == Spec => []TriggerRefusesOnlyCancelled
BY AnswerInvariance, PTL DEF AnswerInv
=============================================================================
