----------------------------- MODULE WorkflowRun -----------------------------
(***************************************************************************)
(* One workflow run as the vcops helpers drive it: any number of helper    *)
(* processes issue workflow-start, workflow-replay-probe,                  *)
(* workflow-transition, workflow-reconcile-failure and workflow-cancel for *)
(* the same (workflow_id, idempotency_key), each with whatever expected    *)
(* revision its caller last saw, however old.                              *)
(*                                                                         *)
(* Every helper runs one READ COMMITTED transaction.  A command whose      *)
(* decision and write look at the same record_version is one step: the     *)
(* SELECT ... FOR UPDATE inside the database function compares the version *)
(* again, and equal versions mean an equal row.  The two commands that     *)
(* learn the version themselves, from an unlocked SELECT, take two steps:  *)
(* the reopening of a failed run and the failure reconciliation.           *)
(***************************************************************************)
EXTENDS RunRow, Sequences, FiniteSets

CONSTANTS Clients,     \* concurrent helper processes
          MaxVersion   \* bound on record_version

ASSUME MaxVersionAssumption == MaxVersion \in Nat

VARIABLES row,      \* the workflow_runs row
          audit,    \* the audit_events of this run, oldest first
          pending,  \* per helper: the SELECT it acted on, before its write
          reply     \* what the helper that finished last printed

vars == <<row, audit, pending, reply>>

Targets == UNION {RunTransitions(s) : s \in Statuses}

Events == {"workflow.transition", "workflow.cancel_requested", "workflow.retry"}

Idle == [cmd |-> "idle", version |-> 0, digest |-> NoDigest]

Results == {"none", "opened", "in_progress", "completed", "retried", "absent",
            "unverifiable", "payload_mismatch", "not_retryable",
            "revision_conflict", "invalid_state", "unchanged",
            "invalid_transition", "constraint_violation", "transitioned",
            "not_started", "already_failed", "reconciliation_refused",
            "reconciled", "already_terminal", "already_requested",
            "cancel_requested", "cancelled"}

Commands == {"none", "start", "probe", "transition", "reconcile", "cancel",
             "cancel_terminal"}

TypeOK ==
  /\ row \in Row
  /\ audit \in Seq([event : Events, expected : Nat, after : Statuses])
  /\ pending \in [Clients -> [cmd : {"idle", "start", "probe", "reconcile"},
                              version : Nat, digest : Digests \cup {NoDigest}]]
  /\ reply \in [cmd : Commands, result : Results,
                digest : Digests \cup {NoDigest}]

Init ==
  /\ row = NoRow
  /\ audit = <<>>
  /\ pending = [c \in Clients |-> Idle]
  /\ reply = [cmd |-> "none", result |-> "none", digest |-> NoDigest]

-----------------------------------------------------------------------------
Exists  == row.status # "absent"
Free(c) == pending[c].cmd = "idle"

Answer(cmd, result, d) ==
  reply' = [cmd |-> cmd, result |-> result, digest |-> d]

(* A helper that prints its answer without having written anything.        *)
Refuse(cmd, result, d) ==
  Answer(cmd, result, d) /\ UNCHANGED <<row, audit, pending>>

(* The UPDATE and the audit event of one database function: the SET list   *)
(* as far as the trigger admits it, the record_version its caller          *)
(* presented, and the status it left the row in.                           *)
Logged(event, expected, status) ==
  [event |-> event, expected |-> expected, after |-> status]

Commit(sets, event, expected) ==
  /\ TriggerAdmits(row, sets)
  /\ row' = Stamped(row, sets)
  /\ audit' = Append(audit, Logged(event, expected, sets.status))

-----------------------------------------------------------------------------
(* workflow-start and workflow-replay-probe: what an existing row means.   *)
(* A failed run is reopened by a later statement of the same helper.       *)
Classify(c, cmd, d) ==
  \/ /\ row.status = "succeeded"
     /\ Refuse(cmd, "completed", d)
  \/ /\ row.status \in {"cancelled", "lost"}
     /\ Refuse(cmd, "not_retryable", d)
  \/ /\ row.status \in Live
     /\ Refuse(cmd, "in_progress", d)
  \/ /\ row.status = "failed"
     /\ pending' = [pending EXCEPT ![c] =
                      [cmd |-> cmd, version |-> row.version, digest |-> d]]
     /\ UNCHANGED <<row, audit, reply>>

(* _assert_replay_matches on input_hash, which covers the digest.          *)
HashMatchesAnything(d) == TRUE                             \* mutant
HashMatches(d) == row.digest = d

(* ... and on input_digest alone, when both sides have one.                *)
DigestMatches(d) == d = NoDigest \/ row.digest = NoDigest \/ row.digest = d

Start(c, d) ==
  /\ Free(c)
  /\ \/ /\ ~Exists                                  \* INSERT ... DO NOTHING
        /\ row' = OpenedRow(d)
        /\ Answer("start", "opened", d)
        /\ UNCHANGED <<audit, pending>>
     \/ /\ Exists /\ ~HashMatches(d)
        /\ Refuse("start", "payload_mismatch", d)
     \/ /\ Exists /\ HashMatches(d)
        /\ Classify(c, "start", d)

ReplayProbe(c, d) ==
  /\ Free(c)
  /\ \/ /\ ~Exists
        /\ Refuse("probe", "absent", d)
     \/ /\ Exists /\ d # NoDigest /\ row.digest = NoDigest
        /\ Refuse("probe", "unverifiable", d)
     \/ /\ Exists /\ (d # NoDigest => row.digest # NoDigest) /\ ~DigestMatches(d)
        /\ Refuse("probe", "payload_mismatch", d)
     \/ /\ Exists /\ (d # NoDigest => row.digest # NoDigest) /\ DigestMatches(d)
        /\ Classify(c, "probe", d)

(* retry_workflow_run at the version the classification read.              *)
RetryBlindly(c) ==                                         \* mutant
  LET p == pending[c] IN
  /\ p.cmd \in {"start", "probe"}
  /\ pending' = [pending EXCEPT ![c] = Idle]
  /\ ~CancelAsked(row) /\ row.version < MaxVersion
  /\ Commit(RetrySets(row), "workflow.retry", row.version)
  /\ Answer(p.cmd, "retried", p.digest)

Retry(c) ==
  LET p == pending[c] IN
  /\ p.cmd \in {"start", "probe"}
  /\ pending' = [pending EXCEPT ![c] = Idle]
  /\ \/ /\ row.version # p.version
        /\ Answer(p.cmd, "revision_conflict", p.digest)
        /\ UNCHANGED <<row, audit>>
     \/ /\ row.version = p.version /\ ~Reopenable(row)
        /\ Answer(p.cmd, "invalid_state", p.digest)
        /\ UNCHANGED <<row, audit>>
     \/ /\ row.version = p.version /\ Reopenable(row) /\ row.version < MaxVersion
        /\ Commit(RetrySets(row), "workflow.retry", p.version)
        /\ Answer(p.cmd, "retried", p.digest)

-----------------------------------------------------------------------------
(* workflow-transition: _transition_run at the caller's revision.          *)
Transition(c, expected, target) ==
  /\ Exists /\ Free(c)
  /\ \/ /\ row.version # expected
        /\ Refuse("transition", "revision_conflict", NoDigest)
     \/ /\ row.version = expected /\ target = row.status
        /\ Refuse("transition", "unchanged", NoDigest)
     \/ /\ row.version = expected /\ target # row.status
        /\ target \notin RunTransitions(row.status)
        /\ Refuse("transition", "invalid_transition", NoDigest)
     \/ /\ row.version = expected /\ target # row.status
        /\ target \in RunTransitions(row.status)
        /\ ~TriggerAdmits(row, TransitionSets(row, target))
        /\ Refuse("transition", "constraint_violation", NoDigest)
     \/ /\ row.version = expected /\ target # row.status
        /\ target \in RunTransitions(row.status)
        /\ row.version < MaxVersion
        /\ Commit(TransitionSets(row, target), "workflow.transition", expected)
        /\ Answer("transition", "transitioned", NoDigest)
        /\ UNCHANGED pending

(* workflow-reconcile-failure: the row it finds under the key ...          *)
Reconcile(c) ==
  /\ Free(c)
  /\ \/ /\ ~Exists
        /\ Refuse("reconcile", "not_started", NoDigest)
     \/ /\ row.status = "failed"
        /\ Refuse("reconcile", "already_failed", NoDigest)
     \/ /\ row.status \in {"succeeded", "cancelled", "lost"}
        /\ Refuse("reconcile", "reconciliation_refused", NoDigest)
     \/ /\ row.status \in Live
        /\ pending' = [pending EXCEPT ![c] =
             [cmd |-> "reconcile", version |-> row.version, digest |-> NoDigest]]
        /\ UNCHANGED <<row, audit, reply>>

(* ... is marked failed if its version is still the one that was read.     *)
ReconcileBlindly(c) ==                                     \* mutant
  /\ pending[c].cmd = "reconcile"
  /\ pending' = [pending EXCEPT ![c] = Idle]
  /\ row.version < MaxVersion
  /\ Commit(TransitionSets(row, "failed"), "workflow.transition", pending[c].version)
  /\ Answer("reconcile", "reconciled", NoDigest)

MarkFailed(c) ==
  /\ pending[c].cmd = "reconcile"
  /\ pending' = [pending EXCEPT ![c] = Idle]
  /\ \/ /\ row.version # pending[c].version
        /\ Answer("reconcile", "revision_conflict", NoDigest)
        /\ UNCHANGED <<row, audit>>
     \/ /\ row.version = pending[c].version /\ row.version < MaxVersion
        /\ Commit(TransitionSets(row, "failed"), "workflow.transition", row.version)
        /\ Answer("reconcile", "reconciled", NoDigest)

-----------------------------------------------------------------------------
(* workflow-cancel.  A started or running run is asked to stop; only with  *)
(* --terminal (operator mode) does the same transaction also end it.       *)
CancelCommand(terminal) == IF terminal THEN "cancel_terminal" ELSE "cancel"

CancelWorking(terminal, expected) ==
  LET cmd   == CancelCommand(terminal)
      asked == CancelRequested(row) IN
  /\ row.status \in {"started", "running"}
  /\ \/ /\ CancelAsked(row)
        /\ Refuse(cmd, "already_requested", NoDigest)
     \/ /\ ~CancelAsked(row) /\ ~terminal /\ row.version < MaxVersion
        /\ Commit(CancelRequestSets(row), "workflow.cancel_requested", expected)
        /\ Answer(cmd, "cancel_requested", NoDigest)
        /\ UNCHANGED pending
     \/ /\ ~CancelAsked(row) /\ terminal /\ row.version + 1 < MaxVersion
        /\ TriggerAdmits(row, CancelRequestSets(row))
        /\ TriggerAdmits(asked, TransitionSets(asked, "cancelled"))
        /\ row' = Transitioned(asked, "cancelled")
        /\ audit' = audit \o
             <<Logged("workflow.cancel_requested", expected, row.status),
               Logged("workflow.transition", expected + 1, "cancelled")>>
        /\ Answer(cmd, "cancelled", NoDigest)
        /\ UNCHANGED pending

CancelWaiting(terminal, expected) ==
  /\ row.status \in {"queued", "waiting", "blocked"}
  /\ row.version < MaxVersion
  /\ Commit(TransitionSets(row, "cancelled"), "workflow.transition", expected)
  /\ Answer(CancelCommand(terminal), "cancelled", NoDigest)
  /\ UNCHANGED pending

Cancel(c, expected, terminal) ==
  /\ Exists /\ Free(c)
  /\ \/ /\ row.version # expected
        /\ Refuse(CancelCommand(terminal), "revision_conflict", NoDigest)
     \/ /\ row.version = expected /\ row.status \in Terminal
        /\ Refuse(CancelCommand(terminal), "already_terminal", NoDigest)
     \/ /\ row.version = expected
        /\ CancelWorking(terminal, expected) \/ CancelWaiting(terminal, expected)

(* A helper is killed between its SELECT and its write: nothing is kept.   *)
Abort(c) ==
  /\ ~Free(c)
  /\ pending' = [pending EXCEPT ![c] = Idle]
  /\ UNCHANGED <<row, audit, reply>>

Next ==
  \E c \in Clients :
     \/ \E d \in Digests \cup {NoDigest} : Start(c, d) \/ ReplayProbe(c, d)
     \/ Retry(c)
     \/ \E e \in 1..MaxVersion :
          \/ \E t \in Targets : Transition(c, e, t)
          \/ \E terminal \in BOOLEAN : Cancel(c, e, terminal)
     \/ Reconcile(c)
     \/ MarkFailed(c)
     \/ Abort(c)

Spec == Init /\ [][Next]_vars

-----------------------------------------------------------------------------
(* Properties.                                                             *)

(* finished_at, error_class and the cancellation flag say exactly what the *)
(* status says, after any number of failures and retries: a reopened run   *)
(* carries nothing of the attempt that failed (check constraints of        *)
(* workflow_runs; retry_workflow_run).                                     *)
BookkeepingMatchesStatus == Consistent(row)

(* Optimistic concurrency: every write that happened replaced exactly the  *)
(* row version its caller had in hand, so none overwrote a change it had   *)
(* not seen, and every version after the first has its audit event         *)
(* (transition_workflow_run, request_workflow_cancel, retry_workflow_run). *)
NoLostUpdate ==
  /\ Len(audit) = IF Exists THEN row.version - 1 ELSE 0
  /\ \A i \in 1..Len(audit) : audit[i].expected = i

(* A record_version names one row image: while it has not moved, what a    *)
(* helper read without a lock is still true when it writes, which is what  *)
(* lets the commands classify first and lock later.                        *)
SnapshotStillTrue ==
  \A c \in Clients :
    /\ pending[c].version <= row.version
    /\ pending[c].version = row.version
         => /\ pending[c].cmd \in {"start", "probe"} => row.status = "failed"
            /\ pending[c].cmd = "reconcile" => row.status \in Live

(* However many helpers see the same failure, each attempt after the first *)
(* was opened by exactly one audited retry.                                *)
RetriesIn(log) == {i \in 1..Len(log) : log[i].event = "workflow.retry"}

OneRetryPerAttempt ==
  Exists => row.attempt = 1 + Cardinality(RetriesIn(audit))

(* ... and that retry found the failure it answers just below it in the    *)
(* trail: one failure is never reopened twice.                             *)
RetriesFollowFailures ==
  \A i \in RetriesIn(audit) : i > 1 /\ audit[i - 1].after = "failed"

(* A run that is reopened, however often and by however many helpers,      *)
(* starts clean: one audited retry for each attempt, one failure before    *)
(* each retry, and nothing left of the attempt that failed                 *)
(* (retry_workflow_run).                                                   *)
RetriesStartClean ==
  BookkeepingMatchesStatus /\ OneRetryPerAttempt /\ RetriesFollowFailures

(* A key is bound to the payload it was opened with: whoever workflow-start *)
(* or a digest-carrying probe tells to go on (or that the work is done) has *)
(* the digest of the row (_assert_replay_matches).                          *)
PayloadBound ==
  /\ reply.cmd \in {"start", "probe"}
  /\ reply.result \in {"opened", "in_progress", "completed", "retried"}
  /\ reply.cmd = "probe" => reply.digest # NoDigest
  => row.digest = reply.digest

(* The helper's transition table and the trigger's agree, so the trigger   *)
(* surprises a helper only with its cancellation rule (comment above       *)
(* RUN_TRANSITIONS: a looser row would surface as constraint_violation).   *)
TriggerRefusesOnlyCancelled ==
  reply.result = "constraint_violation" => CancelAsked(row)

(* No edge leads out of succeeded, cancelled or lost, and the only one out *)
(* of failed is the retry of a run nobody asked to cancel.                 *)
TerminalIsFinal ==
  [][ row.status \in Terminal /\ row' # row
        => /\ row.status = "failed" /\ ~CancelAsked(row)
           /\ row'.status = "queued" /\ row'.attempt = row.attempt + 1 ]_vars

(* After a cancellation request a late success or any other forward        *)
(* transition is impossible, and the request is never forgotten, whichever *)
(* helper was about to write when it arrived.                              *)
CancelIsSticky ==
  [][ CancelAsked(row)
        => /\ CancelAsked(row')
           /\ row'.status \in {row.status, "cancelled", "failed", "lost"} ]_vars

(* The helpers implement the abstract life cycle.                          *)
Lifecycle == INSTANCE RunLifecycle
  WITH status <- row.status, attempt <- row.attempt, cancel <- CancelAsked(row)

ImplementsLifecycle == Lifecycle!Spec
=============================================================================
