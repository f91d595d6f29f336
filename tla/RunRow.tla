------------------------------- MODULE RunRow -------------------------------
(***************************************************************************)
(* One row of the PostgreSQL table workflow_runs and everything the        *)
(* database itself does to it: the check constraints' columns, the         *)
(* transition trigger guard_workflow_run_transition (migration 018), and   *)
(* the UPDATE statements of the three SECURITY DEFINER functions           *)
(* transition_workflow_run, request_workflow_cancel, retry_workflow_run.   *)
(* There are no variables here: WorkflowRun and EvaluateLead keep the row  *)
(* in a variable and apply these operators to it.                          *)
(*                                                                         *)
(* Columns kept: status, record_version, attempt, input_digest (which is   *)
(* also hashed into input_hash), and which of the nullable columns         *)
(* cancel_requested_at, finished_at and error_class are filled.            *)
(* flow_revision is left out: the helper writes back the value it read.    *)
(***************************************************************************)
EXTENDS Naturals

CONSTANTS Digests,   \* canonical argument payloads, as their sha256
          NoDigest   \* input_digest IS NULL

ASSUME NoDigestAssumption == NoDigest \notin Digests

Terminal == {"succeeded", "failed", "cancelled", "lost"}
Live     == {"queued", "started", "running", "waiting", "blocked"}
Statuses == Live \cup Terminal

(* vcops.RUN_TRANSITIONS: what workflow-transition may ask for.            *)
RunTransitions(s) ==
  CASE s = "queued"  -> {"started", "running", "cancelled", "failed", "lost"}
    [] s = "started" -> {"running", "waiting", "blocked"} \cup Terminal
    [] s = "running" -> {"waiting", "blocked"} \cup Terminal
    [] s = "waiting" -> {"running", "blocked"} \cup Terminal
    [] s = "blocked" -> {"running", "waiting", "failed", "cancelled", "lost"}
    [] OTHER         -> {}

(* The edges of the trigger, written out there a second time.              *)
TriggerEdges ==
       {"queued"} \X {"started", "running", "failed", "cancelled", "lost"}
  \cup {"started"} \X {"running", "waiting", "blocked", "succeeded",
                       "failed", "cancelled", "lost"}
  \cup {"running"} \X {"waiting", "blocked", "succeeded", "failed",
                       "cancelled", "lost"}
  \cup {"waiting"} \X {"running", "blocked", "succeeded", "failed",
                       "cancelled", "lost"}
  \cup {"blocked"} \X {"running", "waiting", "failed", "cancelled", "lost"}

Nullable == {"cancel_requested_at", "finished_at", "error_class"}

Row == [status  : Statuses \cup {"absent"},
        version : Nat,
        attempt : Nat,
        digest  : Digests \cup {NoDigest},
        filled  : SUBSET Nullable]

CancelAsked(r) == "cancel_requested_at" \in r.filled

(* No row under this (workflow_id, idempotency_key) yet.                   *)
NoRow == [status |-> "absent", version |-> 0, attempt |-> 0,
          digest |-> NoDigest, filled |-> {}]

(* The row workflow-start inserts.                                         *)
OpenedRow(d) ==
  [status |-> "queued", version |-> 1, attempt |-> 1, digest |-> d,
   filled |-> {}]

-----------------------------------------------------------------------------
(* guard_workflow_run_transition: may the UPDATE replace old by new?       *)
RecoveryEdge(old, new) ==
  /\ old.status = "failed" /\ new.status = "queued"
  /\ new.attempt = old.attempt + 1
  /\ new.filled \cap {"finished_at", "error_class"} = {}

AnyStatusAdmitted(old, new) == TRUE                        \* mutant

CancelAdmits(old, new) ==
  CancelAsked(old) /\ new.status # old.status
    => new.status \in {"cancelled", "failed", "lost"}

TriggerAdmits(old, new) ==
  /\ CancelAdmits(old, new)
  /\ \/ new.status = old.status
     \/ <<old.status, new.status>> \in TriggerEdges
     \/ RecoveryEdge(old, new)

(* ... and the columns it fills in.                                        *)
StampsOf(status) ==
       (IF status = "cancelled" THEN {"cancel_requested_at"} ELSE {})
  \cup (IF status \in Terminal THEN {"finished_at"} ELSE {})

Stamped(old, new) ==
  [status  |-> new.status,
   version |-> old.version + 1,
   attempt |-> new.attempt,
   digest  |-> new.digest,
   filled  |-> new.filled \cup StampsOf(new.status)]

-----------------------------------------------------------------------------
(* The SET lists of the three functions.  A row is replaced by one only if *)
(* the trigger admits it.                                                  *)
TransitionSets(r, target) ==
  [status  |-> target,
   version |-> r.version,
   attempt |-> r.attempt,
   digest  |-> r.digest,
   filled  |-> IF target = "failed" THEN r.filled \cup {"error_class"}
               ELSE r.filled]

CancelRequestSets(r) ==
  [r EXCEPT !.filled = r.filled \cup {"cancel_requested_at"}]

(* Reopened only after a failure of a run nobody asked to cancel.          *)
Reopenable(r) == r.status = "failed" /\ ~CancelAsked(r)

RetrySets(r) ==
  [status  |-> "queued",
   version |-> r.version,
   attempt |-> r.attempt + 1,
   digest  |-> r.digest,
   filled  |-> r.filled \ {"finished_at", "error_class"}]

Transitioned(r, target) == Stamped(r, TransitionSets(r, target))
CancelRequested(r)      == Stamped(r, CancelRequestSets(r))
Retried(r)              == Stamped(r, RetrySets(r))

(* What the table's CHECK constraints demand, with their converses: the    *)
(* bookkeeping of a row says exactly what its status says.                 *)
Consistent(r) ==
  /\ r.status = "absent" <=> r.version = 0
  /\ r.status = "absent" => ~CancelAsked(r)
  /\ "finished_at" \in r.filled <=> r.status \in Terminal
  /\ "error_class" \in r.filled <=> r.status = "failed"
  /\ r.status = "cancelled" => CancelAsked(r)
=============================================================================
