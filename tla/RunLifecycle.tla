---------------------------- MODULE RunLifecycle ----------------------------
(***************************************************************************)
(* What one workflow run promises to everybody who looks at it, whatever   *)
(* happens inside the helpers: a status, an attempt counter and a          *)
(* cancellation flag that change in single atomic steps along the          *)
(* documented life cycle (docs/DATA_MODEL.md, docs/WORKFLOWS.md).  The     *)
(* concurrent helpers of WorkflowRun and the runners of EvaluateLead are   *)
(* shown to implement it.                                                  *)
(***************************************************************************)
EXTENDS Naturals

VARIABLES status, attempt, cancel

vars == <<status, attempt, cancel>>

Final  == {"succeeded", "cancelled", "lost"}
Active == {"queued", "started", "running", "waiting", "blocked"}

Init == status = "absent" /\ attempt = 0 /\ cancel = FALSE

Open ==
  /\ status = "absent"
  /\ status' = "queued" /\ attempt' = 1 /\ UNCHANGED cancel

(* Work goes forward only while nobody has asked for cancellation.  A run  *)
(* never succeeds out of queued or blocked, and never returns to queued.   *)
Advance ==
  /\ status \in Active /\ ~cancel
  /\ status' \in {"started", "running", "waiting", "blocked", "succeeded"}
  /\ status' = "started" => status = "queued"
  /\ status' = "succeeded" => status \in {"started", "running", "waiting"}
  /\ UNCHANGED <<attempt, cancel>>

(* It may be abandoned at any time, cancellation requested or not.         *)
Abandon ==
  /\ status \in Active
  /\ status' \in {"failed", "lost"}
  /\ UNCHANGED <<attempt, cancel>>

(* Cooperative cancellation keeps the active status.                       *)
RequestCancel ==
  /\ status \in Active /\ ~cancel
  /\ cancel' /\ UNCHANGED <<status, attempt>>

Cancel ==
  /\ status \in Active
  /\ status' = "cancelled" /\ cancel' /\ UNCHANGED attempt

(* The only way out of a terminal status: a failed run nobody cancelled.   *)
Retry ==
  /\ status = "failed" /\ ~cancel
  /\ status' = "queued" /\ attempt' = attempt + 1 /\ UNCHANGED cancel

Next == Open \/ Advance \/ Abandon \/ RequestCancel \/ Cancel \/ Retry

Spec == Init /\ [][Next]_vars
=============================================================================
