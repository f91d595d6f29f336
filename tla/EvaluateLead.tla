---------------------------- MODULE EvaluateLead ----------------------------
(***************************************************************************)
(* The one human-gated workflow, evaluate-lead, from end to end: any       *)
(* number of vcrun processes launched with the same idempotency key and    *)
(* the same arguments (an impatient steward, a retry after a failure), the *)
(* Lobster graph each of them supervises, the failure hook, the paused     *)
(* continuation, and the operator's vcrun-control and workflow-cancel.     *)
(*                                                                         *)
(* A helper command is one step unless it acts on an earlier unlocked read *)
(* (reopening a failed run, marking a run failed), as in WorkflowRun.      *)
(* Lobster is external: it runs the steps of evaluate-lead.lobster in      *)
(* order, stops at the first error, keeps a paused continuation until a    *)
(* resume has finished or a cancel has removed it, and retains it when a   *)
(* resume fails (docs/TASKFLOW_LOBSTER_COMPATIBILITY.md).                  *)
(*                                                                         *)
(* The lead's evidence is a counter: facts, contradictions and             *)
(* trajectories matter only through the packet hash.  findings numbers the *)
(* decision-relevant contradictions, which evaluation-save reads again.    *)
(* The rows of compiled_truth and evaluations are sequences: every insert  *)
(* supersedes the previous current (final) row, so the last one is it.     *)
(***************************************************************************)
EXTENDS RunRow, Sequences, SequencesExt

CONSTANTS Jobs,         \* vcrun invocations, each with its Lobster execution
          MaxVersion,   \* bound on record_version
          MaxEvidence   \* bound on the changes of the lead's evidence

ASSUME BoundsAssumption == MaxVersion \in Nat /\ MaxEvidence \in Nat /\ Digests # {}

VARIABLES row,          \* the workflow_runs row of the key
          job,          \* per invocation: where it is and what it carries
          evidence,     \* [packet, findings]: what compiled-truth would freeze
          truths,       \* compiled_truth rows of the lead
          evaluations   \* evaluations rows of this run: their snapshot, and
                        \* the findings that were live when they were saved

vars == <<row, job, evidence, truths, evaluations>>
data == <<evidence, truths, evaluations>>

(* Where an invocation can be: executing under vcrun, with the failure     *)
(* hook, waiting for the operator, resumed under vcrun-control, or over.   *)
Launching == {"idle", "probe_retry"}
Graph     == {"start", "start_retry", "running", "prequalify"}
Hook      == {"failing", "marking"}
Resumed   == {"compile", "save", "succeed", "closing"}
Over      == {"replayed", "refused", "reconciled", "unreconciled",
              "interrupted", "rejected", "done"}
Places    == Launching \cup Graph \cup Hook \cup Resumed \cup Over
               \cup {"paused", "rejecting"}

(* version: the record_version it will present; attempt: the attempt it    *)
(* put into running; truth: the snapshot compiled after approval.          *)
Job == [at : Places, version : Nat, attempt : Nat, truth : Nat]

Args == CHOOSE d \in Digests : TRUE    \* every invocation has the same

TypeOK ==
  /\ row \in Row
  /\ job \in [Jobs -> Job]
  /\ evidence \in [packet : Nat, findings : Nat]
  /\ truths \in Seq([packet : Nat, findings : Nat])
  /\ evaluations \in Seq([truth : Nat, findings : Nat])

Init ==
  /\ row = NoRow
  /\ job = [j \in Jobs |-> [at |-> "idle", version |-> 0, attempt |-> 0, truth |-> 0]]
  /\ evidence = [packet |-> 0, findings |-> 0]
  /\ truths = <<>>
  /\ evaluations = <<>>

-----------------------------------------------------------------------------
Goes(j, place)        == job' = [job EXCEPT ![j].at = place]
Holds(j, place, v)    == job' = [job EXCEPT ![j].at = place, ![j].version = v]
Runs(j, v, n)         == job' = [job EXCEPT ![j].at = "prequalify",
                                            ![j].version = v, ![j].attempt = n]

(* workflow-transition at the version the caller holds.                    *)
MayTransition(j, target) ==
  /\ row.version = job[j].version
  /\ target \in RunTransitions(row.status)
  /\ TriggerAdmits(row, TransitionSets(row, target))

(* retry_workflow_run at the version the caller read.                      *)
MayRetry(j) ==
  /\ row.version = job[j].version
  /\ Reopenable(row) /\ TriggerAdmits(row, RetrySets(row))

(* vcrun, before Lobster: the replay probe.                                *)
Probe(j) ==
  /\ job[j].at = "idle"
  /\ \/ row.status \in Live \cup {"absent"}       /\ Goes(j, "start")
     \/ row.status = "succeeded"                  /\ Goes(j, "replayed")
     \/ row.status \in {"cancelled", "lost"}      /\ Goes(j, "refused")
     \/ row.status = "failed"                     /\ Holds(j, "probe_retry", row.version)
  /\ UNCHANGED <<row, data>>

ProbeRetry(j) ==
  /\ job[j].at = "probe_retry"
  /\ \/ /\ MayRetry(j) /\ row.version < MaxVersion
        /\ row' = Retried(row) /\ Goes(j, "start")
     \/ ~MayRetry(j) /\ Goes(j, "refused") /\ UNCHANGED row
  /\ UNCHANGED data

(* workflow_start, once more with the whole request.  The graph does not   *)
(* look at its "execute" answer.                                           *)
Start(j) ==
  /\ job[j].at = "start"
  /\ \/ /\ row.status = "absent"
        /\ row' = OpenedRow(Args) /\ Holds(j, "running", 1)
     \/ /\ row.status \in Live \cup {"succeeded"}
        /\ Holds(j, "running", row.version) /\ UNCHANGED row
     \/ /\ row.status \in {"cancelled", "lost"}
        /\ Goes(j, "failing") /\ UNCHANGED row
     \/ /\ row.status = "failed"
        /\ Holds(j, "start_retry", row.version) /\ UNCHANGED row
  /\ UNCHANGED data

StartRetry(j) ==
  /\ job[j].at = "start_retry"
  /\ \/ /\ MayRetry(j) /\ row.version < MaxVersion
        /\ row' = Retried(row) /\ Holds(j, "running", row.version + 1)
     \/ ~MayRetry(j) /\ Goes(j, "failing") /\ UNCHANGED row
  /\ UNCHANGED data

(* workflow_running: a run that is running already is left as it is.       *)
AlreadyRunning(j) == row.version = job[j].version /\ row.status = "running"

Running(j) ==
  /\ job[j].at = "running"
  /\ \/ /\ AlreadyRunning(j)
        /\ Runs(j, row.version, row.attempt) /\ UNCHANGED row
     \/ /\ MayTransition(j, "running") /\ row.version < MaxVersion
        /\ row' = Transitioned(row, "running")
        /\ Runs(j, row.version + 1, row.attempt)
     \/ /\ ~AlreadyRunning(j) /\ ~MayTransition(j, "running")
        /\ Goes(j, "failing") /\ UNCHANGED row
  /\ UNCHANGED data

(* prequalify writes nothing; then the approval step persists the pause    *)
(* and vcrun exits.                                                        *)
Pause(j) ==
  /\ job[j].at = "prequalify"
  /\ Goes(j, "paused") /\ UNCHANGED <<row, data>>

(* A step error, timeout, output limit or invalid output: Lobster is       *)
(* killed or has stopped, and vcrun calls its failure hook.                *)
StepFailsUnreported(j) ==                                  \* mutant
  /\ job[j].at \in Graph
  /\ Goes(j, IF job[j].at = "prequalify" THEN "reconciled" ELSE "failing")
  /\ UNCHANGED <<row, data>>

StepStartsOver(j) ==                                       \* mutant
  /\ job[j].at \in Graph
  /\ Goes(j, "start") /\ UNCHANGED <<row, data>>

StepFails(j) ==
  /\ job[j].at \in Graph
  /\ Goes(j, "failing") /\ UNCHANGED <<row, data>>

(* vcrun is terminated by a signal, or its probe times out after the       *)
(* helper committed: no hook.                                              *)
Interrupt(j) ==
  /\ job[j].at \in {"probe_retry"} \cup Graph \cup Hook
  /\ Goes(j, "interrupted") /\ UNCHANGED <<row, data>>

(* workflow-reconcile-failure: by key, whoever owns the run now.           *)
HookRead(j) ==
  /\ job[j].at = "failing"
  /\ \/ row.status \in {"absent", "failed"}              /\ Goes(j, "reconciled")
     \/ row.status \in {"succeeded", "cancelled", "lost"} /\ Goes(j, "unreconciled")
     \/ row.status \in Live                              /\ Holds(j, "marking", row.version)
  /\ UNCHANGED <<row, data>>

HookMark(j) ==
  /\ job[j].at = "marking"
  /\ \/ /\ row.version = job[j].version /\ row.version < MaxVersion
        /\ TriggerAdmits(row, TransitionSets(row, "failed"))
        /\ row' = Transitioned(row, "failed")
        /\ Goes(j, "reconciled") \/ Goes(j, "unreconciled")   \* answer lost
     \/ /\ row.version # job[j].version
        /\ Goes(j, "unreconciled") /\ UNCHANGED row
  /\ UNCHANGED data

(* The hook's helper exceeds its 30 seconds before it has written.         *)
HookTimesOut(j) ==
  /\ job[j].at \in Hook
  /\ Goes(j, "unreconciled") /\ UNCHANGED <<row, data>>

-----------------------------------------------------------------------------
(* vcrun-control resume --approve yes: the continuation goes on under the  *)
(* operator's process, without a failure hook.                             *)
Approve(j) ==
  /\ job[j].at = "paused"
  /\ Goes(j, "compile") /\ UNCHANGED <<row, data>>

(* compiled_truth: the current snapshot if it froze this very packet.      *)
Compile(j) ==
  /\ job[j].at = "compile"
  /\ truths' = IF truths # <<>> /\ Last(truths).packet = evidence.packet
               THEN truths ELSE Append(truths, evidence)
  /\ job' = [job EXCEPT ![j].at = "save", ![j].truth = Len(truths')]
  /\ UNCHANGED <<row, evidence, evaluations>>

(* evaluation_save: the snapshot is still current and still describes the  *)
(* live findings; the same request is saved once.                          *)
EvaluatedAlready(t) == \E i \in 1..Len(evaluations) : evaluations[i].truth = t

SaveOnOldFindings(j) ==                                    \* mutant
  LET t == job[j].truth IN
  /\ job[j].at = "save"
  /\ t = Len(truths)
  /\ evaluations' = IF EvaluatedAlready(t) THEN evaluations
       ELSE Append(evaluations, [truth |-> t, findings |-> evidence.findings])
  /\ Goes(j, "succeed")
  /\ UNCHANGED <<row, evidence, truths>>

Save(j) ==
  LET t == job[j].truth IN
  /\ job[j].at = "save"
  /\ t = Len(truths) /\ truths[t].findings = evidence.findings
  /\ evaluations' = IF EvaluatedAlready(t) THEN evaluations
       ELSE Append(evaluations, [truth |-> t, findings |-> evidence.findings])
  /\ Goes(j, "succeed")
  /\ UNCHANGED <<row, evidence, truths>>

(* workflow_succeeded, at the version the checkpoint showed the operator.  *)
SucceedAtAnyVersion(j) ==                                  \* mutant
  /\ job[j].at = "succeed"
  /\ "succeeded" \in RunTransitions(row.status)
  /\ TriggerAdmits(row, TransitionSets(row, "succeeded"))
  /\ row.version < MaxVersion
  /\ row' = Transitioned(row, "succeeded")
  /\ Goes(j, "closing")
  /\ UNCHANGED data

Succeed(j) ==
  /\ job[j].at = "succeed"
  /\ MayTransition(j, "succeeded") /\ row.version < MaxVersion
  /\ row' = Transitioned(row, "succeeded")
  /\ Goes(j, "closing")
  /\ UNCHANGED data

(* Lobster removes the continuation of a finished resume.                  *)
Close(j) ==
  /\ job[j].at = "closing"
  /\ Goes(j, "done") /\ UNCHANGED <<row, data>>

(* A resumed step is refused, times out or is killed: the continuation is  *)
(* retained, and nobody touches the run.                                   *)
ResumeFails(j) ==
  /\ job[j].at \in Resumed
  /\ Goes(j, "paused") /\ UNCHANGED <<row, data>>

(* vcrun-control --approve no / --cancel: first workflow-cancel --terminal *)
(* at the version the operator gives, from the checkpoint or read again,   *)
(* must print a cancelled run.                                             *)
CancelTerminally ==
  \/ LET asked == CancelRequested(row) IN
     /\ row.status \in {"started", "running"} /\ ~CancelAsked(row)
     /\ row.version + 1 < MaxVersion
     /\ TriggerAdmits(row, CancelRequestSets(row))
     /\ TriggerAdmits(asked, TransitionSets(asked, "cancelled"))
     /\ row' = Transitioned(asked, "cancelled")
  \/ /\ row.status \in {"queued", "waiting", "blocked"}
     /\ row.version < MaxVersion
     /\ TriggerAdmits(row, TransitionSets(row, "cancelled"))
     /\ row' = Transitioned(row, "cancelled")

RejectAnyTerminal(j, expected) ==                          \* mutant
  /\ job[j].at = "paused" /\ row.version = expected
  /\ CancelTerminally \/ (row.status \in Terminal /\ UNCHANGED row)
  /\ Goes(j, "rejecting")
  /\ UNCHANGED data

Reject(j, expected) ==
  /\ job[j].at = "paused" /\ row.version = expected
  /\ CancelTerminally \/ (row.status = "cancelled" /\ UNCHANGED row)
  /\ Goes(j, "rejecting")
  /\ UNCHANGED data

(* ... then Lobster may delete the continuation, unless vcrun-control dies *)
(* or fails in between.                                                    *)
Discard(j) ==
  /\ job[j].at = "rejecting"
  /\ Goes(j, "rejected") \/ Goes(j, "paused")
  /\ UNCHANGED <<row, data>>

(* The helpers an operator (or an agent, for the cooperative request) runs *)
(* outside the graph: workflow-cancel, and workflow-transition to failed   *)
(* or lost.                                                                *)
AskToCancel ==
  /\ row.status \in {"started", "running"} /\ ~CancelAsked(row)
  /\ row.version < MaxVersion
  /\ TriggerAdmits(row, CancelRequestSets(row))
  /\ row' = CancelRequested(row)
  /\ UNCHANGED <<job, data>>

CancelOutside == CancelTerminally /\ UNCHANGED <<job, data>>

GiveUp ==
  /\ row.status \in Live /\ row.version < MaxVersion
  /\ \E t \in {"failed", "lost"} :
       /\ TriggerAdmits(row, TransitionSets(row, t))
       /\ row' = Transitioned(row, t)
  /\ UNCHANGED <<job, data>>

(* Other workflows record facts and contradictions about the lead.         *)
EvidenceChanges ==
  /\ evidence.packet < MaxEvidence
  /\ \E f \in {0, 1} :
       evidence' = [packet |-> evidence.packet + 1, findings |-> evidence.findings + f]
  /\ UNCHANGED <<row, job, truths, evaluations>>

-----------------------------------------------------------------------------
Launched(j) ==
  \/ ProbeRetry(j) \/ Start(j) \/ StartRetry(j) \/ Running(j) \/ Pause(j)
  \/ StepFails(j) \/ Interrupt(j)
  \/ HookRead(j) \/ HookMark(j) \/ HookTimesOut(j)

Continued(j) ==
  \/ Compile(j) \/ Save(j) \/ Succeed(j) \/ Close(j) \/ ResumeFails(j)

Operator(j) ==
  \/ Approve(j) \/ Discard(j)
  \/ \E expected \in {job[j].version, row.version} : Reject(j, expected)

Next ==
  \/ \E j \in Jobs : Probe(j) \/ Launched(j) \/ Continued(j) \/ Operator(j)
  \/ AskToCancel \/ CancelOutside \/ GiveUp \/ EvidenceChanges

Spec == Init /\ [][Next]_vars

(* A process that was launched is scheduled, and every one of its waits is *)
(* bounded: step timeout_ms, RUN_TIMEOUT_SECONDS, the 30 s of a helper.    *)
(* Nothing makes an operator decide or a steward launch.                   *)
FairSpec == Spec /\ \A j \in Jobs : WF_vars(Launched(j)) /\ WF_vars(Continued(j))

-----------------------------------------------------------------------------
(* Properties.                                                             *)

(* The run succeeds only in the attempt, and at the very revision, that an *)
(* operator was shown at a checkpoint and approved, and with an evaluation *)
(* on record: no approval of an earlier attempt's checkpoint and no change *)
(* behind the operator's back completes it (workflow_succeeded presents    *)
(* the version of workflow_running).                                       *)
SuccessWasApproved ==
  row.status = "succeeded" =>
    /\ evaluations # <<>>
    /\ \E j \in Jobs : /\ job[j].truth # 0
                        /\ job[j].version + 1 = row.version
                        /\ job[j].attempt = row.attempt

(* Every saved evaluation was computed from findings that its frozen       *)
(* snapshot also shows, although the lead's evidence and the snapshots     *)
(* move between compiled-truth and evaluation-save.                        *)
EvaluationMatchesSnapshot ==
  \A i \in 1..Len(evaluations) :
    evaluations[i].findings = truths[evaluations[i].truth].findings

(* A rejected continuation is deleted only after the run is cancelled,     *)
(* whatever failed, was retried or raced in between (vcrun-control).       *)
RejectionCancelsFirst ==
  \A j \in Jobs : job[j].at \in {"rejecting", "rejected"} => row.status = "cancelled"

(* In a well-typed state, a live run nobody asked to cancel has somebody   *)
(* at work on it, or a checkpoint whose approval can still complete it;    *)
(* otherwise some runner reported that it was interrupted or could not     *)
(* reconcile.                                                              *)
NoSilentStranding ==
  /\ TypeOK
  /\ row.status \in Live /\ ~CancelAsked(row) =>
       \E j \in Jobs :
         \/ job[j].at \in {"probe_retry"} \cup Graph \cup Hook
         \/ /\ job[j].at \in Resumed \cup {"paused"}
            /\ job[j].version = row.version
         \/ job[j].at \in {"interrupted", "unreconciled"}

(* A launched or resumed process always comes to an end: a checkpoint, a   *)
(* result or a reported failure.                                           *)
ProcessesSettle ==
  \A j \in Jobs :
    job[j].at \in {"probe_retry"} \cup Graph \cup Hook \cup Resumed
      ~> job[j].at \in Over \cup {"paused"}

(* docs/WORKFLOWS.md: a run that completed is never re-executed.  A second *)
(* checkpoint of the same key, or a retained continuation, still executes  *)
(* compiled_truth and evaluation_save after success: TLC refutes this one, *)
(* and no run lists it.                                                    *)
CompletedNeverReexecuted ==
  [][row.status = "succeeded" => UNCHANGED <<truths, evaluations>>]_vars

(* The runners, the operator and the helpers around them implement the     *)
(* abstract life cycle of a run.                                           *)
Lifecycle == INSTANCE RunLifecycle
  WITH status <- row.status, attempt <- row.attempt, cancel <- CancelAsked(row)

ImplementsLifecycle == Lifecycle!Spec
=============================================================================
