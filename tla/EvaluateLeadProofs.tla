------------------------- MODULE EvaluateLeadProofs -------------------------
(***************************************************************************)
(* The human-gated workflow, for every number of vcrun invocations, any    *)
(* bound on versions and any change of evidence.                           *)
(*                                                                         *)
(* Every change of the row raises its version, so what an invocation read  *)
(* or was shown is still so while the version it carries is the row's      *)
(* (Carried).  A succeeded run keeps the invocation that completed it      *)
(* (Completed), and a live run nobody asked to cancel always has an        *)
(* invocation that answers for it (Owner): each invocation that loses a    *)
(* race hands the run over to the one that won it.                         *)
(***************************************************************************)
EXTENDS EvaluateLead, TLAPS

Shown == {"prequalify", "paused"} \cup Resumed

Carried(j) ==
  /\ job[j].version <= row.version
  /\ job[j].at \in {"probe_retry", "start_retry"} /\ job[j].version = row.version
       => row.status = "failed"
  /\ job[j].at = "marking" /\ job[j].version = row.version => row.status \in Live
  /\ job[j].at \in Shown \cup {"rejecting"} /\ job[j].version = row.version
       => job[j].attempt = row.attempt
  /\ job[j].at = "closing" => job[j].version < row.version
  /\ job[j].at \in {"save", "succeed"} => job[j].truth \in 1..Len(truths)
  /\ job[j].at = "succeed" => Len(evaluations) > 0
  /\ job[j].at \in {"rejecting", "rejected"} => row.status = "cancelled"

(* The invocation that completed the run.                                  *)
Completed(j) ==
  /\ job[j].at \in Resumed \cup {"paused", "rejecting", "rejected", "done"}
  /\ job[j].truth # 0
  /\ job[j].version + 1 = row.version
  /\ job[j].attempt = row.attempt

Approved ==
  row.status = "succeeded" => /\ Len(evaluations) > 0
                              /\ \E j \in Jobs : Completed(j)

Saved ==
  \A i \in 1..Len(evaluations) :
    /\ evaluations[i].truth \in 1..Len(truths)
    /\ evaluations[i].findings = truths[evaluations[i].truth].findings

(* An invocation that answers for the run.                                 *)
Owner(j) ==
  \/ job[j].at \in {"start", "start_retry", "running"} \cup Hook
                     \cup {"interrupted", "unreconciled"}
  \/ job[j].at \in Shown /\ job[j].version = row.version

Wanted == row.status \in Live /\ ~CancelAsked(row)

Owned == Wanted => \E j \in Jobs : Owner(j)

IInv ==
  /\ TypeOK
  /\ \A j \in Jobs : Carried(j)
  /\ Approved /\ Saved /\ Owned
  /\ row.status = "absent" => row = NoRow

-----------------------------------------------------------------------------
LEMMA InitIInv == Init => IInv
<1> SUFFICES ASSUME Init PROVE IInv
  OBVIOUS
<1>1. TypeOK
  <2>1. NoRow \in Row
    BY DEF NoRow, Row
  <2>2. job \in [Jobs -> Job]
    BY DEF Init, Job, Places, Launching
  <2> QED BY <2>1, <2>2 DEF Init, TypeOK
<1>2. \A j \in Jobs : Carried(j)
  BY DEF Init, Carried, NoRow, Shown, Resumed
<1>3. Approved /\ Saved /\ Owned
  BY DEF Init, Approved, Saved, Owned, Wanted, NoRow, Live
<1> QED BY <1>1, <1>2, <1>3 DEF IInv, Init, NoRow

(* One invocation moves, and to where.                                     *)
Moves(j) ==
  /\ job' = [job EXCEPT ![j] = job'[j]]
  /\ job'[j] \in Job
  /\ \A k \in Jobs \ {j} : job'[k] = job[k]

LEMMA GoesFacts ==
  ASSUME TypeOK, NEW j \in Jobs, NEW p \in Places, Goes(j, p)
  PROVE  /\ Moves(j) /\ job'[j].at = p
         /\ job'[j].version = job[j].version /\ job'[j].attempt = job[j].attempt
         /\ job'[j].truth = job[j].truth
<1> DEFINE u == [job[j] EXCEPT !.at = p]
<1>1. /\ u \in Job /\ u.at = p /\ u.version = job[j].version
      /\ u.attempt = job[j].attempt /\ u.truth = job[j].truth
  BY DEF TypeOK, Job
<1>2. job' = [job EXCEPT ![j] = u]
  BY DEF Goes, TypeOK
<1> HIDE DEF u
<1> QED BY <1>1, <1>2 DEF TypeOK, Moves

LEMMA HoldsFacts ==
  ASSUME TypeOK, NEW j \in Jobs, NEW p \in Places, NEW v \in Nat, Holds(j, p, v)
  PROVE  /\ Moves(j) /\ job'[j].at = p /\ job'[j].version = v
<1> DEFINE u == [job[j] EXCEPT !.at = p, !.version = v]
<1>1. u \in Job /\ u.at = p /\ u.version = v
  BY DEF TypeOK, Job
<1>2. job' = [job EXCEPT ![j] = u]
  BY DEF Holds, TypeOK
<1> HIDE DEF u
<1> QED BY <1>1, <1>2 DEF TypeOK, Moves

LEMMA RunsFacts ==
  ASSUME TypeOK, NEW j \in Jobs, NEW v \in Nat, NEW n \in Nat, Runs(j, v, n)
  PROVE  /\ Moves(j) /\ job'[j].at = "prequalify" /\ job'[j].version = v
         /\ job'[j].attempt = n
<1> DEFINE u == [job[j] EXCEPT !.at = "prequalify", !.version = v, !.attempt = n]
<1>1. u \in Job /\ u.at = "prequalify" /\ u.version = v /\ u.attempt = n
  BY DEF TypeOK, Job, Places, Graph
<1>2. job' = [job EXCEPT ![j] = u]
  BY DEF Runs, TypeOK
<1> HIDE DEF u
<1> QED BY <1>1, <1>2 DEF TypeOK, Moves

LEMMA Typed ==
  ASSUME TypeOK, NEW j \in Jobs
  PROVE  /\ job[j].at \in Places /\ job[j].version \in Nat
         /\ job[j].attempt \in Nat /\ job[j].truth \in Nat
         /\ row.version \in Nat /\ row.attempt \in Nat
         /\ row.status \in Statuses \cup {"absent"}
         /\ Len(truths) \in Nat /\ Len(evaluations) \in Nat
BY DEF TypeOK, Job, Row

-----------------------------------------------------------------------------
(* The row moves to its next version; it is not one that stays.            *)
RowMoves ==
  /\ row.status \notin {"succeeded", "cancelled"}
  /\ row' \in Row /\ row'.version > row.version /\ row'.status # "absent"

DataGrows ==
  /\ evidence' \in [packet : Nat, findings : Nat]
  /\ truths' \in Seq([packet : Nat, findings : Nat])
  /\ evaluations' \in Seq([truth : Nat, findings : Nat])
  /\ Len(truths) <= Len(truths') /\ Len(evaluations) <= Len(evaluations')
  /\ \A i \in 1..Len(truths) : truths'[i] = truths[i]

LEMMA DataStays ==
  ASSUME TypeOK, UNCHANGED data
  PROVE  DataGrows /\ (Saved => Saved')
BY DEF TypeOK, data, DataGrows, Saved

LEMMA OthersCarry ==
  ASSUME IInv, DataGrows, row' = row \/ RowMoves,
         NEW k \in Jobs, job'[k] = job[k]
  PROVE  Carried(k)'
<1>1. Carried(k) /\ TypeOK
  BY DEF IInv
<1>2. CASE row' = row
  BY <1>1, <1>2, Typed DEF Carried, DataGrows
<1>3. CASE RowMoves
  <2>1. job[k].version < row'.version
    BY <1>1, <1>3, Typed DEF Carried, RowMoves, Row
  <2>2. job[k].at \notin {"rejecting", "rejected"}
    BY <1>1, <1>3 DEF Carried, RowMoves
  <2>3. job[k].version \in Nat /\ row'.version \in Nat
    BY <1>1, <1>3, Typed DEF RowMoves, Row
  <2>4. /\ job[k].at \in {"save", "succeed"} => job[k].truth \in 1..Len(truths')
        /\ job[k].at = "succeed" => Len(evaluations') > 0
    BY <1>1, Typed DEF Carried, DataGrows
  <2> QED BY <2>1, <2>2, <2>3, <2>4 DEF Carried
<1> QED BY <1>2, <1>3

(* A step of one invocation that leaves the row alone.                     *)
LEMMA WaitingStep ==
  ASSUME IInv, NEW j \in Jobs, Moves(j), row' = row, DataGrows, Saved',
         Carried(j)', Completed(j) => Completed(j)',
         Wanted /\ Owner(j) => Owner(j)'
  PROVE  IInv'
<1>1. TypeOK'
  <2>1. job' \in [Jobs -> Job]
    BY DEF IInv, TypeOK, Moves
  <2> QED BY <2>1 DEF IInv, TypeOK, DataGrows
<1>2. \A k \in Jobs : Carried(k)'
  BY OthersCarry DEF Moves
<1>3. Approved'
  <2> SUFFICES ASSUME row.status = "succeeded"
               PROVE  Len(evaluations') > 0 /\ \E k \in Jobs : Completed(k)'
    BY DEF Approved
  <2>1. Len(evaluations) > 0 /\ \E k \in Jobs : Completed(k)
    BY DEF IInv, Approved
  <2>2. Len(evaluations') > 0
    BY <2>1, Typed, <1>1 DEF DataGrows, IInv, TypeOK
  <2>3. PICK k \in Jobs : Completed(k)
    BY <2>1
  <2>4. Completed(k)'
    <3>1. CASE k = j
      BY <2>3, <3>1
    <3>2. CASE k # j
      BY <2>3, <3>2 DEF Moves, Completed
    <3> QED BY <3>1, <3>2
  <2> QED BY <2>2, <2>4
<1>4. Owned'
  <2> SUFFICES ASSUME Wanted PROVE \E k \in Jobs : Owner(k)'
    BY DEF Owned, Wanted, CancelAsked
  <2>1. PICK k \in Jobs : Owner(k)
    BY DEF IInv, Owned
  <2>2. Owner(k)'
    <3>1. CASE k = j
      BY <2>1, <3>1
    <3>2. CASE k # j
      BY <2>1, <3>2 DEF Moves, Owner
    <3> QED BY <3>1, <3>2
  <2> QED BY <2>2
<1> QED BY <1>1, <1>2, <1>3, <1>4 DEF IInv

(* A step of one invocation that moves the row.                            *)
LEMMA MovingStep ==
  ASSUME IInv, NEW j \in Jobs, Moves(j), RowMoves, UNCHANGED data,
         Carried(j)',
         row'.status = "succeeded" => Len(evaluations) > 0 /\ Completed(j)',
         Wanted' => Owner(j)'
  PROVE  IInv'
<1>1. TypeOK'
  <2>1. job' \in [Jobs -> Job]
    BY DEF IInv, TypeOK, Moves
  <2> QED BY <2>1 DEF IInv, TypeOK, RowMoves, data
<1>2. \A k \in Jobs : Carried(k)'
  BY OthersCarry, DataStays DEF Moves, IInv
<1>3. Approved' /\ Saved' /\ Owned'
  BY DataStays DEF IInv, Approved, Owned, data
<1> QED BY <1>1, <1>2, <1>3 DEF IInv, RowMoves

(* The row is moved from outside, to a status nobody has to answer for.    *)
LEMMA OutsideStep ==
  ASSUME IInv, UNCHANGED <<job, data>>, RowMoves,
         row'.status # "succeeded", ~Wanted'
  PROVE  IInv'
<1>1. TypeOK'
  BY DEF IInv, TypeOK, RowMoves, data
<1>2. \A k \in Jobs : Carried(k)'
  BY OthersCarry, DataStays DEF IInv
<1>3. Approved' /\ Saved' /\ Owned'
  BY DataStays DEF IInv, Approved, Owned
<1> QED BY <1>1, <1>2, <1>3 DEF IInv, RowMoves

-----------------------------------------------------------------------------
(* What the definer functions make of the row.                             *)
LEMMA TransitionedFacts ==
  ASSUME TypeOK, NEW t \in Statuses
  PROVE  /\ Transitioned(row, t) \in Row
         /\ Transitioned(row, t).version = row.version + 1
         /\ Transitioned(row, t).status = t
         /\ Transitioned(row, t).attempt = row.attempt
<1>1. /\ TransitionSets(row, t).status = t
      /\ TransitionSets(row, t).attempt = row.attempt
      /\ TransitionSets(row, t).digest = row.digest
      /\ TransitionSets(row, t).filled \in SUBSET Nullable
  BY DEF TransitionSets, TypeOK, Row, Nullable
<1>2. StampsOf(t) \in SUBSET Nullable
  BY DEF StampsOf, Nullable
<1> HIDE DEF Transitioned
<1> QED BY <1>1, <1>2 DEF Transitioned, Stamped, TypeOK, Row

LEMMA RequestedFacts ==
  ASSUME TypeOK
  PROVE  /\ CancelRequested(row) \in Row
         /\ CancelRequested(row).version = row.version + 1
         /\ CancelRequested(row).status = row.status
         /\ CancelAsked(CancelRequested(row))
<1>1. /\ CancelRequestSets(row).status = row.status
      /\ CancelRequestSets(row).attempt = row.attempt
      /\ CancelRequestSets(row).digest = row.digest
      /\ CancelRequestSets(row).filled = row.filled \cup {"cancel_requested_at"}
  BY DEF CancelRequestSets, TypeOK, Row
<1>2. StampsOf(row.status) \in SUBSET Nullable
  BY DEF StampsOf, Nullable
<1> QED BY <1>1, <1>2 DEF CancelRequested, Stamped, TypeOK, Row, Nullable, CancelAsked

LEMMA RetriedFacts ==
  ASSUME TypeOK
  PROVE  /\ Retried(row) \in Row /\ Retried(row).version = row.version + 1
         /\ Retried(row).status = "queued"
<1>1. /\ RetrySets(row).status = "queued"
      /\ RetrySets(row).attempt = row.attempt + 1
      /\ RetrySets(row).digest = row.digest
      /\ RetrySets(row).filled \in SUBSET Nullable
  BY DEF RetrySets, TypeOK, Row
<1>2. StampsOf("queued") \in SUBSET Nullable
  BY DEF StampsOf, Nullable
<1> QED BY <1>1, <1>2 DEF Retried, Stamped, TypeOK, Row, Statuses, Live

RetryMoves(j) == MayRetry(j) /\ row' = Retried(row) /\ UNCHANGED data

-----------------------------------------------------------------------------
(* vcrun before Lobster, and the first steps of the graph.                 *)
LEMMA ProbeStep ==
  ASSUME IInv, NEW j \in Jobs, Probe(j)
  PROVE  IInv'
<1>1. TypeOK /\ Carried(j) /\ row' = row /\ UNCHANGED data /\ job[j].at = "idle"
  BY DEF IInv, Probe
<1>2. ~Completed(j) /\ ~Owner(j)
  BY <1>1 DEF Completed, Owner, Resumed, Hook, Shown
<1>3. ASSUME NEW p \in {"start", "replayed", "refused"}, Goes(j, p)
      PROVE  IInv'
  <2>1. p \in Places
    BY DEF Places, Graph, Over
  <2>2. /\ Moves(j) /\ job'[j].at = p /\ job'[j].version = job[j].version
    BY <1>1, <1>3, <2>1, GoesFacts
  <2>3. Carried(j)'
    BY <1>1, <2>2 DEF Carried, Shown, Resumed
  <2> QED BY <1>1, <1>2, <2>2, <2>3, DataStays, WaitingStep DEF IInv
<1>4. ASSUME row.status = "failed", Holds(j, "probe_retry", row.version)
      PROVE  IInv'
  <2>1. "probe_retry" \in Places /\ row.version \in Nat
    BY <1>1, Typed DEF Places, Launching
  <2>2. Moves(j) /\ job'[j].at = "probe_retry" /\ job'[j].version = row.version
    BY <1>1, <1>4, <2>1, HoldsFacts
  <2>3. Carried(j)'
    BY <1>1, <1>4, <2>1, <2>2 DEF Carried, Shown, Resumed
  <2> QED BY <1>1, <1>2, <2>2, <2>3, DataStays, WaitingStep DEF IInv
<1> QED BY <1>3, <1>4 DEF Probe

LEMMA RetryStep ==
  ASSUME IInv, NEW j \in Jobs, job[j].at \in {"probe_retry", "start_retry"},
         RetryMoves(j),
         Goes(j, "start") \/ Holds(j, "running", row.version + 1)
  PROVE  IInv'
<1>1. TypeOK /\ Carried(j) /\ row.version \in Nat
  BY Typed DEF IInv
<1>2. row.status = "failed"
  BY <1>1 DEF RetryMoves, MayRetry, Reopenable
<1>3. RowMoves
  BY <1>1, <1>2, RetriedFacts DEF RetryMoves, RowMoves
<1>4. row'.status = "queued" /\ row'.version = row.version + 1
  BY <1>1, RetriedFacts DEF RetryMoves
<1>5. /\ Moves(j) /\ job'[j].at \in {"start", "running"}
      /\ job'[j].version <= row.version + 1
  <2>1. {"start", "running"} \subseteq Places /\ row.version + 1 \in Nat
    BY <1>1 DEF Places, Graph
  <2>2. CASE Goes(j, "start")
    <3>1. Moves(j) /\ job'[j].at = "start" /\ job'[j].version = job[j].version
      BY <1>1, <2>1, <2>2, GoesFacts
    <3> QED BY <1>1, <3>1, Typed DEF Carried
  <2>3. CASE Holds(j, "running", row.version + 1)
    BY <1>1, <2>1, <2>3, HoldsFacts
  <2> QED BY <2>2, <2>3
<1>6. Carried(j)' /\ Owner(j)'
  BY <1>4, <1>5 DEF Carried, Owner, Shown, Resumed
<1> QED BY <1>3, <1>4, <1>5, <1>6, MovingStep DEF RetryMoves

(* What fails, is interrupted or refused before a checkpoint.              *)
LEMMA LeavesStep ==
  ASSUME IInv, NEW j \in Jobs, UNCHANGED <<row, data>>,
         job[j].at \in {"probe_retry"} \cup Graph \cup Hook,
         NEW p \in {"refused", "failing", "reconciled", "unreconciled",
                    "interrupted"},
         Goes(j, p),
         p = "reconciled" => ~Wanted, p = "refused" => ~Owner(j)
  PROVE  IInv'
<1>1. TypeOK /\ Carried(j) /\ p \in Places
  BY DEF IInv, Places, Hook, Over
<1>2. Moves(j) /\ job'[j].at = p /\ job'[j].version = job[j].version
  BY <1>1, GoesFacts
<1>3. ~Completed(j)
  BY DEF Completed, Resumed, Hook, Graph
<1>4. Carried(j)'
  BY <1>1, <1>2 DEF Carried, Shown, Resumed
<1>5. Wanted /\ Owner(j) => Owner(j)'
  BY <1>2 DEF Owner, Hook
<1> QED BY <1>1, <1>2, <1>3, <1>4, <1>5, DataStays, WaitingStep DEF IInv

LEMMA ProbeRetryStep ==
  ASSUME IInv, NEW j \in Jobs, ProbeRetry(j)
  PROVE  IInv'
<1>1. job[j].at = "probe_retry" /\ ~Owner(j)
  BY DEF ProbeRetry, Owner, Hook, Shown, Resumed
<1>2. \/ RetryMoves(j) /\ Goes(j, "start")
      \/ Goes(j, "refused") /\ UNCHANGED <<row, data>>
  BY DEF ProbeRetry, RetryMoves
<1> QED BY <1>1, <1>2, RetryStep, LeavesStep

LEMMA StartRetryStep ==
  ASSUME IInv, NEW j \in Jobs, StartRetry(j)
  PROVE  IInv'
<1>1. job[j].at = "start_retry"
  BY DEF StartRetry
<1>2. \/ RetryMoves(j) /\ Holds(j, "running", row.version + 1)
      \/ Goes(j, "failing") /\ UNCHANGED <<row, data>>
  BY DEF StartRetry, RetryMoves
<1> QED BY <1>1, <1>2, RetryStep, LeavesStep DEF Graph

LEMMA StartStep ==
  ASSUME IInv, NEW j \in Jobs, Start(j)
  PROVE  IInv'
<1>1. TypeOK /\ Carried(j) /\ UNCHANGED data /\ job[j].at = "start"
      /\ row.version \in Nat
  BY Typed DEF IInv, Start
<1>2. ~Completed(j) /\ {"running", "start_retry", "failing"} \subseteq Places
  BY <1>1 DEF Completed, Resumed, Places, Graph, Hook
<1>3. ASSUME row.status = "absent", row' = OpenedRow(Args), Holds(j, "running", 1)
      PROVE  IInv'
  <2>1. row.version = 0
    BY <1>3 DEF IInv, NoRow
  <2>2. Args \in Digests
    BY BoundsAssumption DEF Args
  <2>3. RowMoves /\ row'.version = 1 /\ row'.status = "queued"
    BY <1>3, <2>1, <2>2 DEF RowMoves, OpenedRow, Row, Statuses, Live, Nullable
  <2>4. Moves(j) /\ job'[j].at = "running" /\ job'[j].version = 1
    BY <1>1, <1>2, <1>3, HoldsFacts
  <2>5. Carried(j)' /\ Owner(j)'
    BY <2>3, <2>4 DEF Carried, Owner, Shown, Resumed
  <2> QED BY <1>1, <2>3, <2>4, <2>5, MovingStep
<1>4. ASSUME Holds(j, "running", row.version), row' = row
      PROVE  IInv'
  <2>1. Moves(j) /\ job'[j].at = "running" /\ job'[j].version = row.version
    BY <1>1, <1>2, <1>4, HoldsFacts
  <2>2. Carried(j)' /\ Owner(j)'
    BY <1>1, <1>4, <2>1 DEF Carried, Owner, Shown, Resumed
  <2> QED BY <1>1, <1>2, <1>4, <2>1, <2>2, DataStays, WaitingStep DEF IInv
<1>5. ASSUME Goes(j, "failing"), row' = row
      PROVE  IInv'
  BY <1>1, <1>5, LeavesStep DEF Graph
<1>6. ASSUME row.status = "failed", Holds(j, "start_retry", row.version), row' = row
      PROVE  IInv'
  <2>1. Moves(j) /\ job'[j].at = "start_retry" /\ job'[j].version = row.version
    BY <1>1, <1>2, <1>6, HoldsFacts
  <2>2. Carried(j)' /\ Owner(j)'
    BY <1>1, <1>6, <2>1 DEF Carried, Owner, Shown, Resumed
  <2> QED BY <1>1, <1>2, <1>6, <2>1, <2>2, DataStays, WaitingStep DEF IInv
<1> QED BY <1>3, <1>4, <1>5, <1>6 DEF Start

LEMMA RunningStep ==
  ASSUME IInv, NEW j \in Jobs, Running(j)
  PROVE  IInv'
<1>1. TypeOK /\ Carried(j) /\ UNCHANGED data /\ job[j].at = "running"
      /\ row.version \in Nat /\ row.attempt \in Nat
  BY Typed DEF IInv, Running
<1>2. ~Completed(j)
  BY <1>1 DEF Completed, Resumed
<1>3. ASSUME Runs(j, row.version, row.attempt), row' = row
      PROVE  IInv'
  <2>1. /\ Moves(j) /\ job'[j].at = "prequalify" /\ job'[j].version = row.version
        /\ job'[j].attempt = row.attempt
    BY <1>1, <1>3, RunsFacts
  <2>2. Carried(j)' /\ Owner(j)'
    BY <1>1, <1>3, <2>1 DEF Carried, Owner, Shown
  <2> QED BY <1>1, <1>2, <1>3, <2>1, <2>2, DataStays, WaitingStep DEF IInv
<1>4. ASSUME MayTransition(j, "running"), row' = Transitioned(row, "running"),
             Runs(j, row.version + 1, row.attempt)
      PROVE  IInv'
  <2>1. row.status \notin {"succeeded", "cancelled"}
    BY <1>4 DEF MayTransition, RunTransitions
  <2>2. /\ RowMoves /\ row'.version = row.version + 1 /\ row'.status = "running"
        /\ row'.attempt = row.attempt
    BY <1>1, <1>4, <2>1, TransitionedFacts DEF RowMoves, Statuses, Live
  <2>3. /\ Moves(j) /\ job'[j].at = "prequalify" /\ job'[j].version = row.version + 1
        /\ job'[j].attempt = row.attempt
    BY <1>1, <1>4, RunsFacts
  <2>4. Carried(j)' /\ Owner(j)'
    BY <1>1, <2>2, <2>3 DEF Carried, Owner, Shown
  <2> QED BY <1>1, <2>2, <2>3, <2>4, MovingStep
<1>5. ASSUME Goes(j, "failing"), row' = row
      PROVE  IInv'
  BY <1>1, <1>5, LeavesStep DEF Graph
<1> QED BY <1>3, <1>4, <1>5 DEF Running

(* A move among the places where the checkpoint of the invocation counts.  *)
LEMMA CheckpointStep ==
  ASSUME IInv, NEW j \in Jobs, row' = row, UNCHANGED data,
         job[j].at \in Shown, NEW p \in {"paused", "compile"}, Goes(j, p)
  PROVE  IInv'
<1>1. TypeOK /\ Carried(j) /\ p \in Places
  BY DEF IInv, Places, Resumed
<1>2. /\ Moves(j) /\ job'[j].at = p /\ job'[j].version = job[j].version
      /\ job'[j].attempt = job[j].attempt /\ job'[j].truth = job[j].truth
  BY <1>1, GoesFacts
<1>3. p \in Shown /\ p \in Resumed \cup {"paused", "rejecting", "rejected", "done"}
  BY DEF Shown, Resumed
<1>4. Carried(j)'
  BY <1>1, <1>2 DEF Carried, Shown, Resumed
<1>5. Completed(j) => Completed(j)'
  BY <1>2, <1>3 DEF Completed
<1>6. Owner(j) => Owner(j)'
  BY <1>2, <1>3 DEF Owner, Shown, Resumed, Hook
<1> QED BY <1>1, <1>2, <1>4, <1>5, <1>6, DataStays, WaitingStep DEF IInv

LEMMA PauseStep ==
  ASSUME IInv, NEW j \in Jobs, Pause(j) \/ Approve(j) \/ ResumeFails(j)
  PROVE  IInv'
<1>1. /\ job[j].at \in Shown /\ UNCHANGED <<row, data>>
      /\ Goes(j, "paused") \/ Goes(j, "compile")
  BY DEF Pause, Approve, ResumeFails, Shown
<1> QED BY <1>1, CheckpointStep

LEMMA StopStep ==
  ASSUME IInv, NEW j \in Jobs, StepFails(j) \/ Interrupt(j) \/ HookTimesOut(j)
  PROVE  IInv'
<1>1. /\ job[j].at \in {"probe_retry"} \cup Graph \cup Hook
      /\ UNCHANGED <<row, data>>
      /\ Goes(j, "failing") \/ Goes(j, "interrupted") \/ Goes(j, "unreconciled")
  BY DEF StepFails, Interrupt, HookTimesOut
<1> QED BY <1>1, LeavesStep

LEMMA HookReadStep ==
  ASSUME IInv, NEW j \in Jobs, HookRead(j)
  PROVE  IInv'
<1>1. TypeOK /\ Carried(j) /\ UNCHANGED <<row, data>> /\ job[j].at = "failing"
      /\ row.version \in Nat
  BY Typed DEF IInv, HookRead
<1>2. ASSUME row.status \in {"absent", "failed"}, Goes(j, "reconciled")
      PROVE  IInv'
  BY <1>1, <1>2, LeavesStep DEF Hook, Wanted, Live
<1>3. ASSUME Goes(j, "unreconciled") PROVE IInv'
  BY <1>1, <1>3, LeavesStep DEF Hook
<1>4. ASSUME row.status \in Live, Holds(j, "marking", row.version) PROVE IInv'
  <2>1. "marking" \in Places
    BY DEF Places, Hook
  <2>2. Moves(j) /\ job'[j].at = "marking" /\ job'[j].version = row.version
    BY <1>1, <1>4, <2>1, HoldsFacts
  <2>3. Carried(j)' /\ Owner(j)'
    BY <1>1, <1>4, <2>2 DEF Carried, Owner, Shown, Resumed, Hook
  <2>4. ~Completed(j)
    BY <1>1 DEF Completed, Resumed
  <2> QED BY <1>1, <2>2, <2>3, <2>4, DataStays, WaitingStep DEF IInv
<1> QED BY <1>2, <1>3, <1>4 DEF HookRead

LEMMA HookMarkStep ==
  ASSUME IInv, NEW j \in Jobs, HookMark(j)
  PROVE  IInv'
<1>1. TypeOK /\ Carried(j) /\ UNCHANGED data /\ job[j].at = "marking"
  BY DEF IInv, HookMark
<1>2. ASSUME row.version = job[j].version, row' = Transitioned(row, "failed"),
             NEW p \in {"reconciled", "unreconciled"}, Goes(j, p)
      PROVE  IInv'
  <2>1. row.status \in Live /\ p \in Places
    BY <1>1, <1>2 DEF Carried, Places, Over
  <2>2. RowMoves /\ row'.status = "failed" /\ row'.version = row.version + 1
    BY <1>1, <1>2, <2>1, TransitionedFacts, Typed DEF RowMoves, Statuses, Live, Terminal
  <2>3. Moves(j) /\ job'[j].at = p /\ job'[j].version = job[j].version
    BY <1>1, <1>2, <2>1, GoesFacts
  <2>4. Carried(j)' /\ ~Wanted'
    BY <1>1, <1>2, <2>2, <2>3, Typed DEF Carried, Shown, Resumed, Wanted, Live
  <2> QED BY <1>1, <2>2, <2>3, <2>4, MovingStep
<1>3. ASSUME Goes(j, "unreconciled"), row' = row PROVE IInv'
  BY <1>1, <1>3, LeavesStep DEF Hook
<1> QED BY <1>2, <1>3 DEF HookMark

-----------------------------------------------------------------------------
(* The graph after the approval.                                           *)
LEMMA CompileStep ==
  ASSUME IInv, NEW j \in Jobs, Compile(j)
  PROVE  IInv'
<1> DEFINE u == [job[j] EXCEPT !.at = "save", !.truth = Len(truths')]
<1>1. TypeOK /\ Carried(j) /\ job[j].at = "compile" /\ row' = row
      /\ UNCHANGED <<evidence, evaluations>> /\ Saved
  BY DEF IInv, Compile
<1>2. /\ truths' \in Seq([packet : Nat, findings : Nat])
      /\ Len(truths) <= Len(truths') /\ Len(truths') \in 1..Len(truths')
      /\ \A i \in 1..Len(truths) : truths'[i] = truths[i]
  <2>1. truths \in Seq([packet : Nat, findings : Nat])
        /\ evidence \in [packet : Nat, findings : Nat]
    BY <1>1 DEF TypeOK
  <2>2. CASE truths' = truths /\ truths # <<>>
    BY <2>1, <2>2
  <2>3. CASE truths' = Append(truths, evidence)
    BY <2>1, <2>3
  <2> QED BY <2>2, <2>3 DEF Compile
<1>3. DataGrows /\ Saved'
  <2>1. Saved'
    <3> SUFFICES ASSUME NEW i \in 1..Len(evaluations)
                 PROVE  /\ evaluations[i].truth \in 1..Len(truths')
                        /\ evaluations[i].findings = truths'[evaluations[i].truth].findings
      BY <1>1 DEF Saved
    <3>1. /\ evaluations[i].truth \in 1..Len(truths)
          /\ evaluations[i].findings = truths[evaluations[i].truth].findings
      BY <1>1 DEF Saved
    <3> QED BY <1>1, <1>2, <3>1, Typed
  <2> QED BY <1>1, <1>2, <2>1 DEF DataGrows, TypeOK
<1>4. /\ u \in Job /\ u.at = "save" /\ u.truth = Len(truths')
      /\ u.version = job[j].version /\ u.attempt = job[j].attempt
  <2>1. Len(truths') \in Nat
    BY <1>2
  <2>2. job[j] \in Job
    BY <1>1 DEF TypeOK
  <2> QED BY <2>1, <2>2 DEF Job, Places, Resumed
<1>5. job' = [job EXCEPT ![j] = u]
  BY <1>1 DEF Compile, TypeOK
<1> HIDE DEF u
<1>6. Moves(j) /\ job'[j] = u
  BY <1>1, <1>4, <1>5 DEF TypeOK, Moves
<1>7. Carried(j)'
  BY <1>1, <1>2, <1>4, <1>6 DEF Carried, Shown, Resumed
<1>8. /\ Completed(j) => Completed(j)'
      /\ Owner(j) => Owner(j)'
  BY <1>1, <1>2, <1>4, <1>6 DEF Completed, Owner, Shown, Resumed, Hook
<1> QED BY <1>1, <1>3, <1>6, <1>7, <1>8, WaitingStep

LEMMA SaveStep ==
  ASSUME IInv, NEW j \in Jobs, Save(j)
  PROVE  IInv'
<1> DEFINE t == job[j].truth
           e == [truth |-> t, findings |-> evidence.findings]
<1>1. /\ TypeOK /\ Carried(j) /\ job[j].at = "save" /\ Saved
      /\ UNCHANGED <<row, evidence, truths>> /\ Goes(j, "succeed")
      /\ t \in 1..Len(truths) /\ truths[t].findings = evidence.findings
  BY DEF IInv, Save, Carried
<1>2. e \in [truth : Nat, findings : Nat] /\ e.truth = t
      /\ e.findings = evidence.findings
  BY <1>1 DEF TypeOK
<1>3. /\ evaluations' \in Seq([truth : Nat, findings : Nat])
      /\ Len(evaluations) <= Len(evaluations') /\ Len(evaluations') > 0
      /\ \A i \in 1..Len(evaluations') :
           \/ i \in 1..Len(evaluations) /\ evaluations'[i] = evaluations[i]
           \/ evaluations'[i] = e
  <2>1. evaluations \in Seq([truth : Nat, findings : Nat])
    BY <1>1 DEF TypeOK
  <2>2. CASE evaluations' = evaluations /\ EvaluatedAlready(t)
    BY <2>1, <2>2 DEF EvaluatedAlready
  <2>3. CASE evaluations' = Append(evaluations, e)
    <3> HIDE DEF e
    <3> QED BY <1>2, <2>1, <2>3
  <2> QED BY <2>2, <2>3 DEF Save
<1> HIDE DEF e
<1>4. DataGrows
  BY <1>1, <1>3 DEF DataGrows, TypeOK
<1>5. Saved'
  BY <1>1, <1>2, <1>3 DEF Saved
<1>6. /\ Moves(j) /\ job'[j].at = "succeed" /\ job'[j].version = job[j].version
      /\ job'[j].attempt = job[j].attempt /\ job'[j].truth = job[j].truth
  BY <1>1, GoesFacts DEF Places, Resumed
<1>7. Carried(j)'
  BY <1>1, <1>3, <1>6 DEF Carried, Shown, Resumed
<1>8. /\ Completed(j) => Completed(j)'
      /\ Owner(j) => Owner(j)'
  BY <1>1, <1>6 DEF Completed, Owner, Shown, Resumed, Hook
<1> QED BY <1>1, <1>4, <1>5, <1>6, <1>7, <1>8, WaitingStep

LEMMA SucceedStep ==
  ASSUME IInv, NEW j \in Jobs, Succeed(j)
  PROVE  IInv'
<1>1. /\ TypeOK /\ Carried(j) /\ job[j].at = "succeed" /\ UNCHANGED data
      /\ row' = Transitioned(row, "succeeded") /\ Goes(j, "closing")
      /\ row.version = job[j].version
      /\ "succeeded" \in RunTransitions(row.status)
  BY DEF IInv, Succeed, MayTransition
<1>2. row.status \notin {"succeeded", "cancelled"}
  BY <1>1 DEF RunTransitions
<1>3. /\ RowMoves /\ row'.version = row.version + 1 /\ row'.status = "succeeded"
      /\ row'.attempt = row.attempt
  BY <1>1, <1>2, TransitionedFacts, Typed DEF RowMoves, Statuses, Terminal
<1>4. /\ Moves(j) /\ job'[j].at = "closing" /\ job'[j].version = job[j].version
      /\ job'[j].attempt = job[j].attempt /\ job'[j].truth = job[j].truth
  BY <1>1, GoesFacts DEF Places, Resumed
<1>5. /\ job[j].attempt = row.attempt /\ job[j].truth # 0 /\ Len(evaluations) > 0
      /\ row.version \in Nat
  BY <1>1, Typed DEF Carried, Shown, Resumed
<1>6. Carried(j)' /\ Completed(j)'
  BY <1>1, <1>3, <1>4, <1>5 DEF Carried, Completed, Shown, Resumed
<1>7. ~Wanted'
  BY <1>3 DEF Wanted, Live
<1> QED BY <1>1, <1>3, <1>4, <1>5, <1>6, <1>7, MovingStep

LEMMA CloseStep ==
  ASSUME IInv, NEW j \in Jobs, Close(j)
  PROVE  IInv'
<1>1. TypeOK /\ Carried(j) /\ job[j].at = "closing" /\ UNCHANGED <<row, data>>
      /\ Goes(j, "done")
  BY DEF IInv, Close
<1>2. /\ Moves(j) /\ job'[j].at = "done" /\ job'[j].version = job[j].version
      /\ job'[j].attempt = job[j].attempt /\ job'[j].truth = job[j].truth
  BY <1>1, GoesFacts DEF Places, Over
<1>3. Carried(j)' /\ (Completed(j) => Completed(j)')
  BY <1>1, <1>2 DEF Carried, Completed, Shown, Resumed
<1>4. ~Owner(j)
  BY <1>1, Typed DEF Owner, Carried, Hook
<1> QED BY <1>1, <1>2, <1>3, <1>4, DataStays, WaitingStep DEF IInv

-----------------------------------------------------------------------------
(* The operator's refusal, and what moves the run from outside.            *)
LEMMA CancelledFacts ==
  ASSUME IInv, CancelTerminally
  PROVE  /\ row.status \notin {"succeeded", "cancelled"}
         /\ row' \in Row /\ row'.version > row.version /\ row'.status = "cancelled"
<1>1. TypeOK /\ row.version \in Nat
  BY DEF IInv, TypeOK, Row
<1>2. ASSUME row.status \in {"started", "running"},
             row' = Transitioned(CancelRequested(row), "cancelled")
      PROVE  /\ row' \in Row /\ row'.version > row.version
             /\ row'.status = "cancelled"
  <2> DEFINE asked == CancelRequested(row)
             sets == TransitionSets(asked, "cancelled")
  <2>1. asked \in Row /\ asked.version = row.version + 1
    BY <1>1, RequestedFacts
  <2> HIDE DEF asked
  <2>2. /\ sets.status = "cancelled" /\ sets.attempt = asked.attempt
        /\ sets.digest = asked.digest /\ sets.filled \in SUBSET Nullable
    BY <2>1 DEF TransitionSets, Row
  <2>3. StampsOf("cancelled") \in SUBSET Nullable
    BY DEF StampsOf, Nullable
  <2>4. row' = Stamped(asked, sets)
    BY <1>2 DEF Transitioned, asked
  <2> HIDE DEF sets
  <2> QED BY <1>1, <2>1, <2>2, <2>3, <2>4 DEF Stamped, Row, Statuses, Terminal
<1>3. ASSUME row' = Transitioned(row, "cancelled")
      PROVE  /\ row' \in Row /\ row'.version > row.version
             /\ row'.status = "cancelled"
  BY <1>1, <1>3, TransitionedFacts DEF Statuses, Terminal
<1> QED BY <1>2, <1>3 DEF CancelTerminally

LEMMA RejectStep ==
  ASSUME IInv, NEW j \in Jobs, NEW n, Reject(j, n)
  PROVE  IInv'
<1>1. TypeOK /\ Carried(j) /\ job[j].at = "paused" /\ UNCHANGED data
      /\ Goes(j, "rejecting") /\ row.version \in Nat
  BY Typed DEF IInv, Reject
<1>2. /\ Moves(j) /\ job'[j].at = "rejecting" /\ job'[j].version = job[j].version
      /\ job'[j].attempt = job[j].attempt /\ job'[j].truth = job[j].truth
  BY <1>1, GoesFacts DEF Places
<1>3. CASE row.status = "cancelled" /\ row' = row
  <2>1. Carried(j)' /\ (Completed(j) => Completed(j)') /\ ~Wanted
    BY <1>1, <1>2, <1>3 DEF Carried, Completed, Shown, Resumed, Wanted, Live
  <2> QED BY <1>1, <1>2, <1>3, <2>1, DataStays, WaitingStep DEF IInv
<1>4. CASE CancelTerminally
  <2>1. RowMoves /\ row'.status = "cancelled"
    BY <1>4, CancelledFacts DEF RowMoves
  <2>2. Carried(j)' /\ ~Wanted'
    <3>1. job[j].version < row'.version
      BY <1>1, <2>1, Typed DEF Carried, RowMoves, Row
    <3> QED BY <1>1, <1>2, <2>1, <3>1, Typed DEF Carried, Shown, Resumed, Wanted,
                                               Live, RowMoves, Row
  <2> QED BY <1>1, <1>2, <2>1, <2>2, MovingStep
<1> QED BY <1>3, <1>4 DEF Reject

LEMMA DiscardStep ==
  ASSUME IInv, NEW j \in Jobs, Discard(j)
  PROVE  IInv'
<1>1. TypeOK /\ Carried(j) /\ job[j].at = "rejecting" /\ UNCHANGED <<row, data>>
  BY DEF IInv, Discard
<1>2. row.status = "cancelled" /\ ~Wanted
  BY <1>1 DEF Carried, Wanted, Live
<1>3. ASSUME NEW p \in {"rejected", "paused"}, Goes(j, p)
      PROVE  IInv'
  <2>1. /\ Moves(j) /\ job'[j].at = p /\ job'[j].version = job[j].version
        /\ job'[j].attempt = job[j].attempt /\ job'[j].truth = job[j].truth
    BY <1>1, <1>3, GoesFacts DEF Places, Over
  <2>2. Carried(j)' /\ (Completed(j) => Completed(j)')
    BY <1>1, <1>2, <2>1 DEF Carried, Completed, Shown, Resumed
  <2> QED BY <1>1, <1>2, <2>1, <2>2, DataStays, WaitingStep DEF IInv
<1> QED BY <1>1, <1>3 DEF Discard

LEMMA OutsideSteps ==
  ASSUME IInv, AskToCancel \/ CancelOutside \/ GiveUp
  PROVE  IInv'
<1>1. TypeOK /\ row.version \in Nat
  BY DEF IInv, TypeOK, Row
<1>2. CASE AskToCancel
  <2>1. /\ row.status \in {"started", "running"} /\ row' = CancelRequested(row)
        /\ UNCHANGED <<job, data>>
    BY <1>2 DEF AskToCancel
  <2>2. RowMoves /\ CancelAsked(row)' /\ row'.status = row.status
    BY <1>1, <2>1, RequestedFacts DEF RowMoves, CancelAsked
  <2> QED BY <2>1, <2>2, OutsideStep DEF Wanted
<1>3. CASE CancelOutside
  <2>1. UNCHANGED <<job, data>> /\ RowMoves /\ row'.status = "cancelled"
    BY <1>3, CancelledFacts DEF CancelOutside, RowMoves
  <2> QED BY <2>1, OutsideStep DEF Wanted, Live
<1>4. CASE GiveUp
  <2>1. PICK t \in {"failed", "lost"} :
          row' = Transitioned(row, t) /\ row.status \in Live /\ UNCHANGED <<job, data>>
    BY <1>4 DEF GiveUp
  <2>2. RowMoves /\ row'.status = t
    BY <1>1, <2>1, TransitionedFacts DEF RowMoves, Statuses, Live, Terminal
  <2> QED BY <2>1, <2>2, OutsideStep DEF Wanted, Live
<1> QED BY <1>2, <1>3, <1>4

LEMMA EvidenceStep ==
  ASSUME IInv, EvidenceChanges
  PROVE  IInv'
<1>1. UNCHANGED <<row, job, truths, evaluations>>
  BY DEF EvidenceChanges
<1>2. evidence' \in [packet : Nat, findings : Nat]
  BY DEF EvidenceChanges, IInv, TypeOK
<1>3. TypeOK'
  BY <1>1, <1>2 DEF IInv, TypeOK
<1> QED BY <1>1, <1>3 DEF IInv, Carried, Approved, Completed, Saved, Owned, Owner,
                         Wanted, CancelAsked

LEMMA StepIInv == IInv /\ [Next]_vars => IInv'
<1> SUFFICES ASSUME IInv, [Next]_vars PROVE IInv'
  OBVIOUS
<1>1. ASSUME NEW j \in Jobs, Launched(j) PROVE IInv'
  BY <1>1, ProbeRetryStep, StartStep, StartRetryStep, RunningStep, PauseStep,
     StopStep, HookReadStep, HookMarkStep DEF Launched
<1>2. ASSUME NEW j \in Jobs, Continued(j) PROVE IInv'
  BY <1>2, CompileStep, SaveStep, SucceedStep, CloseStep, PauseStep DEF Continued
<1>3. ASSUME NEW j \in Jobs, Operator(j) PROVE IInv'
  BY <1>3, PauseStep, DiscardStep, RejectStep DEF Operator
<1>4. CASE UNCHANGED vars
  BY <1>4 DEF vars, data, IInv, TypeOK, Carried, Approved, Completed, Saved,
       Owned, Owner, Wanted, CancelAsked
<1> QED BY <1>1, <1>2, <1>3, <1>4, ProbeStep, OutsideSteps, EvidenceStep DEF Next

LEMMA Inductive == Spec => []IInv
BY InitIInv, StepIInv, PTL DEF Spec

-----------------------------------------------------------------------------
(* A succeeded run was approved by an operator in its own attempt, at the  *)
(* revision the checkpoint showed, and has an evaluation on record         *)
(* (evaluate-lead.lobster:82-130).                                         *)
THEOREM SuccessIsApproved == Spec => []SuccessWasApproved
<1>1. IInv => SuccessWasApproved
  <2> SUFFICES ASSUME IInv, row.status = "succeeded" PROVE
                 /\ evaluations # <<>>
                 /\ \E j \in Jobs : /\ job[j].truth # 0
                                     /\ job[j].version + 1 = row.version
                                     /\ job[j].attempt = row.attempt
    BY DEF SuccessWasApproved
  <2>1. Len(evaluations) > 0 /\ \E j \in Jobs : Completed(j)
    BY DEF IInv, Approved
  <2>2. evaluations # <<>>
    BY <2>1
  <2> QED BY <2>1, <2>2 DEF Completed
<1> QED BY <1>1, Inductive, PTL

(* An evaluation is of the findings its frozen snapshot shows, however the *)
(* evidence moves between compiled-truth and evaluation-save               *)
(* (vcops.py:4645-4690).                                                   *)
THEOREM EvaluationsMatch == Spec => []EvaluationMatchesSnapshot
<1>1. IInv => EvaluationMatchesSnapshot
  BY DEF IInv, Saved, EvaluationMatchesSnapshot
<1> QED BY <1>1, Inductive, PTL

(* A rejected continuation is deleted only after the run is cancelled      *)
(* (vcrun_control.py:112-150).                                             *)
THEOREM RejectionsCancelFirst == Spec => []RejectionCancelsFirst
<1>1. IInv => RejectionCancelsFirst
  BY DEF IInv, Carried, RejectionCancelsFirst
<1> QED BY <1>1, Inductive, PTL

(* In a well-typed state, a live run that nobody asked to cancel has       *)
(* somebody who answers for it (vcrun.py:739-812).                         *)
THEOREM NothingIsStranded == Spec => []NoSilentStranding
<1>1. IInv => NoSilentStranding
  <2> SUFFICES ASSUME IInv, Wanted PROVE
        \E j \in Jobs :
          \/ job[j].at \in {"probe_retry"} \cup Graph \cup Hook
          \/ /\ job[j].at \in Resumed \cup {"paused"}
             /\ job[j].version = row.version
          \/ job[j].at \in {"interrupted", "unreconciled"}
    BY DEF NoSilentStranding, IInv, Wanted
  <2>1. PICK j \in Jobs : Owner(j)
    BY DEF IInv, Owned
  <2> QED BY <2>1 DEF Owner, Graph, Shown
<1> QED BY <1>1, Inductive, PTL

-----------------------------------------------------------------------------
(* What any step does to the row.                                          *)
RowChange ==
  \/ row.status = "absent" /\ row' = OpenedRow(Args)
  \/ row.status = "failed" /\ ~CancelAsked(row) /\ row' = Retried(row)
  \/ \E t \in {"running", "succeeded"} :
       /\ t \in RunTransitions(row.status)
       /\ TriggerAdmits(row, TransitionSets(row, t))
       /\ row' = Transitioned(row, t)
  \/ /\ row.status \in Live
     /\ \E t \in {"failed", "lost", "cancelled"} : row' = Transitioned(row, t)
  \/ /\ row.status \in {"started", "running"} /\ ~CancelAsked(row)
     /\ \/ row' = CancelRequested(row)
        \/ row' = Transitioned(CancelRequested(row), "cancelled")

LEMMA NextChangesRow ==
  ASSUME IInv, [Next]_vars
  PROVE  row' = row \/ RowChange
<1>1. CancelTerminally => RowChange
  BY DEF CancelTerminally, RowChange, Live
<1>2. ASSUME NEW j \in Jobs, ProbeRetry(j) \/ StartRetry(j)
      PROVE  row' = row \/ RowChange
  <2>1. CASE row' = row
    BY <2>1
  <2>2. CASE row' # row
    <3>1. MayRetry(j) /\ row' = Retried(row)
      BY <1>2, <2>2 DEF ProbeRetry, StartRetry
    <3> QED BY <3>1 DEF MayRetry, Reopenable, RowChange
  <2> QED BY <2>1, <2>2
<1>3. ASSUME NEW j \in Jobs, Start(j) \/ Running(j) \/ Succeed(j)
      PROVE  row' = row \/ RowChange
  BY <1>3 DEF Start, Running, Succeed, MayTransition, RowChange
<1>4. ASSUME NEW j \in Jobs, HookMark(j)
      PROVE  row' = row \/ RowChange
  BY <1>4 DEF HookMark, IInv, Carried, RowChange
<1>5. ASSUME NEW j \in Jobs,
             \/ Probe(j) \/ Pause(j) \/ StepFails(j) \/ Interrupt(j) \/ HookRead(j)
             \/ HookTimesOut(j) \/ Compile(j) \/ Save(j) \/ Close(j)
             \/ ResumeFails(j) \/ Approve(j) \/ Discard(j)
      PROVE  row' = row
  BY <1>5 DEF Probe, Pause, StepFails, Interrupt, HookRead, HookTimesOut, Compile,
       Save, Close, ResumeFails, Approve, Discard
<1>6. ASSUME NEW j \in Jobs, NEW n, Reject(j, n)
      PROVE  row' = row \/ RowChange
  BY <1>1, <1>6 DEF Reject
<1>7. AskToCancel \/ CancelOutside \/ GiveUp \/ EvidenceChanges
        => row' = row \/ RowChange
  BY <1>1 DEF AskToCancel, CancelOutside, GiveUp, EvidenceChanges, RowChange
<1>8. UNCHANGED vars => row' = row
  BY DEF vars
<1> QED BY <1>2, <1>3, <1>4, <1>5, <1>6, <1>7, <1>8 DEF Next, Launched, Continued, Operator

LEMMA AskedAfter ==
  ASSUME NEW r \in Row, NEW t \in Statuses
  PROVE  /\ Transitioned(r, t).status = t /\ Transitioned(r, t).attempt = r.attempt
         /\ CancelAsked(Transitioned(r, t)) <=> CancelAsked(r) \/ t = "cancelled"
BY DEF Transitioned, Stamped, TransitionSets, StampsOf, CancelAsked, Row

LEMMA RowChangeIsLifecycleStep ==
  ASSUME IInv, RowChange
  PROVE  Lifecycle!Next
<1>1. row \in Row
  BY DEF IInv, TypeOK
<1>2. CASE row.status = "absent" /\ row' = OpenedRow(Args)
  <2>1. /\ ~CancelAsked(row) /\ ~CancelAsked(row') /\ row'.status = "queued"
        /\ row'.attempt = 1
    BY <1>2 DEF IInv, NoRow, OpenedRow, CancelAsked
  <2> QED BY <1>2, <2>1 DEF Lifecycle!Next, Lifecycle!Open, CancelAsked
<1>3. CASE row.status = "failed" /\ ~CancelAsked(row) /\ row' = Retried(row)
  <2>1. /\ row'.status = "queued" /\ row'.attempt = row.attempt + 1
        /\ ~CancelAsked(row')
    BY <1>1, <1>3 DEF Retried, Stamped, RetrySets, StampsOf, CancelAsked,
                      Row, Terminal
  <2> QED BY <1>3, <2>1 DEF Lifecycle!Next, Lifecycle!Retry, CancelAsked
<1>4. ASSUME NEW t \in {"running", "succeeded"}, t \in RunTransitions(row.status),
             TriggerAdmits(row, TransitionSets(row, t)), row' = Transitioned(row, t)
      PROVE  Lifecycle!Next
  <2>1. /\ row.status \in Live /\ row.status # t
        /\ t = "succeeded" => row.status \in {"started", "running", "waiting"}
    <3>1. row.status \in Live
      BY <1>1, <1>4 DEF RunTransitions, Row, Statuses, Live
    <3>2. CASE t = "running"
      BY <1>4, <3>1, <3>2 DEF RunTransitions, Live, Terminal
    <3>3. CASE t = "succeeded"
      BY <1>4, <3>1, <3>3 DEF RunTransitions, Live, Terminal
    <3> QED BY <3>1, <3>2, <3>3
  <2>2. TransitionSets(row, t).status = t
    BY DEF TransitionSets
  <2>3. ~CancelAsked(row)
    BY <1>4, <2>1, <2>2 DEF TriggerAdmits, CancelAdmits
  <2>4. /\ row'.status = t /\ row'.attempt = row.attempt /\ ~CancelAsked(row')
    BY <1>1, <1>4, <2>3, AskedAfter DEF Statuses, Live, Terminal
  <2> QED BY <2>1, <2>3, <2>4 DEF Lifecycle!Next, Lifecycle!Advance, CancelAsked,
                                  Live, Lifecycle!Active
<1>5. ASSUME row.status \in Live, NEW t \in {"failed", "lost", "cancelled"},
             row' = Transitioned(row, t)
      PROVE  Lifecycle!Next
  <2>1. /\ row'.status = t /\ row'.attempt = row.attempt
        /\ CancelAsked(row') <=> CancelAsked(row) \/ t = "cancelled"
    BY <1>1, <1>5, AskedAfter DEF Statuses, Terminal
  <2>2. CASE t = "cancelled"
    BY <1>5, <2>1, <2>2 DEF Lifecycle!Next, Lifecycle!Cancel, Live, Lifecycle!Active,
                            CancelAsked
  <2>3. CASE t # "cancelled"
    BY <1>5, <2>1, <2>3 DEF Lifecycle!Next, Lifecycle!Abandon, Live, Lifecycle!Active,
                            CancelAsked
  <2> QED BY <2>2, <2>3
<1>6. CASE row.status \in {"started", "running"} /\ ~CancelAsked(row)
           /\ row' = CancelRequested(row)
  <2>1. /\ row'.status = row.status /\ row'.attempt = row.attempt /\ CancelAsked(row')
    BY <1>1, <1>6 DEF CancelRequested, Stamped, CancelRequestSets, CancelAsked, Row
  <2> QED BY <1>6, <2>1 DEF Lifecycle!Next, Lifecycle!RequestCancel, Lifecycle!Active,
                            CancelAsked
<1>7. CASE row.status \in {"started", "running"}
           /\ row' = Transitioned(CancelRequested(row), "cancelled")
  <2>1. CancelRequested(row) \in Row /\ CancelRequested(row).attempt = row.attempt
    BY <1>1, RequestedFacts DEF IInv, CancelRequested, Stamped, CancelRequestSets, Row
  <2>2. /\ row'.status = "cancelled" /\ row'.attempt = row.attempt /\ CancelAsked(row')
    BY <1>7, <2>1, AskedAfter DEF Statuses, Terminal
  <2> QED BY <1>7, <2>2 DEF Lifecycle!Next, Lifecycle!Cancel, Lifecycle!Active,
                            CancelAsked
<1> QED BY <1>2, <1>3, <1>4, <1>5, <1>6, <1>7 DEF RowChange

(* The runners, the operator and the helpers around them implement the     *)
(* abstract life cycle: nothing they do to the row is out of its steps.    *)
THEOREM RunnersImplementLifecycle == Spec => ImplementsLifecycle
<1>1. Init => Lifecycle!Init
  BY DEF Init, NoRow, CancelAsked, Lifecycle!Init
<1>2. IInv /\ [Next]_vars => [Lifecycle!Next]_(Lifecycle!vars)
  <2>1. row' = row => UNCHANGED Lifecycle!vars
    BY DEF Lifecycle!vars, CancelAsked
  <2> QED BY <2>1, NextChangesRow, RowChangeIsLifecycleStep
<1> QED BY <1>1, <1>2, Inductive, PTL DEF Spec, ImplementsLifecycle, Lifecycle!Spec
=============================================================================
