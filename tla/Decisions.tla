------------------------------ MODULE Decisions ------------------------------
(***************************************************************************)
(* What is decided about one lead: the findings that contradiction-check   *)
(* and trajectory-check record on pairs of facts, the compiled-truth       *)
(* snapshots that freeze them, the evaluations of a snapshot, and the      *)
(* memos of memo-record, which rest on an evaluation.  The chief reads the *)
(* identifiers of a memo with evaluation-show, some time before it records *)
(* one, and the run of a memo is executed again when a later step failed.  *)
(*                                                                         *)
(* Each helper is a transaction under the advisory lock of the lead: Begin *)
(* takes it and reads, Commit writes what was decided.  What a memo says   *)
(* is a member of Contents, and its body a file addressed by content.      *)
(***************************************************************************)
EXTENDS Naturals, Sequences, FiniteSets, SequencesExt, Absence

CONSTANTS Clients,   \* concurrent helper processes
          Runs,      \* memo-record runs, with fixed arguments each
          Contents,
          Pairs,     \* pairs of facts, see Classification
          Classification,
          Criteria,  \* ways of scoring a snapshot
          MaxRows, MaxTruths, MaxEvaluations   \* bounds

ASSUME DecisionsAssumption ==
  /\ Classification \in [Pairs -> {"contradiction", "trajectory", "neither"}]
  /\ MaxRows \in Nat /\ MaxTruths \in Nat /\ MaxEvaluations \in Nat

VARIABLES recorded,    \* findings and trajectories, in the order of their ids
          truths,      \* compiled_truth; the last one is current
          evaluations, memos,
          bodies,      \* files of state://memos
          args,        \* arguments of a memo run, once it was invoked
          outcome,     \* history: how the last execution of a run ended
          tx           \* per client: the open transaction

rows == <<recorded, truths, evaluations, memos>>
vars == <<rows, bodies, args, outcome, tx>>

Idle == [op |-> "none", req |-> None, what |-> None]
Arguments == [truth : Nat, evaluation : Nat, content : Contents]
Memo == [run : Runs, args : Arguments, status : {"draft", "approved", "superseded", "invalid"}]

TypeOK ==
  /\ recorded \in Seq(Pairs)
  /\ \A i \in DOMAIN truths : truths[i].findings \subseteq DOMAIN recorded
  /\ \A i \in DOMAIN evaluations : evaluations[i].truth \in DOMAIN truths
  /\ \A i \in DOMAIN memos :
       /\ memos[i] \in Memo
       /\ memos[i].args.evaluation \in DOMAIN evaluations
       /\ memos[i].args.truth = evaluations[memos[i].args.evaluation].truth
  /\ bodies \subseteq Contents
  /\ args \in [Runs -> Arguments \cup {None}]
  /\ outcome \in [Runs -> {"none", "saved", "reused", "refused"}]

Init ==
  /\ recorded = <<>> /\ truths = <<>> /\ evaluations = <<>> /\ memos = <<>>
  /\ bodies = {}
  /\ args = [r \in Runs |-> None]
  /\ outcome = [r \in Runs |-> "none"]
  /\ tx = [c \in Clients |-> Idle]

NoLock(c) == TRUE                                          \* mutant

(* pg_advisory_xact_lock of the lead.                                      *)
LeadFree(c) == \A d \in Clients \ {c} : tx[d] = Idle

Begins(c, op, req, what) ==
  /\ tx[c] = Idle
  /\ LeadFree(c)
  /\ tx' = [tx EXCEPT ![c] = [op |-> op, req |-> req, what |-> what]]
Ends(c) == tx' = [tx EXCEPT ![c] = Idle]

-----------------------------------------------------------------------------
(* contradiction-check and trajectory-check: a pair that is neither leaves *)
(* nothing, and nothing looks whether the pair was recorded before.        *)
CheckPair(c, p) ==
  /\ tx[c] = Idle /\ LeadFree(c)
  /\ Classification[p] # "neither"
  /\ Len(recorded) < MaxRows
  /\ recorded' = Append(recorded, p)
  /\ UNCHANGED <<truths, evaluations, memos, bodies, args, outcome, tx>>

(* All contradictions are of blocking severity and stay open.              *)
LiveFindings ==
  {i \in DOMAIN recorded : Classification[recorded[i]] = "contradiction"}

(* compiled-truth freezes the packet; an unchanged one is reused.          *)
Packet == [findings |-> LiveFindings, rows |-> Len(recorded)]

Compile(c) ==
  /\ tx[c] = Idle /\ LeadFree(c)
  /\ Len(truths) < MaxTruths
  /\ truths # <<>> => Last(truths) # Packet
  /\ truths' = Append(truths, Packet)
  /\ UNCHANGED <<recorded, evaluations, memos, bodies, args, outcome, tx>>

-----------------------------------------------------------------------------
AnySnapshot(t) == t \in DOMAIN truths                      \* mutant

(* Only the current snapshot, and only while the blocking findings are the *)
(* ones it froze.                                                          *)
Evaluable(t) ==
  t = Len(truths) /\ t > 0 /\ truths[t].findings = LiveFindings

BeginEvaluate(c, t, k, s) ==
  /\ Evaluable(t)
  /\ Begins(c, "evaluate", None,
            [truth |-> t, criteria |-> k, status |-> s,
             blocked |-> LiveFindings # {}])
  /\ UNCHANGED <<rows, bodies, args, outcome>>

(* A final evaluation supersedes the one before.                           *)
SupersedeFinals(s) ==
  [i \in DOMAIN evaluations |->
     IF s = "final" /\ evaluations[i].status = "final"
     THEN [evaluations[i] EXCEPT !.status = "superseded"]
     ELSE evaluations[i]]

(* request_hash has everything but the database's own columns: the same    *)
(* request is not saved again, whatever became of its evaluation.          *)
SavedBefore(e) == \E i \in DOMAIN evaluations : evaluations[i].request = e

CommitEvaluate(c) ==
  LET e == tx[c].what
  IN  /\ tx[c].op = "evaluate"
      /\ IF SavedBefore(e)
         THEN UNCHANGED evaluations
         ELSE /\ Len(evaluations) < MaxEvaluations
              /\ evaluations' = Append(SupersedeFinals(e.status),
                   [request |-> e, truth |-> e.truth, status |-> e.status])
      /\ Ends(c)
      /\ UNCHANGED <<recorded, truths, memos, bodies, args, outcome>>

-----------------------------------------------------------------------------
Finals == {i \in DOMAIN evaluations : evaluations[i].status = "final"}

(* evaluation-show --lead-id: the final one of the highest version.        *)
ShownEvaluation == {i \in Finals : \A j \in Finals : j <= i}

(* The chief invokes memo-record with what evaluation-show returned.       *)
Invoke(r, content) ==
  /\ args[r] = None
  /\ \E e \in ShownEvaluation :
       args' = [args EXCEPT ![r] = [truth |-> evaluations[e].truth,
                                    evaluation |-> e, content |-> content]]
  /\ UNCHANGED <<rows, bodies, outcome, tx>>

(* memo-save.  Memos of the same content are replayed or refused ...       *)
SameContent(r) == {i \in DOMAIN memos : memos[i].args.content = args[r].content}
ReplayOfFinal(r) ==                                        \* mutant
  {i \in SameContent(r) : /\ memos[i].run = r /\ memos[i].args = args[r]
                          /\ memos[i].args.evaluation \in Finals}

ReplayOf(r) ==
  {i \in SameContent(r) : memos[i] = [run |-> r, args |-> args[r], status |-> "draft"]}

(* ... otherwise the evaluation must be the final one of its snapshot.     *)
Lineage(a) ==
  /\ a.evaluation \in Finals
  /\ evaluations[a.evaluation].truth = a.truth

Replay(c, r) ==
  /\ tx[c] = Idle /\ LeadFree(c)
  /\ args[r] # None /\ ReplayOf(r) # {}
  /\ bodies' = bodies \cup {args[r].content}
  /\ outcome' = [outcome EXCEPT ![r] = "reused"]
  /\ UNCHANGED <<rows, args, tx>>

Refuse(c, r) ==
  /\ tx[c] = Idle /\ LeadFree(c)
  /\ args[r] # None /\ ReplayOf(r) = {}
  /\ SameContent(r) # {} \/ ~Lineage(args[r])
  /\ outcome' = [outcome EXCEPT ![r] = "refused"]
  /\ UNCHANGED <<rows, bodies, args, tx>>

BeginMemo(c, r) ==
  /\ args[r] # None /\ SameContent(r) = {} /\ Lineage(args[r])
  /\ Begins(c, "memo", r, None)
  /\ UNCHANGED <<rows, bodies, args, outcome>>

(* The body is published before the row that names it is inserted.         *)
PublishBody(c) ==
  /\ tx[c].op = "memo"
  /\ bodies' = bodies \cup {args[tx[c].req].content}
  /\ tx' = [tx EXCEPT ![c].op = "insert"]
  /\ UNCHANGED <<rows, args, outcome>>

InsertFirst(c) ==                                          \* mutant
  LET r == tx[c].req
  IN  /\ tx[c].op \in {"memo", "insert"}
      /\ memos' = Append(memos, [run |-> r, args |-> args[r], status |-> "draft"])
      /\ outcome' = [outcome EXCEPT ![r] = "saved"]
      /\ Ends(c)
      /\ UNCHANGED <<recorded, truths, evaluations, bodies, args>>

InsertMemo(c) ==
  LET r == tx[c].req
  IN  /\ tx[c].op = "insert"
      /\ memos' = Append(memos, [run |-> r, args |-> args[r], status |-> "draft"])
      /\ outcome' = [outcome EXCEPT ![r] = "saved"]
      /\ Ends(c)
      /\ UNCHANGED <<recorded, truths, evaluations, bodies, args>>

(* A reviewer approves a memo, in place of the one approved before, or     *)
(* marks it invalid, outside of the helpers.                               *)
Review(i, s) ==
  /\ memos[i].status = "draft" \/ (memos[i].status = "approved" /\ s = "invalid")
  /\ memos' = [j \in DOMAIN memos |->
       IF j = i THEN [memos[j] EXCEPT !.status = s]
       ELSE IF s = "approved" /\ memos[j].status = "approved"
       THEN [memos[j] EXCEPT !.status = "superseded"]
       ELSE memos[j]]
  /\ UNCHANGED <<recorded, truths, evaluations, bodies, args, outcome, tx>>

(* The helper dies and its transaction is rolled back; a body stays.       *)
Abort(c) ==
  /\ tx[c] # Idle
  /\ Ends(c)
  /\ UNCHANGED <<rows, bodies, args, outcome>>

Next ==
  \/ \E c \in Clients :
       \/ \E p \in Pairs : CheckPair(c, p)
       \/ Compile(c)
       \/ \E t \in 1..MaxTruths, k \in Criteria, s \in {"draft", "final"} :
            BeginEvaluate(c, t, k, s)
       \/ CommitEvaluate(c)
       \/ \E r \in Runs : Replay(c, r) \/ Refuse(c, r) \/ BeginMemo(c, r)
       \/ PublishBody(c) \/ InsertMemo(c) \/ Abort(c)
  \/ \E r \in Runs, x \in Contents : Invoke(r, x)
  \/ \E i \in DOMAIN memos, s \in {"approved", "invalid"} : Review(i, s)

Spec == Init /\ [][Next]_vars

-----------------------------------------------------------------------------
(* memo-show: the approved memo, or the one asked for unless it is invalid.*)
Showable == {i \in DOMAIN memos : memos[i].status # "invalid"}

(* In a well-typed state every memo that may be shown has its body,        *)
(* whoever died in between (vcops.py:4884-4902, 5346-5363).                *)
ShowableHasBody == TypeOK /\ \A i \in Showable : memos[i].args.content \in bodies

(* A memo rests on what was the final evaluation of its snapshot when the  *)
(* memo was inserted, and was shown as such before the run of the memo     *)
(* began (vcops.py:4818-4836, 5377-5380).                                  *)
MemoRestsOnFinal ==
  [][Len(memos') > Len(memos) =>
       Lineage(Last(memos').args) /\ Finals' = Finals]_vars

(* An evaluation is of the current snapshot, which froze every finding     *)
(* that is live when the evaluation is saved, and it is blocked by them;   *)
(* one that is recorded meanwhile is not missed (vcops.py:4654-4690).      *)
NoFindingIsMissed ==
  [][Len(evaluations') > Len(evaluations) =>
       LET e == Last(evaluations')
       IN  /\ e.truth = Len(truths) /\ truths[e.truth].findings = LiveFindings
           /\ e.request.blocked = (LiveFindings # {})]_vars

(* The run of a memo that was saved can be executed again: it is refused   *)
(* only when a reviewer has decided on the memo, or it would save the      *)
(* words of another run ("the write is replay-safe", vcops.py:4784).       *)
ReplayIsSafe ==
  \A r \in Runs :
    outcome[r] = "refused" =>
      \A i \in DOMAIN memos : memos[i].run = r => memos[i].status # "draft"
=============================================================================
