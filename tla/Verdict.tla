------------------------------- MODULE Verdict -------------------------------
(***************************************************************************)
(* From facts to a recommendation: the facts of one lead, the findings and *)
(* trajectories recorded on pairs of them, the compiled-truth snapshot     *)
(* with its support roles and decision guards, and the evaluation of that  *)
(* snapshot.  Decisions has the same helpers as concurrent transactions;   *)
(* under the lock of the lead each is one step here, and this module has   *)
(* what they compute: FactPairs and Scoring between the tables.  Its names *)
(* differ from those of Decisions, and both can be extended together.      *)
(***************************************************************************)
EXTENDS Scoring

INSTANCE FactPairs

CONSTANTS Samples,     \* facts as they may stand in the table, see Fact
          Facts,       \* those of them that this lead gets
          Severities,
          MaxFindings, \* bound: findings on record
          Evaluations, \* invocations of evaluation-save
          Rubric       \* the rubric that the fund configured

VARIABLES status,    \* fact_status of each fact, or absent
          findings,  \* contradictions
          trends,    \* trajectory_events: the pairs of facts
          truth,     \* the current compiled_truth snapshot, or None
          verdict    \* the evaluation that the last step saved, or None

verdictVars == <<status, findings, trends, truth, verdict>>

(* What a pair is compared by, and the two other conditions of a current   *)
(* fact: a source, and a confidence over the floor.                        *)
FactFields == {"id", "numeric", "text", "period_start", "period_end",
               "sourced", "confident"}

EvaluationFields == {"sheet", "claims", "adjustments"}

(* A text without a number has no value.                                   *)
WellFormed(f) ==
  /\ DOMAIN f = FactFields /\ DOMAIN f.id = IdentityFields
  /\ {f.period_start, f.period_end} \subseteq Nat \cup {None}
  /\ f.numeric \in Int \cup {None}
  /\ f.text # None => /\ ~CurrencyConflict(f.text)
                      /\ f.text.number \in Int \cup {None}
                      /\ f.text.scale \in Int

ASSUME VerdictAssumption ==
  /\ Facts \subseteq Samples
  /\ \A f \in Samples : WellFormed(f)
  /\ "high" \in Severities
  /\ MaxFindings \in Nat
  /\ Loads(Rubric)
  /\ \A e \in Evaluations : /\ DOMAIN e = EvaluationFields
                            /\ DOMAIN e.sheet = DOMAIN Rubric.weight
                            /\ Len(e.adjustments) \in Nat
                            /\ DOMAIN e.adjustments = 1..Len(e.adjustments)

Statuses == {"absent", "submitted_claim", "verified_fact", "contradicted", "retracted"}
Roles == {"current", "contradicted", "stale", "historical"}

Finding == [pair : SUBSET Facts, kind : {"contradiction", "identity_conflict"},
            severity : Severities, open : BOOLEAN]

Snapshot(t) ==
  /\ \A f \in DOMAIN t.roles : f \in Facts /\ t.roles[f] \in Roles
  /\ \E f \in DOMAIN t.roles : t.roles[f] = "current"
  /\ \A x \in t.blocking \cup t.identity : x \in Finding /\ x.open
  /\ t.unrecorded \in BOOLEAN /\ t.checks \subseteq Checks

VerdictTypeOK ==
  /\ status \in [Facts -> Statuses]
  /\ findings \subseteq Finding
  /\ \A p \in trends : p \subseteq Facts /\ Cardinality(p) = 2
  /\ truth # None => Snapshot(truth)
  /\ verdict # None => verdict.final \in 0..FullScore

VerdictInit ==
  /\ status = [f \in Facts |-> "absent"]
  /\ findings = {} /\ trends = {}
  /\ truth = None /\ verdict = None

Recorded == {f \in Facts : status[f] # "absent"}

-----------------------------------------------------------------------------
(* evidence-record and fact-add; the latter may assert a contradicted fact *)
(* or a verified one, which then needs a source.                           *)
Record(f, s) ==
  /\ status[f] = "absent"
  /\ s \in {"submitted_claim", "verified_fact", "contradicted"}
  /\ s = "verified_fact" => f.sourced
  /\ status' = [status EXCEPT ![f] = s]
  /\ verdict' = None
  /\ UNCHANGED <<findings, trends, truth>>

(* fact-promote, and an erasure: EvidenceLedger has their conditions.      *)
Promote(f) ==
  /\ status[f] = "submitted_claim" /\ f.sourced
  /\ status' = [status EXCEPT ![f] = "verified_fact"]
  /\ verdict' = None
  /\ UNCHANGED <<findings, trends, truth>>

Retract(f) ==
  /\ status[f] \notin {"absent", "retracted"}
  /\ status' = [status EXCEPT ![f] = "retracted"]
  /\ verdict' = None
  /\ UNCHANGED <<findings, trends, truth>>

(* contradiction-check, with the severity that its caller gives.           *)
CheckContradiction(f, g, severity) ==
  /\ {f, g} \subseteq Recorded
  /\ Cardinality(findings) < MaxFindings
  /\ Classify(f, g) = "contradiction"
  /\ findings' = findings \cup {[pair |-> {f, g}, kind |-> "contradiction",
                                 severity |-> severity, open |-> TRUE]}
  /\ verdict' = None
  /\ UNCHANGED <<status, trends, truth>>

(* trajectory-check refuses a pair that is not numeric.                    *)
CheckTrajectory(f, g) ==
  /\ {f, g} \subseteq Recorded
  /\ Classify(f, g) = "trajectory"
  /\ Comparable(f)[1] = "number" /\ Comparable(g)[1] = "number"
  /\ trends' = trends \cup {{f, g}}
  /\ verdict' = None
  /\ UNCHANGED <<status, findings, truth>>

(* A reviewer records that two facts are about different companies, or     *)
(* resolves a finding, with SQL: no helper does.                           *)
ReviewFindings ==
  /\ \/ \E f, g \in Recorded :
          /\ f # g
          /\ Cardinality(findings) < MaxFindings
          /\ findings' = findings \cup
               {[pair |-> {f, g}, kind |-> "identity_conflict",
                 severity |-> "high", open |-> TRUE]}
     \/ \E x \in findings :
          findings' = (findings \ {x}) \cup {[x EXCEPT !.open = FALSE]}
  /\ verdict' = None
  /\ UNCHANGED <<status, trends, truth>>

-----------------------------------------------------------------------------
Open == {x \in findings : x.open}
Blocking == {x \in Open : x.severity = "blocking"}
IdentityConflicts == {x \in Open : x.kind = "identity_conflict"}

InPairs(xs) == UNION {x.pair : x \in xs}

(* What may support a criterion.                                           *)
IsCurrent(f) ==
  /\ status[f] = "verified_fact" /\ f.sourced /\ f.confident
  /\ f \notin InPairs({x \in Open : x.severity \in {"high", "blocking"}})

(* The facts of one claim that an open finding contests are kept, as are   *)
(* retracted ones; nothing leaves the history.                             *)
RoleOf(f) ==
  IF IsCurrent(f) THEN "current"
  ELSE IF f \in InPairs(Open) \/ status[f] = "contradicted" THEN "contradicted"
  ELSE IF status[f] = "retracted" THEN "stale" ELSE "historical"

(* The pairs of sourced, checked facts that must have been compared.       *)
ExpectedPairs(class) ==
  LET checked == {f \in Recorded : /\ status[f] \in {"verified_fact", "contradicted"}
                                   /\ f.sourced}
  IN  {p \in SUBSET checked :
         Cardinality(p) = 2 /\ \A f, g \in p : f # g => Classify(f, g) = class}

UnrecordedContradictions ==
  ExpectedPairs("contradiction") \ {x.pair : x \in findings}

UncheckedTrajectories == ExpectedPairs("trajectory") \ trends

(* compiled-truth needs a current fact; what it reads is what it freezes.  *)
FreezeTruth ==
  /\ \E f \in Recorded : IsCurrent(f)
  /\ truth' =
       [roles      |-> [f \in Recorded |-> RoleOf(f)],
        blocking   |-> Blocking,
        identity   |-> IdentityConflicts,
        unrecorded |-> UnrecordedContradictions # {},
        checks     |-> {c \in Checks :
                          IF c = "contradiction_check_complete"
                          THEN UnrecordedContradictions = {}
                          ELSE UncheckedTrajectories = {}}]
  /\ verdict' = None
  /\ UNCHANGED <<status, findings, trends>>

-----------------------------------------------------------------------------
CurrentIn(t) == {f \in DOMAIN t.roles : t.roles[f] = "current"}

(* The snapshot is refused when a blocking finding or an identity conflict *)
(* came or went since.                                                     *)
StillDecides(t) == t.blocking = Blocking /\ t.identity = IdentityConflicts

(* What the database knows, whatever the caller claims.                    *)
Derived == Checks \cup {"identity_reliable", "blocking_contradiction"}

DerivedFlags(t) ==
  t.checks
    \cup (IF IdentityConflicts = {} THEN {"identity_reliable"} ELSE {})
    \cup (IF Blocking # {} \/ t.unrecorded THEN {"blocking_contradiction"} ELSE {})

ClaimedFlags(t, claims) == claims \cup DerivedFlags(t)     \* mutant

EffectiveFlags(t, claims) == (claims \ Derived) \cup DerivedFlags(t)

(* Criteria cite current facts of the snapshot, adjustments any of them.   *)
CitesSnapshot(t, e) ==
  /\ \A k \in DOMAIN e.sheet :
       e.sheet[k] # None =>
         ValidEntry(e.sheet[k]) /\ e.sheet[k].facts \subseteq CurrentIn(t)
  /\ \A i \in DOMAIN e.adjustments :
       /\ ValidAdjustment(e.adjustments[i])
       /\ e.adjustments[i].facts \subseteq DOMAIN t.roles

Evaluate(e) ==
  /\ truth # None
  /\ StillDecides(truth)
  /\ CitesSnapshot(truth, e)
  /\ verdict' = Score(Rubric, e.sheet, EffectiveFlags(truth, e.claims),
                      e.adjustments)
  /\ UNCHANGED <<status, findings, trends, truth>>

VerdictNext ==
  \/ \E f \in Facts :
       \/ \E s \in Statuses : Record(f, s)
       \/ Promote(f) \/ Retract(f)
       \/ \E g \in Facts : \/ \E s \in Severities : CheckContradiction(f, g, s)
                           \/ CheckTrajectory(f, g)
  \/ ReviewFindings \/ FreezeTruth
  \/ \E e \in Evaluations : Evaluate(e)

VerdictSpec == VerdictInit /\ [][VerdictNext]_verdictVars

-----------------------------------------------------------------------------
(* A lead gets high_priority only from a snapshot whose current facts were *)
(* all checked against each other, while no blocking finding and no        *)
(* identity conflict is open, whatever the caller claimed and whatever was *)
(* recorded since the snapshot (vcops.py:4320-4356, 4645-4679).            *)
HighPriorityIsEarned ==
  [][verdict' # None /\ verdict'.recommendation = "high_priority" =>
       /\ Blocking = {} /\ IdentityConflicts = {}
       /\ \A f, g \in CurrentIn(truth) :
            /\ Classify(f, g) = "contradiction" =>
                 \E x \in findings : x.pair = {f, g}
            /\ Classify(f, g) = "trajectory" => {f, g} \in trends]_verdictVars

(* In a well-typed state what calculate_score returns under the reviewed   *)
(* rubric is a score and a band that the table accepts, whichever override *)
(* applied (migrations/007_scoring_readiness_gate.sql:11).                 *)
EveryVerdictIsStored == VerdictTypeOK /\ (verdict # None => Storable(verdict))

Days == ({f.period_start : f \in Samples} \cup {f.period_end : f \in Samples})
          \ {None}

(* A contradiction is about a day that both periods contain, a trajectory  *)
(* about periods without one (contradiction_policy.md:7, vcops.py:1606).   *)
(* It is about the classification alone, hence asked initially.            *)
PeriodsDecide ==
  VerdictInit => \A f, g \in Samples :
    LET Holds(d, h) ==
          PeriodOf(h) # None /\ PeriodOf(h).from <= d /\ d <= PeriodOf(h).to
        common == \E d \in Days : Holds(d, f) /\ Holds(d, g)
    IN  /\ Classify(f, g) = "contradiction" => common
        /\ Classify(f, g) = "trajectory" => ~common
=============================================================================
