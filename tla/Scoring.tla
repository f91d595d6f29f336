------------------------------- MODULE Scoring -------------------------------
(***************************************************************************)
(* The scoring rubric: its validation (_load_rubric), calculate_score, and *)
(* what the table evaluations accepts of its results.                      *)
(*                                                                         *)
(* Scores are in thousandths of a point, weights and coverage in percent,  *)
(* quality in tenths.  A sheet gives an entry or None for each criterion.  *)
(* Wordings and the identifiers of counterevidence are left out.           *)
(***************************************************************************)
EXTENDS Integers, Sequences, FiniteSets, FiniteSetsExt, Functions, Absence

EvidenceStates ==
  {"positive", "negative", "mixed", "unknown", "not_applicable", "blocked"}
Unscored == {"unknown", "not_applicable", "blocked"}
HumanReview == {"blocking_contradiction", "confidentiality_or_legal_issue",
                "approval_boundary", "unreliable_high_priority_evidence"}
Checks == {"contradiction_check_complete", "trajectory_check_complete"}
Flags == HumanReview \cup Checks \cup {"identity_reliable", "hard_exclusion"}
Bands == {"pass", "watch", "research_deeper", "high_priority"}

Interval(name, from, to) == [name |-> name, from |-> from, to |-> to]

(* scoring-rubric.v3.json, as shipped.                                     *)
ReviewedRubric ==
  [weight |->
     [thesis_stage_geography_fit   |-> 15, founder_team_signal       |-> 15,
      problem_product_depth        |-> 15, technical_differentiation |-> 10,
      traction_adoption            |-> 15, market_buyer_timing       |-> 10,
      business_commercial_evidence |-> 10, risk_decision_readiness   |-> 10],
   minimum |-> 3, coverage |-> 40, high_coverage |-> 75,
   required |-> {"founder_team_signal", "problem_product_depth"},
   checks |-> Checks,
   intervals |-> <<Interval("pass", 0, 50), Interval("watch", 50, 66),
                   Interval("research_deeper", 66, 82),
                   Interval("high_priority", 82, 100)>>]

-----------------------------------------------------------------------------
(* The intervals are contiguous from 0 to 100, the last one closed.        *)
Contiguous(rubric) ==
  LET iv == rubric.intervals
  IN  /\ iv # <<>> /\ iv[1].from = 0 /\ iv[Len(iv)].to = 100
      /\ \A i \in DOMAIN iv : iv[i].name \in Bands /\ iv[i].from < iv[i].to
      /\ \A i \in 1..(Len(iv) - 1) : iv[i].to = iv[i + 1].from

(* _load_rubric refuses everything else.                                   *)
Loads(rubric) ==
  /\ SumFunction(rubric.weight) = 100
  /\ \A k \in DOMAIN rubric.weight : rubric.weight[k] >= 0
  /\ rubric.minimum \in 0..Cardinality(DOMAIN rubric.weight)
  /\ 0 <= rubric.coverage /\ rubric.coverage <= rubric.high_coverage
  /\ rubric.high_coverage <= 100
  /\ rubric.required \subseteq DOMAIN rubric.weight
  /\ rubric.checks \subseteq Checks
  /\ Contiguous(rubric)

(* _recommendation_for_score: the first interval that has the score; the   *)
(* upper bound of the last one belongs to it.                              *)
BandsOf(rubric, score) ==
  {i \in DOMAIN rubric.intervals :
     LET iv == rubric.intervals[i]
     IN  /\ score >= 1000 * iv.from
         /\ \/ score < 1000 * iv.to
            \/ i = Len(rubric.intervals) /\ score = 1000 * iv.to}

BandOf(rubric, score) == rubric.intervals[Min(BandsOf(rubric, score))].name

-----------------------------------------------------------------------------
(* The entry of one criterion that calculate_score accepts.                *)
ValidEntry(e) ==
  /\ e.state \in EvidenceStates
  /\ (e.state \in Unscored) <=> (e.quality = None)
  /\ e.quality # None => e.quality \in 0..50 /\ e.facts # {}
  /\ e.state = "unknown" => e.coverage = "none" /\ e.grade = "unusable"
  /\ e.state = "not_applicable" =>
       e.coverage = "not_applicable" /\ e.grade = "not_applicable"
  /\ e.state \notin Unscored => e.coverage # "none"

(* One of the adjustments that decision_context may carry.                 *)
ValidAdjustment(a) ==
  /\ \/ a.kind = "material_unresolved_contradiction" /\ a.points \in {-5, -10}
     \/ a.kind = "trajectory" /\ a.points \in -5..5
  /\ a.facts # {}

Missing(sheet, k) == sheet[k] = None \/ sheet[k].state \in {"unknown", "blocked"}

Evaluated(sheet) ==
  {k \in DOMAIN sheet : ~Missing(sheet, k) /\ sheet[k].state # "not_applicable"}

Covered(rubric, sheet) == SumFunctionOnSet(rubric.weight, Evaluated(sheet))

(* points_i = weight * quality / 5.                                        *)
Points(rubric, sheet, k) ==
  IF k \in Evaluated(sheet) THEN rubric.weight[k] * sheet[k].quality * 20 ELSE 0

(* raw_100, over the fixed denominator: what is unknown adds nothing.      *)
Raw(rubric, sheet) ==
  SumFunction([k \in DOMAIN sheet |-> Points(rubric, sheet, k)])

FullScore == 100000

Clamped(n) == Max({0, Min({FullScore, n})})

Final(rubric, sheet, adjustments) ==
  Clamped(Raw(rubric, sheet) + 1000 * SumFunction(
            [i \in DOMAIN adjustments |-> adjustments[i].points]))

(* The readiness gates.                                                    *)
Ready(rubric, sheet, flags) ==
  /\ "identity_reliable" \in flags
  /\ Cardinality(Evaluated(sheet)) >= rubric.minimum
  /\ Covered(rubric, sheet) >= rubric.coverage
  /\ rubric.required \subseteq Evaluated(sheet)

HighPriorityReady(rubric, sheet, flags) ==
  /\ Covered(rubric, sheet) >= rubric.high_coverage
  /\ rubric.checks \subseteq flags

UnlabelledOverride(rubric, sheet, flags, band) ==          \* mutant
  CASE "hard_exclusion" \in flags -> [by |-> "none", to |-> "pass"]
    [] OTHER -> [by |-> "none", to |-> band]

(* The overrides, the first that applies.                                  *)
Override(rubric, sheet, flags, band) ==
  IF "hard_exclusion" \in flags THEN [by |-> "hard_exclusion", to |-> "pass"]
  ELSE IF flags \cap HumanReview # {}
  THEN [by |-> "needs_human_review", to |-> "needs_human_review"]
  ELSE IF ~Ready(rubric, sheet, flags)
  THEN [by |-> "insufficient_evidence", to |-> "insufficient_evidence"]
  ELSE IF band = "high_priority" /\ ~HighPriorityReady(rubric, sheet, flags)
  THEN [by |-> "high_priority_prerequisites_missing", to |-> "research_deeper"]
  ELSE [by |-> "none", to |-> band]

(* calculate_score, with the flags that are true.                          *)
Score(rubric, sheet, flags, adjustments) ==
  LET final == Final(rubric, sheet, adjustments)
      override == Override(rubric, sheet, flags, BandOf(rubric, final))
  IN  [final |-> final, recommendation |-> override.to, override |-> override.by,
       coverage |-> Covered(rubric, sheet)]

(* evaluations_score_band_check.                                           *)
Storable(result) ==
  LET In(from, to) == 1000 * from <= result.final /\ result.final < 1000 * to
      top == 82000 <= result.final /\ result.final <= FullScore
  IN  \/ result.recommendation \in {"insufficient_evidence", "needs_human_review"}
      \/ result.recommendation = "pass" /\ In(0, 50)
      \/ result.recommendation = "watch" /\ In(50, 66)
      \/ result.recommendation = "research_deeper" /\ In(66, 82)
      \/ result.recommendation = "high_priority" /\ top
      \/ /\ result.recommendation = "research_deeper" /\ top
         /\ result.override = "high_priority_prerequisites_missing"
      \/ result.recommendation = "pass" /\ result.override = "hard_exclusion"
=============================================================================
