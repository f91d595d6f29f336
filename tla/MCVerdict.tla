----------------------------- MODULE MCVerdict -----------------------------
EXTENDS Verdict

(* Facts of one definition.                                                *)
Identity(definition) ==
  [x \in IdentityFields |-> IF x = "definition" THEN definition ELSE None]

AFact(definition, numeric, text, from, to) ==
  [id |-> Identity(definition), numeric |-> numeric, text |-> text,
   period_start |-> from, period_end |-> to,
   sourced |-> TRUE, confident |-> TRUE]

Claim(number, negative, scale) ==
  [number |-> number, negative |-> negative, scale |-> scale,
   symbol |-> None, code |-> None, word |-> None]

Word(w) == [Claim(None, FALSE, 1) EXCEPT !.word = w]

(* Two revenues for overlapping periods, and one for a later period.       *)
Revenue2023 == AFact("arr", 100, None, 1, 3)
Restated2023 == AFact("arr", None, Claim(2, FALSE, 100), 3, 3)
Revenue2024 == AFact("arr", 300, None, 5, None)
MCFacts == {Revenue2023, Restated2023, Revenue2024}

MCSamples ==
  MCFacts \cup
  {AFact(d, v[1], v[2], from, to) :
     d \in {None, "arr"},
     v \in {<<None, None>>, <<-100, None>>, <<10000, None>>, <<10100, None>>,
            <<10101, None>>, <<None, Claim(1, TRUE, 100)>>, <<None, Word("beta")>>},
     from \in {None, 1, 3, 5}, to \in {None, 1, 3, 5}}

Entry(state, quality, facts) ==
  [state |-> state, quality |-> quality, facts |-> facts,
   coverage |-> CASE state \in {"unknown"} -> "none"
                  [] state = "not_applicable" -> "not_applicable"
                  [] OTHER -> "complete",
   grade |-> CASE state \in {"unknown"} -> "unusable"
               [] state = "not_applicable" -> "not_applicable"
               [] OTHER -> "high"]

Good(facts) == Entry("positive", 45, facts)

Criteria == DOMAIN ReviewedRubric.weight

SheetOf(ks, entry) == [k \in Criteria |-> IF k \in ks THEN entry ELSE None]

MCEvaluations ==
  {[sheet |-> SheetOf(Criteria, Good({Revenue2024})), claims |-> claims,
    adjustments |-> <<>>] :
     claims \in {Flags, Checks \cup {"identity_reliable"}}}
  \cup
  {[sheet |-> SheetOf({"founder_team_signal"}, Good({Revenue2024})),
    claims |-> {}, adjustments |-> <<>>],
   [sheet |-> SheetOf(Criteria \ {"risk_decision_readiness"}, Good({Revenue2024})),
    claims |-> {},
    adjustments |-> [i \in 1..5 |-> [kind |-> "trajectory", points |-> 5,
                                     facts |-> {Revenue2023}]]]}
=============================================================================
