------------------------------ MODULE FactPairs ------------------------------
(***************************************************************************)
(* When two facts contradict each other: the reading of a claim, the       *)
(* validity period of a fact, and classify_fact_pair, which                *)
(* contradiction-check, trajectory-check and compiled-truth share.         *)
(*                                                                         *)
(* Dates are naturals in their order.  A claim is what _NUMERIC_RE takes   *)
(* from a text: its number, if there is one, with its sign and scale, its  *)
(* currency symbol and the first known currency code.  The fields whose    *)
(* mismatch makes a pair not comparable are a function of their names;     *)
(* valid_from and valid_to, which stand in for a missing bound, are        *)
(* columns that no helper writes.                                          *)
(***************************************************************************)
EXTENDS Integers, FiniteSets, FiniteSetsExt

CONSTANT None

IdentityFields ==
  {"company_id", "lead_id", "fact_type", "definition", "unit", "cohort",
   "currency_code", "measurement_basis"}

(* parse_numeric_claim.  A symbol and a code that disagree are refused.    *)
CurrencyConflict(claim) ==
  /\ claim.number # None
  /\ claim.symbol # None /\ claim.code # None
  /\ claim.symbol # claim.code

ParsedValue(claim) ==
  IF claim.number = None THEN None
  ELSE (IF claim.negative THEN -claim.number ELSE claim.number) * claim.scale

ParsedCurrency(claim) ==
  CASE claim.number = None -> None
    [] claim.number # None /\ claim.code # None -> claim.code
    [] OTHER -> claim.symbol

-----------------------------------------------------------------------------
(* A single bound is a point; an inverted interval is not a period.        *)
PeriodOf(f) ==
  LET from == IF f.period_start # None THEN f.period_start ELSE f.period_end
      to   == IF f.period_end # None THEN f.period_end ELSE f.period_start
  IN  IF from = None THEN None
      ELSE IF to < from THEN None ELSE [from |-> from, to |-> to]

Dated(f, g) == PeriodOf(f) # None /\ PeriodOf(g) # None

Touches(f, g) ==                                           \* mutant
  /\ PeriodOf(f).from < PeriodOf(g).to
  /\ PeriodOf(g).from < PeriodOf(f).to

Overlaps(f, g) ==
  /\ PeriodOf(f).from <= PeriodOf(g).to
  /\ PeriodOf(g).from <= PeriodOf(f).to

(* _comparable_value: a number, also when it is found in a text, or a word.*)
Comparable(f) ==
  CASE f.numeric # None -> <<"number", f.numeric>>
    [] f.numeric = None /\ f.text = None -> <<"nothing", 0>>
    [] OTHER ->
         IF f.text.number # None THEN <<"number", ParsedValue(f.text)>>
         ELSE <<"word", f.text.word>>

SameIdentity(f, g) ==
  \A x \in IdentityFields :
    f.id[x] # None /\ g.id[x] # None => f.id[x] = g.id[x]

Magnitude(n) == IF n < 0 THEN -n ELSE n

(* Within one percent of the larger of the two, or of one.                 *)
Within(l, r) ==
  100 * Magnitude(l - r) <= Max({Magnitude(l), Magnitude(r), 1})

(* classify_fact_pair, in the order of its tests.                          *)
Classify(f, g) ==
  LET l == Comparable(f)
      r == Comparable(g)
      comparable == /\ SameIdentity(f, g)
                    /\ None \notin {f.id["definition"], g.id["definition"]}
                    /\ "nothing" \notin {l[1], r[1]}
      equal == l[1] = r[1] /\ l[2] = r[2]
      near  == l[1] = r[1] /\ l[1] = "number" /\ Within(l[2], r[2])
  IN  IF ~comparable THEN "not_comparable"
      ELSE IF Dated(f, g) /\ ~Overlaps(f, g) THEN "trajectory"
      ELSE IF equal THEN "consistent"
      ELSE IF ~Dated(f, g) THEN "not_comparable"
      ELSE IF near THEN "consistent" ELSE "contradiction"

(* trajectory-check: the direction is chronological.                       *)
Direction(f, g) ==
  LET earlier == IF PeriodOf(f).to < PeriodOf(g).from THEN f ELSE g
      later   == IF earlier = f THEN g ELSE f
      delta   == Comparable(later)[2] - Comparable(earlier)[2]
  IN  IF delta > 0 THEN "up" ELSE IF delta < 0 THEN "down" ELSE "flat"
=============================================================================
