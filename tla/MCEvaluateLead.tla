--------------------------- MODULE MCEvaluateLead ---------------------------
(***************************************************************************)
(* EvaluateLead with interchangeable vcrun invocations.                    *)
(***************************************************************************)
EXTENDS EvaluateLead, TLC

Symmetry == Permutations(Jobs)
=============================================================================
