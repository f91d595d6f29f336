---------------------------- MODULE MCDecisions ----------------------------
(* A contradicting and a trajectory pair, two scorings, two memo runs.     *)
EXTENDS Decisions, TLC

CONSTANTS conflict, growth, c1, c2

MCClassification == conflict :> "contradiction" @@ growth :> "trajectory"

Symmetry == Permutations(Clients) \cup Permutations(Runs) \cup Permutations(Contents)
=============================================================================
