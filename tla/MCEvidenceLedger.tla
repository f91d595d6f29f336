-------------------------- MODULE MCEvidenceLedger --------------------------
(***************************************************************************)
(* EvidenceLedger with small sets.  Two web sources returned different     *)
(* contents, and one upload is excluded from corroboration.                *)
(***************************************************************************)
EXTENDS EvidenceLedger, TLC

CONSTANTS s1, s2, s3, page1, page2

MCContentOf == [s \in Sources |-> IF s = s1 THEN page1 ELSE page2]

Symmetry == Permutations(Workers) \cup Permutations(Facts) \cup Permutations(Leads)
              \cup Permutations(Approvals)
=============================================================================
