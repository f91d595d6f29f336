---------------------------- MODULE MCDeployment ----------------------------
(***************************************************************************)
(* Deployment with three releases: the second adds two migrations to the   *)
(* one of the first, the third adds none.                                  *)
(***************************************************************************)
EXTENDS Deployment

MCLevel == [r \in Releases |-> IF r = 1 THEN 1 ELSE 3]
=============================================================================
