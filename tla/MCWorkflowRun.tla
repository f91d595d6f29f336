---------------------------- MODULE MCWorkflowRun ----------------------------
(***************************************************************************)
(* WorkflowRun on a small instance: helpers are interchangeable, and so    *)
(* are the two argument payloads.                                          *)
(***************************************************************************)
EXTENDS WorkflowRun, TLC

Symmetry == Permutations(Clients) \cup Permutations(Digests)
=============================================================================
