------------------------------ MODULE Absence ------------------------------
(***************************************************************************)
(* What stands for a NULL, a row that is not there or an argument that was *)
(* not given, in modules that are extended together.                       *)
(***************************************************************************)
CONSTANT None
=============================================================================
