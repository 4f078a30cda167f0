---------------------------- MODULE MCTestExecutor ----------------------------
(***************************************************************************)
(* Instances of TestExecutor for TLC.                                      *)
(***************************************************************************)
EXTENDS TestExecutor, TLC

Symmetry == Permutations(Services)
=============================================================================
