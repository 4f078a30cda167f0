---------------------- MODULE MCTestExecutorParallelizer ----------------------
(***************************************************************************)
(* Instances of TestExecutorParallelizer for TLC.                          *)
(***************************************************************************)
EXTENDS TestExecutorParallelizer, TLC

Symmetry == Permutations(Tests)
=============================================================================
