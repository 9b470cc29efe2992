----------------------------- MODULE MCRunLoop -----------------------------
(***************************************************************************)
(* Instances of RunLoop for TLC.  Nothing in RunLoop tells workers apart,  *)
(* so the runs without liveness properties take them up to permutation.    *)
(***************************************************************************)
EXTENDS RunLoop, TLC

Symmetry == Permutations(Worker)
=============================================================================
