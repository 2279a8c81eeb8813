------------------------------ MODULE MCWrapNdk -----------------------------
(***************************************************************************)
(* Instances of WrapNdk: two runs of the script that overlap.              *)
(***************************************************************************)
EXTENDS WrapNdk, TLC

MCTools == {CC, CXX}
MCSymmetry == Permutations(Runs)
=============================================================================
