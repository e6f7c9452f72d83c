---------------------------- MODULE MCQkFragments ----------------------------
(***************************************************************************)
(* Instances of QkFragments for TLC.                                       *)
(***************************************************************************)
EXTENDS QkFragments, TLC

\* The connections are alike.
ConnSymmetry == Permutations(Conns)
=============================================================================
