---------------------------- MODULE MCQkCommands ----------------------------
(***************************************************************************)
(* Instances of QkCommands for TLC.                                        *)
(***************************************************************************)
EXTENDS QkCommands, TLC

\* The values of an item are only copied and compared.
ValueSymmetry == Permutations(Values)
=============================================================================
