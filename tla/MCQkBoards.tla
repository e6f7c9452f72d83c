----------------------------- MODULE MCQkBoards -----------------------------
(***************************************************************************)
(* Instances of QkBoards for TLC.                                          *)
(***************************************************************************)
EXTENDS QkBoards

\* One layout, another with as many data of another type and a harmless combo,
\* and one with more of everything, where a combo comes in the way of the rest.
SomeLayouts ==
  {[type |-> "dtInt", data |-> 1, events |-> 1, actions |-> 1, configs |-> <<Plain, Plain>>],
   [type |-> "dtFloat", data |-> 1, events |-> 1, actions |-> 0, configs |-> <<Plain, 1>>],
   [type |-> "dtFloat", data |-> 2, events |-> 2, actions |-> 2, configs |-> <<0, 0, Plain>>]}
=============================================================================
