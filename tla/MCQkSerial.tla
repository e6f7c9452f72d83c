----------------------------- MODULE MCQkSerial -----------------------------
(***************************************************************************)
(* Instances of QkSerial for TLC.                                          *)
(***************************************************************************)
EXTENDS QkSerial

\* Every frame of one or two bytes.
ShortFrames == [1 .. 1 -> Bytes] \cup [1 .. 2 -> Bytes]

\* Frames that need no escape, or one in front, or one at the end.
SomeFrames ==
  {<<x, x>> : x \in Plain} \cup {<<FLAG, x>> : x \in Plain} \cup {<<x, DLE>> : x \in Plain}
=============================================================================
