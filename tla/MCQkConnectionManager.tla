------------------------ MODULE MCQkConnectionManager ------------------------
(***************************************************************************)
(* Instances of QkConnectionManager for TLC.                               *)
(***************************************************************************)
EXTENDS QkConnectionManager, TLC

\* The USB ports are alike, and the other ports, and the baud rates.
Alike ==
  Permutations(UsbPorts) \cup Permutations(Ports \ UsbPorts) \cup Permutations(BaudRates)
=============================================================================
