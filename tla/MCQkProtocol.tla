---------------------------- MODULE MCQkProtocol ----------------------------
(***************************************************************************)
(* Instances of QkProtocol for TLC.                                        *)
(***************************************************************************)
EXTENDS QkProtocol

\* A device that refuses with ACK_ERROR and never sends an ACK_NACK.
OkOrError == {ACK_OK, ACK_ERROR}

\* A device that also answers ACK_NACK, the result QkAck starts with.
OkOrNack == {ACK_OK, ACK_NACK}
=============================================================================
