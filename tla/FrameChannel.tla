---------------------------- MODULE FrameChannel ----------------------------
(***************************************************************************)
(* What the serial framing promises to its two users: frames given to      *)
(* QkConnWorker::sendFrame() come out of frameReady() at the other end,    *)
(* whole, each once and in order.                                          *)
(***************************************************************************)
EXTENDS Sequences

CONSTANT Frames   \* the frames there are

VARIABLES
  queue,      \* given to the channel and not yet delivered
  delivered   \* what frameReady() has handed on, in order

vars == <<queue, delivered>>

Init == queue = << >> /\ delivered = << >>

Send(f) ==
  /\ queue' = Append(queue, f)
  /\ UNCHANGED delivered

Deliver ==
  /\ queue # << >>
  /\ delivered' = Append(delivered, Head(queue))
  /\ queue' = Tail(queue)

Next == Deliver \/ \E f \in Frames : Send(f)

SafeSpec == Init /\ [][Next]_vars

Spec == SafeSpec /\ WF_vars(Deliver)
=============================================================================
