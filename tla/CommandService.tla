--------------------------- MODULE CommandService ---------------------------
(***************************************************************************)
(* What QkProtocol::sendPacket() promises to its callers.  Commands are    *)
(* numbered in the order they are asked for; they reach the device in that *)
(* order, each at most once; and a call ends, once, with what the device   *)
(* answered to that very command or with ACK_NACK.  ACK_NACK promises      *)
(* nothing: the command may have been executed, or be executed later.      *)
(***************************************************************************)
EXTENDS Integers

CONSTANT Results   \* the results a device may answer with

VARIABLES
  asked,     \* how many commands were asked for
  executed,  \* how many of them the device has got
  answers,   \* <<command, result>>: what the device answered
  outcomes   \* <<command, result>>: what the calls returned

vars == <<asked, executed, answers, outcomes>>

NoAnswer == "ACK_NACK"

Init ==
  /\ asked = 0
  /\ executed = 0
  /\ answers = {}
  /\ outcomes = {}

\* A caller that does not wait is through at once and learns nothing.
Ask(wait) ==
  /\ asked' = asked + 1
  /\ outcomes' = IF wait THEN outcomes ELSE outcomes \cup {<<asked + 1, NoAnswer>>}
  /\ UNCHANGED <<executed, answers>>

Execute ==
  /\ executed < asked
  /\ executed' = executed + 1
  /\ UNCHANGED <<asked, answers, outcomes>>

Answer(n, r) ==
  /\ n \in 1 .. executed
  /\ \A x \in answers : x[1] # n
  /\ answers' = answers \cup {<<n, r>>}
  /\ UNCHANGED <<asked, executed, outcomes>>

Finish(n, r) ==
  /\ n \in 1 .. asked
  /\ \A x \in outcomes : x[1] # n
  /\ r = NoAnswer \/ <<n, r>> \in answers
  /\ outcomes' = outcomes \cup {<<n, r>>}
  /\ UNCHANGED <<asked, executed, answers>>

Next ==
  \/ \E wait \in BOOLEAN : Ask(wait)
  \/ Execute
  \/ \E n \in 1 .. executed, r \in Results : Answer(n, r)
  \/ \E n \in 1 .. asked, r \in Results \cup {NoAnswer} : Finish(n, r)

Spec == Init /\ [][Next]_vars
=============================================================================
