---------------------- MODULE QkProtocolServiceProofs ----------------------
(***************************************************************************)
(* Proofs that QkProtocol implements CommandService while its ids last,    *)
(* that its worker lets no packet overtake one that waits, and that an ACK *)
(* is used up by the call it ends.                                         *)
(***************************************************************************)
EXTENDS QkProtocolProofs

\* The steps that leave alone what the callers and the device see.
Quiet ==
  \/ AppPoll \/ AppTimeout \/ Close \/ Destroy \/ OpenPort \/ EndReset
  \/ WorkerSend \/ WorkerPoll \/ WorkerTimeout \/ WorkerReturn \/ WorkerFinish
  \/ SerialReceive \/ SerialWorkerAck \/ SerialProtocolAck
  \/ UNCHANGED vars

\* Every step is one of these five.
LEMMA StepCases ==
  ASSUME [Next]_vars
  PROVE  \/ \E wait \in BOOLEAN : SendPacket(wait)
         \/ AppReturn
         \/ SerialTransmit
         \/ \E n \in dev, r \in Results : DeviceAnswer(n, r)
         \/ Quiet
BY DEF Next, AppStep, WorkerStep, SerialStep, Quiet

\* They change nothing that callers and device see.
LEMMA QuietStep ==
  ASSUME Quiet
  PROVE  UNCHANGED <<issued, sent, answered, returned, dev>>
BY DEF Quiet, AppPoll, AppTimeout, Close, Destroy, JoinSerial, OpenPort, EndReset,
       WorkerSend, WorkerPoll, WorkerTimeout,
       WorkerReturn, WorkerFinish, SerialReceive, SerialWorkerAck, SerialProtocolAck,
       vars, appVars, serialVars, deviceVars

----------------------------------------------------------------------------
\* What two sequences hold together.
LEMMA JoinProperties ==
  ASSUME NEW S, NEW s \in Seq(S), NEW t \in Seq(S)
  PROVE  /\ s \o t \in Seq(S)
         /\ Len(s \o t) = Len(s) + Len(t)
         /\ \A i \in 1 .. Len(s \o t) :
              (s \o t)[i] = IF i <= Len(s) THEN s[i] ELSE t[i - Len(s)]
BY ConcatProperties

(***************************************************************************)
(* What FifoLine says of the line: the i-th command on it is command i.    *)
(***************************************************************************)
LEMMA LineCounts ==
  ASSUME TypeOK, FifoLine
  PROVE  /\ Len(sent) \in Nat /\ Len(issued) \in Nat
         /\ Len(sent) <= Len(issued)
         /\ Transmitted = 1 .. Len(sent)
         /\ frames # << >> => Head(frames) = Len(sent) + 1 /\ Len(sent) < Len(issued)
<1> DEFINE queued == sent \o frames
           all == queued \o outQ
<1>1. /\ sent \in Seq(Commands) /\ frames \in Seq(Commands) /\ outQ \in Seq(Commands)
      /\ Len(sent) \in Nat /\ Len(frames) \in Nat /\ Len(outQ) \in Nat
      /\ Len(issued) \in Nat
  BY LenProperties DEF TypeOK
<1>2. /\ queued \in Seq(Commands)
      /\ Len(queued) = Len(sent) + Len(frames)
      /\ \A i \in 1 .. Len(queued) :
           queued[i] = IF i <= Len(sent) THEN sent[i] ELSE frames[i - Len(sent)]
  BY <1>1, JoinProperties
<1> HIDE DEF queued
<1>3. /\ all \in Seq(Commands)
      /\ Len(all) = Len(queued) + Len(outQ)
      /\ \A i \in 1 .. Len(all) :
           all[i] = IF i <= Len(queued) THEN queued[i] ELSE outQ[i - Len(queued)]
  <2> HIDE DEF queued
  <2>1. queued \in Seq(Commands) /\ outQ \in Seq(Commands)
    BY <1>1, <1>2
  <2> QED
    BY <2>1, JoinProperties
<1>4. all = [n \in 1 .. Len(issued) |-> n]
  BY DEF FifoLine, Commands, queued
<1> HIDE DEF all
<1>5. Len(all) = Len(issued) /\ \A i \in 1 .. Len(issued) : all[i] = i
  BY <1>1, <1>3, <1>4, LenProperties
<1>6. Len(sent) + Len(frames) <= Len(issued)
  BY <1>1, <1>2, <1>3, <1>5
<1>7. \A i \in 1 .. Len(sent) : sent[i] = i
  BY <1>1, <1>2, <1>3, <1>5, <1>6
<1>8. Transmitted = 1 .. Len(sent)
  BY <1>1, <1>7, LenProperties DEF Transmitted
<1>9. ASSUME frames # << >> PROVE Head(frames) = Len(sent) + 1 /\ Len(sent) < Len(issued)
  <2>1. Len(frames) >= 1 /\ Head(frames) = frames[1]
    BY <1>1, <1>9, EmptySeq, HeadTailProperties
  <2>2. Len(sent) + 1 \in 1 .. Len(queued) /\ Len(sent) + 1 \in 1 .. Len(issued)
    BY <1>1, <1>2, <1>6, <2>1
  <2>3. queued[Len(sent) + 1] = frames[1]
    BY <1>1, <1>2, <2>2
  <2>4. all[Len(sent) + 1] = queued[Len(sent) + 1]
    BY <1>1, <1>2, <1>3, <1>5, <2>2
  <2> QED
    BY <1>1, <1>5, <2>1, <2>2, <2>3, <2>4
<1> QED
  BY <1>1, <1>6, <1>8, <1>9

----------------------------------------------------------------------------
(***************************************************************************)
(* Every command is answered once, and every call returns once.            *)
(***************************************************************************)
AnsweredOnce ==
  /\ \A x \in answered : x[1] \in Transmitted \ dev
  /\ \A x, y \in answered : x[1] = y[1] => x = y

ReturnsOnce ==
  /\ \A i, j \in DOMAIN calls : i # j => calls[i].cmd # calls[j].cmd
  /\ \A i \in DOMAIN calls : \A x \in returned : x.call # calls[i].cmd

\* Only commands that went onto the line are answered, and they are out of the
\* device then.
LEMMA AnsweredOnceStep ==
  ASSUME TypeOK, TypeOK', FifoLine, AckInv, AnsweredOnce, [Next]_vars
  PROVE  AnsweredOnce'
<1>1. Transmitted \subseteq Transmitted'
  BY GrowthStep DEF AckGrowth
<1>2. CASE answered' = answered /\ dev' \subseteq dev
  BY <1>1, <1>2 DEF AnsweredOnce
<1>3. CASE SerialTransmit
  <2>1. Head(frames) = Len(sent) + 1 /\ Transmitted = 1 .. Len(sent) /\ Len(sent) \in Nat
    BY <1>3, LineCounts DEF SerialTransmit
  <2>2. Head(frames) \notin Transmitted
    BY <2>1
  <2>3. answered' = answered /\ dev' = dev \cup {Head(frames)}
    BY <1>3 DEF SerialTransmit
  <2> QED
    BY <1>1, <2>2, <2>3 DEF AnsweredOnce
<1>4. ASSUME NEW n \in dev, NEW r \in Results, DeviceAnswer(n, r)
      PROVE  AnsweredOnce'
  <2>1. n \in Transmitted'
    BY <1>1 DEF AckInv
  <2>2. answered' = answered \cup {<<n, r>>} /\ dev' = dev \ {n}
    BY <1>4 DEF DeviceAnswer
  <2> QED
    BY <1>1, <2>1, <2>2 DEF AnsweredOnce
<1>5. CASE AppReturn
  BY <1>2, <1>5 DEF AppReturn, deviceVars
<1>6. ASSUME NEW wait \in BOOLEAN, SendPacket(wait) PROVE AnsweredOnce'
  BY <1>2, <1>6 DEF SendPacket, deviceVars
<1>7. CASE Quiet
  BY <1>2, <1>7, QuietStep
<1> QED
  BY <1>3, <1>4, <1>5, <1>6, <1>7, StepCases

\* The calls under way are about different commands, none of which has returned.
LEMMA ReturnsOnceStep ==
  ASSUME TypeOK, TypeOK', ReturnsOnce, [Next]_vars
  PROVE  ReturnsOnce'
<1>0. calls \in Seq(PendingCall) /\ Len(calls) \in Nat /\ DOMAIN calls = 1 .. Len(calls)
  BY LenProperties DEF TypeOK
<1>1. ASSUME NEW wait \in BOOLEAN, SendPacket(wait) PROVE ReturnsOnce'
  <2> DEFINE n == Len(issued) + 1
             c == [cmd |-> n, pc |-> "exec", ack |-> NoAck]
  <2>1. Len(issued) \in Nat /\ n \notin Commands
    BY LenProperties DEF TypeOK, Commands
  <2>2. /\ \A i \in DOMAIN calls : calls[i].cmd \in Commands
        /\ \A x \in returned : x.call \in Commands
    <3>1. \A i \in DOMAIN calls : calls[i] \in PendingCall
      BY <1>0, ElementOfSeq
    <3> QED
      BY <3>1 DEF TypeOK, PendingCall, FinishedCall
  <2>3. CASE wait
    <3>1. calls' = Append(calls, c) /\ returned' = returned
      BY <1>1, <2>3 DEF SendPacket
    <3>2. /\ DOMAIN calls' = 1 .. Len(calls) + 1
          /\ \A i \in DOMAIN calls : calls'[i] = calls[i]
          /\ calls'[Len(calls) + 1] = c
      BY <1>0, <3>1
    <3> QED
      BY <1>0, <2>1, <2>2, <3>1, <3>2 DEF ReturnsOnce
  <2>4. CASE ~ wait
    <3>1. calls' = calls /\ returned' = returned \cup {[call |-> n, ack |-> NoAck]}
      BY <1>1, <2>4 DEF SendPacket
    <3> QED
      BY <2>1, <2>2, <3>1 DEF ReturnsOnce
  <2> QED
    BY <2>3, <2>4
<1>2. CASE AppPoll \/ AppTimeout
  <2>1. PICK c : calls' = SetTop(c) /\ c.cmd = Top.cmd /\ returned' = returned /\ calls # << >>
    <3>1. CASE AppPoll
      <4>1. PICK i \in FirstFor(issued[Top.cmd].id, pAcks) :
              calls' = SetTop([Top EXCEPT !.ack = pAcks[i],
                                          !.pc = IF pAcks[i].result = ACK_NACK
                                                 THEN "exec" ELSE "remove"])
        BY <3>1 DEF AppPoll
      <4>2. Top \in PendingCall /\ calls # << >> /\ returned' = returned
        BY <1>0, <3>1, TopType DEF AppPoll, InCall
      <4> QED
        BY <4>1, <4>2 DEF PendingCall
    <3>2. CASE AppTimeout
      <4>1. Top \in PendingCall /\ calls # << >> /\ returned' = returned
        BY <1>0, <3>2, TopType DEF AppTimeout, InCall
      <4> QED
        BY <3>2, <4>1 DEF PendingCall, AppTimeout
    <3> QED
      BY <1>2, <3>1, <3>2
  <2>2. /\ DOMAIN calls' = DOMAIN calls
        /\ \A i \in DOMAIN calls : calls'[i].cmd = calls[i].cmd
    BY <1>0, <2>1 DEF SetTop, Top
  <2> QED
    BY <2>1, <2>2 DEF ReturnsOnce
<1>3. CASE AppReturn
  <2>1. /\ Len(calls) \in DOMAIN calls
        /\ calls' = SubSeq(calls, 1, Len(calls) - 1)
        /\ \E a : returned' = returned \cup {[call |-> calls[Len(calls)].cmd, ack |-> a]}
    <3>1. calls # << >> /\ Len(calls) \in DOMAIN calls
      BY <1>0, <1>3, EmptySeq DEF AppReturn, InCall
    <3> QED
      BY <1>3, <3>1 DEF AppReturn, Top
  <2>2. /\ DOMAIN calls' = 1 .. (Len(calls) - 1)
        /\ \A i \in DOMAIN calls' : calls'[i] = calls[i]
    BY <1>0, <2>1
  <2> QED
    BY <1>0, <2>1, <2>2 DEF ReturnsOnce
<1>4. CASE calls' = calls /\ returned' = returned
  BY <1>4 DEF ReturnsOnce
<1> QED
  BY <1>1, <1>2, <1>3, <1>4
     DEF Next, AppStep, WorkerStep, SerialStep, Close, Destroy, OpenPort, EndReset,
         WorkerSend, WorkerPoll,
         WorkerTimeout, WorkerReturn, WorkerFinish, SerialTransmit, SerialReceive,
         SerialWorkerAck, SerialProtocolAck, DeviceAnswer, appVars, vars

----------------------------------------------------------------------------
(***************************************************************************)
(* The steps, as CommandService sees them.                                 *)
(***************************************************************************)
Outcomes == {<<x.call, x.ack.result>> : x \in returned}

\* A return adds its outcome.
LEMMA OutcomesGrow ==
  ASSUME NEW n, NEW a, returned' = returned \cup {[call |-> n, ack |-> a]}
  PROVE  Outcomes' = Outcomes \cup {<<n, a.result>>}
<1> DEFINE x == [call |-> n, ack |-> a]
<1>1. x.call = n /\ x.ack = a /\ returned' = returned \cup {x}
  OBVIOUS
<1> HIDE DEF x
<1>2. Outcomes' = Outcomes \cup {<<x.call, x.ack.result>>}
  BY <1>1 DEF Outcomes
<1> QED
  BY <1>1, <1>2

\* sendPacket() is Ask, and ends at once when it does not wait.
LEMMA SendIsAsk ==
  ASSUME TypeOK, TypeOK', NEW wait \in BOOLEAN, SendPacket(wait)
  PROVE  Service!Ask(wait)
<1> DEFINE n == Len(issued) + 1
<1>1. [id |-> nextId', wait |-> wait] \in Packet
  BY DEF TypeOK, Packet
<1>2. Len(issued') = n
  BY <1>1, IssueGrows DEF TypeOK, SendPacket
<1>3. sent' = sent /\ answered' = answered
  BY DEF SendPacket, serialVars, deviceVars
<1>4. CASE wait
  <2>1. Outcomes' = Outcomes
    BY <1>4 DEF SendPacket, Outcomes
  <2> QED
    BY <1>2, <1>3, <1>4, <2>1 DEF Service!Ask, Outcomes
<1>5. CASE ~ wait
  <2>1. returned' = returned \cup {[call |-> n, ack |-> NoAck]}
    BY <1>5 DEF SendPacket
  <2>2. Outcomes' = Outcomes \cup {<<n, NoAck.result>>}
    BY <2>1, OutcomesGrow
  <2>3. NoAck.result = Service!NoAnswer
    BY DEF NoAck, ACK_NACK, Service!NoAnswer
  <2> QED
    BY <1>2, <1>3, <1>5, <2>2, <2>3 DEF Service!Ask, Outcomes
<1> QED
  BY <1>4, <1>5

\* The end of waitForACK() is Finish, with the answer to its own command.
LEMMA ReturnIsFinish ==
  ASSUME TypeOK, ReturnsOnce, NoFalseSuccess', AppReturn
  PROVE  \E n \in 1 .. Len(issued), r \in Results \cup {Service!NoAnswer} : Service!Finish(n, r)
<1> DEFINE n == Top.cmd
           r == Top.ack.result
           x == [call |-> n, ack |-> Top.ack]
<1>1. Top \in PendingCall /\ calls # << >> /\ Len(calls) \in DOMAIN calls
  BY TopType, LenProperties, EmptySeq DEF TypeOK, AppReturn, InCall
<1>2. n \in 1 .. Len(issued)
  BY <1>1 DEF PendingCall, Commands
<1>3. returned' = returned \cup {x} /\ UNCHANGED <<issued, sent, answered>>
  BY DEF AppReturn, serialVars, deviceVars
<1>4. Outcomes' = Outcomes \cup {<<n, r>>}
  BY <1>3, OutcomesGrow
<1>5. r = Service!NoAnswer \/ <<n, r>> \in answered
  <2>1. CASE r = ACK_NACK
    BY <2>1 DEF ACK_NACK, Service!NoAnswer
  <2>2. CASE r # ACK_NACK
    <3>1. x \in Successes'
      BY <1>3, <2>2 DEF Successes
    <3> QED
      BY <1>3, <3>1 DEF NoFalseSuccess
  <2> QED
    BY <2>1, <2>2
<1>6. r \in Results \cup {Service!NoAnswer}
  BY <1>5 DEF TypeOK
<1>7. \A y \in Outcomes : y[1] # n
  BY <1>1 DEF ReturnsOnce, Outcomes, Top
<1> HIDE DEF n, r, x
<1>8. Service!Finish(n, r)
  BY <1>2, <1>3, <1>4, <1>5, <1>7 DEF Service!Finish, Outcomes
<1> QED
  BY <1>2, <1>6, <1>8 DEF Service!Finish

\* A frame on the line is Execute.
LEMMA TransmitIsExecute ==
  ASSUME TypeOK, FifoLine, SerialTransmit
  PROVE  Service!Execute
<1>1. Len(sent) < Len(issued) /\ Head(frames) \in Commands
  BY LineCounts, HeadTailProperties DEF TypeOK, SerialTransmit
<1>2. Len(sent') = Len(sent) + 1
  BY <1>1 DEF TypeOK, SerialTransmit
<1>3. UNCHANGED <<issued, answered, returned>>
  BY DEF SerialTransmit, appVars
<1> QED
  BY <1>1, <1>2, <1>3 DEF Service!Execute

\* An answer of the device is Answer: the command has got there, and has not been
\* answered before.
LEMMA DeviceIsAnswer ==
  ASSUME TypeOK, FifoLine, AckInv, AnsweredOnce,
         NEW n \in dev, NEW r \in Results, DeviceAnswer(n, r)
  PROVE  n \in 1 .. Len(sent) /\ Service!Answer(n, r)
<1>1. n \in 1 .. Len(sent)
  BY LineCounts DEF AckInv
<1>2. \A x \in answered : x[1] # n
  BY DEF AnsweredOnce
<1>3. answered' = answered \cup {<<n, r>>} /\ UNCHANGED <<issued, sent, returned>>
  BY DEF DeviceAnswer, appVars, serialVars
<1> QED
  BY <1>1, <1>2, <1>3 DEF Service!Answer

\* What holds in every state while the ids last.
ServiceInv ==
  /\ TypeOK
  /\ FifoLine
  /\ AckInv
  /\ NoFalseSuccess
  /\ AnsweredOnce
  /\ ReturnsOnce

\* Every step of the protocol is a step of the service or a stutter.
LEMMA ServiceStep ==
  ASSUME ServiceInv, ServiceInv', [Next]_vars
  PROVE  [Service!Next]_(Service!vars)
<1>1. ASSUME NEW wait \in BOOLEAN, SendPacket(wait) PROVE Service!Next
  BY <1>1, SendIsAsk DEF ServiceInv, Service!Next
<1>2. CASE AppReturn
  BY <1>2, ReturnIsFinish DEF ServiceInv, Service!Next
<1>3. CASE SerialTransmit
  BY <1>3, TransmitIsExecute DEF ServiceInv, Service!Next
<1>4. ASSUME NEW n \in dev, NEW r \in Results, DeviceAnswer(n, r) PROVE Service!Next
  BY <1>4, DeviceIsAnswer DEF ServiceInv, Service!Next
<1>5. CASE Quiet
  BY <1>5, QuietStep DEF Service!vars
<1> QED
  BY <1>1, <1>2, <1>3, <1>4, <1>5, StepCases

\* As long as the ids last, the three threads, the two queues and the two lists of
\* ACKs implement CommandService, for any number of overlapping and nested calls:
\* commands are executed in order and at most once, and each call returns once,
\* with its own command's answer or with ACK_NACK.
THEOREM ImplementsCommandService ==
  ASSUME MaxSends < IdSpace
  PROVE  Spec => IsCommandService
<1>1. Init => AnsweredOnce /\ ReturnsOnce
  BY EmptySeq DEF Init, AnsweredOnce, ReturnsOnce
<1>2. TypeOK /\ TypeOK' /\ FifoLine /\ AckInv /\ AnsweredOnce /\ ReturnsOnce /\ [Next]_vars
        => AnsweredOnce' /\ ReturnsOnce'
  BY AnsweredOnceStep, ReturnsOnceStep
<1>3. Spec => []NoFalseSuccess
  BY SuccessIsOwn
<1>4. Spec => []ServiceInv
  BY <1>1, <1>2, <1>3, TypeCorrect, CommandsStayInOrder, AcksAreGenuine, PTL
     DEF Spec, ServiceInv
<1>5. Init => Service!Init
  BY EmptySeq DEF Init, Service!Init
<1>6. ServiceInv /\ ServiceInv' /\ [Next]_vars => [Service!Next]_(Service!vars)
  BY ServiceStep
<1> QED
  BY <1>4, <1>5, <1>6, PTL DEF Spec, IsCommandService, Service!Spec

----------------------------------------------------------------------------
(***************************************************************************)
(* The protocol thread goes on only when the last waiting packet is done   *)
(* with: expired, or answered as far as the ids can tell.                  *)
(***************************************************************************)
Done(n) ==
  \/ n \in expired
  \/ \E m \in Commands, r \in Results : <<m, r>> \in answered /\ issued[m].id = issued[n].id

Left(n) == \A i \in DOMAIN outQ : outQ[i] # n

\* Every waiting packet that has left the queue is done with, but for the one the
\* protocol thread is waiting for.
WorkerInv ==
  \A n \in Commands :
    issued[n].wait /\ Left(n) => Done(n) \/ (n = wCmd /\ wPc = "waiting")

\* What is done with stays so, and issued packets stay as they are.
LEMMA DoneStays ==
  ASSUME TypeOK, TypeOK', [Next]_vars, NEW n \in Commands
  PROVE  /\ Done(n) => Done(n)'
         /\ n \in Commands' /\ issued'[n].wait = issued[n].wait
<1>1. AckGrowth
  BY GrowthStep
<1>2. expired \subseteq expired'
  BY DEF Next, AppStep, WorkerStep, SerialStep, SendPacket, AppPoll, AppTimeout,
         AppReturn,
         Close, Destroy, OpenPort, EndReset, WorkerSend, WorkerPoll, WorkerTimeout,
         WorkerReturn, WorkerFinish,
         SerialTransmit, SerialReceive, SerialWorkerAck, SerialProtocolAck,
         DeviceAnswer, workerVars, vars
<1>3. issued'[n] = issued[n]
  <2>1. CASE issued' = issued
    BY <2>1
  <2>2. ASSUME NEW wait \in BOOLEAN, SendPacket(wait) PROVE <1>3
    <3>1. [id |-> nextId', wait |-> wait] \in Packet
      BY DEF TypeOK, Packet
    <3> QED
      BY <2>2, <3>1, IssueGrows DEF SendPacket, TypeOK, Commands
  <2> QED
    BY <2>1, <2>2
       DEF Next, AppStep, WorkerStep, SerialStep, AppPoll, AppTimeout, AppReturn,
           Close, Destroy, OpenPort, EndReset, WorkerSend, WorkerPoll, WorkerTimeout,
           WorkerReturn, WorkerFinish,
           SerialTransmit, SerialReceive, SerialWorkerAck, SerialProtocolAck,
           DeviceAnswer, appVars, vars
<1> QED
  BY <1>1, <1>2, <1>3 DEF AckGrowth, Done

\* An ACK that the worker finds for its packet shows that it is done with.
LEMMA FoundIsDone ==
  ASSUME TypeOK, AckInv, NEW n \in Commands, NEW i \in FirstFor(issued[n].id, wAcks)
  PROVE  Done(n)
<1>1. wAcks[i] \in GenuineAck /\ wAcks[i].id = issued[n].id
  BY FirstForType DEF AckInv, FirstFor
<1> QED
  BY <1>1 DEF GenuineAck, Done, TypeOK

\* Every step keeps it so.
LEMMA WorkerInvStep ==
  ASSUME TypeOK, TypeOK', AckInv, WorkerInv, [Next]_vars
  PROVE  WorkerInv'
<1> SUFFICES ASSUME NEW n \in Commands', issued'[n].wait, Left(n)'
             PROVE  Done(n)' \/ (n = wCmd /\ wPc = "waiting")'
  BY DEF WorkerInv
<1>0. outQ \in Seq(Commands) /\ Len(outQ) \in Nat /\ DOMAIN outQ = 1 .. Len(outQ)
  BY LenProperties DEF TypeOK
<1>1. CASE outQ' = outQ /\ Commands' = Commands /\ UNCHANGED <<wPc, wCmd>>
  BY <1>1, DoneStays DEF WorkerInv, Left
<1>2. ASSUME NEW wait \in BOOLEAN, SendPacket(wait)
      PROVE  Done(n)' \/ (n = wCmd /\ wPc = "waiting")'
  <2> DEFINE new == Len(issued) + 1
  <2>1. outQ' = Append(outQ, new) /\ UNCHANGED <<wPc, wCmd>>
    BY <1>2 DEF SendPacket, Enqueue, workerVars
  <2>2. /\ DOMAIN outQ' = 1 .. Len(outQ) + 1
        /\ \A i \in DOMAIN outQ : outQ'[i] = outQ[i]
        /\ outQ'[Len(outQ) + 1] = new
    BY <1>0, <2>1
  <2>3. n # new /\ Left(n)
    BY <1>0, <2>2 DEF Left
  <2>4. n \in Commands
    <3>1. [id |-> nextId', wait |-> wait] \in Packet
      BY DEF TypeOK, Packet
    <3>2. Len(issued') = new /\ Len(issued) \in Nat
      BY <1>2, <3>1, IssueGrows, LenProperties DEF TypeOK, SendPacket
    <3> QED
      BY <2>3, <3>2 DEF Commands
  <2> QED
    BY <2>1, <2>3, <2>4, DoneStays DEF WorkerInv
<1>3. CASE WorkerSend
  <2>1. /\ outQ # << >> /\ outQ' = Tail(outQ) /\ wCmd' = Head(outQ)
        /\ wPc = "idle" /\ wPc' = AfterSend(issued[wCmd'].wait)
        /\ issued' = issued
    BY <1>3 DEF WorkerSend, appVars
  <2>2. /\ Head(outQ) = outQ[1]
        /\ \A i \in DOMAIN outQ : i # 1 => i - 1 \in DOMAIN outQ' /\ outQ'[i - 1] = outQ[i]
    BY <1>0, <2>1, HeadTailProperties
  <2>3. n \in Commands /\ issued[n].wait
    BY <2>1 DEF Commands
  <2>4. CASE n = wCmd'
    BY <2>1, <2>3, <2>4 DEF AfterSend
  <2>5. CASE n # wCmd'
    <3>1. Left(n)
      BY <2>1, <2>2, <2>5 DEF Left
    <3> QED
      BY <2>1, <2>3, <3>1, DoneStays DEF WorkerInv
  <2> QED
    BY <2>4, <2>5
<1>4. CASE WorkerPoll \/ WorkerTimeout \/ WorkerReturn \/ WorkerFinish
  <2>1. UNCHANGED <<outQ, issued, wCmd>>
    BY <1>4 DEF WorkerPoll, WorkerTimeout, WorkerReturn, WorkerFinish, appVars
  <2>2. n \in Commands /\ issued[n].wait /\ Left(n)
    BY <2>1 DEF Commands, Left
  <2>3. CASE Done(n)
    BY <2>2, <2>3, DoneStays
  <2>4. CASE ~ Done(n)
    <3>1. n = wCmd /\ wPc = "waiting"
      BY <2>2, <2>4 DEF WorkerInv
    <3>2. ~ WorkerPoll
      BY <2>2, <2>4, <3>1, FoundIsDone DEF WorkerPoll
    <3>3. WorkerTimeout
      BY <1>4, <3>1, <3>2 DEF WorkerReturn, WorkerFinish
    <3>4. n \in expired'
      BY <3>1, <3>3 DEF WorkerTimeout
    <3> QED
      BY <3>4 DEF Done
  <2> QED
    BY <2>3, <2>4
<1>5. CASE AppPoll \/ AppTimeout \/ AppReturn
  BY <1>1, <1>5 DEF AppPoll, AppTimeout, AppReturn, workerVars, Commands
<1>6. CASE Close \/ Destroy \/ OpenPort \/ SerialStep
  BY <1>1, <1>6 DEF Close, Destroy, OpenPort, EndReset, SerialStep, SerialTransmit,
                    SerialReceive, SerialWorkerAck,
                    SerialProtocolAck, appVars, workerVars, Commands
<1>7. ASSUME NEW m \in dev, NEW r \in Results, DeviceAnswer(m, r)
      PROVE  Done(n)' \/ (n = wCmd /\ wPc = "waiting")'
  BY <1>1, <1>7 DEF DeviceAnswer, appVars, workerVars, Commands
<1>8. CASE UNCHANGED vars
  BY <1>1, <1>8 DEF vars, appVars, workerVars, Commands
<1> QED
  BY <1>2, <1>3, <1>4, <1>5, <1>6, <1>7, <1>8 DEF Next, AppStep, WorkerStep

\* The protocol thread never lets a packet overtake one that waits for its ACK,
\* however many ids there are and whenever ACKs and timeouts come.
THEOREM WorkerWaits == Spec => []AckGated
<1>1. Init => WorkerInv
  BY EmptySeq DEF Init, WorkerInv, Commands
<1>2. TypeOK /\ TypeOK' /\ AckInv /\ WorkerInv /\ [Next]_vars => WorkerInv'
  BY WorkerInvStep
<1>3. WorkerInv => AckGated
  BY DEF WorkerInv, AckGated, Done, Left
<1> QED
  BY <1>1, <1>2, <1>3, TypeCorrect, AcksAreGenuine, PTL DEF Spec

----------------------------------------------------------------------------
(***************************************************************************)
(* An ACK is in one place at a time, and used once.                        *)
(***************************************************************************)
CommandsOf(acks) == {acks[i].cmd : i \in DOMAIN acks}
Distinct(acks) == \A i, j \in DOMAIN acks : i # j => acks[i].cmd # acks[j].cmd

\* The commands whose ACK has not yet come to QkProtocol::processPacket().
HandingOn == IF sPc \in {"worker", "protocol"} THEN {sAck.cmd} ELSE {}
OnTheWay == CommandsOf(rx) \cup HandingOn

\* The commands whose ACKs were picked up, by calls that have returned or will.
PickedUp ==
  {calls[i].ack.cmd : i \in {j \in DOMAIN calls : calls[j].ack # NoAck}}
    \cup {x.ack.cmd : x \in Successes}

\* No ACK comes twice to the list of QkProtocol, and none that a call has picked up
\* is still to come.
ArrivesOnce ==
  /\ Distinct(rx)
  /\ Distinct(pAcks)
  /\ CommandsOf(rx) \cap HandingOn = {}
  /\ CommandsOf(pAcks) \cap OnTheWay = {}
  /\ PickedUp \cap OnTheWay = {}

\* QList::removeOne() leaves what was there, but for the first equal element.
LEMMA RemoveOneLeaves ==
  ASSUME NEW acks \in Seq(Ack), NEW a, Distinct(acks)
  PROVE  /\ Distinct(RemoveOne(acks, a))
         /\ \A k \in DOMAIN RemoveOne(acks, a) :
              \E i \in DOMAIN acks \ FirstEqual(acks, a) : RemoveOne(acks, a)[k] = acks[i]
<1>1. CASE FirstEqual(acks, a) = {}
  BY <1>1 DEF RemoveOne
<1>2. CASE FirstEqual(acks, a) # {}
  <2> DEFINE i == CHOOSE i \in FirstEqual(acks, a) : TRUE
             front == SubSeq(acks, 1, i - 1)
             back == SubSeq(acks, i + 1, Len(acks))
             left == front \o back
  <2>1. RemoveOne(acks, a) = left
    BY <1>2 DEF RemoveOne
  <2>2. i \in FirstEqual(acks, a) /\ i \in DOMAIN acks
    BY <1>2 DEF FirstEqual
  <2>3. \A j \in FirstEqual(acks, a) : j = i
    <3> SUFFICES ASSUME NEW j \in FirstEqual(acks, a), j # i PROVE FALSE
      OBVIOUS
    <3>1. /\ i \in 1 .. Len(acks) /\ SameAck(acks[i], a)
          /\ \A k \in 1 .. (i - 1) : ~ SameAck(acks[k], a)
      BY <2>2 DEF FirstEqual
    <3>2. /\ j \in 1 .. Len(acks) /\ SameAck(acks[j], a)
          /\ \A k \in 1 .. (j - 1) : ~ SameAck(acks[k], a)
      BY DEF FirstEqual
    <3> HIDE DEF i
    <3>3. i \in Int /\ j \in Int /\ i >= 1 /\ j >= 1
      BY <3>1, <3>2
    <3>4. i \in 1 .. (j - 1) \/ j \in 1 .. (i - 1)
      BY <3>3
    <3> QED
      BY <3>1, <3>2, <3>4
  <2> HIDE DEF i
  <2>4. Len(acks) \in Nat /\ i \in 1 .. Len(acks)
    BY <2>2, LenProperties
  <2>5. /\ front \in Seq(Ack) /\ back \in Seq(Ack)
    BY <2>4, CutType
  <2>6. /\ Len(front) = i - 1 /\ Len(back) = Len(acks) - i
        /\ \A k \in 1 .. (i - 1) : front[k] = acks[k]
        /\ \A k \in 1 .. (Len(acks) - i) : back[k] = acks[i + k]
    BY <2>4
  <2> HIDE DEF front, back
  <2>7. /\ left \in Seq(Ack) /\ Len(left) = Len(front) + Len(back)
        /\ \A k \in 1 .. Len(left) :
             left[k] = IF k <= Len(front) THEN front[k] ELSE back[k - Len(front)]
    BY <2>5, JoinProperties
  <2> HIDE DEF left
  <2>8. DOMAIN left = 1 .. (Len(acks) - 1)
    BY <2>4, <2>6, <2>7, LenProperties
  <2>9. \A k \in DOMAIN left : left[k] = acks[IF k < i THEN k ELSE k + 1]
    <3> SUFFICES ASSUME NEW k \in 1 .. (Len(acks) - 1)
                 PROVE  left[k] = acks[IF k < i THEN k ELSE k + 1]
      BY <2>8
    <3>1. CASE k < i
      BY <2>4, <2>6, <2>7, <3>1
    <3>2. CASE ~ (k < i)
      <4>1. left[k] = back[k - (i - 1)]
        BY <2>4, <2>6, <2>7, <3>2
      <4>2. k - (i - 1) \in 1 .. (Len(acks) - i) /\ i + (k - (i - 1)) = k + 1
        BY <2>4, <3>2
      <4> QED
        BY <2>6, <3>2, <4>1, <4>2
    <3> QED
      BY <3>1, <3>2
  <2>10. \A k \in DOMAIN left : (IF k < i THEN k ELSE k + 1) \in DOMAIN acks \ {i}
    BY <2>4, <2>8, LenProperties
  <2>11. \A k, l \in DOMAIN left :
           k # l => (IF k < i THEN k ELSE k + 1) # (IF l < i THEN l ELSE l + 1)
    BY <2>4, <2>8
  <2>12. Distinct(left)
    BY <2>9, <2>10, <2>11 DEF Distinct
  <2>13. \A k \in DOMAIN left : \E j \in DOMAIN acks \ FirstEqual(acks, a) : left[k] = acks[j]
    BY <2>3, <2>9, <2>10
  <2> QED
    BY <2>1, <2>12, <2>13
<1> QED
  BY <1>1, <1>2

\* Prepending an ACK that is not there keeps the list without repetition.
LEMMA PrependDistinct ==
  ASSUME NEW acks \in Seq(Ack), NEW a \in Ack, Distinct(acks),
                              a.cmd \notin CommandsOf(acks),
         NEW racing \in BOOLEAN, NEW new \in Prepended(acks, a, racing)
  PROVE  Distinct(new) /\ CommandsOf(new) \subseteq CommandsOf(acks) \cup {a.cmd}
<1> DEFINE longer == <<a>> \o acks
<1>1. CASE new = acks
  BY <1>1
<1>2. CASE new = longer
  <2>1. /\ <<a>> \in Seq(Ack) /\ Len(<<a>>) = 1 /\ <<a>>[1] = a
        /\ Len(acks) \in Nat /\ DOMAIN acks = 1 .. Len(acks)
    BY LenProperties
  <2>2. /\ longer \in Seq(Ack) /\ Len(longer) = 1 + Len(acks)
        /\ \A k \in 1 .. Len(longer) : longer[k] = IF k <= 1 THEN <<a>>[k] ELSE acks[k - 1]
    BY <2>1, JoinProperties
  <2> HIDE DEF longer
  <2>3. /\ DOMAIN longer = 1 .. (1 + Len(acks))
        /\ \A k \in DOMAIN longer :
             \/ k = 1 /\ longer[k] = a
             \/ k - 1 \in DOMAIN acks /\ longer[k] = acks[k - 1]
    BY <2>1, <2>2, LenProperties
  <2>4. \A k, l \in DOMAIN longer : k # l => k - 1 # l - 1
    BY <2>3
  <2> QED
    BY <1>2, <2>3, <2>4 DEF Distinct, CommandsOf
<1> QED
  BY <1>1, <1>2 DEF Prepended

\* The tail of a list without repetition.
LEMMA TailDistinct ==
  ASSUME NEW acks \in Seq(Ack), acks # << >>, Distinct(acks)
  PROVE  /\ Distinct(Tail(acks))
         /\ CommandsOf(acks) = CommandsOf(Tail(acks)) \cup {Head(acks).cmd}
         /\ Head(acks).cmd \notin CommandsOf(Tail(acks))
<1> DEFINE t == Tail(acks)
<1>1. /\ Len(acks) \in Nat \ {0} /\ DOMAIN acks = 1 .. Len(acks)
      /\ t \in Seq(Ack) /\ Len(t) = Len(acks) - 1 /\ Head(acks) = acks[1]
      /\ \A i \in 1 .. Len(t) : t[i] = acks[i + 1]
  BY LenProperties, EmptySeq, HeadTailProperties
<1>2. DOMAIN t = 1 .. Len(t)
  BY <1>1, LenProperties
<1> HIDE DEF t
<1>3. \A i \in DOMAIN t : i + 1 \in DOMAIN acks /\ i + 1 # 1 /\ t[i] = acks[i + 1]
  BY <1>1, <1>2
<1>4. \A i \in DOMAIN acks : i = 1 \/ (i - 1 \in DOMAIN t /\ t[i - 1] = acks[i])
  BY <1>1, <1>2
<1>5. \A i, j \in DOMAIN t : i # j => i + 1 # j + 1
  BY <1>2
<1>6. 1 \in DOMAIN acks
  BY <1>1
<1>7. Distinct(t)
  BY <1>3, <1>5 DEF Distinct
<1>8. CommandsOf(acks) = CommandsOf(t) \cup {acks[1].cmd}
  BY <1>3, <1>4, <1>6 DEF CommandsOf
<1>9. acks[1].cmd \notin CommandsOf(t)
  BY <1>3, <1>6 DEF Distinct, CommandsOf
<1> QED
  BY <1>1, <1>7, <1>8, <1>9 DEF t

\* What AckInv says of single ACKs: the device has answered their commands.
LEMMA GenuineIsAnswered ==
  ASSUME AckInv, AnsweredOnce, NEW a \in GenuineAck
  PROVE  a.cmd \notin dev /\ a # NoAck
BY DEF GenuineAck, AnsweredOnce, Ack, NoAck, Ids

\* The commands of all ACKs in the host are out of the device.
LEMMA HostAcksAnswered ==
  ASSUME TypeOK, AckInv, AnsweredOnce
  PROVE  /\ OnTheWay \cap dev = {} /\ CommandsOf(rx) \cap dev = {}
         /\ HandingOn \cap dev = {} /\ CommandsOf(pAcks) \cap dev = {}
         /\ PickedUp \cap dev = {}
<1>1. \A i \in DOMAIN rx : rx[i] \in GenuineAck
  BY ElementOfSeq, LenProperties DEF AckInv
<1>2. \A i \in DOMAIN pAcks : pAcks[i] \in GenuineAck
  BY ElementOfSeq, LenProperties DEF AckInv
<1>3. \A i \in DOMAIN calls : calls[i] \in GoodCall
  BY ElementOfSeq, LenProperties DEF AckInv
<1>4. \A x \in Successes : x \in GoodReturn /\ x.ack # NoAck
  BY DEF AckInv, Successes, NoAck
<1>5. \A i \in DOMAIN calls : calls[i].ack # NoAck => calls[i].ack \in GenuineAck
  BY <1>3 DEF GoodCall, Holds
<1>6. \A x \in Successes : x.ack \in GenuineAck
  BY <1>4 DEF GoodReturn, Holds
<1>7. sPc \in {"worker", "protocol"} => sAck \in GenuineAck
  BY DEF TypeOK, AckInv
<1> QED
  BY <1>1, <1>2, <1>5, <1>6, <1>7, GenuineIsAnswered DEF OnTheWay, HandingOn,
                                                         CommandsOf, PickedUp

\* Only AppPoll picks up an ACK, and takes one that is in the list.
LEMMA PickedUpStep ==
  ASSUME TypeOK, TypeOK', [Next]_vars
  PROVE  PickedUp' \subseteq PickedUp \cup CommandsOf(pAcks)
<1>0. calls \in Seq(PendingCall) /\ Len(calls) \in Nat /\ DOMAIN calls = 1 .. Len(calls)
  BY LenProperties DEF TypeOK
<1>1. ASSUME NEW wait \in BOOLEAN, SendPacket(wait)
      PROVE  PickedUp' \subseteq PickedUp
  <2> DEFINE c == [cmd |-> Len(issued) + 1, pc |-> "exec", ack |-> NoAck]
             x == [call |-> Len(issued) + 1, ack |-> NoAck]
  <2>1. CASE wait
    <3>1. calls' = Append(calls, c) /\ returned' = returned
      BY <1>1, <2>1 DEF SendPacket
    <3>2. /\ DOMAIN calls' = 1 .. Len(calls) + 1
          /\ \A i \in DOMAIN calls : calls'[i] = calls[i]
          /\ calls'[Len(calls) + 1].ack = NoAck
      BY <1>0, <3>1
    <3> QED
      BY <1>0, <3>1, <3>2 DEF PickedUp, Successes
  <2>2. CASE ~ wait
    <3>1. calls' = calls /\ returned' = returned \cup {x} /\ x.ack.result = ACK_NACK
      BY <1>1, <2>2 DEF SendPacket, NoAck
    <3> HIDE DEF x
    <3>2. Successes' = Successes
      BY <3>1 DEF Successes
    <3> QED
      BY <3>1, <3>2 DEF PickedUp
  <2> QED
    BY <2>1, <2>2
<1>2. CASE AppPoll
  <2>1. PICK i \in FirstFor(issued[Top.cmd].id, pAcks) :
          calls' = SetTop([Top EXCEPT !.ack = pAcks[i],
                                      !.pc = IF pAcks[i].result = ACK_NACK
                                             THEN "exec" ELSE "remove"])
    BY <1>2 DEF AppPoll
  <2>2. Top \in PendingCall /\ Len(calls) \in DOMAIN calls /\ returned' = returned
    BY <1>0, <1>2, TopType, EmptySeq DEF AppPoll, InCall
  <2>3. /\ DOMAIN calls' = DOMAIN calls
        /\ \A k \in DOMAIN calls : k # Len(calls) => calls'[k] = calls[k]
        /\ calls'[Len(calls)].ack = pAcks[i]
    BY <1>0, <2>1, <2>2 DEF SetTop, PendingCall
  <2>4. pAcks[i].cmd \in CommandsOf(pAcks)
    BY DEF FirstFor, CommandsOf
  <2>5. \A k \in DOMAIN calls' :
          calls'[k].ack # NoAck => calls'[k].ack.cmd \in PickedUp \cup CommandsOf(pAcks)
    BY <2>3, <2>4 DEF PickedUp
  <2>6. Successes' = Successes
    BY <2>2 DEF Successes
  <2>7. {x.ack.cmd : x \in Successes'} \subseteq PickedUp
    BY <2>6 DEF PickedUp
  <2>8. PickedUp' = {calls'[k].ack.cmd : k \in {j \in DOMAIN calls' : calls'[j].ack # NoAck}}
                      \cup {y.ack.cmd : y \in Successes'}
    BY DEF PickedUp
  <2> QED
    BY <2>5, <2>7, <2>8
<1>3. CASE AppTimeout
  <2>1. Top \in PendingCall /\ Len(calls) \in DOMAIN calls /\ returned' = returned
    BY <1>0, <1>3, TopType, EmptySeq DEF AppTimeout, InCall
  <2>2. /\ DOMAIN calls' = DOMAIN calls
        /\ \A k \in DOMAIN calls : calls'[k].ack = calls[k].ack
    BY <1>0, <1>3, <2>1 DEF AppTimeout, SetTop, PendingCall, Top
  <2> QED
    BY <2>1, <2>2 DEF PickedUp, Successes
<1>4. CASE AppReturn
  <2> DEFINE x == [call |-> Top.cmd, ack |-> Top.ack]
  <2>1. /\ Len(calls) \in DOMAIN calls /\ Top = calls[Len(calls)]
        /\ calls' = SubSeq(calls, 1, Len(calls) - 1)
        /\ returned' = returned \cup {x} /\ x.ack = Top.ack
    BY <1>0, <1>4, EmptySeq DEF AppReturn, InCall, Top
  <2>2. /\ DOMAIN calls' = 1 .. (Len(calls) - 1)
        /\ \A i \in DOMAIN calls' : calls'[i] = calls[i]
    BY <1>0, <2>1
  <2> HIDE DEF x
  <2>3. Top.ack = NoAck => x \notin Successes'
    BY <2>1 DEF Successes, NoAck
  <2>4. Successes' \subseteq Successes \cup {x}
    BY <2>1 DEF Successes
  <2>5. {y.ack.cmd : y \in Successes'} \subseteq PickedUp
    BY <2>1, <2>3, <2>4 DEF PickedUp
  <2>6. \A i \in DOMAIN calls' : i \in DOMAIN calls /\ calls'[i] = calls[i]
    BY <1>0, <2>1, <2>2
  <2>7. \A i \in DOMAIN calls' : calls'[i].ack # NoAck => calls'[i].ack.cmd \in PickedUp
    BY <2>6 DEF PickedUp
  <2>8. PickedUp' = {calls'[k].ack.cmd : k \in {j \in DOMAIN calls' : calls'[j].ack # NoAck}}
                      \cup {y.ack.cmd : y \in Successes'}
    BY DEF PickedUp
  <2> QED
    BY <2>5, <2>7, <2>8
<1>5. CASE calls' = calls /\ returned' = returned
  BY <1>5 DEF PickedUp, Successes
<1> QED
  BY <1>1, <1>2, <1>3, <1>4, <1>5
     DEF Next, AppStep, WorkerStep, SerialStep, Close, Destroy, OpenPort, EndReset,
         WorkerSend, WorkerPoll,
         WorkerTimeout, WorkerReturn, WorkerFinish, SerialTransmit, SerialReceive,
         SerialWorkerAck, SerialProtocolAck, DeviceAnswer, appVars, vars

\* An ACK goes from the line over parseFrame() into the list, and from there to a
\* call: every step keeps these places apart.
LEMMA ArrivesOnceStep ==
  ASSUME TypeOK, TypeOK', AckInv, AnsweredOnce, ArrivesOnce, [Next]_vars
  PROVE  ArrivesOnce'
<1>0. PickedUp' \subseteq PickedUp \cup CommandsOf(pAcks)
  BY PickedUpStep
<1>1. ASSUME UNCHANGED <<rx, HandingOn>>, Distinct(pAcks)', CommandsOf(pAcks)' \subseteq CommandsOf(pAcks)
      PROVE  ArrivesOnce'
  <2>1. OnTheWay' = OnTheWay /\ CommandsOf(rx)' = CommandsOf(rx) /\ Distinct(rx)' = Distinct(rx)
    BY <1>1 DEF OnTheWay, CommandsOf, Distinct
  <2> QED
    BY <1>0, <1>1, <2>1 DEF ArrivesOnce
<1>2. CASE UNCHANGED <<rx, HandingOn, pAcks>>
  <2>1. Distinct(pAcks)' = Distinct(pAcks) /\ CommandsOf(pAcks)' = CommandsOf(pAcks)
    BY <1>2 DEF Distinct, CommandsOf
  <2> QED
    BY <1>1, <1>2, <2>1 DEF ArrivesOnce
<1>3. CASE AppReturn
  <2>1. UNCHANGED <<rx, HandingOn>>
    BY <1>3 DEF AppReturn, deviceVars, serialVars, HandingOn
  <2>2. PICK t : pAcks' = pAcks \/ pAcks' = RemoveOne(pAcks, t)
    BY <1>3 DEF AppReturn, Removed
  <2>3. CASE pAcks' = pAcks
    BY <1>2, <2>1, <2>3
  <2>4. CASE pAcks' = RemoveOne(pAcks, t)
    <3> DEFINE new == RemoveOne(pAcks, t)
    <3>1. Distinct(new) /\ \A k \in DOMAIN new : \E i \in DOMAIN pAcks : new[k] = pAcks[i]
      BY RemoveOneLeaves DEF TypeOK, ArrivesOnce
    <3> HIDE DEF new
    <3>2. CommandsOf(new) \subseteq CommandsOf(pAcks)
      BY <3>1 DEF CommandsOf
    <3>3. Distinct(pAcks)' /\ CommandsOf(pAcks)' = CommandsOf(new)
      BY <2>4, <3>1 DEF new, Distinct, CommandsOf
    <3> QED
      BY <1>1, <2>1, <3>2, <3>3
  <2> QED
    BY <2>2, <2>3, <2>4
<1>4. CASE SerialReceive
  <2>1. /\ rx # << >> /\ rx' = Tail(rx) /\ sAck' = Head(rx)
        /\ HandingOn = {} /\ HandingOn' = {Head(rx).cmd}
        /\ pAcks' = pAcks
    BY <1>4 DEF SerialReceive, HandingOn
  <2>2. /\ Distinct(Tail(rx))
        /\ CommandsOf(rx) = CommandsOf(Tail(rx)) \cup {Head(rx).cmd}
        /\ Head(rx).cmd \notin CommandsOf(Tail(rx))
    BY <2>1, TailDistinct DEF TypeOK, ArrivesOnce
  <2>3. /\ CommandsOf(rx)' = CommandsOf(Tail(rx)) /\ Distinct(rx)' = Distinct(Tail(rx))
        /\ CommandsOf(pAcks)' = CommandsOf(pAcks) /\ Distinct(pAcks)' = Distinct(pAcks)
    BY <2>1 DEF CommandsOf, Distinct
  <2>4. OnTheWay' = OnTheWay
    BY <2>1, <2>2, <2>3 DEF OnTheWay
  <2> QED
    BY <1>0, <2>1, <2>2, <2>3, <2>4 DEF ArrivesOnce
<1>5. CASE SerialProtocolAck
  <2>1. /\ HandingOn = {sAck.cmd} /\ HandingOn' = {}
        /\ rx' = rx /\ sAck \in Ack /\ UNCHANGED <<calls, returned>>
    BY <1>5 DEF SerialProtocolAck, HandingOn, deviceVars, appVars, TypeOK, AnyAck
  <2>2. sAck.cmd \in OnTheWay
    BY <2>1 DEF OnTheWay
  <2>3. Distinct(pAcks)' /\ CommandsOf(pAcks)' \subseteq CommandsOf(pAcks) \cup {sAck.cmd}
    <3>1. CASE pAcks' = pAcks
      BY <3>1 DEF ArrivesOnce, Distinct, CommandsOf
    <3>2. CASE pAcks' \in Prepended(pAcks, sAck, InCall("remove"))
      <4> DEFINE racing == InCall("remove")
      <4>1. racing \in BOOLEAN
        BY DEF InCall
      <4>2. sAck.cmd \notin CommandsOf(pAcks)
        BY <2>2 DEF ArrivesOnce
      <4> HIDE DEF racing
      <4>3. \A new \in Prepended(pAcks, sAck, racing) :
              Distinct(new) /\ CommandsOf(new) \subseteq CommandsOf(pAcks) \cup {sAck.cmd}
        BY <2>1, <4>1, <4>2, PrependDistinct DEF TypeOK, ArrivesOnce
      <4> QED
        BY <3>2, <4>3 DEF racing, Distinct, CommandsOf
    <3> QED
      BY <1>5, <3>1, <3>2 DEF SerialProtocolAck
  <2>4. CommandsOf(rx)' = CommandsOf(rx) /\ Distinct(rx)' = Distinct(rx) /\ PickedUp' = PickedUp
    BY <2>1 DEF CommandsOf, Distinct, PickedUp, Successes
  <2>5. OnTheWay' = CommandsOf(rx) /\ sAck.cmd \notin CommandsOf(rx)
    BY <2>1, <2>4 DEF OnTheWay, ArrivesOnce
  <2> QED
    BY <2>1, <2>3, <2>4, <2>5 DEF ArrivesOnce, OnTheWay
<1>6. ASSUME NEW n \in dev, NEW r \in Results, DeviceAnswer(n, r) PROVE ArrivesOnce'
  <2> DEFINE a == [id |-> issued[n].id, result |-> r, cmd |-> n]
             new == Append(rx, a)
  <2>1. UNCHANGED <<HandingOn, pAcks, calls, returned>> /\ (rx' = new \/ rx' = rx)
    BY <1>6 DEF DeviceAnswer, HandingOn, serialVars, appVars
  <2>9. CASE rx' = rx
    BY <1>2, <2>1, <2>9
  <2> SUFFICES ASSUME rx' = new PROVE ArrivesOnce'
    BY <2>1, <2>9
  <2>2. rx \in Seq(Ack) /\ Len(rx) \in Nat /\ DOMAIN rx = 1 .. Len(rx)
    BY LenProperties DEF TypeOK
  <2>3. /\ DOMAIN new = 1 .. Len(rx) + 1
        /\ \A i \in DOMAIN rx : new[i] = rx[i]
        /\ new[Len(rx) + 1].cmd = n
    BY <2>2
  <2> HIDE DEF new
  <2>4. n \notin CommandsOf(rx) /\ n \notin HandingOn /\ n \notin CommandsOf(pAcks) /\ n \notin PickedUp
    BY HostAcksAnswered
  <2>5. CommandsOf(new) = CommandsOf(rx) \cup {n}
    BY <2>2, <2>3 DEF CommandsOf
  <2>6. Distinct(new)
    BY <2>2, <2>3, <2>4 DEF Distinct, CommandsOf, ArrivesOnce
  <2>7. /\ CommandsOf(rx)' = CommandsOf(new) /\ Distinct(rx)' = Distinct(new)
        /\ CommandsOf(pAcks)' = CommandsOf(pAcks) /\ Distinct(pAcks)' = Distinct(pAcks)
        /\ PickedUp' = PickedUp
    BY <2>1 DEF CommandsOf, Distinct, PickedUp, Successes
  <2>8. OnTheWay' = OnTheWay \cup {n}
    BY <2>1, <2>5, <2>7 DEF OnTheWay
  <2> QED
    BY <2>1, <2>4, <2>5, <2>6, <2>7, <2>8 DEF ArrivesOnce
<1>7. ASSUME NEW wait \in BOOLEAN, SendPacket(wait) PROVE ArrivesOnce'
  BY <1>2, <1>7 DEF SendPacket, deviceVars, serialVars, HandingOn
<1>8. CASE AppPoll \/ AppTimeout \/ OpenPort
  BY <1>2, <1>8 DEF AppPoll, AppTimeout, OpenPort, deviceVars, serialVars, HandingOn
<1>9. CASE WorkerStep
  BY <1>2, <1>9 DEF WorkerStep, WorkerSend, WorkerPoll, WorkerTimeout, WorkerReturn,
                    WorkerFinish, deviceVars, serialVars, HandingOn
<1>10. CASE SerialTransmit \/ SerialWorkerAck
  BY <1>2, <1>10 DEF SerialTransmit, SerialWorkerAck, deviceVars, HandingOn
<1>11. CASE UNCHANGED vars
  BY <1>2, <1>11 DEF vars, deviceVars, serialVars, HandingOn
<1>12. CASE rx' = << >> /\ UNCHANGED <<HandingOn, pAcks>>
  <2>1. CommandsOf(rx)' = {} /\ Distinct(rx)'
    BY <1>12, EmptySeq DEF CommandsOf, Distinct
  <2>2. Distinct(pAcks)' = Distinct(pAcks) /\ CommandsOf(pAcks)' = CommandsOf(pAcks)
    BY <1>12 DEF Distinct, CommandsOf
  <2>3. HandingOn' = HandingOn /\ OnTheWay' \subseteq OnTheWay
    BY <1>12, <2>1 DEF OnTheWay
  <2> QED
    BY <1>0, <2>1, <2>2, <2>3 DEF ArrivesOnce
<1>13. CASE Close \/ Destroy \/ EndReset
  BY <1>12, <1>13 DEF Close, Destroy, JoinSerial, EndReset, HandingOn
<1> QED
  BY <1>3, <1>4, <1>5, <1>6, <1>7, <1>8, <1>9, <1>10, <1>11, <1>13
     DEF Next, AppStep, SerialStep
----------------------------------------------------------------------------
(***************************************************************************)
(* What removeOne() takes out is the caller's own ACK, so that it is gone. *)
(***************************************************************************)

\* As long as the ids last, an ACK in the list for a command is the first one that
\* QkAck::operator== takes for the one a call has found for that command.
LEMMA OwnIsFirstEqual ==
  ASSUME TypeOK, CountedIds, AckInv, AnsweredOnce, Distinct(pAcks),
         NEW a \in GenuineAck, NEW j \in DOMAIN pAcks, pAcks[j].cmd = a.cmd
  PROVE  j \in FirstEqual(pAcks, a)
<1>0. pAcks \in Seq(GenuineAck) /\ DOMAIN pAcks = 1 .. Len(pAcks) /\ Len(pAcks) \in Nat
  BY LenProperties DEF AckInv
<1>1. \A i \in DOMAIN pAcks : pAcks[i] \in GenuineAck
  BY <1>0, ElementOfSeq
<1>2. SameAck(pAcks[j], a)
  <2>1. <<a.cmd, pAcks[j].result>> \in answered /\ <<a.cmd, a.result>> \in answered
    BY <1>1 DEF GenuineAck
  <2>2. <<a.cmd, pAcks[j].result>> = <<a.cmd, a.result>>
    BY <2>1 DEF AnsweredOnce
  <2> QED
    BY <1>1, <2>2 DEF GenuineAck, SameAck
<1>3. ASSUME NEW k \in 1 .. (j - 1) PROVE ~ SameAck(pAcks[k], a)
  <2>1. k \in DOMAIN pAcks /\ k # j
    BY <1>0
  <2>2. pAcks[k].cmd # a.cmd
    BY <2>1 DEF Distinct
  <2> QED
    BY <1>1, <2>1, <2>2 DEF GenuineAck, CountedIds, SameAck
<1> QED
  BY <1>2, <1>3 DEF FirstEqual

\* Every step keeps the ACKs of the calls that have succeeded out of the list.
LEMMA AckConsumedStep ==
  ASSUME TypeOK, TypeOK', CountedIds, AckInv, AnsweredOnce, ArrivesOnce, AckConsumed,
         [Next]_vars
  PROVE  AckConsumed'
<1>1. CASE UNCHANGED <<pAcks, kept>> /\ Successes' = Successes
  BY <1>1 DEF AckConsumed
<1>2. ASSUME NEW wait \in BOOLEAN, SendPacket(wait) PROVE AckConsumed'
  <2>1. Successes' = Successes
    BY <1>2 DEF SendPacket, Successes, NoAck
  <2> QED
    BY <1>1, <1>2, <2>1 DEF SendPacket
<1>3. CASE SerialProtocolAck
  <2>1. /\ UNCHANGED <<kept, returned>> /\ sAck \in Ack /\ sAck.cmd \in OnTheWay
        /\ pAcks' = pAcks \/ pAcks' \in Prepended(pAcks, sAck, InCall("remove"))
    BY <1>3 DEF SerialProtocolAck, appVars, TypeOK, AnyAck, OnTheWay, HandingOn
  <2>2. Successes' = Successes /\ sAck.cmd \notin PickedUp /\ sAck.cmd \notin CommandsOf(pAcks)
    BY <2>1 DEF Successes, ArrivesOnce
  <2>3. CASE pAcks' = pAcks
    BY <1>1, <2>1, <2>2, <2>3
  <2>4. CASE pAcks' \in Prepended(pAcks, sAck, InCall("remove"))
    <3> DEFINE racing == InCall("remove")
    <3>1. racing \in BOOLEAN
      BY DEF InCall
    <3> HIDE DEF racing
    <3>2. \A new \in Prepended(pAcks, sAck, racing) :
            CommandsOf(new) \subseteq CommandsOf(pAcks) \cup {sAck.cmd}
      BY <2>1, <2>2, <3>1, PrependDistinct DEF TypeOK, ArrivesOnce
    <3>3. \A i \in DOMAIN pAcks' : pAcks'[i].cmd \in CommandsOf(pAcks) \cup {sAck.cmd}
      BY <2>4, <3>2 DEF racing, CommandsOf
    <3>4. \A x \in Successes : x.ack.cmd # sAck.cmd
      BY <2>2 DEF PickedUp
    <3> QED
      BY <2>1, <2>2, <3>3, <3>4 DEF AckConsumed, CommandsOf
  <2> QED
    BY <2>1, <2>3, <2>4
<1>4. CASE AppReturn
  <2> DEFINE y == [call |-> Top.cmd, ack |-> Top.ack]
  <2>1. /\ Top \in PendingCall /\ Top \in GoodCall /\ returned' = returned \cup {y}
        /\ y.ack = Top.ack
    <3>1. /\ Len(calls) \in DOMAIN calls /\ Top = calls[Len(calls)]
          /\ returned' = returned \cup {y} /\ y.ack = Top.ack
      BY <1>4, EmptySeq, LenProperties DEF AppReturn, InCall, Top, TypeOK
    <3>2. calls \in Seq(GoodCall)
      BY DEF AckInv
    <3> QED
      BY <3>1, <3>2, ElementOfSeq, LenProperties DEF GoodCall
  <2> HIDE DEF y
  <2>2. Successes' \subseteq Successes \cup {y} /\ (y \in Successes' => Top.ack # NoAck)
    BY <2>1 DEF Successes, NoAck
  <2>3. PICK t \in RemovalTargets(Top.ack) : pAcks' \in Removed(pAcks, t, sPc = "protocol")
    BY <1>4 DEF AppReturn
  <2>4. \/ pAcks' = RemoveOne(pAcks, t)
        \/ pAcks' = pAcks /\ sPc = "protocol"
    BY <2>3 DEF Removed
  <2>5. kept \subseteq kept'
    BY <1>4 DEF AppReturn
  <2>6. pAcks' = RemoveOne(pAcks, t) =>
          \A k \in DOMAIN pAcks' : \E i \in DOMAIN pAcks \ FirstEqual(pAcks, t) : pAcks'[k] = pAcks[i]
    BY RemoveOneLeaves DEF TypeOK, ArrivesOnce
  <2>7. \A k \in DOMAIN pAcks' : \E i \in DOMAIN pAcks : pAcks'[k] = pAcks[i]
    BY <2>4, <2>6
  <2>8. ASSUME NEW x \in Successes
        PROVE  x.ack.cmd \in kept' \/ \A k \in DOMAIN pAcks' : pAcks'[k].cmd # x.ack.cmd
    BY <2>5, <2>7 DEF AckConsumed
  <2>9. ASSUME Top.ack # NoAck
        PROVE  Top.ack.cmd \in kept' \/ \A k \in DOMAIN pAcks' : pAcks'[k].cmd # Top.ack.cmd
    <3>1. t = Top.ack /\ Top.ack \in GenuineAck
      BY <2>1, <2>9 DEF RemovalTargets, GoodCall, Holds
    <3>2. CASE pAcks' = pAcks /\ sPc = "protocol"
      BY <1>4, <2>9, <3>2 DEF AppReturn
    <3>3. CASE pAcks' = RemoveOne(pAcks, t)
      <4>1. \A i \in DOMAIN pAcks \ FirstEqual(pAcks, t) : pAcks[i].cmd # Top.ack.cmd
        BY <3>1, OwnIsFirstEqual DEF ArrivesOnce
      <4> QED
        BY <2>6, <3>3, <4>1
    <3> QED
      BY <2>4, <3>2, <3>3
  <2>10. ASSUME NEW x \in Successes'
         PROVE  x.ack.cmd \in kept' \/ \A k \in DOMAIN pAcks' : pAcks'[k].cmd # x.ack.cmd
    BY <2>1, <2>2, <2>8, <2>9
  <2> QED
    BY <2>10 DEF AckConsumed
<1>5. CASE AppPoll \/ AppTimeout \/ Close \/ Destroy \/ OpenPort \/ EndReset
  BY <1>1, <1>5 DEF AppPoll, AppTimeout, Close, Destroy, OpenPort, EndReset, appVars,
                    Successes
<1>6. CASE WorkerStep
  BY <1>1, <1>6 DEF WorkerStep, WorkerSend, WorkerPoll, WorkerTimeout, WorkerReturn,
                    WorkerFinish, appVars, Successes
<1>7. CASE SerialTransmit \/ SerialReceive \/ SerialWorkerAck
  BY <1>1, <1>7 DEF SerialTransmit, SerialReceive, SerialWorkerAck, appVars, Successes
<1>8. ASSUME NEW n \in dev, NEW r \in Results, DeviceAnswer(n, r) PROVE AckConsumed'
  BY <1>1, <1>8 DEF DeviceAnswer, appVars, Successes
<1>9. CASE UNCHANGED vars
  BY <1>1, <1>9 DEF vars, appVars, Successes
<1> QED
  BY <1>2, <1>3, <1>4, <1>5, <1>6, <1>7, <1>8, <1>9 DEF Next, AppStep, SerialStep

\* As long as the ids last, the ACK that ended a call is out of m_acks for good: it
\* neither stays behind the removal nor comes again, unless the unlocked prepend of
\* the serial thread undid the removal.
THEOREM AcksAreConsumed ==
  ASSUME MaxSends < IdSpace
  PROVE  Spec => []AckConsumed
<1> DEFINE UsedInv == CountedIds /\ AnsweredOnce /\ ArrivesOnce /\ AckConsumed
<1>1. Init => UsedInv
  BY BoundsAssumption, EmptySeq
     DEF Init, CountedIds, Commands, AnsweredOnce, ArrivesOnce, AckConsumed, Distinct,
         CommandsOf, OnTheWay, HandingOn, PickedUp, Successes
<1>2. TypeOK /\ TypeOK' /\ FifoLine /\ AckInv /\ UsedInv /\ [Next]_vars => UsedInv'
  BY CountedStep, AnsweredOnceStep, ArrivesOnceStep, AckConsumedStep
<1>3. UsedInv => AckConsumed
  OBVIOUS
<1> HIDE DEF UsedInv
<1> QED
  BY <1>1, <1>2, <1>3, TypeCorrect, CommandsStayInOrder, AcksAreGenuine, PTL DEF Spec
=============================================================================
