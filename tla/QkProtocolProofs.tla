-------------------------- MODULE QkProtocolProofs --------------------------
(***************************************************************************)
(* Proofs about QkProtocol, for every number of ids, calls and nested      *)
(* calls, and for every set of results a device may answer with.           *)
(***************************************************************************)
EXTENDS QkProtocol, SequenceTheorems, TLAPS

----------------------------------------------------------------------------
(***************************************************************************)
(* Lemmas about the operators of the model.                                *)
(***************************************************************************)

\* QkPacket::requestId() stays within the ids.
LEMMA RequestIdType ==
  ASSUME NEW i \in Ids
  PROVE  RequestId(i) \in Ids
BY IdSpaceAssumption DEF RequestId, Ids

\* As long as the ids last, requestId() counts.
LEMMA RequestIdCounts ==
  ASSUME NEW i \in Nat, i + 1 < IdSpace
  PROVE  RequestId(i) = i + 1
BY IdSpaceAssumption DEF RequestId

\* A part of a sequence is a sequence of the same kind of elements.
LEMMA CutType ==
  ASSUME NEW S, NEW s \in Seq(S),
         NEW m \in Nat \ {0}, NEW n \in Int, n <= Len(s)
  PROVE  SubSeq(s, m, n) \in Seq(S)
<1>1. \A i \in m .. n : s[i] \in S
  BY ElementOfSeq, LenProperties
<1> QED
  BY <1>1, SubSeqProperties

\* QList::removeOne() brings in no element: what is left was there before.
LEMMA RemoveOneType ==
  ASSUME NEW S, NEW acks \in Seq(S), NEW a
  PROVE  RemoveOne(acks, a) \in Seq(S)
<1>1. CASE FirstEqual(acks, a) = {}
  BY <1>1 DEF RemoveOne
<1>2. CASE FirstEqual(acks, a) # {}
  <2> DEFINE i == CHOOSE i \in FirstEqual(acks, a) : TRUE
  <2>1. i \in 1 .. Len(acks)
    BY <1>2 DEF FirstEqual
  <2>2. RemoveOne(acks, a) = SubSeq(acks, 1, i - 1) \o SubSeq(acks, i + 1, Len(acks))
    BY <1>2 DEF RemoveOne
  <2> HIDE DEF i
  <2>3. SubSeq(acks, 1, i - 1) \in Seq(S)
    BY <2>1, CutType
  <2>4. SubSeq(acks, i + 1, Len(acks)) \in Seq(S)
    BY <2>1, CutType
  <2> QED
    BY <2>2, <2>3, <2>4, ConcatProperties
<1> QED
  BY <1>1, <1>2

\* The two ways in which the list of ACKs changes keep the kind of its elements.
LEMMA RemovedType ==
  ASSUME NEW S, NEW acks \in Seq(S), NEW a, NEW racing \in BOOLEAN,
         NEW new \in Removed(acks, a, racing)
  PROVE  new \in Seq(S)
BY RemoveOneType DEF Removed

\* A prepend, also one that is lost, leaves a list of ACKs.
LEMMA PrependedType ==
  ASSUME NEW S, NEW acks \in Seq(S), NEW a \in S, NEW racing \in BOOLEAN,
         NEW new \in Prepended(acks, a, racing)
  PROVE  new \in Seq(S)
<1>1. << a >> \o acks \in Seq(S)
  BY ConcatProperties
<1> QED
  BY <1>1 DEF Prepended

\* Appending adds one element and keeps the others.
LEMMA AppendElements ==
  ASSUME NEW S, NEW s \in Seq(S), NEW e \in S
  PROVE  {Append(s, e)[i] : i \in DOMAIN Append(s,
              e)} = {s[i] : i \in DOMAIN s} \cup {e}
<1> DEFINE t == Append(s, e)
<1>1. /\ Len(t) = Len(s) + 1
      /\ \A i \in 1 .. Len(s) : t[i] = s[i]
      /\ t[Len(s) + 1] = e
      /\ Len(s) \in Nat
      /\ DOMAIN s = 1 .. Len(s)
      /\ DOMAIN t = 1 .. Len(t)
  BY AppendProperties, LenProperties
<1> HIDE DEF t
<1>2. DOMAIN t = DOMAIN s \cup {Len(s) + 1}
  BY <1>1
<1>3. {t[i] : i \in DOMAIN t} = {s[i] : i \in DOMAIN s} \cup {e}
  BY <1>1, <1>2
<1> QED
  BY <1>3 DEF t

----------------------------------------------------------------------------
(***************************************************************************)
(* Type correctness.                                                       *)
(***************************************************************************)

\* Issuing a command leaves the earlier ones as they are.
LEMMA IssueGrows ==
  ASSUME NEW s \in Seq(Packet), NEW p \in Packet
  PROVE  /\ Append(s, p) \in Seq(Packet)
         /\ Len(Append(s, p)) = Len(s) + 1
         /\ \A n \in 1 .. Len(s) : Append(s, p)[n] = s[n]
         /\ Append(s, p)[Len(s) + 1] = p
BY DEF Packet

\* The initial state of every part is of its type.
LEMMA TypeInit == Init => TypeOK
<1> SUFFICES ASSUME Init PROVE TypeOK
  OBVIOUS
<1>1. nextId \in Ids
  BY IdSpaceAssumption DEF Init, Ids
<1>2. \A S : << >> \in Seq(S)
  BY EmptySeq
<1> QED
  BY <1>1, <1>2 DEF Init, TypeOK, AnyAck

\* sendPacket() keeps the types: all that was about a command still is.
LEMMA TypeSendPacket ==
  ASSUME TypeOK, NEW wait \in BOOLEAN, SendPacket(wait)
  PROVE  TypeOK'
<1> DEFINE n == Len(issued) + 1
           p == [id |-> nextId', wait |-> wait]
<1>1. nextId' \in Ids
  BY RequestIdType DEF TypeOK, SendPacket
<1>2. p \in Packet /\ issued' = Append(issued, p) /\ issued' \in Seq(Packet)
  BY <1>1, IssueGrows DEF TypeOK, SendPacket, Packet
<1>3. Commands \subseteq Commands' /\ n \in Commands' /\ n \in Nat
  BY <1>2, IssueGrows DEF TypeOK, Commands
<1>4. PendingCall \subseteq PendingCall' /\ FinishedCall \subseteq FinishedCall'
  BY <1>3 DEF PendingCall, FinishedCall, AnyAck, Ack, Ids
<1>5. outQ' \in Seq(Commands')
  BY <1>3, SeqMonotonic DEF TypeOK, SendPacket, Enqueue
<1>6. calls' \in Seq(PendingCall')
  <2>1. calls \in Seq(PendingCall')
    BY <1>4, SeqMonotonic DEF TypeOK
  <2>2. [cmd |-> n, pc |-> "exec", ack |-> NoAck] \in PendingCall'
    BY <1>3 DEF PendingCall, AnyAck
  <2> QED
    BY <2>1, <2>2 DEF SendPacket
<1>7. returned' \subseteq FinishedCall'
  BY <1>3, <1>4 DEF TypeOK, SendPacket, FinishedCall, AnyAck
<1>8. frames' \in Seq(Commands') /\ sent' \in Seq(Commands')
  BY <1>3, SeqMonotonic DEF TypeOK, SendPacket, serialVars
<1>9. answered' \subseteq Commands' \X Results
  BY <1>3 DEF TypeOK, SendPacket, deviceVars
<1> QED
  BY <1>1, <1>2, <1>3, <1>5, <1>6, <1>7, <1>8, <1>9
     DEF TypeOK, SendPacket, workerVars, serialVars, portVars, deviceVars, AnyAck, Ack,
         Ids

\* What the search of waitForACK() finds is an element of the list.
LEMMA FirstForType ==
  ASSUME NEW S, NEW acks \in Seq(S), NEW id, NEW i \in FirstFor(id, acks)
  PROVE  acks[i] \in S
BY ElementOfSeq, LenProperties DEF FirstFor

\* The innermost call is one of the calls; changing or ending it leaves calls.
LEMMA TopType ==
  ASSUME NEW S, calls \in Seq(S), calls # << >>
  PROVE  /\ Top \in S
         /\ \A c \in S : SetTop(c) \in Seq(S)
         /\ SubSeq(calls, 1, Len(calls) - 1) \in Seq(S)
<1>1. Len(calls) \in 1 .. Len(calls)
  BY EmptySeq, LenProperties
<1>2. Top \in S
  BY <1>1, ElementOfSeq DEF Top
<1>3. \A c \in S : SetTop(c) \in Seq(S)
  BY <1>1, ExceptSeq DEF SetTop
<1> QED
  BY <1>1, <1>2, <1>3, CutType

\* Every step preserves the types.
LEMMA TypeStep == TypeOK /\ [Next]_vars => TypeOK'
<1> SUFFICES ASSUME TypeOK, [Next]_vars PROVE TypeOK'
  OBVIOUS
<1>1. ASSUME NEW wait \in BOOLEAN, SendPacket(wait) PROVE TypeOK'
  BY <1>1, TypeSendPacket
<1>2. CASE AppPoll
  <2>1. PICK i \in FirstFor(issued[Top.cmd].id, pAcks) :
          calls' = SetTop([Top EXCEPT !.ack = pAcks[i],
                                      !.pc = IF pAcks[i].result = ACK_NACK
                                             THEN "exec" ELSE "remove"])
    BY <1>2 DEF AppPoll
  <2>2. pAcks[i] \in Ack
    BY FirstForType DEF TypeOK
  <2>3. calls' \in Seq(PendingCall)
    BY <1>2, <2>1, <2>2, TopType DEF TypeOK, AppPoll, InCall, PendingCall, AnyAck
  <2> QED
    BY <1>2, <2>3 DEF AppPoll, TypeOK, workerVars, serialVars, portVars, deviceVars,
                      Commands, PendingCall, FinishedCall
<1>3. CASE AppTimeout
  <2>1. calls' \in Seq(PendingCall)
    BY <1>3, TopType DEF TypeOK, AppTimeout, InCall, PendingCall
  <2> QED
    BY <1>3, <2>1 DEF AppTimeout, TypeOK, workerVars, serialVars, portVars, deviceVars,
                      Commands, PendingCall, FinishedCall
<1>4. CASE AppReturn
  <2>1. Top \in PendingCall /\ calls' \in Seq(PendingCall)
    BY <1>4, TopType DEF TypeOK, AppReturn, InCall
  <2>2. pAcks' \in Seq(Ack)
    BY <1>4, RemovedType DEF TypeOK, AppReturn
  <2>3. returned' \subseteq FinishedCall
    BY <1>4, <2>1 DEF TypeOK, AppReturn, PendingCall, FinishedCall
  <2>4. kept' \subseteq Nat
    BY <1>4, <2>1 DEF TypeOK, AppReturn, PendingCall, AnyAck, Ack, NoAck
  <2> QED
    BY <1>4, <2>1, <2>2, <2>3, <2>4
       DEF AppReturn, TypeOK, workerVars, serialVars, portVars, deviceVars,
           Commands, PendingCall, FinishedCall
<1>5. CASE Destroy
  <2>1. rx' \in Seq(Ack)
    BY <1>5, EmptySeq DEF Destroy, JoinSerial
  <2> QED
    BY <1>5, <2>1 DEF Destroy, JoinSerial, TypeOK, appVars, workerVars,
                      Commands, PendingCall, FinishedCall
<1>6. CASE WorkerSend
  <2>1. /\ Head(outQ) \in Commands
        /\ outQ' \in Seq(Commands)
        /\ frames' \in Seq(Commands)
    BY <1>6, HeadTailProperties DEF TypeOK, WorkerSend, Enqueue
  <2> QED
    BY <1>6, <2>1 DEF WorkerSend, AfterSend, TypeOK, AnyAck, appVars, serialVars,
                      portVars,
                      deviceVars, Commands, PendingCall, FinishedCall
<1>7. CASE WorkerPoll
  <2>1. wAck' \in AnyAck /\ wPc' \in {"waiting", "remove"}
    BY <1>7, FirstForType DEF TypeOK, WorkerPoll, AnyAck
  <2> QED
    BY <1>7, <2>1 DEF WorkerPoll, TypeOK, appVars, serialVars, portVars, deviceVars,
                      Commands, PendingCall, FinishedCall
<1>8. CASE WorkerTimeout
  <2>1. wAck' \in AnyAck
    BY <1>8, FirstForType DEF TypeOK, WorkerTimeout, AnyAck
  <2> QED
    BY <1>8, <2>1 DEF WorkerTimeout, TypeOK, appVars, serialVars, portVars, deviceVars,
                      Commands, PendingCall, FinishedCall
<1>9. CASE WorkerReturn
  <2>1. wAcks' \in Seq(Ack)
    BY <1>9, RemovedType DEF TypeOK, WorkerReturn
  <2> QED
    BY <1>9, <2>1 DEF WorkerReturn, TypeOK, appVars, serialVars, portVars, deviceVars,
                      Commands, PendingCall, FinishedCall
<1>10. CASE WorkerFinish
  BY <1>10 DEF WorkerFinish, TypeOK, appVars, serialVars, portVars, deviceVars,
               Commands, PendingCall, FinishedCall
<1>11. CASE SerialTransmit
  <2>1. /\ Head(frames) \in Commands
        /\ frames' \in Seq(Commands)
        /\ sent' \in Seq(Commands)
    BY <1>11, HeadTailProperties DEF TypeOK, SerialTransmit
  <2> QED
    BY <1>11, <2>1 DEF SerialTransmit, TypeOK, appVars, workerVars, portVars,
                       Commands, PendingCall, FinishedCall
<1>12. CASE SerialReceive
  <2>1. Head(rx) \in Ack /\ rx' \in Seq(Ack)
    BY <1>12, HeadTailProperties DEF TypeOK, SerialReceive
  <2>2. sAck' \in Ack /\ sAck' # NoAck
    BY <1>12, <2>1 DEF SerialReceive, Ack, NoAck, Ids
  <2> QED
    BY <1>12, <2>1, <2>2 DEF SerialReceive, TypeOK, AnyAck, appVars, workerVars,
                             portVars,
                             Commands, PendingCall, FinishedCall
<1>13. CASE SerialWorkerAck
  <2>1. wAcks' \in Seq(Ack)
    BY <1>13, PrependedType DEF TypeOK, SerialWorkerAck, AnyAck
  <2> QED
    BY <1>13, <2>1 DEF SerialWorkerAck, TypeOK, appVars, workerVars, deviceVars,
                       portVars,
                       Commands, PendingCall, FinishedCall
<1>14. CASE SerialProtocolAck
  <2>1. pAcks' \in Seq(Ack)
    BY <1>14, PrependedType DEF TypeOK, SerialProtocolAck, AnyAck, InCall
  <2> QED
    BY <1>14, <2>1 DEF SerialProtocolAck, TypeOK, appVars, workerVars, deviceVars,
                       portVars,
                       Commands, PendingCall, FinishedCall
<1>15. ASSUME NEW n \in dev, NEW r \in Results, DeviceAnswer(n, r) PROVE TypeOK'
  <2>a. n \in Commands
    BY <1>15 DEF TypeOK
  <2>b. issued[n] \in Packet
    BY <2>a, ElementOfSeq DEF TypeOK, Commands
  <2>1. n \in Commands /\ issued[n].id \in Ids
    BY <2>a, <2>b DEF Packet
  <2>2. [id |-> issued[n].id, result |-> r, cmd |-> n] \in Ack
    BY <2>1, ResultsAssumption DEF Ack, Commands
  <2>3. rx' \in Seq(Ack)
    BY <1>15, <2>2 DEF TypeOK, DeviceAnswer
  <2> QED
    BY <1>15, <2>1, <2>3 DEF DeviceAnswer, TypeOK, appVars, workerVars, serialVars,
                             portVars,
                             Commands, PendingCall, FinishedCall
<1>16. CASE Close
  <2>1. rx' \in Seq(Ack)
    BY <1>16, EmptySeq DEF Close, JoinSerial
  <2> QED
    BY <1>16, <2>1 DEF Close, JoinSerial, TypeOK, appVars, workerVars,
                       Commands, PendingCall, FinishedCall
<1>17. CASE OpenPort
  BY <1>17 DEF OpenPort, Loop, TypeOK, appVars, workerVars, deviceVars,
               Commands, PendingCall, FinishedCall
<1>18. CASE EndReset
  <2>1. rx' \in Seq(Ack)
    BY <1>18, EmptySeq DEF EndReset
  <2> QED
    BY <1>18, <2>1 DEF EndReset, Loop, TypeOK, appVars, workerVars,
                       Commands, PendingCall, FinishedCall
<1>19. CASE UNCHANGED vars
  BY <1>19 DEF vars, TypeOK, appVars, workerVars, serialVars, portVars, deviceVars,
               Commands, PendingCall, FinishedCall
<1> QED
  BY <1>1, <1>2, <1>3, <1>4, <1>5, <1>6, <1>7, <1>8, <1>9, <1>10, <1>11,
     <1>12, <1>13, <1>14, <1>15, <1>16, <1>17, <1>18, <1>19
     DEF Next, AppStep, WorkerStep, SerialStep

\* QkProtocol keeps its types: whatever the threads and the device do, ids are
\* those requestId() produces and queues, calls and answers name issued commands.
THEOREM TypeCorrect == Spec => []TypeOK
BY TypeInit, TypeStep, PTL DEF Spec

----------------------------------------------------------------------------
(***************************************************************************)
(* No ACK is invented: AckInv is inductive relative to the types.          *)
(***************************************************************************)

\* What AckInv says of a state carries over to the next one when commands,
\* answers and transmissions only grow.
AckGrowth ==
  /\ Commands \subseteq Commands'
  /\ \A n \in Commands : issued'[n].id = issued[n].id
  /\ answered \subseteq answered'
  /\ Transmitted \subseteq Transmitted'

\* Growth keeps what is genuine genuine.
LEMMA GoodGrows ==
  ASSUME AckGrowth
  PROVE  /\ GenuineAck \subseteq GenuineAck'
         /\ \A S : S \in Seq(GenuineAck) => S \in Seq(GenuineAck')
         /\ GoodCall \subseteq GoodCall'
         /\ \A S : S \in Seq(GoodCall) => S \in Seq(GoodCall')
         /\ GoodReturn \subseteq GoodReturn'
<1>1. GenuineAck \subseteq GenuineAck'
  BY DEF AckGrowth, GenuineAck, Ack, Ids
<1>2. PendingCall \subseteq PendingCall' /\ FinishedCall \subseteq FinishedCall'
  BY DEF AckGrowth, PendingCall, FinishedCall, AnyAck, Ack, Ids
<1>3. \A n \in Commands : \A a : Holds(n, a) => Holds(n, a)'
  BY <1>1 DEF AckGrowth, Holds
<1>4. GoodCall \subseteq GoodCall'
  BY <1>2, <1>3 DEF GoodCall, PendingCall
<1>5. GoodReturn \subseteq GoodReturn'
  BY <1>2, <1>3 DEF GoodReturn, FinishedCall
<1> QED
  BY <1>1, <1>4, <1>5, SeqMonotonic

\* Putting a frame on the line adds it to what was transmitted.
LEMMA TransmitGrows ==
  ASSUME TypeOK, SerialTransmit
  PROVE  Transmitted' = Transmitted \cup {Head(frames)}
<1> DEFINE h == Head(frames)
           s == Append(sent, h)
<1>1. h \in Commands /\ sent \in Seq(Commands) /\ sent' = s
  BY HeadTailProperties DEF TypeOK, SerialTransmit
<1>2. Transmitted' = {s[i] : i \in DOMAIN s}
  BY <1>1 DEF Transmitted
<1> HIDE DEF h
<1>3. {s[i] : i \in DOMAIN s} = {sent[i] : i \in DOMAIN sent} \cup {h}
  BY <1>1, AppendElements
<1> QED
  BY <1>2, <1>3 DEF Transmitted, h

\* In every step commands, answers and transmissions only grow.
LEMMA GrowthStep == TypeOK /\ TypeOK' /\ [Next]_vars => AckGrowth
<1> SUFFICES ASSUME TypeOK, TypeOK', [Next]_vars PROVE AckGrowth
  OBVIOUS
<1>1. /\ Commands \subseteq Commands'
      /\ \A n \in Commands : issued'[n].id = issued[n].id
  <2>1. CASE issued' = issued
    BY <2>1 DEF Commands
  <2>2. ASSUME NEW wait \in BOOLEAN, SendPacket(wait)
        PROVE  <1>1
    <3>1. [id |-> nextId', wait |-> wait] \in Packet
      BY DEF TypeOK, Packet
    <3> QED
      BY <2>2, <3>1, IssueGrows DEF SendPacket, TypeOK, Commands
  <2> QED
    BY <2>1, <2>2
       DEF Next, AppStep, WorkerStep, SerialStep, AppPoll, AppTimeout, AppReturn,
           Close, Destroy, OpenPort, EndReset, WorkerSend, WorkerPoll, WorkerTimeout,
           WorkerReturn,
           WorkerFinish,
           SerialTransmit, SerialReceive, SerialWorkerAck, SerialProtocolAck,
           DeviceAnswer, appVars, vars
<1>2. answered \subseteq answered'
  BY DEF Next, AppStep, WorkerStep, SerialStep, SendPacket, AppPoll, AppTimeout,
         AppReturn, Close, Destroy, OpenPort, EndReset, WorkerSend, WorkerPoll,
         WorkerTimeout, WorkerReturn,
         WorkerFinish, SerialTransmit, SerialReceive, SerialWorkerAck,
         SerialProtocolAck, DeviceAnswer, deviceVars, vars
<1>3. Transmitted \subseteq Transmitted'
  <2>1. CASE sent' = sent
    BY <2>1 DEF Transmitted
  <2>2. CASE SerialTransmit
    BY <2>2, TransmitGrows
  <2> QED
    BY <2>1, <2>2
       DEF Next, AppStep, WorkerStep, SerialStep, SendPacket, AppPoll, AppTimeout,
           AppReturn, Close, Destroy, OpenPort, EndReset, WorkerSend, WorkerPoll,
           WorkerTimeout, WorkerReturn,
           WorkerFinish, SerialReceive, SerialWorkerAck, SerialProtocolAck,
           DeviceAnswer, serialVars, vars
<1> QED
  BY <1>1, <1>2, <1>3 DEF AckGrowth

\* At the start there is no ACK anywhere.
LEMMA AckInit == Init => AckInv
<1>1. \A S : << >> \in Seq(S)
  BY EmptySeq
<1> QED
  BY <1>1 DEF Init, AckInv

\* Every step keeps AckInv.
LEMMA AckStep == TypeOK /\ AckInv /\ TypeOK' /\ [Next]_vars => AckInv'
<1> SUFFICES ASSUME TypeOK, AckInv, TypeOK', [Next]_vars PROVE AckInv'
  OBVIOUS
<1> USE DEF AckInv
<1>0. /\ GenuineAck \subseteq GenuineAck'
      /\ GoodCall \subseteq GoodCall'
      /\ GoodReturn \subseteq GoodReturn'
      /\ Transmitted \subseteq Transmitted'
      /\ rx \in Seq(GenuineAck')
      /\ wAcks \in Seq(GenuineAck')
      /\ pAcks \in Seq(GenuineAck')
      /\ calls \in Seq(GoodCall')
  BY GrowthStep, GoodGrows DEF AckGrowth
<1>1. ASSUME NEW wait \in BOOLEAN, SendPacket(wait) PROVE AckInv'
  <2> DEFINE n == Len(issued) + 1
  <2>1. n \in Commands'
    BY <1>1, IssueGrows DEF TypeOK, SendPacket, Commands, Packet
  <2>2. [cmd |-> n, pc |-> "exec", ack |-> NoAck] \in GoodCall'
    BY <2>1 DEF GoodCall, PendingCall, AnyAck, Holds
  <2>3. calls' \in Seq(GoodCall')
    <3>1. Append(calls, [cmd |-> n, pc |-> "exec", ack |-> NoAck]) \in Seq(GoodCall')
      BY <1>0, <2>2, AppendProperties
    <3> QED
      BY <1>0, <1>1, <3>1 DEF SendPacket
  <2>4. [call |-> n, ack |-> NoAck] \in GoodReturn'
    BY <2>1 DEF GoodReturn, FinishedCall, AnyAck, Holds
  <2>5. returned' \subseteq GoodReturn'
    BY <1>0, <1>1, <2>4 DEF SendPacket
  <2> QED
    BY <1>0, <1>1, <2>3, <2>5 DEF SendPacket, serialVars, deviceVars
<1>2. CASE AppPoll
  <2>1. PICK i \in FirstFor(issued[Top.cmd].id, pAcks) :
          calls' = SetTop([Top EXCEPT !.ack = pAcks[i],
                                      !.pc = IF pAcks[i].result = ACK_NACK
                                             THEN "exec" ELSE "remove"])
    BY <1>2 DEF AppPoll
  <2>2. pAcks[i] \in GenuineAck
    BY FirstForType
  <2>3. pAcks[i].id = issued[Top.cmd].id
    BY DEF FirstFor
  <2>4. calls' \in Seq(GoodCall)
    <3>1. Top \in GoodCall
      BY <1>2, TopType DEF AppPoll, InCall
    <3>2. [Top EXCEPT !.ack = pAcks[i],
                      !.pc = IF pAcks[i].result = ACK_NACK
                             THEN "exec" ELSE "remove"] \in GoodCall
      BY <2>2, <2>3, <3>1 DEF GoodCall, PendingCall, AnyAck, Holds, GenuineAck
    <3> QED
      BY <1>2, <2>1, <3>2, TopType DEF AppPoll, InCall
  <2>5. calls' \in Seq(GoodCall')
    BY <2>4, <1>0, SeqMonotonic
  <2> QED
    BY <1>0, <1>2, <2>5 DEF AppPoll, serialVars, deviceVars
<1>3. CASE AppTimeout
  <2>1. Top \in GoodCall
    BY <1>3, TopType DEF AppTimeout, InCall
  <2>2. [Top EXCEPT !.pc = "remove"] \in GoodCall
    BY <2>1 DEF GoodCall, PendingCall, Holds
  <2>3. calls' \in Seq(GoodCall)
    BY <1>3, <2>2, TopType DEF AppTimeout, InCall
  <2>4. calls' \in Seq(GoodCall')
    BY <2>3, <1>0, SeqMonotonic
  <2> QED
    BY <1>0, <1>3, <2>4 DEF AppTimeout, serialVars, deviceVars
<1>4. CASE AppReturn
  <2>1. Top \in GoodCall /\ calls' \in Seq(GoodCall)
    BY <1>4, TopType DEF AppReturn, InCall
  <2>2. calls' \in Seq(GoodCall')
    BY <2>1, <1>0, SeqMonotonic
  <2>3. pAcks' \in Seq(GenuineAck')
    BY <1>0, <1>4, RemovedType DEF AppReturn
  <2>4. [call |-> Top.cmd, ack |-> Top.ack] \in GoodReturn
    BY <2>1 DEF GoodCall, GoodReturn, PendingCall, FinishedCall
  <2> QED
    BY <1>0, <1>4, <2>2, <2>3, <2>4 DEF AppReturn, serialVars, deviceVars
<1>5. CASE Destroy
  BY <1>0, <1>5, EmptySeq DEF Destroy, JoinSerial, appVars
<1>6. CASE WorkerSend
  BY <1>0, <1>6 DEF WorkerSend, appVars, serialVars, deviceVars
<1>7. CASE WorkerPoll
  BY <1>0, <1>7 DEF WorkerPoll, appVars, serialVars, deviceVars
<1>8. CASE WorkerTimeout
  BY <1>0, <1>8 DEF WorkerTimeout, appVars, serialVars, deviceVars
<1>9. CASE WorkerReturn
  <2>1. wAcks' \in Seq(GenuineAck')
    BY <1>0, <1>9, RemovedType DEF WorkerReturn
  <2> QED
    BY <1>0, <1>9, <2>1 DEF WorkerReturn, appVars, serialVars, deviceVars
<1>10. CASE WorkerFinish
  BY <1>0, <1>10 DEF WorkerFinish, appVars, serialVars, deviceVars
<1>11. CASE SerialTransmit
  <2>1. Head(frames) \in Transmitted'
    BY <1>11, TransmitGrows
  <2> QED
    BY <1>0, <1>11, <2>1 DEF SerialTransmit, appVars
<1>12. CASE SerialReceive
  <2>1. Head(rx) \in GenuineAck' /\ rx' \in Seq(GenuineAck')
    BY <1>0, <1>12, HeadTailProperties DEF SerialReceive
  <2> QED
    BY <1>0, <1>12, <2>1 DEF SerialReceive, appVars
<1>13. CASE SerialWorkerAck
  <2>1. wAcks' \in Seq(GenuineAck')
    BY <1>0, <1>13, PrependedType DEF SerialWorkerAck, TypeOK
  <2> QED
    BY <1>0, <1>13, <2>1 DEF SerialWorkerAck, appVars, deviceVars
<1>14. CASE SerialProtocolAck
  <2>1. pAcks' \in Seq(GenuineAck')
    BY <1>0, <1>14, PrependedType DEF SerialProtocolAck, TypeOK, InCall
  <2> QED
    BY <1>0, <1>14, <2>1 DEF SerialProtocolAck, appVars, deviceVars
<1>15. ASSUME NEW n \in dev, NEW r \in Results, DeviceAnswer(n, r) PROVE AckInv'
  <2> DEFINE a == [id |-> issued[n].id, result |-> r, cmd |-> n]
  <2>1. n \in Commands /\ n \in Transmitted'
    BY <1>0 DEF TypeOK
  <2>2. issued[n] \in Packet
    BY <2>1, ElementOfSeq DEF TypeOK, Commands
  <2>3. a \in Ack
    BY <2>1, <2>2, ResultsAssumption DEF Ack, Packet, Commands
  <2>4. a \in GenuineAck'
    BY <1>15, <2>1, <2>3 DEF GenuineAck, DeviceAnswer, appVars, Commands, Ack, Ids
  <2>5. rx' \in Seq(GenuineAck')
    BY <1>0, <1>15, <2>4 DEF DeviceAnswer
  <2> QED
    BY <1>0, <1>15, <2>5 DEF DeviceAnswer, appVars, serialVars
<1>16. CASE Close
  BY <1>0, <1>16, EmptySeq DEF Close, JoinSerial, appVars
<1>17. CASE OpenPort
  BY <1>0, <1>17 DEF OpenPort, appVars, deviceVars
<1>18. CASE EndReset
  BY <1>0, <1>18, EmptySeq DEF EndReset, appVars
<1>19. CASE UNCHANGED vars
  BY <1>0, <1>19 DEF vars, appVars, serialVars, deviceVars
<1> QED
  BY <1>1, <1>2, <1>3, <1>4, <1>5, <1>6, <1>7, <1>8, <1>9, <1>10, <1>11,
     <1>12, <1>13, <1>14, <1>15, <1>16, <1>17, <1>18, <1>19
     DEF Next, AppStep, WorkerStep, SerialStep

\* No ACK in the host is invented or relabelled: each carries the id of a command
\* that was on the line and a result the device gave to it.
THEOREM AcksAreGenuine == Spec => []AckInv
<1>1. Init => TypeOK /\ AckInv
  BY TypeInit, AckInit
<1>2. (TypeOK /\ AckInv) /\ [Next]_vars => (TypeOK /\ AckInv)'
  BY TypeStep, AckStep
<1> QED
  BY <1>1, <1>2, PTL DEF Spec

\* AckInv says of the returned calls what SameIdAck asks.
LEMMA AckInvImpliesSameIdAck == AckInv => SameIdAck
<1> SUFFICES ASSUME AckInv, NEW x \in Successes
             PROVE  /\ <<x.ack.cmd, x.ack.result>> \in answered
                    /\ \E i \in DOMAIN sent : sent[i] = x.ack.cmd
                    /\ issued[x.ack.cmd].id = issued[x.call].id
  BY DEF SameIdAck
<1>1. x \in GoodReturn /\ x.ack.result # ACK_NACK
  BY DEF AckInv, Successes
<1>2. x.ack # NoAck
  BY <1>1 DEF NoAck
<1> QED
  BY <1>1, <1>2 DEF GoodReturn, Holds, GenuineAck, Transmitted

\* sendPacket() reports an OK or an ERROR only when the device gave that result
\* to a command with the packet's id that was put on the line.
THEOREM SuccessHasSameIdAck == Spec => []SameIdAck
BY AcksAreGenuine, AckInvImpliesSameIdAck, PTL

----------------------------------------------------------------------------
(***************************************************************************)
(* As long as the ids last, no command is confirmed by another's ACK.      *)
(***************************************************************************)
CountedIds ==
  /\ nextId = Len(issued)
  /\ Len(issued) <= MaxSends
  /\ \A n \in Commands : issued[n].id = n

\* Every step keeps the count: a new packet takes the next id, which is unused.
LEMMA CountedStep ==
  ASSUME MaxSends < IdSpace
  PROVE  TypeOK /\ CountedIds /\ [Next]_vars => CountedIds'
<1> SUFFICES ASSUME TypeOK, CountedIds, [Next]_vars PROVE CountedIds'
  OBVIOUS
<1>1. CASE UNCHANGED <<nextId, issued>>
  BY <1>1 DEF CountedIds, Commands
<1>2. ASSUME NEW wait \in BOOLEAN, SendPacket(wait) PROVE CountedIds'
  <2>1. Len(issued) \in Nat /\ Len(issued) < MaxSends
    BY <1>2, LenProperties DEF TypeOK, SendPacket
  <2>2. nextId' = Len(issued) + 1
    BY <1>2, <2>1, RequestIdCounts, IdSpaceAssumption, BoundsAssumption
       DEF CountedIds, SendPacket
  <2>3. nextId' \in Ids
    BY <1>2, RequestIdType DEF TypeOK, SendPacket
  <2>4. [id |-> nextId', wait |-> wait] \in Packet
    BY <2>3 DEF Packet
  <2>5. /\ Len(issued') = Len(issued) + 1
        /\ \A n \in Commands : issued'[n] = issued[n]
        /\ issued'[Len(issued) + 1] = [id |-> nextId', wait |-> wait]
    BY <1>2, <2>4, IssueGrows DEF TypeOK, SendPacket, Commands
  <2> QED
    BY <2>1, <2>2, <2>5, BoundsAssumption DEF CountedIds, Commands
<1> QED
  BY <1>1, <1>2
     DEF Next, AppStep, WorkerStep, SerialStep, AppPoll, AppTimeout, AppReturn,
         Close, Destroy, OpenPort, EndReset, WorkerSend, WorkerPoll, WorkerTimeout,
         WorkerReturn,
         WorkerFinish,
         SerialTransmit, SerialReceive, SerialWorkerAck, SerialProtocolAck,
         DeviceAnswer, appVars, vars

\* When no id is used twice, an OK or ERROR that sendPacket() returns is what the
\* device answered to that very command, in every interleaving of the threads and
\* whatever ACKs are late, lost or left behind in m_acks.
THEOREM SuccessIsOwn ==
  ASSUME MaxSends < IdSpace
  PROVE  Spec => []NoFalseSuccess
<1>1. Init => CountedIds
  BY BoundsAssumption, EmptySeq DEF Init, CountedIds, Commands
<1>2. TypeOK /\ CountedIds /\ [Next]_vars => CountedIds'
  BY CountedStep
<1>3. TypeOK /\ CountedIds /\ AckInv => NoFalseSuccess
  <2> SUFFICES ASSUME TypeOK, CountedIds, AckInv, NEW x \in Successes
               PROVE  <<x.call, x.ack.result>> \in answered
    BY DEF NoFalseSuccess
  <2>1. x \in GoodReturn /\ x.ack.result # ACK_NACK
    BY DEF AckInv, Successes
  <2>2. x.ack \in GenuineAck /\ x.ack.id = issued[x.call].id /\ x.call \in Commands
    BY <2>1 DEF GoodReturn, Holds, NoAck, FinishedCall
  <2>3. x.ack.cmd = x.call
    BY <2>2 DEF GenuineAck, CountedIds
  <2> QED
    BY <2>2, <2>3 DEF GenuineAck
<1> QED
  BY <1>1, <1>2, <1>3, TypeCorrect, AcksAreGenuine, PTL DEF Spec

----------------------------------------------------------------------------
(***************************************************************************)
(* The two queues and the line form one FIFO channel.                      *)
(***************************************************************************)

\* Appending to the second of two sequences is appending to both together.
LEMMA AppendRight ==
  ASSUME NEW S, NEW s \in Seq(S), NEW t \in Seq(S), NEW e \in S
  PROVE  s \o Append(t, e) = Append(s \o t, e)
<1>1. << e >> \in Seq(S)
  OBVIOUS
<1>2. Append(t, e) = t \o << e >> /\ Append(s \o t, e) = (s \o t) \o << e >>
  BY AppendIsConcat, ConcatProperties
<1> QED
  BY <1>1, <1>2, ConcatAssociative

\* Moving the head of the second of two sequences to the end of the first changes
\* nothing for both together.
LEMMA MoveHead ==
  ASSUME NEW S, NEW s \in Seq(S), NEW t \in Seq(S), t # << >>
  PROVE  Append(s, Head(t)) \o Tail(t) = s \o t
<1> DEFINE l == Append(s, Head(t)) \o Tail(t)
           r == s \o t
<1>1. /\ Head(t) \in S /\ Head(t) = t[1]
      /\ Tail(t) \in Seq(S)
      /\ Len(Tail(t)) = Len(t) - 1
      /\ \A i \in 1 .. Len(Tail(t)) : Tail(t)[i] = t[i + 1]
      /\ Len(t) \in Nat \ {0} /\ Len(s) \in Nat
  BY HeadTailProperties, EmptySeq, LenProperties
<1>2. /\ Append(s, Head(t)) \in Seq(S)
      /\ Len(Append(s, Head(t))) = Len(s) + 1
      /\ \A i \in 1 .. Len(s) : Append(s, Head(t))[i] = s[i]
      /\ Append(s, Head(t))[Len(s) + 1] = t[1]
  BY <1>1, AppendProperties
<1>3. /\ l \in Seq(S) /\ r \in Seq(S)
      /\ Len(l) = Len(s) + Len(t)
      /\ Len(r) = Len(s) + Len(t)
  BY <1>1, <1>2, ConcatProperties
<1>4. ASSUME NEW i \in 1 .. (Len(s) + Len(t)) PROVE l[i] = r[i]
  <2>1. r[i] = IF i <= Len(s) THEN s[i] ELSE t[i - Len(s)]
    BY ConcatProperties
  <2>2. l[i] = IF i <= Len(s) + 1
               THEN Append(s, Head(t))[i] ELSE Tail(t)[i - (Len(s) + 1)]
    BY <1>1, <1>2, ConcatProperties
  <2> HIDE DEF l, r
  <2>3. CASE i <= Len(s)
    BY <1>1, <1>2, <2>1, <2>2, <2>3
  <2>4. CASE i = Len(s) + 1
    BY <1>1, <1>2, <2>1, <2>2, <2>4
  <2>5. CASE i > Len(s) + 1
    BY <1>1, <2>1, <2>2, <2>5
  <2> QED
    BY <1>1, <2>3, <2>4, <2>5
<1> HIDE DEF l, r
<1>5. l = r
  BY <1>3, <1>4, SeqEqual
<1> QED
  BY <1>5 DEF l, r

\* Every step keeps the order of the commands along the two queues and the line.
LEMMA FifoStep == TypeOK /\ FifoLine /\ TypeOK' /\ [Next]_vars => FifoLine'
<1> SUFFICES ASSUME TypeOK, FifoLine, TypeOK', [Next]_vars PROVE FifoLine'
  OBVIOUS
<1>1. CASE UNCHANGED <<issued, sent, frames, outQ>>
  BY <1>1 DEF FifoLine, Commands
<1>2. ASSUME NEW wait \in BOOLEAN, SendPacket(wait) PROVE FifoLine'
  <2> DEFINE n == Len(issued) + 1
             line == sent \o frames
  <2>1. /\ Len(issued) \in Nat
        /\ Len(issued') = n
        /\ n \in Commands'
        /\ Commands' = Commands \cup {n}
    <3>1. [id |-> nextId', wait |-> wait] \in Packet
      BY DEF TypeOK, Packet
    <3> QED
      BY <1>2, <3>1, IssueGrows, LenProperties DEF TypeOK, SendPacket, Commands
  <2>2. /\ sent \in Seq(Commands') /\ frames \in Seq(Commands')
        /\ outQ \in Seq(Commands')
    BY <2>1, SeqMonotonic DEF TypeOK
  <2>3. line \in Seq(Commands')
    BY <2>2, ConcatProperties
  <2>4. sent' \o frames' \o outQ' = line \o Append(outQ, n)
    BY <1>2 DEF SendPacket, serialVars, Enqueue
  <2> HIDE DEF line
  <2>5. sent' \o frames' \o outQ' = Append(line \o outQ, n)
    BY <2>1, <2>2, <2>3, <2>4, AppendRight
  <2>6. line \o outQ = [m \in Commands |-> m]
    BY DEF line, FifoLine
  <2>7. Append([m \in Commands |-> m], n) = [m \in Commands' |-> m]
    <3> DEFINE f == [m \in Commands |-> m]
               g == [m \in Commands' |-> m]
    <3>1. f \in Seq(Commands') /\ Len(f) = Len(issued)
      BY <2>1 DEF Commands
    <3>2. g \in Seq(Commands') /\ Len(g) = n
      BY <2>1 DEF Commands
    <3>3. /\ Append(f, n) \in Seq(Commands')
          /\ Len(Append(f, n)) = n
          /\ \A i \in 1 .. Len(issued) : Append(f, n)[i] = f[i]
          /\ Append(f, n)[n] = n
      BY <2>1, <3>1, AppendProperties
    <3>4. \A i \in 1 .. n : Append(f, n)[i] = g[i]
      BY <2>1, <3>3 DEF Commands
    <3> HIDE DEF f, g
    <3>5. Append(f, n) = g
      BY <3>2, <3>3, <3>4, SeqEqual
    <3> QED
      BY <3>5 DEF f, g
  <2> QED
    BY <2>5, <2>6, <2>7 DEF FifoLine
<1>3. CASE WorkerSend
  <2>1. Head(outQ) \in Commands /\ Tail(outQ) \in Seq(Commands)
    BY <1>3, HeadTailProperties DEF TypeOK, WorkerSend
  <2>2. sent \o frames \in Seq(Commands)
    BY ConcatProperties DEF TypeOK
  <2>3. sent \o Append(frames, Head(outQ)) = Append(sent \o frames, Head(outQ))
    <3>1. sent \in Seq(Commands) /\ frames \in Seq(Commands)
      BY DEF TypeOK
    <3> QED
      BY <2>1, <3>1, AppendRight
  <2>4. Append(sent \o frames, Head(outQ)) \o Tail(outQ) = (sent \o frames) \o outQ
    BY <1>3, <2>2, MoveHead DEF TypeOK, WorkerSend
  <2> QED
    BY <1>3, <2>3, <2>4 DEF FifoLine, WorkerSend, Enqueue, Commands, appVars, serialVars
<1>4. CASE SerialTransmit
  <2>1. Append(sent, Head(frames)) \o Tail(frames) = sent \o frames
    BY <1>4, MoveHead DEF TypeOK, SerialTransmit
  <2> QED
    BY <1>4, <2>1 DEF FifoLine, SerialTransmit, Commands, appVars
<1> QED
  BY <1>1, <1>2, <1>3, <1>4
     DEF Next, AppStep, WorkerStep, SerialStep, AppPoll, AppTimeout, AppReturn,
         Close, Destroy, OpenPort, EndReset, WorkerPoll, WorkerTimeout, WorkerReturn,
         WorkerFinish,
         SerialReceive, SerialWorkerAck, SerialProtocolAck, DeviceAnswer,
         appVars, serialVars, vars

\* Commands reach the line in the order of the sendPacket() calls, none is lost,
\* doubled or overtaken between QkProtocol and the serial port.
THEOREM CommandsStayInOrder == Spec => []FifoLine
<1>1. Init => FifoLine
  <2> SUFFICES ASSUME Init PROVE FifoLine
    OBVIOUS
  <2>1. << >> \o << >> \o << >> = << >>
    BY EmptySeq, ConcatEmptySeq
  <2>2. Commands = {}
    BY EmptySeq DEF Init, Commands
  <2>3. [n \in Commands |-> n] = << >>
    BY <2>2
  <2> QED
    BY <2>1, <2>3 DEF Init, FifoLine
<1> QED
  BY <1>1, FifoStep, TypeCorrect, PTL DEF Spec
=============================================================================
