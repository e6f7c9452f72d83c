-------------------------- MODULE QkCommandsProofs --------------------------
(***************************************************************************)
(* Proofs about QkCommands: for every board, and for every number of       *)
(* operations inside one another, an update() is obeyed from its beginning *)
(* on, and the board and m_running follow what the device has confirmed.   *)
(***************************************************************************)
EXTENDS QkCommands, SequenceTheorems, TLAPS

SetContent == [code : {"set"}, update : Nat, item : Items, value : Payloads]
RunContent == [code : {"start", "stop"}]

AnyResult == {ACK_OK, ACK_ERROR, ACK_NACK}

Op == [code : {"set", "start", "stop"}, update : Nat, item : Items, cmd : Nat,
       pc : {"wait", "back"}, result : AnyResult]

Report == UNION {[items -> Values] : items \in Reports}

----------------------------------------------------------------------------
(***************************************************************************)
(* Sequences.                                                              *)
(***************************************************************************)
\* Append() puts an element at the end and leaves the others.
LEMMA Extended ==
  ASSUME NEW S, NEW s \in Seq(S), NEW e \in S
  PROVE  /\ Append(s, e) \in Seq(S)
         /\ Len(s) \in Nat /\ Len(Append(s, e)) = Len(s) + 1
         /\ DOMAIN s = 1 .. Len(s) /\ DOMAIN Append(s, e) = 1 .. Len(s) + 1
         /\ Append(s, e)[Len(s) + 1] = e
         /\ \A i \in 1 .. Len(s) : Append(s, e)[i] = s[i]
<1>1. /\ Append(s, e) \in Seq(S) /\ Len(s) \in Nat /\ Len(Append(s, e)) = Len(s) + 1
      /\ Append(s, e)[Len(s) + 1] = e
      /\ \A i \in 1 .. Len(s) : Append(s, e)[i] = s[i]
  BY AppendProperties, LenProperties
<1>2. DOMAIN s = 1 .. Len(s) /\ DOMAIN Append(s, e) = 1 .. Len(Append(s, e))
  BY <1>1, LenProperties
<1> QED
  BY <1>1, <1>2

\* Taking the last element away leaves the others.
LEMMA CutAtEnd ==
  ASSUME NEW S, NEW s \in Seq(S), s # << >>
  PROVE  /\ SubSeq(s, 1, Len(s) - 1) \in Seq(S)
         /\ Len(s) \in Nat \ {0} /\ s[Len(s)] \in S
         /\ Len(SubSeq(s, 1, Len(s) - 1)) = Len(s) - 1
         /\ \A i \in 1 .. Len(s) - 1 : SubSeq(s, 1, Len(s) - 1)[i] = s[i]
<1> DEFINE n == Len(s) - 1
<1>1. Len(s) \in Nat \ {0} /\ s[Len(s)] \in S
  BY EmptySeq, LenProperties, ElementOfSeq
<1>2. n \in Nat /\ \A i \in 1 .. n : s[i] \in S
  BY <1>1, ElementOfSeq
<1> HIDE DEF n
<1>3. /\ SubSeq(s, 1, n) \in Seq(S) /\ Len(SubSeq(s, 1, n)) = n
      /\ \A i \in 1 .. n : SubSeq(s, 1, n)[i] = s[i]
  BY <1>2, SubSeqProperties
<1> QED
  BY <1>1, <1>3 DEF n

\* The innermost operation, and what is left without it.
LEMMA OuterFacts ==
  ASSUME ops \in Seq(Op), ops # << >>
  PROVE  /\ Len(ops) \in Nat \ {0} /\ Top \in Op /\ Top = ops[Len(ops)]
         /\ Outer \in Seq(Op) /\ Len(Outer) = Len(ops) - 1
         /\ \A i \in 1 .. Len(ops) - 1 : Outer[i] = ops[i]
BY CutAtEnd DEF Top, Outer

\* The innermost operation goes over to another state.
LEMMA ReplaceFacts ==
  ASSUME ops \in Seq(Op), ops # << >>, NEW op \in Op
  PROVE  /\ Append(Outer, op) \in Seq(Op) /\ Len(Append(Outer, op)) = Len(ops)
         /\ Append(Outer, op)[Len(ops)] = op
         /\ \A i \in 1 .. Len(ops) - 1 : Append(Outer, op)[i] = ops[i]
<1>1. Len(ops) \in Nat \ {0} /\ Outer \in Seq(Op) /\ Len(Outer) = Len(ops) - 1
      /\ \A i \in 1 .. Len(ops) - 1 : Outer[i] = ops[i]
  BY OuterFacts
<1> QED
  BY <1>1, Extended

----------------------------------------------------------------------------
(***************************************************************************)
(* The data of the host, the device and the service.                       *)
(***************************************************************************)
Obeyed == {n \in DOMAIN verdicts : verdicts[n] = "obeyed"}

\* What the device answered, and what the calls returned.
ServiceOK ==
  /\ asked \in Nat /\ executed \in 0 .. asked
  /\ answers \subseteq (1 .. executed) \X Results
  /\ \A n \in 1 .. executed : <<n, ACK_OK>> \in answers => n \in Obeyed
  /\ outcomes \subseteq (1 .. asked) \X AnyResult
  /\ \A n \in 1 .. asked : <<n, ACK_OK>> \in outcomes => <<n, ACK_OK>> \in answers
  /\ \A x, y \in outcomes : x[1] = y[1] => x = y

DataOK ==
  /\ contents \in Seq(Content) /\ Len(contents) = asked
  /\ verdicts \in Seq({"obeyed", "refused"}) /\ Len(verdicts) = executed
  /\ device \in [Items -> Values] /\ board \in [Items -> Values]
  /\ running \in BOOLEAN /\ sampling \in BOOLEAN /\ overlapped \in BOOLEAN
  /\ touched \subseteq Items
  /\ info \in Seq(Report)
  /\ updates \in Nat

\* An operation is about the command that it sent last, and its result is that
\* of this command.
Describes(op) ==
  /\ op.cmd \in 1 .. asked
  /\ contents[op.cmd].code = op.code
  /\ op.code = "set" => /\ contents[op.cmd].update = op.update
                        /\ contents[op.cmd].item = op.item
  /\ op.pc = "back" => <<op.cmd, op.result>> \in outcomes

OpsOK ==
  /\ ops \in Seq(Op)
  /\ \A i \in 1 .. Len(ops) :
       /\ Describes(ops[i])
       /\ ops[i].pc = "back" => i = Len(ops)
       /\ \A j \in 1 .. i - 1 : ops[j].cmd < ops[i].cmd

CommandsInv == ServiceOK /\ DataOK /\ OpsOK

\* Items that are numbers.
LEMMA ItemFacts ==
  /\ 0 \in Items /\ Items \subseteq Nat
  /\ \A i \in Items : i + 1 \in Items \/ i + 1 \notin Items
  /\ \A items \in Reports : items \subseteq Items
BY CommandsAssumption DEF Items, Reports

\* A command sets an item, or starts or stops the device.
LEMMA ContentFacts ==
  /\ Content = SetContent \cup RunContent
  /\ \A c \in SetContent : c.code = "set"
  /\ \A c \in RunContent : c.code \in {"start", "stop"}
BY DEF Content, SetContent, RunContent

----------------------------------------------------------------------------
(***************************************************************************)
(* What a command that is sent changes.                                    *)
(***************************************************************************)
LEMMA SendFacts ==
  ASSUME CommandsInv, NEW c \in Content, Send(c)
  PROVE  /\ asked' = asked + 1 /\ UNCHANGED <<executed, answers, outcomes>>
         /\ contents' \in Seq(Content) /\ Len(contents') = asked + 1
         /\ DOMAIN contents = 1 .. asked /\ DOMAIN contents' = 1 .. asked + 1
         /\ contents'[asked + 1] = c
         /\ \A n \in 1 .. asked : contents'[n] = contents[n]
<1>1. /\ asked' = asked + 1 /\ UNCHANGED <<executed, answers, outcomes>>
      /\ contents' = Append(contents, c)
  BY DEF Send, Service!Ask
<1>2. contents \in Seq(Content) /\ Len(contents) = asked /\ asked \in Nat
  BY DEF CommandsInv, DataOK, ServiceOK
<1> QED
  BY <1>1, <1>2, Extended

\* The commands of update(), start() and stop().
LEMMA SentContent ==
  ASSUME CommandsInv
  PROVE  /\ \A u \in Nat, i \in Items :
              [code |-> "set", update |-> u, item |-> i, value |-> ValueSent(i)] \in Content
         /\ \A code \in {"start", "stop"} : [code |-> code] \in Content
BY DEF Content, Payloads, ValueSent, CommandsInv, DataOK

\* What each step leaves as it was.
Grows ==
  /\ asked' \in Nat /\ executed' \in Nat
  /\ asked <= asked' /\ executed <= executed'
  /\ \A n \in 1 .. asked : contents'[n] = contents[n]
  /\ \A n \in 1 .. executed : verdicts'[n] = verdicts[n]
  /\ answers \subseteq answers' /\ outcomes \subseteq outcomes'

\* A new command leaves everything earlier as it was.
LEMMA SentKeeps ==
  ASSUME CommandsInv, NEW c \in Content, Send(c), UNCHANGED <<deviceVars, board, running, info>>,
         updates' \in Nat, touched' \subseteq Items, overlapped' \in BOOLEAN
  PROVE  ServiceOK' /\ DataOK' /\ Grows
<1>1. /\ asked' = asked + 1 /\ UNCHANGED <<executed, answers, outcomes, verdicts>>
      /\ contents' \in Seq(Content) /\ Len(contents') = asked + 1
      /\ \A n \in 1 .. asked : contents'[n] = contents[n]
  BY SendFacts DEF deviceVars
<1>2. asked \in Nat /\ executed \in 0 .. asked
  BY DEF CommandsInv, ServiceOK
<1>3. Grows
  BY <1>1, <1>2 DEF Grows
<1>4. Obeyed' = Obeyed /\ 1 .. asked \subseteq 1 .. asked'
  BY <1>1, <1>2 DEF Obeyed
<1>5. \A x \in outcomes : x[1] \in 1 .. asked
  BY DEF CommandsInv, ServiceOK
<1>6. ServiceOK'
  BY <1>1, <1>2, <1>4, <1>5 DEF CommandsInv, ServiceOK
<1> QED
  BY <1>1, <1>3, <1>6 DEF CommandsInv, DataOK, deviceVars

\* The steps in which nothing is sent, executed, answered or returned.
LEMMA QuietKeeps ==
  ASSUME CommandsInv, UNCHANGED <<serviceVars, contents, verdicts>>
  PROVE  /\ ServiceOK' /\ Grows
         /\ contents' \in Seq(Content) /\ Len(contents') = asked'
         /\ verdicts' \in Seq({"obeyed", "refused"}) /\ Len(verdicts') = executed'
<1>1. UNCHANGED <<asked, executed, answers, outcomes, contents, verdicts>>
  BY DEF serviceVars
<1>2. Obeyed' = Obeyed
  BY <1>1 DEF Obeyed
<1> QED
  BY <1>1, <1>2 DEF CommandsInv, ServiceOK, DataOK, Grows

\* The return of a call adds its outcome, which is an answer where it is OK.
LEMMA ReturnKeeps ==
  ASSUME CommandsInv, NEW r \in Results \cup {ACK_NACK}, Return(r)
  PROVE  ServiceOK' /\ DataOK' /\ Grows /\ <<Top.cmd, r>> \in outcomes'
<1> DEFINE n == Top.cmd
<1>1. /\ n \in 1 .. asked /\ \A x \in outcomes : x[1] # n
      /\ r = ACK_NACK \/ <<n, r>> \in answers
      /\ outcomes' = outcomes \cup {<<n, r>>}
      /\ UNCHANGED <<asked, executed, answers>>
  BY DEF Return, Service!Finish, Service!NoAnswer, ACK_NACK
<1>2. UNCHANGED <<board, running, contents, updates, touched, overlapped, deviceVars, info>>
  BY DEF Return
<1> HIDE DEF n
<1>3. UNCHANGED <<contents, verdicts>> /\ Obeyed' = Obeyed
  BY <1>2 DEF deviceVars, Obeyed
<1>4. r \in AnyResult /\ (r = ACK_OK => r # ACK_NACK)
  BY DEF Results, AnyResult, ACK_OK, ACK_NACK
<1>5. ServiceOK'
  <2>1. /\ outcomes' \subseteq (1 .. asked) \X AnyResult
        /\ \A x, y \in outcomes' : x[1] = y[1] => x = y
    BY <1>1, <1>4 DEF CommandsInv, ServiceOK
  <2>2. \A k \in 1 .. asked : <<k, ACK_OK>> \in outcomes' => <<k, ACK_OK>> \in answers
    BY <1>1, <1>4 DEF CommandsInv, ServiceOK
  <2> QED
    BY <1>1, <1>3, <2>1, <2>2 DEF CommandsInv, ServiceOK
<1>6. DataOK'
  BY <1>1, <1>2, <1>3 DEF CommandsInv, DataOK, deviceVars
<1>7. Grows
  BY <1>1, <1>3 DEF CommandsInv, ServiceOK, Grows
<1> QED
  BY <1>1, <1>5, <1>6, <1>7 DEF n

\* The device obeys or refuses the next command and leaves the others.
LEMMA ExecuteKeeps ==
  ASSUME CommandsInv, NEW verdict \in {"obeyed", "refused"}, DeviceExecute(verdict)
  PROVE  /\ ServiceOK' /\ DataOK' /\ Grows
         /\ executed + 1 \in 1 .. asked /\ executed' = executed + 1
         /\ Obeyed' = IF verdict = "obeyed" THEN Obeyed \cup {executed + 1} ELSE Obeyed
<1>1. /\ executed < asked /\ executed' = executed + 1 /\ UNCHANGED <<asked, answers, outcomes>>
      /\ verdicts' = Append(verdicts, verdict) /\ UNCHANGED <<hostVars, info>>
  BY DEF DeviceExecute, Service!Execute
<1>2. /\ asked \in Nat /\ executed \in 0 .. asked
      /\ verdicts \in Seq({"obeyed", "refused"}) /\ Len(verdicts) = executed
  BY DEF CommandsInv, ServiceOK, DataOK
<1>3. /\ verdicts' \in Seq({"obeyed", "refused"}) /\ Len(verdicts') = executed + 1
      /\ DOMAIN verdicts = 1 .. executed /\ DOMAIN verdicts' = 1 .. executed + 1
      /\ verdicts'[executed + 1] = verdict
      /\ \A n \in 1 .. executed : verdicts'[n] = verdicts[n]
  BY <1>1, <1>2, Extended
<1>4. Obeyed' = IF verdict = "obeyed" THEN Obeyed \cup {executed + 1} ELSE Obeyed
  <2>1. 1 .. executed + 1 = (1 .. executed) \cup {executed + 1}
    BY <1>2
  <2>2. \A n : n \in Obeyed' <=> n \in Obeyed \/ (n = executed + 1 /\ verdict = "obeyed")
    BY <1>2, <1>3, <2>1 DEF Obeyed
  <2> QED
    BY <2>2
<1>5. ServiceOK'
  <2>1. 1 .. executed \subseteq 1 .. executed' /\ executed' \in 0 .. asked
    BY <1>1, <1>2
  <2>2. \A n \in 1 .. executed' : <<n, ACK_OK>> \in answers => n \in 1 .. executed
    BY DEF CommandsInv, ServiceOK
  <2> QED
    BY <1>1, <1>2, <1>4, <2>1, <2>2 DEF CommandsInv, ServiceOK
<1>6. device' \in [Items -> Values] /\ sampling' \in BOOLEAN
  <2>1. contents[executed + 1] \in Content
    BY <1>1, <1>2, ElementOfSeq DEF CommandsInv, DataOK
  <2> DEFINE c == contents[executed + 1]
  <2>2. Obey(c) \/ UNCHANGED <<device, sampling>>
    BY DEF DeviceExecute
  <2> HIDE DEF c
  <2>3. c \in Content /\ device \in [Items -> Values] /\ sampling \in BOOLEAN
    BY <2>1 DEF c, CommandsInv, DataOK
  <2>4. c.code = "set" => c.item \in Items /\ c.value \subseteq Values
    BY <2>3 DEF Content, Payloads
  <2>5. device' \in [Items -> Values]
    <3>1. CASE device' = device
      BY <2>3, <3>1
    <3>2. ASSUME c.code = "set", NEW v \in Values, device' = [device EXCEPT ![c.item] = v]
          PROVE  device' \in [Items -> Values]
      BY <2>3, <2>4, <3>2
    <3> QED
      BY <2>2, <2>4, <3>1, <3>2 DEF Obey
  <2>6. sampling' \in BOOLEAN
    BY <2>2, <2>3 DEF Obey
  <2> QED
    BY <2>5, <2>6
<1>7. DataOK'
  BY <1>1, <1>3, <1>6 DEF CommandsInv, DataOK, hostVars
<1>8. Grows
  BY <1>1, <1>2, <1>3 DEF Grows, hostVars
<1> QED
  BY <1>1, <1>2, <1>4, <1>5, <1>7, <1>8

\* An answer is about a command that the device has executed.
LEMMA AnswerKeeps ==
  ASSUME CommandsInv, NEW n \in DOMAIN verdicts, DeviceAnswer(n)
  PROVE  ServiceOK' /\ DataOK' /\ Grows
<1>1. PICK r \in Results :
        /\ n \in 1 .. executed /\ answers' = answers \cup {<<n, r>>}
        /\ UNCHANGED <<asked, executed, outcomes>>
        /\ r = ACK_OK => verdicts[n] = "obeyed"
  BY DEF DeviceAnswer, Service!Answer, Results, ACK_OK, ACK_ERROR
<1>2. UNCHANGED <<hostVars, deviceVars, info>>
  BY DEF DeviceAnswer
<1>3. Obeyed' = Obeyed /\ (r = ACK_OK => n \in Obeyed)
  BY <1>1, <1>2 DEF Obeyed, deviceVars
<1>4. ServiceOK'
  BY <1>1, <1>3 DEF CommandsInv, ServiceOK
<1> QED
  BY <1>1, <1>2, <1>4 DEF CommandsInv, DataOK, ServiceOK, Grows, hostVars, deviceVars

----------------------------------------------------------------------------
(***************************************************************************)
(* The operations inside one another.                                      *)
(***************************************************************************)
LEMMA DescribesStays ==
  ASSUME CommandsInv, Grows, NEW op, Describes(op)
  PROVE  Describes(op)'
<1>1. asked \in Nat /\ asked' >= asked /\ op.cmd \in 1 .. asked
  BY DEF CommandsInv, ServiceOK, Grows, Describes
<1>2. contents'[op.cmd] = contents[op.cmd] /\ outcomes \subseteq outcomes'
  BY <1>1 DEF Grows
<1>3. op.cmd \in 1 .. asked'
  BY <1>1 DEF CommandsInv, ServiceOK, Grows
<1> QED
  BY <1>2, <1>3 DEF Describes

\* Every operation but the innermost waits, and this one too while handlers run.
LEMMA DispatchingWaits ==
  ASSUME OpsOK, Dispatching, NEW i \in 1 .. Len(ops)
  PROVE  ops[i].pc = "wait"
<1>1. Len(ops) \in Nat /\ ops[i] \in Op
  BY LenProperties, ElementOfSeq DEF OpsOK
<1>2. ops # << >>
  BY <1>1
<1>3. ops[i].pc \in {"wait", "back"}
  BY <1>1 DEF Op
<1>4. ops[i].pc = "back" => i = Len(ops)
  BY DEF OpsOK
<1>5. ops[Len(ops)].pc = "wait"
  BY <1>2 DEF Dispatching, Top
<1> QED
  BY <1>3, <1>4, <1>5

\* An operation that goes on waiting or returning is about the same command.
LEMMA OpStays ==
  ASSUME CommandsInv, Grows, NEW i, Describes(ops[i]), ops'[i] = ops[i]
  PROVE  Describes(ops[i])'
<1>1. PICK op : op = ops[i]
  OBVIOUS
<1>2. Describes(op)
  BY <1>1
<1>3. Describes(op)'
  BY <1>2, DescribesStays
<1> QED
  BY <1>1, <1>3

\* An operation is called inside the ones that wait.
LEMMA PushKeeps ==
  ASSUME CommandsInv, Grows, Dispatching,
         NEW op \in Op, ops' = Append(ops, op),
         Describes(op)', op.pc = "wait", op.cmd = asked + 1
  PROVE  OpsOK'
<1>0. ops \in Seq(Op) /\ asked \in Nat
  BY DEF CommandsInv, OpsOK, ServiceOK
<1>1. /\ ops' \in Seq(Op) /\ Len(ops) \in Nat /\ Len(ops') = Len(ops) + 1
      /\ ops'[Len(ops) + 1] = op
      /\ \A i \in 1 .. Len(ops) : ops'[i] = ops[i]
  BY <1>0, Extended
<1>2. ASSUME NEW i \in 1 .. Len(ops)
      PROVE  /\ Describes(ops[i])' /\ ops'[i].pc # "back" /\ ops'[i].cmd < op.cmd
             /\ \A j \in 1 .. i - 1 : ops'[j].cmd < ops'[i].cmd
  <2>1. Describes(ops[i]) /\ ops[i].pc = "wait" /\ \A j \in 1 .. i - 1 : ops[j].cmd < ops[i].cmd
    BY DispatchingWaits DEF CommandsInv, OpsOK
  <2>2. Describes(ops[i])'
    BY <1>1, <2>1, OpStays
  <2>3. ops'[i].cmd < op.cmd
    BY <1>0, <1>1, <2>1 DEF Describes
  <2> QED
    BY <1>1, <2>1, <2>2, <2>3
<1>3. ASSUME NEW i, i = Len(ops) + 1
      PROVE  /\ Describes(ops[i])' /\ ops'[i].pc # "back"
             /\ \A j \in 1 .. i - 1 : ops'[j].cmd < ops'[i].cmd
  <2>1. ops'[i] = op
    BY <1>1, <1>3
  <2>2. Describes(ops[i])'
    BY <2>1
  <2>3. \A j \in 1 .. i - 1 : j \in 1 .. Len(ops)
    BY <1>1, <1>3
  <2> QED
    BY <1>2, <2>1, <2>2, <2>3
<1>4. \A i \in 1 .. Len(ops') : i \in 1 .. Len(ops) \/ i = Len(ops) + 1
  BY <1>1
<1> QED
  BY <1>1, <1>2, <1>3, <1>4 DEF OpsOK

\* The innermost operation, and the place of the others below it.
LEMMA TopFacts ==
  ASSUME CommandsInv, ops # << >>
  PROVE  /\ asked \in Nat /\ Top \in Op /\ Top.cmd \in Nat /\ Top.cmd \in 1 .. asked
         /\ Describes(Top)
         /\ \A i \in 1 .. Len(ops) - 1 : ops[i].cmd < Top.cmd
<1>1. Len(ops) \in Nat \ {0} /\ Top \in Op /\ Top = ops[Len(ops)]
  BY OuterFacts DEF CommandsInv, OpsOK
<1>2. Len(ops) \in 1 .. Len(ops)
  BY <1>1
<1>3. Describes(Top) /\ \A i \in 1 .. Len(ops) - 1 : ops[i].cmd < Top.cmd
  BY <1>1, <1>2 DEF CommandsInv, OpsOK
<1>4. asked \in Nat
  BY DEF CommandsInv, ServiceOK
<1>5. Top.cmd \in 1 .. asked
  BY <1>3 DEF Describes
<1> QED
  BY <1>1, <1>3, <1>4, <1>5

\* The innermost operation sends its next command, or has got its result.
LEMMA ReplaceKeeps ==
  ASSUME CommandsInv, Grows, ops # << >>,
         NEW op \in Op, ops' = Append(Outer, op),
         Describes(op)', op.cmd >= Top.cmd
  PROVE  OpsOK'
<1>0. ops \in Seq(Op) /\ asked \in Nat
  BY DEF CommandsInv, OpsOK, ServiceOK
<1>1. /\ Len(ops) \in Nat \ {0} /\ Top = ops[Len(ops)]
      /\ ops' \in Seq(Op) /\ Len(ops') = Len(ops)
      /\ ops'[Len(ops)] = op
      /\ \A i \in 1 .. Len(ops) - 1 : ops'[i] = ops[i]
  BY <1>0, OuterFacts, ReplaceFacts
<1>2. \A i \in 1 .. Len(ops) :
        /\ Describes(ops[i]) /\ ops[i].cmd \in Nat
        /\ i # Len(ops) => ops[i].pc # "back"
        /\ \A j \in 1 .. i - 1 : ops[j].cmd < ops[i].cmd
  BY <1>0 DEF CommandsInv, OpsOK, Describes
<1>3. ASSUME NEW i \in 1 .. Len(ops) - 1
      PROVE  /\ Describes(ops[i])' /\ ops'[i].pc # "back"
             /\ \A j \in 1 .. i - 1 : ops'[j].cmd < ops'[i].cmd
  <2>1. i \in 1 .. Len(ops) /\ i # Len(ops) /\ ops'[i] = ops[i]
    BY <1>1
  <2>2. Describes(ops[i])'
    BY <1>2, <2>1, OpStays
  <2>3. \A j \in 1 .. i - 1 : j \in 1 .. Len(ops) - 1
    BY <1>1
  <2> QED
    BY <1>1, <1>2, <2>1, <2>2, <2>3
<1>4. ASSUME NEW i, i = Len(ops)
      PROVE  /\ Describes(ops[i])'
             /\ \A j \in 1 .. i - 1 : ops'[j].cmd < ops'[i].cmd
  <2>1. ops'[i] = op
    BY <1>1, <1>4
  <2>2. Describes(ops[i])'
    BY <2>1
  <2>3. \A j \in 1 .. i - 1 :
          /\ j \in 1 .. Len(ops) - 1 /\ j \in 1 .. Len(ops) /\ Len(ops) \in 1 .. Len(ops)
          /\ ops[j].cmd < ops[Len(ops)].cmd
    BY <1>1, <1>2, <1>4
  <2>4. op.cmd \in Nat /\ Top.cmd \in Nat
    BY <1>1, <1>2 DEF Op
  <2>5. ASSUME NEW j \in 1 .. i - 1 PROVE ops'[j].cmd < ops'[i].cmd
    <3>1. ops'[j].cmd = ops[j].cmd /\ ops[j].cmd \in Nat /\ ops[j].cmd < Top.cmd
      BY <1>1, <1>2, <2>3
    <3> QED
      BY <2>1, <2>4, <3>1
  <2> QED
    BY <2>2, <2>5
<1>5. \A i \in 1 .. Len(ops') : i \in 1 .. Len(ops) - 1 \/ i = Len(ops)
  BY <1>1
<1> QED
  BY <1>1, <1>3, <1>4, <1>5 DEF OpsOK

\* The innermost operation returns.
LEMMA PopKeeps ==
  ASSUME CommandsInv, Grows, ops # << >>, ops' = Outer
  PROVE  OpsOK'
<1>0. ops \in Seq(Op)
  BY DEF CommandsInv, OpsOK
<1>1. /\ Len(ops) \in Nat \ {0} /\ ops' \in Seq(Op) /\ Len(ops') = Len(ops) - 1
      /\ \A i \in 1 .. Len(ops) - 1 : ops'[i] = ops[i]
  BY <1>0, OuterFacts
<1>2. ASSUME NEW i \in 1 .. Len(ops) - 1
      PROVE  /\ Describes(ops[i])' /\ ops'[i].pc # "back"
             /\ \A j \in 1 .. i - 1 : ops'[j].cmd < ops'[i].cmd
  <2>1. i \in 1 .. Len(ops) /\ i # Len(ops) /\ ops'[i] = ops[i]
    BY <1>1
  <2>2. /\ Describes(ops[i]) /\ ops[i].pc # "back"
        /\ \A j \in 1 .. i - 1 : ops[j].cmd < ops[i].cmd
    BY <2>1 DEF CommandsInv, OpsOK
  <2>3. Describes(ops[i])'
    BY <2>1, <2>2, OpStays
  <2>4. \A j \in 1 .. i - 1 : j \in 1 .. Len(ops) - 1
    BY <1>1
  <2> QED
    BY <1>1, <2>1, <2>2, <2>3, <2>4
<1> QED
  BY <1>1, <1>2 DEF OpsOK

\* The steps of the device and of the serial thread.
LEMMA SameOpsKeep ==
  ASSUME CommandsInv, Grows, UNCHANGED ops
  PROVE  OpsOK'
<1>1. \A i \in 1 .. Len(ops) : Describes(ops[i])'
  BY OpStays DEF CommandsInv, OpsOK
<1> QED
  BY <1>1 DEF CommandsInv, OpsOK

----------------------------------------------------------------------------
(***************************************************************************)
(* The invariant of the data.                                              *)
(***************************************************************************)
LEMMA InvInit == Init => CommandsInv
<1> SUFFICES ASSUME Init PROVE CommandsInv
  OBVIOUS
<1>1. /\ asked = 0 /\ executed = 0 /\ answers = {} /\ outcomes = {}
      /\ contents = << >> /\ verdicts = << >> /\ ops = << >> /\ info = << >>
  BY DEF Init, Service!Init
<1>2. /\ contents \in Seq(Content) /\ Len(contents) = 0 /\ Len(ops) = 0
      /\ verdicts \in Seq({"obeyed", "refused"}) /\ Len(verdicts) = 0
      /\ ops \in Seq(Op) /\ info \in Seq(Report)
  BY <1>1, EmptySeq
<1>3. device \in [Items -> Values] /\ board \in [Items -> Values]
  BY DEF Init
<1>4. ServiceOK
  BY <1>1 DEF ServiceOK
<1>5. running \in BOOLEAN /\ sampling \in BOOLEAN /\ overlapped \in BOOLEAN
  BY DEF Init
<1>6. DataOK
  BY <1>1, <1>2, <1>3, <1>5 DEF Init, DataOK
<1>7. OpsOK
  BY <1>2 DEF OpsOK
<1> QED
  BY <1>4, <1>6, <1>7 DEF CommandsInv

\* The operation that waits for the command it sends.
LEMMA WaitingDescribes ==
  ASSUME CommandsInv, NEW c \in Content, Send(c),
         NEW update \in Nat, NEW item \in Items,
         c.code = "set" => c.update = update /\ c.item = item
  PROVE  \E op \in Op : /\ op = Waiting(c.code, update, item)
                        /\ Describes(op)' /\ op.pc = "wait" /\ op.cmd = asked + 1
<1>1. asked' = asked + 1 /\ contents'[asked + 1] = c /\ asked \in Nat
  BY SendFacts DEF CommandsInv, ServiceOK
<1>2. PICK op : op = Waiting(c.code, update, item)
  OBVIOUS
<1>3. c.code \in {"set", "start", "stop"}
  BY ContentFacts
<1>4. /\ op.code = c.code /\ op.update = update /\ op.item = item
      /\ op.cmd = asked + 1 /\ op.pc = "wait" /\ op \in Op
  BY <1>1, <1>2, <1>3 DEF Waiting, Op, AnyResult
<1>5. asked + 1 \in 1 .. asked'
  BY <1>1
<1>6. Describes(op)'
  BY <1>1, <1>4, <1>5 DEF Describes
<1> QED
  BY <1>2, <1>4, <1>6

\* update() up to its first wait.
LEMMA BeginUpdateKeeps == ASSUME CommandsInv, BeginUpdate PROVE CommandsInv' /\ Grows
<1> DEFINE c == [code |-> "set", update |-> updates + 1, item |-> 0, value |-> ValueSent(0)]
<1>1. /\ Send(c) /\ Dispatching /\ updates' = updates + 1
      /\ ops' = Append(ops, Waiting("set", updates + 1, 0))
      /\ touched' = touched \ {0}
      /\ UNCHANGED <<board, running, overlapped, deviceVars, info>>
  BY DEF BeginUpdate, SendItem
<1>2. /\ c \in Content /\ updates + 1 \in Nat /\ 0 \in Items
      /\ c.code = "set" /\ c.update = updates + 1 /\ c.item = 0
  BY ItemFacts, SentContent DEF CommandsInv, DataOK
<1> HIDE DEF c
<1>3. ServiceOK' /\ DataOK' /\ Grows
  BY <1>1, <1>2, SentKeeps DEF CommandsInv, DataOK
<1>4. PICK op \in Op : /\ op = Waiting("set", updates + 1, 0)
                       /\ Describes(op)' /\ op.pc = "wait" /\ op.cmd = asked + 1
  BY <1>1, <1>2, WaitingDescribes
<1>5. OpsOK'
  BY <1>1, <1>3, <1>4, PushKeeps
<1> QED
  BY <1>3, <1>5 DEF CommandsInv

\* update() from a confirmed item to its next one.
LEMMA ContinueUpdateKeeps == ASSUME CommandsInv, ContinueUpdate PROVE CommandsInv' /\ Grows
<1> DEFINE u == Top.update
           i == Top.item + 1
           c == [code |-> "set", update |-> u, item |-> i, value |-> ValueSent(i)]
<1>1. /\ Send(c) /\ ops # << >> /\ i \in Items
      /\ ops' = Append(Outer, Waiting("set", u, i))
      /\ touched' = touched \ {i}
      /\ UNCHANGED <<board, running, updates, overlapped, deviceVars, info>>
  BY DEF ContinueUpdate, SendItem
<1>2. Top \in Op /\ Top.cmd \in 1 .. asked /\ asked \in Nat
  BY <1>1, TopFacts
<1>3. asked + 1 >= Top.cmd
  BY <1>2
<1>4. u \in Nat
  BY <1>2 DEF Op
<1> HIDE DEF u, i
<1>5. c \in Content /\ c.code = "set" /\ c.update = u /\ c.item = i
  BY <1>1, <1>4, SentContent
<1> HIDE DEF c
<1>6. ServiceOK' /\ DataOK' /\ Grows
  BY <1>1, <1>5, SentKeeps DEF CommandsInv, DataOK
<1>7. PICK op \in Op : /\ op = Waiting("set", u, i)
                       /\ Describes(op)' /\ op.pc = "wait" /\ op.cmd = asked + 1
  BY <1>1, <1>4, <1>5, WaitingDescribes
<1>8. OpsOK'
  BY <1>1, <1>3, <1>6, <1>7, ReplaceKeeps
<1> QED
  BY <1>6, <1>8 DEF CommandsInv

\* start() and stop() up to their wait.
LEMMA BeginRunKeeps ==
  ASSUME CommandsInv, NEW code \in {"start", "stop"}, BeginRun(code)
  PROVE  CommandsInv' /\ Grows
<1> DEFINE c == [code |-> code]
<1>1. /\ Send(c) /\ Dispatching /\ ops' = Append(ops, Waiting(code, 0, 0))
      /\ overlapped' \in BOOLEAN
      /\ UNCHANGED <<board, running, updates, touched, deviceVars, info>>
  BY DEF BeginRun, CommandsInv, DataOK
<1>2. c \in Content /\ 0 \in Items /\ c.code = code /\ c.code # "set"
  BY ItemFacts, SentContent
<1> HIDE DEF c
<1>3. ServiceOK' /\ DataOK' /\ Grows
  BY <1>1, <1>2, SentKeeps DEF CommandsInv, DataOK
<1>4. PICK op \in Op : /\ op = Waiting(code, 0, 0)
                       /\ Describes(op)' /\ op.pc = "wait" /\ op.cmd = asked + 1
  BY <1>1, <1>2, WaitingDescribes
<1>5. OpsOK'
  BY <1>1, <1>3, <1>4, PushKeeps
<1> QED
  BY <1>3, <1>5 DEF CommandsInv

\* The ends of update(), start() and stop().
LEMMA EndKeeps == ASSUME CommandsInv, EndUpdate \/ EndRun PROVE CommandsInv' /\ Grows
<1>1. /\ ops # << >> /\ ops' = Outer
      /\ UNCHANGED <<serviceVars, contents, deviceVars, board, updates, touched, overlapped, info>>
  BY DEF EndUpdate, EndRun
<1>2. ServiceOK' /\ Grows /\ UNCHANGED <<contents, verdicts>> /\ UNCHANGED <<asked, executed>>
  BY <1>1, QuietKeeps DEF deviceVars, serviceVars
<1>3. running' \in BOOLEAN
  BY DEF CommandsInv, DataOK, EndUpdate, EndRun, RunningAfter
<1>4. DataOK'
  BY <1>1, <1>2, <1>3 DEF CommandsInv, DataOK, deviceVars
<1>5. OpsOK'
  BY <1>1, <1>2, PopKeeps
<1> QED
  BY <1>2, <1>4, <1>5 DEF CommandsInv

\* A sendPacket() that returns to the innermost operation.
LEMMA ReturnKeepsInv ==
  ASSUME CommandsInv, NEW r \in Results \cup {ACK_NACK}, Return(r)
  PROVE  CommandsInv' /\ Grows
<1>1. ServiceOK' /\ DataOK' /\ Grows /\ <<Top.cmd, r>> \in outcomes'
  BY ReturnKeeps
<1>2. /\ ops # << >> /\ ops' = Append(Outer, [Top EXCEPT !.pc = "back", !.result = r])
      /\ UNCHANGED contents
  BY DEF Return
<1>3. Top \in Op /\ Describes(Top) /\ Top.cmd \in Nat
  BY <1>2, TopFacts
<1>4. PICK top \in Op : top = Top
  BY <1>3
<1>5. Describes(top)'
  BY <1>1, <1>3, <1>4, DescribesStays
<1>6. PICK op : op = [top EXCEPT !.pc = "back", !.result = r]
  OBVIOUS
<1>7. /\ op \in Op /\ op.cmd = top.cmd /\ op.code = top.code /\ op.update = top.update
      /\ op.item = top.item /\ op.result = r
  BY <1>6 DEF Op, AnyResult, Results
<1>8. Describes(op)'
  BY <1>1, <1>4, <1>5, <1>7 DEF Describes
<1>9. ops' = Append(Outer, op) /\ op.cmd >= Top.cmd
  BY <1>2, <1>3, <1>4, <1>6, <1>7
<1>10. OpsOK'
  BY <1>1, <1>2, <1>7, <1>8, <1>9, ReplaceKeeps
<1> QED
  BY <1>1, <1>10 DEF CommandsInv

\* Setters, handlers and INFO packets change the board alone.
LEMMA BoardKeeps ==
  ASSUME CommandsInv,
         StoreInfo \/ (\E i \in Items, v \in Values : SetItem(i, v))
           \/ (\E items \in Reports : DeviceReport(items))
  PROVE  CommandsInv' /\ Grows
<1>1. UNCHANGED <<serviceVars, ops, running, contents, updates, overlapped, deviceVars>>
  BY DEF StoreInfo, SetItem, DeviceReport, hostVars
<1>2. ServiceOK' /\ Grows /\ UNCHANGED <<contents, verdicts, asked, executed>>
  BY <1>1, QuietKeeps DEF deviceVars, serviceVars
<1>3. /\ info \in Seq(Report) /\ board \in [Items -> Values] /\ device \in [Items -> Values]
      /\ touched \subseteq Items
  BY DEF CommandsInv, DataOK
<1>4. board' \in [Items -> Values] /\ touched' \subseteq Items /\ info' \in Seq(Report)
  <2>1. CASE StoreInfo
    <3> DEFINE report == Head(info)
    <3>1. report \in Report /\ Tail(info) \in Seq(Report)
      BY <1>3, <2>1, HeadTailProperties DEF StoreInfo
    <3>2. /\ board' = [i \in Items |-> IF i \in DOMAIN report THEN report[i] ELSE board[i]]
          /\ touched' = touched \cup DOMAIN report /\ info' = Tail(info)
      BY <2>1 DEF StoreInfo
    <3> HIDE DEF report
    <3>3. PICK items \in Reports : report \in [items -> Values]
      BY <3>1 DEF Report
    <3>4. DOMAIN report \subseteq Items /\ \A i \in DOMAIN report : report[i] \in Values
      BY <3>3, ItemFacts
    <3>5. \A i \in Items : board[i] \in Values
      BY <1>3
    <3>6. board' \in [Items -> Values]
      BY <3>2, <3>4, <3>5
    <3>7. touched' \subseteq Items /\ info' \in Seq(Report)
      BY <1>3, <3>1, <3>2, <3>4
    <3> QED
      BY <3>6, <3>7
  <2>2. ASSUME NEW i \in Items, NEW v \in Values, SetItem(i, v)
        PROVE  board' \in [Items -> Values] /\ touched' \subseteq Items /\ info' \in Seq(Report)
    BY <1>3, <2>2 DEF SetItem
  <2>3. ASSUME NEW items \in Reports, DeviceReport(items)
        PROVE  board' \in [Items -> Values] /\ touched' \subseteq Items /\ info' \in Seq(Report)
    <3> DEFINE report == [i \in items |-> device[i]]
    <3>1. info' = Append(info, report) /\ UNCHANGED <<board, touched>>
      BY <2>3 DEF DeviceReport, hostVars
    <3>2. report \in Report
      <4>1. items \subseteq Items /\ \A i \in Items : device[i] \in Values
        BY <1>3, ItemFacts
      <4>2. report \in [items -> Values]
        BY <4>1
      <4> HIDE DEF report
      <4> QED
        BY <4>2 DEF Report
    <3> HIDE DEF report
    <3> QED
      BY <1>3, <3>1, <3>2, Extended
  <2> QED
    BY <2>1, <2>2, <2>3
<1>5. DataOK'
  BY <1>1, <1>2, <1>4 DEF CommandsInv, DataOK, deviceVars
<1>6. OpsOK'
  BY <1>1, <1>2, SameOpsKeep
<1> QED
  BY <1>2, <1>5, <1>6 DEF CommandsInv

\* The steps of the device.
LEMMA DeviceKeeps ==
  ASSUME CommandsInv,
         (\E verdict \in {"obeyed", "refused"} : DeviceExecute(verdict))
           \/ (\E n \in DOMAIN verdicts : DeviceAnswer(n))
  PROVE  CommandsInv' /\ Grows
<1>1. ServiceOK' /\ DataOK' /\ Grows
  BY ExecuteKeeps, AnswerKeeps
<1>2. UNCHANGED ops
  BY DEF DeviceExecute, DeviceAnswer, hostVars
<1>3. OpsOK'
  BY <1>1, <1>2, SameOpsKeep
<1> QED
  BY <1>1, <1>3 DEF CommandsInv

\* What the application does elsewhere.
LEMMA StutterKeeps == ASSUME CommandsInv, UNCHANGED vars PROVE CommandsInv' /\ Grows
<1>1. UNCHANGED <<serviceVars, contents, verdicts, ops>>
  BY DEF vars, hostVars, deviceVars
<1>2. ServiceOK' /\ Grows
  BY <1>1, QuietKeeps
<1>3. OpsOK'
  BY <1>1, <1>2, SameOpsKeep
<1> QED
  BY <1>2, <1>3 DEF CommandsInv, DataOK, vars, serviceVars, hostVars, deviceVars

\* The invariant is inductive, and the histories only grow.
LEMMA InvStep == CommandsInv /\ [Next]_vars => CommandsInv' /\ Grows
<1> SUFFICES ASSUME CommandsInv, [Next]_vars PROVE CommandsInv' /\ Grows
  OBVIOUS
<1>1. \A op \in Operations \ {"update"} : op \in {"start", "stop"}
  BY CommandsAssumption
<1> QED
  BY <1>1, BeginUpdateKeeps, ContinueUpdateKeeps, BeginRunKeeps, EndKeeps, ReturnKeepsInv,
     BoardKeeps, DeviceKeeps, StutterKeeps
     DEF Next, AppStep, DeviceStep

\* The invariant holds in every reachable state.
LEMMA InvAlways == Spec => []CommandsInv
<1>1. CommandsInv /\ [Next]_vars => CommandsInv'
  BY InvStep
<1> QED
  BY <1>1, InvInit, PTL DEF Spec

\* The variables keep their types, and every operation waits for a command of its
\* own, the inner ones for later commands, however handlers call one another.
THEOREM TypeCorrect == Spec => []TypeOK
<1>1. CommandsInv => TypeOK
  <2> SUFFICES ASSUME CommandsInv PROVE TypeOK
    OBVIOUS
  <2>1. ops \in Seq(Op) /\ DOMAIN ops = 1 .. Len(ops) /\ Len(ops) \in Nat
    BY LenProperties DEF CommandsInv, OpsOK
  <2>2. ASSUME NEW i \in DOMAIN ops
        PROVE  /\ contents[ops[i].cmd].code = ops[i].code
               /\ ops[i].pc = "back" => i = Len(ops)
               /\ i > 1 => ops[i].cmd > ops[i - 1].cmd
    <3>1. /\ Describes(ops[i]) /\ (ops[i].pc = "back" => i = Len(ops))
          /\ \A j \in 1 .. i - 1 : ops[j].cmd < ops[i].cmd
      BY <2>1 DEF CommandsInv, OpsOK
    <3>2. i > 1 => i - 1 \in 1 .. i - 1 /\ i - 1 \in 1 .. Len(ops)
      BY <2>1
    <3>3. \A j \in 1 .. Len(ops) : ops[j].cmd \in Nat
      <4>1. \A j \in 1 .. Len(ops) : ops[j] \in Op
        BY <2>1, ElementOfSeq
      <4> QED
        BY <4>1 DEF Op
    <3>4. ASSUME i > 1 PROVE ops[i].cmd > ops[i - 1].cmd
      <4>1. ops[i - 1].cmd < ops[i].cmd /\ ops[i - 1].cmd \in Nat /\ ops[i].cmd \in Nat
        BY <2>1, <3>1, <3>2, <3>3, <3>4
      <4> QED
        BY <4>1
    <3> QED
      BY <3>1, <3>4 DEF Describes
  <2> QED
    BY <2>2 DEF CommandsInv, DataOK, TypeOK
<1> QED
  BY <1>1, InvAlways, PTL

----------------------------------------------------------------------------
(***************************************************************************)
(* The commands that were sent for an item, and those of start() and stop().*)
(***************************************************************************)
About(i) == {n \in Sets : contents[n].item = i}

\* The commands are numbered from one, each about an item or a run.
LEMMA SetsFacts ==
  ASSUME CommandsInv
  PROVE  /\ asked \in Nat /\ DOMAIN contents = 1 .. asked
         /\ Sets \cup Runs \subseteq 1 .. asked /\ Sets \cap Runs = {}
         /\ \A n \in Sets : contents[n] \in SetContent /\ contents[n].item \in Items
         /\ \A n \in Runs : contents[n].code \in {"start", "stop"}
         /\ executed \in 0 .. asked /\ DOMAIN verdicts = 1 .. executed
         /\ Obeyed \subseteq 1 .. executed
<1>1. /\ asked \in Nat /\ DOMAIN contents = 1 .. asked
      /\ executed \in 0 .. asked /\ DOMAIN verdicts = 1 .. executed
  BY LenProperties DEF CommandsInv, ServiceOK, DataOK
<1>2. \A n \in 1 .. asked : contents[n] \in SetContent \cup RunContent
  BY <1>1, ElementOfSeq, ContentFacts DEF CommandsInv, DataOK
<1>3. \A n \in 1 .. asked :
        IF contents[n].code = "set" THEN contents[n] \in SetContent
                                    ELSE contents[n].code \in {"start", "stop"}
  BY <1>2, ContentFacts
<1>4. \A n \in Sets : contents[n] \in SetContent /\ contents[n].item \in Items
  BY <1>1, <1>3 DEF Sets, SetContent
<1> QED
  BY <1>1, <1>3, <1>4 DEF Sets, Runs, Obeyed

\* A command that is sent is the latest one.
LEMMA SentSets ==
  ASSUME CommandsInv, NEW c \in Content, Send(c)
  PROVE  /\ \A n : n \in Sets' <=> n \in Sets \/ (n = asked + 1 /\ c.code = "set")
         /\ \A n : n \in Runs' <=> n \in Runs \/ (n = asked + 1 /\ c.code # "set")
         /\ \A n \in Sets \cup Runs : contents'[n] = contents[n]
         /\ contents'[asked + 1] = c
<1>1. /\ DOMAIN contents = 1 .. asked /\ DOMAIN contents' = 1 .. asked + 1
      /\ contents'[asked + 1] = c
      /\ \A n \in 1 .. asked : contents'[n] = contents[n]
      /\ asked \in Nat /\ Sets \cup Runs \subseteq 1 .. asked
  BY SendFacts, SetsFacts
<1>2. \A n : n \in 1 .. asked + 1 <=> n \in 1 .. asked \/ n = asked + 1
  BY <1>1
<1> QED
  BY <1>1, <1>2 DEF Sets, Runs

\* What the three steps that send something send.
LEMMA SendingSteps ==
  ASSUME CommandsInv, [Next]_vars
  PROVE  \/ contents' = contents /\ asked' = asked
         \/ BeginUpdate \/ ContinueUpdate
         \/ \E code \in {"start", "stop"} : BeginRun(code)
<1>1. \A op \in Operations \ {"update"} : op \in {"start", "stop"}
  BY CommandsAssumption
<1> QED
  BY <1>1 DEF Next, AppStep, DeviceStep, EndUpdate, EndRun, Return, SetItem, StoreInfo,
              DeviceExecute, DeviceAnswer, DeviceReport, Service!Finish, Service!Execute,
              Service!Answer, vars, serviceVars, hostVars

\* An update() that goes on sends the item after the one confirmed.
LEMMA UpdateSends ==
  ASSUME CommandsInv, BeginUpdate \/ ContinueUpdate
  PROVE  \E u \in Nat, i \in Items :
           LET c == [code |-> "set", update |-> u, item |-> i, value |-> ValueSent(i)]
           IN  /\ c \in Content /\ Send(c) /\ touched' = touched \ {i}
               /\ i = 0 \/ (/\ i = Top.item + 1 /\ u = Top.update /\ ops # << >>
                            /\ Top.pc = "back" /\ Top.code = "set" /\ Top.result = ACK_OK)
               /\ UNCHANGED <<board, running, overlapped, deviceVars>>
<1>1. CASE BeginUpdate
  <2>1. updates + 1 \in Nat /\ 0 \in Items
    BY ItemFacts DEF CommandsInv, DataOK
  <2> QED
    BY <1>1, <2>1, SentContent DEF BeginUpdate, SendItem
<1>2. CASE ContinueUpdate
  <2>1. Top.update \in Nat /\ Top.item + 1 \in Items /\ ops # << >>
    BY <1>2, TopFacts DEF ContinueUpdate, Op
  <2> QED
    BY <1>2, <2>1, SentContent DEF ContinueUpdate, SendItem, GoesOn
<1> QED
  BY <1>1, <1>2

\* A new start() or stop() adds one command, which is no item's.
LEMMA RunSends ==
  ASSUME CommandsInv, NEW code \in {"start", "stop"}, BeginRun(code)
  PROVE  \E c \in Content :
           /\ c.code = code /\ Send(c)
           /\ UNCHANGED <<board, running, touched, deviceVars>>
<1>1. [code |-> code] \in Content
  BY SentContent
<1> QED
  BY <1>1 DEF BeginRun

----------------------------------------------------------------------------
(***************************************************************************)
(* An update() that goes on was obeyed so far.                             *)
(***************************************************************************)
UpdateChain ==
  \A n \in Sets : \A i \in 0 .. (contents[n].item - 1) :
    \E m \in Sets \cap Obeyed :
      m < n /\ contents[m].update = contents[n].update /\ contents[m].item = i

\* Every earlier item of an update was obeyed when the next one is sent.
LEMMA ChainStep ==
  ASSUME CommandsInv, CommandsInv', Grows, UpdateChain, [Next]_vars
  PROVE  UpdateChain'
<1>0. /\ asked \in Nat /\ Sets \subseteq 1 .. asked /\ Obeyed \subseteq 1 .. executed
      /\ executed \in 0 .. asked
      /\ \A n \in Sets : contents[n].item \in Items /\ contents'[n] = contents[n]
  BY SetsFacts DEF Grows
<1>1. Obeyed \subseteq Obeyed'
  <2>1. verdicts' \in Seq({"obeyed", "refused"}) /\ Len(verdicts') = executed'
    BY DEF CommandsInv, DataOK
  <2>2. DOMAIN verdicts' = 1 .. executed' /\ DOMAIN verdicts = 1 .. executed
    BY <2>1, LenProperties, SetsFacts
  <2>3. executed \in Nat /\ executed' \in Nat /\ executed <= executed'
    BY <1>0 DEF Grows
  <2> QED
    BY <2>2, <2>3 DEF Grows, Obeyed
<1>2. CASE contents' = contents
  BY <1>1, <1>2 DEF UpdateChain, Sets
<1>3. ASSUME NEW c \in Content, Send(c),
             c.code = "set" =>
               \A i \in 0 .. (c.item - 1) :
                 \E m \in Sets \cap Obeyed :
                   contents[m].update = c.update /\ contents[m].item = i
      PROVE  UpdateChain'
  <2>1. /\ \A n : n \in Sets' <=> n \in Sets \/ (n = asked + 1 /\ c.code = "set")
        /\ contents'[asked + 1] = c
    BY <1>3, SentSets
  <2>2. ASSUME NEW n \in Sets, NEW i \in 0 .. (contents'[n].item - 1)
        PROVE  \E m \in Sets' \cap Obeyed' :
                 /\ m < n /\ contents'[m].update = contents'[n].update
                 /\ contents'[m].item = i
    <3>1. PICK m \in Sets \cap Obeyed :
            m < n /\ contents[m].update = contents[n].update /\ contents[m].item = i
      BY <1>0, <2>2 DEF UpdateChain
    <3> QED
      BY <1>0, <1>1, <2>1, <3>1
  <2>3. ASSUME c.code = "set", NEW i \in 0 .. (c.item - 1)
        PROVE  \E m \in Sets' \cap Obeyed' :
                 /\ m < asked + 1 /\ contents'[m].update = c.update /\ contents'[m].item = i
    <3>1. PICK m \in Sets \cap Obeyed :
            contents[m].update = c.update /\ contents[m].item = i
      BY <1>3, <2>3
    <3>2. m < asked + 1
      BY <1>0, <3>1
    <3> QED
      BY <1>0, <1>1, <2>1, <3>1, <3>2
  <2> QED
    BY <2>1, <2>2, <2>3 DEF UpdateChain
<1>4. CASE BeginUpdate \/ ContinueUpdate
  <2>1. PICK u \in Nat, i \in Items, c \in Content :
          /\ c = [code |-> "set", update |-> u, item |-> i, value |-> ValueSent(i)]
          /\ Send(c)
          /\ i = 0 \/ (/\ i = Top.item + 1 /\ u = Top.update /\ ops # << >>
                       /\ Top.pc = "back" /\ Top.code = "set" /\ Top.result = ACK_OK)
    BY <1>4, UpdateSends
  <2>2. c.code = "set" /\ c.update = u /\ c.item = i /\ i \in Nat
    BY <2>1, ItemFacts
  <2>3. CASE i = 0
    BY <1>3, <2>1, <2>2, <2>3
  <2>4. CASE i # 0
    <3> DEFINE t == Top.cmd
    <3>1. /\ t \in 1 .. asked /\ contents[t].code = "set" /\ contents[t].update = u
          /\ contents[t].item = Top.item /\ i = Top.item + 1 /\ Top.item \in Nat
          /\ <<t, ACK_OK>> \in outcomes
      BY <2>1, <2>4, TopFacts, ItemFacts DEF Describes, Op
    <3> HIDE DEF t
    <3>2. t \in Sets \cap Obeyed
      BY <3>1, SetsFacts DEF Sets, CommandsInv, ServiceOK
    <3>3. \A j \in 0 .. (i - 1) :
            \E m \in Sets \cap Obeyed : contents[m].update = u /\ contents[m].item = j
      <4> TAKE j \in 0 .. (i - 1)
      <4>1. j = contents[t].item \/ j \in 0 .. (contents[t].item - 1)
        BY <3>1
      <4> QED
        BY <3>1, <3>2, <4>1 DEF UpdateChain
    <3> QED
      BY <1>3, <2>1, <2>2, <3>3
  <2> QED
    BY <2>3, <2>4
<1>5. ASSUME NEW code \in {"start", "stop"}, BeginRun(code) PROVE UpdateChain'
  BY <1>3, <1>5, RunSends
<1> QED
  BY <1>2, <1>4, <1>5, SendingSteps

\* Whatever is lost, refused, or executed after its sender gave up, and however
\* handlers call update() within update(): what the device has obeyed of an
\* update() is a beginning of it.
THEOREM UpdatesAreObeyedInOrder == Spec => []UpdatePrefix
<1>1. Init => UpdateChain
  BY EmptySeq DEF Init, UpdateChain, Sets
<1>2. CommandsInv /\ UpdateChain /\ [Next]_vars => UpdateChain'
  BY InvStep, ChainStep
<1>3. CommandsInv /\ UpdateChain => UpdatePrefix
  BY DEF UpdateChain, UpdatePrefix, Obeyed
<1> QED
  BY <1>1, <1>2, <1>3, InvAlways, PTL DEF Spec

----------------------------------------------------------------------------
(***************************************************************************)
(* Both sides have what the latest commands say.                           *)
(***************************************************************************)
Latest(S, m) == m \in S /\ \A k \in S : k <= m

\* The latest command of a set is its maximum.
LEMMA LatestIsMax ==
  ASSUME NEW S \in SUBSET Nat, NEW m, Latest(S, m)
  PROVE  Max(S) = m /\ m \in Nat
<1>1. m \in S /\ m \in Nat /\ \A k \in S : m >= k
  BY DEF Latest
<1>2. \A x \in S : (\A y \in S : x >= y) => x = m
  BY <1>1
<1> QED
  BY <1>1, <1>2 DEF Max

\* A command that carries a value carries this one.
Carries(c, v) == c.value # {} => c.value = {v}

\* The board is what was sent last, and the device what it obeyed last.
BoardLast ==
  \A i \in Items :
    \/ About(i) = {}
    \/ \E m : Latest(About(i), m) /\ (i \notin touched => contents[m].value = ValueSent(i))

DeviceLast ==
  \A i \in Items :
    \/ About(i) \cap Obeyed = {}
    \/ \E m : Latest(About(i) \cap Obeyed, m) /\ Carries(contents[m], device[i])

\* The board keeps what was sent last of an item that nobody changed since.
LEMMA BoardStep ==
  ASSUME CommandsInv, BoardLast, [Next]_vars
  PROVE  BoardLast'
<1>0. /\ asked \in Nat /\ Sets \subseteq 1 .. asked
      /\ \A i : About(i) \subseteq Sets
  BY SetsFacts DEF About
<1>1. CASE contents' = contents
  <2>1. \A i \in Items : i \notin touched' => i \notin touched /\ board'[i] = board[i]
    <3>1. CASE StoreInfo
      <4> DEFINE report == Head(info)
      <4>1. /\ board' = [i \in Items |-> IF i \in DOMAIN report THEN report[i] ELSE board[i]]
            /\ touched' = touched \cup DOMAIN report
        BY <3>1 DEF StoreInfo
      <4> HIDE DEF report
      <4> QED
        BY <4>1
    <3>2. ASSUME NEW j \in Items, NEW v \in Values, SetItem(j, v)
          PROVE  \A i \in Items : i \notin touched' => i \notin touched /\ board'[i] = board[i]
      BY <3>2 DEF SetItem, CommandsInv, DataOK
    <3>3. CASE UNCHANGED <<board, touched>>
      BY <3>3
    <3>4. ~ (BeginUpdate \/ ContinueUpdate) /\ \A code \in {"start", "stop"} : ~ BeginRun(code)
      <4>1. \A c \in Content : ~ Send(c)
        BY <1>0, <1>1, SendFacts
      <4> QED
        BY <4>1, UpdateSends, RunSends
    <3>5. \A op \in Operations \ {"update"} : op \in {"start", "stop"}
      BY CommandsAssumption
    <3> QED
      BY <3>1, <3>2, <3>3, <3>4, <3>5
         DEF Next, AppStep, DeviceStep, EndUpdate, EndRun, Return, DeviceExecute,
             DeviceAnswer, DeviceReport, vars, hostVars
  <2>2. \A i \in Items : About(i)' = About(i)
    BY <1>1 DEF About, Sets
  <2> QED
    BY <1>1, <2>1, <2>2 DEF BoardLast, ValueSent
<1>2. CASE BeginUpdate \/ ContinueUpdate
  <2>1. PICK u \in Nat, j \in Items, c \in Content :
          /\ c = [code |-> "set", update |-> u, item |-> j, value |-> ValueSent(j)]
          /\ Send(c) /\ touched' = touched \ {j} /\ UNCHANGED board
    BY <1>2, UpdateSends
  <2>2. c.code = "set" /\ c.item = j /\ c.value = ValueSent(j)
    BY <2>1
  <2>3. /\ \A n : n \in Sets' <=> n \in Sets \/ n = asked + 1
        /\ \A n \in Sets : contents'[n] = contents[n]
        /\ contents'[asked + 1] = c
    BY <2>1, <2>2, SentSets
  <2>4. \A n : n \in About(j)' <=> n \in About(j) \/ n = asked + 1
    BY <1>0, <2>2, <2>3 DEF About
  <2>5. Latest(About(j)', asked + 1)
    <3>1. \A k \in About(j) : k <= asked + 1
      <4>1. \A k \in 1 .. asked : k <= asked + 1
        BY <1>0
      <4> QED
        BY <1>0, <4>1
    <3>2. asked + 1 \in About(j)' /\ asked + 1 <= asked + 1
      BY <1>0, <2>4
    <3> QED
      BY <2>4, <3>1, <3>2 DEF Latest
  <2>6. ASSUME NEW i \in Items, i # j PROVE About(i)' = About(i)
    <3>1. \A n : n \in About(i)' <=> n \in About(i)
      BY <1>0, <2>2, <2>3, <2>6 DEF About
    <3> QED
      BY <3>1
  <2>7. ASSUME NEW i \in Items, i # j
        PROVE  \/ About(i)' = {}
               \/ \E m : Latest(About(i)', m) /\ (i \notin touched' => contents'[m].value = ValueSent(i)')
    BY <1>0, <2>1, <2>3, <2>6, <2>7 DEF BoardLast, Latest, ValueSent
  <2>8. \E m : Latest(About(j)', m) /\ contents'[m].value = ValueSent(j)'
    BY <2>1, <2>2, <2>3, <2>5 DEF ValueSent
  <2> QED
    BY <2>7, <2>8 DEF BoardLast
<1>3. ASSUME NEW code \in {"start", "stop"}, BeginRun(code) PROVE BoardLast'
  <2>1. PICK c \in Content : c.code = code /\ Send(c) /\ UNCHANGED <<board, touched>>
    BY <1>3, RunSends
  <2>2. /\ \A n : n \in Sets' <=> n \in Sets
        /\ \A n \in Sets : contents'[n] = contents[n]
    BY <2>1, SentSets
  <2>3. \A i \in Items : About(i)' = About(i)
    BY <2>2 DEF About
  <2> QED
    BY <1>0, <2>1, <2>2, <2>3 DEF BoardLast, Latest, ValueSent
<1> QED
  BY <1>1, <1>2, <1>3, SendingSteps

\* Only the device's own steps change what it has obeyed.
LEMMA ObeyingSteps ==
  ASSUME CommandsInv, [Next]_vars
  PROVE  \/ UNCHANGED <<device, sampling, verdicts>>
         \/ \E verdict \in {"obeyed", "refused"} : DeviceExecute(verdict)
BY DEF Next, AppStep, DeviceStep, BeginUpdate, ContinueUpdate, BeginRun, EndUpdate, EndRun,
       Return, SetItem, StoreInfo, DeviceAnswer, DeviceReport, vars, hostVars, deviceVars

\* Executing adds the next command to the obeyed ones, or nothing.
LEMMA ExecuteFacts ==
  ASSUME CommandsInv, NEW verdict \in {"obeyed", "refused"}, DeviceExecute(verdict)
  PROVE  LET n == executed + 1
         IN  /\ n \in 1 .. asked /\ \A k \in Obeyed : k < n
             /\ Obeyed' = IF verdict = "obeyed" THEN Obeyed \cup {n} ELSE Obeyed
             /\ IF verdict = "obeyed" THEN Obey(contents[n]) ELSE UNCHANGED <<device, sampling>>
             /\ UNCHANGED <<contents, asked>>
<1>1. /\ executed + 1 \in 1 .. asked
      /\ Obeyed' = IF verdict = "obeyed" THEN Obeyed \cup {executed + 1} ELSE Obeyed
  BY ExecuteKeeps
<1>2. \A k \in Obeyed : k < executed + 1
  BY SetsFacts
<1> QED
  BY <1>1, <1>2 DEF DeviceExecute, Service!Execute, hostVars

\* The device keeps the value of the latest command about an item that it obeyed.
LEMMA DeviceStepKeeps ==
  ASSUME CommandsInv, CommandsInv', Grows, DeviceLast, [Next]_vars
  PROVE  DeviceLast'
<1>0. /\ asked \in Nat /\ executed \in 0 .. asked /\ Sets \subseteq 1 .. asked
      /\ Obeyed \subseteq 1 .. executed
      /\ \A n \in Sets : contents[n] \in SetContent /\ contents'[n] = contents[n]
      /\ \A i : About(i) \subseteq Sets
  BY SetsFacts DEF About, Grows
<1>1. CASE UNCHANGED <<device, sampling, verdicts>>
  <2>1. Obeyed' = Obeyed
    BY <1>1 DEF Obeyed
  <2>2. \A n \in 1 .. asked : n \in Sets' <=> n \in Sets
    <3>1. CASE contents' = contents
      BY <3>1 DEF Sets
    <3>2. ASSUME NEW c \in Content, Send(c)
          PROVE  \A n \in 1 .. asked : n \in Sets' <=> n \in Sets
      BY <1>0, <3>2, SentSets
    <3> QED
      BY <3>1, <3>2, SendingSteps, UpdateSends, RunSends
  <2>3. ASSUME NEW i \in Items PROVE (About(i) \cap Obeyed)' = About(i) \cap Obeyed
    <3>1. \A n \in Obeyed : n \in 1 .. asked
      BY <1>0
    <3>2. \A n \in Obeyed : n \in About(i)' <=> n \in About(i)
      BY <1>0, <2>2, <3>1 DEF About
    <3> QED
      BY <2>1, <3>2
  <2>4. \A i \in Items : \A m \in About(i) \cap Obeyed : contents'[m] = contents[m]
    BY <1>0
  <2> QED
    BY <1>1, <2>3, <2>4 DEF DeviceLast, Latest
<1>2. ASSUME NEW verdict \in {"obeyed", "refused"}, DeviceExecute(verdict) PROVE DeviceLast'
  <2>0. PICK n \in Nat : n = executed + 1
    BY <1>0
  <2>1. /\ n \in 1 .. asked /\ \A k \in Obeyed : k < n
        /\ Obeyed' = IF verdict = "obeyed" THEN Obeyed \cup {n} ELSE Obeyed
        /\ IF verdict = "obeyed" THEN Obey(contents[n]) ELSE UNCHANGED <<device, sampling>>
        /\ contents' = contents
    BY <1>2, <2>0, ExecuteFacts
  <2>2. Sets' = Sets /\ \A i \in Items : About(i)' = About(i)
    BY <2>1 DEF About, Sets
  <2>3. CASE verdict # "obeyed" \/ n \notin Sets
    <3>1. device' = device
      <4>1. n \notin Sets => contents[n].code # "set"
        BY <2>1, SetsFacts DEF Sets
      <4> QED
        BY <2>1, <2>3, <4>1 DEF Obey
    <3>2. \A i \in Items : (About(i) \cap Obeyed)' = About(i) \cap Obeyed
      BY <1>0, <2>1, <2>2, <2>3
    <3> QED
      BY <2>1, <3>1, <3>2 DEF DeviceLast
  <2>4. CASE verdict = "obeyed" /\ n \in Sets
    <3>0. PICK j \in Items : j = contents[n].item
      BY <2>4, SetsFacts
    <3>1. PICK v : /\ contents[n].code = "set"
                   /\ Carries(contents[n], v)
                   /\ device' = [device EXCEPT ![j] = v]
                   /\ device \in [Items -> Values]
      <4>1. contents[n].code = "set" /\ contents[n].value \in Payloads
        BY <2>4, SetsFacts DEF SetContent
      <4>2. PICK v \in IF contents[n].value = {} THEN Values ELSE contents[n].value :
              device' = [device EXCEPT ![j] = v]
        BY <2>1, <2>4, <3>0, <4>1 DEF Obey
      <4>3. Carries(contents[n], v)
        BY <4>1, <4>2 DEF Carries, Payloads
      <4> QED
        BY <4>1, <4>2, <4>3 DEF CommandsInv, DataOK
    <3>2. n \in About(j) /\ \A i \in Items : i # j => n \notin About(i)
      BY <2>4, <3>0 DEF About
    <3>3. ASSUME NEW i \in Items, i # j
          PROVE  /\ (About(i) \cap Obeyed)' = About(i) \cap Obeyed /\ device'[i] = device[i]
      BY <2>1, <2>2, <2>4, <3>1, <3>2, <3>3
    <3>4. (About(j) \cap Obeyed)' = (About(j) \cap Obeyed) \cup {n}
      BY <2>1, <2>2, <2>4, <3>1, <3>2
    <3>5. Latest((About(j) \cap Obeyed)', n)
      <4>1. \A k \in Obeyed : k <= n
        BY <1>0, <2>1
      <4>2. n <= n
        BY <2>1
      <4> QED
        BY <3>4, <4>1, <4>2 DEF Latest
    <3>6. Carries(contents'[n], device'[j])
      BY <2>1, <3>1
    <3> QED
      BY <2>1, <3>3, <3>5, <3>6 DEF DeviceLast
  <2> QED
    BY <2>3, <2>4
<1> QED
  BY <1>1, <1>2, ObeyingSteps

\* A confirmed command was obeyed.
LEMMA ConfirmedIsObeyed ==
  ASSUME CommandsInv
  PROVE  Confirmed \subseteq Obeyed
<1>1. \A n \in Confirmed : n \in 1 .. asked /\ <<n, ACK_OK>> \in outcomes
  BY SetsFacts DEF Confirmed
<1> QED
  BY <1>1 DEF CommandsInv, ServiceOK

\* The board shows what the device has of every item but the combos whose last command
\* was confirmed and that nobody has changed since, although commands of calls that
\* gave up are still executed, and whatever handlers do in the middle of an update().
THEOREM BoardFollowsDevice == Spec => []BoardInStep
<1>1. Init => BoardLast /\ DeviceLast
  BY EmptySeq DEF Init, BoardLast, DeviceLast, About, Sets
<1>2. CommandsInv /\ BoardLast /\ DeviceLast /\ [Next]_vars => BoardLast' /\ DeviceLast'
  BY InvStep, BoardStep, DeviceStepKeeps
<1>3. CommandsInv /\ BoardLast /\ DeviceLast => BoardInStep
  <2> SUFFICES ASSUME CommandsInv, BoardLast, DeviceLast, NEW i \in Items \ (touched \cup Combos),
                      About(i) # {}, Max(About(i)) \in Confirmed
               PROVE  board[i] = device[i]
    BY DEF BoardInStep, About
  <2>1. About(i) \subseteq Nat /\ Obeyed \subseteq Nat
    BY SetsFacts DEF About
  <2>2. PICK m : Latest(About(i), m) /\ contents[m].value = {board[i]}
    BY DEF BoardLast, ValueSent
  <2>3. m = Max(About(i)) /\ m \in Nat
    BY <2>1, <2>2, LatestIsMax
  <2>4. m \in About(i) \cap Obeyed
    BY <2>2, <2>3, ConfirmedIsObeyed DEF Latest
  <2>5. PICK k : Latest(About(i) \cap Obeyed, k) /\ Carries(contents[k], device[i])
    BY <2>4 DEF DeviceLast
  <2>6. k \in Nat /\ k <= m /\ m <= k
    BY <2>1, <2>2, <2>4, <2>5 DEF Latest
  <2>7. k = m
    BY <2>3, <2>6
  <2> QED
    BY <2>2, <2>5, <2>7 DEF Carries
<1> QED
  BY <1>1, <1>2, <1>3, InvAlways, PTL DEF Spec

----------------------------------------------------------------------------
(***************************************************************************)
(* m_running follows the last start() or stop() that was confirmed.        *)
(***************************************************************************)

\* Some operation still waits for the command, or has not looked at its result.
Held(n) == \E i \in 1 .. Len(ops) : ops[i].cmd = n

DoneRuns == {n \in Runs \cap Confirmed : ~ Held(n)}

\* Unless one of start() and stop() is called inside the other, the one that is
\* held is the latest.
HeldLast == ~ overlapped => \A n \in Runs : Held(n) => \A k \in Runs : k <= n

RunningLast ==
  ~ overlapped =>
    \/ DoneRuns = {} /\ ~ running
    \/ \E m : Latest(DoneRuns, m) /\ (running <=> contents[m].code = "start")

RunsLast == Runs = {} \/ \E m : Latest(Runs, m)

SamplingLast ==
  \/ Runs \cap Obeyed = {} /\ ~ sampling
  \/ \E m : Latest(Runs \cap Obeyed, m) /\ (sampling <=> contents[m].code = "start")

RunsInv == HeldLast /\ RunningLast /\ RunsLast /\ SamplingLast

\* A command an operation is about was sent.
LEMMA HeldFacts ==
  ASSUME CommandsInv
  PROVE  /\ \A i \in 1 .. Len(ops) : /\ ops[i].cmd \in 1 .. asked
                                     /\ ops[i].cmd \in Runs <=> ops[i].code # "set"
         /\ \A n : Held(n) => n \in 1 .. asked
<1>1. DOMAIN contents = 1 .. asked
  BY SetsFacts
<1>2. ASSUME NEW i \in 1 .. Len(ops)
      PROVE  ops[i].cmd \in 1 .. asked /\ (ops[i].cmd \in Runs <=> ops[i].code # "set")
  <2>1. Describes(ops[i])
    BY DEF CommandsInv, OpsOK
  <2> QED
    BY <1>1, <2>1 DEF Describes, Runs
<1> QED
  BY <1>2 DEF Held

\* The innermost operation holds its command, and no other holds the same.
LEMMA HeldTop ==
  ASSUME CommandsInv, ops # << >>
  PROVE  /\ Held(Top.cmd)
         /\ \A n : Held(n) <=> n = Top.cmd \/ \E i \in 1 .. Len(ops) - 1 : ops[i].cmd = n
         /\ \A i \in 1 .. Len(ops) - 1 : ops[i].cmd # Top.cmd
         /\ Top.cmd \in Runs <=> Top.code # "set"
<1>1. Len(ops) \in Nat \ {0} /\ Top = ops[Len(ops)]
  BY OuterFacts DEF CommandsInv, OpsOK
<1>2. /\ Len(ops) \in 1 .. Len(ops)
      /\ \A i \in 1 .. Len(ops) : i = Len(ops) \/ i \in 1 .. Len(ops) - 1
      /\ \A i \in 1 .. Len(ops) - 1 : i \in 1 .. Len(ops)
  BY <1>1
<1>3. ASSUME NEW i \in 1 .. Len(ops) - 1 PROVE ops[i].cmd # Top.cmd
  <2>1. ops[i].cmd < Top.cmd /\ Top.cmd \in Nat
    BY TopFacts
  <2>2. ops[i].cmd \in 1 .. asked /\ asked \in Nat
    BY <1>2, HeldFacts, SetsFacts
  <2> QED
    BY <2>1, <2>2
<1> QED
  BY <1>1, <1>2, <1>3, HeldFacts DEF Held

\* What the ways of changing ops do to the commands that are held.
LEMMA HeldPush ==
  ASSUME CommandsInv, NEW op \in Op, ops' = Append(ops, op)
  PROVE  \A n : Held(n)' <=> Held(n) \/ n = op.cmd
<1>1. /\ Len(ops) \in Nat /\ Len(ops') = Len(ops) + 1 /\ ops'[Len(ops) + 1] = op
      /\ \A i \in 1 .. Len(ops) : ops'[i] = ops[i]
  BY Extended DEF CommandsInv, OpsOK
<1>2. /\ \A i \in 1 .. Len(ops') : i \in 1 .. Len(ops) \/ i = Len(ops) + 1
      /\ \A i \in 1 .. Len(ops) : i \in 1 .. Len(ops')
      /\ Len(ops) + 1 \in 1 .. Len(ops')
  BY <1>1
<1> QED
  BY <1>1, <1>2 DEF Held

\* An operation that goes on to a new command holds that one instead.
LEMMA HeldReplace ==
  ASSUME CommandsInv, ops # << >>, NEW op \in Op, ops' = Append(Outer, op)
  PROVE  \A n : Held(n)' <=> (Held(n) /\ n # Top.cmd) \/ n = op.cmd
<1>1. /\ Len(ops) \in Nat \ {0} /\ Len(ops') = Len(ops) /\ ops'[Len(ops)] = op
      /\ \A i \in 1 .. Len(ops) - 1 : ops'[i] = ops[i]
  BY OuterFacts, ReplaceFacts DEF CommandsInv, OpsOK
<1>2. /\ \A i \in 1 .. Len(ops') : i \in 1 .. Len(ops) - 1 \/ i = Len(ops)
      /\ \A i \in 1 .. Len(ops) - 1 : i \in 1 .. Len(ops')
      /\ Len(ops) \in 1 .. Len(ops')
  BY <1>1
<1>3. \A n : Held(n)' <=> n = op.cmd \/ \E i \in 1 .. Len(ops) - 1 : ops[i].cmd = n
  BY <1>1, <1>2 DEF Held
<1> QED
  BY <1>3, HeldTop

\* An operation that ends lets go of its command, and no other does.
LEMMA HeldPop ==
  ASSUME CommandsInv, ops # << >>, ops' = Outer
  PROVE  \A n : Held(n)' <=> Held(n) /\ n # Top.cmd
<1>1. /\ Len(ops) \in Nat \ {0} /\ Len(ops') = Len(ops) - 1
      /\ \A i \in 1 .. Len(ops) - 1 : ops'[i] = ops[i]
  BY OuterFacts DEF CommandsInv, OpsOK
<1>2. \A n : Held(n)' <=> \E i \in 1 .. Len(ops) - 1 : ops[i].cmd = n
  BY <1>1 DEF Held
<1> QED
  BY <1>2, HeldTop

\* The latest START or STOP stays so until the next one is sent.
LEMMA RunsLastStep ==
  ASSUME CommandsInv, RunsLast, [Next]_vars
  PROVE  RunsLast'
<1>0. asked \in Nat /\ Runs \subseteq 1 .. asked
  BY SetsFacts
<1>1. CASE contents' = contents
  BY <1>1 DEF RunsLast, Runs
<1>2. CASE BeginUpdate \/ ContinueUpdate
  <2>1. PICK c \in Content : c.code = "set" /\ Send(c)
    BY <1>2, UpdateSends
  <2>2. Runs' = Runs
    BY <2>1, SentSets
  <2> QED
    BY <2>2 DEF RunsLast
<1>3. ASSUME NEW code \in {"start", "stop"}, BeginRun(code) PROVE RunsLast'
  <2>1. \A n : n \in Runs' <=> n \in Runs \/ n = asked + 1
    BY <1>3, RunSends, SentSets
  <2>2. \A n \in Runs : n <= asked + 1
    <3>1. \A n \in 1 .. asked : n <= asked + 1
      BY <1>0
    <3> QED
      BY <1>0, <3>1
  <2>3. asked + 1 <= asked + 1
    BY <1>0
  <2> QED
    BY <2>1, <2>2, <2>3 DEF RunsLast, Latest
<1> QED
  BY <1>1, <1>2, <1>3, SendingSteps

\* The device samples as the latest START or STOP that it obeyed says.
LEMMA SamplingStep ==
  ASSUME CommandsInv, CommandsInv', Grows, SamplingLast, [Next]_vars
  PROVE  SamplingLast'
<1>0. /\ asked \in Nat /\ executed \in 0 .. asked /\ Runs \subseteq 1 .. asked
      /\ Obeyed \subseteq 1 .. executed
      /\ \A n \in Runs : contents'[n] = contents[n]
  BY SetsFacts DEF Grows
<1>1. CASE UNCHANGED <<device, sampling, verdicts>>
  <2>1. Obeyed' = Obeyed
    BY <1>1 DEF Obeyed
  <2>2. \A n \in 1 .. asked : n \in Runs' <=> n \in Runs
    <3>1. CASE contents' = contents
      BY <3>1 DEF Runs
    <3>2. ASSUME NEW c \in Content, Send(c)
          PROVE  \A n \in 1 .. asked : n \in Runs' <=> n \in Runs
      BY <1>0, <3>2, SentSets
    <3> QED
      BY <3>1, <3>2, SendingSteps, UpdateSends, RunSends
  <2>3. (Runs \cap Obeyed)' = Runs \cap Obeyed
    <3>1. \A n \in Obeyed : n \in 1 .. asked
      BY <1>0
    <3> QED
      BY <2>1, <2>2, <3>1
  <2> QED
    BY <1>0, <1>1, <2>3 DEF SamplingLast, Latest
<1>2. ASSUME NEW verdict \in {"obeyed", "refused"}, DeviceExecute(verdict) PROVE SamplingLast'
  <2>0. PICK n \in Nat : n = executed + 1
    BY <1>0
  <2>1. /\ n \in 1 .. asked /\ \A k \in Obeyed : k < n
        /\ Obeyed' = IF verdict = "obeyed" THEN Obeyed \cup {n} ELSE Obeyed
        /\ IF verdict = "obeyed" THEN Obey(contents[n]) ELSE UNCHANGED <<device, sampling>>
        /\ contents' = contents
    BY <1>2, <2>0, ExecuteFacts
  <2>2. Runs' = Runs
    BY <2>1 DEF Runs
  <2>3. CASE verdict # "obeyed" \/ n \notin Runs
    <3>1. sampling' = sampling
      <4>1. n \notin Runs => contents[n].code = "set"
        BY <2>1, SetsFacts DEF Runs
      <4> QED
        BY <2>1, <2>3, <4>1 DEF Obey
    <3>2. (Runs \cap Obeyed)' = Runs \cap Obeyed
      BY <2>1, <2>2, <2>3
    <3> QED
      BY <2>1, <3>1, <3>2 DEF SamplingLast
  <2>4. CASE verdict = "obeyed" /\ n \in Runs
    <3>1. sampling' = (contents[n].code = "start")
      BY <2>1, <2>4 DEF Obey, Runs
    <3>2. (Runs \cap Obeyed)' = (Runs \cap Obeyed) \cup {n}
      BY <2>1, <2>2, <2>4
    <3>3. Latest((Runs \cap Obeyed)', n)
      <4>1. \A k \in Obeyed : k <= n
        BY <1>0, <2>1
      <4>2. n <= n
        OBVIOUS
      <4> QED
        BY <3>2, <4>1, <4>2 DEF Latest
    <3>4. contents' = contents
      BY <2>1
    <3> QED
      BY <3>1, <3>3, <3>4 DEF SamplingLast
  <2> QED
    BY <2>3, <2>4
<1> QED
  BY <1>1, <1>2, ObeyingSteps

\* The steps that leave m_running and start() and stop() alone.
LEMMA SameRunsKeep ==
  ASSUME CommandsInv, Grows, HeldLast, RunningLast,
         UNCHANGED <<running, overlapped>>, Runs' = Runs,
         \A n \in Runs : Held(n)' <=> Held(n),
         \A n \in Runs : ~ Held(n) => (n \in Confirmed' <=> n \in Confirmed)
  PROVE  HeldLast' /\ RunningLast'
<1>1. HeldLast'
  BY DEF HeldLast
<1>2. DoneRuns' = DoneRuns
  BY DEF DoneRuns
<1>3. \A n \in DoneRuns : contents'[n] = contents[n]
  BY SetsFacts DEF DoneRuns, Grows
<1>4. RunningLast'
  BY <1>2, <1>3 DEF RunningLast, Latest
<1> QED
  BY <1>1, <1>4

\* What was confirmed is not among what is sent.
LEMMA SentConfirmed ==
  ASSUME CommandsInv, NEW c \in Content, Send(c)
  PROVE  Confirmed' = Confirmed /\ ~ Held(asked + 1) /\ asked + 1 \notin Confirmed
<1>1. /\ DOMAIN contents = 1 .. asked /\ DOMAIN contents' = 1 .. asked + 1
      /\ outcomes' = outcomes /\ asked \in Nat
  BY SendFacts, SetsFacts
<1>2. asked + 1 \notin 1 .. asked /\ 1 .. asked \subseteq 1 .. asked + 1
  BY <1>1
<1>3. \A n : <<n, ACK_OK>> \in outcomes => n \in 1 .. asked
  BY DEF CommandsInv, ServiceOK
<1> QED
  BY <1>1, <1>2, <1>3, HeldFacts DEF Confirmed

\* update() leaves the runs alone.
LEMMA UpdateKeepsRuns ==
  ASSUME CommandsInv, Grows, HeldLast, RunningLast, BeginUpdate \/ ContinueUpdate
  PROVE  HeldLast' /\ RunningLast'
<1>1. PICK c \in Content : c.code = "set" /\ Send(c) /\ UNCHANGED <<running, overlapped>>
  BY UpdateSends
<1>2. /\ Runs' = Runs /\ Confirmed' = Confirmed
      /\ asked \in Nat /\ Runs \subseteq 1 .. asked /\ asked + 1 \notin Runs
  BY <1>1, SentSets, SentConfirmed, SetsFacts
<1>3. \A n \in Runs : Held(n)' <=> Held(n)
  <2>1. CASE BeginUpdate
    <3>1. PICK op : op = Waiting("set", updates + 1, 0)
      OBVIOUS
    <3>2. op \in Op /\ op.cmd = asked + 1 /\ ops' = Append(ops, op)
      BY <1>2, <2>1, <3>1, ItemFacts
         DEF BeginUpdate, Waiting, Op, AnyResult, CommandsInv, DataOK
    <3> QED
      BY <1>2, <3>2, HeldPush
  <2>2. CASE ContinueUpdate
    <3>1. PICK op : op = Waiting("set", Top.update, Top.item + 1)
      OBVIOUS
    <3>2. /\ ops # << >> /\ Top.item + 1 \in Items /\ Top.code = "set"
          /\ ops' = Append(Outer, op)
      BY <2>2, <3>1 DEF ContinueUpdate
    <3>3. Top.update \in Nat
      BY <3>2, TopFacts DEF Op
    <3>4. op \in Op /\ op.cmd = asked + 1
      BY <1>2, <3>1, <3>2, <3>3 DEF Waiting, Op, AnyResult
    <3>5. Top.cmd \notin Runs
      BY <3>2, HeldTop
    <3> QED
      BY <1>2, <3>2, <3>4, <3>5, HeldReplace
  <2> QED
    BY <2>1, <2>2
<1> QED
  BY <1>1, <1>2, <1>3, SameRunsKeep

\* A new start() or stop() is the latest run, and has not ended.
LEMMA BeginRunKeepsRuns ==
  ASSUME CommandsInv, Grows, HeldLast, RunningLast,
         NEW code \in {"start", "stop"}, BeginRun(code)
  PROVE  HeldLast' /\ RunningLast'
<1>1. PICK c \in Content : c.code = code /\ Send(c) /\ UNCHANGED running
  BY RunSends
<1>2. /\ \A n : n \in Runs' <=> n \in Runs \/ n = asked + 1
      /\ Confirmed' = Confirmed /\ ~ Held(asked + 1) /\ asked + 1 \notin Confirmed
      /\ asked \in Nat /\ Runs \subseteq 1 .. asked
  BY <1>1, SentSets, SentConfirmed, SetsFacts
<1>3. \A n : Held(n)' <=> Held(n) \/ n = asked + 1
  <2>1. PICK op : op = Waiting(code, 0, 0)
    OBVIOUS
  <2>2. op \in Op /\ op.cmd = asked + 1 /\ ops' = Append(ops, op)
    BY <1>2, <2>1, ItemFacts DEF BeginRun, Waiting, Op, AnyResult
  <2> QED
    BY <2>2, HeldPush
<1>4. ~ overlapped' => ~ overlapped /\ \A n \in Runs : ~ Held(n)
  <2> SUFFICES ASSUME ~ overlapped' PROVE ~ overlapped /\ \A n \in Runs : ~ Held(n)
    OBVIOUS
  <2>1. ~ overlapped /\ \A i \in DOMAIN ops : ops[i].code = "set"
    BY DEF BeginRun
  <2>2. DOMAIN ops = 1 .. Len(ops)
    BY LenProperties DEF CommandsInv, OpsOK
  <2> QED
    BY <2>1, <2>2, HeldFacts DEF Held
<1>5. HeldLast'
  <2>1. \A k \in Runs' : k <= asked + 1
    <3>1. (\A k \in 1 .. asked : k <= asked + 1) /\ asked + 1 <= asked + 1
      BY <1>2
    <3> QED
      BY <1>2, <3>1
  <2>2. ~ overlapped' => \A n \in Runs' : Held(n)' => n = asked + 1
    BY <1>2, <1>3, <1>4
  <2> QED
    BY <2>1, <2>2 DEF HeldLast
<1>6. DoneRuns' = DoneRuns
  BY <1>2, <1>3 DEF DoneRuns
<1>7. \A n \in DoneRuns : contents'[n] = contents[n]
  BY SetsFacts DEF DoneRuns, Grows
<1>8. RunningLast'
  BY <1>1, <1>4, <1>6, <1>7 DEF RunningLast, Latest
<1> QED
  BY <1>5, <1>8

\* A start() or stop() that ends confirmed sets m_running.
LEMMA EndKeepsRuns ==
  ASSUME CommandsInv, Grows, HeldLast, RunningLast, EndUpdate \/ EndRun
  PROVE  HeldLast' /\ RunningLast'
<1>1. /\ ops # << >> /\ ops' = Outer /\ Top.pc = "back"
      /\ UNCHANGED <<contents, outcomes, overlapped>>
  BY DEF EndUpdate, EndRun, serviceVars
<1>2. Runs' = Runs /\ Confirmed' = Confirmed
  BY <1>1 DEF Runs, Confirmed
<1>3. \A n : Held(n)' <=> Held(n) /\ n # Top.cmd
  BY <1>1, HeldPop
<1>4. Held(Top.cmd) /\ (Top.cmd \in Runs <=> Top.code # "set")
  BY <1>1, HeldTop
<1>5. CASE EndUpdate
  <2>1. running' = running /\ Top.cmd \notin Runs
    BY <1>4, <1>5 DEF EndUpdate
  <2> QED
    BY <1>1, <1>2, <1>3, <2>1, SameRunsKeep
<1>6. CASE EndRun
  <2>1. /\ Top.cmd \in Runs /\ running' = RunningAfter(Top.code, Top.result)
        /\ contents[Top.cmd].code = Top.code /\ <<Top.cmd, Top.result>> \in outcomes
    BY <1>1, <1>4, <1>6, TopFacts DEF EndRun, Describes
  <2>2. HeldLast'
    BY <1>1, <1>2, <1>3 DEF HeldLast
  <2>3. CASE Top.result = ACK_OK
    <3>1. PICK t : t = Top.cmd
      OBVIOUS
    <3>2. t \in Confirmed
      BY <2>1, <2>3, <3>1, SetsFacts DEF Confirmed
    <3>3. DoneRuns' = DoneRuns \cup {t}
      BY <1>2, <1>3, <2>1, <3>1, <3>2 DEF DoneRuns
    <3>4. ~ overlapped => Latest(DoneRuns', t)
      BY <1>4, <2>1, <3>1, <3>3 DEF HeldLast, Latest, DoneRuns
    <3>5. running' <=> contents'[t].code = "start"
      BY <1>1, <2>1, <2>3, <3>1 DEF RunningAfter
    <3> QED
      BY <1>1, <2>2, <3>4, <3>5 DEF RunningLast
  <2>4. CASE Top.result # ACK_OK
    <3>1. Top.cmd \notin Confirmed
      <4>1. \A x, y \in outcomes : x[1] = y[1] => x = y
        BY DEF CommandsInv, ServiceOK
      <4>2. <<Top.cmd, ACK_OK>> \notin outcomes
        BY <2>1, <2>4, <4>1
      <4> QED
        BY <4>2 DEF Confirmed
    <3>2. DoneRuns' = DoneRuns
      BY <1>2, <1>3, <3>1 DEF DoneRuns
    <3>3. running' = running
      BY <2>1, <2>4 DEF RunningAfter
    <3> QED
      BY <1>1, <2>2, <3>2, <3>3 DEF RunningLast
  <2> QED
    BY <2>3, <2>4
<1> QED
  BY <1>5, <1>6

\* A sendPacket() that returns does not end its operation yet.
LEMMA ReturnKeepsRuns ==
  ASSUME CommandsInv, Grows, HeldLast, RunningLast,
         NEW r \in Results \cup {ACK_NACK}, Return(r)
  PROVE  HeldLast' /\ RunningLast'
<1>1. /\ ops # << >> /\ ops' = Append(Outer, [Top EXCEPT !.pc = "back", !.result = r])
      /\ outcomes' = outcomes \cup {<<Top.cmd, r>>}
      /\ UNCHANGED <<contents, running, overlapped>>
  BY DEF Return, Service!Finish
<1>2. PICK op : op = [Top EXCEPT !.pc = "back", !.result = r]
  OBVIOUS
<1>3. op \in Op /\ op.cmd = Top.cmd
  BY <1>1, <1>2, TopFacts DEF Op, AnyResult, Results
<1>4. Held(Top.cmd) /\ \A n : Held(n)' <=> Held(n)
  BY <1>1, <1>2, <1>3, HeldReplace, HeldTop
<1>5. Runs' = Runs
  BY <1>1 DEF Runs
<1>6. \A n \in Runs : ~ Held(n) => (n \in Confirmed' <=> n \in Confirmed)
  BY <1>1, <1>4 DEF Confirmed
<1> QED
  BY <1>1, <1>4, <1>5, <1>6, SameRunsKeep

\* All that is kept about runs is kept by every step.
LEMMA RunsInvStep ==
  ASSUME CommandsInv, CommandsInv', Grows, RunsInv, [Next]_vars
  PROVE  RunsInv'
<1>1. RunsLast' /\ SamplingLast'
  BY RunsLastStep, SamplingStep DEF RunsInv
<1>2. CASE UNCHANGED <<ops, running, overlapped, contents, outcomes>>
  <2>1. Runs' = Runs /\ Confirmed' = Confirmed /\ \A n : Held(n)' <=> Held(n)
    BY <1>2 DEF Runs, Confirmed, Held
  <2> QED
    BY <1>1, <1>2, <2>1, SameRunsKeep DEF RunsInv
<1>3. \A op \in Operations \ {"update"} : op \in {"start", "stop"}
  BY CommandsAssumption
<1> QED
  BY <1>1, <1>2, <1>3, UpdateKeepsRuns, BeginRunKeepsRuns, EndKeepsRuns, ReturnKeepsRuns
     DEF RunsInv, Next, AppStep, DeviceStep, SetItem, StoreInfo, DeviceExecute, DeviceAnswer,
         DeviceReport, Service!Execute, Service!Answer, vars, serviceVars, hostVars

\* However start(), stop() and update() are called within one another's waits:
\* unless start() or stop() is called within start() or stop(), m_running follows
\* the last one that was confirmed, and the device does so too if nothing later was
\* tried.
THEOREM RunningFollowsDevice == Spec => []RunningInStep
<1>1. Init => RunsInv
  <2> SUFFICES ASSUME Init PROVE RunsInv
    OBVIOUS
  <2>1. contents = << >> /\ ~ running /\ ~ sampling
    BY DEF Init
  <2>2. Runs = {}
    BY <2>1 DEF Runs
  <2> QED
    BY <2>1, <2>2
       DEF RunsInv, HeldLast, RunningLast, RunsLast, SamplingLast, DoneRuns
<1>2. CommandsInv /\ RunsInv /\ [Next]_vars => RunsInv'
  BY InvStep, RunsInvStep
<1>3. CommandsInv /\ RunsInv => RunningInStep
  <2> SUFFICES ASSUME CommandsInv, RunsInv, ~ overlapped
               PROVE  /\ running <=> (DoneRuns # {} /\ contents[Max(DoneRuns)].code = "start")
                      /\ (DoneRuns # {} /\ Max(DoneRuns) = Max(Runs)) => sampling = running
    <3>1. DOMAIN ops = 1 .. Len(ops)
      BY LenProperties DEF CommandsInv, OpsOK
    <3>2. DoneRuns = {n \in Runs \cap Confirmed : \A i \in DOMAIN ops : ops[i].cmd # n}
      BY <3>1 DEF DoneRuns, Held
    <3> QED
      BY <3>2 DEF RunningInStep
  <2>1. /\ Runs \subseteq Nat /\ DoneRuns \subseteq Nat
        /\ DoneRuns \subseteq Runs \cap Obeyed
    BY SetsFacts, ConfirmedIsObeyed DEF DoneRuns
  <2>2. CASE DoneRuns = {}
    BY <2>2 DEF RunsInv, RunningLast, Latest
  <2>3. CASE DoneRuns # {}
    <3>1. PICK m : Latest(DoneRuns, m) /\ (running <=> contents[m].code = "start")
      BY <2>3 DEF RunsInv, RunningLast
    <3>2. m = Max(DoneRuns) /\ m \in DoneRuns /\ m \in Nat
      BY <2>1, <3>1, LatestIsMax DEF Latest
    <3>3. ASSUME Max(DoneRuns) = Max(Runs) PROVE sampling = running
      <4>1. PICK l : Latest(Runs, l)
        BY <2>1, <2>3 DEF RunsInv, RunsLast
      <4>2. Latest(Runs, m)
        BY <2>1, <3>2, <3>3, <4>1, LatestIsMax
      <4>3. PICK k : /\ Latest(Runs \cap Obeyed, k)
                     /\ sampling <=> contents[k].code = "start"
        BY <2>1, <3>2 DEF RunsInv, SamplingLast
      <4>4. k <= m /\ m <= k /\ k \in Nat
        BY <2>1, <3>2, <4>2, <4>3 DEF Latest
      <4>5. k = m
        BY <3>2, <4>4
      <4>6. sampling \in BOOLEAN /\ running \in BOOLEAN
        BY DEF CommandsInv, DataOK
      <4> QED
        BY <3>1, <4>3, <4>5, <4>6
    <3> QED
      BY <3>1, <3>2, <3>3, <2>3
  <2> QED
    BY <2>2, <2>3
<1> QED
  BY <1>1, <1>2, <1>3, InvAlways, PTL DEF Spec
=============================================================================
