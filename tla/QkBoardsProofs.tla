--------------------------- MODULE QkBoardsProofs ---------------------------
(***************************************************************************)
(* Proofs about QkBoards, for all layouts and every number of restarts,    *)
(* reports and notes: what is signalled is named by the start of the       *)
(* device it comes from, the logs hold what was signalled last, a checked  *)
(* index stays in range, an update that is announced is complete, and the  *)
(* configs are stored as they were reported.                               *)
(***************************************************************************)
EXTENDS QkBoards, SequenceTheorems, WellFoundedInduction, TLAPS

----------------------------------------------------------------------------
(***************************************************************************)
(* Sequences.                                                              *)
(***************************************************************************)

\* The last n elements of a sequence.
LEMMA LastOnes ==
  ASSUME NEW S, NEW s \in Seq(S), NEW m \in 1 .. Len(s) + 1
  PROVE  LET t == SubSeq(s, m, Len(s))
         IN  /\ t \in Seq(S) /\ Len(t) = Len(s) - m + 1
             /\ \A k \in 1 .. Len(s) - m + 1 : t[k] = s[m + k - 1]
<1>1. Len(s) \in Nat /\ \A i \in 1 .. Len(s) : s[i] \in S
  BY LenProperties, ElementOfSeq
<1>2. \A i \in m .. Len(s) : s[i] \in S
  BY <1>1
<1> QED
  BY <1>1, <1>2, SubSeqProperties

\* A log that is trimmed after each entry holds the last entries of all.
LEMMA LoggedIsRecent ==
  ASSUME NEW S, NEW s \in Seq(S), NEW e \in S
  PROVE  Logged(Recent(s), e) = Recent(Append(s, e))
<1> DEFINE n == Len(s)
           all == Append(s, e)
<1>1. /\ n \in Nat /\ LogMax \in Nat \ {0}
      /\ all \in Seq(S) /\ Len(all) = n + 1 /\ all[n + 1] = e
      /\ \A i \in 1 .. n : all[i] = s[i]
  BY LogMaxAssumption, AppendProperties, LenProperties
<1>2. CASE n <= LogMax
  BY <1>1, <1>2 DEF Logged, Trimmed, Recent
<1>3. CASE n > LogMax
  <2> DEFINE r == SubSeq(s, n - LogMax + 1, n)
             more == Append(r, e)
             left == SubSeq(more, 2, LogMax + 1)
             right == SubSeq(all, n - LogMax + 2, n + 1)
  <2>1. /\ r \in Seq(S) /\ Len(r) = LogMax
        /\ \A k \in 1 .. LogMax : r[k] = s[n - LogMax + k]
    <3>1. n - LogMax + 1 \in 1 .. n + 1 /\ n - (n - LogMax + 1) + 1 = LogMax
      BY <1>1, <1>3
    <3>2. \A k \in 1 .. LogMax : (n - LogMax + 1) + k - 1 = n - LogMax + k
      BY <1>1, <1>3
    <3> QED
      BY <3>1, <3>2, LastOnes
  <2> HIDE DEF r
  <2>2. /\ more \in Seq(S) /\ Len(more) = LogMax + 1 /\ more[LogMax + 1] = e
        /\ \A k \in 1 .. LogMax : more[k] = r[k]
    BY <1>1, <2>1, AppendProperties
  <2> HIDE DEF more, all
  <2>3. /\ left \in Seq(S) /\ Len(left) = LogMax
        /\ \A k \in 1 .. LogMax : left[k] = more[k + 1]
    <3>1. 2 \in 1 .. Len(more) + 1 /\ Len(more) - 2 + 1 = LogMax
      BY <1>1, <2>2
    <3>2. \A k \in 1 .. LogMax : 2 + k - 1 = k + 1
      BY <1>1
    <3> QED
      BY <2>2, <3>1, <3>2, LastOnes
  <2>4. /\ right \in Seq(S) /\ Len(right) = LogMax
        /\ \A k \in 1 .. LogMax : right[k] = all[n - LogMax + k + 1]
    <3>1. n - LogMax + 2 \in 1 .. Len(all) + 1 /\ Len(all) - (n - LogMax + 2) + 1 = LogMax
      BY <1>1, <1>3
    <3>2. \A k \in 1 .. LogMax : (n - LogMax + 2) + k - 1 = n - LogMax + k + 1
      BY <1>1, <1>3
    <3> QED
      BY <1>1, <3>1, <3>2, LastOnes
  <2> HIDE DEF left, right
  <2>5. ASSUME NEW k \in 1 .. LogMax PROVE left[k] = right[k]
    <3>1. CASE k = LogMax
      <4>1. n - LogMax + k + 1 = n + 1
        BY <1>1, <3>1
      <4> QED
        BY <1>1, <2>2, <2>3, <2>4, <3>1, <4>1
    <3>2. CASE k < LogMax
      <4>1. /\ k + 1 \in 1 .. LogMax /\ n - LogMax + (k + 1) = n - LogMax + k + 1
            /\ n - LogMax + k + 1 \in 1 .. n
        BY <1>1, <1>3, <3>2
      <4>2. left[k] = r[k + 1] /\ r[k + 1] = s[n - LogMax + (k + 1)]
        BY <2>1, <2>2, <2>3, <4>1
      <4>3. right[k] = all[n - LogMax + k + 1] /\ all[n - LogMax + k + 1] = s[n - LogMax + k + 1]
        BY <1>1, <2>4, <4>1
      <4> QED
        BY <4>1, <4>2, <4>3
    <3> QED
      BY <1>1, <3>1, <3>2
  <2>6. left = right
    BY <2>3, <2>4, <2>5, SeqEqual
  <2>7. Logged(Recent(s), e) = left
    BY <1>1, <1>3, <2>2 DEF Logged, Trimmed, Recent, left, more, r
  <2>8. Recent(Append(s, e)) = right
    BY <1>1, <1>3 DEF Recent, right, all
  <2> QED
    BY <2>6, <2>7, <2>8
<1> QED
  BY <1>1, <1>2, <1>3

\* The length of a sequence that is given element by element.
LEMMA LenOfList ==
  ASSUME NEW n \in Nat, NEW f, f = [i \in 1 .. n |-> f[i]]
  PROVE  f \in Seq({f[i] : i \in 1 .. n}) /\ Len(f) = n /\ DOMAIN f = 1 .. n
<1> DEFINE S == {f[i] : i \in 1 .. n}
<1>1. f \in [1 .. n -> S] /\ DOMAIN f = 1 .. n
  OBVIOUS
<1>2. f \in Seq(S)
  BY <1>1, SeqDef
<1>3. Len(f) \in Nat /\ DOMAIN f = 1 .. Len(f)
  BY <1>2, LenProperties
<1>4. Len(f) = n
  BY <1>1, <1>3
<1> QED
  BY <1>1, <1>2, <1>4

----------------------------------------------------------------------------
(***************************************************************************)
(* The packets on the way: each is from a start of the device that there   *)
(* was, and they come in the order of the starts.                          *)
(***************************************************************************)
Codes == BoardInfo \cup DeviceInfo \cup {"READY", "ACK", "DATA", "EVENT"}

\* What a comm and a device of these starts may send.
GoodPackets ==
  {p \in [code : Codes, source : Sources, boot : 1 .. Boot, arg : Nat] :
     /\ p.source = "btComm" => p.code \in {"INFOQK", "INFOBOARD", "ACK"}
     /\ p.code = "EVENT" => p.arg < boots[p.boot].events
     /\ p.code = "DATA" => p.arg <= MaxNotes}

LineInv ==
  /\ boots \in Seq(Layout) /\ boots # << >>
  /\ notes \in Nat
  /\ line \in Seq(GoodPackets)
  /\ \A i, j \in 1 .. Len(line) : i < j => line[i].boot <= line[j].boot

\* There is a first start, and each has a layout.
LEMMA BootFacts ==
  ASSUME LineInv
  PROVE  /\ Boot \in Nat \ {0} /\ Boot \in 1 .. Boot
         /\ \A k \in 1 .. Boot : boots[k] \in Layout
BY EmptySeq, ElementOfSeq, LenProperties DEF LineInv, Boot

\* What was known of the earlier starts stays known.
BootsGrow ==
  /\ Boot \in Nat /\ Boot' \in Nat /\ Boot <= Boot'
  /\ \A k \in 1 .. Boot : boots'[k] = boots[k]

\* Only a restart changes the list of the starts.
LEMMA BootsStep == ASSUME LineInv, [Next]_vars PROVE BootsGrow
<1>1. Len(boots) \in Nat
  BY LenProperties DEF LineInv
<1>2. CASE boots' = boots
  BY <1>1, <1>2 DEF BootsGrow, Boot
<1>3. ASSUME NEW l \in Layouts, NEW n \in 0 .. Len(line), Restart(l, n) PROVE BootsGrow
  <2>1. boots' = Append(boots, l) /\ l \in Layout
    BY <1>3, LayoutsAssumption DEF Restart
  <2> QED
    BY <1>1, <2>1, AppendProperties DEF LineInv, BootsGrow, Boot
<1> QED
  BY <1>2, <1>3 DEF Next, DeviceStep, AppStep, Report, SendData, SendEvent, LosePacket,
       ProcessPacket, CheckIndex, UseIndex, vars, deviceVars

\* A packet that is good stays so.
LEMMA GoodStays == ASSUME BootsGrow PROVE GoodPackets \subseteq GoodPackets'
<1>1. 1 .. Boot \subseteq 1 .. Boot'
  BY DEF BootsGrow
<1> QED
  BY <1>1 DEF BootsGrow, GoodPackets

\* Packets of the present start may follow whatever is on the line.
LEMMA SendKeeps ==
  ASSUME LineInv, NEW packets \in Seq({p \in GoodPackets : p.boot = Boot}),
         line' = line \o packets, boots' = boots, notes' \in Nat
  PROVE  LineInv'
<1> DEFINE present == {p \in GoodPackets : p.boot = Boot}
<1>1. GoodPackets' = GoodPackets
  BY DEF GoodPackets, Boot
<1>2. packets \in Seq(GoodPackets) /\ line \in Seq(GoodPackets)
  BY SeqMonotonic DEF LineInv
<1>3. /\ line' \in Seq(GoodPackets)
      /\ Len(line) \in Nat /\ Len(packets) \in Nat
      /\ Len(line') = Len(line) + Len(packets)
      /\ \A i \in 1 .. Len(line) + Len(packets) :
           line'[i] = IF i <= Len(line) THEN line[i] ELSE packets[i - Len(line)]
  BY <1>2, ConcatProperties, LenProperties
<1>4. /\ \A i \in 1 .. Len(line) : line[i].boot \in 1 .. Boot
      /\ \A i \in 1 .. Len(packets) : packets[i].boot = Boot
  <2>1. \A i \in 1 .. Len(line) : line[i] \in GoodPackets
    BY <1>2, ElementOfSeq
  <2>2. \A i \in 1 .. Len(packets) : packets[i] \in present
    BY ElementOfSeq
  <2> QED
    BY <2>1, <2>2 DEF GoodPackets
<1>5. ASSUME NEW i \in 1 .. Len(line'), NEW j \in 1 .. Len(line'), i < j
      PROVE  line'[i].boot <= line'[j].boot
  <2>0. Boot \in Nat
    BY BootFacts
  <2>1. CASE j <= Len(line)
    <3>1. i \in 1 .. Len(line) /\ j \in 1 .. Len(line)
      BY <1>3, <1>5, <2>1
    <3>2. line'[i] = line[i] /\ line'[j] = line[j]
      BY <1>3, <3>1
    <3> QED
      BY <1>5, <3>1, <3>2 DEF LineInv
  <2>2. CASE j > Len(line)
    <3>1. j - Len(line) \in 1 .. Len(packets) /\ line'[j] = packets[j - Len(line)]
      BY <1>3, <1>5, <2>2
    <3>2. line'[j].boot = Boot
      BY <1>4, <3>1
    <3>3. CASE i <= Len(line)
      <4>1. i \in 1 .. Len(line) /\ line'[i] = line[i]
        BY <1>3, <3>3
      <4>2. line[i].boot \in 1 .. Boot
        BY <1>4, <4>1
      <4> QED
        BY <2>0, <3>2, <4>1, <4>2
    <3>4. CASE i > Len(line)
      <4>1. i - Len(line) \in 1 .. Len(packets) /\ line'[i] = packets[i - Len(line)]
        BY <1>3, <1>5, <3>4
      <4>2. line'[i].boot = Boot
        BY <1>4, <4>1
      <4> QED
        BY <2>0, <3>2, <4>2
    <3> QED
      BY <1>3, <3>3, <3>4
  <2> QED
    BY <1>3, <2>1, <2>2
<1> QED
  BY <1>1, <1>3, <1>5 DEF LineInv

\* A loss, or the handling of a packet, takes the first one away.
LEMMA TailKeeps ==
  ASSUME LineInv, line # << >>, line' = Tail(line), boots' = boots, notes' = notes
  PROVE  LineInv'
<1>1. GoodPackets' = GoodPackets
  BY DEF GoodPackets, Boot
<1>2. line' \in Seq(GoodPackets) /\ Len(line) \in Nat \ {0} /\ Len(line') = Len(line) - 1
      /\ \A i \in 1 .. Len(line') : line'[i] = line[i + 1]
  BY HeadTailProperties, EmptySeq DEF LineInv
<1>3. \A i \in 1 .. Len(line') : i + 1 \in 1 .. Len(line)
  BY <1>2
<1>4. ASSUME NEW i \in 1 .. Len(line'), NEW j \in 1 .. Len(line'), i < j
      PROVE  line'[i].boot <= line'[j].boot
  <2>1. i + 1 < j + 1
    BY <1>4
  <2> QED
    BY <1>2, <1>3, <2>1 DEF LineInv
<1> QED
  BY <1>1, <1>2, <1>4 DEF LineInv

\* A restart cuts the line off and announces the new start.
LEMMA RestartKeeps ==
  ASSUME LineInv, NEW l \in Layouts, NEW n \in 0 .. Len(line), Restart(l, n)
  PROVE  LineInv'
<1> DEFINE ready == [code |-> "READY", source |-> "btDevice", boot |-> Boot + 1, arg |-> 0]
           cut == SubSeq(line, 1, n)
<1>1. /\ boots' = Append(boots, l) /\ line' = Append(cut, ready) /\ notes' = notes
      /\ l \in Layout
  BY LayoutsAssumption DEF Restart
<1>2. boots' \in Seq(Layout) /\ boots' # << >> /\ Boot' = Boot + 1 /\ Boot \in Nat
  BY <1>1, AppendProperties, BootFacts DEF LineInv, Boot
<1>3. BootsGrow
  BY BootsStep DEF Next, DeviceStep
<1>4. ready \in GoodPackets'
  BY <1>2 DEF GoodPackets, Codes, Sources
<1>5. /\ cut \in Seq(GoodPackets) /\ Len(cut) = n
      /\ \A i \in 1 .. n : cut[i] = line[i]
  <2>1. Len(line) \in Nat /\ \A i \in 1 .. n : line[i] \in GoodPackets
    BY ElementOfSeq, LenProperties DEF LineInv
  <2>2. n \in Nat /\ 1 \in Int /\ n - 1 + 1 = n /\ \A i \in 1 .. n : 1 + i - 1 = i
    BY <2>1
  <2>3. Len(cut) = IF 1 <= n THEN n - 1 + 1 ELSE 0
    BY <2>1, <2>2, SubSeqProperties
  <2>4. cut \in Seq(GoodPackets) /\ \A i \in 1 .. n - 1 + 1 : cut[i] = line[1 + i - 1]
    BY <2>1, <2>2, SubSeqProperties
  <2> QED
    BY <2>2, <2>3, <2>4
<1> HIDE DEF cut
<1>6. cut \in Seq(GoodPackets')
  BY <1>3, <1>5, GoodStays, SeqMonotonic
<1>7. /\ line' \in Seq(GoodPackets') /\ Len(line') = n + 1 /\ line'[n + 1] = ready
      /\ \A i \in 1 .. n : line'[i] = line[i]
  BY <1>1, <1>4, <1>5, <1>6, AppendProperties
<1>8. \A i \in 1 .. n : line[i].boot \in 1 .. Boot /\ i \in 1 .. Len(line)
  <2>1. Len(line) \in Nat /\ \A i \in 1 .. n : i \in 1 .. Len(line) /\ line[i] \in GoodPackets
    BY ElementOfSeq, LenProperties DEF LineInv
  <2> QED
    BY <2>1 DEF GoodPackets
<1>9. ASSUME NEW i \in 1 .. Len(line'), NEW j \in 1 .. Len(line'), i < j
      PROVE  line'[i].boot <= line'[j].boot
  <2>0. n \in Nat /\ i \in 1 .. n
    BY <1>7, <1>9
  <2>1. CASE j \in 1 .. n
    BY <1>7, <1>8, <1>9, <2>0, <2>1 DEF LineInv
  <2>2. CASE j = n + 1
    <3>1. line'[j].boot = Boot + 1
      BY <1>7, <2>2
    <3>2. line'[i].boot \in 1 .. Boot
      BY <1>7, <1>8, <2>0
    <3> QED
      BY <1>2, <3>1, <3>2
  <2> QED
    BY <1>7, <2>0, <2>1, <2>2
<1> QED
  BY <1>1, <1>2, <1>7, <1>9 DEF LineInv

\* The answer to GETNODE.
LEMMA ReportSends ==
  ASSUME LineInv, NEW source \in Sources, Report(source)
  PROVE  \E packets \in Seq({p \in GoodPackets : p.boot = Boot}) :
           line' = line \o packets /\ boots' = boots /\ notes' \in Nat
<1> DEFINE present == {p \in GoodPackets : p.boot = Boot}
           about(code) == Packet(code, source, 0)
           first == <<about("INFOQK"), about("INFOBOARD")>>
           middle == IF source = "btComm" THEN << >>
                     ELSE <<about("INFOCONFIG"), about("INFOSAMP"), about("INFODATA"),
                            about("INFOEVENT"), about("INFOACTION")>>
           last == <<about("ACK")>>
<1>1. \A code \in Codes \ {"DATA", "EVENT"} :
        source = "btDevice" \/ code \in {"INFOQK", "INFOBOARD", "ACK"} => about(code) \in present
  BY BootFacts DEF GoodPackets, Packet, Sources
<1>2. first \in Seq(present) /\ last \in Seq(present)
  BY <1>1 DEF Codes, BoardInfo
<1>3. middle \in Seq(present)
  <2>1. CASE source = "btComm"
    BY <2>1, EmptySeq
  <2>2. CASE source = "btDevice"
    BY <1>1, <2>2 DEF Codes, BoardInfo, DeviceInfo
  <2> QED
    BY <2>1, <2>2 DEF Sources
<1>4. /\ line' = line \o (first \o middle \o last)
      /\ boots' = boots /\ notes' = notes
  BY DEF Report, Send
<1> HIDE DEF first, middle, last, present
<1>5. first \o middle \o last \in Seq(present)
  BY <1>2, <1>3, ConcatProperties
<1>6. notes' \in Nat
  BY <1>4 DEF LineInv
<1> QED
  BY <1>4, <1>5, <1>6 DEF present

\* DATA and EVENT.
LEMMA NotesSend ==
  ASSUME LineInv, SendData \/ \E id \in 0 .. boots[Boot].events : SendEvent(id)
  PROVE  \E packets \in Seq({p \in GoodPackets : p.boot = Boot}) :
           line' = line \o packets /\ boots' = boots /\ notes' \in Nat
<1>1. notes \in Nat /\ Boot \in 1 .. Boot
  BY BootFacts DEF LineInv
<1>2. PICK p : /\ p \in GoodPackets /\ p.boot = Boot
               /\ line' = line \o <<p>> /\ boots' = boots /\ notes' = notes + 1
  <2>1. CASE SendData
    <3>1. Packet("DATA", "btDevice", notes + 1) \in GoodPackets
      <4>1. notes + 1 \in Nat /\ notes + 1 <= MaxNotes
        BY <1>1, <2>1, BoardsBoundsAssumption DEF SendData
      <4> QED
        BY <1>1, <4>1 DEF GoodPackets, Packet, Codes, Sources
    <3>2. Packet("DATA", "btDevice", notes + 1).boot = Boot
      BY DEF Packet
    <3> QED
      BY <2>1, <3>1, <3>2 DEF SendData, Send
  <2>2. ASSUME NEW id \in 0 .. boots[Boot].events, SendEvent(id)
        PROVE  \E p : /\ p \in GoodPackets /\ p.boot = Boot
                      /\ line' = line \o <<p>> /\ boots' = boots /\ notes' = notes + 1
    <3>1. Packet("EVENT", "btDevice", id) \in GoodPackets
      BY <1>1, <2>2 DEF GoodPackets, Packet, Codes, Sources, SendEvent
    <3>2. Packet("EVENT", "btDevice", id).boot = Boot
      BY DEF Packet
    <3> QED
      BY <2>2, <3>1, <3>2 DEF SendEvent, Send
  <2> QED
    BY <2>1, <2>2
<1>3. <<p>> \in Seq({q \in GoodPackets : q.boot = Boot}) /\ notes' \in Nat
  BY <1>1, <1>2
<1> QED
  BY <1>2, <1>3

\* The invariant of the line is inductive.
LEMMA LineStep == LineInv /\ [Next]_vars => LineInv' /\ BootsGrow
<1> SUFFICES ASSUME LineInv, [Next]_vars PROVE LineInv'
  BY BootsStep
<1>1. CASE UNCHANGED <<line, boots, notes>>
  BY <1>1 DEF LineInv, GoodPackets, Boot
<1>2. CASE LosePacket \/ ProcessPacket
  BY <1>2, TailKeeps DEF LosePacket, ProcessPacket
<1> QED
  BY <1>1, <1>2, RestartKeeps, ReportSends, NotesSend, SendKeeps
     DEF Next, DeviceStep, AppStep, CheckIndex, UseIndex, vars, deviceVars

\* It holds at the start.
LEMMA LineInit == Init => LineInv
<1> SUFFICES ASSUME Init PROVE LineInv
  OBVIOUS
<1>1. PICK l \in Layout : boots = <<l>>
  BY LayoutsAssumption DEF Init
<1>2. boots \in Seq(Layout) /\ boots # << >>
  BY <1>1
<1> QED
  BY <1>2, EmptySeq DEF Init, LineInv

\* It holds in every reachable state.
LEMMA LineAlways == Spec => []LineInv
BY LineInit, LineStep, PTL DEF Spec

----------------------------------------------------------------------------
(***************************************************************************)
(* What a packet stores into a board.                                      *)
(***************************************************************************)
IsBoard(b) ==
  b = [mask |-> b.mask, configs |-> b.configs, type |-> b.type, data |-> b.data,
       events |-> b.events, actions |-> b.actions, dataLog |-> b.dataLog, eventLog |-> b.eventLog]

\* Data of which all labels are from one start, or made up, and all values equal.
Filled(n, boot, v) == [i \in 1 .. n |-> [label |-> Label(boot, i), value |-> v]]

\* The data that a DATA packet leaves.
DataAfter(b, boot, value) ==
  [i \in 1 .. boots[boot].data |->
     [label |-> IF Len(b.data) = boots[boot].data THEN b.data[i].label ELSE Label(MadeUp, i),
      value |-> value]]

\* An INFO packet stores what it is about and leaves the rest, and the logs.
LEMMA InfoFacts ==
  ASSUME NEW b, IsBoard(b), NEW code \in BoardInfo \cup DeviceInfo, NEW boot,
         NEW w, w = WithInfo(b, code, boot)
  PROVE  /\ IsBoard(w) /\ w.dataLog = b.dataLog /\ w.eventLog = b.eventLog
         /\ w.mask = b.mask \cup {code}
         /\ w.events = IF code = "INFOEVENT" THEN Labels(boot, boots[boot].events) ELSE b.events
         /\ w.type = IF code = "INFODATA" THEN boots[boot].type ELSE b.type
         /\ w.data = IF code = "INFODATA" THEN Filled(boots[boot].data, boot, 0) ELSE b.data
         /\ w.actions = IF code = "INFOACTION" THEN Labels(boot, boots[boot].actions) ELSE b.actions
         /\ w.configs = IF code = "INFOCONFIG" THEN ParsedConfigs(boot, boots[boot].configs)
                        ELSE b.configs
<1>1. PICK m, c, t, d, e, a, dl, el :
        b = [mask |-> m, configs |-> c, type |-> t, data |-> d,
             events |-> e, actions |-> a, dataLog |-> dl, eventLog |-> el]
  BY DEF IsBoard
<1>2. CASE code = "INFOCONFIG"
  BY <1>1, <1>2 DEF WithInfo, FilledMask, IsBoard
<1>3. CASE code = "INFODATA"
  BY <1>1, <1>3 DEF WithInfo, FilledMask, IsBoard, Filled
<1>4. CASE code = "INFOEVENT"
  BY <1>1, <1>4 DEF WithInfo, FilledMask, IsBoard
<1>5. CASE code = "INFOACTION"
  BY <1>1, <1>5 DEF WithInfo, FilledMask, IsBoard
<1>6. CASE code \in {"INFOQK", "INFOBOARD", "INFOSAMP"}
  BY <1>1, <1>6 DEF WithInfo, FilledMask, IsBoard
<1> QED
  BY <1>2, <1>3, <1>4, <1>5, <1>6 DEF BoardInfo, DeviceInfo

\* A DATA packet stores values, and labels and the type where the number differs.
LEMMA DataFacts ==
  ASSUME NEW b, IsBoard(b), NEW boot, NEW value,
         NEW w, w = WithData(b, boot, value)
  PROVE  /\ IsBoard(w) /\ w.dataLog = Logged(b.dataLog, w.data) /\ w.eventLog = b.eventLog
         /\ w.events = b.events /\ w.configs = b.configs /\ w.actions = b.actions
         /\ w.mask = b.mask
         /\ w.type = IF Len(b.data) = boots[boot].data THEN b.type ELSE boots[boot].type
         /\ w.data = DataAfter(b, boot, value)
<1>1. PICK m, c, t, d, e, a, dl, el :
        b = [mask |-> m, configs |-> c, type |-> t, data |-> d,
             events |-> e, actions |-> a, dataLog |-> dl, eventLog |-> el]
  BY DEF IsBoard
<1>2. PICK new, type, log :
        /\ new = DataAfter(b, boot, value)
        /\ type = (IF Len(b.data) = boots[boot].data THEN b.type ELSE boots[boot].type)
        /\ log = Logged(b.dataLog, new)
  OBVIOUS
<1>3. w = [b EXCEPT !.data = DataAfter(b, boot, value),
                    !.type = IF Len(b.data) = boots[boot].data THEN @ ELSE boots[boot].type,
                    !.dataLog = Logged(@, DataAfter(b, boot, value))]
  BY DEF WithData, TypeStored, DataAfter
<1>4. w = [mask |-> m, configs |-> c, type |-> type, data |-> new,
           events |-> e, actions |-> a, dataLog |-> log, eventLog |-> el]
  BY <1>1, <1>2, <1>3
<1>5. /\ IsBoard(w) /\ w.eventLog = b.eventLog /\ w.mask = b.mask
      /\ w.events = b.events /\ w.configs = b.configs /\ w.actions = b.actions
      /\ w.type = type /\ w.data = new /\ w.dataLog = log
  BY <1>1, <1>4 DEF IsBoard
<1> QED
  BY <1>2, <1>5

\* An EVENT packet stores at most made-up labels.
LEMMA EventFacts ==
  ASSUME NEW b, IsBoard(b), NEW id, NEW w, w = WithEvent(b, id)
  PROVE  /\ IsBoard(w) /\ w.eventLog = Logged(b.eventLog, w.events[id + 1])
         /\ w.dataLog = b.dataLog /\ w.data = b.data /\ w.type = b.type
         /\ w.configs = b.configs /\ w.actions = b.actions /\ w.mask = b.mask
         /\ w.events = IF Unknown(b, id) THEN Labels(MadeUp, id + 1) ELSE b.events
<1>1. PICK m, c, t, d, e, a, dl, el :
        b = [mask |-> m, configs |-> c, type |-> t, data |-> d,
             events |-> e, actions |-> a, dataLog |-> dl, eventLog |-> el]
  BY DEF IsBoard
<1>2. PICK new, log :
        /\ new = (IF Unknown(b, id) THEN Labels(MadeUp, id + 1) ELSE b.events)
        /\ log = Logged(b.eventLog, new[id + 1])
  OBVIOUS
<1>3. WithEvent(b, id) = [b EXCEPT !.events = new, !.eventLog = log]
  BY <1>1, <1>2 DEF WithEvent
<1>4. w = [mask |-> m, configs |-> c, type |-> t, data |-> d,
           events |-> new, actions |-> a, dataLog |-> dl, eventLog |-> log]
  BY <1>1, <1>3
<1>5. /\ IsBoard(w) /\ w.dataLog = b.dataLog /\ w.data = b.data /\ w.type = b.type
      /\ w.mask = b.mask
      /\ w.configs = b.configs /\ w.actions = b.actions /\ w.events = new /\ w.eventLog = log
  BY <1>1, <1>4 DEF IsBoard
<1>6. w.eventLog = Logged(b.eventLog, w.events[id + 1])
  BY <1>2, <1>5
<1> QED
  BY <1>2, <1>5, <1>6

----------------------------------------------------------------------------
(***************************************************************************)
(* One call of processPacket().                                            *)
(***************************************************************************)
\* The board of the device, also while there is none yet.
Kept == IF HasDevice THEN Device ELSE NewBoard

BoardsOK ==
  /\ boards = [s \in Sources |-> boards[s]]
  /\ IsBoard(Kept)

\* What it does for a packet of the comm.
LEMMA CommPacket ==
  ASSUME LineInv, BoardsOK, ProcessPacket, Head(line).source = "btComm"
  PROVE  /\ UNCHANGED <<Kept, HasDevice, told, setIn.data, setIn.events>> /\ BoardsOK'
         /\ signal'.kind \notin {"data", "event"}
         /\ signal'.kind # "none" => signal'.boot = Head(line).boot
<1> DEFINE p == Head(line)
<1>1. p \in GoodPackets /\ p.code \in {"INFOQK", "INFOBOARD", "ACK"}
  BY HeadTailProperties DEF LineInv, ProcessPacket, GoodPackets
<1>2. boards' = [boards EXCEPT !["btComm"] = <<Stored(p)>>]
  BY DEF ProcessPacket
<1>3. boards'["btDevice"] = boards["btDevice"] /\ boards' = [s \in Sources |-> boards'[s]]
  BY <1>2 DEF BoardsOK, Sources
<1>4. UNCHANGED <<Kept, HasDevice>>
  BY <1>3 DEF Kept, HasDevice, Device
<1>5. told' = told
  BY <1>1 DEF ProcessPacket
<1>6. signal' = SignalOf(p) /\ setIn' = SetInAfter(p)
  BY DEF ProcessPacket
<1>7. signal'.kind \in {"none", "updated"} /\ (signal'.kind # "none" => signal'.boot = p.boot)
  BY <1>1, <1>6 DEF SignalOf, NoSignal
<1>8. setIn'.data = setIn.data /\ setIn'.events = setIn.events
  BY <1>1, <1>6 DEF SetInAfter
<1> QED
  BY <1>3, <1>4, <1>5, <1>7, <1>8 DEF BoardsOK

\* What it does for a packet of the device.
LEMMA DevicePacket ==
  ASSUME LineInv, BoardsOK, ProcessPacket, Head(line).source = "btDevice"
  PROVE  LET p == Head(line)
         IN  /\ p \in GoodPackets /\ HasDevice' /\ Device' = Kept' /\ BoardsOK'
             /\ signal' = SignalOf(p)
             /\ setIn' = SetInAfter(p) /\ BoardOf(p) = Kept
             /\ p.code = "DATA" =>
                  /\ Kept' = WithData(Kept, p.boot, p.arg)
                  /\ told' = [told EXCEPT !.data = Append(@, Kept'.data)]
             /\ p.code = "EVENT" =>
                  /\ Kept' = WithEvent(Kept, p.arg)
                  /\ told' = [told EXCEPT !.events = Append(@, Kept'.events[p.arg + 1])]
             /\ p.code \in BoardInfo \cup DeviceInfo =>
                  Kept' = WithInfo(Kept, p.code, p.boot) /\ told' = told
             /\ p.code \in {"READY", "ACK"} => Kept' = Kept /\ told' = told
<1> DEFINE p == Head(line)
<1>1. p \in GoodPackets /\ p.code \in Codes
  BY HeadTailProperties DEF LineInv, ProcessPacket, GoodPackets
<1>2. PICK w : w = Stored(p)
  OBVIOUS
<1>3. boards' = [boards EXCEPT !["btDevice"] = <<w>>] /\ signal' = SignalOf(p) /\ setIn' = SetInAfter(p)
  BY <1>2 DEF ProcessPacket
<1>4. /\ boards' = [s \in Sources |-> boards'[s]] /\ boards'["btDevice"] = <<w>>
  BY <1>3 DEF BoardsOK, Sources
<1>5. HasDevice' /\ Device' = w /\ Kept' = w
  BY <1>4 DEF HasDevice, Device, Kept
<1>6. BoardOf(p) = Kept
  BY DEF BoardOf, Kept, HasDevice, Device
<1>7. IsBoard(Kept)
  BY DEF BoardsOK
<1>8. CASE p.code = "DATA"
  <2>1. w = WithData(Kept, p.boot, p.arg)
    BY <1>2, <1>6, <1>8 DEF Stored, BoardInfo, DeviceInfo
  <2>2. told' = [told EXCEPT !.data = Append(@, w.data)]
    BY <1>2, <1>8 DEF ProcessPacket
  <2>3. IsBoard(w)
    BY <1>7, <2>1, DataFacts
  <2> QED
    BY <1>1, <1>3, <1>4, <1>5, <1>6, <1>8, <2>1, <2>2, <2>3 DEF BoardsOK, BoardInfo, DeviceInfo
<1>9. CASE p.code = "EVENT"
  <2>1. w = WithEvent(Kept, p.arg)
    BY <1>2, <1>6, <1>9 DEF Stored, BoardInfo, DeviceInfo
  <2>2. told' = [told EXCEPT !.events = Append(@, w.events[p.arg + 1])]
    BY <1>2, <1>9 DEF ProcessPacket
  <2>3. IsBoard(w)
    BY <1>7, <2>1, EventFacts
  <2> QED
    BY <1>1, <1>3, <1>4, <1>5, <1>6, <1>9, <2>1, <2>2, <2>3 DEF BoardsOK, BoardInfo, DeviceInfo
<1>10. CASE p.code \in BoardInfo \cup DeviceInfo
  <2>1. w = WithInfo(Kept, p.code, p.boot)
    <3>1. p.code # "DATA" /\ p.code # "EVENT"
      BY <1>10 DEF BoardInfo, DeviceInfo
    <3> QED
      BY <1>2, <1>6, <1>10, <3>1 DEF Stored
  <2>2. told' = told
    BY <1>10 DEF ProcessPacket, BoardInfo, DeviceInfo
  <2>3. IsBoard(w)
    BY <1>7, <1>10, <2>1, InfoFacts
  <2> QED
    BY <1>1, <1>3, <1>4, <1>5, <1>6, <1>10, <2>1, <2>2, <2>3 DEF BoardsOK, BoardInfo, DeviceInfo
<1>11. CASE p.code \in {"READY", "ACK"}
  <2>1. w = Kept
    BY <1>2, <1>6, <1>11 DEF Stored, BoardInfo, DeviceInfo
  <2>2. told' = told
    BY <1>11 DEF ProcessPacket
  <2> QED
    BY <1>1, <1>3, <1>4, <1>5, <1>6, <1>7, <1>11, <2>1, <2>2 DEF BoardsOK, BoardInfo, DeviceInfo
<1> QED
  BY <1>1, <1>8, <1>9, <1>10, <1>11 DEF Codes

\* Nothing else changes what is stored and signalled.
LEMMA OtherSteps ==
  ASSUME [Next]_vars
  PROVE  ProcessPacket \/ UNCHANGED <<boards, signal, told, setIn>>
BY DEF Next, DeviceStep, AppStep, Restart, Report, SendData, SendEvent, LosePacket, CheckIndex,
       UseIndex, vars, deviceVars

\* A packet is from a comm or a device.
LEMMA PacketSource ==
  ASSUME LineInv, ProcessPacket
  PROVE  Head(line).source = "btComm" \/ Head(line).source = "btDevice"
BY HeadTailProperties DEF LineInv, ProcessPacket, GoodPackets, Sources

----------------------------------------------------------------------------
(***************************************************************************)
(* The logs.                                                               *)
(***************************************************************************)
ToldOK ==
  /\ told = [data |-> told.data, events |-> told.events]
  /\ \E S : told.data \in Seq(S)
  /\ \E S : told.events \in Seq(S)

LogsInv ==
  /\ BoardsOK
  /\ ToldOK
  /\ Kept.dataLog = Recent(told.data)
  /\ Kept.eventLog = Recent(told.events)

\* Something more that is told.
LEMMA ToldMore ==
  ASSUME NEW s, \E S : s \in Seq(S), NEW e
  PROVE  /\ \E S : Append(s, e) \in Seq(S)
         /\ Logged(Recent(s), e) = Recent(Append(s, e))
         /\ Append(s, e)[Len(Append(s, e))] = e
<1>1. PICK S : s \in Seq(S)
  OBVIOUS
<1>2. s \in Seq(S \cup {e}) /\ e \in S \cup {e}
  BY <1>1, SeqMonotonic
<1>3. Append(s, e) \in Seq(S \cup {e}) /\ Append(s, e)[Len(Append(s, e))] = e
  BY <1>2, AppendProperties
<1> QED
  BY <1>2, <1>3, LoggedIsRecent

\* A log gets what is told, when it is told.
LEMMA LogsStep ==
  ASSUME LineInv, LogsInv, [Next]_vars
  PROVE  LogsInv'
<1>1. CASE UNCHANGED <<boards, signal, told, setIn>>
  BY <1>1 DEF LogsInv, ToldOK, BoardsOK, Kept, HasDevice, Device
<1>2. CASE ProcessPacket /\ Head(line).source = "btComm"
  <2>1. UNCHANGED <<Kept, told>> /\ BoardsOK'
    BY <1>2, CommPacket DEF LogsInv
  <2> QED
    BY <2>1 DEF LogsInv, ToldOK
<1>3. CASE ProcessPacket /\ Head(line).source = "btDevice"
  <2> DEFINE p == Head(line)
  <2>1. BoardsOK' /\ IsBoard(Kept) /\ p.code \in Codes
    BY <1>3, DevicePacket DEF LogsInv, BoardsOK, GoodPackets
  <2>2. CASE p.code = "DATA"
    <3>1. /\ Kept' = WithData(Kept, p.boot, p.arg)
          /\ told' = [told EXCEPT !.data = Append(@, Kept'.data)]
      BY <1>3, <2>2, DevicePacket DEF LogsInv
    <3>2. /\ told'.data = Append(told.data, Kept'.data) /\ told'.events = told.events
          /\ told' = [data |-> told'.data, events |-> told'.events]
      BY <3>1 DEF LogsInv, ToldOK
    <3>3. Kept'.dataLog = Logged(Kept.dataLog, Kept'.data) /\ Kept'.eventLog = Kept.eventLog
      <4>1. PICK b, w : b = Kept /\ w = Kept'
        OBVIOUS
      <4>2. IsBoard(b) /\ w = WithData(b, p.boot, p.arg)
        BY <2>1, <3>1, <4>1
      <4>3. w.dataLog = Logged(b.dataLog, w.data) /\ w.eventLog = b.eventLog
        <5>1. PICK boot, arg : boot = p.boot /\ arg = p.arg
          OBVIOUS
        <5> QED
          BY <4>2, <5>1, DataFacts
      <4> QED
        BY <4>1, <4>3
    <3>4. ToldOK' /\ Kept'.dataLog = Recent(told'.data)
      BY <3>2, <3>3, ToldMore DEF LogsInv, ToldOK
    <3> QED
      BY <2>1, <3>2, <3>3, <3>4 DEF LogsInv
  <2>3. CASE p.code = "EVENT"
    <3>1. /\ Kept' = WithEvent(Kept, p.arg)
          /\ told' = [told EXCEPT !.events = Append(@, Kept'.events[p.arg + 1])]
      BY <1>3, <2>3, DevicePacket DEF LogsInv
    <3>2. /\ told'.events = Append(told.events, Kept'.events[p.arg + 1]) /\ told'.data = told.data
          /\ told' = [data |-> told'.data, events |-> told'.events]
      BY <3>1 DEF LogsInv, ToldOK
    <3>3. /\ Kept'.eventLog = Logged(Kept.eventLog, Kept'.events[p.arg + 1])
          /\ Kept'.dataLog = Kept.dataLog
      BY <2>1, <3>1, EventFacts
    <3>4. ToldOK' /\ Kept'.eventLog = Recent(told'.events)
      BY <3>2, <3>3, ToldMore DEF LogsInv, ToldOK
    <3> QED
      BY <2>1, <3>2, <3>3, <3>4 DEF LogsInv
  <2>4. CASE p.code \in BoardInfo \cup DeviceInfo
    <3>1. Kept' = WithInfo(Kept, p.code, p.boot) /\ told' = told
      BY <1>3, <2>4, DevicePacket DEF LogsInv
    <3>2. Kept'.dataLog = Kept.dataLog /\ Kept'.eventLog = Kept.eventLog
      <4>1. PICK b, w : b = Kept /\ w = Kept'
        OBVIOUS
      <4>2. IsBoard(b) /\ w = WithInfo(b, p.code, p.boot)
        BY <2>1, <3>1, <4>1
      <4>3. w.dataLog = b.dataLog /\ w.eventLog = b.eventLog
        <5>1. PICK boot, code : boot = p.boot /\ code = p.code
          OBVIOUS
        <5> QED
          BY <2>4, <4>2, <5>1, InfoFacts
      <4> QED
        BY <4>1, <4>3
    <3> QED
      BY <2>1, <3>1, <3>2 DEF LogsInv, ToldOK
  <2>5. CASE p.code \in {"READY", "ACK"}
    <3>1. Kept' = Kept /\ told' = told
      BY <1>3, <2>5, DevicePacket DEF LogsInv
    <3> QED
      BY <2>1, <3>1 DEF LogsInv, ToldOK
  <2> QED
    BY <2>1, <2>2, <2>3, <2>4, <2>5 DEF Codes
<1> QED
  BY <1>1, <1>2, <1>3, OtherSteps, PacketSource

\* At the start there is no board.
LEMMA InitFacts ==
  ASSUME Init
  PROVE  /\ BoardsOK /\ Kept = NewBoard /\ ~ HasDevice
         /\ ToldOK /\ told.data = << >> /\ told.events = << >>
<1>1. Kept = NewBoard /\ ~ HasDevice /\ boards = [s \in Sources |-> boards[s]]
  BY DEF Init, Kept, HasDevice, Sources
<1>2. told = [data |-> << >>, events |-> << >>]
  BY DEF Init
<1>3. IsBoard(NewBoard)
  BY DEF IsBoard, NewBoard
<1> QED
  BY <1>1, <1>2, <1>3, EmptySeq DEF BoardsOK, ToldOK

\* It holds in every reachable state.
LEMMA LogsAlways == Spec => []LogsInv
<1>1. Init => LogsInv
  <2>1. Recent(<< >>) = << >>
    BY LogMaxAssumption, EmptySeq DEF Recent
  <2>2. NewBoard.dataLog = << >> /\ NewBoard.eventLog = << >>
    BY DEF NewBoard
  <2> QED
    BY <2>1, <2>2, InitFacts DEF LogsInv
<1> QED
  BY <1>1, LogsStep, LineAlways, PTL DEF Spec

\* The logs of a device hold what was signalled last, in order, and as much of it
\* as fits, for every limit: addDataLog() and addEventLog() cut from the front.
THEOREM LogsFollowSignals == Spec => []LogsAreRecent
<1>1. LogsInv => LogsAreRecent
  BY DEF LogsInv, LogsAreRecent, Kept
<1> QED
  BY <1>1, LogsAlways, PTL

----------------------------------------------------------------------------
(***************************************************************************)
(* Labels and types.                                                       *)
(***************************************************************************)
\* Which starts the present lists and the last signal are from.
StartsOK ==
  /\ setIn.data \in 0 .. Boot /\ setIn.events \in 0 .. Boot
  /\ signal.kind # "none" => signal.boot \in 1 .. Boot

EventsInv ==
  /\ BoardsOK /\ ToldOK /\ StartsOK
  /\ setIn.events # 0 => Kept.events = Labels(setIn.events, boots[setIn.events].events)
  /\ setIn.events = 0 => \E m \in Nat : Kept.events = Labels(MadeUp, m)

DataInv ==
  /\ BoardsOK /\ StartsOK
  /\ setIn.data # 0 =>
       /\ Kept.type = boots[setIn.data].type
       /\ \E boot \in {setIn.data, MadeUp} :
            \E v : Kept.data = Filled(boots[setIn.data].data, boot, v)

\* What the history notes for a packet of the device.
LEMMA SetInFacts ==
  ASSUME LineInv, BoardsOK, ProcessPacket, Head(line).source = "btDevice"
  PROVE  LET p == Head(line)
         IN  /\ setIn'.events =
                  IF p.code = "INFOEVENT" THEN p.boot
                  ELSE IF p.code = "EVENT" /\ p.boot # setIn.events /\ Unknown(Kept, p.arg)
                       THEN 0 ELSE setIn.events
             /\ setIn'.data =
                  IF p.code = "INFODATA" \/ (p.code = "DATA" /\ Len(Kept.data) # boots[p.boot].data)
                  THEN p.boot ELSE setIn.data
<1>1. setIn' = SetInAfter(Head(line)) /\ BoardOf(Head(line)) = Kept
  BY DevicePacket
<1> QED
  BY <1>1 DEF SetInAfter

\* What it signals for a packet of the device.
LEMMA SignalFacts ==
  ASSUME LineInv, BoardsOK, ProcessPacket, Head(line).source = "btDevice"
  PROVE  LET p == Head(line)
         IN  /\ signal'.kind = "data" => p.code = "DATA"
             /\ signal'.kind = "event" => p.code = "EVENT"
             /\ signal'.kind # "none" => signal'.boot = p.boot /\ signal'.arg = p.arg
<1> DEFINE p == Head(line)
<1>1. signal' = SignalOf(p)
  BY DevicePacket
<1>2. CASE p.code = "DATA"
  BY <1>1, <1>2 DEF SignalOf
<1>3. CASE p.code = "EVENT"
  BY <1>1, <1>3 DEF SignalOf
<1>4. CASE p.code = "ACK"
  BY <1>1, <1>4 DEF SignalOf
<1>5. CASE p.code \notin {"DATA", "EVENT", "ACK"}
  BY <1>1, <1>5 DEF SignalOf, NoSignal
<1> QED
  BY <1>2, <1>3, <1>4, <1>5

\* At the start nothing is noted.
LEMMA StartsInit ==
  ASSUME Init
  PROVE  StartsOK /\ setIn.data = 0 /\ setIn.events = 0 /\ signal.kind = "none"
<1>1. setIn.data = 0 /\ setIn.events = 0 /\ signal.kind = "none"
  BY DEF Init, NoSignal
<1>2. Boot \in Nat
  BY LineInit, BootFacts
<1> QED
  BY <1>1, <1>2 DEF StartsOK

\* The starts that are noted were.
LEMMA StartsStep ==
  ASSUME LineInv, BoardsOK, StartsOK, [Next]_vars
  PROVE  StartsOK'
<1>1. BootsGrow /\ Boot \in Nat
  BY BootsStep DEF BootsGrow
<1>2. 0 .. Boot \subseteq 0 .. Boot' /\ 1 .. Boot \subseteq 1 .. Boot'
  BY <1>1 DEF BootsGrow
<1>3. CASE UNCHANGED <<boards, signal, told, setIn>>
  BY <1>2, <1>3 DEF StartsOK
<1>4. ASSUME ProcessPacket PROVE StartsOK'
  <2>1. Head(line).boot \in 1 .. Boot /\ Boot' = Boot
    BY <1>4, HeadTailProperties DEF LineInv, GoodPackets, ProcessPacket, Boot
  <2>2. CASE Head(line).source = "btComm"
    <3>1. /\ setIn'.data = setIn.data /\ setIn'.events = setIn.events
          /\ signal'.kind # "none" => signal'.boot = Head(line).boot
      BY <1>4, <2>2, CommPacket
    <3> QED
      BY <2>1, <3>1 DEF StartsOK
  <2>3. CASE Head(line).source = "btDevice"
    <3>1. setIn'.data \in {setIn.data, Head(line).boot}
          /\ setIn'.events \in {setIn.events, Head(line).boot, 0}
      BY <1>4, <2>3, SetInFacts
    <3>2. signal'.kind # "none" => signal'.boot = Head(line).boot
      BY <1>4, <2>3, SignalFacts
    <3>3. 0 \in 0 .. Boot /\ Head(line).boot \in 0 .. Boot
      BY <1>1, <2>1
    <3> QED
      BY <2>1, <3>1, <3>2, <3>3 DEF StartsOK
  <2> QED
    BY <1>4, <2>2, <2>3, PacketSource
<1> QED
  BY <1>3, <1>4, OtherSteps

\* The device's list of events names the events that it sends.
LEMMA EventsStep ==
  ASSUME LineInv, EventsInv, EventNamed, LogsInv', [Next]_vars
  PROVE  EventsInv' /\ EventNamed'
<1>1. BootsGrow /\ Boot \in Nat
  BY BootsStep DEF BootsGrow
<1>2. BoardsOK' /\ ToldOK' /\ StartsOK'
  BY StartsStep DEF EventsInv, LogsInv
<1>3. CASE UNCHANGED <<boards, signal, told, setIn>>
  <2>1. setIn.events # 0 => setIn.events \in 1 .. Boot
    BY <1>1 DEF EventsInv, StartsOK
  <2>2. setIn.events # 0 => boots'[setIn.events] = boots[setIn.events]
    BY <1>1, <2>1 DEF BootsGrow
  <2>3. EventsInv'
    BY <1>2, <1>3, <2>2 DEF EventsInv, Kept, HasDevice, Device, Labels
  <2> QED
    BY <1>3, <2>3 DEF EventNamed
<1>4. CASE ProcessPacket /\ Head(line).source = "btComm"
  <2>1. /\ Kept' = Kept /\ setIn'.events = setIn.events /\ boots' = boots
        /\ signal'.kind # "event"
    BY <1>4, CommPacket DEF EventsInv, ProcessPacket
  <2> QED
    BY <1>2, <2>1 DEF EventsInv, EventNamed, Labels
<1>5. CASE ProcessPacket /\ Head(line).source = "btDevice"
  <2> DEFINE p == Head(line)
             n == setIn'.events
  <2>1. /\ p \in GoodPackets /\ p.code \in Codes /\ boots' = boots
        /\ IsBoard(Kept) /\ BoardsOK
    BY <1>5, DevicePacket DEF EventsInv, BoardsOK, GoodPackets, ProcessPacket
  <2>2. p.boot \in 1 .. Boot /\ p.arg \in Nat
    BY <2>1 DEF GoodPackets
  <2>3. \A k \in 1 .. Boot : /\ boots[k].events \in Nat
                             /\ Len(Labels(k, boots[k].events)) = boots[k].events
    <3>1. ASSUME NEW k \in 1 .. Boot PROVE boots[k].events \in Nat
      BY BootFacts DEF Layout
    <3>2. ASSUME NEW k \in 1 .. Boot PROVE Len(Labels(k, boots[k].events)) = boots[k].events
      BY <3>1, LenOfList DEF Labels
    <3> QED
      BY <3>1, <3>2
  <2>4. CASE p.code = "EVENT"
    <3>1. PICK b, w : b = Kept /\ w = Kept'
      OBVIOUS
    <3>2. w = WithEvent(b, p.arg) /\ IsBoard(b)
      BY <1>5, <2>1, <2>4, <3>1, DevicePacket
    <3>3. w.events = IF Unknown(b, p.arg) THEN Labels(MadeUp, p.arg + 1) ELSE b.events
      BY <3>2, EventFacts
    <3>4. n = IF p.boot # setIn.events /\ Unknown(b, p.arg) THEN 0 ELSE setIn.events
      BY <1>5, <2>1, <2>4, <3>1, SetInFacts
    <3>5. p.arg < boots[p.boot].events
      BY <2>1, <2>4 DEF GoodPackets
    <3>6. n # 0 => n = setIn.events /\ w.events = b.events /\ n \in 1 .. Boot
      <4>1. n # 0 => n = setIn.events /\ n \in 1 .. Boot
        BY <1>1, <3>4 DEF EventsInv, StartsOK
      <4>2. ASSUME p.boot = setIn.events PROVE ~ Unknown(b, p.arg)
        <5>1. b.events = Labels(p.boot, boots[p.boot].events)
          BY <1>1, <2>2, <3>1, <4>2 DEF EventsInv
        <5>2. Len(b.events) = boots[p.boot].events
          BY <2>2, <2>3, <5>1
        <5> QED
          BY <2>2, <2>3, <3>5, <5>2 DEF Unknown
      <4> QED
        BY <3>3, <3>4, <4>1, <4>2
    <3>7. n # 0 => w.events = Labels(n, boots[n].events)
      BY <3>1, <3>6 DEF EventsInv
    <3>8. EventsInv'
      <4>1. n = 0 => \E m \in Nat : w.events = Labels(MadeUp, m)
        <5>1. CASE Unknown(b, p.arg)
          BY <2>2, <3>3, <5>1
        <5>2. CASE ~ Unknown(b, p.arg)
          BY <3>1, <3>3, <3>4, <5>2 DEF EventsInv
        <5> QED
          BY <5>1, <5>2
      <4> QED
        BY <1>2, <2>1, <3>1, <3>7, <4>1 DEF EventsInv, Labels
    <3>9. told'.events[Len(told'.events)] = w.events[p.arg + 1]
      <4>1. told'.events = Append(told.events, w.events[p.arg + 1])
        BY <1>5, <2>1, <2>4, <3>1, DevicePacket DEF EventsInv, ToldOK
      <4> QED
        BY <4>1, ToldMore DEF EventsInv, ToldOK
    <3>10. signal'.kind = "event" => signal'.boot = p.boot /\ signal'.arg = p.arg
      BY <1>5, <2>1, SignalFacts
    <3>11. w.events[p.arg + 1] = Label(n, p.arg + 1)
      <4>1. PICK k, m : /\ k = n /\ m \in Nat /\ w.events = Labels(k, m)
                        /\ n # 0 => m = boots[n].events
        BY <2>3, <3>1, <3>6, <3>7, <3>8 DEF EventsInv, MadeUp
      <4>2. Len(w.events) = m
        BY <4>1, LenOfList DEF Labels
      <4>3. p.arg + 1 \in 1 .. m
        <5>1. CASE Unknown(b, p.arg)
          <6>1. Len(Labels(MadeUp, p.arg + 1)) = p.arg + 1
            BY <2>2, LenOfList DEF Labels
          <6>2. m = p.arg + 1
            BY <3>3, <4>2, <5>1, <6>1
          <6> QED
            BY <2>2, <6>2
        <5>2. CASE ~ Unknown(b, p.arg)
          <6>1. p.arg < Len(b.events) /\ w.events = b.events
            BY <2>2, <3>3, <4>1, <4>2, <5>2 DEF Unknown
          <6> QED
            BY <2>2, <4>1, <4>2, <6>1
        <5> QED
          BY <5>1, <5>2
      <4>4. Labels(k, m)[p.arg + 1] = Label(k, p.arg + 1)
        BY <4>3 DEF Labels
      <4> QED
        BY <4>1, <4>4
    <3> QED
      BY <3>8, <3>9, <3>10, <3>11 DEF EventNamed
  <2>5. CASE p.code # "EVENT"
    <3>1. signal'.kind # "event"
      BY <1>5, <2>1, <2>5, SignalFacts
    <3>2. CASE p.code = "INFOEVENT"
      <4>1. n = p.boot
        BY <1>5, <2>1, <3>2, SetInFacts
      <4>2. PICK b, w : b = Kept /\ w = Kept'
        OBVIOUS
      <4>3. w = WithInfo(b, "INFOEVENT", p.boot) /\ IsBoard(b)
        BY <1>5, <2>1, <3>2, <4>2, DevicePacket DEF DeviceInfo
      <4>4. w.events = Labels(p.boot, boots[p.boot].events)
        <5>1. "INFOEVENT" \in BoardInfo \cup DeviceInfo
          BY DEF DeviceInfo
        <5> QED
          BY <4>3, <5>1, InfoFacts
      <4>5. n # 0
        BY <2>2, <4>1
      <4> QED
        BY <1>2, <2>1, <3>1, <4>1, <4>2, <4>4, <4>5 DEF EventsInv, EventNamed, Labels
    <3>3. CASE p.code # "INFOEVENT"
      <4>1. n = setIn.events
        BY <1>5, <2>1, <2>5, <3>3, SetInFacts
      <4>2. PICK b, w : b = Kept /\ w = Kept'
        OBVIOUS
      <4>3. w.events = b.events
        <5>1. CASE p.code = "DATA"
          <6>1. w = WithData(b, p.boot, p.arg) /\ IsBoard(b)
            BY <1>5, <2>1, <5>1, <4>2, DevicePacket
          <6> QED
            BY <6>1, DataFacts
        <5>2. CASE p.code \in BoardInfo \cup DeviceInfo
          <6>1. w = WithInfo(b, p.code, p.boot) /\ IsBoard(b)
            BY <1>5, <2>1, <5>2, <4>2, DevicePacket
          <6> QED
            BY <3>3, <5>2, <6>1, InfoFacts
        <5>3. CASE p.code \in {"READY", "ACK"}
          BY <1>5, <2>1, <5>3, <4>2, DevicePacket
        <5> QED
          BY <2>1, <2>5, <5>1, <5>2, <5>3 DEF Codes
      <4> QED
        BY <1>2, <2>1, <3>1, <4>1, <4>2, <4>3 DEF EventsInv, EventNamed, Labels
    <3> QED
      BY <3>2, <3>3
  <2> QED
    BY <2>4, <2>5
<1> QED
  BY <1>3, <1>4, <1>5, OtherSteps, PacketSource

\* Every event is signalled under the number that the device sent, with the label of
\* the start of the device whose description is in place, or a made-up one while none
\* is or after an event that it does not have; for all layouts and however often the
\* device restarts.  A known id makes processPacket() leave the list alone, and a list
\* that the present start has described knows every id that it sends.
THEOREM EventsKeepTheirNames == Spec => []EventNamed
<1>1. Init => EventsInv /\ EventNamed
  <2> SUFFICES ASSUME Init PROVE EventsInv /\ EventNamed
    OBVIOUS
  <2>1. StartsOK /\ setIn.events = 0 /\ signal.kind = "none"
    BY StartsInit
  <2>2. Labels(MadeUp, 0) = << >> /\ NewBoard.events = << >>
    BY DEF Labels, NewBoard
  <2>3. \E m \in Nat : Kept.events = Labels(MadeUp, m)
    BY <2>2, InitFacts
  <2> QED
    BY <2>1, <2>3, InitFacts DEF EventsInv, EventNamed
<1>2. LineInv /\ LogsInv' /\ EventsInv /\ EventNamed /\ [Next]_vars => EventsInv' /\ EventNamed'
  BY EventsStep
<1> QED
  BY <1>1, <1>2, LineAlways, LogsAlways, PTL DEF Spec

\* The stored type and labels are those that belong together.
LEMMA DataStep ==
  ASSUME LineInv, DataInv, DataDescribed, [Next]_vars
  PROVE  DataInv' /\ DataDescribed'
<1>1. BootsGrow /\ Boot \in Nat
  BY BootsStep DEF BootsGrow
<1>2. StartsOK'
  BY StartsStep DEF DataInv
<1>3. CASE UNCHANGED <<boards, signal, told, setIn>>
  <2>1. setIn.data # 0 => setIn.data \in 1 .. Boot
    BY <1>1 DEF DataInv, StartsOK
  <2>2. setIn.data # 0 => boots'[setIn.data] = boots[setIn.data]
    BY <1>1, <2>1 DEF BootsGrow
  <2>3. UNCHANGED <<Kept, Device>> /\ BoardsOK'
    BY <1>3 DEF DataInv, BoardsOK, Kept, HasDevice, Device
  <2>4. DataInv'
    BY <1>2, <1>3, <2>2, <2>3 DEF DataInv
  <2>5. signal.kind = "data" => boots'[signal.boot] = boots[signal.boot]
    BY <1>1 DEF DataInv, StartsOK, BootsGrow
  <2>6. DataDescribed'
    BY <1>3, <2>3, <2>5 DEF DataDescribed
  <2> QED
    BY <2>4, <2>6
<1>4. CASE ProcessPacket /\ Head(line).source = "btComm"
  <2>1. /\ Kept' = Kept /\ setIn'.data = setIn.data /\ boots' = boots /\ BoardsOK'
        /\ signal'.kind # "data"
    BY <1>4, CommPacket DEF DataInv, ProcessPacket
  <2> QED
    BY <1>2, <2>1 DEF DataInv, DataDescribed
<1>5. CASE ProcessPacket /\ Head(line).source = "btDevice"
  <2> DEFINE p == Head(line)
             n == setIn'.data
  <2>1. /\ p \in GoodPackets /\ p.code \in Codes /\ boots' = boots
        /\ IsBoard(Kept) /\ BoardsOK /\ BoardsOK' /\ Device' = Kept'
    BY <1>5, DevicePacket DEF DataInv, BoardsOK, GoodPackets, ProcessPacket
  <2>2. p.boot \in 1 .. Boot /\ \A k \in 1 .. Boot : boots[k].data \in Nat
    BY <2>1, BootFacts DEF GoodPackets, Layout
  <2>3. PICK b, w : b = Kept /\ w = Kept'
    OBVIOUS
  <2>4. CASE p.code = "DATA"
    <3>1. w = WithData(b, p.boot, p.arg) /\ IsBoard(b)
      BY <1>5, <2>1, <2>3, <2>4, DevicePacket
    <3>2. /\ w.type = IF Len(b.data) = boots[p.boot].data THEN b.type ELSE boots[p.boot].type
          /\ w.data = DataAfter(b, p.boot, p.arg)
      BY <3>1, DataFacts
    <3>3. n = IF Len(b.data) # boots[p.boot].data THEN p.boot ELSE setIn.data
      BY <1>5, <2>1, <2>3, <2>4, SetInFacts
    <3>4. n # 0 => /\ w.type = boots[n].type
                   /\ \E boot \in {n, MadeUp} : w.data = Filled(boots[n].data, boot, p.arg)
      <4>1. CASE Len(b.data) # boots[p.boot].data
        <5>1. w.data = Filled(boots[p.boot].data, MadeUp, p.arg)
          BY <3>2, <4>1 DEF DataAfter, Filled
        <5> QED
          BY <3>2, <3>3, <4>1, <5>1
      <4>2. CASE Len(b.data) = boots[p.boot].data
        <5> SUFFICES ASSUME n # 0
                     PROVE  /\ w.type = boots[n].type
                            /\ \E boot \in {n, MadeUp} : w.data = Filled(boots[n].data, boot, p.arg)
          OBVIOUS
        <5>1. n = setIn.data /\ n \in 1 .. Boot
          BY <1>1, <3>3, <4>2 DEF DataInv, StartsOK
        <5>2. w.type = boots[n].type
          BY <2>3, <3>2, <4>2, <5>1 DEF DataInv
        <5>3. PICK boot \in {n, MadeUp} : \E v : b.data = Filled(boots[n].data, boot, v)
          BY <2>3, <5>1 DEF DataInv
        <5>4. Len(b.data) = boots[n].data
          BY <2>2, <5>1, <5>3, LenOfList DEF Filled
        <5>5. \A i \in 1 .. boots[n].data : b.data[i].label = Label(boot, i)
          BY <5>3 DEF Filled
        <5>6. w.data = [i \in 1 .. boots[n].data |-> [label |-> b.data[i].label, value |-> p.arg]]
          BY <3>2, <4>2, <5>4 DEF DataAfter
        <5>7. w.data = Filled(boots[n].data, boot, p.arg)
          BY <5>5, <5>6 DEF Filled
        <5> QED
          BY <5>2, <5>3, <5>7
      <4> QED
        BY <4>1, <4>2
    <3>5. DataInv'
      BY <1>2, <2>1, <2>3, <3>4 DEF DataInv
    <3>6. signal'.kind = "data" => signal'.boot = p.boot /\ signal'.arg = p.arg
      BY <1>5, <2>1, SignalFacts
    <3>7. p.boot # 0
      BY <2>2
    <3>8. DataDescribed'
      <4> SUFFICES ASSUME signal'.kind = "data", n = p.boot
                   PROVE  /\ Device'.type = boots'[p.boot].type
                          /\ \E boot \in {p.boot, MadeUp} :
                               Device'.data = [i \in 1 .. boots'[p.boot].data |->
                                      [label |-> Label(boot, i), value |-> p.arg]]
        BY <3>6 DEF DataDescribed
      <4> QED
        BY <2>1, <2>3, <3>4, <3>7 DEF Filled
    <3> QED
      BY <3>5, <3>8
  <2>5. CASE p.code # "DATA"
    <3>1. signal'.kind # "data"
      BY <1>5, <2>1, <2>5, SignalFacts
    <3>2. CASE p.code = "INFODATA"
      <4>1. n = p.boot
        BY <1>5, <2>1, <3>2, SetInFacts
      <4>2. w = WithInfo(b, "INFODATA", p.boot) /\ IsBoard(b)
        BY <1>5, <2>1, <2>3, <3>2, DevicePacket DEF DeviceInfo
      <4>3. "INFODATA" \in BoardInfo \cup DeviceInfo
        BY DEF DeviceInfo
      <4>4. w.type = boots[p.boot].type /\ w.data = Filled(boots[p.boot].data, p.boot, 0)
        BY <4>2, <4>3, InfoFacts
      <4> QED
        BY <1>2, <2>1, <2>3, <3>1, <4>1, <4>4 DEF DataInv, DataDescribed
    <3>3. CASE p.code # "INFODATA"
      <4>1. n = setIn.data
        BY <1>5, <2>1, <2>5, <3>3, SetInFacts
      <4>2. w.type = b.type /\ w.data = b.data
        <5>1. CASE p.code = "EVENT"
          <6>1. w = WithEvent(b, p.arg) /\ IsBoard(b)
            BY <1>5, <2>1, <2>3, <5>1, DevicePacket
          <6> QED
            BY <6>1, EventFacts
        <5>2. CASE p.code \in BoardInfo \cup DeviceInfo
          <6>1. w = WithInfo(b, p.code, p.boot) /\ IsBoard(b)
            BY <1>5, <2>1, <2>3, <5>2, DevicePacket
          <6> QED
            BY <3>3, <5>2, <6>1, InfoFacts
        <5>3. CASE p.code \in {"READY", "ACK"}
          BY <1>5, <2>1, <2>3, <5>3, DevicePacket
        <5> QED
          BY <2>1, <2>5, <5>1, <5>2, <5>3 DEF Codes
      <4> QED
        BY <1>2, <2>1, <2>3, <3>1, <4>1, <4>2 DEF DataInv, DataDescribed
    <3> QED
      BY <3>2, <3>3
  <2> QED
    BY <2>4, <2>5
<1> QED
  BY <1>3, <1>4, <1>5, OtherSteps, PacketSource

\* Data that were made or described in the present start of the device are signalled
\* with its type, and with labels that are all its own or all made up.
THEOREM DataAreDescribed == Spec => []DataDescribed
<1>1. Init => DataInv /\ DataDescribed
  BY StartsInit, InitFacts DEF DataInv, DataDescribed
<1>2. LineInv /\ DataInv /\ DataDescribed /\ [Next]_vars => DataInv' /\ DataDescribed'
  BY DataStep
<1> QED
  BY <1>1, <1>2, LineAlways, PTL DEF Spec

----------------------------------------------------------------------------
(***************************************************************************)
(* Checked indices.                                                        *)
(***************************************************************************)
\* The application is about to use an index of this list.
Using(list, idx) == app # << >> /\ app[1].list = list /\ app[1].idx = idx

\* A list that the device reported in its k-th start: what is still on the line is
\* not older, and an index that was checked was within the list of that start or
\* an earlier one.
ListFrom(k, list) ==
  /\ Len(Kept[list]) = Size(boots[k], list)
  /\ \A i \in 1 .. Len(line) : k <= line[i].boot
  /\ \A idx \in Nat : Using(list, idx) => \E i \in 1 .. k : idx < Size(boots[i], list)

ListOK(list) ==
  \/ Kept[list] = << >> /\ \A idx \in Nat : ~ Using(list, idx)
  \/ \E k \in 1 .. Boot : ListFrom(k, list)

IndexInv ==
  /\ BoardsOK
  /\ app # << >> =>
       HasDevice /\ \E list \in Lists, idx \in Int : Using(list, idx) /\ NotBelow(idx, list)
  /\ \A list \in Lists : ListOK(list)

\* What an INFO packet makes of a list is as long as the layout says.
LEMMA ListLengths ==
  ASSUME LineInv, NEW k \in 1 .. Boot
  PROVE  /\ Len(ParsedConfigs(k, boots[k].configs)) = Size(boots[k], "configs")
         /\ Len(Labels(k, boots[k].actions)) = Size(boots[k], "actions")
         /\ \A list \in Lists : Size(boots[k], list) \in Nat
<1>1. boots[k].actions \in Nat /\ Len(boots[k].configs) \in Nat
  BY BootFacts, LenProperties DEF Layout
<1>2. Len(Labels(k, boots[k].actions)) = boots[k].actions
  BY <1>1, LenOfList DEF Labels
<1>3. \A entries : Len(entries) \in Nat => Len(ParsedConfigs(k, entries)) = Len(entries)
  <2> SUFFICES ASSUME NEW entries, Len(entries) \in Nat
               PROVE  Len(ParsedConfigs(k, entries)) = Len(entries)
    OBVIOUS
  <2>1. PICK n, f : n = Len(entries) /\ f = ParsedConfigs(k, entries)
    OBVIOUS
  <2>2. f = [i \in 1 .. n |-> f[i]]
    BY <2>1 DEF ParsedConfigs
  <2> QED
    BY <2>1, <2>2, LenOfList
<1> QED
  BY <1>1, <1>2, <1>3 DEF Size, Lists

\* What a later start says of a list takes nothing back.
LEMMA ListFromStays ==
  ASSUME LineInv, LineInv', BootsGrow, NEW list \in Lists, NEW k \in 1 .. Boot, ListFrom(k, list),
         Kept'[list] = Kept[list],
         \A idx \in Nat : Using(list, idx)' => Using(list, idx),
         \A i \in 1 .. Len(line') :
           line'[i].boot = Boot' \/ \E j \in 1 .. Len(line) : line'[i].boot = line[j].boot
  PROVE  k \in 1 .. Boot' /\ ListFrom(k, list)'
<1>1. Boot \in Nat /\ Boot' \in Nat /\ Boot <= Boot' /\ k \in 1 .. Boot'
  BY DEF BootsGrow
<1>2. \A i \in 1 .. k : boots'[i] = boots[i]
  BY <1>1 DEF BootsGrow
<1>3. k \in 1 .. k
  BY <1>1
<1>4. Len(Kept'[list]) = Size(boots'[k], list)
  BY <1>2, <1>3 DEF ListFrom
<1>5. \A i \in 1 .. Len(line') : k <= line'[i].boot
  BY <1>1 DEF ListFrom
<1>6. \A idx \in Nat : Using(list, idx)' => \E i \in 1 .. k : idx < Size(boots'[i], list)
  BY <1>2 DEF ListFrom
<1> QED
  BY <1>1, <1>4, <1>5, <1>6 DEF ListFrom

\* What is new on the line is from the present start.
LEMMA LineElements ==
  ASSUME LineInv, [Next]_vars, NEW i \in 1 .. Len(line')
  PROVE  line'[i].boot = Boot' \/ \E j \in 1 .. Len(line) : line'[i].boot = line[j].boot
<1>0. Len(line) \in Nat
  BY LenProperties DEF LineInv
<1>1. CASE line' = line
  BY <1>1
<1>2. CASE LosePacket \/ ProcessPacket
  <2>1. line # << >> /\ line' = Tail(line)
    BY <1>2 DEF LosePacket, ProcessPacket
  <2>2. Len(line') = Len(line) - 1 /\ \A j \in 1 .. Len(line') : line'[j] = line[j + 1]
    BY <2>1, HeadTailProperties DEF LineInv
  <2>3. i + 1 \in 1 .. Len(line)
    BY <1>0, <2>2
  <2> QED
    BY <2>2, <2>3
<1>3. ASSUME NEW packets \in Seq({p \in GoodPackets : p.boot = Boot}),
             line' = line \o packets, boots' = boots
      PROVE  line'[i].boot = Boot' \/ \E j \in 1 .. Len(line) : line'[i].boot = line[j].boot
  <2>1. packets \in Seq(GoodPackets) /\ line \in Seq(GoodPackets)
    BY SeqMonotonic DEF LineInv
  <2>2. /\ Len(packets) \in Nat /\ Len(line') = Len(line) + Len(packets)
        /\ line'[i] = IF i <= Len(line) THEN line[i] ELSE packets[i - Len(line)]
    <3>1. Len(packets) \in Nat /\ Len(line') = Len(line) + Len(packets)
      BY <1>3, <2>1, ConcatProperties, LenProperties
    <3> QED
      BY <1>3, <2>1, <3>1, ConcatProperties
  <2>3. CASE i <= Len(line)
    BY <1>0, <2>2, <2>3
  <2>4. CASE i > Len(line)
    <3>1. i - Len(line) \in 1 .. Len(packets)
      BY <1>0, <2>2, <2>4
    <3>2. packets[i - Len(line)].boot = Boot
      BY <3>1, ElementOfSeq
    <3> QED
      BY <1>0, <1>3, <2>2, <2>4, <3>2 DEF Boot
  <2> QED
    BY <1>0, <2>2, <2>3, <2>4
<1>4. ASSUME NEW l \in Layouts, NEW n \in 0 .. Len(line), Restart(l, n)
      PROVE  line'[i].boot = Boot' \/ \E j \in 1 .. Len(line) : line'[i].boot = line[j].boot
  <2> DEFINE ready == [code |-> "READY", source |-> "btDevice", boot |-> Boot + 1, arg |-> 0]
             cut == SubSeq(line, 1, n)
  <2>1. line' = Append(cut, ready) /\ boots' = Append(boots, l)
    BY <1>4 DEF Restart
  <2>2. Boot' = Boot + 1
    BY <2>1, AppendProperties, LayoutsAssumption DEF LineInv, Boot
  <2>3. n \in Nat /\ \A j \in 1 .. n : line[j] \in GoodPackets /\ j \in 1 .. Len(line)
    BY <1>0, ElementOfSeq DEF LineInv
  <2>4. cut \in Seq(GoodPackets) /\ Len(cut) = n /\ \A j \in 1 .. n : cut[j] = line[j]
    <3>1. n - 1 + 1 = n /\ \A j \in 1 .. n : 1 + j - 1 = j
      BY <2>3
    <3>2. cut \in Seq(GoodPackets) /\ \A j \in 1 .. n - 1 + 1 : cut[j] = line[1 + j - 1]
      BY <2>3, SubSeqProperties
    <3>3. Len(cut) = IF 1 <= n THEN n - 1 + 1 ELSE 0
      BY <2>3, SubSeqProperties
    <3> QED
      BY <2>3, <3>1, <3>2, <3>3
  <2>5. cut \in Seq(GoodPackets \cup {ready}) /\ ready \in GoodPackets \cup {ready}
    BY <2>4, SeqMonotonic
  <2> HIDE DEF cut
  <2>6. Len(line') = n + 1 /\ line'[n + 1] = ready /\ \A j \in 1 .. n : line'[j] = cut[j]
    BY <2>1, <2>4, <2>5, AppendProperties
  <2>7. CASE i = n + 1
    BY <2>2, <2>6, <2>7
  <2>8. CASE i \in 1 .. n
    BY <2>3, <2>4, <2>6, <2>8
  <2> QED
    BY <2>3, <2>6, <2>7, <2>8
<1> QED
  BY <1>1, <1>2, <1>3, <1>4, ReportSends, NotesSend
     DEF Next, DeviceStep, AppStep, CheckIndex, UseIndex, vars, deviceVars

\* A step that leaves a list, and starts to use no index of it.
LEMMA ListStays ==
  ASSUME LineInv, LineInv', [Next]_vars, NEW list \in Lists, ListOK(list), Kept'[list] = Kept[list],
         \A idx \in Nat : Using(list, idx)' => Using(list, idx)
  PROVE  ListOK(list)'
<1>1. BootsGrow
  BY BootsStep
<1>2. CASE Kept[list] = << >> /\ \A idx \in Nat : ~ Using(list, idx)
  BY <1>2 DEF ListOK
<1>3. ASSUME NEW k \in 1 .. Boot, ListFrom(k, list) PROVE ListOK(list)'
  <2>1. k \in 1 .. Boot' /\ ListFrom(k, list)'
    BY <1>1, <1>3, LineElements, ListFromStays
  <2> QED
    BY <2>1 DEF ListOK
<1> QED
  BY <1>2, <1>3 DEF ListOK

\* The application looks at a list before it uses an index of it.
LEMMA CheckKeeps ==
  ASSUME LineInv, LineInv', IndexInv,
         NEW list \in Lists, NEW idx \in -1 .. MaxIndex, CheckIndex(list, idx)
  PROVE  IndexInv'
<1>1. /\ app = << >> /\ HasDevice /\ idx < Len(Kept[list]) /\ idx \in Int
      /\ NotBelow(idx, list)
      /\ app' = <<[list |-> list, idx |-> idx]>>
      /\ UNCHANGED <<boards, boots, line, Kept, HasDevice>>
  <2>1. idx \in Int
    BY BoardsBoundsAssumption
  <2> QED
    BY <2>1 DEF CheckIndex, WithinCount, HasDevice, Kept, Device, deviceVars
<1>2. app'[1].list = list /\ app'[1].idx = idx /\ app' # << >>
  BY <1>1
<1>3. BoardsOK'
  BY <1>1 DEF IndexInv, BoardsOK
<1>4. ASSUME NEW other \in Lists, other # list PROVE ListOK(other)'
  <2>1. \A i \in Nat : ~ Using(other, i)'
    BY <1>2, <1>4 DEF Using
  <2>2. [Next]_vars
    BY DEF Next, AppStep
  <2> QED
    BY <1>1, <2>1, <2>2, ListStays DEF IndexInv
<1>5. ListOK(list)'
  <2>1. \A i \in Nat : Using(list, i)' => i = idx
    BY <1>2 DEF Using
  <2>2. CASE Kept[list] = << >>
    <3>1. ~ idx \in Nat
      BY <1>1, <2>2
    <3> QED
      BY <1>1, <2>1, <2>2, <3>1 DEF ListOK
  <2>3. CASE Kept[list] # << >>
    <3>1. PICK k \in 1 .. Boot : ListFrom(k, list)
      BY <2>3 DEF IndexInv, ListOK
    <3>2. Boot \in Nat /\ k \in 1 .. k /\ idx < Size(boots[k], list)
      BY <1>1, <3>1, BootFacts DEF ListFrom
    <3>3. ListFrom(k, list)'
      BY <1>1, <2>1, <3>1, <3>2 DEF ListFrom
    <3>4. k \in 1 .. Boot'
      BY <1>1 DEF Boot
    <3> QED
      BY <3>3, <3>4 DEF ListOK
  <2> QED
    BY <2>2, <2>3
<1>6. HasDevice' /\ \E l \in Lists, i \in Int : Using(l, i)' /\ NotBelow(i, l)
  BY <1>1, <1>2 DEF Using
<1> QED
  BY <1>3, <1>4, <1>5, <1>6 DEF IndexInv

\* A report replaces a list by that of the start it comes from.
LEMMA ReplaceKeeps ==
  ASSUME LineInv, LineInv', ProcessPacket, NEW list \in Lists, ListOK(list),
         Len(Kept'[list]) = Size(boots[Head(line).boot], list)
  PROVE  ListOK(list)'
<1> DEFINE k == Head(line).boot
<1>1. /\ k \in 1 .. Boot /\ boots' = boots /\ app' = app /\ Boot' = Boot /\ Boot \in Nat
      /\ Head(line) = line[1] /\ Len(line) \in Nat \ {0} /\ 1 \in 1 .. Len(line)
  <2>1. line # << >> /\ Len(line) \in Nat \ {0}
    BY EmptySeq DEF LineInv, ProcessPacket
  <2>2. Head(line) \in GoodPackets /\ Head(line) = line[1]
    BY <2>1, HeadTailProperties DEF LineInv
  <2>3. Boot \in Nat
    BY BootFacts
  <2> QED
    BY <2>1, <2>2, <2>3 DEF GoodPackets, ProcessPacket, Boot
<1>2. Len(line') = Len(line) - 1 /\ \A i \in 1 .. Len(line') : line'[i] = line[i + 1]
  BY HeadTailProperties DEF LineInv, ProcessPacket
<1>3. ASSUME NEW i \in 1 .. Len(line') PROVE k <= line'[i].boot
  <2>1. i + 1 \in 1 .. Len(line) /\ 1 < i + 1
    BY <1>1, <1>2
  <2>2. line[1].boot <= line[i + 1].boot
    BY <1>1, <2>1 DEF LineInv
  <2> QED
    BY <1>1, <1>2, <2>2
<1>4. ASSUME NEW idx \in Nat, Using(list, idx)'
      PROVE  \E i \in 1 .. k : idx < Size(boots[i], list)
  <2>1. Using(list, idx)
    BY <1>1, <1>4 DEF Using
  <2>2. PICK old \in 1 .. Boot : ListFrom(old, list)
    BY <2>1 DEF ListOK
  <2>3. old <= k
    BY <1>1, <2>2 DEF ListFrom
  <2>4. PICK i \in 1 .. old : idx < Size(boots[i], list)
    BY <2>1, <2>2 DEF ListFrom
  <2>5. i \in 1 .. k
    BY <1>1, <2>2, <2>3
  <2> QED
    BY <2>4, <2>5
<1>5. PICK n : n = k
  OBVIOUS
<1>6. ListFrom(n, list)' /\ n \in 1 .. Boot'
  BY <1>1, <1>3, <1>4, <1>5 DEF ListFrom
<1> QED
  BY <1>6 DEF ListOK

\* Only reports replace lists.
LEMMA IndexStep ==
  ASSUME LineInv, LineInv', IndexInv, [Next]_vars
  PROVE  IndexInv'
<1>1. CASE \E list \in Lists : \E idx \in -1 .. MaxIndex : CheckIndex(list, idx)
  BY <1>1, CheckKeeps
<1>2. CASE UNCHANGED boards /\ (app' = app \/ app' = << >>)
  <2>1. UNCHANGED <<Kept, HasDevice>> /\ BoardsOK'
    BY <1>2 DEF IndexInv, BoardsOK, Kept, HasDevice, Device
  <2>2. \A list, idx : Using(list, idx)' => Using(list, idx)
    BY <1>2 DEF Using
  <2>3. \A list \in Lists : ListOK(list)'
    BY <2>1, <2>2, ListStays DEF IndexInv
  <2>4. app' # << >> =>
          HasDevice' /\ \E list \in Lists, idx \in Int : Using(list, idx)' /\ NotBelow(idx, list)
    BY <1>2, <2>1 DEF IndexInv, Using
  <2> QED
    BY <2>1, <2>3, <2>4 DEF IndexInv
<1>3. CASE ProcessPacket
  <2>1. app' = app /\ boots' = boots
    BY <1>3 DEF ProcessPacket
  <2>2. \A list, idx : Using(list, idx)' <=> Using(list, idx)
    BY <2>1 DEF Using
  <2>3. CASE Head(line).source = "btComm"
    <3>1. UNCHANGED <<Kept, HasDevice>> /\ BoardsOK'
      BY <1>3, <2>3, CommPacket DEF IndexInv
    <3>2. \A list \in Lists : ListOK(list)'
      BY <2>2, <3>1, ListStays DEF IndexInv
    <3> QED
      BY <2>1, <2>2, <3>1, <3>2 DEF IndexInv
  <2>4. CASE Head(line).source = "btDevice"
    <3> DEFINE p == Head(line)
    <3>1. /\ p \in GoodPackets /\ p.code \in Codes /\ HasDevice' /\ BoardsOK' /\ IsBoard(Kept)
      BY <1>3, <2>4, DevicePacket DEF IndexInv, BoardsOK, GoodPackets
    <3>2. p.boot \in 1 .. Boot
      BY <3>1 DEF GoodPackets
    <3>3. PICK b, w : b = Kept /\ w = Kept'
      OBVIOUS
    <3>4. /\ w.configs = b.configs \/ Len(w.configs) = Size(boots[p.boot], "configs")
          /\ w.actions = b.actions \/ Len(w.actions) = Size(boots[p.boot], "actions")
      <4>1. CASE p.code = "DATA"
        <5>1. w = WithData(b, p.boot, p.arg) /\ IsBoard(b)
          BY <1>3, <2>4, <3>1, <3>3, <4>1, DevicePacket DEF IndexInv
        <5> QED
          BY <5>1, DataFacts
      <4>2. CASE p.code = "EVENT"
        <5>1. w = WithEvent(b, p.arg) /\ IsBoard(b)
          BY <1>3, <2>4, <3>1, <3>3, <4>2, DevicePacket DEF IndexInv
        <5> QED
          BY <5>1, EventFacts
      <4>3. CASE p.code \in BoardInfo \cup DeviceInfo
        <5>1. w = WithInfo(b, p.code, p.boot) /\ IsBoard(b)
          BY <1>3, <2>4, <3>1, <3>3, <4>3, DevicePacket DEF IndexInv
        <5>2. /\ w.actions = b.actions \/ w.actions = Labels(p.boot, boots[p.boot].actions)
              /\ w.configs = b.configs \/ w.configs = ParsedConfigs(p.boot, boots[p.boot].configs)
          BY <4>3, <5>1, InfoFacts
        <5> QED
          BY <3>2, <5>2, ListLengths
      <4>4. CASE p.code \in {"READY", "ACK"}
        BY <1>3, <2>4, <3>3, <4>4, DevicePacket DEF IndexInv
      <4> QED
        BY <3>1, <4>1, <4>2, <4>3, <4>4 DEF Codes
    <3>5. \A list \in Lists : w[list] = b[list] \/ Len(w[list]) = Size(boots[p.boot], list)
      BY <3>4 DEF Lists
    <3>6. ASSUME NEW list \in Lists PROVE ListOK(list)'
      <4>1. CASE Kept'[list] = Kept[list]
        BY <2>2, <4>1, ListStays DEF IndexInv
      <4>2. CASE Len(Kept'[list]) = Size(boots[p.boot], list)
        BY <1>3, <4>2, ReplaceKeeps DEF IndexInv
      <4> QED
        BY <3>3, <3>5, <4>1, <4>2
    <3> QED
      BY <2>1, <2>2, <3>1, <3>6 DEF IndexInv
  <2> QED
    BY <1>3, <2>3, <2>4, PacketSource
<1> QED
  BY <1>1, <1>2, <1>3 DEF Next, DeviceStep, AppStep, Restart, Report, SendData, SendEvent, LosePacket,
     UseIndex, vars, deviceVars

\* An index that the application has checked is below the end of the list when it is
\* used, unless the device has restarted with a shorter list, for all layouts and all
\* orders of reports and uses; and the index of a config is not negative, which the
\* id of an action may be.
THEOREM CheckedIndexIsInRange == Spec => []IndexInRange
<1>1. Init => IndexInv
  <2> SUFFICES ASSUME Init PROVE IndexInv
    OBVIOUS
  <2>1. app = << >>
    BY DEF Init
  <2>2. \A list \in Lists : Kept[list] = << >>
    BY InitFacts DEF Lists, NewBoard
  <2> QED
    BY <2>1, <2>2, InitFacts DEF IndexInv, ListOK, Using
<1>2. LineInv /\ LineInv' /\ IndexInv /\ [Next]_vars => IndexInv'
  BY IndexStep
<1>3. LineInv /\ IndexInv => IndexInRange
  <2> SUFFICES ASSUME LineInv, IndexInv, app # << >> PROVE IndexInRange
    BY DEF IndexInRange
  <2>1. PICK list \in Lists, idx \in Int : Using(list, idx) /\ NotBelow(idx, list)
    BY DEF IndexInv
  <2>2. app[1].list = list /\ app[1].idx = idx /\ Kept = Device
    BY <2>1 DEF IndexInv, Using, Kept
  <2>3. list = "configs" => idx >= 0
    BY <2>1 DEF NotBelow
  <2> SUFFICES \/ idx < Len(Device[list])
               \/ \E i, j \in 1 .. Boot : i < j /\ Size(boots[j], list) < Size(boots[i], list)
    BY <2>2, <2>3 DEF IndexInRange
  <2>4. CASE idx \notin Nat
    <3>1. Len(Device[list]) \in Nat
      <4>1. CASE Kept[list] = << >>
        BY <2>2, <4>1, EmptySeq
      <4>2. ASSUME NEW k \in 1 .. Boot, ListFrom(k, list) PROVE Len(Kept[list]) \in Nat
        BY <4>2, ListLengths DEF ListFrom
      <4> QED
        BY <2>2, <4>1, <4>2 DEF IndexInv, ListOK
    <3> QED
      BY <2>4, <3>1
  <2>5. CASE idx \in Nat
    <3>1. PICK k \in 1 .. Boot : ListFrom(k, list)
      BY <2>1, <2>5 DEF IndexInv, ListOK
    <3>2. PICK i \in 1 .. k : idx < Size(boots[i], list)
      BY <2>1, <2>5, <3>1 DEF ListFrom
    <3>3. Boot \in Nat /\ i \in 1 .. Boot
      BY <3>1, BootFacts
    <3>4. Size(boots[i], list) \in Nat /\ Size(boots[k], list) \in Nat
      BY <3>3, ListLengths
    <3>5. Len(Device[list]) = Size(boots[k], list)
      BY <2>2, <3>1 DEF ListFrom
    <3>6. CASE Size(boots[k], list) < Size(boots[i], list)
      <4>1. i < k
        BY <3>3, <3>4, <3>6
      <4> QED
        BY <3>3, <3>6, <4>1
    <3>7. CASE Size(boots[k], list) >= Size(boots[i], list)
      BY <2>5, <3>2, <3>4, <3>5, <3>7
    <3> QED
      BY <3>4, <3>6, <3>7
  <2> QED
    BY <2>4, <2>5
<1> QED
  BY <1>1, <1>2, <1>3, LineAlways, PTL DEF Spec

----------------------------------------------------------------------------
(***************************************************************************)
(* Whole reports.  While no packet is lost, a report is handled packet by  *)
(* packet: before each of them the board has what the earlier ones told of *)
(* the same start, and nothing comes between them.                         *)
(***************************************************************************)
\* The packets that do not continue a report.
Openings == {"READY", "DATA", "EVENT", "INFOQK"}

\* What a report sends after a packet.
NextCode(source, code) ==
  CASE code = "INFOQK" -> "INFOBOARD"
    [] code = "INFOBOARD" -> IF source = "btComm" THEN "ACK" ELSE "INFOCONFIG"
    [] code = "INFOCONFIG" -> "INFOSAMP"
    [] code = "INFOSAMP" -> "INFODATA"
    [] code = "INFODATA" -> "INFOEVENT"
    [] code = "INFOEVENT" -> "INFOACTION"
    [] code = "INFOACTION" -> "ACK"
    [] OTHER -> "none"

\* What it has sent before a packet.
Before(source, code) ==
  CASE code = "INFOBOARD" -> {"INFOQK"}
    [] code = "INFOCONFIG" -> {"INFOQK", "INFOBOARD"}
    [] code = "INFOSAMP" -> BoardInfo
    [] code = "INFODATA" -> BoardInfo \cup {"INFOSAMP"}
    [] code = "INFOEVENT" -> BoardInfo \cup {"INFOSAMP", "INFODATA"}
    [] code = "INFOACTION" -> BoardInfo \cup {"INFOSAMP", "INFODATA", "INFOEVENT"}
    [] code = "ACK" -> IF source = "btComm" THEN {"INFOQK", "INFOBOARD"}
                       ELSE BoardInfo \cup DeviceInfo
    [] OTHER -> {}

Joins(p, q) ==
  \/ q.code \in Openings
  \/ p.source = q.source /\ p.boot = q.boot /\ q.code = NextCode(p.source, p.code)

Linked(s) == \A k \in 1 .. Len(s) - 1 : Joins(s[k], s[k + 1])

\* A board has what an INFO packet of a start told.
Has(b, code, boot) ==
  /\ code \in b.mask
  /\ code = "INFODATA" =>
       b.type = boots[boot].type /\ b.data = Filled(boots[boot].data, boot, 0)
  /\ code = "INFOEVENT" => b.events = Labels(boot, boots[boot].events)
  /\ code = "INFOACTION" => b.actions = Labels(boot, boots[boot].actions)

BoardAt(s) == IF boards[s] = << >> THEN NewBoard ELSE boards[s][1]

ReadyFor(p) == \A code \in Before(p.source, p.code) : Has(BoardAt(p.source), code, p.boot)

\* What a board can know.
InfoOf(source) ==
  IF source = "btComm" THEN {"INFOQK", "INFOBOARD"} ELSE BoardInfo \cup DeviceInfo

MasksOK ==
  /\ boards = [s \in Sources |-> boards[s]]
  /\ \A s \in Sources : IsBoard(BoardAt(s)) /\ BoardAt(s).mask \subseteq InfoOf(s)

ReportsInv ==
  /\ MasksOK
  /\ losses \in Nat
  /\ losses = 0 =>
       /\ Linked(line)
       /\ line # << >> => ReadyFor(Head(line))
       /\ UpdatedComplete

\* A sequence of one packet is linked.
LEMMA LinkedOne == \A p : Linked(<<p>>)
<1>1. \A p : Len(<<p>>) = 1
  OBVIOUS
<1> QED
  BY <1>1 DEF Linked

\* Two linked sequences that fit together are linked.
LEMMA LinkedConcat ==
  ASSUME NEW S, NEW s \in Seq(S), NEW t \in Seq(S), Linked(s), Linked(t),
         s # << >> /\ t # << >> => Joins(s[Len(s)], t[1])
  PROVE  Linked(s \o t)
<1> DEFINE r == s \o t
<1>1. /\ Len(s) \in Nat /\ Len(t) \in Nat /\ Len(r) = Len(s) + Len(t)
      /\ s = << >> <=> Len(s) = 0
      /\ t = << >> <=> Len(t) = 0
  BY LenProperties, EmptySeq, ConcatProperties
<1>2. \A i \in 1 .. Len(s) : r[i] = s[i]
  BY <1>1, ConcatProperties
<1>3. \A i \in 1 .. Len(t) : r[Len(s) + i] = t[i]
  <2> TAKE i \in 1 .. Len(t)
  <2>1. Len(s) + i \in 1 .. Len(s) + Len(t) /\ ~ Len(s) + i <= Len(s) /\ Len(s) + i - Len(s) = i
    BY <1>1
  <2> QED
    BY <1>1, <2>1, ConcatProperties
<1> HIDE DEF r
<1>4. ASSUME NEW k \in 1 .. Len(r) - 1 PROVE Joins(r[k], r[k + 1])
  <2>1. CASE k + 1 <= Len(s)
    <3>1. k \in 1 .. Len(s) /\ k + 1 \in 1 .. Len(s) /\ k \in 1 .. Len(s) - 1
      BY <1>1, <2>1
    <3>2. r[k] = s[k] /\ r[k + 1] = s[k + 1]
      BY <1>2, <3>1
    <3> QED
      BY <3>1, <3>2 DEF Linked
  <2>2. CASE k = Len(s)
    <3>1. Len(s) \in 1 .. Len(s) /\ 1 \in 1 .. Len(t) /\ s # << >> /\ t # << >>
      BY <1>1, <2>2
    <3>2. r[k] = s[Len(s)] /\ r[k + 1] = t[1]
      BY <1>2, <1>3, <2>2, <3>1
    <3> QED
      BY <3>1, <3>2
  <2>3. CASE k > Len(s)
    <3>1. PICK i : i = k - Len(s)
      OBVIOUS
    <3>2. /\ i \in 1 .. Len(t) /\ i + 1 \in 1 .. Len(t) /\ i \in 1 .. Len(t) - 1
          /\ k = Len(s) + i /\ k + 1 = Len(s) + (i + 1)
      BY <1>1, <2>3, <3>1
    <3>3. r[k] = t[i] /\ r[k + 1] = t[i + 1]
      BY <1>3, <3>2
    <3> QED
      BY <3>2, <3>3 DEF Linked
  <2> QED
    BY <1>1, <2>1, <2>2, <2>3
<1> QED
  BY <1>4 DEF Linked, r

\* Where two sequences begin and end that are put together.
LEMMA ConcatEnds ==
  ASSUME NEW S, NEW s \in Seq(S), NEW t \in Seq(S), s # << >>
  PROVE  /\ s \o t # << >> /\ (s \o t)[1] = s[1]
         /\ t = << >> => (s \o t)[Len(s \o t)] = s[Len(s)]
         /\ t # << >> => (s \o t)[Len(s \o t)] = t[Len(t)]
<1> DEFINE r == s \o t
<1>1. /\ Len(s) \in Nat \ {0} /\ Len(t) \in Nat /\ r \in Seq(S) /\ Len(r) = Len(s) + Len(t)
      /\ t = << >> <=> Len(t) = 0
  BY LenProperties, EmptySeq, ConcatProperties
<1>2. \A i \in 1 .. Len(s) + Len(t) : r[i] = IF i <= Len(s) THEN s[i] ELSE t[i - Len(s)]
  BY <1>1, ConcatProperties
<1> HIDE DEF r
<1>3. r # << >>
  BY <1>1, EmptySeq
<1>4. r[1] = s[1]
  BY <1>1, <1>2
<1>5. CASE t = << >>
  <2>1. Len(r) = Len(s) /\ Len(s) \in 1 .. Len(s) + Len(t)
    BY <1>1, <1>5
  <2> QED
    BY <1>1, <1>2, <1>3, <1>4, <1>5, <2>1 DEF r
<1>6. CASE t # << >>
  <2>1. Len(r) \in 1 .. Len(s) + Len(t) /\ ~ Len(r) <= Len(s) /\ Len(r) - Len(s) = Len(t)
    BY <1>1, <1>6
  <2> QED
    BY <1>2, <1>3, <1>4, <1>6, <2>1 DEF r
<1> QED
  BY <1>5, <1>6

\* The beginning of a linked sequence is linked.
LEMMA LinkedPrefix ==
  ASSUME NEW S, NEW s \in Seq(S), Linked(s), NEW n \in 0 .. Len(s)
  PROVE  Linked(SubSeq(s, 1, n))
<1>1. Len(s) \in Nat /\ n \in Nat
  BY LenProperties
<1>2. Len(SubSeq(s, 1, n)) = n
  BY <1>1, SubSeqProperties
<1>3. \A k \in 1 .. n : SubSeq(s, 1, n)[k] = s[k]
  <2> TAKE k \in 1 .. n
  <2>1. 1 + k - 1 = k /\ k \in 1 .. n - 1 + 1
    BY <1>1
  <2>2. \A i \in 1 .. n : s[i] \in S
    BY <1>1, ElementOfSeq
  <2>3. SubSeq(s, 1, n)[k] = s[1 + k - 1]
    BY <1>1, <2>1, <2>2, SubSeqProperties
  <2> QED
    BY <2>1, <2>3
<1>4. \A k \in 1 .. n - 1 : k \in 1 .. n /\ k + 1 \in 1 .. n /\ k \in 1 .. Len(s) - 1
  BY <1>1
<1> QED
  BY <1>2, <1>3, <1>4 DEF Linked

\* So is its tail, and the second packet fits the first.
LEMMA LinkedTail ==
  ASSUME NEW S, NEW s \in Seq(S), s # << >>, Linked(s)
  PROVE  Linked(Tail(s)) /\ (Tail(s) # << >> => Joins(Head(s), Head(Tail(s))))
<1>1. /\ Tail(s) \in Seq(S) /\ Len(s) \in Nat \ {0} /\ Len(Tail(s)) = Len(s) - 1
      /\ \A i \in 1 .. Len(Tail(s)) : Tail(s)[i] = s[i + 1]
      /\ Head(s) = s[1]
  BY HeadTailProperties, EmptySeq
<1>2. \A k \in 1 .. Len(Tail(s)) - 1 :
        /\ k \in 1 .. Len(Tail(s)) /\ k + 1 \in 1 .. Len(Tail(s)) /\ k + 1 \in 1 .. Len(s) - 1
  BY <1>1
<1>3. Linked(Tail(s))
  BY <1>1, <1>2 DEF Linked
<1>4. ASSUME Tail(s) # << >> PROVE Joins(Head(s), Head(Tail(s)))
  <2>1. Len(Tail(s)) # 0 /\ Head(Tail(s)) = Tail(s)[1]
    BY <1>1, <1>4, HeadTailProperties, EmptySeq
  <2>2. 1 \in 1 .. Len(Tail(s)) /\ 1 \in 1 .. Len(s) - 1
    BY <1>1, <2>1
  <2>3. Tail(s)[1] = s[1 + 1]
    BY <1>1, <2>2
  <2> QED
    BY <1>1, <2>1, <2>2, <2>3 DEF Linked
<1> QED
  BY <1>3, <1>4

\* The packets of a report follow each other as NextCode() says.
LEMMA ReportLinked ==
  ASSUME LineInv, NEW source \in Sources, Report(source)
  PROVE  \E packets \in Seq({p \in GoodPackets : p.boot = Boot}) :
           /\ line' = line \o packets /\ boots' = boots /\ losses' = losses
           /\ packets # << >> /\ Linked(packets) /\ packets[1].code \in Openings
<1> DEFINE present == {p \in GoodPackets : p.boot = Boot}
           about(code) == Packet(code, source, 0)
           first == <<about("INFOQK"), about("INFOBOARD")>>
           middle == IF source = "btComm" THEN << >>
                     ELSE <<about("INFOCONFIG"), about("INFOSAMP"), about("INFODATA"),
                            about("INFOEVENT"), about("INFOACTION")>>
           last == <<about("ACK")>>
<1>1. \A code \in Codes \ {"DATA", "EVENT"} :
        source = "btDevice" \/ code \in {"INFOQK", "INFOBOARD", "ACK"} => about(code) \in present
  BY BootFacts DEF GoodPackets, Packet, Sources
<1>2. first \in Seq(present) /\ last \in Seq(present)
  BY <1>1 DEF Codes, BoardInfo
<1>3. middle \in Seq(present)
  <2>1. CASE source = "btComm"
    BY <2>1, EmptySeq
  <2>2. CASE source = "btDevice"
    BY <1>1, <2>2 DEF Codes, BoardInfo, DeviceInfo
  <2> QED
    BY <2>1, <2>2 DEF Sources
<1>4. /\ line' = line \o (first \o middle \o last)
      /\ boots' = boots /\ losses' = losses
  BY DEF Report, Send
<1>5. \A code : about(code).code = code /\ about(code).source = source /\ about(code).boot = Boot
  BY DEF Packet
<1>6. \A code : Joins(about(code), about(NextCode(source, code)))
  BY <1>5 DEF Joins
<1> HIDE DEF about
<1>7. Linked(first)
  <2>1. NextCode(source, "INFOQK") = "INFOBOARD"
    BY DEF NextCode
  <2>2. Joins(first[1], first[1 + 1]) /\ Len(first) = 2
    BY <1>6, <2>1
  <2> HIDE DEF first
  <2> QED
    BY <2>2 DEF Linked
<1>8. Linked(middle)
  <2>1. CASE source = "btComm"
    <3>1. Len(middle) = 0
      BY <2>1
    <3> HIDE DEF middle
    <3> QED
      BY <3>1 DEF Linked
  <2>2. CASE source = "btDevice"
    <3>1. /\ NextCode(source, "INFOCONFIG") = "INFOSAMP" /\ NextCode(source, "INFOSAMP") = "INFODATA"
          /\ NextCode(source, "INFODATA") = "INFOEVENT" /\ NextCode(source, "INFOEVENT") = "INFOACTION"
      BY DEF NextCode
    <3>2. /\ Joins(middle[1], middle[2]) /\ Joins(middle[2], middle[3])
          /\ Joins(middle[3], middle[4]) /\ Joins(middle[4], middle[5])
          /\ Len(middle) = 5
      BY <1>6, <2>2, <3>1
    <3> HIDE DEF middle
    <3>3. \A k \in 1 .. Len(middle) - 1 : k = 1 \/ k = 2 \/ k = 3 \/ k = 4
      BY <3>2
    <3>4. 1 + 1 = 2 /\ 2 + 1 = 3 /\ 3 + 1 = 4 /\ 4 + 1 = 5
      OBVIOUS
    <3> QED
      BY <3>2, <3>3, <3>4 DEF Linked
  <2> QED
    BY <2>1, <2>2 DEF Sources
<1>9. first # << >> /\ first[1] = about("INFOQK") /\ first[Len(first)] = about("INFOBOARD")
  OBVIOUS
<1>10. Len(first) = 2
  OBVIOUS
<1>11. /\ middle # << >> => Joins(first[Len(first)], middle[1])
       /\ middle # << >> => middle[Len(middle)] = about("INFOACTION") /\ source = "btDevice"
       /\ middle = << >> => source = "btComm"
  <2>1. CASE source = "btComm"
    BY <2>1
  <2>2. CASE source = "btDevice"
    <3>1. NextCode(source, "INFOBOARD") = "INFOCONFIG"
      BY <2>2 DEF NextCode
    <3> QED
      BY <1>6, <1>9, <2>2, <3>1
  <2> QED
    BY <2>1, <2>2 DEF Sources
<1>12. last[1] = about("ACK") /\ last # << >>
  OBVIOUS
<1>13. Linked(last)
  BY LinkedOne
<1> HIDE DEF first, middle, last, present
<1>14. PICK both : both = first \o middle
  OBVIOUS
<1>15. both \in Seq(present) /\ Linked(both)
  BY <1>2, <1>3, <1>7, <1>8, <1>11, <1>14, ConcatProperties, LinkedConcat
<1>16. /\ both # << >> /\ both[1] = first[1]
       /\ middle = << >> => both[Len(both)] = first[2]
       /\ middle # << >> => both[Len(both)] = middle[Len(middle)]
  <2>1. /\ both # << >> /\ both[1] = first[1]
        /\ middle = << >> => both[Len(both)] = first[Len(first)]
        /\ middle # << >> => both[Len(both)] = middle[Len(middle)]
    BY <1>2, <1>3, <1>9, <1>14, ConcatEnds
  <2> QED
    BY <1>10, <2>1
<1>17. Joins(both[Len(both)], last[1])
  <2>1. CASE middle = << >>
    <3>1. both[Len(both)] = about("INFOBOARD") /\ NextCode(source, "INFOBOARD") = "ACK"
      BY <1>9, <1>10, <1>11, <1>16, <2>1 DEF NextCode
    <3> QED
      BY <1>6, <1>12, <3>1
  <2>2. CASE middle # << >>
    <3>1. both[Len(both)] = about("INFOACTION") /\ NextCode(source, "INFOACTION") = "ACK"
      BY <1>11, <1>16, <2>2 DEF NextCode
    <3> QED
      BY <1>6, <1>12, <3>1
  <2> QED
    BY <2>1, <2>2
<1>18. PICK all : all = both \o last
  OBVIOUS
<1>19. all \in Seq(present) /\ Linked(all)
  BY <1>2, <1>13, <1>15, <1>17, <1>18, ConcatProperties, LinkedConcat
<1>20. all[1] = about("INFOQK") /\ all # << >>
  BY <1>2, <1>9, <1>15, <1>16, <1>18, ConcatEnds
<1>21. line' = line \o all
  BY <1>4, <1>14, <1>18
<1>22. all[1].code \in Openings
  BY <1>5, <1>20 DEF Openings, about
<1> QED
  BY <1>4, <1>19, <1>20, <1>21, <1>22 DEF present

\* DATA and EVENT are packets of their own.
LEMMA NotesLinked ==
  ASSUME LineInv, SendData \/ \E id \in 0 .. boots[Boot].events : SendEvent(id)
  PROVE  \E packets \in Seq({p \in GoodPackets : p.boot = Boot}) :
           /\ line' = line \o packets /\ boots' = boots /\ losses' = losses
           /\ packets # << >> /\ Linked(packets) /\ packets[1].code \in Openings
<1>1. notes \in Nat /\ Boot \in 1 .. Boot
  BY BootFacts DEF LineInv
<1>2. PICK p : /\ p \in GoodPackets /\ p.boot = Boot /\ p.code \in Openings
               /\ line' = line \o <<p>> /\ boots' = boots /\ losses' = losses
  <2>1. CASE SendData
    <3>1. Packet("DATA", "btDevice", notes + 1) \in GoodPackets
      <4>1. notes + 1 \in Nat /\ notes + 1 <= MaxNotes
        BY <1>1, <2>1, BoardsBoundsAssumption DEF SendData
      <4> QED
        BY <1>1, <4>1 DEF GoodPackets, Packet, Codes, Sources
    <3>2. /\ Packet("DATA", "btDevice", notes + 1).boot = Boot
          /\ Packet("DATA", "btDevice", notes + 1).code \in Openings
      BY DEF Packet, Openings
    <3> QED
      BY <2>1, <3>1, <3>2 DEF SendData, Send
  <2>2. ASSUME NEW id \in 0 .. boots[Boot].events, SendEvent(id)
        PROVE  \E p : /\ p \in GoodPackets /\ p.boot = Boot /\ p.code \in Openings
                      /\ line' = line \o <<p>> /\ boots' = boots /\ losses' = losses
    <3>1. Packet("EVENT", "btDevice", id) \in GoodPackets
      BY <1>1, <2>2 DEF GoodPackets, Packet, Codes, Sources, SendEvent
    <3>2. /\ Packet("EVENT", "btDevice", id).boot = Boot
          /\ Packet("EVENT", "btDevice", id).code \in Openings
      BY DEF Packet, Openings
    <3> QED
      BY <2>2, <3>1, <3>2 DEF SendEvent, Send
  <2> QED
    BY <2>1, <2>2
<1>3. <<p>> \in Seq({q \in GoodPackets : q.boot = Boot}) /\ <<p>> # << >> /\ <<p>>[1] = p
  BY <1>1, <1>2
<1> QED
  BY <1>2, <1>3, LinkedOne

\* New packets behind those on the line.
LEMMA LinkedSend ==
  ASSUME LineInv, Linked(line), NEW packets \in Seq(GoodPackets), line' = line \o packets,
         packets # << >>, Linked(packets), packets[1].code \in Openings
  PROVE  /\ Linked(line')
         /\ Head(line').code \in Openings \/ (line # << >> /\ Head(line') = Head(line))
<1>1. line \in Seq(GoodPackets)
  BY DEF LineInv
<1>2. line # << >> => Joins(line[Len(line)], packets[1])
  BY DEF Joins
<1>3. Linked(line')
  BY <1>1, <1>2, LinkedConcat
<1>4. CASE line = << >>
  <2>1. line' = packets
    BY <1>4, ConcatEmptySeq
  <2>2. Head(line') = packets[1]
    BY <2>1
  <2> QED
    BY <1>3, <2>2
<1>5. CASE line # << >>
  <2>1. line'[1] = line[1]
    BY <1>1, <1>5, ConcatEnds
  <2> QED
    BY <1>3, <1>5, <2>1
<1> QED
  BY <1>4, <1>5

\* A restart cuts a report off and announces itself behind what is left.
LEMMA LinkedRestart ==
  ASSUME LineInv, Linked(line), NEW l \in Layouts, NEW n \in 0 .. Len(line), Restart(l, n)
  PROVE  /\ Linked(line')
         /\ Head(line').code \in Openings \/ (line # << >> /\ Head(line') = Head(line))
<1> DEFINE ready == [code |-> "READY", source |-> "btDevice", boot |-> Boot + 1, arg |-> 0]
           cut == SubSeq(line, 1, n)
<1>1. line' = Append(cut, ready) /\ ready.code \in Openings
  BY DEF Restart, Openings
<1>2. PICK S : line \in Seq(S) /\ ready \in S
  <2>1. line \in Seq(GoodPackets \cup {ready})
    BY SeqMonotonic DEF LineInv
  <2> QED
    BY <2>1
<1>3. Len(line) \in Nat /\ n \in Nat
  BY <1>2, LenProperties
<1>4. \A i \in 1 .. n : line[i] \in S
  BY <1>2, <1>3, ElementOfSeq
<1>5. cut \in Seq(S) /\ Len(cut) = n /\ Linked(cut)
  BY <1>2, <1>3, <1>4, SubSeqProperties, LinkedPrefix
<1>6. n # 0 => cut[1] = line[1]
  <2>1. n # 0 => 1 \in 1 .. n - 1 + 1 /\ 1 + 1 - 1 = 1
    BY <1>3
  <2>2. \A i \in 1 .. n - 1 + 1 : cut[i] = line[1 + i - 1]
    BY <1>3, <1>4, SubSeqProperties
  <2> QED
    BY <2>1, <2>2
<1> HIDE DEF cut, ready
<1>7. /\ Len(line') = n + 1 /\ line'[n + 1] = ready
      /\ \A i \in 1 .. n : line'[i] = cut[i]
  BY <1>1, <1>2, <1>5, AppendProperties
<1>8. Linked(line')
  <2> SUFFICES ASSUME NEW k \in 1 .. n PROVE Joins(line'[k], line'[k + 1])
    BY <1>3, <1>7 DEF Linked
  <2>1. CASE k = n
    BY <1>1, <1>7, <2>1 DEF Joins
  <2>2. CASE k # n
    <3>1. k \in 1 .. n - 1 /\ k + 1 \in 1 .. n
      BY <1>3, <2>2
    <3> QED
      BY <1>5, <1>7, <3>1 DEF Linked
  <2> QED
    BY <2>1, <2>2
<1>9. CASE n = 0
  <2>1. line'[1] = ready
    BY <1>7, <1>9
  <2> QED
    BY <1>1, <1>8, <2>1
<1>10. CASE n # 0
  <2>1. 1 \in 1 .. n /\ Len(line) # 0
    BY <1>3, <1>10
  <2>2. line'[1] = line[1] /\ line # << >>
    BY <1>6, <1>7, <1>10, <2>1
  <2> QED
    BY <1>8, <2>2
<1> QED
  BY <1>9, <1>10

\* While nothing is lost, all that is sent stays linked.
LEMMA LinkedStep ==
  ASSUME LineInv, Linked(line), losses \in Nat, losses' = losses, [Next]_vars, ~ ProcessPacket
  PROVE  /\ Linked(line')
         /\ line' # << >> =>
              Head(line').code \in Openings \/ (line # << >> /\ Head(line') = Head(line))
<1>1. CASE UNCHANGED line
  BY <1>1
<1>2. ASSUME NEW packets \in Seq({p \in GoodPackets : p.boot = Boot}), line' = line \o packets,
             packets # << >>, Linked(packets), packets[1].code \in Openings
      PROVE  /\ Linked(line')
             /\ Head(line').code \in Openings \/ (line # << >> /\ Head(line') = Head(line))
  <2>1. packets \in Seq(GoodPackets)
    BY SeqMonotonic
  <2> QED
    BY <1>2, <2>1, LinkedSend
<1>3. ASSUME NEW source \in Sources, Report(source)
      PROVE  /\ Linked(line')
             /\ Head(line').code \in Openings \/ (line # << >> /\ Head(line') = Head(line))
  BY <1>2, <1>3, ReportLinked
<1>4. CASE SendData \/ \E id \in 0 .. boots[Boot].events : SendEvent(id)
  BY <1>2, <1>4, NotesLinked
<1>5. ~ LosePacket
  BY DEF LosePacket
<1> QED
  BY <1>1, <1>3, <1>4, <1>5, LinkedRestart
     DEF Next, DeviceStep, AppStep, CheckIndex, UseIndex, vars, deviceVars

\* What a packet does to its board.
LEMMA StoredFacts ==
  ASSUME NEW p, p \in GoodPackets, NEW b, IsBoard(b), b = BoardOf(p), NEW w, w = Stored(p)
  PROVE  /\ IsBoard(w)
         /\ w.mask \subseteq b.mask \cup (InfoOf(p.source) \cap {p.code})
         /\ p.code \in BoardInfo \cup DeviceInfo =>
              \A c : c = p.code \/ Has(b, c, p.boot) => Has(w, c, p.boot)
         /\ p.code = "ACK" => w = b
<1>1. p.code \in Codes
  BY DEF GoodPackets
<1>2. CASE p.code \in BoardInfo \cup DeviceInfo
  <2>1. p.code # "DATA" /\ p.code # "EVENT" /\ p.code # "ACK"
    BY <1>2 DEF BoardInfo, DeviceInfo
  <2>2. w = WithInfo(b, p.code, p.boot)
    BY <1>2, <2>1 DEF Stored
  <2>3. /\ IsBoard(w) /\ w.mask = b.mask \cup {p.code}
        /\ w.events = IF p.code = "INFOEVENT" THEN Labels(p.boot, boots[p.boot].events) ELSE b.events
        /\ w.type = IF p.code = "INFODATA" THEN boots[p.boot].type ELSE b.type
        /\ w.data = IF p.code = "INFODATA" THEN Filled(boots[p.boot].data, p.boot, 0) ELSE b.data
        /\ w.actions = IF p.code = "INFOACTION" THEN Labels(p.boot, boots[p.boot].actions)
                       ELSE b.actions
    BY <1>2, <2>2, InfoFacts
  <2>4. p.code \in InfoOf(p.source)
    BY <1>2, <2>1 DEF GoodPackets, InfoOf, BoardInfo, DeviceInfo
  <2>5. ASSUME NEW c, c = p.code \/ Has(b, c, p.boot) PROVE Has(w, c, p.boot)
    BY <2>3, <2>5 DEF Has
  <2> QED
    BY <2>1, <2>3, <2>4, <2>5
<1>3. CASE p.code = "DATA"
  <2>1. w = WithData(b, p.boot, p.arg)
    BY <1>3 DEF Stored, BoardInfo, DeviceInfo
  <2>2. IsBoard(w) /\ w.mask = b.mask
    BY <2>1, DataFacts
  <2> QED
    BY <1>3, <2>2 DEF BoardInfo, DeviceInfo
<1>4. CASE p.code = "EVENT"
  <2>1. w = WithEvent(b, p.arg)
    BY <1>4 DEF Stored, BoardInfo, DeviceInfo
  <2>2. IsBoard(w) /\ w.mask = b.mask
    BY <2>1, EventFacts
  <2> QED
    BY <1>4, <2>2 DEF BoardInfo, DeviceInfo
<1>5. CASE p.code \in {"READY", "ACK"}
  <2>1. w = b
    BY <1>5 DEF Stored, BoardInfo, DeviceInfo
  <2> QED
    BY <1>5, <2>1 DEF BoardInfo, DeviceInfo
<1> QED
  BY <1>1, <1>2, <1>3, <1>4, <1>5 DEF Codes

\* What a call of processPacket() does to the boards.
LEMMA BoardsAfter ==
  ASSUME LineInv, MasksOK, ProcessPacket, NEW p, p = Head(line)
  PROVE  /\ p \in GoodPackets /\ MasksOK' /\ boots' = boots
         /\ boards'[p.source] = <<BoardAt(p.source)'>>
         /\ p.code \in BoardInfo \cup DeviceInfo =>
              \A c : c = p.code \/ Has(BoardAt(p.source), c, p.boot)
                       => Has(BoardAt(p.source), c, p.boot)'
         /\ p.code = "ACK" => BoardAt(p.source)' = BoardAt(p.source)
<1>1. p \in GoodPackets /\ p.source \in Sources
  BY HeadTailProperties DEF LineInv, ProcessPacket, GoodPackets
<1>2. PICK w : w = Stored(p)
  OBVIOUS
<1>3. PICK b : b = BoardOf(p)
  OBVIOUS
<1>4. boards' = [boards EXCEPT ![p.source] = <<w>>] /\ boots' = boots
  BY <1>2 DEF ProcessPacket
<1>5. b = BoardAt(p.source) /\ IsBoard(b) /\ b.mask \subseteq InfoOf(p.source)
  BY <1>1, <1>3 DEF BoardOf, BoardAt, MasksOK
<1>6. /\ boards' = [s \in Sources |-> boards'[s]]
      /\ boards'[p.source] = <<w>>
      /\ \A s \in Sources \ {p.source} : boards'[s] = boards[s]
  BY <1>1, <1>4 DEF MasksOK
<1>7. BoardAt(p.source)' = w
  BY <1>6 DEF BoardAt
<1>8. /\ IsBoard(w)
      /\ w.mask \subseteq b.mask \cup (InfoOf(p.source) \cap {p.code})
      /\ p.code \in BoardInfo \cup DeviceInfo =>
           \A c : c = p.code \/ Has(b, c, p.boot) => Has(w, c, p.boot)
      /\ p.code = "ACK" => w = b
  BY <1>1, <1>2, <1>3, <1>5, StoredFacts
<1>9. MasksOK'
  <2> SUFFICES ASSUME NEW s \in Sources
               PROVE  IsBoard(BoardAt(s)') /\ BoardAt(s)'.mask \subseteq InfoOf(s)
    BY <1>6 DEF MasksOK, IsBoard
  <2>1. CASE s = p.source
    BY <1>5, <1>7, <1>8, <2>1
  <2>2. CASE s # p.source
    <3>1. BoardAt(s)' = BoardAt(s)
      BY <1>6, <2>2 DEF BoardAt
    <3> QED
      BY <3>1 DEF MasksOK
  <2> QED
    BY <2>1, <2>2
<1>10. \A c : Has(w, c, p.boot) => Has(w, c, p.boot)'
  BY <1>4 DEF Has
<1> QED
  BY <1>1, <1>4, <1>5, <1>6, <1>7, <1>8, <1>9, <1>10

\* Once a packet is handled, its board is ready for the next one of the report.
LEMMA ReadyAfter ==
  ASSUME LineInv, MasksOK, ProcessPacket, NEW p, p = Head(line), NEW q, q \in GoodPackets,
         ReadyFor(p), Joins(p, q)
  PROVE  ReadyFor(q)'
<1>1. CASE q.code \in Openings
  <2>1. Before(q.source, q.code) = {}
    BY <1>1 DEF Before, Openings
  <2> QED
    BY <2>1 DEF ReadyFor
<1>2. CASE q.code \notin Openings
  <2>1. q.source = p.source /\ q.boot = p.boot /\ q.code = NextCode(p.source, p.code)
    BY <1>2 DEF Joins
  <2>2. p \in GoodPackets /\ p.code \in Codes /\ q.code \in Codes
    BY BoardsAfter DEF GoodPackets
  <2>3. /\ p.code \in BoardInfo \cup DeviceInfo
        /\ Before(q.source, q.code) \subseteq Before(p.source, p.code) \cup {p.code}
    <3>1. /\ p.source = "btComm" => p.code \in {"INFOQK", "INFOBOARD", "ACK"}
          /\ p.source = "btComm" \/ p.source = "btDevice"
      BY <2>2 DEF GoodPackets, Sources
    <3>2. CASE p.code = "INFOQK"
      BY <2>1, <3>2 DEF NextCode, Before, BoardInfo, DeviceInfo
    <3>3. CASE p.code = "INFOBOARD"
      BY <2>1, <3>1, <3>3 DEF NextCode, Before, BoardInfo, DeviceInfo
    <3>4. CASE p.code = "INFOCONFIG"
      BY <2>1, <3>4 DEF NextCode, Before, BoardInfo, DeviceInfo
    <3>5. CASE p.code = "INFOSAMP"
      BY <2>1, <3>5 DEF NextCode, Before, BoardInfo, DeviceInfo
    <3>6. CASE p.code = "INFODATA"
      BY <2>1, <3>6 DEF NextCode, Before, BoardInfo, DeviceInfo
    <3>7. CASE p.code = "INFOEVENT"
      BY <2>1, <3>7 DEF NextCode, Before, BoardInfo, DeviceInfo
    <3>8. CASE p.code = "INFOACTION"
      BY <2>1, <3>1, <3>8 DEF NextCode, Before, BoardInfo, DeviceInfo
    <3>9. CASE p.code \in {"READY", "ACK", "DATA", "EVENT"}
      <4>1. q.code = "none"
        BY <2>1, <3>9 DEF NextCode
      <4> QED
        BY <2>2, <4>1 DEF Codes, BoardInfo, DeviceInfo
    <3> QED
      BY <2>2, <3>2, <3>3, <3>4, <3>5, <3>6, <3>7, <3>8, <3>9
         DEF Codes, BoardInfo, DeviceInfo
  <2>4. \A c : c = p.code \/ Has(BoardAt(p.source), c, p.boot)
                 => Has(BoardAt(p.source), c, p.boot)'
    BY <2>3, BoardsAfter
  <2>5. \A c \in Before(p.source, p.code) : Has(BoardAt(p.source), c, p.boot)
    BY DEF ReadyFor
  <2>6. \A c \in Before(q.source, q.code) : Has(BoardAt(p.source), c, p.boot)'
    BY <2>3, <2>4, <2>5
  <2> QED
    BY <2>1, <2>6 DEF ReadyFor
<1> QED
  BY <1>1, <1>2

\* The starts that are noted are known in every reachable state.
LEMMA StartsAlways == Spec => [](BoardsOK /\ StartsOK)
<1>1. Init => BoardsOK /\ StartsOK
  BY StartsInit, InitFacts
<1>2. LineInv /\ LogsInv' /\ BoardsOK /\ StartsOK /\ [Next]_vars => (BoardsOK /\ StartsOK)'
  BY StartsStep DEF LogsInv
<1> QED
  BY <1>1, <1>2, LineAlways, LogsAlways, PTL DEF Spec

\* At the start there is nothing to be ready for.
LEMMA ReportsInit == ASSUME Init PROVE ReportsInv
<1>1. boards = [s \in Sources |-> boards[s]] /\ \A s \in Sources : BoardAt(s) = NewBoard
  BY DEF Init, BoardAt
<1>2. IsBoard(NewBoard) /\ NewBoard.mask = {}
  BY DEF IsBoard, NewBoard
<1>3. MasksOK
  BY <1>1, <1>2 DEF MasksOK
<1>4. line = << >> /\ losses = 0 /\ signal.kind = "none"
  BY DEF Init, NoSignal
<1>5. Linked(line)
  BY <1>4 DEF Linked
<1> QED
  BY <1>3, <1>4, <1>5 DEF ReportsInv, UpdatedComplete

\* A board that is ready for the ACK is complete.
LEMMA AckCompletes ==
  ASSUME LineInv, MasksOK, ProcessPacket, NEW p, p = Head(line), ReadyFor(p),
         signal'.kind = "updated"
  PROVE  UpdatedComplete'
<1>1. /\ p \in GoodPackets /\ MasksOK' /\ boots' = boots
      /\ boards'[p.source] = <<BoardAt(p.source)'>>
      /\ p.code = "ACK" => BoardAt(p.source)' = BoardAt(p.source)
  BY BoardsAfter
<1>2. signal' = SignalOf(p)
  BY DEF ProcessPacket
<1>3. p.code = "ACK" /\ signal'.source = p.source /\ signal'.boot = p.boot
  <2>1. CASE p.code = "ACK"
    BY <1>2, <2>1 DEF SignalOf
  <2>2. CASE p.code # "ACK"
    BY <1>2, <2>2 DEF SignalOf, NoSignal
  <2> QED
    BY <2>1, <2>2
<1>4. PICK b : b = BoardAt(p.source)
  OBVIOUS
<1>5. p.source \in Sources /\ b.mask \subseteq InfoOf(p.source) /\ boards'[p.source][1] = b
  BY <1>1, <1>3, <1>4 DEF GoodPackets, MasksOK
<1>6. \A code \in Before(p.source, "ACK") : Has(b, code, p.boot)
  BY <1>3, <1>4 DEF ReadyFor
<1>7. CASE p.source = "btComm"
  <2>1. Before(p.source, "ACK") = {"INFOQK", "INFOBOARD"} /\ InfoOf(p.source) = {"INFOQK", "INFOBOARD"}
    BY <1>7 DEF Before, InfoOf
  <2>2. b.mask = {"INFOQK", "INFOBOARD"}
    BY <1>5, <1>6, <2>1 DEF Has
  <2> QED
    BY <1>3, <1>5, <1>7, <2>2 DEF UpdatedComplete
<1>8. CASE p.source = "btDevice"
  <2>1. /\ Before(p.source, "ACK") = BoardInfo \cup DeviceInfo
        /\ InfoOf(p.source) = BoardInfo \cup DeviceInfo
    BY <1>8 DEF Before, InfoOf
  <2>2. b.mask = BoardInfo \cup DeviceInfo
    BY <1>5, <1>6, <2>1 DEF Has
  <2>3. {"INFODATA", "INFOEVENT", "INFOACTION"} \subseteq BoardInfo \cup DeviceInfo
    BY DEF DeviceInfo
  <2>4. /\ b.type = boots[p.boot].type /\ b.data = Filled(boots[p.boot].data, p.boot, 0)
        /\ b.events = Labels(p.boot, boots[p.boot].events)
        /\ b.actions = Labels(p.boot, boots[p.boot].actions)
    BY <1>6, <2>1, <2>3 DEF Has
  <2>5. Device' = b
    BY <1>5, <1>8 DEF Device
  <2> QED
    BY <1>1, <1>3, <1>8, <2>2, <2>4, <2>5 DEF UpdatedComplete, Filled, Labels
<1> QED
  BY <1>5, <1>7, <1>8 DEF Sources

\* A report that began well is handled well.
LEMMA ReportsStep ==
  ASSUME LineInv, LineInv', StartsOK, ReportsInv, [Next]_vars
  PROVE  ReportsInv'
<1>1. BootsGrow
  BY BootsStep
<1>2. losses' \in Nat /\ (losses' = 0 => losses = 0 /\ losses' = losses)
  <2>1. losses' = losses \/ losses' = losses + 1
    BY DEF Next, DeviceStep, AppStep, Restart, Report, SendData, SendEvent, LosePacket,
       ProcessPacket, CheckIndex, UseIndex, vars, deviceVars
  <2> QED
    BY <2>1 DEF ReportsInv
<1>3. ASSUME ~ ProcessPacket PROVE ReportsInv'
  <2>1. boards' = boards /\ signal' = signal
    BY <1>3, OtherSteps
  <2>2. MasksOK' /\ \A s : BoardAt(s)' = BoardAt(s)
    BY <2>1 DEF ReportsInv, MasksOK, BoardAt, IsBoard
  <2> SUFFICES ASSUME losses' = 0
               PROVE  /\ Linked(line')
                      /\ line' # << >> => ReadyFor(Head(line))'
                      /\ UpdatedComplete'
    BY <1>2, <2>2 DEF ReportsInv
  <2>3. losses = 0 /\ losses' = losses
    BY <1>2
  <2>4. /\ Linked(line')
        /\ line' # << >> =>
             Head(line').code \in Openings \/ (line # << >> /\ Head(line') = Head(line))
    BY <1>3, <2>3, LinkedStep DEF ReportsInv
  <2>5. ASSUME NEW q, q = Head(line'), q.code \in Openings PROVE ReadyFor(q)'
    <3>1. Before(q.source, q.code) = {}
      BY <2>5 DEF Before, Openings
    <3> QED
      BY <3>1 DEF ReadyFor
  <2>6. ASSUME line # << >>, NEW q, q = Head(line) PROVE ReadyFor(q)'
    <3>1. q \in GoodPackets
      BY <2>6, HeadTailProperties DEF LineInv
    <3>2. boots'[q.boot] = boots[q.boot]
      BY <1>1, <3>1 DEF BootsGrow, GoodPackets
    <3>3. ReadyFor(q)
      BY <2>3, <2>6 DEF ReportsInv
    <3> QED
      BY <2>2, <3>2, <3>3 DEF ReadyFor, Has
  <2>7. UpdatedComplete'
    <3>1. UpdatedComplete
      BY <2>3 DEF ReportsInv
    <3>2. signal.kind = "updated" => boots'[signal.boot] = boots[signal.boot]
      BY <1>1 DEF StartsOK, BootsGrow
    <3>3. Device' = Device
      BY <2>1 DEF Device
    <3> QED
      BY <2>1, <2>3, <3>1, <3>2, <3>3 DEF UpdatedComplete
  <2>8. line' # << >> => ReadyFor(Head(line))'
    <3>1. PICK q : q = Head(line')
      OBVIOUS
    <3>2. line' # << >> => ReadyFor(q)'
      BY <2>4, <2>5, <2>6, <3>1
    <3> QED
      BY <3>1, <3>2
  <2> QED
    BY <2>4, <2>7, <2>8
<1>4. ASSUME ProcessPacket PROVE ReportsInv'
  <2>1. PICK p : p = Head(line)
    OBVIOUS
  <2>2. MasksOK' /\ MasksOK
    BY <1>4, <2>1, BoardsAfter DEF ReportsInv
  <2> SUFFICES ASSUME losses' = 0
               PROVE  /\ Linked(line')
                      /\ line' # << >> => ReadyFor(Head(line))'
                      /\ UpdatedComplete'
    BY <1>2, <2>2 DEF ReportsInv
  <2>3. line # << >> /\ line' = Tail(line) /\ line \in Seq(GoodPackets)
    BY <1>4 DEF ProcessPacket, LineInv
  <2>4. Linked(line) /\ ReadyFor(p)
    BY <1>2, <2>1, <2>3 DEF ReportsInv
  <2>5. Linked(line') /\ (line' # << >> => Joins(p, Head(line')))
    BY <2>1, <2>3, <2>4, LinkedTail
  <2>6. PICK q : q = Head(line')
    OBVIOUS
  <2>7. line' # << >> => q \in GoodPackets
    <3>1. line' \in Seq(GoodPackets)
      BY <2>3, HeadTailProperties
    <3> QED
      BY <2>6, <3>1, HeadTailProperties
  <2>8. line' # << >> => ReadyFor(q)'
    BY <1>4, <2>1, <2>2, <2>4, <2>5, <2>6, <2>7, ReadyAfter
  <2>9. UpdatedComplete'
    <3>1. CASE signal'.kind = "updated"
      BY <1>4, <2>1, <2>2, <2>4, <3>1, AckCompletes
    <3>2. CASE signal'.kind # "updated"
      BY <3>2 DEF UpdatedComplete
    <3> QED
      BY <3>1, <3>2
  <2>10. line' # << >> => ReadyFor(Head(line))'
    BY <2>6, <2>8
  <2> QED
    BY <2>5, <2>9, <2>10
<1> QED
  BY <1>3, <1>4

\* An update that is announced is complete and of one start, unless a packet was
\* lost: processPacket() emits deviceUpdated() and commUpdated() for an ACK, and
\* whatever restarts cut off, no ACK comes but behind its whole report.
THEOREM UpdatesAreComplete == Spec => []UpdatedComplete
<1>1. Init => ReportsInv /\ UpdatedComplete
  <2> SUFFICES ASSUME Init PROVE ReportsInv /\ UpdatedComplete
    OBVIOUS
  <2>1. signal.kind = "none"
    BY DEF Init, NoSignal
  <2> QED
    BY <2>1, ReportsInit DEF UpdatedComplete
<1>2. LineInv /\ LineInv' /\ StartsOK /\ ReportsInv /\ [Next]_vars => ReportsInv'
  BY ReportsStep
<1>3. ReportsInv => UpdatedComplete
  BY DEF ReportsInv, UpdatedComplete
<1> QED
  BY <1>1, <1>2, <1>3, LineAlways, StartsAlways, PTL DEF Spec

----------------------------------------------------------------------------
(***************************************************************************)
(* Configs.  The loop of INFOCONFIG takes its index on, whatever combos do *)
(* to it; if each combo leaves it where it was, the loop stores entry by   *)
(* entry what was reported.                                                *)
(***************************************************************************)
\* A set of naturals that is not empty has a least element.
LEMMA LeastNumber ==
  ASSUME NEW T, T \subseteq Nat, T # {}
  PROVE  \E x \in T : \A y \in T : ~ y < x
<1> DEFINE R == {p \in Nat \X Nat : p[1] < p[2]}
<1>1. IsWellFoundedOn(R, Nat)
  BY NatLessThanWellFounded DEF OpToRel
<1>2. \A x, y \in Nat : y < x <=> <<y, x>> \in R
  OBVIOUS
<1> HIDE DEF R
<1>3. \E x \in T : \A y \in T : ~ (<<y, x>> \in R)
  BY <1>1, WFMin
<1> QED
  BY <1>2, <1>3

\* A set of numbers up to a limit that is not empty has a greatest element.
LEMMA GreatestNumber ==
  ASSUME NEW n \in Nat, NEW T, T \subseteq 1 .. n, T # {}
  PROVE  \E x \in T : \A y \in T : y <= x
<1> DEFINE below == {n - x : x \in T}
<1>1. below \subseteq Nat /\ below # {}
  <2>1. ASSUME NEW x \in T PROVE n - x \in Nat
    <3>1. x \in 1 .. n
      OBVIOUS
    <3> QED
      BY <3>1
  <2>2. PICK x : x \in T
    OBVIOUS
  <2>3. n - x \in below
    BY <2>2
  <2> QED
    BY <2>1, <2>3
<1>2. PICK d \in below : \A e \in below : ~ e < d
  <2> HIDE DEF below
  <2> QED
    BY <1>1, LeastNumber
<1>3. PICK x \in T : d = n - x
  BY <1>2
<1>4. ASSUME NEW y \in T PROVE y <= x
  <2>1. n - y \in below /\ x \in 1 .. n /\ y \in 1 .. n
    OBVIOUS
  <2>2. ~ n - y < n - x
    BY <1>2, <1>3, <2>1
  <2> QED
    BY <2>1, <2>2
<1> QED
  BY <1>4

\* The values that the index takes: each is what the entry before it makes of the
\* one before.
IndexOf(f, entries, n) ==
  f = [k \in 1 .. 2 * n + 1 |-> IF k = 1 THEN 0 ELSE StoredAt(entries, k - 1, f[k - 1]) + 1]

ReadWith(f, n) == {k \in 1 .. 2 * n : \A j \in 1 .. k : f[j] < n}

WrittenWith(f, entries, n, i) == {k \in ReadWith(f, n) : StoredAt(entries, k, f[k]) = i}

LastOf(T) == IF T = {} THEN 0 ELSE CHOOSE k \in T : \A j \in T : j <= k

ParsedWith(f, boot, entries, n) ==
  [i \in 1 .. n |-> Label(boot, LastOf(WrittenWith(f, entries, n, i - 1)))]

\* The loop, with the index by itself.
LEMMA ParsedIs ==
  ASSUME NEW boot, NEW entries, NEW n, n = Len(entries)
  PROVE  \E f : /\ (\E g : IndexOf(g, entries, n)) => IndexOf(f, entries, n)
                /\ ParsedConfigs(boot, entries) = ParsedWith(f, boot, entries, n)
<1> DEFINE f == CHOOSE index : index = [k \in 1 .. 2 * n + 1 |->
                    IF k = 1 THEN 0 ELSE StoredAt(entries, k - 1, index[k - 1]) + 1]
<1>1. (\E g : IndexOf(g, entries, n)) => IndexOf(f, entries, n)
  BY DEF IndexOf
<1>2. ParsedConfigs(boot, entries) = ParsedWith(f, boot, entries, n)
  BY DEF ParsedConfigs, ParsedWith, LastOf, WrittenWith, ReadWith
<1> QED
  BY <1>1, <1>2

\* There is an item for each config, whatever combos there are.
LEMMA ParsedType ==
  ASSUME NEW boot, NEW entries, NEW n \in Nat, n = Len(entries)
  PROVE  /\ ParsedConfigs(boot, entries) \in Seq([boot : {boot}, item : Nat])
         /\ Len(ParsedConfigs(boot, entries)) = n
<1>1. PICK f : ParsedConfigs(boot, entries) = ParsedWith(f, boot, entries, n)
  BY ParsedIs
<1>2. ASSUME NEW i PROVE LastOf(WrittenWith(f, entries, n, i)) \in Nat
  <2>1. PICK T : T = WrittenWith(f, entries, n, i)
    OBVIOUS
  <2>2. T \subseteq 1 .. 2 * n /\ 2 * n \in Nat
    BY <2>1 DEF WrittenWith, ReadWith
  <2>3. CASE T = {}
    BY <2>1, <2>3 DEF LastOf
  <2>4. CASE T # {}
    <3>1. \E x \in T : \A y \in T : y <= x
      BY <2>2, <2>4, GreatestNumber
    <3>2. (CHOOSE k \in T : \A j \in T : j <= k) \in T
      BY <3>1
    <3> QED
      BY <2>1, <2>2, <2>4, <3>2 DEF LastOf
  <2> QED
    BY <2>3, <2>4
<1>3. PICK c : c = ParsedConfigs(boot, entries)
  OBVIOUS
<1>4. PICK S : S = [boot : {boot}, item : Nat]
  OBVIOUS
<1>5. c \in Seq(S) /\ Len(c) = n
  <2>0. c \in [1 .. n -> S]
    BY <1>1, <1>2, <1>3, <1>4 DEF Label, ParsedWith
  <2>1. c \in Seq(S)
    BY <2>0, SeqDef
  <2>2. DOMAIN c = 1 .. n /\ DOMAIN c = 1 .. Len(c) /\ Len(c) \in Nat
    BY <2>0, <2>1, LenProperties
  <2> QED
    BY <2>1, <2>2
<1> QED
  BY <1>3, <1>4, <1>5

\* Harmless combos leave the index where it was.
LEMMA IndexHarmless ==
  ASSUME NEW entries, NEW n \in Nat, DOMAIN entries = 1 .. n, CombosHarmless(entries),
         NEW f, IndexOf(f, entries, n)
  PROVE  \A k \in 1 .. 2 * n + 1 : f[k] = k - 1
<1>1. ASSUME NEW k \in 2 .. 2 * n + 1
      PROVE  StoredAt(entries, k - 1, k - 2) = k - 2
  <2>1. CASE k - 1 \in DOMAIN entries /\ entries[k - 1] # Plain
    <3>1. entries[k - 1] = (k - 1) - 1
      BY <2>1 DEF CombosHarmless
    <3> QED
      BY <2>1, <3>1 DEF StoredAt
  <2>2. CASE ~ (k - 1 \in DOMAIN entries /\ entries[k - 1] # Plain)
    BY <2>2 DEF StoredAt
  <2> QED
    BY <2>1, <2>2
<1>2. \A k \in 1 .. 2 * n + 1 :
        f[k] = IF k = 1 THEN 0 ELSE StoredAt(entries, k - 1, f[k - 1]) + 1
  BY DEF IndexOf
<1> DEFINE wrong == {k \in 1 .. 2 * n + 1 : f[k] # k - 1}
<1>3. SUFFICES ASSUME wrong # {} PROVE FALSE
  OBVIOUS
<1>4. wrong \subseteq Nat
  OBVIOUS
<1>5. PICK k \in wrong : \A j \in wrong : ~ j < k
  <2> HIDE DEF wrong
  <2> QED
    BY <1>3, <1>4, LeastNumber
<1>6. k \in 1 .. 2 * n + 1 /\ f[k] # k - 1
  BY <1>5
<1>7. k # 1
  BY <1>2, <1>6
<1>8. k \in 2 .. 2 * n + 1 /\ k - 1 \in 1 .. 2 * n + 1 /\ k - 1 < k /\ (k - 1) - 1 = k - 2
  BY <1>6, <1>7
<1>9. f[k - 1] = k - 2
  BY <1>5, <1>8
<1>10. f[k] = (k - 2) + 1
  BY <1>1, <1>2, <1>6, <1>7, <1>8, <1>9
<1> QED
  BY <1>6, <1>10

\* There is such an index then.
LEMMA IndexExists ==
  ASSUME NEW entries, NEW n \in Nat, DOMAIN entries = 1 .. n, CombosHarmless(entries)
  PROVE  \E g : IndexOf(g, entries, n)
<1> DEFINE h == [k \in 1 .. 2 * n + 1 |-> k - 1]
<1>1. ASSUME NEW k \in 1 .. 2 * n + 1, k # 1
      PROVE  k - 1 = StoredAt(entries, k - 1, h[k - 1]) + 1
  <2>1. h[k - 1] = k - 2
    BY <1>1
  <2>2. CASE k - 1 \in DOMAIN entries /\ entries[k - 1] # Plain
    <3>1. entries[k - 1] = (k - 1) - 1
      BY <2>2 DEF CombosHarmless
    <3> QED
      BY <2>2, <3>1 DEF StoredAt
  <2>3. CASE ~ (k - 1 \in DOMAIN entries /\ entries[k - 1] # Plain)
    BY <2>1, <2>3 DEF StoredAt
  <2> QED
    BY <2>2, <2>3
<1>2. h = [k \in 1 .. 2 * n + 1 |-> IF k = 1 THEN 0 ELSE StoredAt(entries, k - 1, h[k - 1]) + 1]
  BY <1>1
<1> QED
  BY <1>2 DEF IndexOf

\* The configs of a report without other combos are stored as they were reported.
LEMMA HarmlessParsed ==
  ASSUME NEW boot, NEW S, NEW entries \in Seq(S), CombosHarmless(entries)
  PROVE  ParsedConfigs(boot, entries) = Labels(boot, Len(entries))
<1> PICK n : n = Len(entries)
  OBVIOUS
<1>1. n \in Nat /\ DOMAIN entries = 1 .. n
  BY LenProperties
<1>2. PICK f : /\ (\E g : IndexOf(g, entries, n)) => IndexOf(f, entries, n)
               /\ ParsedConfigs(boot, entries) = ParsedWith(f, boot, entries, n)
  BY ParsedIs
<1>3. \A k \in 1 .. 2 * n + 1 : f[k] = k - 1
  BY <1>1, <1>2, IndexExists, IndexHarmless
<1>4. ReadWith(f, n) = 1 .. n
  <2>1. ASSUME NEW k \in 1 .. 2 * n PROVE (\A j \in 1 .. k : f[j] < n) <=> k <= n
    <3>1. \A j \in 1 .. k : f[j] = j - 1 /\ j - 1 <= k - 1
      BY <1>1, <1>3
    <3>2. k \in 1 .. k
      OBVIOUS
    <3> QED
      BY <1>1, <3>1, <3>2
  <2>2. 1 .. n = {k \in 1 .. 2 * n : k <= n}
    BY <1>1
  <2> QED
    BY <2>1, <2>2 DEF ReadWith
<1>5. ASSUME NEW k \in 1 .. n PROVE StoredAt(entries, k, f[k]) = k - 1
  <2>1. f[k] = k - 1
    BY <1>1, <1>3
  <2> QED
    BY <1>1, <2>1 DEF StoredAt, CombosHarmless
<1>6. ASSUME NEW i \in 1 .. n PROVE LastOf(WrittenWith(f, entries, n, i - 1)) = i
  <2>1. WrittenWith(f, entries, n, i - 1) = {i}
    <3>1. WrittenWith(f, entries, n, i - 1) = {k \in 1 .. n : k - 1 = i - 1}
      BY <1>4, <1>5 DEF WrittenWith
    <3>2. {k \in 1 .. n : k - 1 = i - 1} = {i}
      BY <1>1
    <3> QED
      BY <3>1, <3>2
  <2>2. LastOf({i}) = i
    BY <1>1 DEF LastOf
  <2> QED
    BY <2>1, <2>2
<1>7. ParsedConfigs(boot, entries) = [i \in 1 .. n |-> Label(boot, i)]
  BY <1>2, <1>6 DEF ParsedWith
<1> QED
  BY <1>7 DEF Labels

\* The configs are what the loop has made of those of a start.
ConfigsInv ==
  /\ BoardsOK
  /\ Kept.configs # << >> => \E k \in 1 .. Boot : Kept.configs = ParsedConfigs(k, boots[k].configs)

\* A packet stores all configs of a start, or leaves them.
LEMMA ConfigsKept ==
  ASSUME LineInv, BoardsOK, ProcessPacket, Head(line).source = "btDevice", NEW p, p = Head(line)
  PROVE  /\ p.boot \in 1 .. Boot /\ BoardsOK'
         /\ \/ Kept'.configs = Kept.configs
            \/ Kept'.configs = ParsedConfigs(p.boot, boots[p.boot].configs)
<1>1. /\ p \in GoodPackets /\ p.code \in Codes /\ p.boot \in 1 .. Boot /\ BoardsOK' /\ IsBoard(Kept)
  BY DevicePacket DEF BoardsOK, GoodPackets
<1>2. PICK b, w : b = Kept /\ w = Kept'
  OBVIOUS
<1>3. CASE p.code = "DATA"
  <2>1. w = WithData(b, p.boot, p.arg) /\ IsBoard(b)
    BY <1>1, <1>2, <1>3, DevicePacket
  <2> QED
    BY <1>1, <1>2, <2>1, DataFacts
<1>4. CASE p.code = "EVENT"
  <2>1. w = WithEvent(b, p.arg) /\ IsBoard(b)
    BY <1>1, <1>2, <1>4, DevicePacket
  <2> QED
    BY <1>1, <1>2, <2>1, EventFacts
<1>5. CASE p.code \in BoardInfo \cup DeviceInfo
  <2>1. w = WithInfo(b, p.code, p.boot) /\ IsBoard(b)
    BY <1>1, <1>2, <1>5, DevicePacket
  <2>2. w.configs = IF p.code = "INFOCONFIG" THEN ParsedConfigs(p.boot, boots[p.boot].configs)
                    ELSE b.configs
    BY <1>5, <2>1, InfoFacts
  <2> QED
    BY <1>1, <1>2, <2>2
<1>6. CASE p.code \in {"READY", "ACK"}
  BY <1>1, <1>6, DevicePacket
<1> QED
  BY <1>1, <1>3, <1>4, <1>5, <1>6 DEF Codes

\* The configs stay those of a start.
LEMMA ConfigsStep ==
  ASSUME LineInv, ConfigsInv, [Next]_vars
  PROVE  ConfigsInv'
<1>1. BootsGrow
  BY BootsStep
<1>2. ASSUME Kept.configs # << >>
      PROVE  \E k \in 1 .. Boot' : Kept.configs = ParsedConfigs(k, boots'[k].configs)
  <2>1. PICK k \in 1 .. Boot : Kept.configs = ParsedConfigs(k, boots[k].configs)
    BY <1>2 DEF ConfigsInv
  <2>2. k \in 1 .. Boot' /\ boots'[k] = boots[k]
    BY <1>1 DEF BootsGrow
  <2> QED
    BY <2>1, <2>2
<1>3. ASSUME Kept' = Kept, BoardsOK' PROVE ConfigsInv'
  BY <1>2, <1>3 DEF ConfigsInv, ParsedConfigs
<1>4. CASE UNCHANGED <<boards, signal, told, setIn>>
  <2>1. Kept' = Kept /\ BoardsOK'
    BY <1>4 DEF ConfigsInv, BoardsOK, Kept, HasDevice, Device
  <2> QED
    BY <1>3, <2>1
<1>5. CASE ProcessPacket /\ Head(line).source = "btComm"
  <2>1. Kept' = Kept /\ BoardsOK'
    BY <1>5, CommPacket DEF ConfigsInv
  <2> QED
    BY <1>3, <2>1
<1>6. CASE ProcessPacket /\ Head(line).source = "btDevice"
  <2>1. PICK p : p = Head(line)
    OBVIOUS
  <2>2. /\ p.boot \in 1 .. Boot /\ BoardsOK'
        /\ \/ Kept'.configs = Kept.configs
           \/ Kept'.configs = ParsedConfigs(p.boot, boots[p.boot].configs)
    BY <1>6, <2>1, ConfigsKept DEF ConfigsInv
  <2>3. p.boot \in 1 .. Boot' /\ boots'[p.boot] = boots[p.boot]
    BY <1>1, <2>2 DEF BootsGrow
  <2>4. Kept'.configs # << >>
          => \E k \in 1 .. Boot' : Kept'.configs = ParsedConfigs(k, boots'[k].configs)
    BY <1>2, <2>2, <2>3
  <2> QED
    BY <2>2, <2>4 DEF ConfigsInv, ParsedConfigs
<1> QED
  BY <1>4, <1>5, <1>6, OtherSteps, PacketSource

\* What INFOCONFIG stores are all configs of a start, in its order, for every number
\* of configs, if no combo disturbs the index of the loop.
THEOREM ConfigsFollowReports == Spec => []ConfigsAsReported
<1>1. Init => ConfigsInv
  BY InitFacts DEF ConfigsInv, NewBoard
<1>2. LineInv /\ ConfigsInv /\ [Next]_vars => ConfigsInv'
  BY ConfigsStep
<1>3. LineInv /\ ConfigsInv => ConfigsAsReported
  <2> SUFFICES ASSUME LineInv, ConfigsInv, HasDevice, Device.configs # << >>,
                      CombosHarmless(boots[Device.configs[1].boot].configs)
               PROVE  Device.configs = Labels(Device.configs[1].boot,
                                              Len(boots[Device.configs[1].boot].configs))
    BY DEF ConfigsAsReported
  <2>1. PICK c : c = Device.configs
    OBVIOUS
  <2>2. PICK k \in 1 .. Boot : c = ParsedConfigs(k, boots[k].configs)
    BY <2>1 DEF ConfigsInv, Kept
  <2>3. PICK entries : entries = boots[k].configs
    OBVIOUS
  <2>4. entries \in Seq(Nat \cup {Plain})
    BY <2>3, BootFacts DEF Layout
  <2>5. PICK n \in Nat : n = Len(entries)
    BY <2>4, LenProperties
  <2>6. c \in Seq([boot : {k}, item : Nat]) /\ Len(c) = n
    BY <2>2, <2>3, <2>5, ParsedType
  <2>7. c[1] \in [boot : {k}, item : Nat]
    <3>1. Len(c) # 0
      BY <2>1, <2>6, EmptySeq
    <3>2. 1 \in 1 .. Len(c)
      BY <2>5, <2>6, <3>1
    <3> QED
      BY <2>6, <3>2, ElementOfSeq
  <2>8. c[1].boot = k
    BY <2>7
  <2>9. c = Labels(k, Len(entries))
    BY <2>1, <2>2, <2>3, <2>4, <2>8, HarmlessParsed
  <2> QED
    BY <2>1, <2>3, <2>8, <2>9
<1> QED
  BY <1>1, <1>2, <1>3, LineAlways, PTL DEF Spec

----------------------------------------------------------------------------
(***************************************************************************)
(* Types.                                                                  *)
(***************************************************************************)
Item == [label : ALabel, value : 0 .. MaxNotes]

TBoard ==
  [mask : SUBSET (BoardInfo \cup DeviceInfo), type : {"unset", "dtInt", "dtFloat"},
   configs : Seq(ALabel), events : Seq(ALabel), actions : Seq(ALabel), data : Seq(Item),
   dataLog : Seq(Seq(Item)), eventLog : Seq(ALabel)]

\* A board of the right kinds of values, with a type for its data and no long log.
Typed(b) ==
  /\ b \in TBoard
  /\ b.data # << >> => b.type # "unset"
  /\ Len(b.dataLog) <= LogMax /\ Len(b.eventLog) <= LogMax

TypesInv ==
  /\ boots \in Seq(Layouts) /\ Len(boots) \in 1 .. MaxBoots
  /\ boards = [s \in Sources |-> boards[s]]
  /\ \A s \in Sources : boards[s] = << >> \/ boards[s] = <<BoardAt(s)>>
  /\ \A s \in Sources : Typed(BoardAt(s))

\* A log that is trimmed stays a log within its limit.
LEMMA LoggedType ==
  ASSUME NEW S, NEW log \in Seq(S), Len(log) <= LogMax, NEW e \in S
  PROVE  Logged(log, e) \in Seq(S) /\ Len(Logged(log, e)) <= LogMax
<1> PICK more : more = Append(log, e)
  OBVIOUS
<1>1. /\ more \in Seq(S) /\ Len(more) = Len(log) + 1 /\ Len(log) \in Nat
      /\ LogMax \in Nat \ {0}
  BY AppendProperties, LenProperties, LogMaxAssumption
<1>2. Logged(log, e) = Trimmed(more)
  BY DEF Logged
<1>3. CASE Len(more) <= LogMax
  <2>1. Trimmed(more) = more
    BY <1>1, <1>3 DEF Trimmed
  <2> QED
    BY <1>1, <1>2, <1>3, <2>1
<1>4. CASE Len(more) > LogMax
  <2>1. PICK m : m = Len(more) - LogMax + 1
    OBVIOUS
  <2>2. m \in 1 .. Len(more) + 1 /\ Len(more) - m + 1 = LogMax
    BY <1>1, <1>4, <2>1
  <2>3. Trimmed(more) = SubSeq(more, m, Len(more))
    BY <1>1, <1>4, <2>1 DEF Trimmed
  <2>4. SubSeq(more, m, Len(more)) \in Seq(S) /\ Len(SubSeq(more, m, Len(more))) = LogMax
    BY <1>1, <2>2, LastOnes
  <2>5. Logged(log, e) \in Seq(S) /\ Len(Logged(log, e)) = LogMax
    BY <1>2, <2>3, <2>4
  <2>6. LogMax <= LogMax
    BY <1>1
  <2> QED
    BY <2>5, <2>6
<1> QED
  BY <1>1, <1>3, <1>4

\* Labels of a start, or made-up ones.
LEMMA LabelsType ==
  ASSUME NEW boot \in 0 .. MaxBoots, NEW n \in Nat
  PROVE  Labels(boot, n) \in Seq(ALabel) /\ \A i \in 1 .. n : Labels(boot, n)[i] \in ALabel
<1>1. \A i \in 1 .. n : Label(boot, i) \in ALabel
  BY DEF Label, ALabel
<1>2. PICK f : f = Labels(boot, n)
  OBVIOUS
<1>3. f \in [1 .. n -> ALabel]
  BY <1>1, <1>2 DEF Labels
<1>4. f \in Seq(ALabel)
  BY <1>3, SeqDef
<1> QED
  BY <1>2, <1>3, <1>4

\* Data that are given one by one.
LEMMA ItemsType ==
  ASSUME NEW n \in Nat, NEW f, f = [i \in 1 .. n |-> f[i]], \A i \in 1 .. n : f[i] \in Item
  PROVE  f \in Seq(Item)
<1>1. f \in [1 .. n -> Item]
  OBVIOUS
<1> QED
  BY <1>1, SeqDef

\* What a packet stores is of the right kinds.
LEMMA StoredTyped ==
  ASSUME LineInv, TypesInv, NEW p, p \in GoodPackets, NEW b, Typed(b), b = BoardOf(p),
         NEW w, w = Stored(p)
  PROVE  Typed(w)
<1>1. /\ p.code \in Codes /\ p.boot \in 1 .. Boot /\ p.arg \in Nat
      /\ p.code = "DATA" => p.arg \in 0 .. MaxNotes
  <2>1. MaxNotes \in Nat
    BY BoardsBoundsAssumption
  <2> QED
    BY <2>1 DEF GoodPackets
<1>2. /\ IsBoard(b) /\ b.mask \subseteq BoardInfo \cup DeviceInfo
      /\ b.type \in {"unset", "dtInt", "dtFloat"} /\ b.configs \in Seq(ALabel)
      /\ b.events \in Seq(ALabel) /\ b.actions \in Seq(ALabel) /\ b.data \in Seq(Item)
      /\ b.dataLog \in Seq(Seq(Item)) /\ b.eventLog \in Seq(ALabel)
      /\ b.data # << >> => b.type # "unset"
      /\ Len(b.dataLog) <= LogMax /\ Len(b.eventLog) <= LogMax
  BY DEF Typed, TBoard, IsBoard
<1>3. /\ p.boot \in 0 .. MaxBoots /\ MadeUp \in 0 .. MaxBoots
      /\ 0 \in 0 .. MaxNotes
  BY <1>1, BoardsBoundsAssumption DEF TypesInv, Boot, MadeUp
<1>4. PICK l : l = boots[p.boot]
  OBVIOUS
<1>5. /\ l.type \in {"dtInt", "dtFloat"} /\ l.data \in Nat \ {0} /\ l.events \in Nat
      /\ l.actions \in Nat /\ l.configs \in Seq(Nat \cup {Plain})
  BY <1>1, <1>4, BootFacts DEF Layout
<1>6. ASSUME IsBoard(w), w.mask \subseteq BoardInfo \cup DeviceInfo,
             w.type \in {"unset", "dtInt", "dtFloat"}, w.configs \in Seq(ALabel),
             w.events \in Seq(ALabel), w.actions \in Seq(ALabel), w.data \in Seq(Item),
             w.dataLog \in Seq(Seq(Item)), w.eventLog \in Seq(ALabel),
             w.data # << >> => w.type # "unset",
             Len(w.dataLog) <= LogMax, Len(w.eventLog) <= LogMax
      PROVE  Typed(w)
  BY <1>6 DEF Typed, TBoard, IsBoard
<1>7. CASE p.code \in BoardInfo \cup DeviceInfo
  <2>1. p.code # "DATA" /\ p.code # "EVENT"
    BY <1>7 DEF BoardInfo, DeviceInfo
  <2>2. w = WithInfo(b, p.code, p.boot)
    BY <1>7, <2>1 DEF Stored
  <2>3. /\ IsBoard(w) /\ w.mask = b.mask \cup {p.code}
        /\ w.dataLog = b.dataLog /\ w.eventLog = b.eventLog
        /\ w.events = IF p.code = "INFOEVENT" THEN Labels(p.boot, l.events) ELSE b.events
        /\ w.type = IF p.code = "INFODATA" THEN l.type ELSE b.type
        /\ w.data = IF p.code = "INFODATA" THEN Filled(l.data, p.boot, 0) ELSE b.data
        /\ w.actions = IF p.code = "INFOACTION" THEN Labels(p.boot, l.actions) ELSE b.actions
        /\ w.configs = IF p.code = "INFOCONFIG" THEN ParsedConfigs(p.boot, l.configs) ELSE b.configs
    BY <1>2, <1>4, <1>7, <2>2, InfoFacts
  <2>4. Labels(p.boot, l.events) \in Seq(ALabel) /\ Labels(p.boot, l.actions) \in Seq(ALabel)
    BY <1>3, <1>5, LabelsType
  <2>5. Filled(l.data, p.boot, 0) \in Seq(Item)
    <3>1. PICK f : f = Filled(l.data, p.boot, 0)
      OBVIOUS
    <3>2. f = [i \in 1 .. l.data |-> f[i]]
      BY <3>1 DEF Filled
    <3>3. ASSUME NEW i \in 1 .. l.data PROVE f[i] \in Item
      <4>1. f[i] = [label |-> Label(p.boot, i), value |-> 0]
        BY <3>1 DEF Filled
      <4>2. Label(p.boot, i) \in ALabel
        BY <1>3 DEF Label, ALabel
      <4> QED
        BY <1>3, <4>1, <4>2 DEF Item
    <3> QED
      BY <1>5, <3>1, <3>2, <3>3, ItemsType
  <2>6. ParsedConfigs(p.boot, l.configs) \in Seq(ALabel)
    <3>1. PICK n \in Nat : n = Len(l.configs)
      BY <1>5, LenProperties
    <3>2. ParsedConfigs(p.boot, l.configs) \in Seq([boot : {p.boot}, item : Nat])
      BY <3>1, ParsedType
    <3>3. [boot : {p.boot}, item : Nat] \subseteq ALabel
      BY <1>3 DEF ALabel
    <3> QED
      BY <3>2, <3>3, SeqMonotonic
  <2>7. w.data # << >> => w.type # "unset"
    BY <1>2, <1>5, <2>3
  <2> QED
    BY <1>2, <1>5, <1>6, <1>7, <2>3, <2>4, <2>5, <2>6, <2>7
<1>8. CASE p.code = "DATA"
  <2>1. w = WithData(b, p.boot, p.arg)
    BY <1>8 DEF Stored, BoardInfo, DeviceInfo
  <2>2. /\ IsBoard(w) /\ w.dataLog = Logged(b.dataLog, w.data) /\ w.eventLog = b.eventLog
        /\ w.events = b.events /\ w.configs = b.configs /\ w.actions = b.actions
        /\ w.mask = b.mask
        /\ w.type = IF Len(b.data) = l.data THEN b.type ELSE l.type
        /\ w.data = DataAfter(b, p.boot, p.arg)
    BY <1>2, <1>4, <2>1, DataFacts
  <2>3. w.data \in Seq(Item)
    <3>1. PICK f : f = w.data
      OBVIOUS
    <3>2. f = [i \in 1 .. l.data |-> f[i]]
      BY <1>4, <2>2, <3>1 DEF DataAfter
    <3>3. ASSUME NEW i \in 1 .. l.data PROVE f[i] \in Item
      <4>1. f[i] = [label |-> IF Len(b.data) = l.data THEN b.data[i].label ELSE Label(MadeUp, i),
                    value |-> p.arg]
        BY <1>4, <2>2, <3>1 DEF DataAfter
      <4>2. Label(MadeUp, i) \in ALabel
        BY <1>3 DEF Label, ALabel
      <4>3. Len(b.data) = l.data => b.data[i].label \in ALabel
        <5>1. Len(b.data) = l.data => b.data[i] \in Item
          BY <1>2, ElementOfSeq
        <5> QED
          BY <5>1 DEF Item
      <4> QED
        BY <1>1, <1>8, <4>1, <4>2, <4>3 DEF Item
    <3> QED
      BY <1>5, <3>1, <3>2, <3>3, ItemsType
  <2>4. w.dataLog \in Seq(Seq(Item)) /\ Len(w.dataLog) <= LogMax
    BY <1>2, <2>2, <2>3, LoggedType
  <2>5. w.type # "unset" /\ w.type \in {"unset", "dtInt", "dtFloat"}
    <3>1. CASE Len(b.data) = l.data
      <4>1. b.data # << >>
        BY <1>2, <1>5, <3>1, EmptySeq
      <4> QED
        BY <1>2, <2>2, <3>1, <4>1
    <3>2. CASE Len(b.data) # l.data
      BY <1>5, <2>2, <3>2
    <3> QED
      BY <3>1, <3>2
  <2> QED
    BY <1>2, <1>6, <2>2, <2>3, <2>4, <2>5
<1>9. CASE p.code = "EVENT"
  <2>1. w = WithEvent(b, p.arg)
    BY <1>9 DEF Stored, BoardInfo, DeviceInfo
  <2>2. /\ IsBoard(w) /\ w.eventLog = Logged(b.eventLog, w.events[p.arg + 1])
        /\ w.dataLog = b.dataLog /\ w.data = b.data /\ w.type = b.type
        /\ w.configs = b.configs /\ w.actions = b.actions /\ w.mask = b.mask
        /\ w.events = IF Unknown(b, p.arg) THEN Labels(MadeUp, p.arg + 1) ELSE b.events
    BY <1>2, <2>1, EventFacts
  <2>3. w.events \in Seq(ALabel) /\ w.events[p.arg + 1] \in ALabel
    <3>1. CASE Unknown(b, p.arg)
      <4>1. p.arg + 1 \in Nat /\ p.arg + 1 \in 1 .. p.arg + 1
        BY <1>1
      <4>2. PICK n \in Nat : n = p.arg + 1 /\ n \in 1 .. n
        BY <4>1
      <4>3. Labels(MadeUp, n) \in Seq(ALabel) /\ Labels(MadeUp, n)[n] \in ALabel
        BY <1>3, <4>2, LabelsType
      <4> QED
        BY <2>2, <3>1, <4>2, <4>3
    <3>2. CASE ~ Unknown(b, p.arg)
      <4>1. Len(b.events) \in Nat /\ ~ p.arg >= Len(b.events)
        BY <1>2, <3>2, LenProperties DEF Unknown
      <4>2. p.arg + 1 \in 1 .. Len(b.events)
        BY <1>1, <4>1
      <4> QED
        BY <1>2, <2>2, <3>2, <4>2, ElementOfSeq
    <3> QED
      BY <3>1, <3>2
  <2>4. w.eventLog \in Seq(ALabel) /\ Len(w.eventLog) <= LogMax
    BY <1>2, <2>2, <2>3, LoggedType
  <2> QED
    BY <1>2, <1>6, <2>2, <2>3, <2>4
<1>10. CASE p.code \in {"READY", "ACK"}
  <2>1. w = b
    BY <1>10 DEF Stored, BoardInfo, DeviceInfo
  <2> QED
    BY <2>1
<1> QED
  BY <1>1, <1>7, <1>8, <1>9, <1>10 DEF Codes

\* The types hold at the start.
LEMMA TypesInit == ASSUME Init PROVE TypesInv
<1>1. PICK l \in Layouts : boots = <<l>>
  BY DEF Init
<1>2. boots \in Seq(Layouts) /\ Len(boots) \in 1 .. MaxBoots
  BY <1>1, BoardsBoundsAssumption
<1>3. boards = [s \in Sources |-> << >>]
  BY DEF Init
<1>4. boards = [s \in Sources |-> boards[s]] /\ \A s \in Sources : boards[s] = << >>
  BY <1>3
<1>5. \A s \in Sources : BoardAt(s) = NewBoard
  BY <1>4 DEF BoardAt
<1>6. Typed(NewBoard)
  <2>1. << >> \in Seq(ALabel) /\ << >> \in Seq(Item) /\ << >> \in Seq(Seq(Item)) /\ Len(<< >>) = 0
    BY EmptySeq
  <2>2. NewBoard \in TBoard
    BY <2>1 DEF TBoard, NewBoard
  <2> QED
    BY <2>1, <2>2, LogMaxAssumption DEF Typed, NewBoard
<1> QED
  BY <1>2, <1>4, <1>5, <1>6 DEF TypesInv

\* Every step keeps them.
LEMMA TypesStep ==
  ASSUME LineInv, TypesInv, [Next]_vars
  PROVE  TypesInv'
<1>1. boots' \in Seq(Layouts) /\ Len(boots') \in 1 .. MaxBoots
  <2>1. CASE boots' = boots
    BY <2>1 DEF TypesInv
  <2>2. ASSUME NEW l \in Layouts, NEW n \in 0 .. Len(line), Restart(l, n)
        PROVE  boots' \in Seq(Layouts) /\ Len(boots') \in 1 .. MaxBoots
    <3>1. boots \in Seq(Layouts) /\ boots' = Append(boots, l) /\ Len(boots) < MaxBoots
          /\ Len(boots) \in 1 .. MaxBoots
      BY <2>2 DEF TypesInv, Restart, Boot
    <3>2. boots' \in Seq(Layouts) /\ Len(boots') = Len(boots) + 1
      BY <3>1, AppendProperties
    <3>3. Len(boots) + 1 \in 1 .. MaxBoots
      BY <3>1, BoardsBoundsAssumption
    <3> QED
      BY <3>2, <3>3
  <2> QED
    BY <2>1, <2>2 DEF Next, DeviceStep, AppStep, Report, SendData, SendEvent, LosePacket,
       ProcessPacket, CheckIndex, UseIndex, vars, deviceVars
<1>2. CASE UNCHANGED <<boards, signal, told, setIn>>
  <2>1. boards' = boards /\ \A s : BoardAt(s)' = BoardAt(s)
    BY <1>2 DEF BoardAt
  <2> QED
    BY <1>1, <2>1 DEF TypesInv, Typed
<1>3. CASE ProcessPacket
  <2>1. PICK p : p = Head(line)
    OBVIOUS
  <2>2. p \in GoodPackets /\ p.source \in Sources
    BY <1>3, <2>1, HeadTailProperties DEF LineInv, ProcessPacket, GoodPackets
  <2>3. PICK b, w : b = BoardOf(p) /\ w = Stored(p)
    OBVIOUS
  <2>4. b = BoardAt(p.source)
    BY <2>3 DEF BoardOf, BoardAt
  <2>5. Typed(w)
    BY <2>2, <2>3, <2>4, StoredTyped DEF TypesInv
  <2>6. boards' = [boards EXCEPT ![p.source] = <<w>>]
    BY <1>3, <2>1, <2>3 DEF ProcessPacket
  <2>7. /\ boards' = [s \in Sources |-> boards'[s]]
        /\ boards'[p.source] = <<w>>
        /\ \A s \in Sources \ {p.source} : boards'[s] = boards[s]
    BY <2>2, <2>6 DEF TypesInv
  <2>8. ASSUME NEW s \in Sources
        PROVE  (boards'[s] = << >> \/ boards'[s] = <<BoardAt(s)'>>) /\ Typed(BoardAt(s)')
    <3>1. CASE s = p.source
      <4>1. BoardAt(s)' = w
        BY <2>7, <3>1 DEF BoardAt
      <4> QED
        BY <2>5, <2>7, <3>1, <4>1
    <3>2. CASE s # p.source
      <4>1. boards'[s] = boards[s] /\ BoardAt(s)' = BoardAt(s)
        BY <2>7, <3>2 DEF BoardAt
      <4> QED
        BY <4>1 DEF TypesInv
    <3> QED
      BY <3>1, <3>2
  <2>9. ASSUME NEW v, Typed(v) PROVE Typed(v)'
    BY <2>9 DEF Typed
  <2> QED
    BY <1>1, <2>7, <2>8 DEF TypesInv, Typed
<1> QED
  BY <1>2, <1>3, OtherSteps

\* The variables hold what they should, a board that has data has a type for them,
\* and the logs do not grow beyond their limit, for all layouts and limits.
THEOREM TypeCorrect == Spec => []TypeOK
<1>1. Init => TypesInv
  BY TypesInit
<1>2. LineInv /\ TypesInv /\ [Next]_vars => TypesInv'
  BY TypesStep
<1>3. TypesInv => TypeOK
  <2> SUFFICES ASSUME TypesInv PROVE TypeOK
    OBVIOUS
  <2>1. ASSUME NEW s \in Sources PROVE boards[s] \in Seq(TBoard)
    <3>1. BoardAt(s) \in TBoard
      BY DEF TypesInv, Typed
    <3>2. << >> \in Seq(TBoard) /\ <<BoardAt(s)>> \in Seq(TBoard)
      <4> PICK S : S = TBoard
        OBVIOUS
      <4> QED
        BY <3>1, EmptySeq
    <3> QED
      BY <3>2 DEF TypesInv
  <2>2. boards \in [Sources -> Seq(TBoard)]
    BY <2>1 DEF TypesInv
  <2>3. HasDevice => Typed(Device)
    <3>1. "btDevice" \in Sources
      BY DEF Sources
    <3>2. HasDevice => Device = BoardAt("btDevice")
      BY DEF HasDevice, Device, BoardAt
    <3> QED
      BY <3>1, <3>2 DEF TypesInv
  <2> QED
    BY <2>2, <2>3 DEF TypesInv, TypeOK, TBoard, Item, Typed
<1> QED
  BY <1>1, <1>2, <1>3, LineAlways, PTL DEF Spec
=============================================================================
