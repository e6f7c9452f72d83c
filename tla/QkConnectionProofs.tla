------------------------- MODULE QkConnectionProofs -------------------------
(***************************************************************************)
(* Proofs about QkConnection: whatever the application opens and closes in *)
(* the middle of its waits, the status it is told is that of the port, and *)
(* the thread of the connection works on nothing that was deleted.         *)
(***************************************************************************)
EXTENDS QkConnection, SequenceTheorems, TLAPS

Calls == {"wait", "search", "close", "destroy"}
Slots == {"sConnected", "sDisconnected"}

----------------------------------------------------------------------------
(***************************************************************************)
(* Stacks and queues.                                                      *)
(***************************************************************************)
\* Append() puts an element at the end and leaves the others.
LEMMA Extended ==
  ASSUME NEW S, NEW s \in Seq(S), NEW e \in S
  PROVE  /\ Append(s, e) \in Seq(S) /\ Append(s, e) # << >>
         /\ Len(s) \in Nat /\ Len(Append(s, e)) = Len(s) + 1
         /\ Append(s, e)[Len(s) + 1] = e
         /\ \A i \in 1 .. Len(s) : Append(s, e)[i] = s[i]
BY AppendProperties, LenProperties

\* Taking the last element away leaves the others.
LEMMA CutAtEnd ==
  ASSUME NEW S, NEW s \in Seq(S), s # << >>
  PROVE  /\ SubSeq(s, 1, Len(s) - 1) \in Seq(S)
         /\ Len(s) \in Nat \ {0} /\ s[Len(s)] \in S
         /\ Len(SubSeq(s, 1, Len(s) - 1)) = Len(s) - 1
         /\ \A i \in 1 .. Len(s) - 1 : SubSeq(s, 1, Len(s) - 1)[i] = s[i]
<1> DEFINE n == Len(s) - 1
<1>1. Len(s) \in Nat \ {0} /\ s[Len(s)] \in S
  BY EmptySeq, LenProperties, ElementOfSeq
<1>2. n \in Nat /\ \A i \in 1 .. n : s[i] \in S
  BY <1>1, ElementOfSeq
<1> HIDE DEF n
<1>3. /\ SubSeq(s, 1, n) \in Seq(S) /\ Len(SubSeq(s, 1, n)) = n
      /\ \A i \in 1 .. n : SubSeq(s, 1, n)[i] = s[i]
  BY <1>2, SubSeqProperties
<1> QED
  BY <1>1, <1>3 DEF n

\* Taking the first element away leaves the others.
LEMMA CutAtHead ==
  ASSUME NEW S, NEW s \in Seq(S), s # << >>
  PROVE  /\ Tail(s) \in Seq(S) /\ Head(s) \in S
         /\ Tail(s) = << >> => s[Len(s)] = Head(s)
         /\ Tail(s) # << >> => Tail(s)[Len(Tail(s))] = s[Len(s)]
<1>1. /\ Len(s) \in Nat \ {0} /\ Tail(s) \in Seq(S) /\ Head(s) = s[1] /\ s[1] \in S
      /\ Len(Tail(s)) = Len(s) - 1
      /\ \A i \in 1 .. Len(Tail(s)) : Tail(s)[i] = s[i + 1]
  BY EmptySeq, LenProperties, ElementOfSeq, HeadTailProperties
<1>2. CASE Tail(s) = << >>
  <2> DEFINE n == Len(s)
  <2>1. n \in Nat /\ n - 1 = 0
    BY <1>1, <1>2, EmptySeq
  <2> HIDE DEF n
  <2>2. n = 1
    BY <2>1
  <2>3. s[Len(s)] = Head(s)
    BY <1>1, <2>2 DEF n
  <2> QED
    BY <1>1, <1>2, <2>3
<1>3. CASE Tail(s) # << >>
  <2> DEFINE n == Len(Tail(s))
  <2>1. n \in Nat \ {0} /\ n = Len(s) - 1
    BY <1>1, <1>3, EmptySeq, LenProperties
  <2> HIDE DEF n
  <2>2. Tail(s)[n] = s[n + 1] /\ n + 1 = Len(s)
    BY <1>1, <2>1 DEF n
  <2> QED
    BY <1>1, <1>3, <2>2 DEF n
<1> QED
  BY <1>2, <1>3

----------------------------------------------------------------------------
(***************************************************************************)
(* The calls of the application thread.                                    *)
(***************************************************************************)

\* Only the innermost call blocks, and the destructor is called outside of any.
StackOK ==
  /\ stack \in Seq(Calls)
  /\ \A i \in 1 .. (Len(stack) - 1) : stack[i] \in {"wait", "search"}
  /\ \A i \in 1 .. Len(stack) : stack[i] = "destroy" => i = 1

\* A call that is made while the event loop runs.
LEMMA PushKeepsStack ==
  ASSUME StackOK, Dispatching, NEW call \in Calls, call = "destroy" => stack = << >>,
         stack' = Push(call)
  PROVE  StackOK' /\ stack' # << >> /\ Top' = call
<1>1. /\ stack' \in Seq(Calls) /\ stack' # << >>
      /\ Len(stack) \in Nat /\ Len(stack') = Len(stack) + 1
      /\ stack'[Len(stack')] = call
      /\ \A i \in 1 .. Len(stack) : stack'[i] = stack[i]
  BY Extended DEF StackOK, Push
<1>2. stack # << >> => Len(stack) # 0 /\ stack[Len(stack)] \in {"wait", "search"}
  BY EmptySeq DEF Dispatching, Within, Top, StackOK
<1>3. \A i \in 1 .. Len(stack) : stack[i] \in {"wait", "search"}
  BY <1>1, <1>2, EmptySeq DEF StackOK
<1>4. stack = << >> => Len(stack) = 0
  BY EmptySeq
<1> QED
  BY <1>1, <1>3, <1>4 DEF StackOK, Top

\* A call that returns leaves calls that run an event loop.
LEMMA PopKeepsStack ==
  ASSUME StackOK, stack # << >>, stack' = Pop
  PROVE  StackOK' /\ ~ Closing' /\ (Top = "destroy" => stack' = << >>)
<1>1. /\ stack' \in Seq(Calls)
      /\ Len(stack) \in Nat \ {0} /\ Len(stack') = Len(stack) - 1
      /\ \A i \in 1 .. Len(stack') : stack'[i] = stack[i]
  BY CutAtEnd DEF StackOK, Pop
<1>2. \A i \in 1 .. Len(stack') : stack'[i] \in {"wait", "search"}
  BY <1>1 DEF StackOK
<1>3. StackOK'
  BY <1>1, <1>2 DEF StackOK
<1>4. ~ Closing'
  <2>1. CASE stack' = << >>
    BY <2>1 DEF Closing, Within
  <2>2. CASE stack' # << >>
    <3>1. Len(stack') \in 1 .. Len(stack')
      BY <1>1, <2>2, EmptySeq
    <3> QED
      BY <1>2, <3>1 DEF Closing, Within, Top
  <2> QED
    BY <2>1, <2>2
<1>5. Top = "destroy" => Len(stack) = 1
  BY <1>1 DEF StackOK, Top
<1> QED
  BY <1>1, <1>3, <1>4, <1>5, EmptySeq

\* The wait for READY goes over to search().
LEMMA SwapKeepsStack ==
  ASSUME StackOK, Within("wait"), stack' = Append(Pop, "search")
  PROVE  StackOK' /\ ~ Closing'
<1>1. /\ Pop \in Seq(Calls)
      /\ Len(stack) \in Nat \ {0} /\ Len(Pop) = Len(stack) - 1
      /\ \A i \in 1 .. Len(Pop) : Pop[i] = stack[i]
  BY CutAtEnd DEF StackOK, Pop, Within
<1>2. /\ stack' \in Seq(Calls) /\ Len(stack') = Len(stack)
      /\ stack'[Len(stack)] = "search"
      /\ \A i \in 1 .. Len(stack) - 1 : stack'[i] = stack[i]
  BY <1>1, Extended DEF Calls
<1> QED
  BY <1>1, <1>2 DEF StackOK, Closing, Within, Top

----------------------------------------------------------------------------
(***************************************************************************)
(* The invariant.                                                          *)
(***************************************************************************)

\* The thread runs only for a connection that is open or that close() waits for.
ThreadOwned == sPc # "off" => opened \/ Closing

\* A connection does not count as open while close() waits.
ClosingIsClosed == Closing => ~ opened

\* Nothing is left of a connection after its destructor.
DestroyedLast == destroyed => stack = << >> /\ ~ opened

ConnectionInv ==
  /\ TypeOK
  /\ StackOK
  /\ nodes = opens
  /\ ThreadOwned
  /\ ClosingIsClosed
  /\ DestroyedLast

\* A connection that is closed and not closing has no thread.
LEMMA ClosedIsOff ==
  ASSUME ConnectionInv, Dispatching, ~ opened
  PROVE  sPc = "off" /\ ~ mConnected
BY DEF ConnectionInv, TypeOK, ThreadOwned, Closing, Within, Dispatching

\* The invariant holds at the start.
LEMMA InvInit == Init => ConnectionInv
<1> SUFFICES ASSUME Init PROVE ConnectionInv
  OBVIOUS
<1>1. /\ stack \in Seq(Calls) /\ stack \in Seq({"wait", "search", "close", "destroy"})
      /\ Len(stack) = 0 /\ events \in Seq({"sConnected", "sDisconnected"})
  BY EmptySeq DEF Init
<1>2. \A i \in 1 .. (Len(stack) - 1) : FALSE
  BY <1>1
<1>3. StackOK /\ ThreadOwned /\ ClosingIsClosed /\ DestroyedLast
  BY <1>1, <1>2 DEF Init, StackOK, ThreadOwned, ClosingIsClosed, DestroyedLast
<1>4. TypeOK
  <2>1. {destroyed, mQuit, exited, mConnected, ready, gotReady, opened, reopened} \subseteq BOOLEAN
    BY DEF Init
  <2>2. (mConnected => sPc \in {"loop", "packet"}) /\ (sPc = "loop" => mConnected)
    BY DEF Init
  <2>3. {nodes, sNodes, opens} \subseteq 0 .. MaxOpens
    BY MaxOpensAssumption DEF Init
  <2> QED
    BY <1>1, <1>2, <2>1, <2>2, <2>3 DEF Init, TypeOK, Statuses, CoreStatuses
<1> QED
  BY <1>3, <1>4 DEF Init, ConnectionInv

\* open(): the thread is off or belongs to the open connection.
LEMMA OpenKeeps == ASSUME ConnectionInv, Open PROVE ConnectionInv'
<1>1. StackOK' /\ ThreadOwned' /\ ClosingIsClosed' /\ DestroyedLast'
  BY DEF ConnectionInv, Open, StackOK, ThreadOwned, ClosingIsClosed, DestroyedLast,
         Dispatching, Closing, Within, Top
<1>2. nodes' = opens' /\ nodes' \in 0 .. MaxOpens
  BY MaxOpensAssumption DEF ConnectionInv, Open, TypeOK
<1>3. sPc' \in {"off", "run", "reset", "loop", "packet", "exec"}
      /\ (mConnected' => sPc' \in {"loop", "packet"}) /\ (sPc' = "loop" => mConnected')
  BY DEF ConnectionInv, Open, TypeOK
<1> QED
  BY <1>1, <1>2, <1>3 DEF ConnectionInv, Open, TypeOK, Statuses

\* close() and the destructor up to the join.
LEMMA BeginCloseKeeps ==
  ASSUME ConnectionInv, NEW call \in {"close", "destroy"}, BeginClose(call)
  PROVE  ConnectionInv'
<1>1. StackOK' /\ stack' # << >> /\ Top' = call
  BY PushKeepsStack DEF ConnectionInv, BeginClose, Calls
<1>2. ThreadOwned' /\ ClosingIsClosed' /\ DestroyedLast'
  BY <1>1 DEF ThreadOwned, ClosingIsClosed, DestroyedLast, Closing, Within, BeginClose, Dispatching
<1> QED
  BY <1>1, <1>2 DEF ConnectionInv, BeginClose, TypeOK, StackOK, Calls, coreVars

\* close() and the destructor return when the thread has ended.
LEMMA EndCloseKeeps == ASSUME ConnectionInv, EndClose PROVE ConnectionInv'
<1>1. stack # << >> /\ StackOK' /\ ~ Closing' /\ (Top = "destroy" => stack' = << >>)
  BY PopKeepsStack DEF ConnectionInv, EndClose, Within
<1>2. ThreadOwned' /\ ClosingIsClosed'
  BY <1>1 DEF EndClose, Joined, ThreadOwned, ClosingIsClosed, threadVars
<1>3. DestroyedLast'
  BY <1>1 DEF ConnectionInv, EndClose, DestroyedLast, ClosingIsClosed, Closing
<1>4. events' \in Seq({"sConnected", "sDisconnected"}) /\ destroyed' \in BOOLEAN
  BY EmptySeq DEF ConnectionInv, EndClose, TypeOK
<1> QED
  BY <1>1, <1>2, <1>3, <1>4
     DEF ConnectionInv, EndClose, TypeOK, StackOK, Calls, coreVars, threadVars

\* A queued slot may begin a wait.
LEMMA SlotKeeps ==
  ASSUME ConnectionInv, (\E search \in BOOLEAN : SlotConnected(search)) \/ SlotDisconnected
  PROVE  ConnectionInv'
<1>1. /\ events' \in Seq({"sConnected", "sDisconnected"})
      /\ Dispatching /\ UNCHANGED <<destroyed, threadVars, coreVars, sNodes, opens, opened, reopened>>
  <2>1. events # << >> /\ events' = Tail(events) /\ Dispatching
    BY DEF SlotConnected, SlotDisconnected
  <2>2. events \in Seq({"sConnected", "sDisconnected"})
    BY DEF ConnectionInv, TypeOK
  <2>3. events' \in Seq({"sConnected", "sDisconnected"})
    BY <2>1, <2>2, CutAtHead
  <2>4. UNCHANGED <<destroyed, threadVars, coreVars, sNodes, opens, opened, reopened>>
    BY DEF SlotConnected, SlotDisconnected
  <2> QED
    BY <2>1, <2>3, <2>4
<1>2. status' \in Statuses /\ coreStatus' \in CoreStatuses
  BY DEF ConnectionInv, SlotConnected, SlotDisconnected, TypeOK, Statuses, CoreStatuses
<1>3. \/ stack' = stack
      \/ stack' = Push("wait")
  BY DEF SlotConnected, SlotDisconnected
<1>4. StackOK' /\ ~ Closing /\ ~ Closing'
  BY <1>1, <1>3, PushKeepsStack DEF ConnectionInv, Calls, StackOK, Closing, Within, Top, Dispatching
<1>5. ThreadOwned' /\ ClosingIsClosed' /\ DestroyedLast'
  BY <1>1, <1>4 DEF ConnectionInv, ThreadOwned, ClosingIsClosed, DestroyedLast, threadVars,
                    Dispatching
<1> QED
  BY <1>1, <1>2, <1>4, <1>5 DEF ConnectionInv, TypeOK, StackOK, Calls, coreVars, threadVars

\* The end of waitForReady() and of the search after it.
LEMMA EndWaitKeeps ==
  ASSUME ConnectionInv, EndSearch \/ \E expired \in BOOLEAN : EndWait(expired)
  PROVE  ConnectionInv'
<1>1. /\ stack # << >> /\ (stack' = Pop \/ (Within("wait") /\ stack' = Append(Pop, "search")))
      /\ UNCHANGED <<status, destroyed, threadVars, coreVars, events, sNodes, opens, opened, reopened>>
      /\ Top \in {"wait", "search"}
  BY DEF EndWait, EndSearch, Within
<1>2. coreStatus' \in CoreStatuses
  BY DEF ConnectionInv, EndWait, EndSearch, TypeOK, CoreStatuses
<1>3. StackOK' /\ ~ Closing /\ ~ Closing'
  BY <1>1, PopKeepsStack, SwapKeepsStack DEF ConnectionInv, Closing, Within
<1>4. ThreadOwned' /\ ClosingIsClosed' /\ DestroyedLast'
  BY <1>1, <1>3 DEF ConnectionInv, ThreadOwned, ClosingIsClosed, DestroyedLast, threadVars
<1> QED
  BY <1>1, <1>2, <1>3, <1>4 DEF ConnectionInv, TypeOK, StackOK, Calls, coreVars, threadVars

\* What the thread does on its own: it does not start itself.
ThreadMoves ==
  \/ ThreadStep \/ BeginPacket
  \/ \E isReady \in BOOLEAN : EndPacket(isReady, TRUE)

\* The steps of the connection's thread.
LEMMA ThreadKeeps == ASSUME ConnectionInv, ThreadMoves PROVE ConnectionInv'
<1>1. /\ UNCHANGED <<stack, status, coreStatus, destroyed, opens, opened, reopened, mQuit, nodes>>
      /\ sPc # "off"
  BY DEF ThreadMoves, ThreadStep, OpenPort, OpenUsbPort, EndReset, BeginLoop, OpenPortFails,
         EndPacket, Receiving, LeaveLoop, EndThread,
         BeginPacket, appVars, coreVars
<1>2. Closing' = Closing
  BY <1>1 DEF Closing, Within, Top
<1>3. StackOK' /\ ThreadOwned' /\ ClosingIsClosed' /\ DestroyedLast'
  BY <1>1, <1>2 DEF ConnectionInv, StackOK, ThreadOwned, ClosingIsClosed, DestroyedLast
<1>4. events' \in Seq({"sConnected", "sDisconnected"})
  <2>1. events \in Seq({"sConnected", "sDisconnected"})
    BY DEF ConnectionInv, TypeOK
  <2>2. \/ events' = events
        \/ \E slot \in {"sConnected", "sDisconnected"} : events' = Append(events, slot)
    BY DEF ThreadMoves, ThreadStep, OpenPort, OpenUsbPort, EndReset, BeginLoop, OpenPortFails,
           EndPacket, Receiving, LeaveLoop, EndThread,
           BeginPacket, Connect, Disconnect
  <2> QED
    BY <2>1, <2>2, Extended
<1>5. /\ sPc' \in {"off", "run", "reset", "loop", "packet", "exec"}
      /\ mConnected' \in BOOLEAN
      /\ (mConnected' => sPc' \in {"loop", "packet"}) /\ (sPc' = "loop" => mConnected')
  <2>1. mConnected \in BOOLEAN /\ (mConnected => sPc \in {"loop", "packet"})
        /\ (sPc = "loop" => mConnected)
    BY DEF ConnectionInv, TypeOK
  <2>2. \/ mConnected' = TRUE /\ sPc' = "loop"
        \/ mConnected' = FALSE /\ sPc' = "exec"
        \/ mConnected' = mConnected /\ sPc' = "packet"
        \/ mConnected' = mConnected /\ mConnected /\ sPc' = "loop"
        \/ mConnected' = mConnected /\ ~ mConnected /\ sPc' = "reset"
        \/ mConnected' = mConnected /\ sPc \in {"run", "exec"} /\ sPc' \in {"reset", "exec", "off"}
    <3>1. CASE OpenPort \/ EndReset
      BY <3>1 DEF OpenPort, EndReset, BeginLoop
    <3>2. CASE LeaveLoop
      BY <3>2 DEF LeaveLoop
    <3>3. CASE BeginPacket
      BY <3>3 DEF BeginPacket
    <3>4. ASSUME NEW isReady \in BOOLEAN, NEW more \in BOOLEAN, EndPacket(isReady, more)
          PROVE  mConnected' = mConnected /\ sPc' = IF more THEN "packet" ELSE Receiving
      BY <3>4 DEF EndPacket
    <3>5. CASE OpenPortFails \/ OpenUsbPort \/ EndThread
      BY <3>5 DEF OpenPortFails, OpenUsbPort, EndThread
    <3> QED
      BY <2>1, <3>1, <3>2, <3>3, <3>4, <3>5 DEF ThreadMoves, ThreadStep, Receiving
  <2>3. mConnected' \in BOOLEAN
    BY <2>1, <2>2
  <2>4. mConnected' => sPc' \in {"loop", "packet"}
    BY <2>1, <2>2
  <2>5. sPc' = "loop" => mConnected'
    BY <2>1, <2>2
  <2>6. sPc' \in {"off", "run", "reset", "loop", "packet", "exec"}
    BY <2>2
  <2> QED
    BY <2>3, <2>4, <2>5, <2>6
<1>6. {exited', ready', gotReady'} \subseteq BOOLEAN /\ sNodes' \in 0 .. MaxOpens
  BY DEF ConnectionInv, TypeOK, ThreadMoves, ThreadStep, OpenPort, OpenUsbPort, EndReset,
         BeginLoop, OpenPortFails, EndPacket, Receiving,
         LeaveLoop, EndThread, BeginPacket, coreVars
<1> QED
  BY <1>1, <1>3, <1>4, <1>5, <1>6 DEF ConnectionInv, TypeOK, StackOK, Calls

\* The invariant is inductive.
LEMMA InvStep == ConnectionInv /\ [Next]_vars => ConnectionInv'
<1> SUFFICES ASSUME ConnectionInv, [Next]_vars PROVE ConnectionInv'
  OBVIOUS
<1>1. CASE UNCHANGED vars
  BY <1>1 DEF ConnectionInv, TypeOK, StackOK, ThreadOwned, ClosingIsClosed, DestroyedLast,
              Closing, Within, Top, vars, appVars, threadVars, coreVars
<1> QED
  BY <1>1, OpenKeeps, BeginCloseKeeps, EndCloseKeeps, SlotKeeps, EndWaitKeeps, ThreadKeeps
     DEF Next, AppStep, ThreadMoves

\* The invariant holds in every reachable state.
LEMMA InvAlways == Spec => []ConnectionInv
BY InvInit, InvStep, PTL DEF Spec

\* The variables keep their types for every number of open() calls; m_connected is set
\* only within run(), and the innermost call alone blocks the application thread.
THEOREM TypeCorrect == Spec => []TypeOK
<1>1. ConnectionInv => TypeOK
  BY DEF ConnectionInv
<1> QED
  BY <1>1, InvAlways, PTL

----------------------------------------------------------------------------
\* Only open() replaces nodes, and finds no thread unless it is called twice.
LEMMA NodesStep == ConnectionInv /\ NodesAlive /\ [Next]_vars => NodesAlive'
<1> SUFFICES ASSUME ConnectionInv, NodesAlive, [Next]_vars PROVE NodesAlive'
  OBVIOUS
<1>1. CASE Open
  BY <1>1, ClosedIsOff DEF Open, NodesAlive, ConnectionInv, TypeOK
<1>2. CASE UNCHANGED <<sPc, sNodes, nodes, reopened, destroyed>>
  BY <1>2 DEF NodesAlive
<1>3. CASE EndClose
  BY <1>3 DEF EndClose, Joined, NodesAlive, threadVars
<1>4. CASE ThreadMoves
  <2>1. UNCHANGED <<nodes, reopened, destroyed>> /\ sPc # "off"
    BY <1>4 DEF ThreadMoves, ThreadStep, OpenPort, OpenUsbPort, EndReset, BeginLoop, OpenPortFails,
                EndPacket, Receiving, LeaveLoop,
                EndThread, BeginPacket, appVars, coreVars
  <2>2. ~ destroyed
    BY <2>1 DEF ConnectionInv, ThreadOwned, DestroyedLast, Closing, Within
  <2>3. sPc' = "packet" => sNodes' = nodes
    BY <1>4 DEF ThreadMoves, ThreadStep, OpenPort, OpenUsbPort, EndReset, BeginLoop, OpenPortFails,
                EndPacket, Receiving, LeaveLoop,
                EndThread, BeginPacket
  <2> QED
    BY <2>1, <2>2, <2>3 DEF NodesAlive
<1> QED
  BY <1>1, <1>2, <1>3, <1>4
     DEF Next, AppStep, BeginClose, SlotConnected, SlotDisconnected, EndWait, EndSearch,
         ThreadMoves, vars, appVars, threadVars, coreVars

\* The thread of a connection never handles a packet with nodes that were deleted
\* under it, nor after the destructor, however often the application closes and
\* opens, as long as it does not open an open connection.
THEOREM NodesOutlivePackets == Spec => []NodesAlive
<1>1. Init => NodesAlive
  BY DEF Init, NodesAlive
<1> QED
  BY <1>1, NodesStep, InvAlways, PTL DEF Spec

----------------------------------------------------------------------------
\* Every step that opens or closes the port, or takes a slot, keeps the two in step.
LEMMA StatusStep == ConnectionInv /\ StatusInStep /\ [Next]_vars => StatusInStep'
<1> SUFFICES ASSUME ConnectionInv, StatusInStep, [Next]_vars PROVE StatusInStep'
  OBVIOUS
<1>0. events \in Seq(Slots) /\ DestroyedLast /\ TypeOK
  BY DEF ConnectionInv, TypeOK, Slots
<1>1. CASE Open
  BY <1>1, ClosedIsOff DEF Open, StatusInStep, SettledStatus, Dispatching
<1>2. CASE UNCHANGED <<events, status, mConnected, reopened, destroyed>>
  BY <1>2 DEF StatusInStep, SettledStatus
<1>3. CASE EndClose
  <2>1. CASE Top = "destroy"
    BY <1>3, <2>1 DEF EndClose, StatusInStep
  <2>2. CASE Top # "destroy"
    <3>1. UNCHANGED <<events, status, mConnected, reopened>> /\ ~ destroyed
      BY <1>0, <1>3, <2>2 DEF EndClose, threadVars, DestroyedLast, Within
    <3> QED
      BY <3>1 DEF StatusInStep, SettledStatus
  <2> QED
    BY <2>1, <2>2
<1>4. CASE (\E search \in BOOLEAN : SlotConnected(search)) \/ SlotDisconnected
  <2>1. /\ events # << >> /\ events' = Tail(events) /\ status' = Head(events)
        /\ UNCHANGED <<mConnected, reopened, destroyed>>
    BY <1>4 DEF SlotConnected, SlotDisconnected, threadVars
  <2>2. SettledStatus' = SettledStatus
    BY <1>0, <2>1, CutAtHead DEF SettledStatus
  <2> QED
    BY <2>1, <2>2 DEF StatusInStep
<1>5. ASSUME NEW slot \in Slots, events' = Append(events, slot)
      PROVE  SettledStatus' = slot
  BY <1>0, <1>5, Extended DEF SettledStatus
<1>6. CASE OpenPort \/ EndReset
  BY <1>5, <1>6 DEF OpenPort, EndReset, BeginLoop, Connect, Slots, StatusInStep
<1>7. CASE LeaveLoop
  BY <1>5, <1>7 DEF LeaveLoop, Disconnect, Slots, StatusInStep
<1> QED
  BY <1>1, <1>2, <1>3, <1>4, <1>6, <1>7
     DEF Next, AppStep, ThreadStep, BeginClose, EndWait, EndSearch, OpenPortFails, OpenUsbPort,
         EndPacket, Receiving,
         EndThread, BeginPacket, vars, appVars, threadVars, coreVars

\* Through queued slots, nested waits, closing and opening anew, what the application
\* was or will be told last is sConnected exactly when m_connected is set.
THEOREM StatusFollowsPort == Spec => []StatusInStep
<1>1. Init => StatusInStep
  BY DEF Init, StatusInStep, SettledStatus
<1> QED
  BY <1>1, StatusStep, InvAlways, PTL DEF Spec
=============================================================================
