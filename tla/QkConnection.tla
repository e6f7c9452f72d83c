---------------------------- MODULE QkConnection ----------------------------
(***************************************************************************)
(* The life of one connection: open() and close() of QkConnection, the     *)
(* thread that runs QkConnSerialWorker::run(), the signals queued from it  *)
(* to the application thread, QkCore::reset() and QkCore::waitForReady().  *)
(*                                                                         *)
(* The application thread runs nested event loops: `stack` holds the calls *)
(* it is in, the innermost last.  While that is a wait for READY or for    *)
(* the answer to search(), the event loop goes on handling queued slots    *)
(* and further calls of the application; close() blocks the thread.        *)
(***************************************************************************)
EXTENDS Integers, Sequences

CONSTANT MaxOpens   \* bound: calls of open()

ASSUME MaxOpensAssumption == MaxOpens \in Nat

VARIABLES
  stack,       \* what the application thread is in: "wait", "search", "close", "destroy"
  status,      \* the last status(int, Status) that QkConnection emitted
  coreStatus,  \* the last status(Status) of QkCore; sSearching follows sReady at once
  destroyed,   \* ~QkConnection() has run
  sPc,         \* where the worker's thread is
  mQuit,       \* QkConnWorker::m_quit
  exited,      \* QThread::quit() was called since start()
  mConnected,  \* QkConnWorker::m_connected
  events,      \* slots queued for the application thread
  ready,       \* QkCore::m_ready
  nodes,       \* which m_nodes there are: reset() deletes them all
  sNodes,      \* the m_nodes that processPacket() on the worker's thread holds
  \* History:
  opens,       \* calls of open()
  opened,      \* open() was called, and close() not since
  reopened,    \* open() was called on a connection that was not closed
  gotReady     \* a READY packet was processed since the last open()

appVars == <<stack, status, coreStatus, destroyed, opens, opened, reopened>>
threadVars == <<sPc, mQuit, exited, mConnected>>
coreVars == <<ready, nodes, gotReady>>
vars == <<appVars, threadVars, coreVars, events, sNodes>>

Statuses == {"none", "sConnecting", "sConnected", "sDisconnected"}
CoreStatuses == {"none", "sWaitForReady", "sSearching"}

----------------------------------------------------------------------------
Init ==
  /\ stack = << >>
  /\ status = "none"
  /\ coreStatus = "none"
  /\ destroyed = FALSE
  /\ sPc = "off"
  /\ mQuit = FALSE
  /\ exited = FALSE
  /\ mConnected = FALSE
  /\ events = << >>
  /\ ready = FALSE
  /\ nodes = 0
  /\ sNodes = 0
  /\ opens = 0
  /\ opened = FALSE
  /\ reopened = FALSE
  /\ gotReady = FALSE

----------------------------------------------------------------------------
(***************************************************************************)
(* The application thread.                                                 *)
(***************************************************************************)
Top == stack[Len(stack)]
Within(call) == stack # << >> /\ Top = call
Push(call) == Append(stack, call)
Pop == SubSeq(stack, 1, Len(stack) - 1)

\* An event loop that runs even while close() blocks the thread.
DispatchingAlways == ~ destroyed

\* Its event loop, the outermost or that of a wait, is running.
Dispatching ==
  ~ destroyed /\ (stack = << >> \/ Within("wait") \/ Within("search"))

\* QThread::start() does nothing to a thread that is already running.
Open ==
  /\ Dispatching
  /\ opens < MaxOpens
  /\ status' = "sConnecting"
  /\ ready' = FALSE
  /\ nodes' = nodes + 1
  /\ sPc' = IF sPc = "off" THEN "run" ELSE sPc
  /\ exited' = IF sPc = "off" THEN FALSE ELSE exited
  /\ opens' = opens + 1
  /\ opened' = TRUE
  /\ reopened' = (reopened \/ opened)
  /\ gotReady' = FALSE
  /\ UNCHANGED <<stack, coreStatus, destroyed, mQuit, mConnected, events, sNodes>>

\* close() without m_workerThread->quit(): only finished() stops the thread.
BeginCloseNoQuit(call) ==
  /\ Dispatching
  /\ call = "destroy" => stack = << >>
  /\ mQuit' = TRUE
  /\ opened' = FALSE
  /\ stack' = Push(call)
  /\ UNCHANGED <<status, coreStatus, destroyed, sPc, exited, mConnected,
                 events, coreVars, sNodes, opens, reopened>>

\* close(), by itself or from the destructor: m_quit, QThread::quit(), then wait().
BeginClose(call) ==
  /\ Dispatching
  /\ call = "destroy" => stack = << >>
  /\ mQuit' = TRUE
  /\ exited' = TRUE
  /\ opened' = FALSE
  /\ stack' = Push(call)
  /\ UNCHANGED <<status, coreStatus, destroyed, sPc, mConnected,
                 events, coreVars, sNodes, opens, reopened>>

\* close() as if it did not wait for the thread.
JoinSkipped == TRUE

\* QThread::wait() returns when the thread has ended.
Joined == sPc = "off"

EndClose ==
  /\ Within("close") \/ Within("destroy")
  /\ Joined
  /\ stack' = Pop
  /\ destroyed' = (Top = "destroy")
  /\ events' = IF Top = "destroy" THEN << >> ELSE events
  /\ UNCHANGED <<status, coreStatus, threadVars, coreVars, sNodes, opens, opened, reopened>>

\* slotConnected() up to the event loop of waitForReady(); `search` is
\* m_searchOnConnect, which the application may set at any time.
SlotConnected(search) ==
  /\ Dispatching
  /\ events # << >> /\ Head(events) = "sConnected"
  /\ events' = Tail(events)
  /\ status' = "sConnected"
  /\ \/ /\ search
        /\ coreStatus' = "sWaitForReady"
        /\ stack' = Push("wait")
     \/ /\ ~ search
        /\ UNCHANGED <<coreStatus, stack>>
  /\ UNCHANGED <<destroyed, threadVars, coreVars, sNodes, opens, opened, reopened>>

SlotDisconnected ==
  /\ Dispatching
  /\ events # << >> /\ Head(events) = "sDisconnected"
  /\ events' = Tail(events)
  /\ status' = "sDisconnected"
  /\ UNCHANGED <<stack, coreStatus, destroyed, threadVars, coreVars, sNodes, opens, opened, reopened>>

\* waitForReady() as if it returned whether the time was enough.
WaitResultByTimer(expired) == ~ expired

WaitResult(expired) == ready

(***************************************************************************)
(* waitForReady() returns m_ready to slotConnected(), which calls search() *)
(* if it is set.  Whether the time had expired is asked again after the    *)
(* loop: a READY and the expiry may both have happened by then.            *)
(***************************************************************************)
EndWait(expired) ==
  /\ Within("wait")
  /\ ready \/ expired
  /\ \/ /\ WaitResult(expired)
        /\ coreStatus' = "sSearching"
        /\ stack' = Append(Pop, "search")
     \/ /\ ~ WaitResult(expired)
        /\ stack' = Pop
        /\ UNCHANGED coreStatus
  /\ UNCHANGED <<status, destroyed, threadVars, coreVars, events, sNodes, opens, opened, reopened>>

\* The sendPacket() of search() returns, with an ACK or without.
EndSearch ==
  /\ Within("search")
  /\ stack' = Pop
  /\ UNCHANGED <<status, coreStatus, destroyed, threadVars, coreVars,
                 events, sNodes, opens, opened, reopened>>

----------------------------------------------------------------------------
(***************************************************************************)
(* The worker's thread: run(), then QThread's own event loop.              *)
(***************************************************************************)
\* run() as if it forgot to emit connected().
QuietConnect(evts) == evts

Connect(evts) == Append(evts, "sConnected")

BeginLoop ==
  /\ sPc' = "loop"
  /\ mConnected' = TRUE
  /\ events' = Connect(events)
  /\ UNCHANGED <<appVars, coreVars, mQuit, exited, sNodes>>

OpenPort == sPc = "run" /\ BeginLoop

\* A port whose name contains "USB" is open for two event loops before run() says so.
OpenUsbPort ==
  /\ sPc = "run"
  /\ sPc' = "reset"
  /\ UNCHANGED <<appVars, coreVars, mQuit, exited, mConnected, events, sNodes>>

\* Their timers have run out, or QThread::quit() has ended them.
EndReset == sPc = "reset" /\ BeginLoop

\* run() returns early: no finished(), so nobody has called QThread::quit().
OpenPortFails ==
  /\ sPc = "run"
  /\ sPc' = "exec"
  /\ UNCHANGED <<appVars, coreVars, mQuit, exited, mConnected, events, sNodes>>

\* The event loop finds a packet: processPacket() looks its node up.  m_quit keeps
\* run() from processEvents(), not from the event loops of the reset.
BeginPacket ==
  /\ sPc = "reset" \/ (sPc = "loop" /\ ~ mQuit)
  /\ sPc' = "packet"
  /\ sNodes' = nodes
  /\ UNCHANGED <<appVars, coreVars, mQuit, exited, mConnected, events>>

\* The event loop that a packet was found in.
Receiving == IF mConnected THEN "loop" ELSE "reset"

\* The rest of processPacket(); another packet may follow in the same round.
EndPacket(isReady, more) ==
  /\ sPc = "packet"
  /\ ready' = (ready \/ isReady)
  /\ gotReady' = (gotReady \/ isReady)
  /\ sPc' = IF more THEN "packet" ELSE Receiving
  /\ sNodes' = IF more THEN nodes ELSE sNodes
  /\ UNCHANGED <<appVars, mQuit, exited, mConnected, events, nodes>>

\* run() as if it forgot to emit disconnected().
QuietDisconnect(evts) == evts

Disconnect(evts) == Append(evts, "sDisconnected")

\* The end of run(); finished() calls QThread::quit().
LeaveLoop ==
  /\ sPc = "loop"
  /\ mQuit
  /\ sPc' = "exec"
  /\ mConnected' = FALSE
  /\ events' = Disconnect(events)
  /\ exited' = TRUE
  /\ UNCHANGED <<appVars, coreVars, mQuit, sNodes>>

\* QThread::exec() returns once quit() was called, and the thread ends.
EndThread ==
  /\ sPc = "exec"
  /\ exited
  /\ sPc' = "off"
  /\ UNCHANGED <<appVars, coreVars, mQuit, exited, mConnected, events, sNodes>>

----------------------------------------------------------------------------
AppStep ==
  \/ EndClose
  \/ \E search \in BOOLEAN : SlotConnected(search)
  \/ SlotDisconnected
  \/ \E expired \in BOOLEAN : EndWait(expired)
  \/ EndSearch

ThreadStep ==
  \/ OpenPort
  \/ OpenUsbPort
  \/ EndReset
  \/ OpenPortFails
  \/ \E isReady \in BOOLEAN : EndPacket(isReady, FALSE)
  \/ LeaveLoop
  \/ EndThread

Next ==
  \/ Open
  \/ BeginClose("close")
  \/ BeginClose("destroy")
  \/ AppStep
  \/ ThreadStep
  \/ BeginPacket
  \/ \E isReady \in BOOLEAN : EndPacket(isReady, TRUE)

Spec == Init /\ [][Next]_vars

(***************************************************************************)
(* The application thread returns to its event loop, which handles queued  *)
(* slots in the order they were posted however often the application       *)
(* closes the connection in between; every wait in it has a timer; run()   *)
(* spins, and processEvents() comes to an end; the timers of the reset run *)
(* out however much is received meanwhile.  Nothing is assumed of the      *)
(* device or of when the application opens or closes.                      *)
(***************************************************************************)
FairSpec ==
  /\ Spec
  /\ WF_vars(EndClose)
  /\ SF_vars((\E search \in BOOLEAN : SlotConnected(search)) \/ SlotDisconnected)
  /\ SF_vars(\E expired \in BOOLEAN : EndWait(expired))
  /\ SF_vars(EndSearch)
  /\ WF_vars(ThreadStep)
  /\ SF_vars(EndReset)

----------------------------------------------------------------------------
(***************************************************************************)
(* Properties.                                                             *)
(***************************************************************************)

\* The kinds of values the variables hold; the thread has been told to quit
\* whenever finished() was emitted, and m_connected is set only within run().
TypeOK ==
  /\ stack \in Seq({"wait", "search", "close", "destroy"})
  /\ \A i \in 1 .. (Len(stack) - 1) : stack[i] \in {"wait", "search"}
  /\ status \in Statuses
  /\ coreStatus \in CoreStatuses
  /\ {destroyed, mQuit, exited, mConnected, ready, gotReady, opened, reopened} \subseteq BOOLEAN
  /\ sPc \in {"off", "run", "reset", "loop", "packet", "exec"}
  /\ events \in Seq({"sConnected", "sDisconnected"})
  /\ {nodes, sNodes, opens} \subseteq 0 .. MaxOpens
  /\ mConnected => sPc \in {"loop", "packet"}
  /\ sPc = "loop" => mConnected

\* The status signal once the queued slots are handled.
SettledStatus == IF events = << >> THEN status ELSE events[Len(events)]

\* The application ends up with the right status: through queued slots, nested
\* waits, closing and opening anew, what it was or will be told last is sConnected
\* exactly when m_connected is set.  open() on a connection that was not closed
\* announces sConnecting and does nothing else, so it is excepted.
StatusInStep ==
  ~ destroyed /\ ~ reopened => (SettledStatus = "sConnected" <=> mConnected)

\* processPacket() on the worker's thread never works on nodes that reset() has
\* deleted, nor on a core that the destructor has: close() has joined the thread,
\* also one that was receiving during the reset of its port.
\* An open() without close() before it deletes the nodes under a packet.
NodesAlive ==
  sPc = "packet" /\ ~ reopened => sNodes = nodes /\ ~ destroyed

Closing == Within("close") \/ Within("destroy")

\* close() and the destructor return: the thread they wait for ends, also when
\* the port could not be opened or a wait was interrupted.
CloseReturns == Closing ~> ~ Closing

\* A READY that arrives before or during the wait for it (a device that is reset may
\* send it before run() has emitted connected()) is acted on: search()
\* follows, unless the connection is opened anew.
ReadyActedOn ==
  (Within("wait") /\ gotReady) ~> (coreStatus = "sSearching" \/ ~ gotReady)

Opening == status = "sConnecting" /\ opened /\ ~ reopened

\* run() has returned early and the thread is left in exec().
PortNotOpened == sPc = "exec" /\ ~ exited

\* Unless the port cannot be opened or the application closes it first, an opened
\* connection is reported as connected: a reopened one too, although the m_quit
\* of the earlier close() still stands and ends run() at once.
PortOpenSettles == Opening ~> (~ Opening \/ PortNotOpened)

\* Whoever opens a connection is told what became of it, whatever happens.
OpenSettles == Opening ~> ~ Opening

=============================================================================
