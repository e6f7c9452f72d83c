------------------------- MODULE QkConnectionManager -------------------------
(***************************************************************************)
(* QkConnectionManager: the listed connections, the ports they take from   *)
(* each other, and what handlers may do in the middle of its functions.    *)
(*                                                                         *)
(* connectionAdded, connectionRemoved and the status that open() emits are *)
(* direct calls of the application's handlers, which may call the manager  *)
(* and the connections again: `stack` holds the calls the application      *)
(* thread is in, the innermost last, and for each how far it has come.     *)
(* removeConnection() deletes nothing: whoever has the pointer that        *)
(* addConnection() returned may go on calling open() and close() of it.    *)
(*                                                                         *)
(* A connection is its number, in the order of creation.  A descriptor of  *)
(* unknown type, and the error signal when a connection exists already,    *)
(* change nothing.  What READY, search and the status signals add to the   *)
(* life of one connection is in QkConnection.                              *)
(***************************************************************************)
EXTENDS Integers, Sequences

CONSTANTS
  Ports,      \* names of serial ports
  UsbPorts,   \* those that contain "USB"
  BaudRates,
  MaxConns,   \* bound: connections that are created
  MaxNest     \* bound: calls within one another

ASSUME ManagerAssumption ==
  /\ UsbPorts \subseteq Ports
  /\ MaxConns \in Nat
  /\ MaxNest \in Nat \ {0}

VARIABLES
  desc,      \* the descriptors of the connections
  listed,    \* m_connections, which holds them in the order of creation
  stack,     \* the calls of the application thread, as [in, conn]
  thread,    \* where the worker's thread of each connection is
  mQuit,     \* QkConnWorker::m_quit
  exited,    \* QThread::quit() was called since start()
  deleted,   \* the connections that were deleted
  revived    \* history: open() was called after close()

connVars == <<thread, mQuit, exited, revived>>
vars == <<desc, listed, stack, deleted, connVars>>

Descriptors == [portName : Ports, baudRate : BaudRates]
Ids == 1 .. MaxConns
Created == DOMAIN desc

Init ==
  /\ desc = << >>
  /\ listed = {}
  /\ stack = << >>
  /\ thread = [c \in Ids |-> "off"]
  /\ mQuit = [c \in Ids |-> FALSE]
  /\ exited = [c \in Ids |-> FALSE]
  /\ deleted = {}
  /\ revived = {}

----------------------------------------------------------------------------
(***************************************************************************)
(* The application thread.                                                 *)
(***************************************************************************)
\* Where a handler of the application is running, and where the thread blocks.
Emitting == {"added", "connecting", "removed"}
Blocking == {"closing", "removing", "deleting"}

Frame == [in : Emitting \cup Blocking, conn : Ids]

Top == stack[Len(stack)]
Within(call) == stack # << >> /\ Top.in = call
Call(in, c) == [in |-> in, conn |-> c]
Push(in, c) == Append(stack, Call(in, c))
Pop == SubSeq(stack, 1, Len(stack) - 1)
GoesOn(in) == Append(Pop, Call(in, Top.conn))

\* A connection may be called even while the thread waits for another to close.
MayCallAlways == deleted = {} /\ Len(stack) < MaxNest

\* The application is in its event loop or in a handler.
MayCall ==
  /\ deleted = {}
  /\ stack # << >> => Top.in \in Emitting
  /\ Len(stack) < MaxNest

\* sameAs() as if it compared whole descriptors.
SameDescriptor(c, d) == desc[c] = d

SameAs(c, d) == desc[c].portName = d.portName

Found(d) == {c \in listed : SameAs(c, d)}

\* The connection is listed before the handlers of connectionAdded run.
AddConnection(d) ==
  /\ MayCall
  /\ Found(d) = {}
  /\ Len(desc) < MaxConns
  /\ desc' = Append(desc, d)
  /\ listed' = listed \cup {Len(desc')}
  /\ stack' = Push("added", Len(desc'))
  /\ UNCHANGED <<deleted, connVars>>

\* addConnection() goes on to open() the connection, whatever the handlers did.
OpenAdded ==
  /\ Within("added")
  /\ stack' = GoesOn("connecting")
  /\ UNCHANGED <<desc, listed, deleted, connVars>>

\* open() of the application emits sConnecting first.
Open(c) ==
  /\ MayCall
  /\ c \in Created
  /\ stack' = Push("connecting", c)
  /\ UNCHANGED <<desc, listed, deleted, connVars>>

\* open() as if it cleared m_quit.
QuitCleared(quit) == FALSE

\* m_quit after open().
QuitKept(quit) == quit

\* The rest of open().  QThread::start() does nothing to a running thread.
Start ==
  /\ Within("connecting")
  /\ stack' = Pop
  /\ LET c == Top.conn
     IN  /\ mQuit' = [mQuit EXCEPT ![c] = QuitKept(@)]
         /\ \/ /\ thread[c] = "off"
               /\ thread' = [thread EXCEPT ![c] = "run"]
               /\ exited' = [exited EXCEPT ![c] = FALSE]
               /\ revived' = IF mQuit[c] THEN revived \cup {c} ELSE revived
            \/ /\ thread[c] # "off"
               /\ UNCHANGED <<thread, exited, revived>>
  /\ UNCHANGED <<desc, listed, deleted>>

\* close() up to QThread::wait(): m_quit and QThread::quit().
BeginClosing(in, c) ==
  /\ stack' = Push(in, c)
  /\ mQuit' = [mQuit EXCEPT ![c] = TRUE]
  /\ exited' = [exited EXCEPT ![c] = TRUE]
  /\ UNCHANGED <<desc, listed, thread, deleted, revived>>

\* close() as if it did not wait for the thread.
JoinSkipped(c) == TRUE

\* QThread::wait() returns when the thread has ended, or was never started.
Joined(c) == thread[c] = "off"

Close(c) ==
  /\ MayCall
  /\ c \in Created
  /\ BeginClosing("closing", c)

EndClose ==
  /\ Within("closing")
  /\ Joined(Top.conn)
  /\ stack' = Pop
  /\ UNCHANGED <<desc, listed, deleted, connVars>>

\* removeConnection() looks the descriptor up and closes the connection ...
RemoveConnection(d) ==
  /\ MayCall
  /\ \E c \in Found(d) : BeginClosing("removing", c)

\* ... emits connectionRemoved while it is still listed ...
AnnounceRemoved ==
  /\ Within("removing")
  /\ Joined(Top.conn)
  /\ stack' = GoesOn("removed")
  /\ UNCHANGED <<desc, listed, deleted, connVars>>

\* The connections without those that are the same as c.
WithoutSame(c) == {d \in listed : ~ SameAs(d, desc[c])}

\* m_connections.removeOne(conn)
RemoveOne(c) == listed \ {c}

\* ... and takes it from the list.
EndRemove ==
  /\ Within("removed")
  /\ listed' = RemoveOne(Top.conn)
  /\ stack' = Pop
  /\ UNCHANGED <<desc, deleted, connVars>>

\* What ~QkConnectionManager() deletes next: first the listed connections in
\* their order, then, as children of the manager, those that were removed.
Doomed ==
  LET rest == IF listed \subseteq deleted THEN Created \ deleted ELSE listed \ deleted
  IN  {c \in rest : \A d \in rest : c <= d}

\* ~QkConnection() calls close() before anything else.
BeginDelete(c) ==
  /\ stack = << >>
  /\ c \in Doomed
  /\ BeginClosing("deleting", c)

EndDelete ==
  /\ Within("deleting")
  /\ Joined(Top.conn)
  /\ deleted' = deleted \cup {Top.conn}
  /\ stack' = Pop
  /\ UNCHANGED <<desc, listed, connVars>>

----------------------------------------------------------------------------
(***************************************************************************)
(* The workers' threads.                                                   *)
(***************************************************************************)
HasPort(c) == thread[c] \in {"reset", "early", "loop", "serve"}

Goes(c, from, to) ==
  /\ thread[c] = from
  /\ thread' = [thread EXCEPT ![c] = to]
  /\ UNCHANGED <<desc, listed, stack, deleted, mQuit, revived>>

\* What run() does when the port is open: the device at a USB port is reset first.
OpenedTo(c) == IF desc[c].portName \in UsbPorts THEN "reset" ELSE "loop"

\* A port that is open cannot be opened again.
OpenPort(c) ==
  /\ Goes(c, "run", OpenedTo(c))
  /\ \A d \in Created : HasPort(d) => desc[d].portName # desc[c].portName
  /\ UNCHANGED exited

\* For that reason, or for another.
OpenPortFails(c) == Goes(c, "run", "exec") /\ UNCHANGED exited

\* The two event loops of the reset: readyRead is connected already and m_quit is
\* not looked at yet, so frames that arrive are handled whatever it is.
HearEarly(c) == Goes(c, "reset", "early") /\ UNCHANGED exited

EndHearEarly(c) == Goes(c, "early", "reset") /\ UNCHANGED exited

\* The timers have run out, or QThread::quit() has ended the event loops.
EndReset(c) == Goes(c, "reset", "loop") /\ UNCHANGED exited

\* A round of the loop in run(), which handles frames in both directions.
Serve(c) == ~ mQuit[c] /\ Goes(c, "loop", "serve") /\ UNCHANGED exited

EndServe(c) == Goes(c, "serve", "loop") /\ UNCHANGED exited

\* The end of run(); finished() calls QThread::quit().
LeaveLoop(c) ==
  /\ mQuit[c]
  /\ Goes(c, "loop", "exec")
  /\ exited' = [exited EXCEPT ![c] = TRUE]

\* QThread::exec() returns once quit() was called.
EndThread(c) == exited[c] /\ Goes(c, "exec", "off") /\ UNCHANGED exited

----------------------------------------------------------------------------
AppStep ==
  \/ \E d \in Descriptors : AddConnection(d) \/ RemoveConnection(d)
  \/ \E c \in Ids : Open(c) \/ Close(c) \/ BeginDelete(c)
  \/ OpenAdded
  \/ Start
  \/ EndClose
  \/ AnnounceRemoved
  \/ EndRemove
  \/ EndDelete

ThreadStep(c) ==
  \/ OpenPort(c)
  \/ OpenPortFails(c)
  \/ HearEarly(c)
  \/ EndHearEarly(c)
  \/ EndReset(c)
  \/ Serve(c)
  \/ EndServe(c)
  \/ LeaveLoop(c)
  \/ EndThread(c)

Next == AppStep \/ \E c \in Ids : ThreadStep(c)

Spec == Init /\ [][Next]_vars

----------------------------------------------------------------------------
(***************************************************************************)
(* Properties.                                                             *)
(***************************************************************************)
\* The kinds of values the variables hold; only the innermost call blocks, and
\* only connections that were created are listed, called or run.
TypeOK ==
  /\ desc \in Seq(Descriptors) /\ Len(desc) <= MaxConns
  /\ listed \subseteq Created
  /\ stack \in Seq(Frame)
  /\ \A i \in DOMAIN stack : stack[i].conn \in Created
  /\ \A i \in 1 .. Len(stack) - 1 : stack[i].in \in Emitting
  /\ thread \in [Ids -> {"off", "run", "reset", "early", "loop", "serve", "exec"}]
  /\ \A c \in Ids \ Created : thread[c] = "off"
  /\ mQuit \in [Ids -> BOOLEAN]
  /\ exited \in [Ids -> BOOLEAN]
  /\ deleted \subseteq Created
  /\ revived \subseteq Created

\* There is never more than one listed connection for a port, at whatever baud
\* rates, and whatever the handlers of the manager's signals do.
OnePerPort ==
  \A c, d \in listed : c # d => desc[c].portName # desc[d].portName

\* A connection that was removed handles no more frames, except that one which is
\* opened again (by the application, or by addConnection() after a handler of
\* connectionAdded removed it) hears its device during the reset of a USB port: the
\* m_quit that close() left keeps it out of the loop that handles and writes frames.
RemovedSilent ==
  \A c \in Created \ listed :
    /\ thread[c] # "serve"
    /\ thread[c] = "early" => c \in revived

\* When a listed connection is about to open its port, no other connection of the
\* manager has it, unless that one was opened after it had been closed: who is
\* removed has given its port back before a successor can be added.
PortFree ==
  \A c \in listed : \A d \in Created \ {c} :
    thread[c] = "run" /\ HasPort(d) /\ desc[d].portName = desc[c].portName => d \in revived

\* No thread works on a connection that was deleted, be it listed or removed, also
\* while the destructor waits for the next one.
DeletedEnded == \A c \in deleted : thread[c] = "off"
=============================================================================
