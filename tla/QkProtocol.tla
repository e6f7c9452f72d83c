----------------------------- MODULE QkProtocol -----------------------------
(***************************************************************************)
(* The command path of one connection: QkProtocol::sendPacket, the output  *)
(* queue of QkProtocolWorker, the frame queue of the serial worker, and    *)
(* the way back of the device's ACKs into the two m_acks lists.            *)
(*                                                                         *)
(* Four actors run concurrently:                                           *)
(*   - the application thread, which owns QkProtocol: sendPacket() and the *)
(*     nested event loop of QkProtocol::waitForACK();                      *)
(*   - the protocol thread: QkProtocolWorker::run() and its own            *)
(*     waitForACK();                                                       *)
(*   - the serial thread: QkConnSerialWorker::run() and slotReadyRead().   *)
(*     Its frameReady signal is a DirectConnection to parseFrame(), whose  *)
(*     packetReady signal is a DirectConnection to                         *)
(*     QkProtocol::processPacket(), so both prepend to m_acks on it;       *)
(*   - the device, which is not part of the repository.                    *)
(* Frames go onto the line only while the serial thread is in the loop of  *)
(* run(): after its port was opened and until the first close().           *)
(* Timers are not measured: a timeout may fire at any moment of a wait.    *)
(***************************************************************************)
EXTENDS Integers, Sequences, FiniteSets

CONSTANTS
  IdSpace,   \* how many packet ids there are (256 in QkPacket::requestId)
  Results,   \* the results a device may put into an ACK
  Usb,       \* whether the name of the port contains "USB"
  MaxSends,  \* bound: sendPacket() calls in a behaviour
  MaxNest    \* bound: sendPacket() calls waiting at once, one inside the other

ACK_NACK == "ACK_NACK"
ACK_OK == "ACK_OK"
ACK_ERROR == "ACK_ERROR"

ASSUME IdSpaceAssumption == IdSpace \in Nat \ {0}
ASSUME ResultsAssumption == Results \subseteq {ACK_NACK, ACK_OK, ACK_ERROR}
ASSUME UsbAssumption == Usb \in BOOLEAN
ASSUME BoundsAssumption == MaxSends \in Nat /\ MaxNest \in Nat

VARIABLES
  nextId,     \* QkPacket::m_nextId
  issued,     \* the packets built so far; command n is issued[n]
  calls,      \* the sendPacket() calls in waitForACK(), the innermost last
  outQ,       \* QkProtocolWorker::m_outputPacketsQueue
  quit,       \* QkProtocolWorker::m_quit
  wPc,        \* where QkProtocolWorker::run() is
  wCmd,       \* the packet run() has dequeued and waits for
  wAck,       \* the local variable ack of QkProtocolWorker::waitForACK()
  frames,     \* QkConnWorker::m_outputFramesQueue
  port,       \* what QkConnSerialWorker::run() has made of the port: "closed",
              \* "reset" (open, in the event loops of the reset), "open" (in the loop)
  sQuit,      \* QkConnWorker::m_quit, which nothing clears
  sPc,        \* where the serial thread is in parseFrame()
  sAck,       \* the ACK that parseFrame() is handing on
  wAcks,      \* QkProtocolWorker::m_acks
  pAcks,      \* QkProtocol::m_acks
  dev,        \* commands the device has got and not answered
  rx,         \* ACK frames on the line towards the host
  \* History, read by no action of the code:
  sent,       \* the commands in the order they went onto the line
  answered,   \* <<command, result>>: the answers of the device
  returned,   \* what each finished sendPacket() returned
  expired,    \* commands for which the protocol thread gave up waiting
  kept        \* commands whose ACK stayed in pAcks after its removal was lost

appVars == <<nextId, issued, calls, returned>>
workerVars == <<wPc, wCmd, wAck, expired>>
portVars == <<port, sQuit>>
serialVars == <<portVars, sPc, sAck, sent>>
deviceVars == <<dev, rx, answered>>
vars == <<appVars, workerVars, serialVars, deviceVars,
          outQ, quit, frames, wAcks, pAcks, kept>>

----------------------------------------------------------------------------
(***************************************************************************)
(* Packets and ACKs.  A packet keeps the fields that steer the protocol;   *)
(* an ACK also names, for the properties, the command it answers.          *)
(***************************************************************************)
Ids == 0 .. (IdSpace - 1)
Commands == 1 .. Len(issued)
Packet == [id : Ids, wait : BOOLEAN]
Ack == [id : Ids, result : {ACK_NACK, ACK_OK, ACK_ERROR}, cmd : Nat]

\* A default-constructed QkAck: the result is ACK_NACK, the id is not set.
NoAck == [id |-> -1, result |-> ACK_NACK, cmd |-> 0]

\* requestId() as if it forgot to wrap.
RequestIdNoWrap(i) == i + 1

RequestId(i) == (i + 1) % IdSpace

\* An enqueue that lets a packet overtake the ones already queued.
EnqueueInFront(q, n) == <<n>> \o q

Enqueue(q, n) == Append(q, n)

\* The search of waitForACK() without the comparison of ids.
FirstOfAnyId(id, acks) == {i \in DOMAIN acks : i = 1}

(***************************************************************************)
(* The foreach of waitForACK(): the position of the first ACK with an id.  *)
(***************************************************************************)
FirstFor(id, acks) ==
  {i \in DOMAIN acks : /\ acks[i].id = id
                       /\ \A j \in 1 .. (i - 1) : acks[j].id # id}

\* QkAck::operator==
SameAck(a, b) == a.id = b.id /\ a.result = b.result

FirstEqual(acks, a) ==
  {i \in DOMAIN acks : /\ SameAck(acks[i], a)
                       /\ \A j \in 1 .. (i - 1) : ~ SameAck(acks[j], a)}

\* waitForACK() without its m_acks.removeOne().
RemoveNone(acks, a) == acks

\* QList::removeOne
RemoveOne(acks, a) ==
  IF FirstEqual(acks, a) = {}
  THEN acks
  ELSE LET i == CHOOSE i \in FirstEqual(acks, a) : TRUE
       IN  SubSeq(acks, 1, i - 1) \o SubSeq(acks, i + 1, Len(acks))

(***************************************************************************)
(* What removeOne(ack) may be asked to remove: an ACK that was found, or,  *)
(* after a wait that found none, an ACK_NACK with whatever id the          *)
(* uninitialised member holds (IdSpace stands for "no packet's id").       *)
(***************************************************************************)
RemovalTargets(a) ==
  IF a = NoAck THEN {[NoAck EXCEPT !.id = g] : g \in 0 .. IdSpace} ELSE {a}

(***************************************************************************)
(* m_acks is not protected by a lock.  When the serial thread prepends     *)
(* while the waiting thread removes, either update may be lost.            *)
(***************************************************************************)
Prepended(acks, a, racing) ==
  {<<a>> \o acks} \cup (IF racing THEN {acks} ELSE {})

Removed(acks, a, racing) ==
  {RemoveOne(acks, a)} \cup (IF racing THEN {acks} ELSE {})

----------------------------------------------------------------------------
Init ==
  /\ nextId = 0
  /\ issued = << >>
  /\ calls = << >>
  /\ outQ = << >>
  /\ quit = FALSE
  /\ wPc = "idle"
  /\ wCmd = 0
  /\ wAck = NoAck
  /\ frames = << >>
  /\ port = "closed"
  /\ sQuit = FALSE
  /\ sPc = "idle"
  /\ sAck = NoAck
  /\ wAcks = << >>
  /\ pAcks = << >>
  /\ dev = {}
  /\ rx = << >>
  /\ sent = << >>
  /\ answered = {}
  /\ returned = {}
  /\ expired = {}
  /\ kept = {}

----------------------------------------------------------------------------
(***************************************************************************)
(* The application thread.                                                 *)
(***************************************************************************)
Top == calls[Len(calls)]
SetTop(c) == [calls EXCEPT ![Len(calls)] = c]
InCall(pc) == calls # << >> /\ Top.pc = pc

(***************************************************************************)
(* sendPacket(), from the application or from a handler that the event     *)
(* loop of an outer waitForACK() runs.  Without wait it returns at once.   *)
(***************************************************************************)
SendPacket(wait) ==
  LET n == Len(issued) + 1 IN
  /\ ~ quit
  /\ calls = << >> \/ InCall("exec")
  /\ Len(issued) < MaxSends /\ Len(calls) < MaxNest
  /\ nextId' = RequestId(nextId)
  /\ issued' = Append(issued, [id |-> nextId', wait |-> wait])
  /\ outQ' = Enqueue(outQ, n)
  /\ \/ /\ wait
        /\ calls' = Append(calls, [cmd |-> n, pc |-> "exec", ack |-> NoAck])
        /\ UNCHANGED returned
     \/ /\ ~ wait
        /\ returned' = returned \cup {[call |-> n, ack |-> NoAck]}
        /\ UNCHANGED calls
  /\ UNCHANGED <<workerVars, serialVars, deviceVars, quit, frames, wAcks, pAcks, kept>>

(***************************************************************************)
(* loop.exec() returns and the foreach finds an ACK with the packet's id:  *)
(* a result other than ACK_NACK ends the loop.                             *)
(***************************************************************************)
AppPoll ==
  /\ InCall("exec")
  /\ \E i \in FirstFor(issued[Top.cmd].id, pAcks) :
       calls' = SetTop([Top EXCEPT !.ack = pAcks[i],
                                   !.pc = IF pAcks[i].result = ACK_NACK
                                          THEN "exec" ELSE "remove"])
  /\ UNCHANGED <<nextId, issued, returned, workerVars, serialVars, deviceVars,
                 outQ, quit, frames, wAcks, pAcks, kept>>

\* The elapsed timer as if every ACK restarted it, whatever its id.
AppExpiresIfNoAck(id, acks) == acks = << >>

\* Finding an ACK with the id restarts the elapsed timer, so no timeout then.
AppExpires(id, acks) == FirstFor(id, acks) = {}

AppTimeout ==
  /\ InCall("exec")
  /\ AppExpires(issued[Top.cmd].id, pAcks)
  /\ calls' = SetTop([Top EXCEPT !.pc = "remove"])
  /\ UNCHANGED <<nextId, issued, returned, workerVars, serialVars, deviceVars,
                 outQ, quit, frames, wAcks, pAcks, kept>>

\* m_acks.removeOne(ack) and the return of waitForACK() and sendPacket().
AppReturn ==
  /\ InCall("remove")
  /\ \E t \in RemovalTargets(Top.ack) :
       pAcks' \in Removed(pAcks, t, sPc = "protocol")
  /\ kept' = IF Top.ack # NoAck /\ sPc = "protocol" /\ pAcks' = pAcks
             THEN kept \cup {Top.ack.cmd} ELSE kept
  /\ returned' = returned \cup {[call |-> Top.cmd, ack |-> Top.ack]}
  /\ calls' = SubSeq(calls, 1, Len(calls) - 1)
  /\ UNCHANGED <<nextId, issued, workerVars, serialVars, deviceVars,
                 outQ, quit, frames, wAcks>>

\* The serial thread is told to quit and joined; what it has not read is lost.
JoinSerial ==
  /\ sPc = "idle"
  /\ sQuit' = TRUE
  /\ port' = "closed"
  /\ rx' = << >>

(***************************************************************************)
(* QkConnection::close(), also from a handler that the event loop of a     *)
(* waitForACK() runs.  The frames not yet sent stay queued.                *)
(***************************************************************************)
Close ==
  /\ ~ quit
  /\ calls = << >> \/ InCall("exec")
  /\ JoinSerial
  /\ UNCHANGED <<appVars, workerVars, sPc, sAck, sent, dev, answered,
                 outQ, quit, frames, wAcks, pAcks, kept>>

(***************************************************************************)
(* ~QkConnection(): close() has joined the serial thread, then             *)
(* ~QkProtocol() asks the protocol thread to quit and waits for it.        *)
(***************************************************************************)
Destroy ==
  /\ ~ quit
  /\ calls = << >>
  /\ JoinSerial
  /\ quit' = TRUE
  /\ sPc' = "stopped"
  /\ UNCHANGED <<appVars, workerVars, sAck, sent, dev, answered,
                 outQ, frames, wAcks, pAcks, kept>>

----------------------------------------------------------------------------
(***************************************************************************)
(* The protocol thread.                                                    *)
(***************************************************************************)
\* run() without the call of waitForACK().
NeverWaits(wait) == "idle"

AfterSend(wait) == IF wait THEN "waiting" ELSE "idle"

\* One round of run(): dequeue a packet and hand its frame to the serial worker.
WorkerSend ==
  /\ wPc = "idle"
  /\ ~ quit
  /\ outQ # << >>
  /\ outQ' = Tail(outQ)
  /\ frames' = Enqueue(frames, Head(outQ))
  /\ wPc' = AfterSend(issued[Head(outQ)].wait)
  /\ wCmd' = Head(outQ)
  /\ wAck' = NoAck
  /\ UNCHANGED <<appVars, serialVars, deviceVars, quit, wAcks, pAcks, expired, kept>>

\* A round of QkProtocolWorker::waitForACK() whose foreach finds an ACK.
WorkerPoll ==
  /\ wPc = "waiting"
  /\ \E i \in FirstFor(issued[wCmd].id, wAcks) :
       /\ wAck' = wAcks[i]
       /\ wPc' = IF wAcks[i].result = ACK_NACK THEN "waiting" ELSE "remove"
  /\ UNCHANGED <<appVars, serialVars, deviceVars, wCmd, expired,
                 outQ, quit, frames, wAcks, pAcks, kept>>

\* The worker's timer as if every round of the loop started it anew.
WorkerNeverExpires(id, acks) == FALSE

\* The worker's timer as if an ACK found in the list restarted it.
WorkerExpiresIfNoAck(id, acks) == acks = << >>

(***************************************************************************)
(* Unlike the application's, this timer is not restarted: an ACK_NACK does *)
(* not keep the wait from expiring.                                        *)
(***************************************************************************)
WorkerExpires(id, acks) ==
  \A i \in FirstFor(id, acks) : acks[i].result = ACK_NACK

WorkerTimeout ==
  LET hits == FirstFor(issued[wCmd].id, wAcks) IN
  /\ wPc = "waiting"
  /\ WorkerExpires(issued[wCmd].id, wAcks)
  /\ wAck' \in (IF hits = {} THEN {wAck} ELSE {wAcks[i] : i \in hits})
  /\ wPc' = "remove"
  /\ expired' = expired \cup {wCmd}
  /\ UNCHANGED <<appVars, serialVars, deviceVars, wCmd,
                 outQ, quit, frames, wAcks, pAcks, kept>>

WorkerReturn ==
  /\ wPc = "remove"
  /\ \E t \in RemovalTargets(wAck) :
       wAcks' \in Removed(wAcks, t, sPc = "worker")
  /\ wPc' = "idle"
  /\ UNCHANGED <<appVars, serialVars, deviceVars, wCmd, wAck, expired,
                 outQ, quit, frames, pAcks, kept>>

\* while(!m_quit) ends; packets still in outQ are never sent.
WorkerFinish ==
  /\ wPc = "idle"
  /\ quit
  /\ wPc' = "finished"
  /\ UNCHANGED <<appVars, serialVars, deviceVars, wCmd, wAck, expired,
                 outQ, quit, frames, wAcks, pAcks, kept>>

----------------------------------------------------------------------------
(***************************************************************************)
(* The serial thread.                                                      *)
(***************************************************************************)
\* The loop of run() ends at once when an earlier close() has set m_quit.
Loop == IF sQuit THEN "closed" ELSE "open"

(***************************************************************************)
(* The application has called open(), and run() opens the port.  A port    *)
(* that cannot be opened is one for which this step is never taken.        *)
(***************************************************************************)
OpenPort ==
  /\ ~ quit
  /\ port = "closed"
  /\ port' = IF Usb THEN "reset" ELSE Loop
  /\ UNCHANGED <<appVars, workerVars, deviceVars, sQuit, sPc, sAck, sent,
                 outQ, quit, frames, wAcks, pAcks, kept>>

\* The two timers of the reset have run out; m_sp->clear() drops what is unread.
EndReset ==
  /\ port = "reset"
  /\ sPc = "idle"
  /\ port' = Loop
  /\ rx' = << >>
  /\ UNCHANGED <<appVars, workerVars, sQuit, sPc, sAck, sent, dev, answered,
                 outQ, quit, frames, wAcks, pAcks, kept>>

\* A round of the loop of run(): it writes the oldest frame of the queue.
SerialTransmit ==
  /\ port = "open"
  /\ sPc = "idle"
  /\ frames # << >>
  /\ frames' = Tail(frames)
  /\ sent' = Append(sent, Head(frames))
  /\ dev' = dev \cup {Head(frames)}
  /\ UNCHANGED <<appVars, workerVars, portVars, sPc, sAck, rx, answered,
                 outQ, quit, wAcks, pAcks, kept>>

\* slotReadyRead() completes an ACK frame and emits frameReady; the event loops of
\* the reset call it as well as that of run().
SerialReceive ==
  /\ port # "closed"
  /\ sPc = "idle"
  /\ rx # << >>
  /\ rx' = Tail(rx)
  /\ sAck' = Head(rx)
  /\ sPc' = "worker"
  /\ UNCHANGED <<appVars, workerVars, portVars, sent, dev, answered,
                 outQ, quit, frames, wAcks, pAcks, kept>>

\* QkProtocolWorker::processPacket()
SerialWorkerAck ==
  /\ sPc = "worker"
  /\ wAcks' \in Prepended(wAcks, sAck, wPc = "remove")
  /\ sPc' = "protocol"
  /\ UNCHANGED <<appVars, workerVars, deviceVars, portVars, sAck, sent,
                 outQ, quit, frames, pAcks, kept>>

(***************************************************************************)
(* The ACK case of QkProtocol::processPacket().  It returns before it when *)
(* the flags name a source that is neither a comm nor a device: then only  *)
(* the worker's list has got the ACK.                                      *)
(***************************************************************************)
SerialProtocolAck ==
  /\ sPc = "protocol"
  /\ \/ pAcks' \in Prepended(pAcks, sAck, InCall("remove"))
     \/ UNCHANGED pAcks
  /\ sPc' = "idle"
  /\ UNCHANGED <<appVars, workerVars, deviceVars, portVars, sAck, sent,
                 outQ, quit, frames, wAcks, kept>>

----------------------------------------------------------------------------
(***************************************************************************)
(* The device answers a command at most once and echoes its id.  A command *)
(* or an ACK that the line loses is one that is never answered: nothing    *)
(* obliges the device to take this step.  What it answers to a closed port *)
(* is lost.                                                                *)
(***************************************************************************)
DeviceAnswer(n, r) ==
  /\ n \in dev
  /\ dev' = dev \ {n}
  /\ rx' = IF port = "closed" THEN rx
           ELSE Append(rx, [id |-> issued[n].id, result |-> r, cmd |-> n])
  /\ answered' = answered \cup {<<n, r>>}
  /\ UNCHANGED <<appVars, workerVars, serialVars,
                 outQ, quit, frames, wAcks, pAcks, kept>>

----------------------------------------------------------------------------
AppStep == AppPoll \/ AppTimeout \/ AppReturn
WorkerStep == WorkerSend \/ WorkerPoll \/ WorkerTimeout \/ WorkerReturn \/ WorkerFinish
SerialStep ==
  EndReset \/ SerialTransmit \/ SerialReceive \/ SerialWorkerAck \/ SerialProtocolAck

Next ==
  \/ \E wait \in BOOLEAN : SendPacket(wait)
  \/ AppStep
  \/ Close
  \/ Destroy
  \/ WorkerStep
  \/ OpenPort
  \/ SerialStep
  \/ \E n \in dev, r \in Results : DeviceAnswer(n, r)

Spec == Init /\ [][Next]_vars

(***************************************************************************)
(* Every event loop has a repeating timer (50 ms in waitForACK(), 20 ms in *)
(* the worker's), the timers of the reset run out, and run() of both       *)
(* workers spins, that of the serial worker only while its port is open    *)
(* and close() was not called.  Nothing is assumed of the device, of when  *)
(* the application sends, opens or closes, or of the port being opened.    *)
(***************************************************************************)
FairSpec ==
  /\ Spec
  /\ WF_vars(AppStep)
  /\ WF_vars(WorkerStep)
  /\ WF_vars(SerialStep)

----------------------------------------------------------------------------
(***************************************************************************)
(* Properties.                                                             *)
(***************************************************************************)
AnyAck == Ack \cup {NoAck}

PendingCall == [cmd : Commands, pc : {"exec", "remove"}, ack : AnyAck]
FinishedCall == [call : Commands, ack : AnyAck]

\* The kinds of values the variables hold: ids are those requestId() produces,
\* and every queue, call and answer is about a command that was issued.
TypeOK ==
  /\ nextId \in Ids
  /\ issued \in Seq(Packet)
  /\ calls \in Seq(PendingCall)
  /\ outQ \in Seq(Commands)
  /\ quit \in BOOLEAN
  /\ wPc \in {"idle", "waiting", "remove", "finished"}
  /\ wCmd \in Commands \cup {0}
  /\ wAck \in AnyAck
  /\ frames \in Seq(Commands)
  /\ port \in {"closed", "reset", "open"}
  /\ sQuit \in BOOLEAN
  /\ port = "open" => ~ sQuit
  /\ sPc \in {"idle", "worker", "protocol", "stopped"}
  /\ sPc \in {"worker", "protocol"} => port # "closed"
  /\ sAck \in AnyAck
  /\ sPc \in {"worker", "protocol"} => sAck # NoAck
  /\ wAcks \in Seq(Ack)
  /\ pAcks \in Seq(Ack)
  /\ dev \subseteq Commands
  /\ rx \in Seq(Ack)
  /\ sent \in Seq(Commands)
  /\ answered \subseteq Commands \X Results
  /\ returned \subseteq FinishedCall
  /\ expired \subseteq Commands \cup {0}
  /\ kept \subseteq Nat

Transmitted == {sent[i] : i \in DOMAIN sent}

GenuineAck ==
  {a \in Ack : /\ a.cmd \in Commands
               /\ issued[a.cmd].id = a.id
               /\ <<a.cmd, a.result>> \in answered
               /\ a.cmd \in Transmitted}

Holds(n, a) == a = NoAck \/ (a \in GenuineAck /\ a.id = issued[n].id)

GoodCall == {c \in PendingCall : Holds(c.cmd, c.ack)}
GoodReturn == {x \in FinishedCall : Holds(x.call, x.ack)}

\* Wherever an ACK is between the device and the caller, it carries the id of the
\* command it answers and the result the device gave, and that command was on the
\* line; and a call only ever picks up an ACK with its own packet's id.
AckInv ==
  /\ dev \subseteq Transmitted
  /\ rx \in Seq(GenuineAck)
  /\ sAck = NoAck \/ sAck \in GenuineAck
  /\ wAcks \in Seq(GenuineAck)
  /\ pAcks \in Seq(GenuineAck)
  /\ calls \in Seq(GoodCall)
  /\ returned \subseteq GoodReturn

\* What sendPacket() returned to its caller, when that was not ACK_NACK.
Successes == {x \in returned : x.ack.result # ACK_NACK}

\* An OK or ERROR that sendPacket() returns is what the device answered to that
\* very command.  It rests on ids not being reused within one behaviour: the
\* ACKs of commands that timed out stay in m_acks for good.
NoFalseSuccess ==
  \A x \in Successes : <<x.call, x.ack.result>> \in answered

\* Whatever the reuse of ids: a returned OK or ERROR is a result the device
\* did give, to a command it got with the same id as the caller's packet.
SameIdAck ==
  \A x \in Successes :
    /\ <<x.ack.cmd, x.ack.result>> \in answered
    /\ \E i \in DOMAIN sent : sent[i] = x.ack.cmd
    /\ issued[x.ack.cmd].id = issued[x.call].id

\* Commands reach the line in the order sendPacket() was called, each once,
\* through both queues and all the interleavings of the three threads.
FifoLine ==
  sent \o frames \o outQ = [n \in Commands |-> n]

\* What the callers of sendPacket() see is what CommandService promises.
Service == INSTANCE CommandService
             WITH asked <- Len(issued),
                  executed <- Len(sent),
                  answers <- answered,
                  outcomes <- {<<x.call, x.ack.result>> : x \in returned}

\* The three threads, the two queues and the two lists of ACKs together implement
\* CommandService: commands executed in order and at most once, each call
\* returning once, and with nothing but its own command's answer or ACK_NACK.
IsCommandService == Service!Spec

\* The protocol thread lets no packet overtake a command that waits for its
\* ACK: every waiting command handed over earlier was answered or given up.
AckGated ==
  \A n \in Commands :
    /\ issued[n].wait
    /\ \A i \in DOMAIN outQ : outQ[i] # n
    => \/ n = wCmd
       \/ n \in expired
       \/ \E m \in Commands, r \in Results :
            <<m, r>> \in answered /\ issued[m].id = issued[n].id

\* A call that returned OK or ERROR has taken its ACK out of m_acks, so a later
\* command with the same id cannot be answered by it; the exception is a removal
\* that the unlocked prepend of the serial thread undid.
AckConsumed ==
  \A x \in Successes :
    x.ack.cmd \in kept \/ \A i \in DOMAIN pAcks : pAcks[i].cmd # x.ack.cmd

\* Every sendPacket() that waits returns: the event loop of waitForACK() finds
\* the ACK or its timer expires, however the calls are nested.
CallsReturn ==
  \A n \in 1 .. MaxSends :
    (n \in Commands) ~> (\E x \in returned : x.call = n)

\* Once the port was opened every packet is put on the line, although the ones
\* before it may never be answered, unless the connection is closed first: m_quit
\* ends the loop that sends, for good, and leaves the rest in the queues.
CommandsSent ==
  \A n \in 1 .. MaxSends :
    (n \in Commands /\ port # "closed")
      ~> (sQuit \/ \E i \in DOMAIN sent : sent[i] = n)

\* ~QkProtocol() returns: the protocol thread it waits for ends, also when the
\* connection is destroyed during the worker's wait for an ACK.
WorkerFinishes == quit ~> (wPc = "finished")
=============================================================================
