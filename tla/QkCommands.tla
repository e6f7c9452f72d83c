----------------------------- MODULE QkCommands -----------------------------
(***************************************************************************)
(* The operations of the application on a board: QkBoard::update(),        *)
(* QkCore::start() and QkCore::stop(), each a series of sendPacket() calls *)
(* whose ACKs decide how it goes on, on top of what CommandService says of *)
(* sendPacket().  While one of them waits for an ACK the event loop runs:  *)
(* handlers may change the board or start further operations inside it,    *)
(* and the serial thread stores what the device reports about itself.      *)
(*                                                                         *)
(* What update() sends, one command each, are the items of the board: its  *)
(* name, its configurations and its sampling, in this order.  The board is *)
(* a QkDevice; a QkComm has no sampling to send.                           *)
(***************************************************************************)
EXTENDS Integers, FiniteSets, SequencesExt

CONSTANTS
  Operations,   \* those the application uses: of "update", "start", "stop"
  Configs,      \* how many configurations the board has
  Combos,       \* those of type ctCombo, or of a type that is unknown
  Values,       \* values of an item
  MaxCommands,  \* bound: sendPacket() calls in a behaviour
  MaxNest,      \* bound: operations that wait at once, one inside the other
  MaxChanges    \* bound: changes of the board by handlers or reports

ASSUME CommandsAssumption ==
  /\ Operations \subseteq {"update", "start", "stop"}
  /\ Configs \in Nat
  /\ Combos \subseteq 1 .. Configs
  /\ Values # {}
  /\ {MaxCommands, MaxNest, MaxChanges} \subseteq Nat

VARIABLES
  asked, executed, answers, outcomes,  \* of CommandService
  ops,        \* the operations the application thread is in, the innermost last
  board,      \* QkBoard: m_name, m_configs and, of QkDevice, m_samplingInfo
  running,    \* QkCore::m_running
  info,       \* reports of the device under way: functions from items to values
  \* The device:
  device,     \* the same items in the device
  sampling,   \* START has been executed, and no STOP after it
  verdicts,   \* what became of the commands it was sent, in order
  \* History:
  contents,   \* what the commands say
  updates,    \* calls of update() so far
  changes,    \* changes of the board so far
  touched,    \* items changed on the board since they were last sent
  overlapped  \* start() or stop() was called inside a start() or stop()

serviceVars == <<asked, executed, answers, outcomes>>
hostVars == <<ops, board, running, contents, updates, touched, overlapped>>
deviceVars == <<device, sampling, verdicts>>
vars == <<serviceVars, hostVars, deviceVars, info, changes>>

ACK_OK == "ACK_OK"
ACK_ERROR == "ACK_ERROR"
ACK_NACK == "ACK_NACK"
Results == {ACK_OK, ACK_ERROR}

Service == INSTANCE CommandService

\* The name is item 0, the sampling the last one.
Items == 0 .. (Configs + 1)

\* What INFOBOARD, INFOCONFIG and INFOSAMP report.
Reports == {{0}, 1 .. Configs, {Configs + 1}}

\* A command carries one value, as a set of one element, or none.
Payloads == {{}} \cup {{v} : v \in Values}

\* A command of an update() is told by its number, START and STOP belong to none.
Content ==
  [code : {"set"}, update : Nat, item : Items, value : Payloads]
    \cup [code : {"start", "stop"}]

Init ==
  /\ Service!Init
  /\ ops = << >>
  /\ \E v \in Values : device = [i \in Items |-> v]
  /\ board = device
  /\ running = FALSE
  /\ info = << >>
  /\ sampling = FALSE
  /\ verdicts = << >>
  /\ contents = << >>
  /\ updates = 0
  /\ changes = 0
  /\ touched = {}
  /\ overlapped = FALSE

----------------------------------------------------------------------------
(***************************************************************************)
(* The application thread.  An operation is in waitForACK() ("wait") or    *)
(* has got its result and goes on ("back"); handlers run in between only   *)
(* while it waits.                                                         *)
(***************************************************************************)
Top == ops[Len(ops)]
Outer == SubSeq(ops, 1, Len(ops) - 1)

\* An event loop that runs between the commands of an update() as well.
DispatchingAlways == TRUE

Dispatching == ops # << >> => Top.pc = "wait"

\* sendPacket(), up to the event loop of waitForACK().
Send(content) ==
  /\ asked < MaxCommands
  /\ Service!Ask(TRUE)
  /\ contents' = Append(contents, content)

Waiting(code, update, item) ==
  [code |-> code, update |-> update, item |-> item, cmd |-> asked + 1,
   pc |-> "wait", result |-> ACK_NACK]

\* build() from a copy of the board that is filled once and never refreshed.
ValueCached(i) ==
  LET earlier == {n \in DOMAIN contents : contents[n].code = "set" /\ contents[n].item = i}
  IN  IF earlier = {} THEN {board[i]} ELSE contents[Min(earlier)].value

\* QkPacket::Builder::build() reads the item when the command is sent; of a combo it
\* sends the index and no value.
ValueSent(i) == IF i \in Combos THEN {} ELSE {board[i]}

SendItem(u, i) ==
  /\ Send([code |-> "set", update |-> u, item |-> i, value |-> ValueSent(i)])
  /\ touched' = touched \ {i}

BeginUpdate ==
  /\ Dispatching /\ Len(ops) < MaxNest
  /\ SendItem(updates + 1, 0)
  /\ updates' = updates + 1
  /\ ops' = Append(ops, Waiting("set", updates + 1, 0))
  /\ UNCHANGED <<board, running, overlapped, deviceVars, info, changes>>

\* update() as if it sent everything whatever the ACKs say.
GoesOnAlways(r) == TRUE

\* ack.result != QkAck::ACK_OK ends update().
GoesOn(r) == r = ACK_OK

ContinueUpdate ==
  /\ ops # << >> /\ Top.pc = "back" /\ Top.code = "set"
  /\ GoesOn(Top.result) /\ Top.item + 1 \in Items
  /\ SendItem(Top.update, Top.item + 1)
  /\ ops' = Append(Outer, Waiting("set", Top.update, Top.item + 1))
  /\ UNCHANGED <<board, running, updates, overlapped, deviceVars, info, changes>>

EndUpdate ==
  /\ ops # << >> /\ Top.pc = "back" /\ Top.code = "set"
  /\ ~ GoesOn(Top.result) \/ Top.item + 1 \notin Items
  /\ ops' = Outer
  /\ UNCHANGED <<serviceVars, board, running, contents, updates, touched, overlapped,
                 deviceVars, info, changes>>

\* start() and stop()
BeginRun(code) ==
  /\ Dispatching /\ Len(ops) < MaxNest
  /\ Send([code |-> code])
  /\ ops' = Append(ops, Waiting(code, 0, 0))
  /\ overlapped' = (overlapped \/ \E i \in DOMAIN ops : ops[i].code # "set")
  /\ UNCHANGED <<board, running, updates, touched, deviceVars, info, changes>>

\* start() and stop() that take any answer for a confirmation.
RunningAfterAnyAnswer(code, r) == IF r # ACK_NACK THEN code = "start" ELSE running

RunningAfter(code, r) == IF r = ACK_OK THEN code = "start" ELSE running

EndRun ==
  /\ ops # << >> /\ Top.pc = "back" /\ Top.code # "set"
  /\ running' = RunningAfter(Top.code, Top.result)
  /\ ops' = Outer
  /\ UNCHANGED <<serviceVars, board, contents, updates, touched, overlapped,
                 deviceVars, info, changes>>

\* waitForACK() of the innermost operation comes to its end.
Return(r) ==
  /\ ops # << >> /\ Top.pc = "wait"
  /\ Service!Finish(Top.cmd, r)
  /\ ops' = Append(Outer, [Top EXCEPT !.pc = "back", !.result = r])
  /\ UNCHANGED <<board, running, contents, updates, touched, overlapped,
                 deviceVars, info, changes>>

\* setConfigValue() and setSamplingFrequency(); nothing sets the name.
SetItem(i, v) ==
  /\ Dispatching
  /\ changes < MaxChanges
  /\ i # 0
  /\ board' = [board EXCEPT ![i] = v]
  /\ touched' = touched \cup {i}
  /\ changes' = changes + 1
  /\ UNCHANGED <<serviceVars, ops, running, contents, updates, overlapped,
                 deviceVars, info>>

----------------------------------------------------------------------------
\* The serial thread: INFOBOARD, INFOCONFIG or INFOSAMP, at any moment.
StoreInfo ==
  /\ info # << >>
  /\ board' = [i \in Items |-> IF i \in DOMAIN Head(info) THEN Head(info)[i] ELSE board[i]]
  /\ touched' = touched \cup DOMAIN Head(info)
  /\ info' = Tail(info)
  /\ UNCHANGED <<serviceVars, ops, running, contents, updates, overlapped,
                 deviceVars, changes>>

----------------------------------------------------------------------------
(***************************************************************************)
(* The device obeys a command or refuses it, and answers it or does not: a *)
(* command that the line loses is refused and never answered.  What it     *)
(* makes of a command without a value is its own matter.  The device may   *)
(* report an item at any time.                                             *)
(***************************************************************************)
Obey(c) ==
  /\ \/ /\ c.code = "set"
        /\ \E v \in IF c.value = {} THEN Values ELSE c.value :
             device' = [device EXCEPT ![c.item] = v]
     \/ c.code # "set" /\ UNCHANGED device
  /\ sampling' = IF c.code = "set" THEN sampling ELSE c.code = "start"

DeviceExecute(verdict) ==
  /\ Service!Execute
  /\ verdicts' = Append(verdicts, verdict)
  /\ \/ verdict = "obeyed" /\ Obey(contents[executed + 1])
     \/ verdict = "refused" /\ UNCHANGED <<device, sampling>>
  /\ UNCHANGED <<hostVars, info, changes>>

DeviceAnswer(n) ==
  /\ \/ verdicts[n] = "obeyed" /\ Service!Answer(n, ACK_OK)
     \/ verdicts[n] = "refused" /\ Service!Answer(n, ACK_ERROR)
  /\ UNCHANGED <<hostVars, deviceVars, info, changes>>

DeviceReport(items) ==
  /\ changes < MaxChanges
  /\ info' = Append(info, [i \in items |-> device[i]])
  /\ changes' = changes + 1
  /\ UNCHANGED <<serviceVars, hostVars, deviceVars>>

----------------------------------------------------------------------------
AppStep ==
  \/ "update" \in Operations /\ BeginUpdate
  \/ ContinueUpdate
  \/ EndUpdate
  \/ \E op \in Operations \ {"update"} : BeginRun(op)
  \/ EndRun
  \/ \E r \in Results \cup {ACK_NACK} : Return(r)
  \/ \E i \in Items, v \in Values : SetItem(i, v)

DeviceStep ==
  \/ \E verdict \in {"obeyed", "refused"} : DeviceExecute(verdict)
  \/ \E n \in DOMAIN verdicts : DeviceAnswer(n)
  \/ \E items \in Reports : DeviceReport(items)

Next == AppStep \/ StoreInfo \/ DeviceStep

Spec == Init /\ [][Next]_vars

----------------------------------------------------------------------------
(***************************************************************************)
(* Properties.                                                             *)
(***************************************************************************)
Sets == {n \in DOMAIN contents : contents[n].code = "set"}
Confirmed == {n \in DOMAIN contents : <<n, ACK_OK>> \in outcomes}

\* The kinds of values the variables hold; every operation waits for a command
\* of its own, and inner ones for later commands than outer ones.
TypeOK ==
  /\ contents \in Seq(Content) /\ Len(contents) = asked
  /\ Len(verdicts) = executed
  /\ {device, board} \subseteq [Items -> Values]
  /\ {running, sampling, overlapped} \subseteq BOOLEAN
  /\ touched \subseteq Items
  /\ \A i \in DOMAIN ops :
       /\ contents[ops[i].cmd].code = ops[i].code
       /\ ops[i].pc = "back" => i = Len(ops)
       /\ i > 1 => ops[i].cmd > ops[i - 1].cmd

\* What the device has of an update() that failed is a beginning of it: it never
\* obeys an item of an update without having obeyed the ones before it, whatever
\* is lost, refused, or executed after its sender gave up.
UpdatePrefix ==
  \A n \in Sets :
    (n <= executed /\ verdicts[n] = "obeyed") =>
      \A i \in 0 .. (contents[n].item - 1) :
        \E m \in Sets :
          /\ m < n
          /\ contents[m].update = contents[n].update
          /\ contents[m].item = i
          /\ verdicts[m] = "obeyed"

\* The board shows what the device has: an item whose last command was confirmed,
\* and that nobody changed since it was sent, is the same on both sides, although
\* commands of updates that gave up earlier are still executed.  Of combos this is
\* not so: what the device has of one is confirmed without having been told.
BoardInStep ==
  \A i \in Items \ (touched \cup Combos) :
    LET all == {n \in Sets : contents[n].item = i}
    IN  (all # {} /\ Max(all) \in Confirmed) => board[i] = device[i]

Runs == {n \in DOMAIN contents : contents[n].code # "set"}

\* m_running follows the last start() or stop() that the device confirmed, and
\* so does the device if nothing later was tried, unless the application calls
\* one of them inside the other: then the outer one, confirmed first, speaks last.
RunningInStep ==
  LET done == {n \in Runs \cap Confirmed : \A i \in DOMAIN ops : ops[i].cmd # n}
  IN  ~ overlapped =>
        /\ running <=> (done # {} /\ contents[Max(done)].code = "start")
        /\ (done # {} /\ Max(done) = Max(Runs)) => sampling = running
=============================================================================
