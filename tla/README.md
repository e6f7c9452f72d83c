# A verification development for qkcore

`qkcore` is the C++/Qt library with which a PC talks to QkThings hardware: a
serial line, byte framing, a packet protocol with acknowledgements, and on top
of it boards (comms and devices) with configurations, samplings, data, events
and actions. This directory models it in TLA+, checks the models with TLC and
proves properties of the protocol with TLAPS. Paths such as
`qkprotocol.cpp:264` are relative to the repository's sources (`src/`).

Contents: 1 Inventory, 2 Modules and the code, 3 Runs, 4 Bounds, 5 Fairness,
6 Proofs, 7 Findings, 8 What is not modelled, 9 Plan.

## 1 Inventory

### Threads

Three threads of the host serve one connection.

| thread | started by | runs |
|---|---|---|
| application | the program | all public calls, queued slots, and nested event loops inside `waitForACK()` and `waitForReady()` |
| protocol | `QkProtocol::QkProtocol` | `QkProtocolWorker::run()`: dequeue a packet, build its frame, wait for its ACK |
| serial | `QkConnection::open` | `QkConnSerialWorker::run()`: write frames, read bytes; `frameReady` and `packetReady` are direct connections, so `parseFrame()` and both `processPacket()` run here too |

Two mutexes protect the packet queue and the frame queue. Nothing protects the
two lists of ACKs, the map of nodes, the boards, `m_ready` or the quit flags.

### Components

| component | state | operations | talks to |
|---|---|---|---|
| **command protocol** `QkProtocol`, `QkProtocolWorker` (`qkprotocol.*`) | packet queue, two `m_acks`, `m_nextId`, fragment buffer, quit flag | `sendPacket`, two `waitForACK`, `parseFrame`, two `processPacket`, destructor | core and boards call `sendPacket`; hands frames to the serial worker; gets frames by `frameReady` |
| **serial framing** `QkConnSerialWorker` (`qkconnserial.*`) | frame queue, decoder state (`frame`, `ctrlFlags`), port | `sendFrame`, `run` (encode and write), `slotReadyRead`, `parseSerialData` | the line; `frameReady`, `connected`, `disconnected`, `finished` signals |
| **connection life cycle** `QkConnection`, `QkConnWorker` (`qkconnect.*`) | thread, `m_quit`, `m_connected`, `m_searchOnConnect` | `open`, `close`, destructor, slots for connected and disconnected | starts and joins the serial thread; calls `reset`, `waitForReady`, `search` of the core |
| **core** `QkCore` (`qkcore.*`) | `m_nodes`, `m_ready`, `m_running` | `reset`, `waitForReady`, `hello`, `search`, `getNode`, `start`, `stop`, `errorMessage` | `sendPacket`; its state is written by `processPacket` on the serial thread |
| **board operations** `QkBoard`, `QkDevice`, `QkComm` | name, configs, sampling, data, actions, events, logs | `update`, `save`, setters, `actuate`, `_setXxx` | `sendPacket`; the setters are called by `processPacket` |
| **packet contents** `QkPacket::Builder`, `QkAck` | none | `build`, `parse`, `toInt`, `fromInt` | called by worker and `parseFrame` |
| **registry of nodes** `QkNode`, `processPacket` | comms and devices of each address | create and fill nodes, signals | the application reads them by `node()`, `nodes()` |
| **connection manager** `QkConnectionManager` | list of connections | `addConnection`, `removeConnection`, lookups | creates connections |

How a command travels: `sendPacket()` takes an id (`requestId()`, modulo 256),
queues the packet and, if it is to wait, runs an event loop; the protocol
thread takes the packet, builds a frame, queues it for the serial worker and
waits too; the serial thread writes it. The device's ACK carries the packet's
id; the serial thread prepends it to the worker's list and then to the
protocol's list; either waiting thread polls its own list for that id, removes
what it found and goes on. Both waits expire (3 s and 2 s).

### What is hard, and what makes each part correct

* Command protocol: lists shared without a lock; ids that wrap while ACKs that
  came late stay in the lists for good; timeouts that race answers; calls
  nested in the event loop of other calls; a destructor that blocks on a thread
  in the middle of a wait. Correct: a caller is told OK or ERROR only if the
  device said so about that command; commands go out in order, each once; no
  command overtakes one that is waited for; every call returns; the destructor
  returns.
* Framing: one byte both begins and ends a frame; escapes may be split between
  reads; nothing checks a checksum. Correct: transparent on a clean line; on a
  noisy one the decoder finds back into step, at a bounded cost.
* Life cycle: status signals are queued while `m_connected` changes at once;
  `close()` blocks the thread those signals go to; `open()` deletes nodes
  that another thread uses; the port may not open. Correct: the application ends
  up with the right status, nobody touches what was deleted, `close()`
  returns, a READY is acted on.
* Board operations: series of commands that fail in the middle, are executed
  late, and during which handlers and reports change the board. Correct: the
  device has a beginning of an update, never a gap; confirmed values agree.
* Registry and contents: the packet and the fragment buffer of `parseFrame()`
  are static and shared by the serial threads of all connections; a lost last
  fragment is never cleaned up; DATA and EVENT replace what INFODATA and
  INFOEVENT described when the sizes differ; the loop over a combo's items
  reuses the index of the loop around it; the application checks an index and
  then uses it while the list may be replaced. Correct: a loss costs a bounded
  number of packets, labels, types and values belong together, an update that
  is announced is complete, the logs hold the latest entries.
* Manager: its signals call the application in the middle of
  `addConnection()` and `removeConnection()`; a removed connection lives on and
  may be opened again; the destructor joins one thread after the other.
  Correct: one listed connection for a port, silence of the removed, no thread
  behind a deleted connection.

`PROJECT.json` lists every hazard at its line, with the properties that cover
it or the reason why none does yet.

## 2 Modules and the code

| module | models | proved |
|---|---|---|
| `CommandService` | abstract: what `sendPacket()` promises its callers | |
| `QkProtocol` | the command path, four actors | yes |
| `QkProtocolProofs` | theorems of `QkProtocol`: types, ACKs, order | |
| `QkProtocolServiceProofs` | theorems of `QkProtocol`: the service, the worker's wait, used ACKs | |
| `FrameChannel` | abstract: what the framing promises | |
| `QkSerial` | encoder, frame queue, line, decoder | yes |
| `QkSerialProofs` | theorems of `QkSerial` | |
| `QkConnection` | life of a connection, `reset()`, `waitForReady()` | yes |
| `QkConnectionProofs` | theorems of `QkConnection` | |
| `QkCommands` | `update()`, `start()`, `stop()` on `CommandService` | yes |
| `QkCommandsProofs` | theorems of `QkCommands` | |
| `QkFragments` | `parseFrame()` for several connections | yes |
| `QkFragmentsProofs` | theorems of `QkFragments` | |
| `QkBoards` | registry: what `processPacket()` stores and signals, and who reads it | yes |
| `QkBoardsProofs` | theorems of `QkBoards` | |
| `QkConnectionManager` | the list of connections, handlers, ports, destructor | yes |
| `QkConnectionManagerProofs` | theorems of `QkConnectionManager` | |
| `MCQkProtocol`, `MCQkSerial`, `MCQkCommands`, `MCQkFragments`, `MCQkBoards`, `MCQkConnectionManager` | values and symmetry for TLC | |

The layers compose through the abstract specifications. `QkProtocol`
implements `CommandService` and takes the line between host and device to
deliver whole frames in order; `QkSerial` shows that of the framing
(`FrameChannel`). `QkCommands` is built on `CommandService`, not on the
protocol's threads, and so has a state space that leaves room for the device,
handlers and reports.

**QkProtocol.** `calls` is the stack of `sendPacket()` calls waiting in the
application thread (each with its place in `waitForACK()` and its local
variable `ack`); `outQ`, `frames`, `wAcks`, `pAcks`, `nextId`, `quit` are the
members of the code; `wPc`, `wCmd`, `wAck` are the protocol thread's place
and locals, `sPc`, `sAck`, `port`, `sQuit` the serial thread's. Commands are numbered by a
history of what was issued, so that properties can tell apart two commands
with one id; an ACK names the command it answers, which no action of the host
reads. One action stands for a piece of code between two points at which
another thread can interfere: `SendPacket` (up to the event loop), `AppPoll`,
`AppTimeout` (the rounds of the loop), `AppReturn` (`removeOne` and return);
likewise `WorkerSend`, `WorkerPoll`, `WorkerTimeout`, `WorkerReturn`,
`WorkerFinish`; `SerialTransmit`, `SerialReceive`, and the two prepends
`SerialWorkerAck` and `SerialProtocolAck`. The data race on `m_acks` is a choice
of outcomes: when a prepend and a removal overlap (one thread is in `remove`,
the other is about to prepend), either update may be lost. The uninitialised
id of a default `QkAck` is a choice of any id. `SerialProtocolAck` may do
nothing, for `processPacket()` returns before its ACK case when the source is
unknown (`qkprotocol.cpp:373`), after the worker's list already has the ACK.
Frames are written only while `run()` of the serial worker is in its loop
(`port = "open"`): `OpenPort`, which need never happen, leads there, for a port
whose name contains "USB" (`Usb`) over the event loops of the reset, which
receive but do not write (`EndReset`). `Close` is `close()` with its join, so the
steps the serial thread still takes before it ends come before it; it sets
`sQuit` for good, and what the line had sent and nobody read is lost, as is what
the device answers to a closed port. A connection that is opened again is told
the port is open, hears its device during the reset and writes nothing more.
Time is not measured: a timeout may fire at any point of a wait, which
includes a caller that gives up before its packet was sent. A line that loses
a command or an ACK is a device that never answers.

**QkSerial.** Bytes are the flag, the escape and others; `ParseSerialData` is
`parseSerialData()` as a function of the decoder's state and a byte, and
`ReadByte` is one turn of the loop in `slotReadyRead()`. Every action of
`LineError` loses, changes or inserts one byte.

**QkConnection.** `stack` is what the application thread is in: waits, whose
event loops dispatch queued slots and further calls, and `close`, which
blocks. `events` are the slots queued for it. `sPc` follows `run()` and then
`QThread::exec()`, which ends only when `quit()` was called since `start()`.
`m_quit` is never cleared, as in the code. A USB port is reset before the loop:
`OpenUsbPort` leads to two event loops ("reset") that receive packets with
`m_connected` still unset and whatever `m_quit` is; `EndReset` goes on to
`connected()` and the loop. `nodes` counts generations of
`m_nodes`; `sNodes` is the one a `processPacket()` on the serial thread works
with.

**QkCommands.** An operation in `ops` waits for a command ("wait") or has its
answer and goes on ("back"). `build()` runs when a command is sent, so each
carries the board's value of that moment, except that of a combo (`Combos`),
for which `build()` sends the index alone (`qkprotocol.cpp:758`): the device
makes of such a command what it likes. The board's items are its name, its
configurations and its sampling. The device obeys or refuses each command it
gets and answers or does not; it may report items at any time.

**QkFragments.** `flags` and `data` are the members of the static `packet`,
`fragment` the static buffer; `pc` is where the serial thread of each
connection is: `ParseFlags` and `ParseData` are the two halves of `parse()`,
`Collect` the branch on FRAG, `HandToWorker` and `HandToProtocol` the two
copies that `processPacket()` and `packetReady` get. Any other thread may come
between two of them. A piece is known by its packet and its place in it, which
no action reads, so properties can tell whole packets from mixtures. Frames are
lost as a whole; what the line does to bytes is in `QkSerial`.

**QkBoards.** `ProcessPacket` is one call of `processPacket()`: `BoardOf` finds
or creates the board, `Stored` is the switch on the code, `SignalOf` the second
switch. An INFO packet is one record that names the start of the device which
sent it; its labels are (start, item), and the labels "D0", "E0" the host makes
up have start 0, so that `DataDescribed` and `EventNamed` can say whose labels
are shown. `ParsedConfigs` runs the loop over the configs with the shared
index. `CheckIndex` and `UseIndex` are the two halves of
`setConfigValue()` and `actuate()` on the application thread; indices are drawn
from -1 on, and only the check for configs (`NotBelow`) refuses negative ones.
The device answers
a GETNODE with all its INFO packets and then the ACK, and sends DATA and EVENT
only outside of such a report; it may restart at any time, also in the middle
of sending, and then report another layout. Address 0 is the only one, since
`parse()` sets it (`qkprotocol.cpp:815`), so there is one node.

**QkConnectionManager.** `stack` holds the calls the application thread is in,
since `connectionAdded`, `connectionRemoved` and `status` call its handlers
directly: `AddConnection`, `OpenAdded` and `Start` are `addConnection()` cut at
these points, `RemoveConnection`, `AnnounceRemoved` and `EndRemove` are
`removeConnection()`. A handler may call every operation, of any connection
that was ever created, except deleting. `thread`, `mQuit` and `exited` are the
worker's side, as in `QkConnection`, but for all connections and with their
ports: a port that is open cannot be opened a second time. For those in
`UsbPorts` the two event loops of the reset come first, in which frames are
handled (`HearEarly`) whatever `m_quit` is. `Doomed` is the order in
which the destructor deletes.

## 3 Runs

Each run is `tlc -config <cfg> <module>`; times are on two to four cores.

| run | states | question and answer |
|---|---|---|
| `proto_unique` | 2.1 M, 2 min | With ids that do not wrap, what do callers see of three overlapping commands, before the port is open, while it is, and after `close()`? What `CommandService` promises (`IsCommandService`): an answer is only ever the own one (`NoFalseSuccess`), commands keep their order (`FifoLine`), none overtakes one that is waited for (`AckGated`), every ACK anywhere in the host is genuine (`AckInv`), and ACKs are consumed except where a race undoes it (`AckConsumed`). |
| `proto_live` | 59 k, 20 s | With two ids and a USB port that may be opened or not, closed and opened again (`TypeOK`), does everyone get on? Calls return (`CallsReturn`), once the port was opened commands are sent though others are never answered, unless the connection is closed (`CommandsSent`), the destructor's join ends (`WorkerFinishes`). |
| `proto_nack` | violation | The same with a device that answers ACK_NACK: a call never returns (section 7). |
| `serial_clean` | 2.6 k | For all frames of one or two bytes, the framing implements `FrameChannel`, with delivery. |
| `serial_noise` | 250 k | One damaged byte costs at most two frames (`BoundedDamage`) and makes up at most two (`BoundedGarbage`), wherever it falls in four frames. |
| `conn_life` | 5 k | Status (`StatusInStep`), lifetime of the nodes (`NodesAlive`), `close()` (`CloseReturns`), READY (`ReadyActedOn`) and the settling of an open (`PortOpenSettles`) in every interleaving of three opens with closes and a destructor, and with packets during the reset of the port. |
| `conn_port_fails` | violation | If the port does not open, the application is never told (section 7). |
| `commands_update` | 2.5 M, 1 min | Nested, repeated and abandoned updates of a board with a combo and one other configuration, with changes from handlers and reports: `UpdatePrefix`, `BoardInStep`. |
| `commands_run` | 375 k, 10 s | `m_running` and the device under refused, lost and late START and STOP: `RunningInStep`. |
| `fragments` | 460 k, 10 s | Two connections, three packets of up to two pieces, one lost frame: no piece is handed on twice and each packet handed on is complete at its end (`PiecesOnce`); a loss, or a piece that meets one of another connection, costs at most two packets (`BoundedDamage`). |
| `boards` | 5.5 M, 2.5 min | Reports, data, events, a lost packet, a restart with another layout: is what is stored and signalled what the device meant? (`DataDescribed`, `EventNamed`, `UpdatedComplete`, `ConfigsAsReported`, `LogsAreRecent`, `IndexInRange`) |
| `manager` | 4.4 M, 1.5 min | Three connections on two ports, one of them USB, and handlers that add, remove, open and close in the middle of the manager's functions: `OnePerPort`, `RemovedSilent`, `PortFree`, `DeletedEnded`. |

Every property of a passing run has a mutant in `PROJECT.json`: a plausible
bug in a mapped definition (the alternatives stand before the definitions they
would replace), under which TLC finds the property violated.

Some properties state an exception, by a history variable, where the code does
not do what one might wish: `StatusInStep`, `NodesAlive` and `PortOpenSettles`
except an `open()` on a connection that was not closed (`reopened`): it deletes
the nodes under a packet being processed and announces sConnecting without
connecting anew. `RunningInStep` excepts a `start()` or `stop()` called inside
another (`overlapped`): the outer one, confirmed first, sets `m_running` last.
`AckConsumed` excepts removals undone by the race (`kept`). A reopened
connection connects and at once disconnects again, since `m_quit` still
stands; `PortOpenSettles` and `StatusInStep` show that the application is at
least told so. `PiecesOnce` and `BoundedDamage` except two threads in
`parseFrame()` at once (`raced`), which nothing prevents: then a connection may
be handed the other one's packet. `DataDescribed` excepts data that were
described before a restart (`setIn`): the size alone decides whether a DATA
packet replaces labels and type. `ConfigsAsReported` excepts combos whose
number of items is not their own index: for them the shared index does go
wrong. `PortFree` excepts connections that were opened again after they had
been closed (`revived`): each such has its port for the moment until its loop
sees `m_quit`. `RemovedSilent` excepts the same: a removed connection that is
opened again hears its device during the reset of a USB port, since the event
loops of the reset do not look at `m_quit`; it never gets into the loop that also
writes. `CommandsSent` excepts closed connections (`sQuit`): frames still queued
then stay there. `IndexInRange` excepts a device that restarted with a shorter
list, and grants actions the negative ids that `actuate()` lets through
(`qkdevice.cpp:163`); configs have none. `EventNamed` grants an event the label
of an earlier start of the device, while the description of that start is in
place. `BoardInStep` excepts combos, which are confirmed without a value.

Such a property shows that nothing goes wrong but what it names; it is no check
of the case it names, which the code leaves wrong.

## 4 Bounds

* `MaxSends` 3, `MaxNest` 2 in `proto_unique`: an outer call, an inner one and
  a third before, within or after; with `IdSpace` 4 no id is used twice.
  `Results` has OK and NACK, as ERROR takes the same path as OK. `proto_live` has two commands: one that
  blocks the worker and one behind it, or one within the other. `Usb` is FALSE in
  `proto_unique`, where a closed port then stays silent, and TRUE in
  `proto_live`; the proofs have both. No run reuses an id while old ACKs lie
  about: what still holds then is `SameIdAck`, which is proved without a bound.
* `MaxFrames` 4 with one error in `serial_noise`: an error may fall in
  any of them, and two intact frames can follow the two it costs. In
  `serial_clean` all frames of one and two bytes over flag, escape and one
  other byte: every pair of neighbours an encoder can meet.
* `MaxOpens` 3: open, reopen after close, open within a wait or while still
  open. The stack needs no bound: each wait follows an open.
* `MaxCommands` 5, `Configs` 2 with the second a combo, `MaxNest` 2, `MaxChanges` 1
  in `commands_update`: a whole update of four items and the beginning of another, before
  it or nested in it, and a change by a setter or a report between any two
  steps. Two values, with symmetry (values are only copied and compared).
  `commands_run` has four commands and two levels of nesting.
* `Conns` 2, `MaxPieces` 2, `MaxPackets` 3, `MaxLosses` 1 in `fragments`: a
  packet that loses its last piece, one that finds the rest in the buffer, and
  one after it, on the same or on the other connection.
* `boards`: two starts, two reports, three notes and one loss; logs of two
  entries (128 in the code) that three notes overflow; three layouts, of which
  two have the same number of data and different types, and one a combo that
  does and one a combo that does not disturb the loop. `MaxBehind` 0: the device
  sends more only when the line is empty, apart from READY; what is on the line at once is one report,
  and the orders in which the host handles packets are the same. Indices
  are -1, 0 and 1: before, within and, for the shorter lists, beyond the end.
* `manager`: two ports, one of them USB, and two baud rates; three connections, so that a port has
  a removed one, its successor and a third; `MaxNest` 2, an operation from
  within a handler.

Deadlock is not checked where bounds or the application end a behaviour; the
liveness properties say that nothing else does.

## 5 Fairness

`QkProtocol!FairSpec` has weak fairness of each host thread's steps: the event
loops are woken by repeating timers (50 ms in `QkProtocol::waitForACK()`,
20 ms in the worker's) and both `run()` loops spin until they are told to
quit. The serial worker's runs only after its port was opened and until
`close()`, and so do the steps that are fair: `SerialTransmit` needs an open port,
`EndReset` ends the reset by its timers, and `OpenPort` is not fair at all, for a
port may not open. Nothing is assumed of the device, nor that the application ever
sends, opens, closes or destroys. The threads' steps are taken together, thread by thread, since each
thread's program decides which comes next.

`QkConnection!FairSpec`: `run()` and `exec()` go on (weak), `close()` returns
when the thread has ended (weak), and the application thread comes back to its
event loop, which handles queued slots and expired timers in turn however
often the application closes the connection in between (strong, since a
blocking `close()` disables these steps for a while). That packets stop coming
within a round of `processEvents()` is assumed by the fairness of `EndPacket`;
that the reset of a port ends although packets come in it (strong fairness of
`EndReset`) follows from its two timers;
nothing is assumed of READY, of the port or of when the application opens or
closes.

`QkSerial!FairSpec`: `run()` writes and processes the port's events in every
round.

## 6 Proofs

Every theorem is about the specification a run checks, for all values of the
constants that satisfy the named assumptions of its module. Bounds such as
`MaxSends` are any natural numbers.

| module | theorem | states |
|---|---|---|
| `QkProtocolProofs` | `TypeCorrect` | `Spec => []TypeOK` |
| | `AcksAreGenuine` | `Spec => []AckInv` |
| | `SuccessHasSameIdAck` | `Spec => []SameIdAck` |
| | `SuccessIsOwn` | if `MaxSends < IdSpace`, `Spec => []NoFalseSuccess` |
| | `CommandsStayInOrder` | `Spec => []FifoLine` |
| `QkProtocolServiceProofs` | `ImplementsCommandService` | if `MaxSends < IdSpace`, `Spec => IsCommandService` |
| | `WorkerWaits` | `Spec => []AckGated` |
| | `AcksAreConsumed` | if `MaxSends < IdSpace`, `Spec => []AckConsumed` |
| `QkConnectionProofs` | `TypeCorrect` | `Spec => []TypeOK` |
| | `NodesOutlivePackets` | `Spec => []NodesAlive` |
| | `StatusFollowsPort` | `Spec => []StatusInStep` |
| `QkCommandsProofs` | `TypeCorrect` | `Spec => []TypeOK` |
| | `UpdatesAreObeyedInOrder` | `Spec => []UpdatePrefix` |
| | `BoardFollowsDevice` | `Spec => []BoardInStep` |
| | `RunningFollowsDevice` | `Spec => []RunningInStep` |
| `QkFragmentsProofs` | `BufferIsIncomplete` | `Spec => []TypeOK` |
| | `PiecesAreHandedOnOnce` | `Spec => []PiecesOnce` |
| | `DamageIsBounded` | `Spec => []BoundedDamage` |
| `QkSerialProofs` | `TypeCorrect` | `Spec => []TypeOK` |
| | `GarbageIsBounded` | `Spec => []BoundedGarbage` |
| | `DamageIsBounded` | `Spec => []BoundedDamage` |
| | `FramingIsTransparent` | if `MaxErrors = 0`, `Spec => Channel!SafeSpec` |
| `QkBoardsProofs` | `TypeCorrect` | `Spec => []TypeOK` |
| | `DataAreDescribed` | `Spec => []DataDescribed` |
| | `EventsKeepTheirNames` | `Spec => []EventNamed` |
| | `LogsFollowSignals` | `Spec => []LogsAreRecent` |
| | `CheckedIndexIsInRange` | `Spec => []IndexInRange` |
| | `UpdatesAreComplete` | `Spec => []UpdatedComplete` |
| | `ConfigsFollowReports` | `Spec => []ConfigsAsReported` |
| `QkConnectionManagerProofs` | `TypeCorrect` | `Spec => []TypeOK` |
| | `PortsAreUnique` | `Spec => []OnePerPort` |
| | `RemovedStaySilent` | `Spec => []RemovedSilent` |
| | `PortIsFree` | `Spec => []PortFree` |
| | `DeletedHaveEnded` | `Spec => []DeletedEnded` |

**The protocol's ACKs and its order.** `TypeOK` is inductive (`TypeStep`, one
step per action), given what `RequestId`, `RemoveOne`, `Removed` and
`Prepended` return. `AckInv` says of each place an ACK passes through, from the
line over both lists to the local variable of a call, that it holds only
genuine ACKs: the id of an issued and transmitted command and a result the
device gave it. It is inductive relative to `TypeOK`. What makes the proof
short is that the set of genuine ACKs only grows (`GrowthStep`): no step takes
back an issued packet, a transmission or an answer, so a place that is not
touched stays good, and a step that moves an ACK keeps it good whichever of the
racing outcomes happens. `SameIdAck` is a consequence of `AckInv`; by itself it
is not inductive, for it says nothing of the ACKs before they are returned.
`SuccessIsOwn` adds `CountedIds` (command n has id n while fewer were issued
than there are ids): two commands with one id are then one command. The
hypothesis `MaxSends < IdSpace` is what the code relies on: `requestId()`
counts modulo 256, and nothing but the id is compared. `FifoLine` is inductive
relative to `TypeOK`: each of the three steps that move a command moves it from
the head of one queue to the tail of the next.

**The service.** `ImplementsCommandService` shows that under the refinement
mapping of `QkProtocol` (asked: the commands issued; executed: those on the
line; answers and outcomes: the histories) every step is one of the service
or a stutter. Four actions do something the service sees; all others are
`Quiet`. The invariant is `TypeOK`, `FifoLine` (the next on the line is the
next to be executed), `AckInv`, `NoFalseSuccess` (the outcome is an answer to
the own command), `AnsweredOnce` (one answer at most) and `ReturnsOnce` (a call
on the stack has not returned). The service has no fairness, so this is all of
`IsCommandService`. `AckGated` speaks only of commands that left the queue and
is not inductive at the moment the worker takes the next one; `WorkerInv` adds
that the exception for the current command stands only while the worker waits.
`AckConsumed` needs to know that an ACK is in one place at a time
(`ArrivesOnce`): if a second copy could come after the removal, it would stay.
Its key lemma is `OwnIsFirstEqual`: while ids last, the first equal element
that `removeOne()` finds is the ACK that was found.

**The connection.** `ConnectionInv` is `TypeOK`, `StackOK` (only the innermost
call blocks; the destructor is the outermost), `nodes = opens`, `ThreadOwned`
(there is a thread only while the connection is open or something waits for
the thread to end), `ClosingIsClosed` and `DestroyedLast`. `NodesAlive` and
`StatusInStep` are inductive relative to it: a reset happens only in `open()`,
and unless the connection was still open there is then no thread, so no
packet; and each step that changes `mConnected` queues the slot that makes the
settled status follow. In the reset of a port packets are handled with
`mConnected` unset, so `TypeOK` ties `mConnected` to the places of the thread
where it may be set, and the status to it and not to the open port.

**The operations of a board.** They are proved on `CommandService`, so with
`ImplementsCommandService` they rest on the protocol's threads. `CommandsInv`
is `ServiceOK` (an outcome OK is an answer, an answered OK was obeyed, a call
has one outcome), `DataOK` and `OpsOK` (each operation is about the command it
sent last, inner ones about later ones). `UpdatePrefix` follows from
`UpdateChain`, the same for every item sent, obeyed or not: it is inductive,
since an update goes on only after an OK, which is about its own previous item.
`BoardInStep` follows from two invariants about the latest command of each item:
`BoardLast` (the board still has what was sent, unless it was touched since)
and `DeviceLast` (the device has what it obeyed last). `RunningInStep` follows
from `RunningLast` and `SamplingLast` in the same way; `HeldLast` (of the
starts and stops, only the latest can still wait) is why an earlier one cannot
set `m_running` later, and is what `overlapped` excepts.

**The fragments.** `PiecesOnce` speaks only of what was handed on. `AloneInv`,
which holds as long as no two threads have met (`~ raced`), says where a piece
can be before that: on a line, in the one thread that is in `parseFrame()`, in
the shared buffer, or handed on, and never in two of these places (`Apart`).
Each step moves a piece from one to the next: `ParseFlags` takes it off the
line, whose frames are all different (`LinesOK`), `Collect` puts it into the
buffer or takes the buffer into the packet, and only because `Complete` packets
clear the buffer do the two stay apart. That the packet ends well comes from
`ThreadOK`: what a thread parsed is one piece of its own connection, and that
piece is the last of whatever it is put behind.

`BoundedDamage` counts packets that were never handed on whole, so its invariant
has to say of each packet sent whether it still can be. `Living` are those that
can: their pieces are on the line, in a thread or in the buffer with the rest
behind them, or they were handed on. All others have been paid for: `Paid` says
that they, and one more if the buffer holds the beginning of a packet whose end
is gone (`StaleBuffer`), and one more if a thread is about to put such a piece
there (`StaleHeld`), are at most two for each lost frame and each piece that met
one of another connection. The account balances at each step because a line
keeps its order (`Ordered`): a piece that is lost or out of place spoils its own
packet and at most the one that finds it in the buffer. Both together are
`DamageInv`, which holds while no two threads have met.

**The framing.** Between two bytes the encoder is at a place: before a frame
(`Out`), in it behind some of its bytes (`In`), or behind an escape (`Esc`). A
place determines the byte that follows and the place after it, and what
`Transmit` writes for a frame is a way through the places of that frame
(`WayFrame`). The decoder is in step with a place when it holds what was sent of
the frame; `DecoderTable` says what one byte does to it, `InStepByte` that it
stays in step, `OutOfStepByte` that the frames which a decoder out of step makes up, and
those of the sender that it misses, are paid from two accounts, `Debt` and `Loss`,
that never exceed two and are empty once it is back in step.
The invariant `Framed` gives each byte on the line its place, and where two
neighbours do not fit, a damaged byte to account for it (`Aligned`); and the
frames made up or lost, with what may still come of the decoder's state and of
the damage on the line, are at most two for each byte that was ever damaged
(`Balanced`). `LineError` adds one to that number and no more than one damaged byte to
the line, also where it strikes next to earlier damage. With no
damage `Balanced` says that what is delivered is a beginning of what was sent,
from which `FramingIsTransparent` follows; the delivery it also promises is
liveness. `FlattenSeq` of the community modules, with which the encoder is
written, is unfolded by `FlattenSeqIs`.

**The boards.** There is one invariant for each theorem, and common to all that the
packets on the line stand in the order of the starts that sent them
(`LineInv`). `setIn` notes of which start the present list of data or events
is. `DataInv` says that the stored type and labels are then those of that start
(or made-up labels, if a DATA packet replaced the list), and `EventsInv` that the
events' labels are all of the start that `setIn` names, 0 for made-up ones; both hold between packets, and the signal of a DATA or EVENT
packet follows. The key lemma of `LogsInv` is `LoggedIsRecent`: to append to the
last `LogMax` entries and to cut from the front gives the last `LogMax` entries
again. `IndexInv` says of each list from which start it is: nothing of an earlier
start is still on the line, and an index that was checked was within the list of
that start or of an earlier one. So only a later start with a shorter list, which
the property excepts, puts it beyond the end. That it is not negative is known of
configs only.

`UpdatedComplete` is about a whole report, and holds at its ACK only. `ReportsInv`
says it of every packet on the way there: as long as nothing was lost, a packet
on the line that continues a report comes right behind the one it continues
(`Linked`), and the board already has all that the report told before the first
packet on the line (`ReadyFor`). A restart cuts a report off at its end, never in
the middle, and what follows begins anew. `ConfigsAsReported` rests on what the
loop over the configs computes, for every number of configs: `IndexHarmless`
shows by induction that harmless combos leave the index where it was, and
`HarmlessParsed` that each entry is then stored as it was reported; `ParsedType`
that also the other combos store something at every index. `MaxBoots` is at
least 1, since the model begins with a start of the device.

**The manager.** `ManagerInv` is `OnePerPort`, `UnlistedReleased` (the thread of
what is not listed was joined after `m_quit` was set, is not in the loop that
handles frames, and in the reset of a port only if it was opened again),
`CallsInStep` (a call that closes has set `m_quit`, and one that goes on after
`close()` has released the connection, whatever was called within it),
`DeletesAlone` (nothing else is called while connections are deleted) and
`DeletedEnded`. `OnePerPort` is inductive on its own; for the others the key
lemma is `ReleaseStays`: `m_quit` is never cleared, so a released connection
stays so even if it is opened again.

**Only model-checked.** Liveness under fairness is out of the prover's reach:
`CallsReturn`, `CommandsSent`, `WorkerFinishes`, `CloseReturns`, `OpenSettles`,
`PortOpenSettles`, `ReadyActedOn` and the delivery in `IsFrameChannel`. Every
safety property of the runs has its theorem. Those about data of any length use
no induction theorem of the library, which take an operator as a parameter: a set
of numbers that holds every counterexample has a least one (`LeastNumber`, from
the well-foundedness of `<`), and that is shown not to be one. The theorems with
the hypothesis `MaxSends < IdSpace` say nothing of ids that wrap; for those
`SameIdAck` says what is left.

## 7 Findings

1. **A call that is answered ACK_NACK never returns** (`proto_nack`,
   `CallsReturn`). `QkProtocol::waitForACK()` is given a timeout and logs
   "QkProtocol timeout!", but an ACK_NACK with the packet's id neither ends the
   loop nor leaves the list, and each round that finds it restarts the timer
   (`qkprotocol.cpp:299-312`). The worker's own wait does not restart its
   timer, so it goes on.
2. **A port that does not open is reported to nobody** (`conn_port_fails`,
   `OpenSettles`). `run()` emits `error` and returns (`qkconnserial.cpp:88`);
   that signal is connected to nothing, although the manager forwards the
   connection's `error` (`qkconnect.cpp:198`). The status stays sConnecting and
   the thread stays in its event loop until `close()`.

## 8 What is not modelled

* The crash that a data race on a `QList` may also end in: the models have the
  lost updates.
* The port's settings and the levels of RTS and DTR: I/O. The event loops of the
  reset and what is received in them are modelled; what the reset does to the
  device is not, but for READY, which it may send on its own at any time. The decoder's state that a
  reopened worker starts with is not in `QkConnection`; that a
  decoder in any state finds back is what `serial_noise` shows.
* The layout of packets in bytes: `build()` and `parse()` put fields one after
  the other, with no state and no branch that the models leave out, but for the
  lengths they trust. `QkProtocol` takes ACK frames as one fragment, which they
  are. `errorMessage()` and `toInt()` are tables.
* `actuate()`'s value: the bounds check is in `QkBoards`, but what `build()`
  sends is read through a pointer into a list that was already destroyed
  (`qkprotocol.cpp:774`), and the value is stored whether or not the device
  accepts it.
* INFOSAMP, INFODATA, DATA or EVENT from a comm, which `processPacket()` stores
  through a null device (`qkprotocol.cpp:504`): the comm of `QkBoards` reports
  what a comm has.
* DATA and EVENT in the middle of a report, and a report that is not complete
  up to its ACK for another reason than loss or restart.
* `setPortName()` and `setBaudRate()` of an existing connection
  (`qkconnserial.cpp:261`): the manager's properties about ports hold for
  connections that keep the descriptor they were added with.
* The crash of a reader that sees a list half replaced; `QkBoards` has the
  reader that uses an index checked against an earlier list.
* `QkCore::reset()` while operations of `QkCommands` are under way: it clears
  `m_running` at each `open()`, whether or not the device still runs.
* `update()` of a `QkComm`: it sends SETSAMP, whose `build()` reads
  `samplingInfo()` of a device that is null (`qkprotocol.cpp:766`). The board of
  `QkCommands` is a `QkDevice`.
* A round of the protocol thread that has looked at the quit flag just before it
  is set: the rest of that round touches nothing the destructor reads before it
  joins the thread, so it is the same as if the round came first.
* Which of its branches `waitForReady()` logs and whether it emits sReady:
  only what it returns decides anything.
* Debug output, names of codes and export macros.

## 9 Plan

Done: `CommandService`, `QkProtocol`, `FrameChannel`, `QkSerial`,
`QkConnection`, `QkCommands`, `QkFragments`, `QkBoards`,
`QkConnectionManager`, and the theorems of section 6.

Left, in this order:

1. A model of the layout of packets, as operators against a reference
   definition over bounded inputs.
2. `update()` of a comm, and connections whose port is renamed, once the code
   says what they should do.
