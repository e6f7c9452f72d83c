------------------------------ MODULE QkBoards ------------------------------
(***************************************************************************)
(* What the host knows of the boards at the other end: the packets that    *)
(* QkProtocol::processPacket() stores into the node of a connection, on    *)
(* the serial thread, and the signals it emits, while the application uses *)
(* the same boards on its own thread.  Signals that hand on nothing of     *)
(* what is stored (commFound, deviceFound, debugReceived) are left out.    *)
(*                                                                         *)
(* parse() sets the address of every packet to 0, so a connection has one  *)
(* node, with at most one comm and one device.  A device may restart at    *)
(* any time, and with another layout: what it reports about itself.        *)
(***************************************************************************)
EXTENDS Integers, Sequences, FiniteSets

CONSTANTS
  Layouts,     \* the layouts a device may start with
  LogMax,      \* _eventLogMax and _dataLogMax (128 in the code)
  MaxBoots,    \* bound: starts of the device
  MaxReports,  \* bound: answers to GETNODE
  MaxNotes,    \* bound: DATA and EVENT packets
  MaxIndex,    \* bound: the index that the application uses
  MaxLosses,   \* bound: packets that get lost
  MaxBehind    \* bound: packets still on the way when the device sends more

Plain == -1   \* an entry of a layout's configs that is not a combo

\* The data have a type and a number, events and actions a number; the configs
\* are Plain, or the number of items of a combo.
Layout == [type : {"dtInt", "dtFloat"}, data : Nat \ {0}, events : Nat,
           actions : Nat, configs : Seq(Nat \cup {Plain})]

ASSUME LayoutsAssumption == Layouts \subseteq Layout
ASSUME LogMaxAssumption == LogMax \in Nat \ {0}
ASSUME BoardsBoundsAssumption ==
  /\ MaxBoots \in Nat \ {0}
  /\ {MaxReports, MaxNotes, MaxIndex, MaxLosses, MaxBehind} \subseteq Nat

VARIABLES
  line,     \* packets on the way to processPacket()
  boards,   \* QkNode::m_comm and m_device: << >> is null, <<b>> a board
  app,      \* a checked index the application thread is about to use, in <<>> or << >>
  \* History:
  boots,    \* the layouts of the device, one for each start
  signal,   \* what the last processPacket() signalled, and about which start
  told,     \* all data and events that were signalled
  reports,  \* answers to GETNODE so far
  notes,    \* DATA and EVENT packets so far
  losses,   \* packets lost so far
  setIn     \* in which start the stored data and events were described

deviceVars == <<line, boots, reports, notes, losses>>
vars == <<deviceVars, boards, app, signal, told, setIn>>

Sources == {"btComm", "btDevice"}

\* The bits of m_filledInfoMask, named by the packets that set them.
BoardInfo == {"INFOQK", "INFOBOARD", "INFOCONFIG"}
DeviceInfo == {"INFOSAMP", "INFODATA", "INFOEVENT", "INFOACTION"}

\* The label that the device gave to its i-th item in a start, or that the host
\* has made up ("D1", "E1", ...).
Label(boot, i) == [boot |-> boot, item |-> i]
MadeUp == 0

NewBoard ==
  [mask |-> {}, configs |-> << >>, type |-> "unset", data |-> << >>, events |-> << >>,
   actions |-> << >>, dataLog |-> << >>, eventLog |-> << >>]

NoSignal == [kind |-> "none", source |-> "btDevice", boot |-> 0, arg |-> 0]

Boot == Len(boots)

Init ==
  /\ \E l \in Layouts : boots = <<l>>
  /\ line = << >>
  /\ boards = [s \in Sources |-> << >>]
  /\ app = << >>
  /\ signal = NoSignal
  /\ told = [data |-> << >>, events |-> << >>]
  /\ reports = 0
  /\ notes = 0
  /\ losses = 0
  /\ setIn = [data |-> 0, events |-> 0]

----------------------------------------------------------------------------
(***************************************************************************)
(* The device and the comm.                                                *)
(***************************************************************************)
Packet(code, source, arg) == [code |-> code, source |-> source, boot |-> Boot, arg |-> arg]

Send(packets) ==
  /\ Len(line) <= MaxBehind
  /\ line' = line \o packets

\* The firmware starts again, perhaps another one, and announces READY; of what it
\* was sending only the first n packets are still on the way.
Restart(l, n) ==
  /\ Boot < MaxBoots
  /\ boots' = Append(boots, l)
  /\ line' = Append(SubSeq(line, 1, n),
                    [code |-> "READY", source |-> "btDevice", boot |-> Boot + 1, arg |-> 0])
  /\ UNCHANGED <<boards, app, signal, told, reports, notes, losses, setIn>>

\* The answer to GETNODE: what there is to tell of a board, then the ACK.  The
\* comm here has no configs.
Report(source) ==
  /\ reports < MaxReports
  /\ reports' = reports + 1
  /\ LET about(code) == Packet(code, source, 0)
     IN  Send(<<about("INFOQK"), about("INFOBOARD")>>
              \o (IF source = "btComm" THEN << >>
                  ELSE <<about("INFOCONFIG"), about("INFOSAMP"), about("INFODATA"),
                         about("INFOEVENT"), about("INFOACTION")>>)
              \o <<about("ACK")>>)
  /\ UNCHANGED <<boards, app, boots, signal, told, notes, losses, setIn>>

\* A sampling device sends data, and events as they happen.
SendData ==
  /\ notes < MaxNotes
  /\ notes' = notes + 1
  /\ Send(<<Packet("DATA", "btDevice", notes + 1)>>)
  /\ UNCHANGED <<boards, app, boots, signal, told, reports, losses, setIn>>

SendEvent(id) ==
  /\ notes < MaxNotes
  /\ id < boots[Boot].events
  /\ notes' = notes + 1
  /\ Send(<<Packet("EVENT", "btDevice", id)>>)
  /\ UNCHANGED <<boards, app, boots, signal, told, reports, losses, setIn>>

LosePacket ==
  /\ line # << >>
  /\ losses < MaxLosses
  /\ line' = Tail(line)
  /\ losses' = losses + 1
  /\ UNCHANGED <<boards, app, boots, signal, told, reports, notes, setIn>>

----------------------------------------------------------------------------
(***************************************************************************)
(* The serial thread: processPacket().                                     *)
(***************************************************************************)
Labels(boot, n) == [i \in 1 .. n |-> Label(boot, i)]

(***************************************************************************)
(* INFOCONFIG.  The loop over a combo's items uses the index of the loop   *)
(* over the configs, so that after it the combo is stored at the index     *)
(* that is the number of its items, and the next config behind it.  An     *)
(* index beyond the list stores nothing that could be read again; what is  *)
(* read behind the end of the packet counts as plain.                      *)
(***************************************************************************)
\* The index a config is stored at, if the items were counted from one.
ItemsFromOne(entries, k, i) ==
  IF k \in DOMAIN entries /\ entries[k] # Plain THEN entries[k] + 1 ELSE i

StoredAt(entries, k, i) == IF k \in DOMAIN entries /\ entries[k] # Plain THEN entries[k] ELSE i

ParsedConfigs(boot, entries) ==
  LET n == Len(entries)
      index[k \in 1 .. 2 * n + 1] ==
        IF k = 1 THEN 0 ELSE StoredAt(entries, k - 1, index[k - 1]) + 1
      read == {k \in 1 .. 2 * n : \A j \in 1 .. k : index[j] < n}
      written(i) == {k \in read : StoredAt(entries, k, index[k]) = i}
  IN  [i \in 1 .. n |->
         Label(boot, IF written(i - 1) = {} THEN 0
                     ELSE CHOOSE k \in written(i - 1) : \A j \in written(i - 1) : j <= k)]

\* _setInfoMask() as if it overwrote the mask.
MaskOverwritten(mask, code) == {code}

FilledMask(mask, code) == mask \cup {code}

\* What the INFO packet of a start of the device stores.
WithInfo(b, code, boot) ==
  LET l == boots[boot]
      filled == [b EXCEPT !.mask = FilledMask(@, code)]
  IN  CASE code = "INFOCONFIG" -> [filled EXCEPT !.configs = ParsedConfigs(boot, l.configs)]
        [] code = "INFODATA" ->
             [filled EXCEPT !.type = l.type,
                            !.data = [i \in 1 .. l.data |-> [label |-> Label(boot, i), value |-> 0]]]
        [] code = "INFOEVENT" -> [filled EXCEPT !.events = Labels(boot, l.events)]
        [] code = "INFOACTION" -> [filled EXCEPT !.actions = Labels(boot, l.actions)]
        [] OTHER -> filled

\* The log as if it dropped an entry when it is full and not over-full.
TrimmedEarly(log) == IF Len(log) >= LogMax THEN SubSeq(log, Len(log) - LogMax + 2, Len(log)) ELSE log

\* removeFirst() while the log has more than LogMax entries.
Trimmed(log) == IF Len(log) > LogMax THEN SubSeq(log, Len(log) - LogMax + 1, Len(log)) ELSE log

Logged(log, entry) == Trimmed(Append(log, entry))

\* DATA of another size as if it left the stored type alone.
OldType(b, type) == b.type

\* The type is stored with the new buffer only.
TypeStored(b, type) == type

WithData(b, boot, value) ==
  LET l == boots[boot]
      fits == Len(b.data) = l.data
      data == [i \in 1 .. l.data |->
                 [label |-> IF fits THEN b.data[i].label ELSE Label(MadeUp, i), value |-> value]]
  IN  [b EXCEPT !.data = data,
                !.type = IF fits THEN @ ELSE TypeStored(b, l.type),
                !.dataLog = Logged(@, data)]

\* The bounds check of EVENT, off by one.
LastUnknown(b, id) == id + 1 >= Len(b.events)

Unknown(b, id) == id >= Len(b.events)

WithEvent(b, id) ==
  LET events == IF Unknown(b, id) THEN Labels(MadeUp, id + 1) ELSE b.events
  IN  [b EXCEPT !.events = events, !.eventLog = Logged(@, events[id + 1])]

\* The board of a packet's source, which any packet of it creates.
BoardOf(p) == IF boards[p.source] = << >> THEN NewBoard ELSE boards[p.source][1]

Stored(p) ==
  CASE p.code \in BoardInfo \cup DeviceInfo -> WithInfo(BoardOf(p), p.code, p.boot)
    [] p.code = "DATA" -> WithData(BoardOf(p), p.boot, p.arg)
    [] p.code = "EVENT" -> WithEvent(BoardOf(p), p.arg)
    [] OTHER -> BoardOf(p)

\* dataReceived(), eventReceived(), and deviceUpdated() or commUpdated().
SignalOf(p) ==
  LET emitted(kind) == [kind |-> kind, source |-> p.source, boot |-> p.boot, arg |-> p.arg]
  IN  CASE p.code = "DATA" -> emitted("data")
        [] p.code = "EVENT" -> emitted("event")
        [] p.code = "ACK" -> emitted("updated")
        [] OTHER -> NoSignal

\* History: by which start of the device the stored lists are made or described.
SetInAfter(p) ==
  [data |-> IF p.code = "INFODATA" \/ (p.code = "DATA" /\ Len(BoardOf(p).data) # boots[p.boot].data)
            THEN p.boot ELSE setIn.data,
   events |-> IF p.code = "INFOEVENT" THEN p.boot
              ELSE IF p.code = "EVENT" /\ p.boot # setIn.events /\ Unknown(BoardOf(p), p.arg)
              THEN 0 ELSE setIn.events]

ProcessPacket ==
  /\ line # << >>
  /\ line' = Tail(line)
  /\ LET p == Head(line)
         b == Stored(p)
     IN  /\ boards' = [boards EXCEPT ![p.source] = <<b>>]
         /\ signal' = SignalOf(p)
         /\ told' = CASE p.code = "DATA" -> [told EXCEPT !.data = Append(@, b.data)]
                      [] p.code = "EVENT" -> [told EXCEPT !.events = Append(@, b.events[p.arg + 1])]
                      [] OTHER -> told
         /\ setIn' = SetInAfter(p)
  /\ UNCHANGED <<app, boots, reports, notes, losses>>

----------------------------------------------------------------------------
(***************************************************************************)
(* The application thread: setConfigValue() and actuate() check an index   *)
(* and then use it on a list that the serial thread may replace meanwhile. *)
(***************************************************************************)
Lists == {"configs", "actions"}

\* The bounds check, off by one.
UpToCount(idx, list) == idx <= Len(list)

WithinCount(idx, list) == idx < Len(list)

\* setConfigValue() refuses what is below zero, actuate() does not.
NotBelow(idx, list) == list = "configs" => idx >= 0

CheckIndex(list, idx) ==
  /\ app = << >>
  /\ boards["btDevice"] # << >>
  /\ NotBelow(idx, list)
  /\ WithinCount(idx, boards["btDevice"][1][list])
  /\ app' = <<[list |-> list, idx |-> idx]>>
  /\ UNCHANGED <<deviceVars, boards, signal, told, setIn>>

\* What is set or sent is the matter of QkCommands; what is found at an index that is
\* not in the list is undefined.
UseIndex ==
  /\ app # << >>
  /\ app' = << >>
  /\ UNCHANGED <<deviceVars, boards, signal, told, setIn>>

----------------------------------------------------------------------------
DeviceStep ==
  \/ \E l \in Layouts, n \in 0 .. Len(line) : Restart(l, n)
  \/ \E source \in Sources : Report(source)
  \/ SendData
  \/ \E id \in 0 .. boots[Boot].events : SendEvent(id)
  \/ LosePacket

AppStep ==
  \/ \E list \in Lists : \E idx \in -1 .. MaxIndex : CheckIndex(list, idx)
  \/ UseIndex

Next == DeviceStep \/ ProcessPacket \/ AppStep

Spec == Init /\ [][Next]_vars

----------------------------------------------------------------------------
(***************************************************************************)
(* Properties.                                                             *)
(***************************************************************************)
Device == boards["btDevice"][1]
HasDevice == boards["btDevice"] # << >>

ALabel == [boot : 0 .. MaxBoots, item : Nat]

\* The kinds of values the variables hold; a board has no data without a type, and
\* no log grows beyond its limit.
TypeOK ==
  /\ boots \in Seq(Layouts) /\ Len(boots) \in 1 .. MaxBoots
  /\ boards \in [Sources -> Seq([mask : SUBSET (BoardInfo \cup DeviceInfo),
                                 type : {"unset", "dtInt", "dtFloat"},
                                 configs : Seq(ALabel), events : Seq(ALabel), actions : Seq(ALabel),
                                 data : Seq([label : ALabel, value : 0 .. MaxNotes]),
                                 dataLog : Seq(Seq([label : ALabel, value : 0 .. MaxNotes])),
                                 eventLog : Seq(ALabel)])]
  /\ HasDevice =>
       /\ Device.data # << >> => Device.type # "unset"
       /\ Len(Device.dataLog) <= LogMax /\ Len(Device.eventLog) <= LogMax

\* What dataReceived() hands on is described rightly if the stored data were made
\* or described in the present start of the device: the values are those of this
\* packet, their type is the device's, and the labels are all its own or all made
\* up.  (After a restart with as many data of another type the old labels and the
\* old type stay: the size alone decides.)
DataDescribed ==
  signal.kind = "data" /\ setIn.data = signal.boot =>
    /\ Device.type = boots[signal.boot].type
    /\ \E boot \in {signal.boot, MadeUp} :
         Device.data = [i \in 1 .. boots[signal.boot].data |->
                          [label |-> Label(boot, i), value |-> signal.arg]]

\* eventReceived() names each event by the number that the device sent, in the words
\* of the start whose description is in place, or else in made-up ones.  So it is the
\* device's own label once the device has described its events: no later EVENT makes
\* up new ones, until one of another start has a number that is not described.
\* (After a restart an event may bear the label of the start before.)
EventNamed ==
  signal.kind = "event" =>
    told.events[Len(told.events)] = Label(setIn.events, signal.arg + 1)

\* When deviceUpdated() is emitted and no packet was lost, the board is complete,
\* and all of it is from the start of the device that acknowledged.
UpdatedComplete ==
  signal.kind = "updated" /\ losses = 0 =>
    LET l == boots[signal.boot]
    IN  IF signal.source = "btComm"
        THEN boards["btComm"][1].mask = {"INFOQK", "INFOBOARD"}
        ELSE /\ Device.mask = BoardInfo \cup DeviceInfo
             /\ Device.type = l.type
             /\ Device.data = [i \in 1 .. l.data |-> [label |-> Label(signal.boot, i), value |-> 0]]
             /\ Device.events = Labels(signal.boot, l.events)
             /\ Device.actions = Labels(signal.boot, l.actions)

\* Whether the reading of a combo leaves the index where it was.
CombosHarmless(entries) == \A k \in DOMAIN entries : entries[k] # Plain => entries[k] = k - 1

\* The configs are those that the device has reported, in its order, unless one is
\* a combo whose number of items is not its own index in the list.
ConfigsAsReported ==
  HasDevice /\ Device.configs # << >> =>
    LET boot == Device.configs[1].boot
    IN  CombosHarmless(boots[boot].configs) =>
          Device.configs = Labels(boot, Len(boots[boot].configs))

\* The last LogMax entries of a history.
Recent(s) == IF Len(s) > LogMax THEN SubSeq(s, Len(s) - LogMax + 1, Len(s)) ELSE s

\* The logs hold what was signalled last, in order, as much of it as fits.
LogsAreRecent ==
  HasDevice =>
    /\ Device.dataLog = Recent(told.data)
    /\ Device.eventLog = Recent(told.events)

Size(layout, list) == IF list = "configs" THEN Len(layout.configs) ELSE layout.actions

\* An index that the application has checked is still below the end of the list when
\* it is used, although the serial thread may replace the list meanwhile, unless the
\* device has restarted with a shorter one.  Of configs it is not negative either; an
\* action with a negative id passes the check of actuate() and is looked for.
IndexInRange ==
  app # << >> =>
    /\ app[1].list = "configs" => app[1].idx >= 0
    /\ \/ app[1].idx < Len(Device[app[1].list])
       \/ \E i, j \in 1 .. Boot : i < j /\ Size(boots[j], app[1].list) < Size(boots[i], app[1].list)
=============================================================================
