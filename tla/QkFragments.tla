----------------------------- MODULE QkFragments -----------------------------
(***************************************************************************)
(* QkProtocolWorker::parseFrame(): frames become packets, and the pieces   *)
(* of a fragmented packet are put together.  Its `packet` and `fragment`   *)
(* are static, so the serial threads of all connections share them, and    *)
(* nothing locks them.                                                     *)
(*                                                                         *)
(* A frame is the piece of a packet that it carries; what parse() makes of *)
(* it is its flags, which say whether it is a fragment and the last one,   *)
(* and its data.  Frames come from the devices in order; whole frames may  *)
(* be lost (QkSerial shows what else the line may do to them).             *)
(***************************************************************************)
EXTENDS Integers, Sequences, FiniteSets

CONSTANTS
  Conns,       \* the open connections, each with a device and a serial thread
  MaxPieces,   \* bound: pieces of a packet; one piece is an unfragmented packet
  MaxPackets,  \* bound: packets that the devices send
  MaxLosses    \* bound: frames that get lost

ASSUME FragmentsAssumption ==
  /\ MaxPieces \in Nat \ {0}
  /\ {MaxPackets, MaxLosses} \subseteq Nat

VARIABLES
  line,      \* frames from the device to the serial thread of each connection
  pc,        \* where each serial thread is in parseFrame()
  frame,     \* its parameter, until parse() has read it
  flags,     \* packet.flags, static
  data,      \* packet.data, static, as the pieces in it
  fragment,  \* fragment.data, static
  \* History:
  sent,      \* <<connection, number of pieces>>: the packets of the devices
  handed,    \* what packetReady() handed on for each connection
  losses,    \* frames lost so far
  switches,  \* pieces that were put behind one of another connection
  raced      \* parseFrame() was entered while another thread was in it

staticVars == <<flags, data, fragment>>
vars == <<line, pc, frame, staticVars, sent, handed, losses, switches, raced>>

Pieces == [packet : 1 .. MaxPackets, piece : 1 .. MaxPieces]
Flags == [frag : BOOLEAN, last : BOOLEAN]

\* The pieces of packet n, which a device cut into k.
Whole(n, k) == [i \in 1 .. k |-> [packet |-> n, piece |-> i]]

From(p) == sent[p.packet][1]

FlagsOf(p) ==
  LET k == sent[p.packet][2]
  IN  [frag |-> k > 1, last |-> k > 1 /\ p.piece = k]

Init ==
  /\ line = [c \in Conns |-> << >>]
  /\ pc = [c \in Conns |-> "idle"]
  /\ frame = [c \in Conns |-> << >>]
  /\ flags = [frag |-> FALSE, last |-> FALSE]
  /\ data = << >>
  /\ fragment = << >>
  /\ sent = << >>
  /\ handed = [c \in Conns |-> << >>]
  /\ losses = 0
  /\ switches = 0
  /\ raced = FALSE

----------------------------------------------------------------------------
\* A device sends a packet in k frames, one behind the other.
DeviceSend(c, k) ==
  /\ Len(sent) < MaxPackets
  /\ sent' = Append(sent, <<c, k>>)
  /\ line' = [line EXCEPT ![c] = @ \o Whole(Len(sent) + 1, k)]
  /\ UNCHANGED <<pc, frame, staticVars, handed, losses, switches, raced>>

\* A frame is lost; that it is the first on the line makes no difference.
LoseFrame(c) ==
  /\ line[c] # << >>
  /\ losses < MaxLosses
  /\ line' = [line EXCEPT ![c] = Tail(@)]
  /\ losses' = losses + 1
  /\ UNCHANGED <<pc, frame, staticVars, sent, handed, switches, raced>>

----------------------------------------------------------------------------
(***************************************************************************)
(* The serial threads.  Another thread may come between any two accesses   *)
(* to the static variables.                                                *)
(***************************************************************************)
Others(c) == {d \in Conns \ {c} : pc[d] # "idle"}

\* frameReady() calls parseFrame(), and parse() sets packet->flags ...
ParseFlags(c) ==
  /\ pc[c] = "idle"
  /\ line[c] # << >>
  /\ frame' = [frame EXCEPT ![c] = <<Head(line[c])>>]
  /\ line' = [line EXCEPT ![c] = Tail(@)]
  /\ flags' = FlagsOf(Head(line[c]))
  /\ raced' = (raced \/ Others(c) # {})
  /\ pc' = [pc EXCEPT ![c] = "parse"]
  /\ UNCHANGED <<data, fragment, sent, handed, losses, switches>>

\* ... and then packet->data.
ParseData(c) ==
  /\ pc[c] = "parse"
  /\ data' = frame[c]
  /\ frame' = [frame EXCEPT ![c] = << >>]
  /\ pc' = [pc EXCEPT ![c] = "collect"]
  /\ UNCHANGED <<line, flags, fragment, sent, handed, losses, switches, raced>>

\* The buffer as if nothing had ever cleared it.
KeptAfterLast(buffer) == buffer

\* fragment.data.clear()
AfterLast(buffer) == << >>

\* A fragment that is taken for the last one whatever its flag says.
AlwaysComplete(f) == TRUE

\* Whether the packet is complete: LASTFRAG, or it was no fragment.
Complete(f) == f.frag => f.last

\* What fragment.data.append(packet.data) leaves, in the buffer as it was or as
\* another thread is changing it.
Collected(c) ==
  {fragment \o data} \cup (IF \E d \in Others(c) : pc[d] = "collect" THEN {fragment} ELSE {})

\* The branch on the flags of the packet, with the return of an incomplete one.
Collect(c) ==
  /\ pc[c] = "collect"
  /\ \/ /\ ~ flags.frag
        /\ UNCHANGED <<data, fragment, switches>>
     \/ /\ flags.frag
        /\ \E buffer \in Collected(c) :
             IF Complete(flags)
             THEN data' = buffer /\ fragment' = AfterLast(buffer)
             ELSE UNCHANGED data /\ fragment' = buffer
        /\ switches' = IF fragment # << >> /\ data # << >>
                          /\ From(fragment[Len(fragment)]) # From(data[1])
                       THEN switches + 1 ELSE switches
  /\ pc' = [pc EXCEPT ![c] = IF Complete(flags) THEN "worker" ELSE "idle"]
  /\ UNCHANGED <<line, frame, flags, sent, handed, losses, raced>>

\* processPacket() of the worker gets a copy of the packet.
HandToWorker(c) ==
  /\ pc[c] = "worker"
  /\ pc' = [pc EXCEPT ![c] = "protocol"]
  /\ UNCHANGED <<line, frame, staticVars, sent, handed, losses, switches, raced>>

\* packetReady() makes another copy for QkProtocol::processPacket().
HandToProtocol(c) ==
  /\ pc[c] = "protocol"
  /\ handed' = [handed EXCEPT ![c] = Append(@, data)]
  /\ pc' = [pc EXCEPT ![c] = "idle"]
  /\ UNCHANGED <<line, frame, staticVars, sent, losses, switches, raced>>

----------------------------------------------------------------------------
Next ==
  \E c \in Conns :
    \/ \E k \in 1 .. MaxPieces : DeviceSend(c, k)
    \/ LoseFrame(c)
    \/ ParseFlags(c)
    \/ ParseData(c)
    \/ Collect(c)
    \/ HandToWorker(c)
    \/ HandToProtocol(c)

Spec == Init /\ [][Next]_vars

----------------------------------------------------------------------------
(***************************************************************************)
(* Properties.                                                             *)
(***************************************************************************)
\* The kinds of values the variables hold; between frames the buffer holds
\* pieces of packets that are not complete, never an unfragmented packet.
TypeOK ==
  /\ line \in [Conns -> Seq(Pieces)]
  /\ pc \in [Conns -> {"idle", "parse", "collect", "worker", "protocol"}]
  /\ frame \in [Conns -> Seq(Pieces)]
  /\ flags \in Flags
  /\ data \in Seq(Pieces)
  /\ fragment \in Seq(Pieces)
  /\ ~ raced => \A i \in DOMAIN fragment : ~ FlagsOf(fragment[i]).last /\ FlagsOf(fragment[i]).frag

Handed == UNION {{<<c, i>> : i \in DOMAIN handed[c]} : c \in Conns}
Contents(h) == {handed[h[1]][h[2]][i] : i \in DOMAIN handed[h[1]][h[2]]}

\* Unless two threads are in parseFrame() at once, no piece of a packet is handed
\* on twice, on whichever connection, and what is handed on ends with a piece that
\* came over that connection and completes its packet, whatever was lost and
\* however the pieces of the connections mix in the shared buffer.
PiecesOnce ==
  ~ raced =>
    /\ \A g, h \in Handed : g # h => Contents(g) \cap Contents(h) = {}
    /\ \A h \in Handed :
         LET packet == handed[h[1]][h[2]]
             end == packet[Len(packet)]
         IN  packet # << >> /\ From(end) = h[1] /\ (FlagsOf(end).frag => FlagsOf(end).last)

Intact ==
  {n \in DOMAIN sent :
     \E i \in DOMAIN handed[sent[n][1]] : handed[sent[n][1]][i] = Whole(n, sent[n][2])}

Drained == \A c \in Conns : line[c] = << >> /\ pc[c] = "idle"

\* A lost frame costs at most two packets, its own and the one that finds its
\* pieces in the buffer, and so does a piece that meets one of another connection;
\* all the others arrive whole.  Two threads in parseFrame() at once may cost more.
BoundedDamage ==
  ~ raced /\ Drained => Len(sent) - Cardinality(Intact) <= 2 * (losses + switches)
=============================================================================
