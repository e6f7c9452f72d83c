------------------------------ MODULE QkSerial ------------------------------
(***************************************************************************)
(* The byte framing of the serial worker: QkConnSerialWorker::run() wraps  *)
(* a frame in flag bytes and escapes the bytes in it that look like one;   *)
(* parseSerialData() takes it apart again, a byte at a time.  The firmware *)
(* at the other end of the line uses the same framing, so one direction    *)
(* with the encoder of run() at one end and the decoder of                 *)
(* parseSerialData() at the other stands for both.                         *)
(*                                                                         *)
(* The line may lose, add or change single bytes (LineError).              *)
(***************************************************************************)
EXTENDS Integers, FiniteSets, SequencesExt

CONSTANTS
  FLAG,       \* QK_COMM_FLAG
  DLE,        \* QK_COMM_DLE
  Plain,      \* the other bytes
  Frames,     \* the frames that are sent
  MaxFrames,  \* bound: frames in a behaviour
  MaxErrors   \* bound: bytes that the line damages

Bytes == {FLAG, DLE} \cup Plain

ASSUME BytesAssumption == FLAG # DLE /\ FLAG \notin Plain /\ DLE \notin Plain
\* A frame holds at least the control flags, the code and the checksum.
ASSUME FramesAssumption == Frames \subseteq Seq(Bytes) \ {<< >>}
ASSUME SerialBoundsAssumption == MaxFrames \in Nat /\ MaxErrors \in Nat

VARIABLES
  outFrames,  \* QkConnWorker::m_outputFramesQueue
  line,       \* bytes written to the port and not yet read
  frame,      \* Protocol::frame
  ctrlFlags,  \* Protocol::ctrlFlags, as the set of the flags that are set
  delivered,  \* the frames emitted by frameReady()
  \* History:
  given,      \* the frames given to sendFrame()
  errors      \* how many bytes the line has damaged

vars == <<outFrames, line, frame, ctrlFlags, delivered, given, errors>>

cfReceiving == "cfReceiving"
cfFrameReady == "cfFrameReady"
cfDataLinkEscape == "cfDataLinkEscape"
cfValid == "cfValid"

----------------------------------------------------------------------------
(***************************************************************************)
(* The encoder.                                                            *)
(***************************************************************************)
\* Escaping that forgets the escape byte itself.
EscapeFlagOnly(b) == IF b = FLAG THEN <<DLE, b>> ELSE <<b>>

Escape(b) == IF b \in {FLAG, DLE} THEN <<DLE, b>> ELSE <<b>>

Encode(f) == <<FLAG>> \o FlattenSeq([i \in DOMAIN f |-> Escape(f[i])]) \o <<FLAG>>

----------------------------------------------------------------------------
(***************************************************************************)
(* The decoder, as a function of its state [frame, flags] and a byte.      *)
(***************************************************************************)
\* A flag byte taken as the end of a frame even when nothing came before it.
FlagByteEndsEmpty(s) ==
  IF cfReceiving \notin s.flags
  THEN [frame |-> << >>, flags |-> s.flags \cup {cfReceiving, cfValid}]
  ELSE [s EXCEPT !.flags = (@ \cup {cfFrameReady}) \ {cfReceiving, cfValid}]

\* An unescaped flag byte starts a frame, or ends one that is not empty.
FlagByte(s) ==
  IF cfReceiving \notin s.flags
  THEN [frame |-> << >>, flags |-> s.flags \cup {cfReceiving, cfValid}]
  ELSE IF cfValid \in s.flags /\ s.frame # << >>
  THEN [s EXCEPT !.flags = (@ \cup {cfFrameReady}) \ {cfReceiving, cfValid}]
  ELSE s

\* The end of parseSerialData() without the clearing of cfDataLinkEscape.
DataByteKeepsEscape(s, b) ==
  [s EXCEPT !.frame = IF cfValid \in s.flags THEN Append(@, b) ELSE @]

DataByte(s, b) ==
  [frame |-> IF cfValid \in s.flags THEN Append(s.frame, b) ELSE s.frame,
   flags |-> s.flags \ {cfDataLinkEscape}]

\* parseSerialData() that lets an escape begin outside a frame.
ParseEscapesAnywhere(s, b) ==
  IF b = FLAG /\ cfDataLinkEscape \notin s.flags
  THEN FlagByte(s)
  ELSE IF b = DLE /\ cfDataLinkEscape \notin s.flags
  THEN [s EXCEPT !.flags = @ \cup {cfDataLinkEscape}]
  ELSE DataByte(s, b)

ParseSerialData(s, b) ==
  IF b = FLAG /\ cfDataLinkEscape \notin s.flags
  THEN FlagByte(s)
  ELSE IF b = DLE /\ cfValid \in s.flags /\ cfDataLinkEscape \notin s.flags
  THEN [s EXCEPT !.flags = @ \cup {cfDataLinkEscape}]
  ELSE DataByte(s, b)

----------------------------------------------------------------------------
Init ==
  /\ outFrames = << >>
  /\ line = << >>
  /\ frame = << >>
  /\ ctrlFlags = {}
  /\ delivered = << >>
  /\ given = << >>
  /\ errors = 0

SendFrame(f) ==
  /\ Len(given) < MaxFrames
  /\ given' = Append(given, f)
  /\ outFrames' = Append(outFrames, f)
  /\ UNCHANGED <<line, frame, ctrlFlags, delivered, errors>>

\* A round of run(): one frame is dequeued and written to the port.
Transmit ==
  /\ outFrames # << >>
  /\ outFrames' = Tail(outFrames)
  /\ line' = line \o Encode(Head(outFrames))
  /\ UNCHANGED <<frame, ctrlFlags, delivered, given, errors>>

(***************************************************************************)
(* slotReadyRead() for one byte.  How many bytes readAll() returns makes   *)
(* no difference: the decoder's state outlives the call.                   *)
(***************************************************************************)
ReadByte ==
  /\ line # << >>
  /\ line' = Tail(line)
  /\ LET s == ParseSerialData([frame |-> frame, flags |-> ctrlFlags], Head(line))
     IN  /\ frame' = s.frame
         /\ ctrlFlags' = s.flags \ {cfFrameReady}
         /\ delivered' = IF cfFrameReady \in s.flags
                         THEN Append(delivered, s.frame) ELSE delivered
  /\ UNCHANGED <<outFrames, given, errors>>

\* Line noise: a byte is lost, changed, or appears from nowhere.
LineError ==
  /\ errors < MaxErrors
  /\ errors' = errors + 1
  /\ \E i \in DOMAIN line :
       \/ line' = RemoveAt(line, i)
       \/ \E b \in Bytes \ {line[i]} : line' = ReplaceAt(line, i, b)
       \/ \E b \in Bytes : line' = InsertAt(line, i, b)
  /\ UNCHANGED <<outFrames, frame, ctrlFlags, delivered, given>>

Next == (\E f \in Frames : SendFrame(f)) \/ Transmit \/ ReadByte \/ LineError

Spec == Init /\ [][Next]_vars

\* run() spins and processes the port's events in every round.
FairSpec == Spec /\ WF_vars(Transmit) /\ WF_vars(ReadByte)

----------------------------------------------------------------------------
\* The decoder's flags keep together: an escape is only pending inside a frame,
\* and cfFrameReady never outlives the byte that set it.
TypeOK ==
  /\ line \in Seq(Bytes)
  /\ frame \in Seq(Bytes)
  /\ ctrlFlags \in {{}, {cfReceiving, cfValid},
                    {cfReceiving, cfValid, cfDataLinkEscape}}

\* Over a line without errors the framing is transparent: whatever bytes a frame
\* holds, it arrives whole, once and in order, and every frame does arrive.
Channel == INSTANCE FrameChannel
             WITH queue <- SubSeq(given, Len(delivered) + 1, Len(given))
IsFrameChannel == Channel!Spec

Intact == {i \in DOMAIN delivered : \E k \in DOMAIN given : given[k] = delivered[i]}
Drained == outFrames = << >> /\ line = << >>

\* The decoder finds back into step: a damaged byte costs at most two frames, the
\* one it hits and the one after it, however many follow.
BoundedDamage ==
  Drained => Len(given) - Cardinality(Intact) <= 2 * errors

\* A damaged byte makes the decoder hand on at most two frames that nobody sent,
\* as when the escape of a flag is lost (parse() stores the checksum and compares
\* it with nothing, so such a frame is processed).
BoundedGarbage ==
  Len(delivered) - Cardinality(Intact) <= 2 * errors
=============================================================================
