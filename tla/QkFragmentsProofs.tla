-------------------------- MODULE QkFragmentsProofs --------------------------
(***************************************************************************)
(* Proofs about QkFragments: while no two threads meet in parseFrame(), no *)
(* piece of a packet is handed on twice and a lost frame costs at most two *)
(* packets, for every number of connections, packets, pieces and losses.   *)
(***************************************************************************)
EXTENDS QkFragments, SequenceTheorems, FiniteSetTheorems, TLAPS

----------------------------------------------------------------------------
(***************************************************************************)
(* Types.                                                                  *)
(***************************************************************************)
SentPieces == {p \in Pieces : p.packet \in 1 .. Len(sent)}

Places == {"idle", "parse", "collect", "worker", "protocol"}

TypeInv ==
  /\ sent \in Seq(Conns \X (1 .. MaxPieces)) /\ Len(sent) <= MaxPackets
  /\ line \in [Conns -> Seq(SentPieces)]
  /\ pc \in [Conns -> Places]
  /\ frame \in [Conns -> Seq(SentPieces)]
  /\ flags \in Flags
  /\ data \in Seq(SentPieces)
  /\ fragment \in Seq(SentPieces)
  /\ handed \in [Conns -> Seq(Seq(SentPieces))]
  /\ raced \in BOOLEAN

\* The flags of a frame are what they are.
LEMMA FlagsType == \A p : FlagsOf(p) \in Flags
BY DEF FlagsOf, Flags

\* The pieces of a new packet are new, and from its connection.
LEMMA WholeFacts ==
  ASSUME TypeInv, NEW c \in Conns, NEW k \in 1 .. MaxPieces, DeviceSend(c, k)
  PROVE  /\ Whole(Len(sent) + 1, k) \in Seq(SentPieces') /\ Len(Whole(Len(sent) + 1, k)) = k
         /\ \A i \in 1 .. k : Whole(Len(sent) + 1, k)[i] = [packet |-> Len(sent) + 1, piece |-> i]
         /\ sent' = Append(sent, <<c, k>>) /\ sent' \in Seq(Conns \X (1 .. MaxPieces))
         /\ Len(sent) \in Nat /\ Len(sent') = Len(sent) + 1 /\ Len(sent') <= MaxPackets
         /\ sent'[Len(sent) + 1] = <<c, k>>
         /\ \A n \in 1 .. Len(sent) : sent'[n] = sent[n]
         /\ SentPieces \subseteq SentPieces'
<1>1. k \in Nat /\ MaxPackets \in Nat
  BY FragmentsAssumption
<1>2. /\ sent' = Append(sent, <<c, k>>) /\ sent' \in Seq(Conns \X (1 .. MaxPieces))
      /\ Len(sent) \in Nat /\ Len(sent') = Len(sent) + 1
      /\ sent'[Len(sent) + 1] = <<c, k>>
      /\ \A n \in 1 .. Len(sent) : sent'[n] = sent[n]
  BY AppendProperties, LenProperties DEF TypeInv, DeviceSend
<1>3. Len(sent') <= MaxPackets
  BY <1>1, <1>2 DEF DeviceSend
<1>4. PICK n : n = Len(sent) + 1
  OBVIOUS
<1>5. \A i \in 1 .. k : [packet |-> n, piece |-> i] \in SentPieces'
  <2> SUFFICES ASSUME NEW i \in 1 .. k PROVE [packet |-> n, piece |-> i] \in SentPieces'
    OBVIOUS
  <2>1. i \in 1 .. MaxPieces
    BY <1>1, FragmentsAssumption
  <2>2. n \in 1 .. MaxPackets /\ n \in 1 .. Len(sent')
    BY <1>1, <1>2, <1>3, <1>4
  <2> QED
    BY <2>1, <2>2 DEF SentPieces, Pieces
<1>6. Whole(n, k) \in [1 .. k -> SentPieces']
  BY <1>5 DEF Whole
<1>7. Whole(n, k) \in Seq(SentPieces') /\ Len(Whole(n, k)) = k
  <2>1. Whole(n, k) \in Seq(SentPieces') /\ DOMAIN Whole(n, k) = 1 .. k
    BY <1>1, <1>6, SeqDef
  <2>2. Len(Whole(n, k)) \in Nat /\ DOMAIN Whole(n, k) = 1 .. Len(Whole(n, k))
    BY <2>1, LenProperties
  <2> QED
    BY <1>1, <2>1, <2>2
<1>8. \A i \in 1 .. k : Whole(n, k)[i] = [packet |-> n, piece |-> i]
  BY DEF Whole
<1>9. SentPieces \subseteq SentPieces'
  BY <1>2 DEF SentPieces
<1> QED
  BY <1>2, <1>3, <1>4, <1>7, <1>8, <1>9

\* A frame that is read off the line.
LEMMA HeadFacts ==
  ASSUME TypeInv, NEW c \in Conns, line[c] # << >>
  PROVE  /\ Head(line[c]) \in SentPieces /\ Head(line[c]) = line[c][1]
         /\ Tail(line[c]) \in Seq(SentPieces)
         /\ Len(line[c]) \in Nat \ {0} /\ Len(Tail(line[c])) = Len(line[c]) - 1
         /\ \A i \in 1 .. Len(line[c]) - 1 : Tail(line[c])[i] = line[c][i + 1]
<1>1. line[c] \in Seq(SentPieces)
  BY DEF TypeInv
<1> QED
  BY <1>1, HeadTailProperties, EmptySeq

\* What a thread that collects finds, when it is alone and when it is not.
LEMMA CollectFacts ==
  ASSUME TypeInv, NEW c \in Conns
  PROVE  /\ fragment \o data \in Seq(SentPieces)
         /\ \A buffer \in Collected(c) : buffer \in Seq(SentPieces)
         /\ Others(c) = {} => Collected(c) = {fragment \o data}
<1>1. fragment \o data \in Seq(SentPieces)
  BY ConcatProperties DEF TypeInv
<1> QED
  BY <1>1 DEF Collected, TypeInv

\* The types are inductive.
LEMMA TypeStep == TypeInv /\ [Next]_vars => TypeInv'
<1> SUFFICES ASSUME TypeInv, [Next]_vars PROVE TypeInv'
  OBVIOUS
<1>1. ASSUME NEW c \in Conns, NEW k \in 1 .. MaxPieces, DeviceSend(c, k) PROVE TypeInv'
  <2> DEFINE new == Whole(Len(sent) + 1, k)
  <2>1. SentPieces \subseteq SentPieces' /\ new \in Seq(SentPieces')
    BY <1>1, WholeFacts
  <2>2. \A s \in Seq(SentPieces) : s \in Seq(SentPieces')
    BY <2>1, SeqMonotonic
  <2>3. \A s \in Seq(Seq(SentPieces)) : s \in Seq(Seq(SentPieces'))
    <3>1. Seq(SentPieces) \subseteq Seq(SentPieces')
      BY <2>2
    <3> QED
      BY <3>1, SeqMonotonic
  <2>4. line' = [line EXCEPT ![c] = @ \o new]
    BY <1>1 DEF DeviceSend
  <2> HIDE DEF new
  <2>5. line[c] \o new \in Seq(SentPieces')
    BY <2>1, <2>2, ConcatProperties DEF TypeInv
  <2>6. line' \in [Conns -> Seq(SentPieces')]
    BY <2>2, <2>4, <2>5 DEF TypeInv
  <2>7. /\ frame' \in [Conns -> Seq(SentPieces')] /\ handed' \in [Conns -> Seq(Seq(SentPieces'))]
        /\ data' \in Seq(SentPieces') /\ fragment' \in Seq(SentPieces')
    BY <1>1, <2>2, <2>3 DEF TypeInv, DeviceSend, staticVars
  <2>8. /\ pc' \in [Conns -> Places] /\ flags' \in Flags /\ raced' \in BOOLEAN
        /\ sent' \in Seq(Conns \X (1 .. MaxPieces)) /\ Len(sent') <= MaxPackets
    BY <1>1, WholeFacts DEF TypeInv, DeviceSend, staticVars
  <2> QED
    BY <2>6, <2>7, <2>8 DEF TypeInv
<1>2. ASSUME NEW c \in Conns, LoseFrame(c) PROVE TypeInv'
  <2>1. line' \in [Conns -> Seq(SentPieces)]
    BY <1>2, HeadFacts DEF LoseFrame, TypeInv
  <2> QED
    BY <1>2, <2>1 DEF LoseFrame, TypeInv, staticVars, SentPieces
<1>3. ASSUME NEW c \in Conns, ParseFlags(c) PROVE TypeInv'
  <2>1. line' \in [Conns -> Seq(SentPieces)] /\ <<Head(line[c])>> \in Seq(SentPieces)
    BY <1>3, HeadFacts DEF ParseFlags, TypeInv
  <2>2. frame' \in [Conns -> Seq(SentPieces)] /\ pc' \in [Conns -> Places] /\ raced' \in BOOLEAN
    BY <1>3, <2>1 DEF ParseFlags, TypeInv, Places
  <2>3. flags' \in Flags
    BY <1>3, FlagsType DEF ParseFlags
  <2> QED
    BY <1>3, <2>1, <2>2, <2>3 DEF ParseFlags, TypeInv, SentPieces
<1>4. ASSUME NEW c \in Conns, ParseData(c) PROVE TypeInv'
  <2>1. /\ data' \in Seq(SentPieces) /\ frame' \in [Conns -> Seq(SentPieces)]
        /\ pc' \in [Conns -> Places]
    BY <1>4, EmptySeq DEF ParseData, TypeInv, Places
  <2> QED
    BY <1>4, <2>1 DEF ParseData, TypeInv, SentPieces
<1>5. ASSUME NEW c \in Conns, Collect(c) PROVE TypeInv'
  <2>1. data' \in Seq(SentPieces) /\ fragment' \in Seq(SentPieces)
    BY <1>5, CollectFacts, EmptySeq DEF Collect, TypeInv, AfterLast
  <2>2. pc' \in [Conns -> Places]
    BY <1>5 DEF Collect, TypeInv, Places
  <2> QED
    BY <1>5, <2>1, <2>2 DEF Collect, TypeInv, SentPieces
<1>6. ASSUME NEW c \in Conns, HandToWorker(c) PROVE TypeInv'
  <2>1. pc' \in [Conns -> Places]
    BY <1>6 DEF HandToWorker, TypeInv, Places
  <2> QED
    BY <1>6, <2>1 DEF HandToWorker, TypeInv, SentPieces, staticVars
<1>7. ASSUME NEW c \in Conns, HandToProtocol(c) PROVE TypeInv'
  <2>1. Append(handed[c], data) \in Seq(Seq(SentPieces))
    BY AppendProperties DEF TypeInv
  <2>2. handed' \in [Conns -> Seq(Seq(SentPieces))] /\ pc' \in [Conns -> Places]
    BY <1>7, <2>1 DEF HandToProtocol, TypeInv, Places
  <2> QED
    BY <1>7, <2>2 DEF HandToProtocol, TypeInv, SentPieces, staticVars
<1>8. CASE UNCHANGED vars
  BY <1>8 DEF vars, staticVars, TypeInv, SentPieces
<1> QED
  BY <1>1, <1>2, <1>3, <1>4, <1>5, <1>6, <1>7, <1>8 DEF Next

\* They hold at the start.
LEMMA TypeInit == Init => TypeInv
<1> SUFFICES ASSUME Init PROVE TypeInv
  OBVIOUS
<1>1. Len(sent) = 0 /\ sent = << >> /\ MaxPackets \in Nat
  BY EmptySeq, FragmentsAssumption DEF Init
<1>2. /\ sent \in Seq(Conns \X (1 .. MaxPieces)) /\ Len(sent) <= MaxPackets
      /\ data \in Seq(SentPieces) /\ fragment \in Seq(SentPieces)
  BY <1>1, EmptySeq DEF Init
<1>3. line \in [Conns -> Seq(SentPieces)] /\ frame \in [Conns -> Seq(SentPieces)]
  BY EmptySeq DEF Init
<1>4. handed \in [Conns -> Seq(Seq(SentPieces))]
  BY EmptySeq DEF Init
<1>5. pc \in [Conns -> Places] /\ flags \in Flags /\ raced \in BOOLEAN
  BY DEF Init, Places, Flags
<1> QED
  BY <1>2, <1>3, <1>4, <1>5 DEF TypeInv

----------------------------------------------------------------------------
(***************************************************************************)
(* The pieces in a sequence.                                               *)
(***************************************************************************)
On(s) == {s[i] : i \in 1 .. Len(s)}

Distinct(s) == \A i, j \in 1 .. Len(s) : i # j => s[i] # s[j]

\* The pieces of a sequence are members of what it is a sequence of.
LEMMA OnSet ==
  ASSUME NEW S, NEW s \in Seq(S)
  PROVE  On(s) \subseteq S /\ On(s) = {s[i] : i \in DOMAIN s} /\ On(<< >>) = {}
<1>1. Len(s) \in Nat /\ DOMAIN s = 1 .. Len(s) /\ \A i \in 1 .. Len(s) : s[i] \in S
  BY LenProperties, ElementOfSeq
<1>2. Len(<< >>) = 0
  BY EmptySeq
<1> QED
  BY <1>1, <1>2 DEF On

\* The one piece of a frame.
LEMMA OnOne ==
  ASSUME NEW S, NEW x \in S
  PROVE  <<x>> \in Seq(S) /\ On(<<x>>) = {x} /\ <<x>> # << >> /\ Len(<<x>>) = 1 /\ <<x>>[1] = x
<1>1. <<x>> \in Seq(S) /\ Len(<<x>>) = 1 /\ <<x>>[1] = x
  OBVIOUS
<1> QED
  BY <1>1, EmptySeq DEF On

\* Concatenation puts the pieces together.
LEMMA OnConcat ==
  ASSUME NEW S, NEW s \in Seq(S), NEW t \in Seq(S)
  PROVE  On(s \o t) = On(s) \cup On(t)
<1> DEFINE u == s \o t
<1>1. /\ u \in Seq(S) /\ Len(u) = Len(s) + Len(t) /\ Len(s) \in Nat /\ Len(t) \in Nat
      /\ \A i \in 1 .. Len(u) : u[i] = IF i <= Len(s) THEN s[i] ELSE t[i - Len(s)]
  BY ConcatProperties, LenProperties
<1> HIDE DEF u
<1>2. ASSUME NEW x \in On(u) PROVE x \in On(s) \cup On(t)
  <2>1. PICK i \in 1 .. Len(u) : x = u[i]
    BY DEF On
  <2>2. CASE i <= Len(s)
    BY <1>1, <2>1, <2>2 DEF On
  <2>3. CASE ~ i <= Len(s)
    <3>1. i - Len(s) \in 1 .. Len(t) /\ x = t[i - Len(s)]
      BY <1>1, <2>1, <2>3
    <3> QED
      BY <3>1 DEF On
  <2> QED
    BY <2>2, <2>3
<1>3. ASSUME NEW x \in On(s) PROVE x \in On(u)
  <2>1. PICK i \in 1 .. Len(s) : x = s[i]
    BY DEF On
  <2>2. i \in 1 .. Len(u) /\ u[i] = x
    BY <1>1, <2>1
  <2> QED
    BY <2>2 DEF On
<1>4. ASSUME NEW x \in On(t) PROVE x \in On(u)
  <2>1. PICK i \in 1 .. Len(t) : x = t[i]
    BY DEF On
  <2>2. i + Len(s) \in 1 .. Len(u) /\ ~ i + Len(s) <= Len(s) /\ (i + Len(s)) - Len(s) = i
    BY <1>1
  <2>3. u[i + Len(s)] = x
    BY <1>1, <2>1, <2>2
  <2> QED
    BY <2>2, <2>3 DEF On
<1> QED
  BY <1>2, <1>3, <1>4 DEF u

\* A line of distinct frames stays one when its first frame is taken off, and that
\* frame is on it no longer.
LEMMA OnTail ==
  ASSUME NEW S, NEW s \in Seq(S), s # << >>, Distinct(s)
  PROVE  /\ Distinct(Tail(s)) /\ On(Tail(s)) \subseteq On(s)
         /\ Head(s) \in On(s) /\ Head(s) \notin On(Tail(s))
<1> DEFINE t == Tail(s)
<1>1. /\ Len(s) \in Nat \ {0} /\ Len(t) = Len(s) - 1 /\ Head(s) = s[1]
      /\ \A i \in 1 .. Len(t) : t[i] = s[i + 1]
  BY HeadTailProperties, EmptySeq
<1> HIDE DEF t
<1>2. \A i \in 1 .. Len(t) : i + 1 \in 1 .. Len(s) /\ i + 1 # 1
  BY <1>1
<1>3. 1 \in 1 .. Len(s)
  BY <1>1
<1>4. Distinct(t)
  <2> SUFFICES ASSUME NEW i \in 1 .. Len(t), NEW j \in 1 .. Len(t), i # j PROVE t[i] # t[j]
    BY DEF Distinct
  <2>1. i + 1 # j + 1
    OBVIOUS
  <2> QED
    BY <1>1, <1>2, <2>1 DEF Distinct
<1>5. On(t) \subseteq On(s) /\ Head(s) \in On(s)
  BY <1>1, <1>2, <1>3 DEF On
<1>6. Head(s) \notin On(t)
  BY <1>1, <1>2, <1>3 DEF On, Distinct
<1> QED
  BY <1>4, <1>5, <1>6 DEF t

\* Distinct frames behind others that are none of them.
LEMMA DistinctConcat ==
  ASSUME NEW S, NEW s \in Seq(S), NEW t \in Seq(S), Distinct(s), Distinct(t),
         On(s) \cap On(t) = {}
  PROVE  Distinct(s \o t)
<1> DEFINE u == s \o t
<1>1. /\ u \in Seq(S) /\ Len(u) = Len(s) + Len(t) /\ Len(s) \in Nat /\ Len(t) \in Nat
      /\ \A i \in 1 .. Len(u) : u[i] = IF i <= Len(s) THEN s[i] ELSE t[i - Len(s)]
  BY ConcatProperties, LenProperties
<1> HIDE DEF u
<1>2. \A i \in 1 .. Len(u) :
        \/ i \in 1 .. Len(s) /\ u[i] = s[i] /\ u[i] \in On(s)
        \/ ~ i <= Len(s) /\ i - Len(s) \in 1 .. Len(t) /\ u[i] = t[i - Len(s)] /\ u[i] \in On(t)
  BY <1>1 DEF On
<1>3. ASSUME NEW i \in 1 .. Len(u), NEW j \in 1 .. Len(u), i # j PROVE u[i] # u[j]
  <2>1. CASE i \in 1 .. Len(s) /\ j \in 1 .. Len(s)
    <3>1. u[i] = s[i] /\ u[j] = s[j]
      BY <1>1, <2>1
    <3> QED
      BY <1>3, <2>1, <3>1 DEF Distinct
  <2>2. CASE ~ i <= Len(s) /\ ~ j <= Len(s)
    <3>1. i - Len(s) # j - Len(s) /\ i - Len(s) \in 1 .. Len(t) /\ j - Len(s) \in 1 .. Len(t)
      BY <1>1, <1>3, <2>2
    <3>2. u[i] = t[i - Len(s)] /\ u[j] = t[j - Len(s)]
      BY <1>1, <2>2
    <3> QED
      BY <3>1, <3>2 DEF Distinct
  <2>3. CASE (i \in 1 .. Len(s) /\ ~ j <= Len(s)) \/ (j \in 1 .. Len(s) /\ ~ i <= Len(s))
    <3>1. \/ u[i] \in On(s) /\ u[j] \in On(t)
          \/ u[j] \in On(s) /\ u[i] \in On(t)
      BY <1>1, <1>2, <2>3
    <3> QED
      BY <3>1
  <2> QED
    BY <1>1, <2>1, <2>2, <2>3
<1> QED
  BY <1>3 DEF Distinct, u

----------------------------------------------------------------------------
(***************************************************************************)
(* While no two threads have met, a piece is on a line, in the one thread  *)
(* that is in parseFrame(), in the buffer or in what was handed on, and    *)
(* never in two of them.                                                   *)
(***************************************************************************)
OneThread == \A c, d \in Conns : pc[c] # "idle" /\ pc[d] # "idle" => c = d

LinesOK == \A c \in Conns : Distinct(line[c]) /\ \A p \in On(line[c]) : From(p) = c

\* A packet that ends with a piece of connection c that completes it.
EndsWell(packet, c) ==
  /\ packet # << >>
  /\ From(packet[Len(packet)]) = c
  /\ Complete(FlagsOf(packet[Len(packet)]))

\* A packet of one piece, of connection c.
OneOf(packet, c) == \E p \in SentPieces : packet = <<p>> /\ From(p) = c /\ flags = FlagsOf(p)

ThreadOK ==
  \A c \in Conns :
    /\ pc[c] = "parse" => OneOf(frame[c], c)
    /\ pc[c] = "collect" => OneOf(data, c)
    /\ pc[c] \in {"worker", "protocol"} => EndsWell(data, c)

BufferOK == \A p \in On(fragment) : FlagsOf(p).frag /\ ~ FlagsOf(p).last

OnLines == UNION {On(line[c]) : c \in Conns}

InThread(c) ==
  CASE pc[c] = "idle" -> {}
    [] pc[c] = "parse" -> On(frame[c])
    [] OTHER -> On(data)

InThreads == UNION {InThread(c) : c \in Conns}

HandedOn == UNION {On(handed[h[1]][h[2]]) : h \in Handed}

Apart ==
  /\ OnLines \cap InThreads = {} /\ OnLines \cap On(fragment) = {} /\ OnLines \cap HandedOn = {}
  /\ InThreads \cap On(fragment) = {} /\ InThreads \cap HandedOn = {}
  /\ On(fragment) \cap HandedOn = {}

HandedOK ==
  /\ \A g, h \in Handed : g # h => On(handed[g[1]][g[2]]) \cap On(handed[h[1]][h[2]]) = {}
  /\ \A h \in Handed : EndsWell(handed[h[1]][h[2]], h[1])

AloneInv == OneThread /\ LinesOK /\ ThreadOK /\ BufferOK /\ Apart /\ HandedOK

\* What was sent stays what it was.
LEMMA SentStays ==
  ASSUME TypeInv, NEW c \in Conns, NEW k \in 1 .. MaxPieces, DeviceSend(c, k)
  PROVE  \A p \in SentPieces : From(p)' = From(p) /\ FlagsOf(p)' = FlagsOf(p)
<1> SUFFICES ASSUME NEW p \in SentPieces PROVE From(p)' = From(p) /\ FlagsOf(p)' = FlagsOf(p)
  OBVIOUS
<1>1. sent'[p.packet] = sent[p.packet]
  BY WholeFacts DEF SentPieces
<1> QED
  BY <1>1 DEF From, FlagsOf

\* What was handed on, and all there is of it, are pieces that were sent.
LEMMA HandedFacts ==
  ASSUME TypeInv
  PROVE  /\ \A h \in Handed : h[1] \in Conns /\ h[2] \in 1 .. Len(handed[h[1]])
                              /\ handed[h[1]][h[2]] \in Seq(SentPieces)
         /\ \A h \in Handed : Contents(h) = On(handed[h[1]][h[2]])
         /\ \A c \in Conns : \A i \in 1 .. Len(handed[c]) : <<c, i>> \in Handed
         /\ OnLines \subseteq SentPieces /\ InThreads \subseteq SentPieces
         /\ On(fragment) \subseteq SentPieces /\ HandedOn \subseteq SentPieces
<1>1. \A c \in Conns : /\ handed[c] \in Seq(Seq(SentPieces))
                       /\ DOMAIN handed[c] = 1 .. Len(handed[c])
                       /\ \A i \in 1 .. Len(handed[c]) : handed[c][i] \in Seq(SentPieces)
  BY LenProperties, ElementOfSeq DEF TypeInv
<1>2. \A h \in Handed : \E c \in Conns : \E i \in 1 .. Len(handed[c]) : h = <<c, i>>
  BY <1>1 DEF Handed
<1>3. \A h \in Handed : h[1] \in Conns /\ h[2] \in 1 .. Len(handed[h[1]])
                        /\ handed[h[1]][h[2]] \in Seq(SentPieces)
  BY <1>1, <1>2
<1>4. \A h \in Handed : Contents(h) = On(handed[h[1]][h[2]]) /\ On(handed[h[1]][h[2]]) \subseteq SentPieces
  BY <1>3, OnSet DEF Contents
<1>5. \A c \in Conns : \A i \in 1 .. Len(handed[c]) : <<c, i>> \in Handed
  BY <1>1 DEF Handed
<1>6. On(data) \subseteq SentPieces /\ On(fragment) \subseteq SentPieces
  BY OnSet DEF TypeInv
<1>7. \A c \in Conns : On(line[c]) \subseteq SentPieces /\ On(frame[c]) \subseteq SentPieces
  BY OnSet DEF TypeInv
<1>8. OnLines \subseteq SentPieces /\ InThreads \subseteq SentPieces
  BY <1>6, <1>7 DEF OnLines, InThreads, InThread
<1> QED
  BY <1>3, <1>4, <1>5, <1>6, <1>8 DEF HandedOn

\* A thread that finds nobody else in parseFrame().
LEMMA AloneThreads ==
  ASSUME OneThread, NEW c \in Conns, pc[c] # "idle"
  PROVE  Others(c) = {} /\ InThreads = InThread(c) /\ \A d \in Conns \ {c} : pc[d] = "idle"
<1>1. \A d \in Conns \ {c} : pc[d] = "idle"
  BY DEF OneThread
<1>2. \A d \in Conns \ {c} : InThread(d) = {}
  BY <1>1 DEF InThread
<1> QED
  BY <1>1, <1>2 DEF Others, InThreads

\* A device's packet.
LEMMA AloneSend ==
  ASSUME TypeInv, AloneInv, NEW c \in Conns, NEW k \in 1 .. MaxPieces, DeviceSend(c, k)
  PROVE  AloneInv'
<1> DEFINE new == Whole(Len(sent) + 1, k)
<1>1. /\ new \in Seq(SentPieces') /\ Len(new) = k
      /\ \A i \in 1 .. k : new[i] = [packet |-> Len(sent) + 1, piece |-> i]
      /\ Len(sent) \in Nat /\ sent'[Len(sent) + 1] = <<c, k>>
      /\ SentPieces \subseteq SentPieces'
  BY WholeFacts
<1>2. line' = [line EXCEPT ![c] = @ \o new]
      /\ UNCHANGED <<pc, frame, flags, data, fragment, handed>>
  BY DEF DeviceSend, staticVars
<1> HIDE DEF new
<1>3. \A p \in SentPieces : From(p)' = From(p) /\ FlagsOf(p)' = FlagsOf(p)
  BY SentStays
<1>4. \A p \in On(new) : p \notin SentPieces /\ From(p)' = c
  <2> SUFFICES ASSUME NEW p \in On(new) PROVE p \notin SentPieces /\ From(p)' = c
    OBVIOUS
  <2>1. PICK i \in 1 .. k : p = [packet |-> Len(sent) + 1, piece |-> i]
    BY <1>1 DEF On
  <2>2. p.packet = Len(sent) + 1 /\ ~ p.packet \in 1 .. Len(sent)
    BY <1>1, <2>1
  <2> QED
    BY <1>1, <2>2 DEF SentPieces, From
<1>5. Distinct(new)
  BY <1>1 DEF Distinct
<1>6. line[c] \in Seq(SentPieces) /\ line[c] \in Seq(SentPieces')
  BY <1>1, SeqMonotonic DEF TypeInv
<1>7. On(line[c]) \subseteq SentPieces /\ On(line[c] \o new) = On(line[c]) \cup On(new)
  BY <1>1, <1>6, OnSet, OnConcat
<1>8. Distinct(line[c] \o new)
  <2>1. On(line[c]) \cap On(new) = {}
    BY <1>4, <1>7
  <2> QED
    BY <1>1, <1>5, <1>6, <2>1, DistinctConcat DEF AloneInv, LinesOK
<1>9. line'[c] = line[c] \o new /\ \A d \in Conns \ {c} : line'[d] = line[d]
  BY <1>2 DEF TypeInv
<1>10. \A d \in Conns : On(line[d]) \subseteq SentPieces
  BY OnSet DEF TypeInv
<1>11. LinesOK'
  <2> SUFFICES ASSUME NEW d \in Conns
               PROVE  Distinct(line'[d]) /\ \A p \in On(line'[d]) : From(p)' = d
    BY DEF LinesOK, Distinct, On
  <2>1. CASE d = c
    BY <1>3, <1>4, <1>7, <1>8, <1>9, <2>1 DEF AloneInv, LinesOK
  <2>2. CASE d # c
    BY <1>3, <1>9, <1>10, <2>2 DEF AloneInv, LinesOK
  <2> QED
    BY <2>1, <2>2
<1>12. OneThread'
  BY <1>2 DEF AloneInv, OneThread
<1>13. \A packet \in Seq(SentPieces) : \A d \in Conns : EndsWell(packet, d) => EndsWell(packet, d)'
  <2> SUFFICES ASSUME NEW packet \in Seq(SentPieces), NEW d \in Conns, EndsWell(packet, d)
               PROVE  EndsWell(packet, d)'
    OBVIOUS
  <2>1. Len(packet) \in Nat \ {0} /\ packet[Len(packet)] \in SentPieces
    BY LenProperties, EmptySeq, ElementOfSeq DEF EndsWell
  <2> QED
    BY <1>3, <2>1 DEF EndsWell, Complete
<1>14. ThreadOK'
  <2> SUFFICES ASSUME NEW d \in Conns
               PROVE  /\ pc[d] = "parse" => OneOf(frame[d], d)'
                      /\ pc[d] = "collect" => OneOf(data, d)'
                      /\ pc[d] \in {"worker", "protocol"} => EndsWell(data, d)'
    BY <1>2 DEF ThreadOK
  <2>1. OneOf(frame[d], d) => OneOf(frame[d], d)'
    BY <1>1, <1>2, <1>3 DEF OneOf
  <2>2. OneOf(data, d) => OneOf(data, d)'
    BY <1>1, <1>2, <1>3 DEF OneOf
  <2>3. EndsWell(data, d) => EndsWell(data, d)'
    BY <1>2, <1>3, <1>13 DEF TypeInv, EndsWell
  <2> QED
    BY <2>1, <2>2, <2>3 DEF AloneInv, ThreadOK
<1>15. BufferOK'
  <2>1. On(fragment)' = On(fragment) /\ On(fragment) \subseteq SentPieces
    BY <1>2, HandedFacts DEF On
  <2> QED
    BY <1>3, <2>1 DEF AloneInv, BufferOK
<1>16. /\ InThreads' = InThreads /\ On(fragment)' = On(fragment) /\ HandedOn' = HandedOn
       /\ Handed' = Handed
  BY <1>2 DEF InThreads, InThread, On, HandedOn, Handed
<1>17. OnLines' = OnLines \cup On(new)
  <2>1. On(line[c])' = On(line[c]) \cup On(new)
    <3>1. On(line[c])' = On(line[c] \o new)
      BY <1>9 DEF On
    <3> QED
      BY <1>7, <3>1
  <2>2. \A d \in Conns \ {c} : On(line[d])' = On(line[d])
    BY <1>9 DEF On
  <2> QED
    BY <2>1, <2>2 DEF OnLines
<1>18. Apart'
  <2>1. On(new) \cap SentPieces = {}
    BY <1>4
  <2> QED
    BY <1>16, <1>17, <2>1, HandedFacts DEF AloneInv, Apart
<1>19. HandedOK'
  <2>1. \A h \in Handed : On(handed[h[1]][h[2]])' = On(handed[h[1]][h[2]])
    BY <1>2 DEF On
  <2>2. \A h \in Handed : EndsWell(handed[h[1]][h[2]], h[1])'
    <3> SUFFICES ASSUME NEW h \in Handed PROVE EndsWell(handed[h[1]][h[2]], h[1])'
      OBVIOUS
    <3>1. /\ handed[h[1]][h[2]] \in Seq(SentPieces) /\ h[1] \in Conns
          /\ EndsWell(handed[h[1]][h[2]], h[1])
      BY HandedFacts DEF AloneInv, HandedOK
    <3> QED
      BY <1>2, <1>13, <3>1 DEF EndsWell
  <2> QED
    BY <1>16, <2>1, <2>2 DEF AloneInv, HandedOK
<1> QED
  BY <1>11, <1>12, <1>14, <1>15, <1>18, <1>19 DEF AloneInv

\* A frame leaves its line, for the thread or for good.
LEMMA TakeFrame ==
  ASSUME TypeInv, LinesOK, NEW c \in Conns, line[c] # << >>,
         line' = [line EXCEPT ![c] = Tail(@)], UNCHANGED sent
  PROVE  /\ LinesOK' /\ OnLines' \subseteq OnLines
         /\ Head(line[c]) \in OnLines /\ Head(line[c]) \notin OnLines'
         /\ From(Head(line[c])) = c
<1>1. line[c] \in Seq(SentPieces) /\ Distinct(line[c]) /\ \A p \in On(line[c]) : From(p) = c
  BY DEF TypeInv, LinesOK
<1>2. /\ Distinct(Tail(line[c])) /\ On(Tail(line[c])) \subseteq On(line[c])
      /\ Head(line[c]) \in On(line[c]) /\ Head(line[c]) \notin On(Tail(line[c]))
  BY <1>1, OnTail
<1>3. line'[c] = Tail(line[c]) /\ \A d \in Conns \ {c} : line'[d] = line[d]
  BY DEF TypeInv
<1>4. \A p : From(p)' = From(p)
  BY DEF From
<1>5. LinesOK'
  <2> SUFFICES ASSUME NEW d \in Conns
               PROVE  Distinct(line'[d]) /\ \A p \in On(line'[d]) : From(p)' = d
    BY DEF LinesOK, Distinct, On
  <2>1. CASE d = c
    BY <1>1, <1>2, <1>3, <1>4, <2>1
  <2>2. CASE d # c
    BY <1>3, <1>4, <2>2 DEF LinesOK
  <2> QED
    BY <2>1, <2>2
<1>6. /\ \A d \in Conns \ {c} : On(line[d])' = On(line[d])
      /\ On(line[c])' = On(Tail(line[c]))
  BY <1>3 DEF On
<1>7. OnLines' \subseteq OnLines /\ Head(line[c]) \in OnLines
  BY <1>2, <1>6 DEF OnLines
<1>8. \A d \in Conns \ {c} : Head(line[c]) \notin On(line[d])
  BY <1>1, <1>2 DEF LinesOK
<1>9. Head(line[c]) \notin OnLines'
  BY <1>2, <1>6, <1>8 DEF OnLines
<1> QED
  BY <1>1, <1>2, <1>5, <1>7, <1>9

\* What does not change when nothing is handed on.
LEMMA HandedStays ==
  ASSUME HandedOK, UNCHANGED <<handed, sent>>
  PROVE  HandedOK' /\ HandedOn' = HandedOn
<1>1. Handed' = Handed /\ \A h \in Handed : On(handed[h[1]][h[2]])' = On(handed[h[1]][h[2]])
  BY DEF Handed, On
<1>2. \A h \in Handed : EndsWell(handed[h[1]][h[2]], h[1])' = EndsWell(handed[h[1]][h[2]], h[1])
  BY DEF EndsWell, From, FlagsOf, Complete
<1> QED
  BY <1>1, <1>2 DEF HandedOK, HandedOn

\* A lost frame.
LEMMA AloneLose ==
  ASSUME TypeInv, AloneInv, NEW c \in Conns, LoseFrame(c)
  PROVE  AloneInv'
<1>1. LinesOK' /\ OnLines' \subseteq OnLines
  BY TakeFrame DEF AloneInv, LoseFrame
<1>2. UNCHANGED <<pc, frame, flags, data, fragment, sent, handed>>
  BY DEF LoseFrame, staticVars
<1>3. HandedOK' /\ HandedOn' = HandedOn
  BY <1>2, HandedStays DEF AloneInv
<1>4. InThreads' = InThreads /\ On(fragment)' = On(fragment)
  BY <1>2 DEF InThreads, InThread, On
<1>5. OneThread' /\ BufferOK'
  BY <1>2 DEF AloneInv, OneThread, BufferOK, On, FlagsOf
<1>6. ThreadOK'
  BY <1>2 DEF AloneInv, ThreadOK, OneOf, EndsWell, From, FlagsOf, Complete, SentPieces
<1>7. Apart'
  BY <1>1, <1>3, <1>4 DEF AloneInv, Apart
<1> QED
  BY <1>1, <1>3, <1>5, <1>6, <1>7 DEF AloneInv

\* A thread that enters parseFrame() while nobody is there.
LEMMA AloneParseFlags ==
  ASSUME TypeInv, AloneInv, NEW c \in Conns, ParseFlags(c), ~ raced'
  PROVE  AloneInv'
<1> PICK x : x = Head(line[c])
  OBVIOUS
<1>1. /\ LinesOK' /\ OnLines' \subseteq OnLines
      /\ x \in OnLines /\ x \notin OnLines' /\ From(x) = c
  BY TakeFrame DEF AloneInv, ParseFlags
<1>2. x \in SentPieces
  BY HeadFacts DEF ParseFlags
<1>3. /\ frame' = [frame EXCEPT ![c] = <<x>>] /\ flags' = FlagsOf(x)
      /\ pc' = [pc EXCEPT ![c] = "parse"] /\ pc[c] = "idle"
      /\ UNCHANGED <<data, fragment, sent, handed>>
  BY DEF ParseFlags
<1>4. HandedOK' /\ HandedOn' = HandedOn /\ On(fragment)' = On(fragment)
  BY <1>3, HandedStays DEF AloneInv, On
<1>5. \A d \in Conns \ {c} : pc[d] = "idle"
  BY DEF ParseFlags, Others, TypeInv
<1>6. pc'[c] = "parse" /\ frame'[c] = <<x>> /\ \A d \in Conns \ {c} : pc'[d] = "idle"
  BY <1>3, <1>5 DEF TypeInv
<1>7. OneThread'
  BY <1>6 DEF OneThread
<1>8. On(frame[c])' = {x}
  BY <1>2, <1>6, OnOne DEF On
<1>9. InThreads' = {x}
  <2>1. InThread(c)' = {x}
    BY <1>6, <1>8 DEF InThread
  <2>2. \A d \in Conns \ {c} : InThread(d)' = {}
    BY <1>6 DEF InThread
  <2> QED
    BY <2>1, <2>2 DEF InThreads
<1>10. ThreadOK'
  <2>1. OneOf(frame[c], c)'
    BY <1>1, <1>2, <1>3, <1>6 DEF OneOf, From, FlagsOf, SentPieces
  <2> SUFFICES ASSUME NEW d \in Conns
               PROVE  /\ pc'[d] = "parse" => OneOf(frame[d], d)'
                      /\ pc'[d] = "collect" => OneOf(data, d)'
                      /\ pc'[d] \in {"worker", "protocol"} => EndsWell(data, d)'
    BY DEF ThreadOK
  <2>2. CASE d = c
    BY <1>6, <2>1, <2>2
  <2>3. CASE d # c
    BY <1>6, <2>3
  <2> QED
    BY <2>2, <2>3
<1>11. BufferOK'
  BY <1>3 DEF AloneInv, BufferOK, On, FlagsOf
<1>12. Apart'
  BY <1>1, <1>4, <1>9 DEF AloneInv, Apart
<1> QED
  BY <1>1, <1>4, <1>7, <1>10, <1>11, <1>12 DEF AloneInv

\* The thread parses the data of its frame.
LEMMA AloneParseData ==
  ASSUME TypeInv, AloneInv, NEW c \in Conns, ParseData(c)
  PROVE  AloneInv'
<1>1. /\ pc[c] = "parse" /\ data' = frame[c] /\ pc' = [pc EXCEPT ![c] = "collect"]
      /\ frame' = [frame EXCEPT ![c] = << >>]
      /\ UNCHANGED <<line, flags, fragment, sent, handed>>
  BY DEF ParseData
<1>2. InThreads = On(frame[c]) /\ \A d \in Conns \ {c} : pc[d] = "idle"
  BY <1>1, AloneThreads DEF AloneInv, InThread
<1>3. pc'[c] = "collect" /\ \A d \in Conns \ {c} : pc'[d] = "idle"
  BY <1>1, <1>2 DEF TypeInv
<1>4. OneThread'
  BY <1>3 DEF OneThread
<1>5. HandedOK' /\ HandedOn' = HandedOn
  BY <1>1, HandedStays DEF AloneInv
<1>6. LinesOK' /\ BufferOK' /\ OnLines' = OnLines /\ On(fragment)' = On(fragment)
  BY <1>1 DEF AloneInv, LinesOK, BufferOK, OnLines, Distinct, On, From, FlagsOf
<1>7. InThreads' = InThreads
  <2>1. InThread(c)' = On(frame[c])
    BY <1>1, <1>3 DEF InThread, On
  <2>2. \A d \in Conns \ {c} : InThread(d)' = {}
    BY <1>3 DEF InThread
  <2> QED
    BY <1>2, <2>1, <2>2 DEF InThreads
<1>8. ThreadOK'
  <2>1. OneOf(frame[c], c)
    BY <1>1 DEF AloneInv, ThreadOK
  <2>2. OneOf(data, c)'
    BY <1>1, <2>1 DEF OneOf, From, FlagsOf, SentPieces
  <2> SUFFICES ASSUME NEW d \in Conns
               PROVE  /\ pc'[d] = "parse" => OneOf(frame[d], d)'
                      /\ pc'[d] = "collect" => OneOf(data, d)'
                      /\ pc'[d] \in {"worker", "protocol"} => EndsWell(data, d)'
    BY DEF ThreadOK
  <2>3. CASE d = c
    BY <1>3, <2>2, <2>3
  <2>4. CASE d # c
    BY <1>3, <2>4
  <2> QED
    BY <2>3, <2>4
<1>9. Apart'
  BY <1>5, <1>6, <1>7 DEF AloneInv, Apart
<1> QED
  BY <1>4, <1>5, <1>6, <1>8, <1>9 DEF AloneInv

\* The thread puts its piece into the buffer, or takes what is there with it.
LEMMA AloneCollect ==
  ASSUME TypeInv, AloneInv, NEW c \in Conns, Collect(c)
  PROVE  AloneInv'
<1>1. /\ pc[c] = "collect" /\ UNCHANGED <<line, frame, flags, sent, handed>>
      /\ pc' = [pc EXCEPT ![c] = IF Complete(flags) THEN "worker" ELSE "idle"]
  BY DEF Collect
<1>2. Others(c) = {} /\ InThreads = On(data) /\ \A d \in Conns \ {c} : pc[d] = "idle"
  BY <1>1, AloneThreads DEF AloneInv, InThread
<1>3. /\ pc'[c] = IF Complete(flags) THEN "worker" ELSE "idle"
      /\ \A d \in Conns \ {c} : pc'[d] = "idle"
  BY <1>1, <1>2 DEF TypeInv
<1>4. PICK p \in SentPieces : data = <<p>> /\ From(p) = c /\ flags = FlagsOf(p)
  BY <1>1 DEF AloneInv, ThreadOK, OneOf
<1>5. /\ <<p>> \in Seq(SentPieces) /\ On(<<p>>) = {p} /\ <<p>> # << >>
      /\ Len(<<p>>) = 1 /\ <<p>>[1] = p
  BY OnOne
<1>6. /\ fragment \in Seq(SentPieces) /\ On(fragment \o <<p>>) = On(fragment) \cup {p}
  <2>1. fragment \in Seq(SentPieces)
    BY DEF TypeInv
  <2>2. On(fragment \o <<p>>) = On(fragment) \cup On(<<p>>)
    BY <1>5, <2>1, OnConcat
  <2> QED
    BY <1>5, <2>1, <2>2
<1>7. From(p)' = From(p) /\ \A q : FlagsOf(q)' = FlagsOf(q)
  BY <1>1 DEF From, FlagsOf
<1>8. HandedOK' /\ HandedOn' = HandedOn
  BY <1>1, HandedStays DEF AloneInv
<1>9. LinesOK' /\ OnLines' = OnLines
  BY <1>1 DEF AloneInv, LinesOK, OnLines, Distinct, On, From
<1>10. CASE ~ flags.frag
  <2>1. UNCHANGED <<data, fragment>>
    BY <1>10 DEF Collect
  <2>2. Complete(flags) /\ pc'[c] = "worker"
    BY <1>3, <1>10 DEF Complete
  <2>3. EndsWell(data, c)'
    BY <1>4, <1>5, <1>7, <2>1, <2>2 DEF EndsWell, Complete
  <2>4. OneThread' /\ ThreadOK' /\ InThreads' = On(data)'
    <3>1. /\ \A d \in Conns \ {c} : pc'[d] = "idle"
          /\ pc'[c] \in {"worker", "protocol"} /\ pc'[c] # "idle"
      BY <1>3, <2>2
    <3>2. OneThread'
      BY <3>1 DEF OneThread
    <3>3. ThreadOK'
      BY <2>2, <2>3, <3>1 DEF ThreadOK
    <3>4. InThread(c)' = On(data)' /\ \A d \in Conns \ {c} : InThread(d)' = {}
      BY <2>2, <3>1 DEF InThread
    <3> QED
      BY <3>2, <3>3, <3>4 DEF InThreads
  <2>5. On(data)' = On(data) /\ On(fragment)' = On(fragment) /\ BufferOK'
    BY <1>7, <2>1 DEF AloneInv, BufferOK, On
  <2>6. Apart'
    BY <1>2, <1>8, <1>9, <2>4, <2>5 DEF AloneInv, Apart
  <2> QED
    BY <1>8, <1>9, <2>4, <2>5, <2>6 DEF AloneInv
<1>11. CASE flags.frag /\ Complete(flags)
  <2>1. data' = fragment \o <<p>> /\ fragment' = << >>
    BY <1>2, <1>4, <1>11, CollectFacts DEF Collect, AfterLast
  <2>2. pc'[c] = "worker"
    BY <1>3, <1>11
  <2>3. EndsWell(data, c)'
    <3> PICK t : t = fragment \o <<p>>
      OBVIOUS
    <3>1. t \in Seq(SentPieces) /\ Len(t) = Len(fragment) + 1 /\ Len(fragment) \in Nat
          /\ t[Len(t)] = p
      BY <1>5, <1>6, ConcatProperties, LenProperties
    <3>2. t # << >>
      BY <3>1, EmptySeq
    <3> QED
      BY <1>4, <1>7, <1>11, <2>1, <3>1, <3>2 DEF EndsWell, Complete
  <2>4. OneThread' /\ ThreadOK' /\ InThreads' = On(data)'
    <3>1. /\ \A d \in Conns \ {c} : pc'[d] = "idle"
          /\ pc'[c] \in {"worker", "protocol"} /\ pc'[c] # "idle"
      BY <1>3, <2>2
    <3>2. OneThread'
      BY <3>1 DEF OneThread
    <3>3. ThreadOK'
      BY <2>2, <2>3, <3>1 DEF ThreadOK
    <3>4. InThread(c)' = On(data)' /\ \A d \in Conns \ {c} : InThread(d)' = {}
      BY <2>2, <3>1 DEF InThread
    <3> QED
      BY <3>2, <3>3, <3>4 DEF InThreads
  <2>5. On(data)' = On(fragment) \cup {p} /\ On(fragment)' = {} /\ On(data) = {p}
    <3>1. On(<< >>) = {}
      BY <1>5, OnSet
    <3> QED
      BY <1>4, <1>5, <1>6, <2>1, <3>1 DEF On
  <2>6. BufferOK'
    BY <2>5 DEF BufferOK
  <2>7. Apart'
    BY <1>2, <1>8, <1>9, <2>4, <2>5 DEF AloneInv, Apart
  <2> QED
    BY <1>8, <1>9, <2>4, <2>6, <2>7 DEF AloneInv
<1>12. CASE flags.frag /\ ~ Complete(flags)
  <2>1. data' = data /\ fragment' = fragment \o <<p>>
    BY <1>2, <1>4, <1>12, CollectFacts DEF Collect
  <2>2. pc'[c] = "idle"
    BY <1>3, <1>12
  <2>3. \A d \in Conns : pc'[d] = "idle"
    BY <1>3, <2>2
  <2>4. OneThread' /\ ThreadOK' /\ InThreads' = {}
    BY <2>3 DEF OneThread, ThreadOK, InThreads, InThread
  <2>5. On(fragment)' = On(fragment) \cup {p} /\ On(data) = {p}
    BY <1>4, <1>5, <1>6, <2>1 DEF On
  <2>6. BufferOK'
    BY <1>4, <1>7, <1>12, <2>5 DEF AloneInv, BufferOK, Complete
  <2>7. Apart'
    BY <1>2, <1>8, <1>9, <2>4, <2>5 DEF AloneInv, Apart
  <2> QED
    BY <1>8, <1>9, <2>4, <2>6, <2>7 DEF AloneInv
<1> QED
  BY <1>10, <1>11, <1>12

\* The worker passes the packet on.
LEMMA AloneToWorker ==
  ASSUME TypeInv, AloneInv, NEW c \in Conns, HandToWorker(c)
  PROVE  AloneInv'
<1>1. /\ pc[c] = "worker" /\ pc' = [pc EXCEPT ![c] = "protocol"]
      /\ UNCHANGED <<line, frame, flags, data, fragment, sent, handed>>
  BY DEF HandToWorker, staticVars
<1>2. InThreads = On(data) /\ \A d \in Conns \ {c} : pc[d] = "idle"
  BY <1>1, AloneThreads DEF AloneInv, InThread
<1>3. pc'[c] = "protocol" /\ \A d \in Conns \ {c} : pc'[d] = "idle"
  BY <1>1, <1>2 DEF TypeInv
<1>4. HandedOK' /\ HandedOn' = HandedOn
  BY <1>1, HandedStays DEF AloneInv
<1>5. LinesOK' /\ BufferOK' /\ OnLines' = OnLines /\ On(fragment)' = On(fragment)
  BY <1>1 DEF AloneInv, LinesOK, BufferOK, OnLines, Distinct, On, From, FlagsOf
<1>6. EndsWell(data, c)'
  BY <1>1 DEF AloneInv, ThreadOK, EndsWell, From, FlagsOf, Complete
<1>7. OneThread' /\ ThreadOK'
  BY <1>3, <1>6 DEF OneThread, ThreadOK
<1>8. InThreads' = InThreads
  <2>1. InThread(c)' = On(data) /\ \A d \in Conns \ {c} : InThread(d)' = {}
    BY <1>1, <1>3 DEF InThread, On
  <2> QED
    BY <1>2, <2>1 DEF InThreads
<1>9. Apart'
  BY <1>4, <1>5, <1>8 DEF AloneInv, Apart
<1> QED
  BY <1>4, <1>5, <1>7, <1>9 DEF AloneInv

\* The packet reaches the protocol.
LEMMA AloneToProtocol ==
  ASSUME TypeInv, AloneInv, NEW c \in Conns, HandToProtocol(c)
  PROVE  AloneInv'
<1>1. /\ pc[c] = "protocol" /\ pc' = [pc EXCEPT ![c] = "idle"]
      /\ handed' = [handed EXCEPT ![c] = Append(@, data)]
      /\ UNCHANGED <<line, frame, flags, data, fragment, sent>>
  BY DEF HandToProtocol, staticVars
<1>2. InThreads = On(data) /\ \A d \in Conns \ {c} : pc[d] = "idle"
  BY <1>1, AloneThreads DEF AloneInv, InThread
<1>3. \A d \in Conns : pc'[d] = "idle"
  BY <1>1, <1>2 DEF TypeInv
<1>4. OneThread' /\ ThreadOK' /\ InThreads' = {}
  BY <1>3 DEF OneThread, ThreadOK, InThreads, InThread
<1>5. LinesOK' /\ BufferOK' /\ OnLines' = OnLines /\ On(fragment)' = On(fragment)
  BY <1>1 DEF AloneInv, LinesOK, BufferOK, OnLines, Distinct, On, From, FlagsOf
<1> PICK new : new = <<c, Len(handed[c]) + 1>>
  OBVIOUS
<1>6. /\ handed[c] \in Seq(Seq(SentPieces)) /\ Len(handed[c]) \in Nat
      /\ handed'[c] = Append(handed[c], data) /\ \A d \in Conns \ {c} : handed'[d] = handed[d]
  BY <1>1, LenProperties DEF TypeInv
<1>7. /\ handed'[c] \in Seq(Seq(SentPieces)) /\ Len(handed'[c]) = Len(handed[c]) + 1
      /\ \A i \in 1 .. Len(handed[c]) : handed'[c][i] = handed[c][i]
      /\ handed'[c][Len(handed[c]) + 1] = data
  BY <1>6, AppendProperties DEF TypeInv
<1>8. /\ \A h \in Handed : handed'[h[1]][h[2]] = handed[h[1]][h[2]]
      /\ handed'[new[1]][new[2]] = data
  <2>1. \A h \in Handed : h[1] \in Conns /\ h[2] \in 1 .. Len(handed[h[1]])
    BY HandedFacts
  <2>2. ASSUME NEW h \in Handed PROVE handed'[h[1]][h[2]] = handed[h[1]][h[2]]
    <3>1. CASE h[1] = c
      BY <1>7, <2>1, <3>1
    <3>2. CASE h[1] # c
      BY <1>6, <2>1, <3>2
    <3> QED
      BY <3>1, <3>2
  <2>3. new[1] = c /\ new[2] = Len(handed[c]) + 1
    OBVIOUS
  <2>4. handed'[new[1]][new[2]] = data
    BY <1>7, <2>3
  <2> QED
    BY <2>2, <2>4
<1>9. Handed' = Handed \cup {new}
  <2>1. \A d \in Conns : DOMAIN handed[d] = 1 .. Len(handed[d])
    BY LenProperties DEF TypeInv
  <2>2. DOMAIN handed'[c] = DOMAIN handed[c] \cup {Len(handed[c]) + 1}
    <3>1. DOMAIN handed'[c] = 1 .. Len(handed[c]) + 1
      BY <1>7, LenProperties
    <3> QED
      BY <1>6, <2>1, <3>1
  <2>3. {<<c, i>> : i \in DOMAIN handed'[c]} = {<<c, i>> : i \in DOMAIN handed[c]} \cup {new}
    BY <2>2
  <2>4. \A d \in Conns \ {c} : {<<d, i>> : i \in DOMAIN handed'[d]} = {<<d, i>> : i \in DOMAIN handed[d]}
    BY <1>6
  <2> QED
    BY <2>3, <2>4 DEF Handed
<1>10. /\ \A h \in Handed : On(handed[h[1]][h[2]])' = On(handed[h[1]][h[2]])
       /\ On(handed[new[1]][new[2]])' = On(data)
  BY <1>8 DEF On
<1>11. HandedOn' = HandedOn \cup On(data)
  BY <1>9, <1>10 DEF HandedOn
<1>12. /\ \A h \in Handed : On(handed[h[1]][h[2]]) \subseteq HandedOn
       /\ On(data) \cap HandedOn = {}
  BY <1>2 DEF HandedOn, AloneInv, Apart
<1>13. HandedOK'
  <2>1. \A h \in Handed : EndsWell(handed[h[1]][h[2]], h[1])'
    BY <1>1, <1>8 DEF AloneInv, HandedOK, EndsWell, From, FlagsOf, Complete
  <2>2. EndsWell(handed[new[1]][new[2]], new[1])'
    BY <1>1, <1>8 DEF AloneInv, ThreadOK, EndsWell, From, FlagsOf, Complete
  <2>3. \A g, h \in Handed : g # h => On(handed[g[1]][g[2]])' \cap On(handed[h[1]][h[2]])' = {}
    BY <1>10 DEF AloneInv, HandedOK
  <2>4. \A h \in Handed : On(handed[new[1]][new[2]])' \cap On(handed[h[1]][h[2]])' = {}
    BY <1>10, <1>12
  <2>5. \A g, h \in Handed' : g # h => On(handed[g[1]][g[2]])' \cap On(handed[h[1]][h[2]])' = {}
    BY <1>9, <2>3, <2>4
  <2> QED
    BY <1>9, <2>1, <2>2, <2>5 DEF HandedOK
<1>14. Apart'
  BY <1>2, <1>4, <1>5, <1>11 DEF AloneInv, Apart
<1> QED
  BY <1>4, <1>5, <1>13, <1>14 DEF AloneInv

----------------------------------------------------------------------------
(***************************************************************************)
(* The invariant, and what follows from it.                                *)
(***************************************************************************)
FragmentsInv == TypeInv /\ (~ raced => AloneInv)

\* At the start there is no piece anywhere.
LEMMA FragmentsInit == Init => FragmentsInv
<1> SUFFICES ASSUME Init PROVE FragmentsInv
  OBVIOUS
<1>1. TypeInv
  BY TypeInit
<1>2. /\ \A c \in Conns : line[c] = << >> /\ pc[c] = "idle" /\ handed[c] = << >>
      /\ fragment = << >> /\ Len(<< >>) = 0 /\ DOMAIN << >> = {}
  BY EmptySeq DEF Init
<1>3. On(<< >>) = {} /\ Distinct(<< >>)
  BY <1>2 DEF On, Distinct
<1>4. OneThread /\ LinesOK /\ ThreadOK /\ BufferOK
  BY <1>2, <1>3 DEF OneThread, LinesOK, ThreadOK, BufferOK
<1>5. OnLines = {} /\ InThreads = {} /\ Handed = {} /\ On(fragment) = {}
  BY <1>2, <1>3 DEF OnLines, InThreads, InThread, Handed
<1>6. Apart /\ HandedOK
  BY <1>5 DEF Apart, HandedOK, HandedOn
<1> QED
  BY <1>1, <1>4, <1>6 DEF FragmentsInv, AloneInv

\* Every step keeps it, those of a thread that meets no other.
LEMMA FragmentsStep == FragmentsInv /\ [Next]_vars => FragmentsInv'
<1> SUFFICES ASSUME FragmentsInv, [Next]_vars PROVE FragmentsInv'
  OBVIOUS
<1>1. TypeInv /\ TypeInv'
  BY TypeStep DEF FragmentsInv
<1>2. ASSUME ~ raced' PROVE AloneInv'
  <2>1. CASE UNCHANGED vars
    <3>1. ~ raced /\ UNCHANGED <<line, pc, frame, flags, data, fragment, sent, handed>>
      BY <1>2, <2>1 DEF vars, staticVars
    <3>2. AloneInv
      BY <3>1 DEF FragmentsInv
    <3>3. HandedOK' /\ HandedOn' = HandedOn
      BY <3>1, <3>2, HandedStays DEF AloneInv
    <3>4. OneThread' /\ LinesOK' /\ BufferOK'
      BY <3>1, <3>2 DEF AloneInv, OneThread, LinesOK, BufferOK, Distinct, On, From, FlagsOf
    <3>5. ThreadOK'
      BY <3>1, <3>2 DEF AloneInv, ThreadOK, OneOf, EndsWell, From, FlagsOf, Complete, SentPieces
    <3>6. OnLines' = OnLines /\ InThreads' = InThreads /\ On(fragment)' = On(fragment)
      BY <3>1 DEF OnLines, InThreads, InThread, On
    <3>7. Apart'
      BY <3>2, <3>3, <3>6 DEF AloneInv, Apart
    <3> QED
      BY <3>3, <3>4, <3>5, <3>7 DEF AloneInv
  <2>2. ASSUME NEW c \in Conns, NEW k \in 1 .. MaxPieces, DeviceSend(c, k) PROVE AloneInv'
    BY <1>1, <1>2, <2>2, AloneSend DEF FragmentsInv, DeviceSend
  <2>3. ASSUME NEW c \in Conns, LoseFrame(c) PROVE AloneInv'
    BY <1>1, <1>2, <2>3, AloneLose DEF FragmentsInv, LoseFrame
  <2>4. ASSUME NEW c \in Conns, ParseFlags(c) PROVE AloneInv'
    BY <1>1, <1>2, <2>4, AloneParseFlags DEF FragmentsInv, ParseFlags
  <2>5. ASSUME NEW c \in Conns, ParseData(c) PROVE AloneInv'
    BY <1>1, <1>2, <2>5, AloneParseData DEF FragmentsInv, ParseData
  <2>6. ASSUME NEW c \in Conns, Collect(c) PROVE AloneInv'
    BY <1>1, <1>2, <2>6, AloneCollect DEF FragmentsInv, Collect
  <2>7. ASSUME NEW c \in Conns, HandToWorker(c) PROVE AloneInv'
    BY <1>1, <1>2, <2>7, AloneToWorker DEF FragmentsInv, HandToWorker
  <2>8. ASSUME NEW c \in Conns, HandToProtocol(c) PROVE AloneInv'
    BY <1>1, <1>2, <2>8, AloneToProtocol DEF FragmentsInv, HandToProtocol
  <2> QED
    BY <2>1, <2>2, <2>3, <2>4, <2>5, <2>6, <2>7, <2>8 DEF Next
<1> QED
  BY <1>1, <1>2 DEF FragmentsInv

\* The invariant holds in every reachable state.
LEMMA FragmentsSafe == Spec => []FragmentsInv
<1> QED
  BY FragmentsInit, FragmentsStep, PTL DEF Spec

\* The variables keep their kinds, and while no two threads have met the static
\* fragment buffer of parseFrame() holds pieces of incomplete packets only.
THEOREM BufferIsIncomplete == Spec => []TypeOK
<1>1. FragmentsInv => TypeOK
  <2> SUFFICES ASSUME FragmentsInv PROVE TypeOK
    OBVIOUS
  <2>1. TypeInv /\ SentPieces \subseteq Pieces
    BY DEF FragmentsInv, SentPieces
  <2>2. \A s \in Seq(SentPieces) : s \in Seq(Pieces)
    BY <2>1, SeqMonotonic
  <2>3. /\ line \in [Conns -> Seq(Pieces)] /\ frame \in [Conns -> Seq(Pieces)]
        /\ data \in Seq(Pieces) /\ fragment \in Seq(Pieces)
    BY <2>1, <2>2 DEF TypeInv
  <2>4. ASSUME ~ raced, NEW i \in DOMAIN fragment
        PROVE  ~ FlagsOf(fragment[i]).last /\ FlagsOf(fragment[i]).frag
    <3>1. On(fragment) = {fragment[j] : j \in DOMAIN fragment}
      BY <2>1, OnSet DEF TypeInv
    <3> QED
      BY <2>4, <3>1 DEF FragmentsInv, AloneInv, BufferOK
  <2> QED
    BY <2>1, <2>3, <2>4 DEF TypeOK, TypeInv, Places
<1> QED
  BY <1>1, FragmentsSafe, PTL

\* While no two threads have met in parseFrame(), no piece of a packet is handed on
\* twice, and what is handed on ends with a piece that came over its own connection
\* and completes its packet, whatever frames were lost before.
THEOREM PiecesAreHandedOnOnce == Spec => []PiecesOnce
<1>1. FragmentsInv => PiecesOnce
  <2> SUFFICES ASSUME FragmentsInv, ~ raced PROVE PiecesOnce
    BY DEF PiecesOnce
  <2>1. TypeInv /\ HandedOK
    BY DEF FragmentsInv, AloneInv
  <2>2. \A h \in Handed : Contents(h) = On(handed[h[1]][h[2]])
    BY <2>1, HandedFacts
  <2>3. \A g, h \in Handed : g # h => Contents(g) \cap Contents(h) = {}
    BY <2>1, <2>2 DEF HandedOK
  <2> QED
    BY <2>1, <2>3 DEF HandedOK, PiecesOnce, EndsWell, Complete
<1> QED
  BY <1>1, FragmentsSafe, PTL

----------------------------------------------------------------------------
(***************************************************************************)
(* What a lost frame costs.  A packet is alive as long as it may still     *)
(* arrive whole; each loss, and each piece that meets one of another       *)
(* connection, pays for two packets that are not.                          *)
(***************************************************************************)
Source(n) == sent[n][1]
Cut(n) == sent[n][2]
PieceOf(n, i) == [packet |-> n, piece |-> i]

IsOn(n, i) == PieceOf(n, i) \in On(line[Source(n)])
RestOn(n, i) == \A j \in i .. Cut(n) : IsOn(n, j)
Followed(r) == r.piece <= Cut(r.packet) /\ RestOn(r.packet, r.piece)

\* Whether a thread has piece p and has not collected it.
Held(p) ==
  \E c \in Conns : (pc[c] = "parse" /\ frame[c] = <<p>>) \/ (pc[c] = "collect" /\ data = <<p>>)

\* The order of the pieces.
Precedes(q, r) == q.packet < r.packet \/ (q.packet = r.packet /\ q.piece < r.piece)
Rising(s) == \A i, j \in 1 .. Len(s) : i < j => Precedes(s[i], s[j])

\* The pieces of a connection stay in order, and the rest of a packet is on the line
\* behind each of its pieces there.
Ordered ==
  /\ \A c \in Conns : Rising(line[c]) /\ \A r \in On(line[c]) : Followed(r)
  /\ \A p \in SentPieces : Held(p) => \A r \in On(line[From(p)]) : Precedes(p, r)
  /\ \A q \in On(fragment) : \A r \in On(line[From(q)]) : Precedes(q, r)
  /\ \A q \in On(fragment) : \A p \in SentPieces : Held(p) /\ From(p) = From(q) => Precedes(q, p)

\* Where the pieces of a packet are that may still arrive whole.
Arrived(n) == \E i \in DOMAIN handed[Source(n)] : handed[Source(n)][i] = Whole(n, Cut(n))
Passing(n) == pc[Source(n)] \in {"worker", "protocol"} /\ data = Whole(n, Cut(n))
Coming(n) == RestOn(n, 1)
Collecting(n) == \E i \in 1 .. Cut(n) - 1 : fragment = Whole(n, i) /\ RestOn(n, i + 1)
Holding(n) ==
  \E i \in 1 .. Cut(n) :
    Held(PieceOf(n, i)) /\ (i = 1 \/ fragment = Whole(n, i - 1)) /\ RestOn(n, i + 1)

Alive(n) == Arrived(n) \/ Passing(n) \/ Coming(n) \/ Collecting(n) \/ Holding(n)

Living == {n \in 1 .. Len(sent) : Alive(n)}

\* The piece that would complete the packet is not on the line.
Gone(n) == ~ IsOn(n, Cut(n))

\* The next packet of a connection will find its buffer not empty ...
StaleBuffer ==
  LET n == fragment[Len(fragment)].packet
  IN  fragment # << >> /\ Gone(n) /\ ~ \E p \in SentPieces : Held(p) /\ p.packet = n

\* ... or will do so once the piece that a thread holds is collected.
StaleHeld == \E p \in SentPieces : Held(p) /\ p.piece # Cut(p.packet) /\ Gone(p.packet)

One(b) == IF b THEN 1 ELSE 0

Paid ==
  /\ losses \in Nat /\ switches \in Nat
  /\ (Len(sent) - Cardinality(Living)) + One(StaleBuffer) + One(StaleHeld) <= 2 * (losses + switches)

\* The first frame of a line that rises precedes the rest.
LEMMA RisingTail ==
  ASSUME NEW S, NEW s \in Seq(S), s # << >>, Rising(s)
  PROVE  /\ Rising(Tail(s)) /\ On(s) = {Head(s)} \cup On(Tail(s))
         /\ \A r \in On(Tail(s)) : Precedes(Head(s), r)
<1> DEFINE t == Tail(s)
<1>1. /\ Len(s) \in Nat \ {0} /\ Len(t) = Len(s) - 1 /\ Head(s) = s[1]
      /\ \A i \in 1 .. Len(t) : t[i] = s[i + 1]
  BY HeadTailProperties, EmptySeq
<1> HIDE DEF t
<1>2. \A i \in 1 .. Len(t) : i + 1 \in 1 .. Len(s) /\ 1 < i + 1
  BY <1>1
<1>3. 1 \in 1 .. Len(s)
  BY <1>1
<1>4. Rising(t)
  <2> SUFFICES ASSUME NEW i \in 1 .. Len(t), NEW j \in 1 .. Len(t), i < j PROVE Precedes(t[i], t[j])
    BY DEF Rising
  <2>1. i + 1 < j + 1
    OBVIOUS
  <2>2. Precedes(s[i + 1], s[j + 1])
    BY <1>2, <2>1 DEF Rising
  <2> QED
    BY <1>1, <2>2
<1>5. \A r \in On(t) : Precedes(Head(s), r)
  <2> SUFFICES ASSUME NEW i \in 1 .. Len(t) PROVE Precedes(s[1], t[i])
    BY <1>1 DEF On
  <2>1. Precedes(s[1], s[i + 1])
    BY <1>2, <1>3 DEF Rising
  <2> QED
    BY <1>1, <2>1
<1>6. On(t) \subseteq On(s) /\ Head(s) \in On(s)
  BY <1>1, <1>2, <1>3 DEF On
<1>7. ASSUME NEW i \in 1 .. Len(s) PROVE s[i] = s[1] \/ s[i] \in On(t)
  <2>1. CASE i = 1
    BY <2>1
  <2>2. CASE i # 1
    <3>1. i - 1 \in 1 .. Len(t) /\ (i - 1) + 1 = i
      BY <1>1, <2>2
    <3>2. t[i - 1] = s[i]
      BY <1>1, <3>1
    <3> QED
      BY <3>1, <3>2 DEF On
  <2> QED
    BY <2>1, <2>2
<1>8. On(s) \subseteq {Head(s)} \cup On(t)
  BY <1>1, <1>7 DEF On
<1> QED
  BY <1>4, <1>5, <1>6, <1>8 DEF t

\* Two lines that rise, the one behind the other.
LEMMA RisingConcat ==
  ASSUME NEW S, NEW s \in Seq(S), NEW t \in Seq(S), Rising(s), Rising(t),
         \A q \in On(s) : \A r \in On(t) : Precedes(q, r)
  PROVE  Rising(s \o t)
<1> DEFINE u == s \o t
<1>1. /\ u \in Seq(S) /\ Len(u) = Len(s) + Len(t) /\ Len(s) \in Nat /\ Len(t) \in Nat
      /\ \A i \in 1 .. Len(u) : u[i] = IF i <= Len(s) THEN s[i] ELSE t[i - Len(s)]
  BY ConcatProperties, LenProperties
<1> HIDE DEF u
<1>2. ASSUME NEW i \in 1 .. Len(u), NEW j \in 1 .. Len(u), i < j PROVE Precedes(u[i], u[j])
  <2>1. CASE j <= Len(s)
    <3>1. i \in 1 .. Len(s) /\ j \in 1 .. Len(s) /\ u[i] = s[i] /\ u[j] = s[j]
      BY <1>1, <1>2, <2>1
    <3> QED
      BY <1>2, <3>1 DEF Rising
  <2>2. CASE ~ i <= Len(s)
    <3>1. i - Len(s) \in 1 .. Len(t) /\ j - Len(s) \in 1 .. Len(t) /\ i - Len(s) < j - Len(s)
      BY <1>1, <1>2, <2>2
    <3>2. ~ j <= Len(s)
      BY <1>1, <1>2, <2>2
    <3>3. u[i] = t[i - Len(s)] /\ u[j] = t[j - Len(s)]
      BY <1>1, <2>2, <3>2
    <3>4. Precedes(t[i - Len(s)], t[j - Len(s)])
      BY <3>1 DEF Rising
    <3> QED
      BY <3>3, <3>4
  <2>3. CASE i <= Len(s) /\ ~ j <= Len(s)
    <3>1. i \in 1 .. Len(s) /\ j - Len(s) \in 1 .. Len(t)
      BY <1>1, <2>3
    <3>2. u[i] = s[i] /\ u[j] = t[j - Len(s)]
      BY <1>1, <2>3
    <3>3. s[i] \in On(s) /\ t[j - Len(s)] \in On(t)
      BY <3>1 DEF On
    <3> QED
      BY <3>2, <3>3
  <2> QED
    BY <2>1, <2>2, <2>3
<1> QED
  BY <1>2 DEF Rising, u

\* If all the living but those of K stay alive, so many are left.
LEMMA Spared ==
  ASSUME NEW n \in Nat, NEW L, NEW M, NEW K,
         L \subseteq 1 .. n, M \subseteq 1 .. n, IsFiniteSet(K), L \subseteq M \cup K
  PROVE  /\ Cardinality(L) \in Nat /\ Cardinality(M) \in Nat /\ Cardinality(K) \in Nat
         /\ Cardinality(L) <= Cardinality(M) + Cardinality(K)
<1>1. IsFiniteSet(1 .. n)
  BY FS_Interval
<1>2. IsFiniteSet(L) /\ IsFiniteSet(M)
  BY <1>1, FS_Subset
<1>3. /\ IsFiniteSet(M \cup K) /\ IsFiniteSet(M \cap K)
      /\ Cardinality(M \cup K) = Cardinality(M) + Cardinality(K) - Cardinality(M \cap K)
  BY <1>2, FS_Union, FS_Intersection
<1>4. Cardinality(L) <= Cardinality(M \cup K)
  BY <1>3, FS_Subset
<1>5. /\ Cardinality(L) \in Nat /\ Cardinality(M) \in Nat /\ Cardinality(K) \in Nat
      /\ Cardinality(M \cap K) \in Nat
  BY <1>2, <1>3, FS_CardinalityType
<1> QED
  BY <1>3, <1>4, <1>5

\* What is known of the pieces and the packets that were sent.
LEMMA PieceFacts ==
  ASSUME TypeInv
  PROVE  /\ \A n \in 1 .. Len(sent) : Source(n) \in Conns /\ Cut(n) \in 1 .. MaxPieces /\ Cut(n) \in Nat
         /\ \A p \in SentPieces :
              /\ p = PieceOf(p.packet, p.piece)
              /\ p.packet \in 1 .. Len(sent) /\ p.piece \in 1 .. MaxPieces
              /\ p.packet \in Nat /\ p.piece \in Nat
              /\ From(p) = Source(p.packet) /\ From(p) \in Conns
              /\ FlagsOf(p).frag <=> Cut(p.packet) > 1
              /\ FlagsOf(p).last <=> Cut(p.packet) > 1 /\ p.piece = Cut(p.packet)
         /\ \A n, i : PieceOf(n, i).packet = n /\ PieceOf(n, i).piece = i
         /\ Len(sent) \in Nat
<1>1. Len(sent) \in Nat /\ \A n \in 1 .. Len(sent) : sent[n] \in Conns \X (1 .. MaxPieces)
  BY LenProperties, ElementOfSeq DEF TypeInv
<1>2. \A n \in 1 .. Len(sent) : Source(n) \in Conns /\ Cut(n) \in 1 .. MaxPieces
  BY <1>1 DEF Source, Cut
<1>3. \A n, i : PieceOf(n, i).packet = n /\ PieceOf(n, i).piece = i
  BY DEF PieceOf
<1>4. ASSUME NEW p \in SentPieces
      PROVE  /\ p = PieceOf(p.packet, p.piece)
             /\ p.packet \in 1 .. Len(sent) /\ p.piece \in 1 .. MaxPieces
  BY DEF SentPieces, Pieces, PieceOf
<1>5. ASSUME NEW p \in SentPieces
      PROVE  /\ From(p) = Source(p.packet)
             /\ FlagsOf(p).frag <=> Cut(p.packet) > 1
             /\ FlagsOf(p).last <=> Cut(p.packet) > 1 /\ p.piece = Cut(p.packet)
  BY DEF From, Source, FlagsOf, Cut
<1>6. MaxPieces \in Nat
  BY FragmentsAssumption
<1>7. \A n \in 1 .. Len(sent) : Cut(n) \in Nat
  BY <1>2, <1>6
<1>8. \A p \in SentPieces : p.packet \in Nat /\ p.piece \in Nat
  BY <1>1, <1>4, <1>6
<1> QED
  BY <1>1, <1>2, <1>3, <1>4, <1>5, <1>7, <1>8

\* A packet piece by piece.
LEMMA WholeIs ==
  ASSUME NEW n, NEW k \in Nat
  PROVE  /\ Whole(n, k) \in Seq({PieceOf(n, i) : i \in 1 .. k}) /\ Len(Whole(n, k)) = k
         /\ \A i \in 1 .. k : Whole(n, k)[i] = PieceOf(n, i)
         /\ On(Whole(n, k)) = {PieceOf(n, i) : i \in 1 .. k}
<1> DEFINE S == {PieceOf(n, i) : i \in 1 .. k}
<1>1. \A i \in 1 .. k : PieceOf(n, i) \in S
  OBVIOUS
<1>2. Whole(n, k) = [i \in 1 .. k |-> PieceOf(n, i)]
  BY DEF Whole, PieceOf
<1> HIDE DEF S
<1>3. Whole(n, k) \in [1 .. k -> S] /\ \A i \in 1 .. k : Whole(n, k)[i] = PieceOf(n, i)
  BY <1>1, <1>2
<1>4. Whole(n, k) \in Seq(S)
  BY <1>3, SeqDef
<1>5. Len(Whole(n, k)) = k
  <2>1. DOMAIN Whole(n, k) = 1 .. k
    BY <1>3
  <2>2. Len(Whole(n, k)) \in Nat /\ DOMAIN Whole(n, k) = 1 .. Len(Whole(n, k))
    BY <1>4, LenProperties
  <2> QED
    BY <2>1, <2>2
<1>6. On(Whole(n, k)) = S
  BY <1>3, <1>5 DEF On, S
<1> QED
  BY <1>3, <1>4, <1>5, <1>6 DEF S

\* One piece more.
LEMMA WholeGrows ==
  ASSUME NEW n, NEW k \in Nat
  PROVE  /\ Whole(n, k) \o <<PieceOf(n, k + 1)>> = Whole(n, k + 1)
         /\ <<PieceOf(n, 1)>> = Whole(n, 1)
         /\ << >> = Whole(n, 0)
<1> DEFINE S == {PieceOf(n, i) : i \in 1 .. k + 1}
<1>0. PICK x : x = PieceOf(n, k + 1)
  OBVIOUS
<1>1. x \in S /\ \A i \in 1 .. k : PieceOf(n, i) \in S
  BY <1>0
<1> HIDE DEF S
<1>2. PICK w : w = Whole(n, k)
  OBVIOUS
<1>3. w \in [1 .. k -> S] /\ \A i \in 1 .. k : w[i] = PieceOf(n, i)
  BY <1>1, <1>2 DEF Whole, PieceOf
<1>4. w \in Seq(S) /\ Len(w) = k
  BY <1>2, <1>3, SeqDef, WholeIs
<1>5. <<x>> \in Seq(S) /\ Len(<<x>>) = 1 /\ <<x>>[1] = x
  BY <1>1
<1>6. PICK v : v = <<x>>
  OBVIOUS
<1>7. PICK u : u = w \o v
  OBVIOUS
<1>8. /\ u \in Seq(S) /\ Len(u) = k + 1
      /\ \A i \in 1 .. k + 1 : u[i] = IF i <= k THEN w[i] ELSE v[i - k]
  BY <1>4, <1>5, <1>6, <1>7, ConcatProperties
<1>9. \A i \in 1 .. k + 1 : u[i] = PieceOf(n, i)
  <2> SUFFICES ASSUME NEW i \in 1 .. k + 1 PROVE u[i] = PieceOf(n, i)
    OBVIOUS
  <2>1. CASE i <= k
    <3>1. i \in 1 .. k
      BY <2>1
    <3> QED
      BY <1>3, <1>8, <2>1, <3>1
  <2>2. CASE ~ i <= k
    <3>1. i = k + 1 /\ i - k = 1
      BY <2>2
    <3>2. u[i] = v[1]
      BY <1>8, <2>2, <3>1
    <3> QED
      BY <1>0, <1>5, <1>6, <3>1, <3>2
  <2> QED
    BY <2>1, <2>2
<1>10. DOMAIN u = 1 .. k + 1 /\ u \in [1 .. k + 1 -> S]
  BY <1>8, LenProperties
<1>11. u = Whole(n, k + 1)
  BY <1>9, <1>10 DEF Whole, PieceOf
<1>12. <<PieceOf(n, 1)>> = Whole(n, 1)
  BY DEF Whole, PieceOf
<1>13. << >> = Whole(n, 0)
  BY DEF Whole
<1> QED
  BY <1>0, <1>2, <1>6, <1>7, <1>11, <1>12, <1>13

\* Where no thread has a piece that it did not collect.
LEMMA NoneHeld ==
  ASSUME \A d \in Conns : pc[d] \notin {"parse", "collect"}
  PROVE  (\A p : ~ Held(p)) /\ ~ StaleHeld
BY DEF Held, StaleHeld

\* The one piece that the one thread in parseFrame() has.
LEMMA OneHeld ==
  ASSUME TypeInv, AloneInv, NEW c \in Conns, pc[c] \in {"parse", "collect"}
  PROVE  \E p \in SentPieces :
           /\ From(p) = c /\ flags = FlagsOf(p)
           /\ pc[c] = "parse" => frame[c] = <<p>>
           /\ pc[c] = "collect" => data = <<p>>
           /\ Held(p) /\ \A q : Held(q) => q = p
<1>1. \A d \in Conns \ {c} : pc[d] = "idle"
  BY AloneThreads DEF AloneInv
<1>2. CASE pc[c] = "parse"
  <2>1. PICK p \in SentPieces : frame[c] = <<p>> /\ From(p) = c /\ flags = FlagsOf(p)
    BY <1>2 DEF AloneInv, ThreadOK, OneOf
  <2>2. \A q : Held(q) => <<q>> = <<p>>
    BY <1>1, <1>2, <2>1 DEF Held
  <2>3. Held(p)
    BY <1>2, <2>1 DEF Held
  <2> QED
    BY <1>2, <2>1, <2>2, <2>3
<1>3. CASE pc[c] = "collect"
  <2>1. PICK p \in SentPieces : data = <<p>> /\ From(p) = c /\ flags = FlagsOf(p)
    BY <1>3 DEF AloneInv, ThreadOK, OneOf
  <2>2. \A q : Held(q) => <<q>> = <<p>>
    BY <1>1, <1>3, <2>1 DEF Held
  <2>3. Held(p)
    BY <1>3, <2>1 DEF Held
  <2> QED
    BY <1>3, <2>1, <2>2, <2>3
<1> QED
  BY <1>2, <1>3

\* The last piece in the buffer.
LEMMA BufferEnd ==
  ASSUME TypeInv, fragment # << >>
  PROVE  /\ fragment[Len(fragment)] \in On(fragment) /\ fragment[Len(fragment)] \in SentPieces
         /\ \A n, i : i \in Nat /\ fragment = Whole(n, i) => fragment[Len(fragment)] = PieceOf(n, i)
<1>1. fragment \in Seq(SentPieces) /\ Len(fragment) \in Nat \ {0}
  BY EmptySeq, LenProperties DEF TypeInv
<1>2. Len(fragment) \in 1 .. Len(fragment)
  BY <1>1
<1>3. fragment[Len(fragment)] \in On(fragment) /\ On(fragment) \subseteq SentPieces
  BY <1>1, <1>2, OnSet DEF On
<1>4. ASSUME NEW n, NEW i \in Nat, fragment = Whole(n, i)
      PROVE  fragment[Len(fragment)] = PieceOf(n, i)
  <2>1. Len(fragment) = i
    BY <1>4, WholeIs
  <2>2. i \in 1 .. i
    BY <1>1, <2>1
  <2> QED
    BY <1>4, <2>1, <2>2, WholeIs
<1> QED
  BY <1>3, <1>4

\* The balance after a step that costs the packets of K, for which the budget grows
\* by g.
LEMMA Settled ==
  ASSUME TypeInv, Paid, UNCHANGED sent, NEW K, IsFiniteSet(K), NEW g \in Nat,
         losses' \in Nat, switches' \in Nat, losses' + switches' = losses + switches + g,
         Living \subseteq Living' \cup K,
         Cardinality(K) + One(StaleBuffer)' + One(StaleHeld)'
           <= One(StaleBuffer) + One(StaleHeld) + 2 * g
  PROVE  Paid'
<1>1. PICK n : n = Len(sent) /\ n \in Nat
  BY PieceFacts
<1>2. Living \subseteq 1 .. n /\ Living' \subseteq 1 .. n /\ Len(sent') = n
  BY <1>1 DEF Living
<1>3. PICK a, b, k : a = Cardinality(Living) /\ b = Cardinality(Living') /\ k = Cardinality(K)
  OBVIOUS
<1>4. a \in Nat /\ b \in Nat /\ k \in Nat /\ a <= b + k
  BY <1>1, <1>2, <1>3, Spared
<1>5. PICK p, q, r, s : /\ p = One(StaleBuffer) /\ q = One(StaleHeld)
                        /\ r = One(StaleBuffer)' /\ s = One(StaleHeld)'
  OBVIOUS
<1>6. p \in 0 .. 1 /\ q \in 0 .. 1 /\ r \in 0 .. 1 /\ s \in 0 .. 1
  BY <1>5 DEF One
<1>7. PICK x, y, z, t : x = losses /\ y = switches /\ z = losses' /\ t = switches'
  OBVIOUS
<1>8. x \in Nat /\ y \in Nat /\ (n - a) + p + q <= 2 * (x + y)
  BY <1>1, <1>3, <1>5, <1>7 DEF Paid
<1>9. z \in Nat /\ t \in Nat /\ z + t = x + y + g /\ k + r + s <= p + q + 2 * g
  BY <1>3, <1>5, <1>7
<1>10. (n - b) + r + s <= 2 * (z + t)
  BY <1>1, <1>4, <1>6, <1>8, <1>9
<1> QED
  BY <1>2, <1>3, <1>5, <1>7, <1>9, <1>10 DEF Paid

\* A step that spares all and leaves nothing stale that was not.
LEMMA SettledFree ==
  ASSUME TypeInv, Paid, UNCHANGED <<sent, losses, switches>>, Living \subseteq Living',
         StaleBuffer' => StaleBuffer, StaleHeld' => StaleHeld
  PROVE  Paid'
<1>1. IsFiniteSet({}) /\ Cardinality({}) = 0
  BY FS_EmptySet
<1>2. Living \subseteq Living' \cup {}
  OBVIOUS
<1>3. PICK p, q, r, s : /\ p = One(StaleBuffer) /\ q = One(StaleHeld)
                        /\ r = One(StaleBuffer)' /\ s = One(StaleHeld)'
  OBVIOUS
<1>4. p \in 0 .. 1 /\ q \in 0 .. 1 /\ r \in 0 .. 1 /\ s \in 0 .. 1 /\ r <= p /\ s <= q
  BY <1>3 DEF One
<1>5. 0 + r + s <= p + q + 2 * 0
  BY <1>4
<1>6. Cardinality({}) + One(StaleBuffer)' + One(StaleHeld)' <= One(StaleBuffer) + One(StaleHeld) + 2 * 0
  BY <1>1, <1>3, <1>5
<1>7. /\ losses' \in Nat /\ switches' \in Nat /\ losses' + switches' = losses + switches + 0
      /\ UNCHANGED sent
  BY DEF Paid
<1> QED
  BY <1>1, <1>2, <1>6, <1>7, Settled

\* A step that leaves the lines alone.
LEMMA SameLines ==
  ASSUME UNCHANGED <<line, sent>>
  PROVE  /\ \A n, i : (IsOn(n, i)' <=> IsOn(n, i)) /\ (RestOn(n, i)' <=> RestOn(n, i))
         /\ \A n : (Gone(n)' <=> Gone(n)) /\ (Coming(n)' <=> Coming(n))
         /\ \A n : Source(n)' = Source(n) /\ Cut(n)' = Cut(n)
         /\ \A p : From(p)' = From(p)
         /\ \A c : On(line[c])' = On(line[c]) /\ (Rising(line[c])' <=> Rising(line[c]))
         /\ SentPieces' = SentPieces /\ Len(sent') = Len(sent)
<1>1. \A n : Source(n)' = Source(n) /\ Cut(n)' = Cut(n)
  BY DEF Source, Cut
<1>2. \A c : On(line[c])' = On(line[c]) /\ (Rising(line[c])' <=> Rising(line[c]))
  BY DEF On, Rising
<1>3. \A n, i : IsOn(n, i)' <=> IsOn(n, i)
  BY <1>1, <1>2 DEF IsOn
<1>4. \A n, i : RestOn(n, i)' <=> RestOn(n, i)
  BY <1>1, <1>3 DEF RestOn
<1>5. \A n : (Gone(n)' <=> Gone(n)) /\ (Coming(n)' <=> Coming(n))
  BY <1>1, <1>3, <1>4 DEF Gone, Coming
<1>6. (\A p : From(p)' = From(p)) /\ SentPieces' = SentPieces /\ Len(sent') = Len(sent)
  BY DEF From, SentPieces
<1> QED
  BY <1>1, <1>2, <1>3, <1>4, <1>5, <1>6

\* A step that leaves the lines, the buffer and the piece alone that a thread has.
LEMMA SamePlaces ==
  ASSUME UNCHANGED <<line, sent, fragment>>, \A p : Held(p)' <=> Held(p)
  PROVE  /\ Ordered => Ordered'
         /\ (StaleBuffer' <=> StaleBuffer) /\ (StaleHeld' <=> StaleHeld)
         /\ \A n : (Coming(n) => Coming(n)') /\ (Collecting(n) => Collecting(n)')
                   /\ (Holding(n) => Holding(n)')
<1>1. /\ \A n, i : (IsOn(n, i)' <=> IsOn(n, i)) /\ (RestOn(n, i)' <=> RestOn(n, i))
      /\ \A n : (Gone(n)' <=> Gone(n)) /\ (Coming(n)' <=> Coming(n))
      /\ \A n : Source(n)' = Source(n) /\ Cut(n)' = Cut(n)
      /\ \A p : From(p)' = From(p)
      /\ \A c : On(line[c])' = On(line[c]) /\ (Rising(line[c])' <=> Rising(line[c]))
      /\ SentPieces' = SentPieces
  BY SameLines
<1>2. On(fragment)' = On(fragment)
  BY DEF On
<1>3. Ordered => Ordered'
  <2>1. \A r : Followed(r)' <=> Followed(r)
    BY <1>1 DEF Followed
  <2> QED
    BY <1>1, <1>2, <2>1 DEF Ordered
<1>4. (StaleBuffer' <=> StaleBuffer) /\ (StaleHeld' <=> StaleHeld)
  BY <1>1 DEF StaleBuffer, StaleHeld
<1>5. ASSUME NEW n PROVE (Collecting(n) => Collecting(n)') /\ (Holding(n) => Holding(n)')
  BY <1>1 DEF Collecting, Holding
<1> QED
  BY <1>1, <1>3, <1>4, <1>5

\* A step that hands nothing on keeps what has arrived.
LEMMA SameArrived ==
  ASSUME UNCHANGED <<sent, handed>>
  PROVE  \A n : Arrived(n) => Arrived(n)'
BY DEF Arrived, Source, Cut

DamageInv == Ordered /\ Paid

\* packet.data is set.
LEMMA DamageParseData ==
  ASSUME TypeInv, AloneInv, DamageInv, NEW c \in Conns, ParseData(c)
  PROVE  DamageInv'
<1>1. /\ pc[c] = "parse" /\ data' = frame[c] /\ pc' = [pc EXCEPT ![c] = "collect"]
      /\ frame' = [frame EXCEPT ![c] = << >>]
      /\ UNCHANGED <<line, sent, fragment, handed, losses, switches>>
  BY DEF ParseData
<1>2. pc'[c] = "collect" /\ \A d \in Conns \ {c} : pc[d] = "idle" /\ pc'[d] = "idle"
  BY <1>1, AloneThreads DEF AloneInv, TypeInv
<1>3. \A p : Held(p)' <=> Held(p)
  BY <1>1, <1>2 DEF Held
<1>4. /\ Ordered' /\ (StaleBuffer' <=> StaleBuffer) /\ (StaleHeld' <=> StaleHeld)
      /\ \A n : (Coming(n) => Coming(n)') /\ (Collecting(n) => Collecting(n)')
                /\ (Holding(n) => Holding(n)')
  BY <1>1, <1>3, SamePlaces DEF DamageInv
<1>5. ASSUME NEW n \in Living PROVE n \in Living'
  <2>1. n \in 1 .. Len(sent) /\ Alive(n) /\ Source(n) \in Conns
    BY PieceFacts DEF Living
  <2>2. ~ Passing(n)
    BY <1>1, <1>2, <2>1 DEF Passing
  <2>3. Alive(n)'
    BY <1>1, <1>4, <2>1, <2>2, SameArrived DEF Alive
  <2> QED
    BY <1>1, <2>1, <2>3 DEF Living
<1> QED
  BY <1>1, <1>4, <1>5, SettledFree DEF DamageInv

\* The worker passes the packet on.
LEMMA DamageToWorker ==
  ASSUME TypeInv, AloneInv, DamageInv, NEW c \in Conns, HandToWorker(c)
  PROVE  DamageInv'
<1>1. /\ pc[c] = "worker" /\ pc' = [pc EXCEPT ![c] = "protocol"]
      /\ UNCHANGED <<line, sent, fragment, data, handed, losses, switches>>
  BY DEF HandToWorker, staticVars
<1>2. pc'[c] = "protocol" /\ \A d \in Conns \ {c} : pc[d] = "idle" /\ pc'[d] = "idle"
  BY <1>1, AloneThreads DEF AloneInv, TypeInv
<1>3. \A p : Held(p)' <=> Held(p)
  BY <1>1, <1>2 DEF Held
<1>4. /\ Ordered' /\ (StaleBuffer' <=> StaleBuffer) /\ (StaleHeld' <=> StaleHeld)
      /\ \A n : (Coming(n) => Coming(n)') /\ (Collecting(n) => Collecting(n)')
                /\ (Holding(n) => Holding(n)')
  BY <1>1, <1>3, SamePlaces DEF DamageInv
<1>5. ASSUME NEW n \in Living PROVE n \in Living'
  <2>1. n \in 1 .. Len(sent) /\ Alive(n) /\ Source(n) \in Conns
    BY PieceFacts DEF Living
  <2>2. Passing(n) => Passing(n)'
    <3>1. Source(n)' = Source(n) /\ Cut(n)' = Cut(n)
      BY <1>1, SameLines
    <3>2. Passing(n) => Source(n) = c
      BY <1>2, <2>1 DEF Passing
    <3> QED
      BY <1>1, <1>2, <3>1, <3>2 DEF Passing
  <2>3. Alive(n)'
    BY <1>1, <1>4, <2>1, <2>2, SameArrived DEF Alive
  <2> QED
    BY <1>1, <2>1, <2>3 DEF Living
<1> QED
  BY <1>1, <1>4, <1>5, SettledFree DEF DamageInv

\* The packet reaches the protocol.
LEMMA DamageToProtocol ==
  ASSUME TypeInv, AloneInv, DamageInv, NEW c \in Conns, HandToProtocol(c)
  PROVE  DamageInv'
<1>1. /\ pc[c] = "protocol" /\ pc' = [pc EXCEPT ![c] = "idle"]
      /\ handed' = [handed EXCEPT ![c] = Append(@, data)]
      /\ UNCHANGED <<line, sent, fragment, data, losses, switches>>
  BY DEF HandToProtocol, staticVars
<1>2. pc'[c] = "idle" /\ \A d \in Conns \ {c} : pc[d] = "idle" /\ pc'[d] = "idle"
  BY <1>1, AloneThreads DEF AloneInv, TypeInv
<1>3. \A p : Held(p)' <=> Held(p)
  BY <1>1, <1>2 DEF Held
<1>4. /\ Ordered' /\ (StaleBuffer' <=> StaleBuffer) /\ (StaleHeld' <=> StaleHeld)
      /\ \A n : (Coming(n) => Coming(n)') /\ (Collecting(n) => Collecting(n)')
                /\ (Holding(n) => Holding(n)')
  BY <1>1, <1>3, SamePlaces DEF DamageInv
<1>5. /\ handed[c] \in Seq(Seq(SentPieces)) /\ Len(handed[c]) \in Nat
      /\ DOMAIN handed[c] = 1 .. Len(handed[c])
      /\ handed'[c] = Append(handed[c], data) /\ \A d \in Conns \ {c} : handed'[d] = handed[d]
  BY <1>1, LenProperties DEF TypeInv
<1>6. /\ DOMAIN handed'[c] = 1 .. Len(handed[c]) + 1
      /\ \A i \in 1 .. Len(handed[c]) : handed'[c][i] = handed[c][i]
      /\ handed'[c][Len(handed[c]) + 1] = data
  <2>1. /\ handed'[c] \in Seq(Seq(SentPieces)) /\ Len(handed'[c]) = Len(handed[c]) + 1
        /\ \A i \in 1 .. Len(handed[c]) : handed'[c][i] = handed[c][i]
        /\ handed'[c][Len(handed[c]) + 1] = data
    BY <1>5, AppendProperties DEF TypeInv
  <2> QED
    BY <2>1, LenProperties
<1>7. ASSUME NEW n \in Living PROVE n \in Living'
  <2>1. n \in 1 .. Len(sent) /\ Alive(n) /\ Source(n) \in Conns
    BY PieceFacts DEF Living
  <2>2. Source(n)' = Source(n) /\ Cut(n)' = Cut(n)
    BY <1>1, SameLines
  <2>3. ASSUME Arrived(n) PROVE Arrived(n)'
    <3>1. CASE Source(n) = c
      <4>1. PICK i \in 1 .. Len(handed[c]) : handed[c][i] = Whole(n, Cut(n))
        BY <1>5, <2>3, <3>1 DEF Arrived
      <4>2. i \in DOMAIN handed'[c] /\ handed'[c][i] = Whole(n, Cut(n))
        BY <1>5, <1>6, <4>1
      <4> QED
        BY <2>2, <3>1, <4>2 DEF Arrived
    <3>2. CASE Source(n) # c
      <4>1. handed'[Source(n)] = handed[Source(n)]
        BY <1>5, <2>1, <3>2
      <4> QED
        BY <2>2, <2>3, <4>1 DEF Arrived
    <3> QED
      BY <3>1, <3>2
  <2>4. ASSUME Passing(n) PROVE Arrived(n)'
    <3>1. Source(n) = c /\ data = Whole(n, Cut(n))
      BY <1>2, <2>1, <2>4 DEF Passing
    <3>2. Len(handed[c]) + 1 \in DOMAIN handed'[c]
      BY <1>5, <1>6
    <3> QED
      BY <1>6, <2>2, <3>1, <3>2 DEF Arrived
  <2>5. Alive(n)'
    BY <1>4, <2>1, <2>3, <2>4 DEF Alive
  <2> QED
    BY <1>1, <2>1, <2>5 DEF Living
<1> QED
  BY <1>1, <1>4, <1>7, SettledFree DEF DamageInv

\* What a thread has was sent.
LEMMA HeldSent ==
  ASSUME TypeInv, NEW p, Held(p)
  PROVE  p \in SentPieces
<1>1. <<p>> \in Seq(SentPieces)
  BY DEF Held, TypeInv
<1>2. Len(<<p>>) = 1 /\ <<p>>[1] = p
  OBVIOUS
<1> QED
  BY <1>1, <1>2, ElementOfSeq

\* A device's packet.
LEMMA DamageSend ==
  ASSUME TypeInv, AloneInv, DamageInv, NEW c \in Conns, NEW k \in 1 .. MaxPieces, DeviceSend(c, k)
  PROVE  DamageInv'
<1>0. PICK new, N : new = Whole(Len(sent) + 1, k) /\ N = Len(sent) + 1
  OBVIOUS
<1>1. /\ new \in Seq(SentPieces') /\ Len(new) = k
      /\ \A i \in 1 .. k : new[i] = PieceOf(N, i)
      /\ On(new) = {PieceOf(N, i) : i \in 1 .. k}
      /\ Len(sent) \in Nat /\ Len(sent') = N /\ SentPieces \subseteq SentPieces'
      /\ sent'[N] = <<c, k>> /\ \A n \in 1 .. Len(sent) : sent'[n] = sent[n]
      /\ k \in Nat
  <2>1. k \in Nat
    BY FragmentsAssumption
  <2>2. /\ new \in Seq(SentPieces') /\ Len(sent) \in Nat /\ Len(sent') = N
        /\ SentPieces \subseteq SentPieces'
        /\ sent'[N] = <<c, k>> /\ \A n \in 1 .. Len(sent) : sent'[n] = sent[n]
    BY <1>0, WholeFacts
  <2>3. new = Whole(N, k)
    BY <1>0
  <2>4. /\ Len(new) = k /\ \A i \in 1 .. k : new[i] = PieceOf(N, i)
        /\ On(new) = {PieceOf(N, i) : i \in 1 .. k}
    BY <2>1, <2>3, WholeIs
  <2> QED
    BY <2>1, <2>2, <2>4
<1>2. /\ line' = [line EXCEPT ![c] = @ \o new]
      /\ UNCHANGED <<pc, frame, data, fragment, handed, losses, switches>>
  BY <1>0 DEF DeviceSend, staticVars
<1>3. /\ \A n \in 1 .. Len(sent) : Source(n)' = Source(n) /\ Cut(n)' = Cut(n) /\ n < N
      /\ Source(N)' = c /\ Cut(N)' = k /\ N \in Nat /\ 1 .. Len(sent') = 1 .. Len(sent) \cup {N}
  BY <1>0, <1>1 DEF Source, Cut
<1>4. line'[c] = line[c] \o new /\ \A d \in Conns \ {c} : line'[d] = line[d]
  BY <1>2 DEF TypeInv
<1>5. /\ \A d \in Conns : line[d] \in Seq(SentPieces) /\ On(line[d]) \subseteq SentPieces
      /\ line[c] \in Seq(SentPieces')
  BY <1>1, OnSet, SeqMonotonic DEF TypeInv
<1>6. On(line[c])' = On(line[c]) \cup On(new)
  <2>1. On(line[c] \o new) = On(line[c]) \cup On(new)
    BY <1>1, <1>5, OnConcat
  <2>2. On(line[c])' = On(line[c] \o new)
    BY <1>4 DEF On
  <2> QED
    BY <2>1, <2>2
<1>7. \A d \in Conns \ {c} : On(line[d])' = On(line[d])
  BY <1>4 DEF On
<1>8. \A p \in SentPieces : \A r \in On(new) : Precedes(p, r)
  BY <1>1, <1>3, PieceFacts DEF Precedes
<1>9. \A p : (Held(p)' <=> Held(p)) /\ (Held(p) => p \in SentPieces)
  BY <1>2, HeldSent DEF Held
<1>10. \A p \in SentPieces : From(p)' = From(p) /\ From(p) \in Conns
  BY SentStays, PieceFacts
<1>11. \A n \in 1 .. Len(sent) : \A i : IsOn(n, i) => IsOn(n, i)'
  <2>1. \A d \in Conns : On(line[d]) \subseteq On(line[d])'
    BY <1>6, <1>7
  <2> QED
    BY <1>3, <2>1, PieceFacts DEF IsOn
<1>12. \A n \in 1 .. Len(sent) : \A i : RestOn(n, i) => RestOn(n, i)'
  BY <1>3, <1>11 DEF RestOn
<1>13. \A i \in 1 .. k : RestOn(N, i)'
  <2> SUFFICES ASSUME NEW i \in 1 .. k, NEW j \in i .. k PROVE IsOn(N, j)'
    BY <1>3 DEF RestOn
  <2>1. j \in 1 .. k
    BY <1>1
  <2>2. PieceOf(N, j) \in On(line[c])'
    BY <1>1, <1>6, <2>1
  <2> QED
    BY <1>3, <2>2 DEF IsOn
<1>14. Ordered'
  <2>1. ASSUME NEW d \in Conns PROVE Rising(line[d])'
    <3>1. CASE d = c
      <4>1. Rising(new)
        <5> SUFFICES ASSUME NEW i \in 1 .. k, NEW j \in 1 .. k, i < j PROVE Precedes(new[i], new[j])
          BY <1>1 DEF Rising
        <5>1. new[i] = PieceOf(N, i) /\ new[j] = PieceOf(N, j)
          BY <1>1
        <5> QED
          BY <5>1, PieceFacts DEF Precedes
      <4>2. Rising(line[c] \o new)
        BY <1>1, <1>5, <1>8, <4>1, RisingConcat DEF DamageInv, Ordered
      <4> QED
        BY <1>4, <3>1, <4>2
    <3>2. CASE d # c
      BY <1>4, <3>2 DEF DamageInv, Ordered, Rising
    <3> QED
      BY <3>1, <3>2
  <2>2. ASSUME NEW d \in Conns, NEW r \in On(line[d])' PROVE Followed(r)'
    <3>1. CASE r \in On(line[d])
      <4>1. r \in SentPieces /\ Followed(r)
        BY <1>5, <3>1 DEF DamageInv, Ordered
      <4>2. r.packet \in 1 .. Len(sent)
        BY <4>1, PieceFacts
      <4> QED
        BY <1>3, <1>12, <4>1, <4>2 DEF Followed
    <3>2. CASE r \notin On(line[d])
      <4>1. r \in On(new)
        BY <1>6, <1>7, <2>2, <3>2
      <4>2. PICK i \in 1 .. k : r = PieceOf(N, i)
        BY <1>1, <4>1
      <4>3. r.packet = N /\ r.piece = i
        BY <4>2, PieceFacts
      <4> QED
        BY <1>3, <1>13, <4>3 DEF Followed
    <3> QED
      BY <3>1, <3>2
  <2>3. \A d \in Conns : \A r \in On(line[d])' : r \in On(line[d]) \/ r \in On(new)
    BY <1>6, <1>7
  <2>4. ASSUME NEW p \in SentPieces, NEW r \in On(line[From(p)])',
               \A s \in On(line[From(p)]) : Precedes(p, s)
        PROVE  Precedes(p, r)
    <3>1. r \in On(line[From(p)])'
      BY <2>4
    <3>2. r \in On(line[From(p)]) \/ r \in On(new)
      BY <1>6, <1>7, <1>10, <2>4
    <3> QED
      BY <1>8, <2>4, <3>2
  <2>5. ASSUME NEW p \in SentPieces', Held(p)' PROVE \A r \in On(line[From(p)])' : Precedes(p, r)
    BY <1>9, <2>4, <2>5 DEF DamageInv, Ordered
  <2>6. On(fragment)' = On(fragment) /\ On(fragment) \subseteq SentPieces
    BY <1>2, HandedFacts DEF On
  <2>7. ASSUME NEW q \in On(fragment) PROVE \A r \in On(line[From(q)])' : Precedes(q, r)
    BY <2>4, <2>6 DEF DamageInv, Ordered
  <2>8. ASSUME NEW q \in On(fragment)', NEW p \in SentPieces', Held(p)', From(p)' = From(q)'
        PROVE  Precedes(q, p)
    <3>1. p \in SentPieces /\ Held(p) /\ q \in SentPieces /\ q \in On(fragment)
      BY <1>9, <2>6, <2>8
    <3>2. From(p) = From(q)
      BY <1>10, <2>8, <3>1
    <3> QED
      BY <3>1, <3>2 DEF DamageInv, Ordered
  <2> QED
    BY <2>1, <2>2, <2>5, <2>6, <2>7, <2>8 DEF Ordered
<1>15. Living \cup {N} \subseteq Living'
  <2>1. ASSUME NEW n \in Living PROVE n \in Living'
    <3>1. n \in 1 .. Len(sent) /\ Alive(n)
      BY DEF Living
    <3>2. Source(n)' = Source(n) /\ Cut(n)' = Cut(n) /\ \A i : RestOn(n, i) => RestOn(n, i)'
      BY <1>3, <1>12, <3>1
    <3>3. Arrived(n) => Arrived(n)'
      BY <1>2, <3>2 DEF Arrived
    <3>4. Passing(n) => Passing(n)'
      BY <1>2, <3>2 DEF Passing
    <3>5. Coming(n) => Coming(n)'
      BY <3>2 DEF Coming
    <3>6. Collecting(n) => Collecting(n)'
      BY <1>2, <3>2 DEF Collecting
    <3>7. Holding(n) => Holding(n)'
      BY <1>2, <1>9, <3>2 DEF Holding
    <3>8. Alive(n)'
      BY <3>1, <3>3, <3>4, <3>5, <3>6, <3>7 DEF Alive
    <3> QED
      BY <1>3, <3>1, <3>8 DEF Living
  <2>2. 1 \in 1 .. k
    BY <1>1
  <2>3. Coming(N)'
    BY <1>13, <2>2 DEF Coming
  <2> QED
    BY <1>3, <2>1, <2>3 DEF Living, Alive
<1>16. StaleBuffer' => StaleBuffer
  <2> SUFFICES ASSUME StaleBuffer' PROVE StaleBuffer
    OBVIOUS
  <2>0. PICK n : n = fragment[Len(fragment)].packet
    OBVIOUS
  <2>1. fragment # << >> /\ Gone(n)' /\ ~ \E p \in SentPieces' : Held(p)' /\ p.packet = n
    BY <1>2, <2>0 DEF StaleBuffer
  <2>2. n \in 1 .. Len(sent)
    BY <2>0, <2>1, BufferEnd, PieceFacts
  <2>3. Gone(n)
    BY <1>3, <1>11, <2>1, <2>2 DEF Gone
  <2> QED
    BY <1>1, <1>9, <2>0, <2>1, <2>3 DEF StaleBuffer
<1>17. StaleHeld' => StaleHeld
  <2> SUFFICES ASSUME StaleHeld' PROVE StaleHeld
    OBVIOUS
  <2>1. PICK p \in SentPieces' : Held(p)' /\ p.piece # Cut(p.packet)' /\ Gone(p.packet)'
    BY DEF StaleHeld
  <2>2. p \in SentPieces /\ Held(p) /\ p.packet \in 1 .. Len(sent)
    BY <1>9, <2>1, PieceFacts
  <2>3. p.piece # Cut(p.packet) /\ Gone(p.packet)
    BY <1>3, <1>11, <2>1, <2>2 DEF Gone
  <2> QED
    BY <2>2, <2>3 DEF StaleHeld
<1>18. Paid'
  <2>1. IsFiniteSet(1 .. Len(sent)) /\ IsFiniteSet(1 .. Len(sent'))
    BY <1>1, <1>3, FS_Interval
  <2>2. Living \subseteq 1 .. Len(sent) /\ Living' \subseteq 1 .. Len(sent') /\ N \notin Living
    BY <1>3 DEF Living
  <2>3. IsFiniteSet(Living) /\ IsFiniteSet(Living')
    BY <2>1, <2>2, FS_Subset
  <2>4. /\ IsFiniteSet(Living \cup {N})
        /\ Cardinality(Living \cup {N}) = Cardinality(Living) + 1
    BY <2>2, <2>3, FS_AddElement
  <2>5. Cardinality(Living \cup {N}) <= Cardinality(Living')
    BY <1>15, <2>3, FS_Subset
  <2>6. PICK a, b, n : a = Cardinality(Living) /\ b = Cardinality(Living') /\ n = Len(sent)
    OBVIOUS
  <2>7. a \in Nat /\ b \in Nat /\ a + 1 <= b
    BY <2>3, <2>4, <2>5, <2>6, FS_CardinalityType
  <2>8. PICK p, q, r, s : /\ p = One(StaleBuffer) /\ q = One(StaleHeld)
                          /\ r = One(StaleBuffer)' /\ s = One(StaleHeld)'
    OBVIOUS
  <2>9. p \in 0 .. 1 /\ q \in 0 .. 1 /\ r \in 0 .. 1 /\ s \in 0 .. 1 /\ r <= p /\ s <= q
    BY <1>16, <1>17, <2>8 DEF One
  <2>10. PICK x, y : x = losses /\ y = switches
    OBVIOUS
  <2>11. x \in Nat /\ y \in Nat /\ (n - a) + p + q <= 2 * (x + y)
    BY <2>6, <2>8, <2>10 DEF DamageInv, Paid
  <2>12. n \in Nat /\ N = n + 1
    BY <1>0, <1>1, <2>6
  <2>13. (N - b) + r + s <= 2 * (x + y)
    BY <2>7, <2>9, <2>11, <2>12
  <2> QED
    BY <1>1, <1>2, <2>6, <2>8, <2>10, <2>11, <2>13 DEF Paid
<1> QED
  BY <1>14, <1>18 DEF DamageInv

\* The first frame leaves a line.
LEMMA LineShrinks ==
  ASSUME TypeInv, AloneInv, Ordered, NEW c \in Conns, line[c] # << >>,
         line' = [line EXCEPT ![c] = Tail(@)], UNCHANGED sent
  PROVE  /\ Head(line[c]) \in SentPieces /\ From(Head(line[c])) = c /\ Head(line[c]) \in On(line[c])
         /\ \A d \in Conns : /\ Rising(line[d])' /\ On(line[d])' \subseteq On(line[d])
                             /\ \A r \in On(line[d])' : Followed(r)'
         /\ \A r \in On(line[c])' : Precedes(Head(line[c]), r)
         /\ \A n \in 1 .. Len(sent) : Source(n)' = Source(n) /\ Cut(n)' = Cut(n)
         /\ \A n \in 1 .. Len(sent) : \A i : IsOn(n, i)' <=> IsOn(n, i) /\ PieceOf(n, i) # Head(line[c])
         /\ SentPieces' = SentPieces /\ Len(sent') = Len(sent) /\ \A p : From(p)' = From(p)
<1>0. PICK h, t : h = Head(line[c]) /\ t = Tail(line[c])
  OBVIOUS
<1>1. line'[c] = t /\ \A d \in Conns \ {c} : line'[d] = line[d]
  BY <1>0 DEF TypeInv
<1>2. line[c] \in Seq(SentPieces) /\ Rising(line[c]) /\ Distinct(line[c]) /\ t \in Seq(SentPieces)
  BY <1>0, HeadFacts DEF Ordered, AloneInv, LinesOK, TypeInv
<1>3. /\ Rising(t) /\ On(line[c]) = {h} \cup On(t) /\ h \notin On(t)
      /\ \A r \in On(t) : Precedes(h, r)
  BY <1>0, <1>2, RisingTail, OnTail
<1>4. h \in SentPieces /\ h \in On(line[c]) /\ From(h) = c
  BY <1>0, <1>3, HeadFacts DEF AloneInv, LinesOK
<1>5. On(line[c])' = On(t) /\ \A d \in Conns \ {c} : On(line[d])' = On(line[d])
  BY <1>1 DEF On
<1>6. /\ \A n \in 1 .. Len(sent) : Source(n)' = Source(n) /\ Cut(n)' = Cut(n)
      /\ SentPieces' = SentPieces /\ Len(sent') = Len(sent) /\ \A p : From(p)' = From(p)
  BY DEF Source, Cut, From, SentPieces
<1>7. ASSUME NEW n \in 1 .. Len(sent), NEW i
      PROVE  IsOn(n, i)' <=> IsOn(n, i) /\ PieceOf(n, i) # h
  <2>1. Source(n) \in Conns
    BY PieceFacts
  <2>2. CASE Source(n) = c
    BY <1>3, <1>5, <1>6, <2>2 DEF IsOn
  <2>3. CASE Source(n) # c
    <3>1. PieceOf(n, i) # h
      BY <1>4, <2>3, PieceFacts
    <3> QED
      BY <1>5, <1>6, <2>1, <2>3, <3>1 DEF IsOn
  <2> QED
    BY <2>2, <2>3
<1>8. ASSUME NEW d \in Conns, NEW r \in On(line[d])' PROVE Followed(r)'
  <2>1. r \in On(line[d]) /\ On(line[d]) \subseteq SentPieces
    BY <1>3, <1>5, <1>8, OnSet DEF TypeInv
  <2>2. /\ r \in SentPieces /\ RestOn(r.packet, r.piece) /\ From(r) = d
        /\ r.piece <= Cut(r.packet)
    BY <2>1 DEF Ordered, AloneInv, LinesOK, Followed
  <2>3. r.packet \in 1 .. Len(sent) /\ r.piece \in Nat /\ h.piece \in Nat /\ h.packet \in Nat
        /\ r.packet \in Nat
    BY <1>4, <2>2, PieceFacts
  <2>4. Cut(r.packet) \in Nat
    BY <2>3, PieceFacts
  <2>5. ASSUME NEW j \in r.piece .. Cut(r.packet) PROVE PieceOf(r.packet, j) # h
    <3>1. CASE d = c
      <4>1. Precedes(h, r)
        BY <1>3, <1>5, <1>8, <3>1
      <4>2. PieceOf(r.packet, j).packet = r.packet /\ PieceOf(r.packet, j).piece = j
        BY PieceFacts
      <4> QED
        BY <2>3, <2>4, <2>5, <4>1, <4>2 DEF Precedes
    <3>2. CASE d # c
      <4>1. h.packet # r.packet
        BY <1>4, <2>2, <3>2 DEF From
      <4> QED
        BY <4>1, PieceFacts
    <3> QED
      BY <3>1, <3>2
  <2> QED
    BY <1>6, <1>7, <2>2, <2>3, <2>5 DEF RestOn, Followed
<1>9. ASSUME NEW d \in Conns PROVE Rising(line[d])' /\ On(line[d])' \subseteq On(line[d])
  <2>1. CASE d = c
    BY <1>1, <1>3, <1>5, <2>1
  <2>2. CASE d # c
    BY <1>1, <1>5, <2>2 DEF Ordered, Rising
  <2> QED
    BY <2>1, <2>2
<1> QED
  BY <1>0, <1>3, <1>4, <1>5, <1>6, <1>7, <1>8, <1>9

\* A frame is lost: its packet, and what then finds the buffer not empty.
LEMMA DamageLose ==
  ASSUME TypeInv, AloneInv, DamageInv, NEW c \in Conns, LoseFrame(c)
  PROVE  DamageInv'
<1>0. PICK h, m : h = Head(line[c]) /\ m = h.packet
  OBVIOUS
<1>1. /\ line[c] # << >> /\ line' = [line EXCEPT ![c] = Tail(@)] /\ losses' = losses + 1
      /\ UNCHANGED <<pc, frame, data, fragment, sent, handed, switches>>
  BY DEF LoseFrame, staticVars
<1>2. /\ h \in SentPieces
      /\ \A d \in Conns : /\ Rising(line[d])' /\ On(line[d])' \subseteq On(line[d])
                          /\ \A r \in On(line[d])' : Followed(r)'
      /\ \A n \in 1 .. Len(sent) : Source(n)' = Source(n) /\ Cut(n)' = Cut(n)
      /\ \A n \in 1 .. Len(sent) : \A i : IsOn(n, i)' <=> IsOn(n, i) /\ PieceOf(n, i) # h
      /\ SentPieces' = SentPieces /\ Len(sent') = Len(sent) /\ \A p : From(p)' = From(p)
  BY <1>0, <1>1, LineShrinks DEF DamageInv
<1>3. \A p : Held(p)' <=> Held(p)
  BY <1>1 DEF Held
<1>4. Ordered'
  <2>1. On(fragment)' = On(fragment) /\ \A p \in On(fragment) : p \in SentPieces
    BY <1>1, HandedFacts DEF On
  <2>2. \A p \in SentPieces : On(line[From(p)])' \subseteq On(line[From(p)])
    BY <1>2, PieceFacts
  <2> QED
    BY <1>2, <1>3, <2>1, <2>2 DEF DamageInv, Ordered
<1>5. \A n \in 1 .. Len(sent) : \A i : n # m => (IsOn(n, i)' <=> IsOn(n, i))
  BY <1>0, <1>2, PieceFacts
<1>6. Living \subseteq Living' \cup {m}
  <2> SUFFICES ASSUME NEW n \in Living, n # m PROVE n \in Living'
    OBVIOUS
  <2>1. n \in 1 .. Len(sent) /\ Alive(n)
    BY DEF Living
  <2>2. Source(n)' = Source(n) /\ Cut(n)' = Cut(n) /\ \A i : RestOn(n, i) => RestOn(n, i)'
    BY <1>2, <1>5, <2>1 DEF RestOn
  <2>3. Passing(n) => Passing(n)'
    BY <1>1, <2>2 DEF Passing
  <2>4. Coming(n) => Coming(n)'
    BY <2>2 DEF Coming
  <2>5. Collecting(n) => Collecting(n)'
    BY <1>1, <2>2 DEF Collecting
  <2>6. Holding(n) => Holding(n)'
    BY <1>1, <1>3, <2>2 DEF Holding
  <2>7. Alive(n)'
    BY <1>1, <2>1, <2>3, <2>4, <2>5, <2>6, SameArrived DEF Alive
  <2> QED
    BY <1>2, <2>1, <2>7 DEF Living
<1>7. ASSUME StaleBuffer', ~ StaleBuffer PROVE ~ \E p \in SentPieces : Held(p) /\ p.packet = m
  <2>0. PICK n : n = fragment[Len(fragment)].packet
    OBVIOUS
  <2>1. fragment # << >> /\ Gone(n)' /\ ~ \E p \in SentPieces : Held(p) /\ p.packet = n
    BY <1>1, <1>2, <1>3, <1>7, <2>0 DEF StaleBuffer
  <2>2. ~ Gone(n)
    BY <1>7, <2>0, <2>1 DEF StaleBuffer
  <2>3. n \in 1 .. Len(sent)
    BY <2>0, <2>1, BufferEnd, PieceFacts
  <2>4. n = m
    BY <1>2, <1>5, <2>1, <2>2, <2>3 DEF Gone
  <2> QED
    BY <2>1, <2>4
<1>8. ASSUME StaleHeld', ~ StaleHeld PROVE \E p \in SentPieces : Held(p) /\ p.packet = m
  <2>1. PICK p \in SentPieces : Held(p) /\ p.piece # Cut(p.packet)' /\ Gone(p.packet)'
    BY <1>2, <1>3, <1>8 DEF StaleHeld
  <2>2. p.packet \in 1 .. Len(sent)
    BY PieceFacts
  <2>3. ~ Gone(p.packet)
    BY <1>2, <1>8, <2>1, <2>2 DEF StaleHeld
  <2>4. p.packet = m
    BY <1>2, <1>5, <2>1, <2>2, <2>3 DEF Gone
  <2> QED
    BY <2>1, <2>4
<1>9. Cardinality({m}) + One(StaleBuffer)' + One(StaleHeld)' <= One(StaleBuffer) + One(StaleHeld) + 2 * 1
  <2>1. ~ ((StaleBuffer' /\ ~ StaleBuffer) /\ (StaleHeld' /\ ~ StaleHeld))
    BY <1>7, <1>8
  <2>2. PICK p, q, r, s, k : /\ p = One(StaleBuffer) /\ q = One(StaleHeld)
                             /\ r = One(StaleBuffer)' /\ s = One(StaleHeld)'
                             /\ k = Cardinality({m})
    OBVIOUS
  <2>3. /\ p \in 0 .. 1 /\ q \in 0 .. 1 /\ r \in 0 .. 1 /\ s \in 0 .. 1
        /\ ~ (r = 1 /\ p = 0 /\ s = 1 /\ q = 0)
    BY <2>1, <2>2 DEF One
  <2>4. k = 1
    BY <2>2, FS_Singleton
  <2>5. k + r + s <= p + q + 2 * 1
    BY <2>3, <2>4
  <2> QED
    BY <2>2, <2>5
<1>10. IsFiniteSet({m})
  BY FS_Singleton
<1>11. /\ losses' \in Nat /\ switches' \in Nat /\ losses' + switches' = losses + switches + 1
       /\ UNCHANGED sent /\ Paid
  BY <1>1 DEF DamageInv, Paid
<1>12. Paid'
  BY <1>6, <1>9, <1>10, <1>11, Settled
<1> QED
  BY <1>4, <1>12 DEF DamageInv

\* parseFrame() is entered, and no other thread is in it: all that is alive stays so.
LEMMA DamageParseFlags ==
  ASSUME TypeInv, AloneInv, DamageInv, NEW c \in Conns, ParseFlags(c), ~ raced'
  PROVE  DamageInv'
<1>0. PICK h, m, j : h = Head(line[c]) /\ m = h.packet /\ j = h.piece
  OBVIOUS
<1>1. /\ line[c] # << >> /\ line' = [line EXCEPT ![c] = Tail(@)]
      /\ pc[c] = "idle" /\ pc' = [pc EXCEPT ![c] = "parse"] /\ Others(c) = {}
      /\ frame' = [frame EXCEPT ![c] = <<h>>]
      /\ UNCHANGED <<data, fragment, sent, handed, losses, switches>>
  BY <1>0 DEF ParseFlags
<1>2. /\ h \in SentPieces /\ From(h) = c /\ h \in On(line[c])
      /\ \A d \in Conns : /\ Rising(line[d])' /\ On(line[d])' \subseteq On(line[d])
                          /\ \A r \in On(line[d])' : Followed(r)'
      /\ \A r \in On(line[c])' : Precedes(h, r)
      /\ \A n \in 1 .. Len(sent) : Source(n)' = Source(n) /\ Cut(n)' = Cut(n)
      /\ \A n \in 1 .. Len(sent) : \A i : IsOn(n, i)' <=> IsOn(n, i) /\ PieceOf(n, i) # h
      /\ SentPieces' = SentPieces /\ Len(sent') = Len(sent) /\ \A p : From(p)' = From(p)
  BY <1>0, <1>1, LineShrinks DEF DamageInv
<1>3. /\ \A d \in Conns : pc[d] = "idle"
      /\ pc'[c] = "parse" /\ frame'[c] = <<h>> /\ \A d \in Conns \ {c} : pc'[d] = "idle"
  <2>1. \A d \in Conns \ {c} : pc[d] = "idle"
    BY <1>1 DEF Others
  <2> QED
    BY <1>1, <2>1 DEF TypeInv
<1>4. (\A p : ~ Held(p)) /\ ~ StaleHeld
  BY <1>3, NoneHeld
<1>5. \A p : Held(p)' <=> p = h
  <2>1. \A p : Held(p)' <=> <<h>> = <<p>>
    BY <1>3 DEF Held
  <2> QED
    BY <2>1
<1>6. /\ m \in 1 .. Len(sent) /\ m \in Nat /\ j \in 1 .. MaxPieces /\ j \in Nat
      /\ h = PieceOf(m, j) /\ Source(m) = c
  BY <1>0, <1>2, PieceFacts
<1>7. RestOn(m, j) /\ j <= Cut(m)
  BY <1>0, <1>2 DEF DamageInv, Ordered, Followed
<1>8. \A q \in On(fragment) : From(q) = c => Precedes(q, h)
  BY <1>2 DEF DamageInv, Ordered
<1>9. Ordered'
  <2>1. On(fragment)' = On(fragment) /\ \A p \in On(fragment) : p \in SentPieces
    BY <1>1, HandedFacts DEF On
  <2>2. \A p \in SentPieces : On(line[From(p)])' \subseteq On(line[From(p)])
    BY <1>2, PieceFacts
  <2>3. ASSUME NEW p \in SentPieces', Held(p)' PROVE \A r \in On(line[From(p)])' : Precedes(p, r)
    BY <1>2, <1>5, <2>3
  <2>4. ASSUME NEW q \in On(fragment)', NEW p \in SentPieces', Held(p)', From(p)' = From(q)'
        PROVE  Precedes(q, p)
    BY <1>2, <1>5, <1>8, <2>1, <2>4
  <2>5. ASSUME NEW q \in On(fragment)' PROVE \A r \in On(line[From(q)])' : Precedes(q, r)
    BY <2>1, <2>2, <2>5 DEF DamageInv, Ordered
  <2> QED
    BY <1>2, <2>3, <2>4, <2>5 DEF Ordered
<1>10. \A n \in 1 .. Len(sent) : \A i : n # m => (IsOn(n, i)' <=> IsOn(n, i))
  BY <1>6, <1>2, PieceFacts
<1>11. \A i \in Nat : i > j /\ RestOn(m, i) => RestOn(m, i)'
  <2> SUFFICES ASSUME NEW i \in Nat, i > j, RestOn(m, i), NEW x \in i .. Cut(m) PROVE IsOn(m, x)'
    BY <1>2, <1>6 DEF RestOn
  <2>1. x # j /\ IsOn(m, x)
    BY <1>6, PieceFacts DEF RestOn
  <2>2. PieceOf(m, x) # h
    BY <1>6, <2>1, PieceFacts
  <2> QED
    BY <1>2, <1>6, <2>1, <2>2
<1>12. j < Cut(m) => IsOn(m, Cut(m))'
  <2> SUFFICES ASSUME j < Cut(m) PROVE IsOn(m, Cut(m))'
    OBVIOUS
  <2>1. Cut(m) \in Nat
    BY <1>6, PieceFacts
  <2>2. Cut(m) \in j .. Cut(m)
    BY <1>6, <2>1
  <2>3. IsOn(m, Cut(m))
    BY <1>7, <2>2 DEF RestOn
  <2>4. PieceOf(m, Cut(m)) # h
    BY <1>6, <2>1, PieceFacts
  <2> QED
    BY <1>2, <1>6, <2>3, <2>4
<1>13. \A i \in 1 .. Cut(m) : IsOn(m, i) => j <= i
  <2> SUFFICES ASSUME NEW i \in 1 .. Cut(m), IsOn(m, i) PROVE j <= i
    OBVIOUS
  <2>1. PieceOf(m, i) = h \/ IsOn(m, i)'
    BY <1>2, <1>6
  <2>2. CASE PieceOf(m, i) = h
    BY <1>6, <2>2, PieceFacts
  <2>3. CASE IsOn(m, i)'
    <3>1. Precedes(h, PieceOf(m, i))
      BY <1>2, <1>6, <2>3 DEF IsOn
    <3>2. m < m \/ j < i
      BY <1>6, <3>1, PieceFacts DEF Precedes
    <3> QED
      BY <1>6, <3>2
  <2> QED
    BY <2>1, <2>2, <2>3
<1>14. ASSUME NEW n \in Living PROVE n \in Living'
  <2>1. n \in 1 .. Len(sent) /\ Alive(n) /\ Source(n) \in Conns /\ Cut(n) \in Nat \ {0}
    <3>1. n \in 1 .. Len(sent) /\ Alive(n)
      BY DEF Living
    <3> QED
      BY <3>1, PieceFacts
  <2> SUFFICES Alive(n)'
    BY <1>2, <2>1 DEF Living
  <2>2. ~ Passing(n) /\ ~ Holding(n)
    BY <1>3, <1>4, <2>1 DEF Passing, Holding
  <2>3. CASE Arrived(n)
    BY <1>1, <2>3, SameArrived DEF Alive
  <2>4. CASE n # m
    <3>1. Source(n)' = Source(n) /\ Cut(n)' = Cut(n) /\ \A i : RestOn(n, i) => RestOn(n, i)'
      BY <1>2, <1>10, <2>1, <2>4 DEF RestOn
    <3>2. Coming(n) => Coming(n)'
      BY <3>1 DEF Coming
    <3>3. Collecting(n) => Collecting(n)'
      BY <1>1, <3>1 DEF Collecting
    <3> QED
      BY <1>1, <2>1, <2>2, <3>2, <3>3, SameArrived DEF Alive
  <2>5. CASE n = m /\ Coming(n)
    <3>1. 1 \in 1 .. Cut(m)
      BY <2>1, <2>5
    <3>2. IsOn(m, 1)
      BY <2>5, <3>1 DEF Coming, RestOn
    <3>3. j = 1
      BY <1>6, <1>13, <3>1, <3>2
    <3>4. RestOn(m, 2)
      <4>1. \A x \in 2 .. Cut(m) : x \in 1 .. Cut(m)
        BY <2>1, <2>5
      <4> QED
        BY <2>5, <4>1 DEF Coming, RestOn
    <3>5. RestOn(m, 1 + 1)'
      BY <1>11, <3>3, <3>4
    <3>6. Held(PieceOf(m, 1))' /\ Cut(m)' = Cut(m)
      BY <1>2, <1>5, <1>6, <3>3
    <3>7. Holding(m)'
      BY <3>1, <3>5, <3>6 DEF Holding
    <3> QED
      BY <2>5, <3>7 DEF Alive
  <2>6. CASE n = m /\ Collecting(n)
    <3>1. PICK i \in 1 .. Cut(m) - 1 : fragment = Whole(m, i) /\ RestOn(m, i + 1)
      BY <2>6 DEF Collecting
    <3>2. i \in Nat /\ i + 1 \in 1 .. Cut(m) /\ i + 1 \in i + 1 .. Cut(m) /\ i \in 1 .. i
          /\ (i + 1) - 1 = i
      BY <2>1, <2>6, <3>1
    <3>3. IsOn(m, i + 1)
      BY <3>1, <3>2 DEF RestOn
    <3>4. j <= i + 1
      BY <1>13, <3>2, <3>3
    <3>5. PieceOf(m, i) \in On(fragment)
      <4>1. On(Whole(m, i)) = {PieceOf(m, x) : x \in 1 .. i}
        BY <3>2, WholeIs
      <4> QED
        BY <3>1, <3>2, <4>1
    <3>6. PieceOf(m, i) \in SentPieces
      BY <3>5, HandedFacts
    <3>7. From(PieceOf(m, i)) = c
      BY <1>6, <3>6, PieceFacts
    <3>8. Precedes(PieceOf(m, i), h)
      BY <1>8, <3>5, <3>7
    <3>9. m < m \/ i < j
      BY <1>6, <3>8, PieceFacts DEF Precedes
    <3>10. j = i + 1
      BY <1>6, <3>2, <3>4, <3>9
    <3>11. RestOn(m, j + 1)
      <4>1. \A x \in j + 1 .. Cut(m) : x \in i + 1 .. Cut(m)
        BY <2>1, <2>6, <3>2, <3>10
      <4> QED
        BY <3>1, <4>1 DEF RestOn
    <3>12. RestOn(m, j + 1)'
      BY <1>6, <1>11, <3>11
    <3>13. /\ Held(PieceOf(m, j))' /\ Cut(m)' = Cut(m) /\ j \in 1 .. Cut(m)
           /\ fragment' = Whole(m, j - 1)
      BY <1>1, <1>2, <1>5, <1>6, <3>1, <3>2, <3>10
    <3>14. Holding(m)'
      BY <3>12, <3>13 DEF Holding
    <3> QED
      BY <2>6, <3>14 DEF Alive
  <2> QED
    BY <2>1, <2>2, <2>3, <2>4, <2>5, <2>6 DEF Alive
<1>15. StaleBuffer' => StaleBuffer
  <2> SUFFICES ASSUME StaleBuffer' PROVE StaleBuffer
    OBVIOUS
  <2>0. PICK n : n = fragment[Len(fragment)].packet
    OBVIOUS
  <2>1. fragment # << >> /\ Gone(n)' /\ ~ \E p \in SentPieces' : Held(p)' /\ p.packet = n
    BY <1>1, <2>0 DEF StaleBuffer
  <2>2. n \in 1 .. Len(sent)
    BY <2>0, <2>1, BufferEnd, PieceFacts
  <2>3. n # m
    BY <1>0, <1>2, <1>5, <2>1
  <2>4. Gone(n)
    BY <1>2, <1>10, <2>1, <2>2, <2>3 DEF Gone
  <2> QED
    BY <1>4, <2>0, <2>1, <2>4 DEF StaleBuffer
<1>16. StaleHeld' => StaleHeld
  <2>1. Cut(m)' = Cut(m) /\ Cut(m) \in Nat
    BY <1>2, <1>6, PieceFacts
  <2>2. ~ StaleHeld'
    BY <1>0, <1>5, <1>6, <1>7, <1>12, <2>1 DEF StaleHeld, Gone
  <2> QED
    BY <2>2
<1> QED
  BY <1>1, <1>9, <1>14, <1>15, <1>16, SettledFree DEF DamageInv

\* Who is alive while a thread holds piece p, and what the last piece in the buffer
\* says about the packet that it belongs to.
LEMMA HeldFacts ==
  ASSUME TypeInv, Ordered, NEW p \in SentPieces, Held(p), \A q : Held(q) => q = p
  PROVE  /\ ~ Collecting(p.packet)
         /\ \A n : Holding(n) => /\ n = p.packet /\ p.piece \in 1 .. Cut(n)
                                 /\ p.piece = 1 \/ fragment = Whole(n, p.piece - 1)
                                 /\ RestOn(n, p.piece + 1)
         /\ \A n \in 1 .. Len(sent) :
              Collecting(n) => /\ fragment # << >> /\ fragment[Len(fragment)].packet = n
                               /\ ~ Gone(n)
         /\ fragment # << >> =>
              LET q == fragment[Len(fragment)]
              IN  /\ q.packet = p.packet => q.piece < p.piece
                  /\ q.packet # p.packet /\ From(q) = From(p) => StaleBuffer
<1>0. PICK m, i : m = p.packet /\ i = p.piece
  OBVIOUS
<1>1. /\ p = PieceOf(m, i) /\ m \in 1 .. Len(sent) /\ m \in Nat /\ i \in Nat
      /\ From(p) = Source(m) /\ Source(m) \in Conns /\ Cut(m) \in Nat
  BY <1>0, PieceFacts
<1>2. /\ \A r \in On(line[Source(m)]) : Precedes(p, r)
      /\ \A q \in On(fragment) : From(q) = Source(m) => Precedes(q, p)
  BY <1>1 DEF Ordered
<1>3. ASSUME NEW n \in 1 .. Len(sent), Collecting(n)
      PROVE  /\ fragment # << >> /\ fragment[Len(fragment)].packet = n /\ ~ Gone(n)
             /\ n # m
  <2>1. PICK x \in 1 .. Cut(n) - 1 : fragment = Whole(n, x) /\ RestOn(n, x + 1)
    BY <1>3 DEF Collecting
  <2>2. Cut(n) \in Nat
    BY PieceFacts
  <2>3. /\ x \in Nat \ {0} /\ x + 1 \in x + 1 .. Cut(n) /\ Cut(n) \in x + 1 .. Cut(n)
        /\ x \in 1 .. x
    BY <2>1, <2>2
  <2>4. IsOn(n, x + 1) /\ ~ Gone(n)
    BY <2>1, <2>3 DEF RestOn, Gone
  <2>5. fragment # << >> /\ PieceOf(n, x) \in On(fragment)
    <3>1. Len(Whole(n, x)) = x /\ On(Whole(n, x)) = {PieceOf(n, y) : y \in 1 .. x}
      BY <2>3, WholeIs
    <3>2. Len(<< >>) = 0
      BY EmptySeq
    <3> QED
      BY <2>1, <2>3, <3>1, <3>2
  <2>6. fragment[Len(fragment)] = PieceOf(n, x)
    BY <2>1, <2>3, <2>5, BufferEnd
  <2>7. ASSUME n = m PROVE FALSE
    <3>1. PieceOf(m, x) \in SentPieces
      BY <2>5, <2>7, HandedFacts
    <3>2. From(PieceOf(m, x)) = Source(m)
      BY <3>1, PieceFacts
    <3>3. Precedes(PieceOf(m, x), p)
      BY <1>2, <2>5, <2>7, <3>2
    <3>4. Precedes(p, PieceOf(m, x + 1))
      BY <1>2, <2>4, <2>7 DEF IsOn
    <3>5. x < i /\ i < x + 1
      BY <1>0, <1>1, <3>3, <3>4, PieceFacts DEF Precedes
    <3> QED
      BY <1>1, <2>3, <3>5
  <2> QED
    BY <2>4, <2>5, <2>6, <2>7, PieceFacts
<1>4. ASSUME NEW n, Holding(n)
      PROVE  /\ n = m /\ i \in 1 .. Cut(n)
             /\ i = 1 \/ fragment = Whole(n, i - 1)
             /\ RestOn(n, i + 1)
  <2>1. PICK x \in 1 .. Cut(n) : /\ Held(PieceOf(n, x)) /\ (x = 1 \/ fragment = Whole(n, x - 1))
                                 /\ RestOn(n, x + 1)
    BY <1>4 DEF Holding
  <2>2. PieceOf(n, x) = p
    BY <2>1
  <2>3. n = m /\ x = i
    BY <1>0, <2>2, PieceFacts
  <2> QED
    BY <2>1, <2>3
<1>5. ASSUME fragment # << >>, NEW q, q = fragment[Len(fragment)]
      PROVE  /\ q.packet = m => q.piece < i
             /\ q.packet # m /\ From(q) = From(p) => StaleBuffer
  <2>1. q \in On(fragment) /\ q \in SentPieces
    BY <1>5, BufferEnd
  <2>2. /\ q.packet \in 1 .. Len(sent) /\ q.packet \in Nat /\ q.piece \in Nat
        /\ From(q) = Source(q.packet)
    BY <2>1, PieceFacts
  <2>3. ASSUME q.packet = m PROVE q.piece < i
    <3>1. Precedes(q, p)
      BY <1>2, <2>1, <2>2, <2>3
    <3>2. q.packet < m \/ q.piece < i
      BY <1>0, <3>1 DEF Precedes
    <3>3. ~ q.packet < m
      BY <1>1, <2>3
    <3> QED
      BY <3>2, <3>3
  <2>4. ASSUME q.packet # m, From(q) = From(p) PROVE StaleBuffer
    <3>1. Precedes(q, p)
      BY <1>1, <1>2, <2>1, <2>4
    <3>2. q.packet < m
      BY <1>0, <1>1, <2>2, <2>4, <3>1 DEF Precedes
    <3>3. Gone(q.packet)
      <4> SUFFICES ASSUME IsOn(q.packet, Cut(q.packet)) PROVE FALSE
        BY DEF Gone
      <4>1. Precedes(p, PieceOf(q.packet, Cut(q.packet)))
        BY <1>1, <1>2, <2>2, <2>4 DEF IsOn
      <4>2. m <= q.packet
        BY <1>0, <1>1, <2>2, <4>1, PieceFacts DEF Precedes
      <4> QED
        BY <1>1, <2>2, <3>2, <4>2
    <3>4. ~ \E r \in SentPieces : Held(r) /\ r.packet = q.packet
      BY <1>0, <2>4
    <3> QED
      BY <1>5, <3>3, <3>4 DEF StaleBuffer
  <2> QED
    BY <2>3, <2>4
<1> QED
  BY <1>0, <1>1, <1>3, <1>4, <1>5

\* The branch on the flags keeps the order, for all it puts into the buffer is the
\* piece that the thread has.
LEMMA OrderedCollect ==
  ASSUME TypeInv, Ordered, UNCHANGED <<line, sent>>, NEW p \in SentPieces, Held(p),
         \A q : ~ Held(q)', On(fragment)' \subseteq On(fragment) \cup {p}
  PROVE  Ordered'
<1>1. /\ \A n, i : (IsOn(n, i)' <=> IsOn(n, i)) /\ (RestOn(n, i)' <=> RestOn(n, i))
      /\ \A n : Source(n)' = Source(n) /\ Cut(n)' = Cut(n)
      /\ \A q : From(q)' = From(q)
      /\ \A c : On(line[c])' = On(line[c]) /\ (Rising(line[c])' <=> Rising(line[c]))
  BY SameLines
<1>2. \A r : Followed(r)' <=> Followed(r)
  BY <1>1 DEF Followed
<1>3. ASSUME NEW q \in On(fragment)' PROVE \A r \in On(line[From(q)])' : Precedes(q, r)
  BY <1>1, <1>3 DEF Ordered
<1> QED
  BY <1>1, <1>2, <1>3 DEF Ordered

\* The branch on the flags for an unfragmented packet, which leaves the buffer alone.
LEMMA DamageCollectWhole ==
  ASSUME TypeInv, AloneInv, DamageInv, NEW c \in Conns, Collect(c), ~ flags.frag
  PROVE  DamageInv'
<1>1. /\ pc[c] = "collect" /\ pc' = [pc EXCEPT ![c] = "worker"]
      /\ UNCHANGED <<line, sent, fragment, data, handed, losses, switches>>
  BY DEF Collect, Complete
<1>2. pc'[c] = "worker" /\ \A d \in Conns \ {c} : pc[d] = "idle" /\ pc'[d] = "idle"
  BY <1>1, AloneThreads DEF AloneInv, TypeInv
<1>3. (\A q : ~ Held(q)') /\ ~ StaleHeld'
  <2>1. \A d \in Conns : pc'[d] \notin {"parse", "collect"}
    BY <1>2
  <2> QED
    BY <2>1 DEF Held, StaleHeld
<1>4. PICK p \in SentPieces : /\ From(p) = c /\ flags = FlagsOf(p) /\ data = <<p>>
                              /\ Held(p) /\ \A q : Held(q) => q = p
  BY <1>1, OneHeld
<1>5. PICK m : m = p.packet
  OBVIOUS
<1>6. /\ m \in 1 .. Len(sent) /\ Source(m) = c /\ Cut(m) = 1
      /\ p = PieceOf(m, p.piece) /\ p.piece \in Nat
  BY <1>4, <1>5, PieceFacts, FragmentsAssumption
<1>7. Ordered'
  <2>1. On(fragment)' \subseteq On(fragment) \cup {p}
    BY <1>1 DEF On
  <2> QED
    BY <1>1, <1>3, <1>4, <2>1, OrderedCollect DEF DamageInv
<1>8. /\ \A n, i : (IsOn(n, i)' <=> IsOn(n, i)) /\ (RestOn(n, i)' <=> RestOn(n, i))
      /\ \A n : (Gone(n)' <=> Gone(n)) /\ (Coming(n)' <=> Coming(n))
      /\ \A n : Source(n)' = Source(n) /\ Cut(n)' = Cut(n)
      /\ SentPieces' = SentPieces /\ Len(sent') = Len(sent)
  BY <1>1, SameLines
<1>9. ASSUME NEW n \in Living PROVE n \in Living'
  <2>1. n \in 1 .. Len(sent) /\ Alive(n) /\ Source(n) \in Conns
    BY PieceFacts DEF Living
  <2>2. ~ Passing(n)
    BY <1>1, <1>2, <2>1 DEF Passing
  <2>3. Collecting(n) => Collecting(n)'
    BY <1>1, <1>8 DEF Collecting
  <2>4. ASSUME Holding(n) PROVE Passing(n)'
    <3>1. n = m /\ p.piece \in 1 .. Cut(n)
      BY <1>4, <1>5, <2>4, HeldFacts DEF DamageInv
    <3>2. p = PieceOf(m, 1)
      BY <1>6, <3>1
    <3>3. data = Whole(m, 1)
      BY <1>4, <3>2, WholeGrows
    <3> QED
      BY <1>1, <1>2, <1>6, <1>8, <3>1, <3>3 DEF Passing
  <2>5. Alive(n)'
    BY <1>1, <1>8, <2>1, <2>2, <2>3, <2>4, SameArrived DEF Alive
  <2> QED
    BY <1>8, <2>1, <2>5 DEF Living
<1>10. StaleBuffer' => StaleBuffer
  <2> SUFFICES ASSUME StaleBuffer' PROVE StaleBuffer
    OBVIOUS
  <2>0. PICK q, n : q = fragment[Len(fragment)] /\ n = q.packet
    OBVIOUS
  <2>1. fragment # << >> /\ Gone(n)
    BY <1>1, <1>8, <2>0 DEF StaleBuffer
  <2>2. q \in On(fragment) /\ q \in SentPieces
    BY <2>0, <2>1, BufferEnd
  <2>3. Cut(n) > 1
    BY <2>0, <2>2, PieceFacts DEF AloneInv, BufferOK
  <2>4. n # m
    BY <1>6, <2>3
  <2> QED
    BY <1>4, <1>5, <2>0, <2>1, <2>4 DEF StaleBuffer
<1> QED
  BY <1>1, <1>3, <1>7, <1>9, <1>10, SettledFree DEF DamageInv

\* The branch for a fragment: if it finds the buffer as its packet left it, all that is
\* alive stays so; if it finds pieces of another packet, its own is spoilt and, when
\* that one is of another connection, that one as well.
LEMMA DamageCollectPiece ==
  ASSUME TypeInv, AloneInv, DamageInv, NEW c \in Conns, Collect(c), flags.frag
  PROVE  DamageInv'
<1>1. PICK p \in SentPieces : /\ From(p) = c /\ flags = FlagsOf(p) /\ data = <<p>>
                              /\ Held(p) /\ \A q : Held(q) => q = p
  BY OneHeld DEF Collect
<1>2. PICK m, i : m = p.packet /\ i = p.piece
  OBVIOUS
<1>3. /\ m \in 1 .. Len(sent) /\ Source(m) = c /\ Cut(m) \in Nat /\ Cut(m) > 1
      /\ p = PieceOf(m, i) /\ i \in Nat \ {0}
      /\ flags.last <=> i = Cut(m)
  BY <1>1, <1>2, PieceFacts
<1>4. PICK q, a : q = fragment[Len(fragment)] /\ a = q.packet
  OBVIOUS
<1>5. /\ pc[c] = "collect" /\ UNCHANGED <<line, sent, handed, losses>>
      /\ ~ flags.last => pc' = [pc EXCEPT ![c] = "idle"] /\ fragment' = fragment \o <<p>>
      /\ flags.last => /\ pc' = [pc EXCEPT ![c] = "worker"]
                       /\ data' = fragment \o <<p>> /\ fragment' = << >>
  <2>1. Others(c) = {}
    BY AloneThreads DEF AloneInv, Collect
  <2>2. Collected(c) = {fragment \o <<p>>}
    BY <1>1, <2>1, CollectFacts
  <2> QED
    BY <2>2 DEF Collect, Complete, AfterLast
<1>6. switches' = IF fragment # << >> /\ From(q) # c THEN switches + 1 ELSE switches
  <2>1. data # << >> /\ data[1] = p
    BY <1>1
  <2> QED
    BY <1>1, <1>4, <2>1 DEF Collect
<1>7. /\ \A d \in Conns \ {c} : pc[d] = "idle" /\ pc'[d] = "idle"
      /\ pc'[c] = IF flags.last THEN "worker" ELSE "idle"
  BY <1>5, AloneThreads DEF AloneInv, TypeInv
<1>8. (\A r : ~ Held(r)') /\ ~ StaleHeld'
  <2>1. \A d \in Conns : pc'[d] \notin {"parse", "collect"}
    BY <1>7
  <2> QED
    BY <2>1 DEF Held, StaleHeld
<1>9. /\ On(<<p>>) = {p} /\ <<p>> \in Seq(SentPieces) /\ On(<< >>) = {}
      /\ fragment \in Seq(SentPieces)
  BY OnOne, OnSet, EmptySeq DEF TypeInv
<1>10. PICK u : u = fragment \o <<p>>
  OBVIOUS
<1>11. u \in Seq(SentPieces) /\ On(u) = On(fragment) \cup {p} /\ u[Len(u)] = p /\ u # << >>
  <2>1. u \in Seq(SentPieces) /\ On(u) = On(fragment) \cup {p}
    <3>1. On(fragment \o <<p>>) = On(fragment) \cup On(<<p>>)
      BY <1>9, OnConcat
    <3>2. fragment \o <<p>> \in Seq(SentPieces)
      BY <1>9, ConcatProperties
    <3> QED
      BY <1>9, <1>10, <3>1, <3>2
  <2>2. Len(fragment) \in Nat /\ Len(<<p>>) = 1 /\ <<p>>[1] = p
    BY <1>9, LenProperties
  <2>3. Len(u) = Len(fragment) + 1 /\ u[Len(fragment) + 1] = p
    BY <1>9, <1>10, <2>2, ConcatProperties
  <2>4. u # << >>
    BY <2>2, <2>3, EmptySeq
  <2> QED
    BY <2>1, <2>3, <2>4
<1>12. Ordered'
  <2>1. On(fragment)' \subseteq On(fragment) \cup {p}
    <3>1. CASE flags.last
      <4>1. On(fragment)' = On(<< >>)
        BY <1>5, <3>1 DEF On
      <4> QED
        BY <1>9, <4>1
    <3>2. CASE ~ flags.last
      <4>1. On(fragment)' = On(u)
        BY <1>5, <1>10, <3>2 DEF On
      <4> QED
        BY <1>11, <4>1
    <3> QED
      BY <3>1, <3>2
  <2> QED
    BY <1>1, <1>5, <1>8, <2>1, OrderedCollect DEF DamageInv
<1>13. /\ \A n, x : (IsOn(n, x)' <=> IsOn(n, x)) /\ (RestOn(n, x)' <=> RestOn(n, x))
       /\ \A n : (Gone(n)' <=> Gone(n)) /\ (Coming(n)' <=> Coming(n))
       /\ \A n : Source(n)' = Source(n) /\ Cut(n)' = Cut(n)
       /\ SentPieces' = SentPieces /\ Len(sent') = Len(sent)
  BY <1>5, SameLines
<1>14. /\ ~ Collecting(m)
       /\ \A n : Holding(n) => /\ n = m /\ i \in 1 .. Cut(n)
                               /\ i = 1 \/ fragment = Whole(n, i - 1)
                               /\ RestOn(n, i + 1)
       /\ \A n \in 1 .. Len(sent) : Collecting(n) => fragment # << >> /\ a = n /\ ~ Gone(n)
       /\ fragment # << >> => /\ a = m => q.piece < i
                              /\ a # m /\ From(q) = c => StaleBuffer
  BY <1>1, <1>2, <1>4, HeldFacts DEF DamageInv
<1>15. ASSUME NEW n \in Living, n # m, fragment # << >> => a # n \/ Gone(n) PROVE n \in Living'
  <2>1. n \in 1 .. Len(sent) /\ Alive(n) /\ Source(n) \in Conns
    BY PieceFacts DEF Living
  <2>2. ~ Passing(n) /\ ~ Holding(n) /\ ~ Collecting(n)
    BY <1>5, <1>7, <1>14, <1>15, <2>1 DEF Passing
  <2>3. Alive(n)'
    BY <1>5, <1>13, <2>1, <2>2, SameArrived DEF Alive
  <2> QED
    BY <1>13, <2>1, <2>3 DEF Living
<1>16. ASSUME m \in Living, fragment = << >> \/ a = m PROVE m \in Living'
  <2> SUFFICES Alive(m)'
    BY <1>3, <1>13 DEF Living
  <2>1. Alive(m) /\ ~ Passing(m) /\ ~ Collecting(m)
    BY <1>3, <1>5, <1>14, <1>16 DEF Living, Passing
  <2>2. CASE Arrived(m) \/ Coming(m)
    BY <1>5, <1>13, <2>2, SameArrived DEF Alive
  <2>3. CASE Holding(m)
    <3>1. i \in 1 .. Cut(m) /\ (i = 1 \/ fragment = Whole(m, i - 1)) /\ RestOn(m, i + 1)
      BY <1>14, <2>3
    <3>2. i - 1 \in Nat /\ (i - 1) + 1 = i
      BY <1>3
    <3>3. fragment = Whole(m, i - 1)
      <4>1. CASE i = 1 /\ fragment # << >>
        <5>1. q \in SentPieces /\ q.piece < 1
          BY <1>4, <1>14, <1>16, <4>1, BufferEnd
        <5>2. q.piece \in 1 .. MaxPieces
          BY <5>1, PieceFacts
        <5> QED
          BY <5>1, <5>2, FragmentsAssumption
      <4>2. CASE i = 1 /\ fragment = << >>
        <5>1. Whole(m, 0) = << >>
          BY WholeGrows
        <5> QED
          BY <4>2, <5>1
      <4> QED
        BY <3>1, <4>1, <4>2
    <3>4. u = Whole(m, i)
      BY <1>3, <1>10, <3>2, <3>3, WholeGrows
    <3>5. CASE flags.last
      <4>1. pc'[c] = "worker" /\ data' = Whole(m, Cut(m))
        BY <1>3, <1>5, <1>7, <1>10, <3>4, <3>5
      <4> QED
        BY <1>3, <1>13, <4>1 DEF Passing, Alive
    <3>6. CASE ~ flags.last
      <4>1. i \in 1 .. Cut(m) - 1
        BY <1>3, <3>1, <3>6
      <4>2. fragment' = Whole(m, i) /\ RestOn(m, i + 1)'
        BY <1>5, <1>10, <1>13, <3>1, <3>4, <3>6
      <4> QED
        BY <1>13, <4>1, <4>2 DEF Collecting, Alive
    <3> QED
      BY <3>5, <3>6
  <2> QED
    BY <2>1, <2>2, <2>3 DEF Alive
<1>17. StaleBuffer' => StaleHeld
  <2> SUFFICES ASSUME StaleBuffer' PROVE StaleHeld
    OBVIOUS
  <2>1. fragment' # << >> /\ Gone(fragment'[Len(fragment')].packet)
    BY <1>13 DEF StaleBuffer
  <2>2. ~ flags.last /\ fragment' = u
    BY <1>5, <1>10, <2>1
  <2>3. fragment'[Len(fragment')] = p
    BY <1>11, <2>2
  <2>4. Gone(m) /\ i # Cut(m)
    BY <1>2, <1>3, <2>1, <2>2, <2>3
  <2> QED
    BY <1>1, <1>2, <2>4 DEF StaleHeld
<1>18. PICK x, y, r, s : /\ x = One(StaleBuffer) /\ y = One(StaleHeld)
                         /\ r = One(StaleBuffer)' /\ s = One(StaleHeld)'
  OBVIOUS
<1>19. x \in 0 .. 1 /\ y \in 0 .. 1 /\ r \in 0 .. 1 /\ s = 0 /\ r <= y
  BY <1>8, <1>17, <1>18 DEF One
<1>20. losses \in Nat /\ switches \in Nat /\ Paid
  BY DEF DamageInv, Paid
<1>21. CASE fragment = << >> \/ a = m
  <2>1. fragment # << >> => From(q) = c
    <3> SUFFICES ASSUME fragment # << >> PROVE From(q) = c
      OBVIOUS
    <3>1. q \in SentPieces /\ a = m
      BY <1>4, <1>21, BufferEnd
    <3>2. From(q) = Source(q.packet)
      BY <3>1, PieceFacts
    <3> QED
      BY <1>3, <1>4, <3>1, <3>2
  <2>2. UNCHANGED <<losses, switches>>
    BY <1>5, <1>6, <2>1
  <2>3. PICK K : K = {}
    OBVIOUS
  <2>4. IsFiniteSet(K) /\ Cardinality(K) = 0 /\ Living \subseteq Living' \cup K
    BY <1>15, <1>16, <1>21, <2>3, FS_EmptySet
  <2>5. 0 + r + s <= x + y + 2 * 0
    BY <1>19
  <2>6. losses' \in Nat /\ switches' \in Nat /\ losses' + switches' = losses + switches + 0
    BY <1>20, <2>2
  <2>7. Cardinality(K) + One(StaleBuffer)' + One(StaleHeld)' <= One(StaleBuffer) + One(StaleHeld) + 2 * 0
    BY <1>18, <2>4, <2>5
  <2>8. UNCHANGED sent /\ Paid /\ 0 \in Nat
    BY <1>5, <1>20
  <2>9. Paid'
    BY <2>4, <2>6, <2>7, <2>8, Settled
  <2> QED
    BY <1>12, <2>9 DEF DamageInv
<1>22. CASE fragment # << >> /\ a # m /\ From(q) = c
  <2>1. StaleBuffer /\ Gone(a)
    BY <1>4, <1>14, <1>22 DEF StaleBuffer
  <2>2. UNCHANGED <<losses, switches>>
    BY <1>5, <1>6, <1>22
  <2>3. Living \subseteq Living' \cup {m}
    BY <1>15, <2>1
  <2>4. IsFiniteSet({m}) /\ Cardinality({m}) = 1
    BY FS_Singleton
  <2>5. x = 1
    BY <1>18, <2>1 DEF One
  <2>6. 1 + r + s <= x + y + 2 * 0
    BY <1>19, <2>5
  <2>7. losses' \in Nat /\ switches' \in Nat /\ losses' + switches' = losses + switches + 0
    BY <1>20, <2>2
  <2>8. Cardinality({m}) + One(StaleBuffer)' + One(StaleHeld)' <= One(StaleBuffer) + One(StaleHeld) + 2 * 0
    BY <1>18, <2>4, <2>6
  <2>9. Paid'
    BY <1>5, <1>20, <2>3, <2>4, <2>7, <2>8, Settled
  <2> QED
    BY <1>12, <2>9 DEF DamageInv
<1>23. CASE fragment # << >> /\ a # m /\ From(q) # c
  <2>1. losses' = losses /\ switches' = switches + 1
    BY <1>5, <1>6, <1>23
  <2>2. Living \subseteq Living' \cup {m, a}
    BY <1>15
  <2>3. IsFiniteSet({m, a}) /\ Cardinality({m, a}) = 2
    <3>1. IsFiniteSet({m}) /\ Cardinality({m}) = 1 /\ {m} \cup {a} = {m, a} /\ a \notin {m}
      BY <1>23, FS_Singleton
    <3>2. IsFiniteSet({m} \cup {a}) /\ Cardinality({m} \cup {a}) = Cardinality({m}) + 1
      BY <3>1, FS_AddElement
    <3> QED
      BY <3>1, <3>2
  <2>4. 2 + r + s <= x + y + 2 * 1
    BY <1>19
  <2>5. losses' \in Nat /\ switches' \in Nat /\ losses' + switches' = losses + switches + 1
    BY <1>20, <2>1
  <2>6. Cardinality({m, a}) + One(StaleBuffer)' + One(StaleHeld)' <= One(StaleBuffer) + One(StaleHeld) + 2 * 1
    BY <1>18, <2>3, <2>4
  <2>7. Paid'
    BY <1>5, <1>20, <2>2, <2>3, <2>5, <2>6, Settled
  <2> QED
    BY <1>12, <2>7 DEF DamageInv
<1> QED
  BY <1>21, <1>22, <1>23

\* At the start nothing was sent, so nothing is missing.
LEMMA DamageInit == Init => DamageInv
<1> SUFFICES ASSUME Init PROVE DamageInv
  OBVIOUS
<1>1. /\ \A c \in Conns : line[c] = << >> /\ pc[c] = "idle"
      /\ fragment = << >> /\ sent = << >> /\ losses = 0 /\ switches = 0
      /\ Len(<< >>) = 0
  BY EmptySeq DEF Init
<1>2. On(<< >>) = {} /\ Rising(<< >>)
  BY <1>1 DEF On, Rising
<1>3. (\A p : ~ Held(p)) /\ ~ StaleHeld
  BY <1>1, NoneHeld
<1>4. Ordered
  BY <1>1, <1>2, <1>3 DEF Ordered
<1>5. ~ StaleBuffer
  BY <1>1 DEF StaleBuffer
<1>6. Living = {} /\ Cardinality(Living) = 0
  BY <1>1, FS_EmptySet DEF Living
<1>7. One(StaleBuffer) = 0 /\ One(StaleHeld) = 0
  BY <1>3, <1>5 DEF One
<1>8. Paid
  BY <1>1, <1>6, <1>7 DEF Paid
<1> QED
  BY <1>4, <1>8 DEF DamageInv

CostInv == ~ raced => DamageInv

\* Every step pays for what it costs, as long as no two threads have met.
LEMMA CostStep == FragmentsInv /\ CostInv /\ [Next]_vars => CostInv'
<1> SUFFICES ASSUME FragmentsInv, CostInv, [Next]_vars, ~ raced' PROVE DamageInv'
  BY DEF CostInv
<1>1. CASE UNCHANGED vars
  <2>1. /\ UNCHANGED <<line, sent, fragment, handed, losses, switches>>
        /\ UNCHANGED <<pc, frame, data>> /\ ~ raced
    BY <1>1 DEF vars, staticVars
  <2>2. TypeInv /\ DamageInv
    BY <2>1 DEF FragmentsInv, CostInv
  <2>3. \A p : Held(p)' <=> Held(p)
    BY <2>1 DEF Held
  <2>4. /\ Ordered' /\ (StaleBuffer' <=> StaleBuffer) /\ (StaleHeld' <=> StaleHeld)
        /\ \A n : (Coming(n) => Coming(n)') /\ (Collecting(n) => Collecting(n)')
                  /\ (Holding(n) => Holding(n)')
    BY <2>1, <2>2, <2>3, SamePlaces DEF DamageInv
  <2>5. \A n : (Passing(n) => Passing(n)') /\ (Arrived(n) => Arrived(n)')
    BY <2>1, SameLines, SameArrived DEF Passing
  <2>6. \A n : Alive(n) => Alive(n)'
    BY <2>4, <2>5 DEF Alive
  <2>7. Living \subseteq Living'
    BY <2>1, <2>6 DEF Living
  <2> QED
    BY <2>1, <2>2, <2>4, <2>7, SettledFree DEF DamageInv
<1>2. ASSUME ~ UNCHANGED vars PROVE ~ raced /\ TypeInv /\ AloneInv /\ DamageInv
  <2>1. ~ raced
    BY <1>2 DEF Next, DeviceSend, LoseFrame, ParseFlags, ParseData, Collect, HandToWorker,
                HandToProtocol, TypeInv, FragmentsInv
  <2> QED
    BY <2>1 DEF FragmentsInv, CostInv
<1>3. CASE ~ UNCHANGED vars
  <2>1. ASSUME NEW c \in Conns, NEW k \in 1 .. MaxPieces, DeviceSend(c, k) PROVE DamageInv'
    BY <1>2, <1>3, <2>1, DamageSend
  <2>2. ASSUME NEW c \in Conns, LoseFrame(c) PROVE DamageInv'
    BY <1>2, <1>3, <2>2, DamageLose
  <2>3. ASSUME NEW c \in Conns, ParseFlags(c) PROVE DamageInv'
    BY <1>2, <1>3, <2>3, DamageParseFlags
  <2>4. ASSUME NEW c \in Conns, ParseData(c) PROVE DamageInv'
    BY <1>2, <1>3, <2>4, DamageParseData
  <2>5. ASSUME NEW c \in Conns, Collect(c) PROVE DamageInv'
    <3>1. CASE flags.frag
      BY <1>2, <1>3, <2>5, <3>1, DamageCollectPiece
    <3>2. CASE ~ flags.frag
      BY <1>2, <1>3, <2>5, <3>2, DamageCollectWhole
    <3> QED
      BY <3>1, <3>2
  <2>6. ASSUME NEW c \in Conns, HandToWorker(c) PROVE DamageInv'
    BY <1>2, <1>3, <2>6, DamageToWorker
  <2>7. ASSUME NEW c \in Conns, HandToProtocol(c) PROVE DamageInv'
    BY <1>2, <1>3, <2>7, DamageToProtocol
  <2> QED
    BY <1>3, <2>1, <2>2, <2>3, <2>4, <2>5, <2>6, <2>7 DEF Next
<1> QED
  BY <1>1, <1>3

\* BoundedDamage: while no two threads have met in parseFrame(), a lost frame, or a
\* piece that meets one of another connection in the shared buffer, costs at most two
\* packets, for every number of connections, packets, pieces and losses.
THEOREM DamageIsBounded == Spec => []BoundedDamage
<1>1. FragmentsInv /\ CostInv => BoundedDamage
  <2> SUFFICES ASSUME FragmentsInv, CostInv, ~ raced, Drained
               PROVE  Len(sent) - Cardinality(Intact) <= 2 * (losses + switches)
    BY DEF BoundedDamage
  <2>1. TypeInv /\ Paid
    BY DEF FragmentsInv, CostInv, DamageInv
  <2>2. DOMAIN sent = 1 .. Len(sent) /\ Len(sent) \in Nat
    BY <2>1, LenProperties DEF TypeInv
  <2>3. \A c \in Conns : line[c] = << >> /\ pc[c] = "idle" /\ On(line[c]) = {}
    <3>1. On(<< >>) = {}
      BY <2>1, OnSet DEF TypeInv
    <3> QED
      BY <3>1 DEF Drained
  <2>4. (\A p : ~ Held(p)) /\ ~ StaleHeld
    BY <2>3, NoneHeld
  <2>5. ASSUME NEW n \in Living PROVE n \in Intact
    <3>1. n \in 1 .. Len(sent) /\ Alive(n) /\ Source(n) \in Conns /\ Cut(n) \in Nat \ {0}
      <4>1. n \in 1 .. Len(sent) /\ Alive(n)
        BY DEF Living
      <4> QED
        BY <2>1, <4>1, PieceFacts
    <3>2. ~ Passing(n) /\ ~ Holding(n) /\ \A i : ~ IsOn(n, i)
      BY <2>3, <2>4, <3>1 DEF Passing, Holding, IsOn
    <3>3. 1 \in 1 .. Cut(n)
      BY <3>1
    <3>4. ~ Coming(n)
      BY <3>2, <3>3 DEF Coming, RestOn
    <3>5. ~ Collecting(n)
      <4>1. \A i \in 1 .. Cut(n) - 1 : Cut(n) \in i + 1 .. Cut(n)
        BY <3>1
      <4> QED
        BY <3>2, <4>1 DEF Collecting, RestOn
    <3>6. Arrived(n)
      BY <3>1, <3>2, <3>4, <3>5 DEF Alive
    <3> QED
      BY <2>2, <3>1, <3>6 DEF Intact, Arrived, Source, Cut
  <2>6. Intact \subseteq 1 .. Len(sent) /\ Living \subseteq 1 .. Len(sent)
    BY <2>2 DEF Intact, Living
  <2>7. IsFiniteSet(Intact) /\ IsFiniteSet(Living)
    <3>1. IsFiniteSet(1 .. Len(sent))
      BY <2>2, FS_Interval
    <3> QED
      BY <2>6, <3>1, FS_Subset
  <2>8. PICK a, b, n, l, w : /\ a = Cardinality(Living) /\ b = Cardinality(Intact)
                             /\ n = Len(sent) /\ l = losses /\ w = switches
    OBVIOUS
  <2>9. a \in Nat /\ b \in Nat /\ a <= b
    BY <2>5, <2>7, <2>8, FS_CardinalityType, FS_Subset
  <2>10. PICK x, y : x = One(StaleBuffer) /\ y = One(StaleHeld)
    OBVIOUS
  <2>11. x \in Nat /\ y \in Nat
    BY <2>10 DEF One
  <2>12. l \in Nat /\ w \in Nat /\ (n - a) + x + y <= 2 * (l + w) /\ n \in Nat
    BY <2>1, <2>2, <2>8, <2>10 DEF Paid
  <2>13. n - b <= 2 * (l + w)
    BY <2>9, <2>11, <2>12
  <2> QED
    BY <2>8, <2>13
<1>2. Init => CostInv
  BY DamageInit DEF CostInv
<1> QED
  BY <1>1, <1>2, CostStep, FragmentsSafe, PTL DEF Spec
=============================================================================
