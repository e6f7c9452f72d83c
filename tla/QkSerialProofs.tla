---------------------------- MODULE QkSerialProofs ----------------------------
(***************************************************************************)
(* Proofs about QkSerial, for all bytes and frames and for every number of *)
(* frames and of damaged bytes: over a line without errors the framing is  *)
(* a FrameChannel, and each damaged byte costs at most two frames and      *)
(* makes up at most two.                                                   *)
(***************************************************************************)
EXTENDS QkSerial, SequenceTheorems, FiniteSetTheorems, TLAPS

----------------------------------------------------------------------------
(***************************************************************************)
(* Induction.  A set of natural numbers that holds 0 and with each number  *)
(* the next one holds all, since the set of those it misses would have a   *)
(* least one.                                                              *)
(***************************************************************************)
\* A set of naturals that is not empty has a least element.
LEMMA LeastNumber ==
  ASSUME NEW T, T \subseteq Nat, T # {}
  PROVE  \E x \in T : \A y \in T : ~ y < x
<1> DEFINE R == {p \in Nat \X Nat : p[1] < p[2]}
<1>1. IsWellFoundedOn(R, Nat)
  BY NatLessThanWellFounded DEF OpToRel
<1>2. \A x, y \in Nat : y < x <=> <<y, x>> \in R
  OBVIOUS
<1> HIDE DEF R
<1>3. \E x \in T : \A y \in T : ~ (<<y, x>> \in R)
  BY <1>1, WFMin
<1> QED
  BY <1>2, <1>3

\* The principle of induction, for sets.
LEMMA SetInduction ==
  ASSUME NEW T, 0 \in T, \A n \in Nat : n \in T => n + 1 \in T
  PROVE  \A n \in Nat : n \in T
<1> DEFINE Missed == Nat \ T
<1>1. SUFFICES ASSUME Missed # {} PROVE FALSE
  OBVIOUS
<1>2. PICK x \in Missed : \A y \in Missed : ~ y < x
  <2>1. Missed \subseteq Nat
    OBVIOUS
  <2> HIDE DEF Missed
  <2> QED
    BY <1>1, <2>1, LeastNumber
<1>3. x # 0 /\ x - 1 \in Nat /\ x - 1 < x /\ (x - 1) + 1 = x
  OBVIOUS
<1>4. x - 1 \in T
  BY <1>2, <1>3
<1> QED
  BY <1>3, <1>4

----------------------------------------------------------------------------
(***************************************************************************)
(* What FlattenSeq() returns: its recursive function exists, so that each  *)
(* prefix is the one before it with one more sequence behind it.           *)
(***************************************************************************)
\* The function that flattens the first i sequences of s, for each i up to n.
Flattens(g, s, n) == g = [i \in 1 .. n |-> IF i = 1 THEN s[i] ELSE g[i - 1] \o s[i]]

\* There is such a function, however many sequences there are.
LEMMA FlattensExists ==
  ASSUME NEW s
  PROVE  \A n \in Nat : \E g : Flattens(g, s, n)
<1> DEFINE T == {n \in Nat : \E g : Flattens(g, s, n)}
<1>1. 0 \in T
  <2>1. Flattens(<< >>, s, 0)
    BY DEF Flattens
  <2> QED
    BY <2>1
<1>2. ASSUME NEW n \in Nat, n \in T PROVE n + 1 \in T
  <2>1. PICK g : Flattens(g, s, n)
    BY <1>2
  <2> DEFINE h == [i \in 1 .. n + 1 |->
                     IF i = n + 1 THEN (IF i = 1 THEN s[i] ELSE g[i - 1] \o s[i]) ELSE g[i]]
  <2>2. \A i \in 1 .. n : g[i] = IF i = 1 THEN s[i] ELSE g[i - 1] \o s[i]
    BY <2>1 DEF Flattens
  <2>3. ASSUME NEW i \in 1 .. n + 1 PROVE h[i] = IF i = 1 THEN s[i] ELSE h[i - 1] \o s[i]
    <3>1. CASE i = n + 1
      <4>1. i # 1 => i - 1 \in 1 .. n + 1 /\ i - 1 # n + 1
        BY <3>1
      <4> QED
        BY <3>1, <4>1
    <3>2. CASE i # n + 1
      <4>1. i \in 1 .. n /\ (i # 1 => i - 1 \in 1 .. n + 1 /\ i - 1 # n + 1)
        BY <3>2
      <4> QED
        BY <2>2, <3>2, <4>1
    <3> QED
      BY <3>1, <3>2
  <2>4. Flattens(h, s, n + 1)
    BY <2>3 DEF Flattens
  <2> QED
    BY <2>4
<1> HIDE DEF T
<1>3. \A n \in Nat : n \in T
  BY <1>1, <1>2, SetInduction
<1> QED
  BY <1>3 DEF T

\* What FlattenSeq() makes of a sequence that is not empty.
LEMMA FlattenSeqIs ==
  ASSUME NEW S, NEW s \in Seq(S), s # << >>
  PROVE  \E g : Flattens(g, s, Len(s)) /\ FlattenSeq(s) = g[Len(s)]
<1> PICK n : n = Len(s)
  OBVIOUS
<1>1. n \in Nat \ {0}
  BY EmptySeq
<1> DEFINE f == CHOOSE g : g = [i \in 1 .. n |-> IF i = 1 THEN s[i] ELSE g[i - 1] \o s[i]]
<1>2. FlattenSeq(s) = f[n]
  BY <1>1 DEF FlattenSeq
<1>3. f = [i \in 1 .. n |-> IF i = 1 THEN s[i] ELSE f[i - 1] \o s[i]]
  <2>1. \E g : g = [i \in 1 .. n |-> IF i = 1 THEN s[i] ELSE g[i - 1] \o s[i]]
    BY <1>1, FlattensExists DEF Flattens
  <2> QED
    BY <2>1
<1>4. Flattens(f, s, n)
  BY <1>3 DEF Flattens
<1> QED
  BY <1>2, <1>4

----------------------------------------------------------------------------
(***************************************************************************)
(* Places.  Between two bytes the sender is at a place in the frames gs    *)
(* that are to be sent: before the start flag of a frame, in it behind a   *)
(* number of its bytes, or behind an escape and before the byte that it    *)
(* escapes.  A place determines the next byte, and the byte the next place.*)
(***************************************************************************)
Place == [frame : Nat, done : Nat, side : {"out", "in", "esc"}]

Out(k) == [frame |-> k, done |-> 0, side |-> "out"]
In(k, j) == [frame |-> k, done |-> j, side |-> "in"]
Esc(k, j) == [frame |-> k, done |-> j, side |-> "esc"]

Contents(gs, p) == gs[p.frame]
Special(b) == b \in {FLAG, DLE}

\* p is a place at which a byte is still to come.
Inside(gs, p) ==
  /\ p \in Place
  /\ p.frame \in 1 .. Len(gs)
  /\ p.side = "out" => p.done = 0
  /\ p.side = "in" => p.done \in 0 .. Len(Contents(gs, p))
  /\ p.side = "esc" => /\ p.done + 1 \in 1 .. Len(Contents(gs, p))
                       /\ Special(Contents(gs, p)[p.done + 1])

AtEnd(gs, p) == p.side = "in" /\ p.done = Len(Contents(gs, p))
Escapes(gs, p) == p.side = "in" /\ ~ AtEnd(gs, p) /\ Special(Contents(gs, p)[p.done + 1])

NextByte(gs, p) ==
  IF p.side = "out" \/ AtEnd(gs, p) THEN FLAG
  ELSE IF Escapes(gs, p) THEN DLE
  ELSE Contents(gs, p)[p.done + 1]

After(gs, p) ==
  IF p.side = "out" THEN In(p.frame, 0)
  ELSE IF AtEnd(gs, p) THEN Out(p.frame + 1)
  ELSE IF Escapes(gs, p) THEN Esc(p.frame, p.done)
  ELSE In(p.frame, p.done + 1)

\* What is sent: frames that are not empty.
Sendable == Seq(Seq(Bytes) \ {<< >>})

\* A place's byte is a byte, and behind it is a place.
LEMMA PlaceType ==
  ASSUME NEW gs \in Sendable, NEW p, Inside(gs, p)
  PROVE  /\ Contents(gs, p) \in Seq(Bytes)
         /\ Contents(gs, p) # << >>
         /\ Len(Contents(gs, p)) \in Nat \ {0}
         /\ NextByte(gs, p) \in Bytes
         /\ After(gs, p) \in Place
<1>1. Contents(gs, p) \in Seq(Bytes) \ {<< >>}
  BY DEF Contents, Inside, Sendable
<1>2. Len(Contents(gs, p)) \in Nat \ {0}
  BY <1>1, EmptySeq
<1>3. p.frame \in Nat /\ p.done \in Nat /\ p.side \in {"out", "in", "esc"}
  BY DEF Inside, Place
<1>4. NextByte(gs, p) \in Bytes
  <2>1. CASE p.side = "out" \/ AtEnd(gs, p) \/ Escapes(gs, p)
    BY <2>1 DEF NextByte, Bytes
  <2>2. CASE ~ (p.side = "out" \/ AtEnd(gs, p) \/ Escapes(gs, p))
    <3>1. p.done + 1 \in 1 .. Len(Contents(gs, p))
      BY <1>2, <1>3, <2>2 DEF Inside, AtEnd
    <3> QED
      BY <1>1, <2>2, <3>1 DEF NextByte
  <2> QED
    BY <2>1, <2>2
<1>5. After(gs, p) \in Place
  BY <1>3 DEF After, Place, In, Out, Esc
<1> QED
  BY <1>1, <1>2, <1>4, <1>5

----------------------------------------------------------------------------
(***************************************************************************)
(* Ways.  The bytes c lead from the place p to the place q.  What Encode() *)
(* makes of a frame leads from before its start flag to before the next.   *)
(***************************************************************************)
IsWay(gs, c, w, p, q) ==
  /\ w \in [1 .. Len(c) + 1 -> Place]
  /\ w[1] = p
  /\ w[Len(c) + 1] = q
  /\ \A i \in 1 .. Len(c) :
       Inside(gs, w[i]) /\ c[i] = NextByte(gs, w[i]) /\ w[i + 1] = After(gs, w[i])

Way(gs, c, p, q) == \E w : IsWay(gs, c, w, p, q)

\* The bytes of one place lead to the place behind it.
LEMMA WayOne ==
  ASSUME NEW gs \in Sendable, NEW p, Inside(gs, p)
  PROVE  Way(gs, <<NextByte(gs, p)>>, p, After(gs, p))
<1> DEFINE b == NextByte(gs, p)
<1> DEFINE w == [i \in 1 .. 2 |-> IF i = 1 THEN p ELSE After(gs, p)]
<1>1. Len(<<b>>) = 1 /\ <<b>>[1] = b
  OBVIOUS
<1>2. p \in Place /\ After(gs, p) \in Place
  BY PlaceType DEF Inside
<1>3. w \in [1 .. 2 -> Place] /\ w[1] = p /\ w[2] = After(gs, p)
  BY <1>2
<1> HIDE DEF w
<1>4. IsWay(gs, <<b>>, w, p, After(gs, p))
  BY <1>1, <1>3 DEF IsWay
<1> QED
  BY <1>4 DEF Way

\* Ways that meet make one.
LEMMA WayConcat ==
  ASSUME NEW gs \in Sendable, NEW c \in Seq(Bytes), NEW d \in Seq(Bytes),
         NEW p, NEW q, NEW r, Way(gs, c, p, q), Way(gs, d, q, r)
  PROVE  Way(gs, c \o d, p, r)
<1>1. PICK v : IsWay(gs, c, v, p, q)
  BY DEF Way
<1>2. PICK w : IsWay(gs, d, w, q, r)
  BY DEF Way
<1> PICK m, n : m = Len(c) /\ n = Len(d)
  OBVIOUS
<1>3. m \in Nat /\ n \in Nat
  OBVIOUS
<1>4. Len(c \o d) = m + n
  BY ConcatProperties
<1>5. /\ \A i \in 1 .. m : (c \o d)[i] = c[i]
      /\ \A i \in 1 .. n : (c \o d)[m + i] = d[i]
  BY <1>3, ConcatProperties
<1> DEFINE u == [i \in 1 .. (m + n) + 1 |-> IF i <= m THEN v[i] ELSE w[i - m]]
<1>6. /\ v \in [1 .. m + 1 -> Place] /\ v[1] = p /\ v[m + 1] = q
      /\ \A i \in 1 .. m :
           Inside(gs, v[i]) /\ c[i] = NextByte(gs, v[i]) /\ v[i + 1] = After(gs, v[i])
  BY <1>1 DEF IsWay
<1>7. /\ w \in [1 .. n + 1 -> Place] /\ w[1] = q /\ w[n + 1] = r
      /\ \A i \in 1 .. n :
           Inside(gs, w[i]) /\ d[i] = NextByte(gs, w[i]) /\ w[i + 1] = After(gs, w[i])
  BY <1>2 DEF IsWay
<1>8. \A i \in 1 .. m + 1 : u[i] = v[i]
  <2>1. \A i \in 1 .. m : u[i] = v[i]
    BY <1>3
  <2>2. u[m + 1] = w[1]
    BY <1>3
  <2> QED
    BY <1>3, <1>6, <1>7, <2>1, <2>2
<1>9. \A i \in 1 .. n + 1 : u[m + i] = w[i]
  BY <1>3
<1>10. u \in [1 .. (m + n) + 1 -> Place]
  <2>1. ASSUME NEW i \in 1 .. (m + n) + 1 PROVE u[i] \in Place
    <3>1. CASE i <= m
      BY <1>3, <1>6, <3>1
    <3>2. CASE ~ i <= m
      <4>1. i - m \in 1 .. n + 1
        BY <1>3, <3>2
      <4> QED
        BY <1>7, <3>2, <4>1
    <3> QED
      BY <3>1, <3>2
  <2> QED
    BY <2>1
<1> HIDE DEF u
<1>11. u[1] = p /\ u[(m + n) + 1] = r
  <2>1. 1 \in 1 .. m + 1 /\ n + 1 \in 1 .. n + 1 /\ m + (n + 1) = (m + n) + 1
    BY <1>3
  <2> QED
    BY <1>6, <1>7, <1>8, <1>9, <2>1
<1>12. ASSUME NEW i \in 1 .. m + n
       PROVE  /\ Inside(gs, u[i])
              /\ (c \o d)[i] = NextByte(gs, u[i])
              /\ u[i + 1] = After(gs, u[i])
  <2>1. CASE i <= m
    <3>1. i \in 1 .. m /\ i \in 1 .. m + 1 /\ i + 1 \in 1 .. m + 1
      BY <1>3, <2>1
    <3> QED
      BY <1>5, <1>6, <1>8, <3>1
  <2>2. CASE ~ i <= m
    <3> PICK j : j = i - m
      OBVIOUS
    <3>1. /\ j \in 1 .. n /\ j \in 1 .. n + 1 /\ j + 1 \in 1 .. n + 1
          /\ i = m + j /\ i + 1 = m + (j + 1)
      BY <1>3, <2>2
    <3>2. u[i] = w[j]
      BY <1>9, <3>1
    <3>3. u[i + 1] = w[j + 1]
      BY <1>9, <3>1
    <3>4. (c \o d)[i] = d[j]
      BY <1>5, <3>1
    <3> QED
      BY <1>7, <3>1, <3>2, <3>3, <3>4
  <2> QED
    BY <2>1, <2>2
<1>13. IsWay(gs, c \o d, u, p, r)
  BY <1>4, <1>10, <1>11, <1>12 DEF IsWay
<1> QED
  BY <1>13 DEF Way

\* What Escape() makes of a byte of a frame leads past that byte.
LEMMA WayEscape ==
  ASSUME NEW gs \in Sendable, NEW k \in 1 .. Len(gs), NEW j \in Nat, j + 1 \in 1 .. Len(gs[k])
  PROVE  /\ Escape(gs[k][j + 1]) \in Seq(Bytes)
         /\ Way(gs, Escape(gs[k][j + 1]), In(k, j), In(k, j + 1))
<1> PICK b : b = gs[k][j + 1]
  OBVIOUS
<1>1. gs[k] \in Seq(Bytes) /\ gs[k] # << >>
  BY DEF Sendable
<1>2. b \in Bytes /\ FLAG \in Bytes /\ DLE \in Bytes
  BY <1>1 DEF Bytes
<1>3. Inside(gs, In(k, j))
  <2>1. j \in 0 .. Len(gs[k]) /\ k \in Nat
    BY <1>1
  <2> QED
    BY <2>1 DEF Inside, In, Place, Contents
<1>4. ~ AtEnd(gs, In(k, j))
  BY <1>1 DEF AtEnd, In, Contents
<1>5. CASE ~ Special(b)
  <2>1. ~ Escapes(gs, In(k, j))
    BY <1>5 DEF Escapes, In, Contents
  <2>2. NextByte(gs, In(k, j)) = b /\ After(gs, In(k, j)) = In(k, j + 1)
    BY <1>4, <2>1 DEF NextByte, After, In, Contents
  <2>3. Escape(b) = <<b>>
    BY <1>5 DEF Escape, Special
  <2> QED
    BY <1>2, <1>3, <2>2, <2>3, WayOne
<1>6. CASE Special(b)
  <2>1. Escapes(gs, In(k, j))
    BY <1>4, <1>6 DEF Escapes, In, Contents
  <2>2. NextByte(gs, In(k, j)) = DLE /\ After(gs, In(k, j)) = Esc(k, j)
    BY <1>4, <2>1 DEF NextByte, After, In
  <2>3. Inside(gs, Esc(k, j))
    BY <1>6 DEF Inside, Esc, Place, Contents
  <2>4. NextByte(gs, Esc(k, j)) = b /\ After(gs, Esc(k, j)) = In(k, j + 1)
    BY DEF NextByte, After, Esc, In, Contents, AtEnd, Escapes
  <2>5. Way(gs, <<DLE>>, In(k, j), Esc(k, j)) /\ Way(gs, <<b>>, Esc(k, j), In(k, j + 1))
    BY <1>3, <2>2, <2>3, <2>4, WayOne
  <2>6. <<DLE>> \in Seq(Bytes) /\ <<b>> \in Seq(Bytes)
    BY <1>2
  <2>7. Way(gs, <<DLE>> \o <<b>>, In(k, j), In(k, j + 1))
    BY <2>5, <2>6, WayConcat
  <2>8. Escape(b) = <<DLE>> \o <<b>> /\ Escape(b) \in Seq(Bytes)
    BY <1>2, <1>6 DEF Escape, Special
  <2> QED
    BY <2>7, <2>8
<1> QED
  BY <1>5, <1>6

\* The escaped bytes of a frame, flattened, lead from its start to its end.
LEMMA WayBody ==
  ASSUME NEW gs \in Sendable, NEW k \in 1 .. Len(gs)
  PROVE  /\ FlattenSeq([i \in DOMAIN gs[k] |-> Escape(gs[k][i])]) \in Seq(Bytes)
         /\ Way(gs, FlattenSeq([i \in DOMAIN gs[k] |-> Escape(gs[k][i])]),
                In(k, 0), In(k, Len(gs[k])))
<1> PICK f, n : f = gs[k] /\ n = Len(f)
  OBVIOUS
<1> DEFINE s == [i \in DOMAIN f |-> Escape(f[i])]
<1>1. f \in Seq(Bytes) /\ f # << >> /\ DOMAIN f = 1 .. n /\ n \in Nat \ {0}
  BY EmptySeq DEF Sendable
<1>2. \A i \in 1 .. n : Escape(f[i]) \in Seq(Bytes)
                        /\ Way(gs, Escape(f[i]), In(k, i - 1), In(k, i))
  <2>1. ASSUME NEW i \in 1 .. n PROVE Escape(f[i]) \in Seq(Bytes)
                                       /\ Way(gs, Escape(f[i]), In(k, i - 1), In(k, i))
    <3> PICK j : j = i - 1
      OBVIOUS
    <3>1. j \in Nat /\ j + 1 = i /\ j + 1 \in 1 .. Len(gs[k])
      BY <1>1
    <3> QED
      BY <3>1, WayEscape
  <2> QED
    BY <2>1
<1>3. s = [i \in 1 .. n |-> Escape(f[i])] /\ s \in Seq(Seq(Bytes)) /\ Len(s) = n
  BY <1>1, <1>2
<1>4. s # << >>
  BY <1>1, <1>3
<1>5. PICK g : Flattens(g, s, n) /\ FlattenSeq(s) = g[n]
  <2> HIDE DEF s
  <2> QED
    BY <1>3, <1>4, FlattenSeqIs
<1>6. \A i \in 1 .. n : g[i] = IF i = 1 THEN Escape(f[i]) ELSE g[i - 1] \o Escape(f[i])
  BY <1>1, <1>5 DEF Flattens
<1> HIDE DEF s
<1> DEFINE T == {j \in Nat : j + 1 \in 1 .. n => g[j + 1] \in Seq(Bytes)
                                                 /\ Way(gs, g[j + 1], In(k, 0), In(k, j + 1))}
<1>7. 0 \in T
  <2>1. 0 + 1 \in 1 .. n /\ 0 + 1 = 1 /\ 1 - 1 = 0
    BY <1>1
  <2>2. g[1] = Escape(f[1])
    BY <1>6, <2>1
  <2> QED
    BY <1>2, <2>1, <2>2
<1>8. ASSUME NEW j \in Nat, j \in T PROVE j + 1 \in T
  <2>1. SUFFICES ASSUME (j + 1) + 1 \in 1 .. n
                 PROVE  /\ g[(j + 1) + 1] \in Seq(Bytes)
                        /\ Way(gs, g[(j + 1) + 1], In(k, 0), In(k, (j + 1) + 1))
    OBVIOUS
  <2> PICK i : i = (j + 1) + 1
    OBVIOUS
  <2>2. i \in 1 .. n /\ i # 1 /\ i - 1 = j + 1 /\ j + 1 \in 1 .. n
    BY <1>1, <2>1
  <2>3. g[i] = g[i - 1] \o Escape(f[i])
    BY <1>6, <2>2
  <2>4. g[i - 1] \in Seq(Bytes) /\ Way(gs, g[i - 1], In(k, 0), In(k, i - 1))
    BY <1>8, <2>2
  <2>5. Escape(f[i]) \in Seq(Bytes) /\ Way(gs, Escape(f[i]), In(k, i - 1), In(k, i))
    BY <1>2, <2>2
  <2>6. g[i - 1] \o Escape(f[i]) \in Seq(Bytes)
    BY <2>4, <2>5, ConcatProperties
  <2>7. Way(gs, g[i - 1] \o Escape(f[i]), In(k, 0), In(k, i))
    BY <2>4, <2>5, WayConcat
  <2> QED
    BY <2>3, <2>6, <2>7
<1>9. \A j \in Nat : j \in T
  <2> HIDE DEF T
  <2> QED
    BY <1>7, <1>8, SetInduction
<1>10. g[n] \in Seq(Bytes) /\ Way(gs, g[n], In(k, 0), In(k, n))
  <2> PICK j : j = n - 1
    OBVIOUS
  <2>1. j \in Nat /\ j + 1 = n /\ j + 1 \in 1 .. n
    BY <1>1
  <2> QED
    BY <1>9, <2>1
<1> QED
  BY <1>5, <1>10 DEF s

\* Encode() leads from before the start flag of a frame to before the next one's.
LEMMA WayFrame ==
  ASSUME NEW gs \in Sendable, NEW k \in 1 .. Len(gs)
  PROVE  Encode(gs[k]) \in Seq(Bytes) /\ Way(gs, Encode(gs[k]), Out(k), Out(k + 1))
<1> PICK n, c : n = Len(gs[k]) /\ c = FlattenSeq([i \in DOMAIN gs[k] |-> Escape(gs[k][i])])
  OBVIOUS
<1>1. c \in Seq(Bytes) /\ Way(gs, c, In(k, 0), In(k, n))
  BY WayBody
<1>2. n \in Nat /\ k \in Nat
  BY DEF Sendable
<1>3. Inside(gs, Out(k)) /\ NextByte(gs, Out(k)) = FLAG /\ After(gs, Out(k)) = In(k, 0)
  BY <1>2 DEF Inside, Out, Place, NextByte, After
<1>4. Inside(gs, In(k, n)) /\ NextByte(gs, In(k, n)) = FLAG /\ After(gs, In(k, n)) = Out(k + 1)
  BY <1>2 DEF Inside, In, Place, NextByte, After, AtEnd, Contents
<1>5. Way(gs, <<FLAG>>, Out(k), In(k, 0)) /\ Way(gs, <<FLAG>>, In(k, n), Out(k + 1))
  BY <1>3, <1>4, WayOne
<1>6. <<FLAG>> \in Seq(Bytes)
  BY DEF Bytes
<1>7. <<FLAG>> \o c \in Seq(Bytes) /\ Way(gs, <<FLAG>> \o c, Out(k), In(k, n))
  BY <1>1, <1>5, <1>6, WayConcat, ConcatProperties
<1>8. /\ (<<FLAG>> \o c) \o <<FLAG>> \in Seq(Bytes)
      /\ Way(gs, (<<FLAG>> \o c) \o <<FLAG>>, Out(k), Out(k + 1))
  BY <1>5, <1>6, <1>7, WayConcat, ConcatProperties
<1> QED
  BY <1>8 DEF Encode

----------------------------------------------------------------------------
(***************************************************************************)
(* The decoder.  Between two bytes it is outside a frame, in one, or in    *)
(* one with an escape pending.                                             *)
(***************************************************************************)
Idle == {}
Open == {cfReceiving, cfValid}
Pending == {cfReceiving, cfValid, cfDataLinkEscape}

Decoder == [frame : Seq(Bytes), flags : {Idle, Open, Pending}]

\* What ReadByte makes of the decoder's state and a byte.
Read(s, b) ==
  [frame |-> ParseSerialData(s, b).frame,
   flags |-> ParseSerialData(s, b).flags \ {cfFrameReady}]
Ready(s, b) == cfFrameReady \in ParseSerialData(s, b).flags

\* The decoder's step, by what parseSerialData() makes of its state.
LEMMA ReadIs ==
  ASSUME NEW s, NEW b, NEW f, NEW g, NEW h,
         ParseSerialData(s, b) = [frame |-> f, flags |-> g], h = g \ {cfFrameReady}
  PROVE  Read(s, b) = [frame |-> f, flags |-> h] /\ (Ready(s, b) <=> cfFrameReady \in g)
<1>1. ParseSerialData(s, b).frame = f /\ ParseSerialData(s, b).flags = g
  OBVIOUS
<1> QED
  BY <1>1 DEF Read, Ready

\* The decoder's state table.
LEMMA DecoderTable ==
  ASSUME NEW s \in Decoder, NEW b \in Bytes
  PROVE  /\ Idle # Open /\ Idle # Pending /\ Open # Pending
         /\ s.flags = Idle /\ b = FLAG
              => Read(s, b) = [frame |-> << >>, flags |-> Open] /\ ~ Ready(s, b)
         /\ s.flags = Idle /\ b # FLAG => Read(s, b) = s /\ ~ Ready(s, b)
         /\ s.flags = Open /\ b = FLAG /\ s.frame # << >>
              => Read(s, b) = [frame |-> s.frame, flags |-> Idle] /\ Ready(s, b)
         /\ s.flags = Open /\ b = FLAG /\ s.frame = << >> => Read(s, b) = s /\ ~ Ready(s, b)
         /\ s.flags = Open /\ b = DLE
              => Read(s, b) = [frame |-> s.frame, flags |-> Pending] /\ ~ Ready(s, b)
         /\ s.flags = Open /\ ~ Special(b)
              => Read(s, b) = [frame |-> Append(s.frame, b), flags |-> Open] /\ ~ Ready(s, b)
         /\ s.flags = Pending
              => Read(s, b) = [frame |-> Append(s.frame, b), flags |-> Open] /\ ~ Ready(s, b)
<1> USE DEF cfReceiving, cfValid, cfDataLinkEscape, cfFrameReady
<1>1. /\ cfReceiving # cfValid /\ cfReceiving # cfDataLinkEscape /\ cfReceiving # cfFrameReady
      /\ cfValid # cfDataLinkEscape /\ cfValid # cfFrameReady /\ cfDataLinkEscape # cfFrameReady
  OBVIOUS
<1> HIDE DEF cfReceiving, cfValid, cfDataLinkEscape, cfFrameReady
<1>2. FLAG # DLE
  BY BytesAssumption
<1>3. s = [frame |-> s.frame, flags |-> s.flags]
  BY DEF Decoder
<1>4. Idle # Open /\ Idle # Pending /\ Open # Pending
  BY <1>1 DEF Idle, Open, Pending
<1>5. CASE s.flags = Idle /\ b = FLAG
  <2>1. ParseSerialData(s, b) = [frame |-> << >>, flags |-> {cfReceiving, cfValid}]
    BY <1>5 DEF ParseSerialData, FlagByte, Idle
  <2>2. Open = {cfReceiving, cfValid} \ {cfFrameReady} /\ cfFrameReady \notin {cfReceiving, cfValid}
    BY <1>1 DEF Open
  <2>3. Read(s, b) = [frame |-> << >>, flags |-> Open] /\ ~ Ready(s, b)
    BY <2>1, <2>2, ReadIs
  <2> QED
    BY <1>2, <1>4, <1>5, <2>3 DEF Special
<1>6. CASE s.flags = Idle /\ b # FLAG
  <2>1. ParseSerialData(s, b) = [frame |-> s.frame, flags |-> {}]
    BY <1>6 DEF ParseSerialData, DataByte, Idle
  <2>2. {} \ {cfFrameReady} = Idle /\ cfFrameReady \notin {}
    BY DEF Idle
  <2>3. Read(s, b) = [frame |-> s.frame, flags |-> Idle] /\ ~ Ready(s, b)
    BY <2>1, <2>2 DEF Read, Ready
  <2> QED
    BY <1>3, <1>4, <1>6, <2>3
<1>7. CASE s.flags = Open /\ b = FLAG /\ s.frame # << >>
  <2>1. cfReceiving \in s.flags /\ cfValid \in s.flags /\ cfDataLinkEscape \notin s.flags
    BY <1>1, <1>7 DEF Open
  <2>2. ParseSerialData(s, b) = [s EXCEPT !.flags = (@ \cup {cfFrameReady}) \ {cfReceiving, cfValid}]
    BY <1>7, <2>1 DEF ParseSerialData, FlagByte
  <2>3. ParseSerialData(s, b) = [frame |-> s.frame, flags |-> (s.flags \cup {cfFrameReady}) \ {cfReceiving, cfValid}]
    BY <1>3, <2>2
  <2>4. (s.flags \cup {cfFrameReady}) \ {cfReceiving, cfValid} = {cfFrameReady}
    BY <1>1, <1>7 DEF Open
  <2>5. Idle = {cfFrameReady} \ {cfFrameReady} /\ cfFrameReady \in {cfFrameReady}
    BY DEF Idle
  <2>6. Read(s, b) = [frame |-> s.frame, flags |-> Idle] /\ Ready(s, b)
    BY <2>3, <2>4, <2>5, ReadIs
  <2> QED
    BY <1>2, <1>4, <1>7, <2>6 DEF Special
<1>8. CASE s.flags = Open /\ b = FLAG /\ s.frame = << >>
  <2>1. cfReceiving \in s.flags /\ cfDataLinkEscape \notin s.flags
    BY <1>1, <1>8 DEF Open
  <2>2. ParseSerialData(s, b) = s
    BY <1>8, <2>1 DEF ParseSerialData, FlagByte
  <2>3. s.flags \ {cfFrameReady} = s.flags /\ cfFrameReady \notin s.flags
    BY <1>1, <1>8 DEF Open
  <2>4. Read(s, b) = [frame |-> s.frame, flags |-> s.flags] /\ ~ Ready(s, b)
    BY <2>2, <2>3 DEF Read, Ready
  <2> QED
    BY <1>2, <1>3, <1>4, <1>8, <2>4 DEF Special
<1>9. CASE s.flags = Open /\ b = DLE
  <2>1. cfValid \in s.flags /\ cfDataLinkEscape \notin s.flags
    BY <1>1, <1>9 DEF Open
  <2>2. ParseSerialData(s, b) = [s EXCEPT !.flags = @ \cup {cfDataLinkEscape}]
    BY <1>2, <1>9, <2>1 DEF ParseSerialData
  <2>3. ParseSerialData(s, b) = [frame |-> s.frame, flags |-> s.flags \cup {cfDataLinkEscape}]
    BY <1>3, <2>2
  <2>4. s.flags \cup {cfDataLinkEscape} = Pending
    BY <1>9 DEF Open, Pending
  <2>5. Pending = Pending \ {cfFrameReady} /\ cfFrameReady \notin Pending
    BY <1>1 DEF Pending
  <2>6. Read(s, b) = [frame |-> s.frame, flags |-> Pending] /\ ~ Ready(s, b)
    BY <2>3, <2>4, <2>5, ReadIs
  <2> QED
    BY <1>2, <1>4, <1>9, <2>6 DEF Special
<1>10. CASE s.flags = Pending \/ (s.flags = Open /\ ~ Special(b))
  <2>1. ParseSerialData(s, b) = DataByte(s, b)
    BY <1>10 DEF ParseSerialData, Pending, Special
  <2>2. cfValid \in s.flags /\ s.flags \ {cfDataLinkEscape} = Open
    BY <1>1, <1>10 DEF Pending, Open
  <2>3. ParseSerialData(s, b) = [frame |-> Append(s.frame, b), flags |-> Open]
    BY <2>1, <2>2 DEF DataByte
  <2>4. Open = Open \ {cfFrameReady} /\ cfFrameReady \notin Open
    BY <1>1 DEF Open
  <2>5. Read(s, b) = [frame |-> Append(s.frame, b), flags |-> Open] /\ ~ Ready(s, b)
    <3> PICK f : f = Append(s.frame, b)
      OBVIOUS
    <3>1. ParseSerialData(s, b) = [frame |-> f, flags |-> Open]
      BY <2>3
    <3>2. ParseSerialData(s, b).frame = f /\ ParseSerialData(s, b).flags = Open
      BY <3>1
    <3> QED
      BY <2>4, <3>2 DEF Read, Ready
  <2> QED
    BY <1>4, <1>10, <2>5 DEF Special
<1>11. s.flags = Idle \/ s.flags = Open \/ s.flags = Pending
  BY DEF Decoder
<1> QED
  BY <1>5, <1>6, <1>7, <1>8, <1>9, <1>10, <1>11 DEF Special

\* Any byte leaves the decoder in a state of the table, and a frame that is
\* ready leaves it outside.
LEMMA DecoderType ==
  ASSUME NEW s \in Decoder, NEW b \in Bytes
  PROVE  /\ Read(s, b) \in Decoder
         /\ Ready(s, b) => Read(s, b).flags = Idle
<1>1. s.frame \in Seq(Bytes) /\ s.flags \in {Idle, Open, Pending}
  BY DEF Decoder
<1>2. Append(s.frame, b) \in Seq(Bytes) /\ << >> \in Seq(Bytes)
  BY <1>1
<1>3. \/ s.flags = Idle /\ b = FLAG
      \/ s.flags = Idle /\ b # FLAG
      \/ s.flags = Open /\ b = FLAG /\ s.frame # << >>
      \/ s.flags = Open /\ b = FLAG /\ s.frame = << >>
      \/ s.flags = Open /\ b = DLE
      \/ s.flags = Open /\ ~ Special(b)
      \/ s.flags = Pending
  BY <1>1 DEF Special
<1>4. \/ Read(s, b) = s /\ ~ Ready(s, b)
      \/ Read(s, b) = [frame |-> << >>, flags |-> Open] /\ ~ Ready(s, b)
      \/ Read(s, b) = [frame |-> s.frame, flags |-> Idle] /\ Ready(s, b)
      \/ Read(s, b) = [frame |-> s.frame, flags |-> Pending] /\ ~ Ready(s, b)
      \/ Read(s, b) = [frame |-> Append(s.frame, b), flags |-> Open] /\ ~ Ready(s, b)
  BY <1>3, DecoderTable
<1>5. /\ [frame |-> << >>, flags |-> Open] \in Decoder
      /\ [frame |-> s.frame, flags |-> Idle] \in Decoder
      /\ [frame |-> s.frame, flags |-> Pending] \in Decoder
      /\ [frame |-> Append(s.frame, b), flags |-> Open] \in Decoder
  BY <1>1, <1>2 DEF Decoder
<1>6. [frame |-> s.frame, flags |-> Idle].flags = Idle
  OBVIOUS
<1> QED
  BY <1>4, <1>5, <1>6

----------------------------------------------------------------------------
(***************************************************************************)
(* In step and out of it.  The decoder s is in step with a place when it   *)
(* holds what the sender has sent of the frame.  When it is not, the bytes *)
(* from that place on bring it back, and before they have done so it makes *)
(* up at most Debt frames, and at most Loss of the sender's pass it by.    *)
(***************************************************************************)
InStep(gs, s, p) ==
  \/ p.side = "out" /\ (s.flags = Idle \/ (s.flags = Open /\ s.frame = << >>))
  \/ p.side = "in" /\ s.flags = Open /\ s.frame = SubSeq(Contents(gs, p), 1, p.done)
  \/ p.side = "esc" /\ s.flags = Pending /\ s.frame = SubSeq(Contents(gs, p), 1, p.done)

Debt(gs, s, p) ==
  IF InStep(gs, s, p) THEN 0
  ELSE IF \/ p.side = "out" /\ s.flags = Pending
          \/ p.side = "in" /\ s.flags # Pending
          \/ p.side = "esc" /\ s.flags # Open
  THEN 1
  ELSE 2

Loss(gs, s, p) ==
  IF InStep(gs, s, p) THEN 0
  ELSE IF p.side = "out" THEN 1
  ELSE Debt(gs, s, p)

\* The most that Loss can be at a place.
MaxLoss(p) == IF p.side = "out" THEN 1 ELSE 2

One(c) == IF c THEN 1 ELSE 0

\* What bounds Debt and Loss whatever the decoder holds.
LEMMA DebtBounds ==
  ASSUME NEW gs, NEW s \in Decoder, NEW p \in Place
  PROVE  /\ Debt(gs, s, p) \in 0 .. 2
         /\ s.flags = Idle => Debt(gs, s, p) \in 0 .. 1
         /\ Loss(gs, s, p) \in 0 .. MaxLoss(p)
         /\ MaxLoss(p) \in 1 .. 2
         /\ Debt(gs, s, p) = 0 => InStep(gs, s, p)
<1>1. Debt(gs, s, p) = 0 \/ Debt(gs, s, p) = 1 \/ Debt(gs, s, p) = 2
  BY DEF Debt
<1>2. Debt(gs, s, p) = 0 => InStep(gs, s, p)
  BY DEF Debt
<1>3. ASSUME s.flags = Idle PROVE Debt(gs, s, p) # 2
  <2>1. Idle # Open /\ Idle # Pending
    BY DEF Idle, Open, Pending
  <2>2. p.side = "out" => InStep(gs, s, p)
    BY <1>3 DEF InStep
  <2>3. p.side = "in" \/ p.side = "esc" \/ p.side = "out"
    BY DEF Place
  <2> QED
    BY <1>3, <2>1, <2>2, <2>3 DEF Debt
<1>4. Loss(gs, s, p) = 0 \/ (p.side = "out" /\ Loss(gs, s, p) = 1)
      \/ (p.side # "out" /\ Loss(gs, s, p) = Debt(gs, s, p))
  BY DEF Loss
<1>5. MaxLoss(p) \in 1 .. 2 /\ (p.side = "out" => MaxLoss(p) = 1)
      /\ (p.side # "out" => MaxLoss(p) = 2)
  BY DEF MaxLoss
<1> QED
  BY <1>1, <1>2, <1>3, <1>4, <1>5

\* Which frame the next place is in.
LEMMA AfterFrame ==
  ASSUME NEW gs \in Sendable, NEW p, Inside(gs, p)
  PROVE  After(gs, p).frame = p.frame + One(AtEnd(gs, p))
<1>1. p.frame \in Nat
  BY DEF Inside, Place
<1>2. p.side = "out" => ~ AtEnd(gs, p)
  BY DEF AtEnd
<1> QED
  BY <1>1, <1>2 DEF After, In, Out, Esc, One

\* One more byte of a frame.
LEMMA OneMore ==
  ASSUME NEW S, NEW f \in Seq(S), NEW n \in Nat, n + 1 \in 1 .. Len(f)
  PROVE  SubSeq(f, 1, n + 1) = Append(SubSeq(f, 1, n), f[n + 1])
<1>1. n \in 0 .. Len(f) /\ n + 1 \in 0 .. Len(f)
  OBVIOUS
<1>2. SubSeq(f, 1, n) \in Seq(S) /\ Len(SubSeq(f, 1, n)) = n
  OBVIOUS
<1>3. SubSeq(f, 1, n + 1) \in Seq(S) /\ Len(SubSeq(f, 1, n + 1)) = n + 1
  OBVIOUS
<1>4. \A i \in 1 .. n + 1 : SubSeq(f, 1, n + 1)[i] = f[i]
  OBVIOUS
<1>5. \A i \in 1 .. n : SubSeq(f, 1, n)[i] = f[i]
  OBVIOUS
<1> QED
  BY <1>2, <1>3, <1>4, <1>5

\* Debt and Loss by the place and the decoder's flags.
LEMMA DebtTable ==
  ASSUME NEW gs, NEW s \in Decoder, NEW p \in Place
  PROVE  /\ Debt(gs, s, p) \in Nat /\ Loss(gs, s, p) \in Nat
         /\ p.side = "out" =>
              /\ s.flags = Idle => Debt(gs, s, p) = 0 /\ Loss(gs, s, p) = 0
              /\ s.flags = Open /\ s.frame = << >> => Debt(gs, s, p) = 0 /\ Loss(gs, s, p) = 0
              /\ s.flags = Open => Debt(gs, s, p) <= 2 /\ Loss(gs, s, p) <= 1
              /\ s.flags = Open /\ ~ InStep(gs, s, p) => Debt(gs, s, p) = 2 /\ Loss(gs, s, p) = 1
              /\ s.flags = Pending => Debt(gs, s, p) = 1 /\ Loss(gs, s, p) = 1
         /\ p.side = "in" =>
              /\ s.flags = Idle => Debt(gs, s, p) = 1 /\ Loss(gs, s, p) = 1
              /\ s.flags = Open => Debt(gs, s, p) <= 1 /\ Loss(gs, s, p) <= 1
              /\ s.flags = Open /\ ~ InStep(gs, s, p) => Debt(gs, s, p) = 1 /\ Loss(gs, s, p) = 1
              /\ s.flags = Pending => Debt(gs, s, p) = 2 /\ Loss(gs, s, p) = 2
         /\ p.side = "esc" =>
              /\ s.flags = Idle => Debt(gs, s, p) = 1 /\ Loss(gs, s, p) = 1
              /\ s.flags = Open => Debt(gs, s, p) = 2 /\ Loss(gs, s, p) = 2
              /\ s.flags = Pending => Debt(gs, s, p) <= 1 /\ Loss(gs, s, p) <= 1
              /\ s.flags = Pending /\ ~ InStep(gs, s, p)
                   => Debt(gs, s, p) = 1 /\ Loss(gs, s, p) = 1
<1>1. Idle # Open /\ Idle # Pending /\ Open # Pending
  BY DEF Idle, Open, Pending, cfReceiving, cfValid, cfDataLinkEscape
<1>2. Debt(gs, s, p) \in 0 .. 2 /\ Loss(gs, s, p) \in Nat
  <2>1. Debt(gs, s, p) \in 0 .. 2 /\ Loss(gs, s, p) \in 0 .. MaxLoss(p) /\ MaxLoss(p) \in 1 .. 2
    BY DebtBounds
  <2> QED
    BY <2>1
<1>3. CASE p.side = "out"
  BY <1>1, <1>2, <1>3 DEF Debt, Loss, InStep
<1>4. CASE p.side = "in"
  BY <1>1, <1>2, <1>4 DEF Debt, Loss, InStep
<1>5. CASE p.side = "esc"
  BY <1>1, <1>2, <1>5 DEF Debt, Loss, InStep
<1>6. p.side = "out" \/ p.side = "in" \/ p.side = "esc"
  BY DEF Place
<1> QED
  BY <1>2, <1>3, <1>4, <1>5, <1>6

\* The byte a decoder in step waits for keeps it in step, and makes a frame ready
\* exactly where the sender's frame ends, with what the sender put into it.
LEMMA InStepByte ==
  ASSUME NEW gs \in Sendable, NEW p, Inside(gs, p), NEW s \in Decoder, InStep(gs, s, p),
         NEW b, b = NextByte(gs, p)
  PROVE  /\ InStep(gs, Read(s, b), After(gs, p))
         /\ Ready(s, b) <=> AtEnd(gs, p)
         /\ AtEnd(gs, p) => Read(s, b).frame = Contents(gs, p)
<1> PICK f, n : f = Contents(gs, p) /\ n = p.done
  OBVIOUS
<1>1. /\ f \in Seq(Bytes) /\ f # << >> /\ Len(f) \in Nat \ {0} /\ b \in Bytes
      /\ n \in Nat /\ p \in Place
  BY PlaceType DEF Inside, Place
<1>2. FLAG # DLE
  BY BytesAssumption
<1>3. CASE p.side = "out"
  <2>1. b = FLAG /\ ~ AtEnd(gs, p) /\ After(gs, p) = In(p.frame, 0)
    BY <1>3 DEF NextByte, AtEnd, After
  <2>2. Read(s, b).flags = Open /\ Read(s, b).frame = << >> /\ ~ Ready(s, b)
    <3>1. CASE s.flags = Idle
      BY <1>1, <2>1, <3>1, DecoderTable
    <3>2. CASE s.flags = Open /\ s.frame = << >>
      BY <1>1, <2>1, <3>2, DecoderTable
    <3> QED
      BY <1>3, <3>1, <3>2 DEF InStep
  <2>3. After(gs, p).side = "in" /\ After(gs, p).done = 0
    BY <2>1 DEF In
  <2>4. SubSeq(Contents(gs, After(gs, p)), 1, 0) = << >>
    <3>1. Contents(gs, After(gs, p)) = f
      BY <2>1 DEF Contents, In
    <3> QED
      BY <1>1, <3>1
  <2> QED
    BY <2>1, <2>2, <2>3, <2>4 DEF InStep
<1>4. CASE p.side = "in" /\ AtEnd(gs, p)
  <2>1. b = FLAG /\ After(gs, p) = Out(p.frame + 1) /\ n = Len(f)
    BY <1>4 DEF NextByte, AtEnd, After
  <2>2. s.flags = Open /\ s.frame = f
    <3>1. s.flags = Open /\ s.frame = SubSeq(f, 1, Len(f))
      BY <1>4, <2>1 DEF InStep
    <3> QED
      BY <1>1, <3>1
  <2>3. Read(s, b).flags = Idle /\ Read(s, b).frame = f /\ Ready(s, b)
    BY <1>1, <2>1, <2>2, DecoderTable
  <2>4. After(gs, p).side = "out"
    BY <2>1 DEF Out
  <2> QED
    BY <1>4, <2>3, <2>4 DEF InStep
<1>5. CASE p.side = "in" /\ Escapes(gs, p)
  <2>1. b = DLE /\ ~ AtEnd(gs, p) /\ After(gs, p) = Esc(p.frame, n)
    BY <1>5 DEF NextByte, Escapes, After
  <2>2. s.flags = Open /\ s.frame = SubSeq(f, 1, n)
    BY <1>5 DEF InStep
  <2>3. Read(s, b).flags = Pending /\ Read(s, b).frame = SubSeq(f, 1, n) /\ ~ Ready(s, b)
    BY <1>1, <2>1, <2>2, DecoderTable
  <2>4. After(gs, p).side = "esc" /\ After(gs, p).done = n /\ Contents(gs, After(gs, p)) = f
    BY <2>1 DEF Esc, Contents
  <2> QED
    BY <2>1, <2>3, <2>4 DEF InStep
<1>6. CASE (p.side = "in" /\ ~ AtEnd(gs, p) /\ ~ Escapes(gs, p)) \/ p.side = "esc"
  <2>1. b = f[n + 1] /\ ~ AtEnd(gs, p) /\ After(gs, p) = In(p.frame, n + 1)
    BY <1>6 DEF NextByte, Escapes, AtEnd, After
  <2>2. n + 1 \in 1 .. Len(f)
    BY <1>1, <1>6 DEF Inside, AtEnd
  <2>3. s.frame = SubSeq(f, 1, n)
    BY <1>6 DEF InStep
  <2>4. s.flags = Pending \/ (s.flags = Open /\ ~ Special(b))
    BY <1>6, <2>1 DEF InStep, Escapes
  <2>5. Read(s, b) = [frame |-> Append(s.frame, b), flags |-> Open] /\ ~ Ready(s, b)
    BY <1>1, <2>4, DecoderTable
  <2>6. SubSeq(f, 1, n + 1) = Append(SubSeq(f, 1, n), f[n + 1])
    BY <1>1, <2>2, OneMore
  <2>7. Read(s, b).frame = SubSeq(f, 1, n + 1) /\ Read(s, b).flags = Open
    <3> PICK h : h = Append(s.frame, b)
      OBVIOUS
    <3>1. h = SubSeq(f, 1, n + 1)
      BY <2>1, <2>3, <2>6
    <3>2. Read(s, b) = [frame |-> h, flags |-> Open]
      BY <2>5
    <3>3. Read(s, b).frame = h /\ Read(s, b).flags = Open
      BY <3>2
    <3> QED
      BY <3>1, <3>3
  <2>8. After(gs, p).side = "in" /\ After(gs, p).done = n + 1 /\ Contents(gs, After(gs, p)) = f
    BY <2>1 DEF In, Contents
  <2> QED
    BY <2>1, <2>5, <2>7, <2>8 DEF InStep
<1>7. p.side = "out" \/ p.side = "in" \/ p.side = "esc"
  BY <1>1 DEF Place
<1> QED
  BY <1>3, <1>4, <1>5, <1>6, <1>7

\* Out of step, the bytes that are sent bring the decoder back: each frame it
\* makes up on the way, and each end of a frame that passes it by, is paid for.
LEMMA OutOfStepByte ==
  ASSUME NEW gs \in Sendable, NEW p, Inside(gs, p), NEW s \in Decoder, ~ InStep(gs, s, p),
         NEW b, b = NextByte(gs, p)
  PROVE  /\ Debt(gs, Read(s, b), After(gs, p)) + One(Ready(s, b)) <= Debt(gs, s, p)
         /\ Loss(gs, Read(s, b), After(gs, p)) + One(AtEnd(gs, p)) <= Loss(gs, s, p)
<1> PICK q, u, d, l : /\ q = After(gs, p) /\ u = Read(s, b)
                      /\ d = Debt(gs, u, q) /\ l = Loss(gs, u, q)
  OBVIOUS
<1>1. p \in Place /\ q \in Place /\ b \in Bytes /\ u \in Decoder
  BY PlaceType, DecoderType DEF Inside
<1>2. d \in Nat /\ l \in Nat
  BY <1>1, DebtTable
<1>3. FLAG # DLE
  BY BytesAssumption
<1>4. /\ (One(Ready(s, b)) = IF Ready(s, b) THEN 1 ELSE 0)
      /\ (One(AtEnd(gs, p)) = IF AtEnd(gs, p) THEN 1 ELSE 0)
  BY DEF One
<1>5. CASE p.side = "out"
  <2>1. b = FLAG /\ ~ AtEnd(gs, p) /\ q.side = "in"
    BY <1>5 DEF NextByte, AtEnd, After, In
  <2>2. CASE s.flags = Open
    <3>1. s.frame # << >>
      BY <1>5, <2>2 DEF InStep
    <3>2. u.flags = Idle /\ Ready(s, b)
      BY <1>1, <2>1, <2>2, <3>1, DecoderTable
    <3>3. d = 1 /\ l = 1
      BY <1>1, <2>1, <3>2, DebtTable
    <3>4. Debt(gs, s, p) = 2 /\ Loss(gs, s, p) = 1
      BY <1>1, <1>5, <2>2, DebtTable
    <3> QED
      BY <1>4, <2>1, <3>2, <3>3, <3>4
  <2>3. CASE s.flags = Pending
    <3>1. u.flags = Open /\ ~ Ready(s, b)
      BY <1>1, <2>3, DecoderTable
    <3>2. d <= 1 /\ l <= 1
      BY <1>1, <2>1, <3>1, DebtTable
    <3>3. Debt(gs, s, p) = 1 /\ Loss(gs, s, p) = 1
      BY <1>1, <1>5, <2>3, DebtTable
    <3> QED
      BY <1>2, <1>4, <2>1, <3>1, <3>2, <3>3
  <2>4. s.flags # Idle
    BY <1>5 DEF InStep
  <2> QED
    BY <2>2, <2>3, <2>4 DEF Decoder
<1>6. CASE p.side = "in" /\ AtEnd(gs, p)
  <2>1. b = FLAG /\ q.side = "out"
    BY <1>6 DEF NextByte, After, Out
  <2>2. CASE s.flags = Idle \/ (s.flags = Open /\ s.frame = << >>)
    <3>1. u.flags = Open /\ u.frame = << >> /\ ~ Ready(s, b)
      <4>1. CASE s.flags = Idle
        BY <1>1, <2>1, <4>1, DecoderTable
      <4>2. CASE s.flags = Open /\ s.frame = << >>
        BY <1>1, <2>1, <4>2, DecoderTable
      <4> QED
        BY <2>2, <4>1, <4>2
    <3>2. d = 0 /\ l = 0
      BY <1>1, <2>1, <3>1, DebtTable
    <3>3. Debt(gs, s, p) = 1 /\ Loss(gs, s, p) = 1
      BY <1>1, <1>6, <2>2, DebtTable
    <3> QED
      BY <1>4, <1>6, <3>1, <3>2, <3>3
  <2>3. CASE s.flags = Open /\ s.frame # << >>
    <3>1. u.flags = Idle /\ Ready(s, b)
      BY <1>1, <2>1, <2>3, DecoderTable
    <3>2. d = 0 /\ l = 0
      BY <1>1, <2>1, <3>1, DebtTable
    <3>3. Debt(gs, s, p) = 1 /\ Loss(gs, s, p) = 1
      BY <1>1, <1>6, <2>3, DebtTable
    <3> QED
      BY <1>4, <1>6, <3>1, <3>2, <3>3
  <2>4. CASE s.flags = Pending
    <3>1. u.flags = Open /\ ~ Ready(s, b)
      BY <1>1, <2>4, DecoderTable
    <3>2. d <= 2 /\ l <= 1
      BY <1>1, <2>1, <3>1, DebtTable
    <3>3. Debt(gs, s, p) = 2 /\ Loss(gs, s, p) = 2
      BY <1>1, <1>6, <2>4, DebtTable
    <3> QED
      BY <1>2, <1>4, <1>6, <3>1, <3>2, <3>3
  <2> QED
    BY <2>2, <2>3, <2>4 DEF Decoder
<1>7. CASE p.side = "in" /\ Escapes(gs, p)
  <2>1. b = DLE /\ ~ AtEnd(gs, p) /\ q.side = "esc"
    BY <1>7 DEF NextByte, Escapes, After, Esc
  <2>2. CASE s.flags = Idle
    <3>1. u.flags = Idle /\ ~ Ready(s, b)
      BY <1>1, <1>3, <2>1, <2>2, DecoderTable
    <3>2. d = 1 /\ l = 1 /\ Debt(gs, s, p) = 1 /\ Loss(gs, s, p) = 1
      BY <1>1, <1>7, <2>1, <2>2, <3>1, DebtTable
    <3> QED
      BY <1>4, <2>1, <3>1, <3>2
  <2>3. CASE s.flags = Open
    <3>1. u.flags = Pending /\ ~ Ready(s, b)
      BY <1>1, <2>1, <2>3, DecoderTable
    <3>2. d <= 1 /\ l <= 1 /\ Debt(gs, s, p) = 1 /\ Loss(gs, s, p) = 1
      BY <1>1, <1>7, <2>1, <2>3, <3>1, DebtTable
    <3> QED
      BY <1>2, <1>4, <2>1, <3>1, <3>2
  <2>4. CASE s.flags = Pending
    <3>1. u.flags = Open /\ ~ Ready(s, b)
      BY <1>1, <2>4, DecoderTable
    <3>2. d = 2 /\ l = 2 /\ Debt(gs, s, p) = 2 /\ Loss(gs, s, p) = 2
      BY <1>1, <1>7, <2>1, <2>4, <3>1, DebtTable
    <3> QED
      BY <1>4, <2>1, <3>1, <3>2
  <2> QED
    BY <2>2, <2>3, <2>4 DEF Decoder
<1>8. CASE p.side = "in" /\ ~ AtEnd(gs, p) /\ ~ Escapes(gs, p)
  <2>1. ~ Special(b) /\ q.side = "in"
    BY <1>8 DEF NextByte, Escapes, After, In
  <2>2. b # FLAG
    BY <2>1 DEF Special
  <2>3. CASE s.flags = Idle
    <3>1. u.flags = Idle /\ ~ Ready(s, b)
      BY <1>1, <2>2, <2>3, DecoderTable
    <3>2. d = 1 /\ l = 1 /\ Debt(gs, s, p) = 1 /\ Loss(gs, s, p) = 1
      BY <1>1, <1>8, <2>1, <2>3, <3>1, DebtTable
    <3> QED
      BY <1>4, <1>8, <3>1, <3>2
  <2>4. CASE s.flags = Open
    <3>1. u.flags = Open /\ ~ Ready(s, b)
      BY <1>1, <2>1, <2>4, DecoderTable
    <3>2. d <= 1 /\ l <= 1 /\ Debt(gs, s, p) = 1 /\ Loss(gs, s, p) = 1
      BY <1>1, <1>8, <2>1, <2>4, <3>1, DebtTable
    <3> QED
      BY <1>2, <1>4, <1>8, <3>1, <3>2
  <2>5. CASE s.flags = Pending
    <3>1. u.flags = Open /\ ~ Ready(s, b)
      BY <1>1, <2>5, DecoderTable
    <3>2. d <= 1 /\ l <= 1 /\ Debt(gs, s, p) = 2 /\ Loss(gs, s, p) = 2
      BY <1>1, <1>8, <2>1, <2>5, <3>1, DebtTable
    <3> QED
      BY <1>2, <1>4, <1>8, <3>1, <3>2
  <2> QED
    BY <2>3, <2>4, <2>5 DEF Decoder
<1>9. CASE p.side = "esc"
  <2>1. Special(b) /\ ~ AtEnd(gs, p) /\ q.side = "in"
    BY <1>9 DEF NextByte, AtEnd, Escapes, After, In, Inside
  <2>2. CASE s.flags = Idle
    <3>1. (u.flags = Idle \/ u.flags = Open) /\ ~ Ready(s, b)
      BY <1>1, <2>2, DecoderTable
    <3>2. d <= 1 /\ l <= 1 /\ Debt(gs, s, p) = 1 /\ Loss(gs, s, p) = 1
      BY <1>1, <1>9, <2>1, <2>2, <3>1, DebtTable
    <3> QED
      BY <1>2, <1>4, <2>1, <3>1, <3>2
  <2>3. CASE s.flags = Open /\ b = FLAG /\ s.frame # << >>
    <3>1. u.flags = Idle /\ Ready(s, b)
      BY <1>1, <2>3, DecoderTable
    <3>2. d = 1 /\ l = 1 /\ Debt(gs, s, p) = 2 /\ Loss(gs, s, p) = 2
      BY <1>1, <1>9, <2>1, <2>3, <3>1, DebtTable
    <3> QED
      BY <1>4, <2>1, <3>1, <3>2
  <2>4. CASE s.flags = Open /\ ~ (b = FLAG /\ s.frame # << >>)
    <3>1. ~ Ready(s, b)
      BY <1>1, <2>1, <2>4, DecoderTable DEF Special
    <3>2. d <= 2 /\ l <= 2
      <4>1. d \in 0 .. 2 /\ l \in 0 .. MaxLoss(q) /\ MaxLoss(q) \in 1 .. 2
        BY <1>1, DebtBounds
      <4> QED
        BY <4>1
    <3>3. Debt(gs, s, p) = 2 /\ Loss(gs, s, p) = 2
      BY <1>1, <1>9, <2>4, DebtTable
    <3> QED
      BY <1>2, <1>4, <2>1, <3>1, <3>2, <3>3
  <2>5. CASE s.flags = Pending
    <3>1. u.flags = Open /\ ~ Ready(s, b)
      BY <1>1, <2>5, DecoderTable
    <3>2. d <= 1 /\ l <= 1 /\ Debt(gs, s, p) = 1 /\ Loss(gs, s, p) = 1
      BY <1>1, <1>9, <2>1, <2>5, <3>1, DebtTable
    <3> QED
      BY <1>2, <1>4, <2>1, <3>1, <3>2
  <2> QED
    BY <2>2, <2>3, <2>4, <2>5 DEF Decoder
<1>10. p.side = "out" \/ p.side = "in" \/ p.side = "esc"
  BY <1>1 DEF Place
<1> QED
  BY <1>5, <1>6, <1>7, <1>8, <1>9, <1>10

----------------------------------------------------------------------------
(***************************************************************************)
(* A byte that is read.  Byte b follows when the sender sends b at p and   *)
(* goes on at q; or when, by n damaged bytes, the line goes on elsewhere.  *)
(* Each damaged byte pays for two frames.                                  *)
(***************************************************************************)
Jump(p, q, n) ==
  /\ n >= 1
  /\ p.frame <= q.frame
  /\ (q.frame - p.frame) + MaxLoss(q) <= 2 * n

Follows(gs, b, p, q, n) ==
  \/ /\ b = NextByte(gs, p)
     /\ n >= 0
     /\ After(gs, p) = q \/ Jump(After(gs, p), q, n)
  \/ Jump(p, q, n)

\* What was paid for the bytes up to here pays for what the byte brings about:
\* D frames have been delivered and I of them are intact, J with this byte.
LEMMA Paid ==
  ASSUME NEW gs \in Sendable, NEW p, Inside(gs, p), NEW q \in Place, NEW s \in Decoder,
         NEW b \in Bytes, NEW n \in Int, Follows(gs, b, p, q, n),
         NEW D \in Nat, NEW I \in Nat, NEW J \in Nat, I <= J,
         Ready(s, b) /\ Read(s, b).frame = Contents(gs, p) => J = I + 1
  PROVE  /\ n >= 0
         /\ ((D + One(Ready(s, b))) - J) + Debt(gs, Read(s, b), q)
              <= (D - I) + Debt(gs, s, p) + 2 * n
         /\ (q.frame - J) + Loss(gs, Read(s, b), q) <= (p.frame - I) + Loss(gs, s, p) + 2 * n
<1> PICK u, r, a, d, l, y, z :
      /\ u = Read(s, b) /\ r = After(gs, p) /\ a = One(Ready(s, b)) /\ d = Debt(gs, u, q)
      /\ l = Loss(gs, u, q) /\ y = Debt(gs, s, p) /\ z = Loss(gs, s, p)
  OBVIOUS
<1>1. p \in Place /\ r \in Place /\ u \in Decoder /\ p.frame \in Nat /\ q.frame \in Nat /\ r.frame \in Nat
  BY PlaceType, DecoderType DEF Inside, Place
<1>2. a \in 0 .. 1 /\ (a = 1 <=> Ready(s, b))
  BY DEF One
<1>3. d \in 0 .. 2 /\ l \in 0 .. MaxLoss(q) /\ MaxLoss(q) \in 1 .. 2 /\ d + a <= 2
  <2>1. /\ d \in 0 .. 2 /\ l \in 0 .. MaxLoss(q) /\ MaxLoss(q) \in 1 .. 2
        /\ u.flags = Idle => d \in 0 .. 1
    BY <1>1, DebtBounds
  <2>2. a = 1 => u.flags = Idle
    BY <1>2, DecoderType
  <2> QED
    BY <1>2, <2>1, <2>2
<1>4. y \in 0 .. 2 /\ z \in 0 .. 2
  <2>1. y \in 0 .. 2 /\ z \in 0 .. MaxLoss(p) /\ MaxLoss(p) \in 1 .. 2
    BY <1>1, DebtBounds
  <2> QED
    BY <2>1
<1>5. CASE Jump(p, q, n)
  <2>1. n >= 1 /\ (q.frame - p.frame) + MaxLoss(q) <= 2 * n
    BY <1>5 DEF Jump
  <2>2. n >= 0 /\ ((D + a) - J) + d <= (D - I) + y + 2 * n
    BY <1>2, <1>3, <1>4, <2>1
  <2>3. (q.frame - J) + l <= (p.frame - I) + z + 2 * n
    BY <1>1, <1>3, <1>4, <2>1
  <2> QED
    BY <2>2, <2>3
<1>6. CASE b = NextByte(gs, p) /\ n >= 0 /\ (r = q \/ Jump(r, q, n))
  <2> PICK e : e = One(AtEnd(gs, p))
    OBVIOUS
  <2>1. r.frame = p.frame + e /\ e \in 0 .. 1
    BY AfterFrame DEF One
  <2> PICK f, g : f = Debt(gs, u, r) /\ g = Loss(gs, u, r)
    OBVIOUS
  <2>2. f \in 0 .. 2 /\ g \in 0 .. 2
    <3>1. f \in 0 .. 2 /\ g \in 0 .. MaxLoss(r) /\ MaxLoss(r) \in 1 .. 2
      BY <1>1, DebtBounds
    <3> QED
      BY <3>1
  <2>3. (a - (J - I)) + f <= y /\ (e - (J - I)) + g <= z
    <3>1. CASE InStep(gs, s, p)
      <4>1. InStep(gs, u, r) /\ a = e /\ (a = 1 => J = I + 1)
        BY <1>2, <1>6, <3>1, InStepByte DEF One
      <4>2. f = 0 /\ g = 0
        BY <4>1 DEF Debt, Loss
      <4> QED
        BY <1>2, <1>4, <4>1, <4>2
    <3>2. CASE ~ InStep(gs, s, p)
      <4>1. f + a <= y /\ g + e <= z
        BY <1>6, <3>2, OutOfStepByte
      <4> QED
        BY <1>2, <1>4, <2>1, <2>2, <4>1
    <3> QED
      BY <3>1, <3>2
  <2>4. CASE r = q
    <3>1. f = d /\ g = l /\ q.frame = p.frame + e
      BY <2>1, <2>4
    <3>2. ((D + a) - J) + d <= (D - I) + y + 2 * n
      BY <1>2, <1>3, <1>4, <1>6, <2>3, <3>1
    <3>3. (q.frame - J) + l <= (p.frame - I) + z + 2 * n
      BY <1>1, <1>3, <1>4, <1>6, <2>1, <2>3, <3>1
    <3> QED
      BY <1>6, <3>2, <3>3
  <2>5. CASE Jump(r, q, n)
    <3>1. n >= 1 /\ (q.frame - r.frame) + MaxLoss(q) <= 2 * n
      BY <2>5 DEF Jump
    <3>2. ((D + a) - J) + d <= (D - I) + y + 2 * n
      BY <1>2, <1>3, <1>4, <3>1
    <3>3. (q.frame - J) + l <= (p.frame - I) + z + 2 * n
      BY <1>1, <1>3, <1>4, <2>1, <2>2, <2>3, <3>1
    <3> QED
      BY <3>1, <3>2, <3>3
  <2> QED
    BY <1>6, <2>4, <2>5
<1> QED
  BY <1>5, <1>6 DEF Follows

\* A damaged byte more, and the byte may be left out.
LEMMA LeftOut ==
  ASSUME NEW gs \in Sendable, NEW p, Inside(gs, p), NEW q \in Place,
         NEW b, NEW n \in Int, Follows(gs, b, p, q, n)
  PROVE  Jump(p, q, n + 1)
<1> PICK r, e : r = After(gs, p) /\ e = One(AtEnd(gs, p))
  OBVIOUS
<1>1. p.frame \in Nat /\ q.frame \in Nat /\ r.frame \in Nat /\ r \in Place
  BY PlaceType DEF Inside, Place
<1>2. r.frame = p.frame + e /\ e \in 0 .. 1
  BY AfterFrame DEF One
<1>3. MaxLoss(q) \in 1 .. 2
  BY DEF MaxLoss
<1>4. CASE Jump(p, q, n)
  BY <1>1, <1>3, <1>4 DEF Jump
<1>5. CASE n >= 0 /\ r = q
  <2>1. e + MaxLoss(r) <= 2
    <3>1. AtEnd(gs, p) => MaxLoss(r) = 1
      BY DEF After, AtEnd, Out, MaxLoss
    <3> QED
      BY <1>3, <1>5, <3>1 DEF One
  <2> QED
    BY <1>1, <1>2, <1>3, <1>5, <2>1 DEF Jump
<1>6. CASE n >= 0 /\ Jump(r, q, n)
  BY <1>1, <1>2, <1>3, <1>6 DEF Jump
<1> QED
  BY <1>4, <1>5, <1>6 DEF Follows

\* A jump may be joined to the byte before it.
LEMMA Joined ==
  ASSUME NEW gs \in Sendable, NEW p, Inside(gs, p), NEW q \in Place, NEW r \in Place,
         NEW b, NEW n \in Int, NEW k \in Int, Follows(gs, b, p, q, n), Jump(q, r, k)
  PROVE  Follows(gs, b, p, r, n + k)
<1>1. p.frame \in Nat /\ q.frame \in Nat /\ r.frame \in Nat /\ After(gs, p).frame \in Nat
  BY PlaceType DEF Inside, Place
<1>2. MaxLoss(q) \in 1 .. 2 /\ MaxLoss(r) \in 1 .. 2
  BY DEF MaxLoss
<1>3. CASE Jump(p, q, n)
  <2>1. Jump(p, r, n + k)
    BY <1>1, <1>2, <1>3 DEF Jump
  <2> QED
    BY <2>1 DEF Follows
<1>4. CASE b = NextByte(gs, p) /\ n >= 0 /\ (After(gs, p) = q \/ Jump(After(gs, p), q, n))
  <2>1. Jump(After(gs, p), r, n + k)
    BY <1>1, <1>2, <1>4 DEF Jump
  <2>2. n + k >= 0
    BY <1>4 DEF Jump
  <2> QED
    BY <1>4, <2>1, <2>2 DEF Follows
<1> QED
  BY <1>3, <1>4 DEF Follows

----------------------------------------------------------------------------
(***************************************************************************)
(* The sequence operations of LineError, by index.                         *)
(***************************************************************************)
\* A byte removed: those behind it move up by one.
LEMMA RemovedByte ==
  ASSUME NEW S, NEW s \in Seq(S), NEW i \in 1 .. Len(s)
  PROVE  /\ RemoveAt(s, i) \in Seq(S)
         /\ Len(RemoveAt(s, i)) = Len(s) - 1
         /\ \A j \in 1 .. Len(s) - 1 :
              RemoveAt(s, i)[j] = IF j < i THEN s[j] ELSE s[j + 1]
<1>0. PICK n, a, b : n = Len(s) /\ a = SubSeq(s, 1, i - 1) /\ b = SubSeq(s, i + 1, n)
  OBVIOUS
<1>1. n \in Nat /\ i \in 1 .. n
  BY <1>0
<1>2. a \in Seq(S) /\ Len(a) = i - 1 /\ \A j \in 1 .. i - 1 : a[j] = s[j]
  BY <1>0, <1>1
<1>3. b \in Seq(S) /\ Len(b) = n - i /\ \A j \in 1 .. n - i : b[j] = s[i + j]
  <2>1. \A j \in 1 .. n - i : b[j] = s[(i + 1) + j - 1]
    BY <1>0, <1>1
  <2>2. \A j \in 1 .. n - i : (i + 1) + j - 1 = i + j
    BY <1>1
  <2>3. b \in Seq(S) /\ Len(b) = n - i
    BY <1>0, <1>1
  <2> QED
    BY <2>1, <2>2, <2>3
<1>4. RemoveAt(s, i) = a \o b
  BY <1>0 DEF RemoveAt
<1>5. /\ a \o b \in Seq(S) /\ Len(a \o b) = Len(a) + Len(b)
      /\ \A j \in 1 .. Len(a) : (a \o b)[j] = a[j]
      /\ \A j \in 1 .. Len(b) : (a \o b)[Len(a) + j] = b[j]
  <2>1. a \in Seq(S) /\ b \in Seq(S)
    BY <1>2, <1>3
  <2> QED
    BY <2>1, ConcatProperties
<1>6. ASSUME NEW j \in 1 .. n - 1 PROVE (a \o b)[j] = IF j < i THEN s[j] ELSE s[j + 1]
  <2>1. CASE j < i
    <3>1. j \in 1 .. Len(a) /\ j \in 1 .. i - 1
      BY <1>1, <1>2, <2>1
    <3> QED
      BY <1>2, <1>5, <2>1, <3>1
  <2>2. CASE ~ j < i
    <3> PICK k : k = j - (i - 1)
      OBVIOUS
    <3>1. k \in 1 .. Len(b) /\ k \in 1 .. n - i /\ j = Len(a) + k /\ i + k = j + 1
      BY <1>1, <1>2, <1>3, <2>2
    <3>2. (a \o b)[j] = b[k]
      BY <1>5, <3>1
    <3>3. b[k] = s[j + 1]
      BY <1>3, <3>1
    <3> QED
      BY <2>2, <3>2, <3>3
  <2> QED
    BY <2>1, <2>2
<1>7. Len(a \o b) = n - 1
  <2>1. Len(a) = i - 1 /\ Len(b) = n - i /\ Len(a \o b) = Len(a) + Len(b)
    BY <1>2, <1>3, <1>5
  <2> QED
    BY <1>1, <2>1
<1> QED
  BY <1>0, <1>4, <1>5, <1>6, <1>7

\* A byte put in before the i-th: that one and those behind it move back by one.
LEMMA InsertedByte ==
  ASSUME NEW S, NEW s \in Seq(S), NEW i \in 1 .. Len(s), NEW e \in S
  PROVE  /\ InsertAt(s, i, e) \in Seq(S)
         /\ Len(InsertAt(s, i, e)) = Len(s) + 1
         /\ \A j \in 1 .. Len(s) + 1 :
              InsertAt(s, i, e)[j] = IF j < i THEN s[j] ELSE IF j = i THEN e ELSE s[j - 1]
<1> PICK n, a, b : n = Len(s) /\ a = SubSeq(s, 1, i - 1) /\ b = SubSeq(s, i, n)
  OBVIOUS
<1> PICK c : c = a \o <<e>>
  OBVIOUS
<1>1. n \in Nat /\ i \in 1 .. n
  OBVIOUS
<1>2. a \in Seq(S) /\ Len(a) = i - 1 /\ \A j \in 1 .. i - 1 : a[j] = s[j]
  BY <1>1
<1>3. b \in Seq(S) /\ Len(b) = (n - i) + 1 /\ \A j \in 1 .. (n - i) + 1 : b[j] = s[i + j - 1]
  BY <1>1
<1>4. InsertAt(s, i, e) = c \o b
  BY DEF InsertAt
<1>5. /\ c \in Seq(S) /\ Len(c) = i
      /\ \A j \in 1 .. i - 1 : c[j] = a[j]
      /\ c[i] = e
  <2>1. <<e>> \in Seq(S) /\ Len(<<e>>) = 1 /\ <<e>>[1] = e
    OBVIOUS
  <2>2. /\ c \in Seq(S) /\ Len(c) = Len(a) + 1
        /\ \A j \in 1 .. Len(a) : c[j] = a[j]
        /\ \A j \in 1 .. 1 : c[Len(a) + j] = <<e>>[j]
    BY <1>2, <2>1, ConcatProperties
  <2>3. c[Len(a) + 1] = e
    BY <2>1, <2>2
  <2>4. Len(a) + 1 = i
    BY <1>1, <1>2
  <2> QED
    BY <1>2, <2>2, <2>3, <2>4
<1>6. /\ c \o b \in Seq(S) /\ Len(c \o b) = Len(c) + Len(b)
      /\ \A j \in 1 .. Len(c) : (c \o b)[j] = c[j]
      /\ \A j \in 1 .. Len(b) : (c \o b)[Len(c) + j] = b[j]
  BY <1>3, <1>5, ConcatProperties
<1>7. ASSUME NEW j \in 1 .. n + 1
      PROVE  (c \o b)[j] = IF j < i THEN s[j] ELSE IF j = i THEN e ELSE s[j - 1]
  <2>1. CASE j < i
    <3>1. j \in 1 .. Len(c) /\ j \in 1 .. i - 1
      BY <1>1, <1>5, <2>1
    <3>2. (c \o b)[j] = c[j] /\ c[j] = a[j] /\ a[j] = s[j]
      BY <1>2, <1>5, <1>6, <3>1
    <3> QED
      BY <2>1, <3>2
  <2>2. CASE j = i
    <3>1. j \in 1 .. Len(c)
      BY <1>1, <1>5, <2>2
    <3> QED
      BY <1>5, <1>6, <2>2, <3>1
  <2>3. CASE j > i
    <3> PICK k : k = j - i
      OBVIOUS
    <3>1. k \in 1 .. Len(b) /\ k \in 1 .. (n - i) + 1 /\ j = Len(c) + k /\ i + k - 1 = j - 1
      BY <1>1, <1>3, <1>5, <2>3
    <3>2. (c \o b)[j] = b[k]
      BY <1>6, <3>1
    <3>3. b[k] = s[j - 1]
      BY <1>3, <3>1
    <3> QED
      BY <1>1, <2>3, <3>2, <3>3
  <2> QED
    BY <1>1, <2>1, <2>2, <2>3
<1>8. Len(c \o b) = n + 1
  BY <1>1, <1>3, <1>5, <1>6
<1> QED
  BY <1>4, <1>6, <1>7, <1>8

\* A byte changed.
LEMMA ReplacedByte ==
  ASSUME NEW S, NEW s \in Seq(S), NEW i \in 1 .. Len(s), NEW e \in S
  PROVE  /\ ReplaceAt(s, i, e) \in Seq(S)
         /\ Len(ReplaceAt(s, i, e)) = Len(s)
         /\ \A j \in 1 .. Len(s) : j # i => ReplaceAt(s, i, e)[j] = s[j]
BY DEF ReplaceAt

----------------------------------------------------------------------------
(***************************************************************************)
(* The bytes on the line.  at[i] is the place of the i-th byte, bud[i] is  *)
(* the number of damaged bytes from it on that nobody has paid for; behind *)
(* the last byte is the start of frame m + 1, the next to be transmitted.  *)
(***************************************************************************)
Aligned(gs, m, ln, at, bud) ==
  /\ at \in [1 .. Len(ln) + 1 -> Place]
  /\ bud \in [1 .. Len(ln) + 1 -> Nat]
  /\ at[Len(ln) + 1] = Out(m + 1)
  /\ \A i \in 1 .. Len(ln) :
       Inside(gs, at[i]) /\ Follows(gs, ln[i], at[i], at[i + 1], bud[i] - bud[i + 1])

\* A frame more to be sent changes no place of those before it.
LEMMA GivenMore ==
  ASSUME NEW gs \in Sendable, NEW f \in Seq(Bytes) \ {<< >>}
  PROVE  /\ Append(gs, f) \in Sendable
         /\ \A p : Inside(gs, p) =>
              /\ Inside(Append(gs, f), p)
              /\ Contents(Append(gs, f), p) = Contents(gs, p)
              /\ NextByte(Append(gs, f), p) = NextByte(gs, p)
              /\ After(Append(gs, f), p) = After(gs, p)
<1> PICK hs : hs = Append(gs, f)
  OBVIOUS
<1>1. hs \in Sendable /\ Len(hs) = Len(gs) + 1 /\ \A i \in 1 .. Len(gs) : hs[i] = gs[i]
  BY DEF Sendable
<1>2. Len(gs) \in Nat
  BY DEF Sendable
<1>3. ASSUME NEW p, Inside(gs, p)
      PROVE  /\ Inside(hs, p) /\ Contents(hs, p) = Contents(gs, p)
             /\ NextByte(hs, p) = NextByte(gs, p) /\ After(hs, p) = After(gs, p)
  <2>1. Contents(hs, p) = Contents(gs, p)
    BY <1>1, <1>3 DEF Contents, Inside
  <2>2. Inside(hs, p)
    BY <1>1, <1>2, <1>3, <2>1 DEF Inside
  <2>3. (AtEnd(hs, p) <=> AtEnd(gs, p)) /\ (Escapes(hs, p) <=> Escapes(gs, p))
    BY <2>1 DEF AtEnd, Escapes
  <2> QED
    BY <2>1, <2>2, <2>3 DEF NextByte, After
<1> QED
  BY <1>1, <1>3

\* So the bytes on the line stay aligned when a frame is given.
LEMMA AlignedGiven ==
  ASSUME NEW gs \in Sendable, NEW f \in Seq(Bytes) \ {<< >>}, NEW m, NEW ln, NEW at, NEW bud,
         Aligned(gs, m, ln, at, bud)
  PROVE  Aligned(Append(gs, f), m, ln, at, bud)
<1> PICK hs : hs = Append(gs, f)
  OBVIOUS
<1>1. ASSUME NEW i \in 1 .. Len(ln)
      PROVE  Inside(hs, at[i]) /\ Follows(hs, ln[i], at[i], at[i + 1], bud[i] - bud[i + 1])
  <2>1. Inside(gs, at[i]) /\ Follows(gs, ln[i], at[i], at[i + 1], bud[i] - bud[i + 1])
    BY DEF Aligned
  <2>2. /\ Inside(hs, at[i]) /\ NextByte(hs, at[i]) = NextByte(gs, at[i])
        /\ After(hs, at[i]) = After(gs, at[i])
    BY <2>1, GivenMore
  <2> QED
    BY <2>1, <2>2 DEF Follows
<1> QED
  BY <1>1 DEF Aligned

\* Nor does it change what a decoder owes there.
LEMMA DebtGiven ==
  ASSUME NEW gs \in Sendable, NEW f \in Seq(Bytes) \ {<< >>}, NEW s, NEW p,
         Inside(gs, p) \/ p.side = "out"
  PROVE  /\ Debt(Append(gs, f), s, p) = Debt(gs, s, p)
         /\ Loss(Append(gs, f), s, p) = Loss(gs, s, p)
<1> PICK hs : hs = Append(gs, f)
  OBVIOUS
<1>1. InStep(hs, s, p) <=> InStep(gs, s, p)
  <2>1. CASE p.side = "out"
    BY <2>1 DEF InStep
  <2>2. CASE Inside(gs, p)
    <3>1. Contents(hs, p) = Contents(gs, p)
      BY <2>2, GivenMore
    <3> QED
      BY <3>1 DEF InStep
  <2> QED
    BY <2>1, <2>2
<1> QED
  BY <1>1 DEF Debt, Loss

\* The first place: where the next byte is read.
LEMMA FirstPlace ==
  ASSUME NEW gs \in Sendable, NEW m \in 0 .. Len(gs), NEW ln \in Seq(Bytes), NEW at, NEW bud,
         Aligned(gs, m, ln, at, bud)
  PROVE  /\ at[1] \in Place /\ bud[1] \in Nat
         /\ at[1].frame - 1 \in 0 .. Len(gs)
         /\ Inside(gs, at[1]) \/ at[1].side = "out"
         /\ ln = << >> => at[1] = Out(m + 1)
<1>1. Len(ln) \in Nat /\ Len(gs) \in Nat /\ m \in Nat
  BY DEF Sendable
<1>2. at[1] \in Place /\ bud[1] \in Nat
  BY <1>1 DEF Aligned
<1>3. CASE ln = << >>
  <2>1. at[1] = Out(m + 1)
    BY <1>3 DEF Aligned
  <2>2. at[1].frame = m + 1 /\ at[1].side = "out"
    BY <2>1 DEF Out
  <2> QED
    BY <1>1, <1>2, <2>1, <2>2
<1>4. CASE ln # << >>
  <2>1. 1 \in 1 .. Len(ln)
    BY <1>1, <1>4, EmptySeq
  <2>2. Inside(gs, at[1])
    BY <2>1 DEF Aligned
  <2>3. at[1].frame \in 1 .. Len(gs)
    BY <2>2 DEF Inside
  <2> QED
    BY <1>1, <1>2, <1>4, <2>2, <2>3
<1> QED
  BY <1>3, <1>4

\* A frame transmitted is aligned behind what was on the line.
LEMMA AlignedSent ==
  ASSUME NEW gs \in Sendable, NEW m \in Nat, m + 1 \in 1 .. Len(gs), NEW ln \in Seq(Bytes),
         NEW at, NEW bud, Aligned(gs, m, ln, at, bud)
  PROVE  \E at2, bud2 : /\ Aligned(gs, m + 1, ln \o Encode(gs[m + 1]), at2, bud2)
                        /\ at2[1] = at[1]
                        /\ bud2[1] = bud[1]
<1> PICK c, n, k : c = Encode(gs[m + 1]) /\ n = Len(ln) /\ k = Len(c)
  OBVIOUS
<1>1. c \in Seq(Bytes) /\ Way(gs, c, Out(m + 1), Out((m + 1) + 1))
  BY WayFrame
<1>2. PICK w : IsWay(gs, c, w, Out(m + 1), Out((m + 1) + 1))
  BY <1>1 DEF Way
<1>3. n \in Nat /\ k \in Nat
  BY <1>1
<1>4. /\ ln \o c \in Seq(Bytes) /\ Len(ln \o c) = n + k
      /\ \A i \in 1 .. n : (ln \o c)[i] = ln[i]
      /\ \A i \in 1 .. k : (ln \o c)[n + i] = c[i]
  BY <1>1, ConcatProperties
<1>5. /\ at \in [1 .. n + 1 -> Place] /\ bud \in [1 .. n + 1 -> Nat]
      /\ at[n + 1] = Out(m + 1)
      /\ \A i \in 1 .. n :
           Inside(gs, at[i]) /\ Follows(gs, ln[i], at[i], at[i + 1], bud[i] - bud[i + 1])
  BY DEF Aligned
<1>6. /\ w \in [1 .. k + 1 -> Place] /\ w[1] = Out(m + 1) /\ w[k + 1] = Out((m + 1) + 1)
      /\ \A i \in 1 .. k :
           Inside(gs, w[i]) /\ c[i] = NextByte(gs, w[i]) /\ w[i + 1] = After(gs, w[i])
  BY <1>2 DEF IsWay
<1> DEFINE at2 == [i \in 1 .. (n + k) + 1 |-> IF i <= n THEN at[i] ELSE w[i - n]]
<1> DEFINE bud2 == [i \in 1 .. (n + k) + 1 |-> IF i <= n THEN bud[i] ELSE bud[n + 1]]
<1>7. \A i \in 1 .. n + 1 : at2[i] = at[i] /\ bud2[i] = bud[i]
  <2>1. \A i \in 1 .. n : at2[i] = at[i] /\ bud2[i] = bud[i]
    BY <1>3
  <2>2. at2[n + 1] = w[1] /\ bud2[n + 1] = bud[n + 1]
    BY <1>3
  <2> QED
    BY <1>3, <1>5, <1>6, <2>1, <2>2
<1>8. \A i \in 1 .. k + 1 : at2[n + i] = w[i] /\ bud2[n + i] = bud[n + 1]
  BY <1>3
<1>9. at2 \in [1 .. (n + k) + 1 -> Place] /\ bud2 \in [1 .. (n + k) + 1 -> Nat]
  <2>1. ASSUME NEW i \in 1 .. (n + k) + 1 PROVE at2[i] \in Place /\ bud2[i] \in Nat
    <3>1. CASE i <= n
      <4>1. i \in 1 .. n + 1
        BY <1>3, <3>1
      <4> QED
        BY <1>5, <3>1, <4>1
    <3>2. CASE ~ i <= n
      <4>1. i - n \in 1 .. k + 1 /\ n + 1 \in 1 .. n + 1
        BY <1>3, <3>2
      <4> QED
        BY <1>5, <1>6, <3>2, <4>1
    <3> QED
      BY <3>1, <3>2
  <2> QED
    BY <2>1
<1> HIDE DEF at2, bud2
<1>10. at2[(n + k) + 1] = Out((m + 1) + 1)
  <2>1. k + 1 \in 1 .. k + 1 /\ n + (k + 1) = (n + k) + 1
    BY <1>3
  <2> QED
    BY <1>6, <1>8, <2>1
<1>11. ASSUME NEW i \in 1 .. n + k
       PROVE  /\ Inside(gs, at2[i])
              /\ Follows(gs, (ln \o c)[i], at2[i], at2[i + 1], bud2[i] - bud2[i + 1])
  <2>1. CASE i <= n
    <3>1. i \in 1 .. n /\ i \in 1 .. n + 1 /\ i + 1 \in 1 .. n + 1
      BY <1>3, <2>1
    <3>2. /\ at2[i] = at[i] /\ at2[i + 1] = at[i + 1]
          /\ bud2[i] = bud[i] /\ bud2[i + 1] = bud[i + 1]
      BY <1>7, <3>1
    <3>3. (ln \o c)[i] = ln[i]
      BY <1>4, <3>1
    <3>4. Inside(gs, at[i]) /\ Follows(gs, ln[i], at[i], at[i + 1], bud[i] - bud[i + 1])
      BY <1>5, <3>1
    <3> QED
      BY <3>2, <3>3, <3>4
  <2>2. CASE ~ i <= n
    <3> PICK j : j = i - n
      OBVIOUS
    <3>1. /\ j \in 1 .. k /\ j \in 1 .. k + 1 /\ j + 1 \in 1 .. k + 1
          /\ i = n + j /\ i + 1 = n + (j + 1) /\ n + 1 \in 1 .. n + 1
      BY <1>3, <2>2
    <3>2. /\ at2[i] = w[j] /\ at2[i + 1] = w[j + 1]
          /\ bud2[i] = bud[n + 1] /\ bud2[i + 1] = bud[n + 1]
      BY <1>8, <3>1
    <3>3. (ln \o c)[i] = c[j]
      BY <1>4, <3>1
    <3>4. Inside(gs, w[j]) /\ c[j] = NextByte(gs, w[j]) /\ w[j + 1] = After(gs, w[j])
      BY <1>6, <3>1
    <3>5. bud[n + 1] - bud[n + 1] = 0
      BY <1>5, <3>1
    <3>6. Follows(gs, c[j], w[j], w[j + 1], 0)
      BY <3>4 DEF Follows
    <3> QED
      BY <3>2, <3>3, <3>4, <3>5, <3>6
  <2> QED
    BY <2>1, <2>2
<1>12. Aligned(gs, m + 1, ln \o c, at2, bud2)
  BY <1>4, <1>9, <1>10, <1>11 DEF Aligned
<1>13. 1 \in 1 .. n + 1
  BY <1>3
<1> QED
  BY <1>7, <1>12, <1>13

\* What is left when the first byte has been read is aligned.
LEMMA AlignedRead ==
  ASSUME NEW gs \in Sendable, NEW m, NEW ln \in Seq(Bytes), ln # << >>,
         NEW at, NEW bud, Aligned(gs, m, ln, at, bud)
  PROVE  /\ Inside(gs, at[1]) /\ at[2] \in Place /\ bud[1] \in Nat /\ bud[2] \in Nat
         /\ Follows(gs, Head(ln), at[1], at[2], bud[1] - bud[2])
         /\ \E at2, bud2 : /\ Aligned(gs, m, Tail(ln), at2, bud2)
                           /\ at2[1] = at[2] /\ bud2[1] = bud[2]
<1> PICK n : n = Len(ln)
  OBVIOUS
<1>1. n \in Nat \ {0} /\ Head(ln) = ln[1]
  BY EmptySeq
<1>2. /\ at \in [1 .. n + 1 -> Place] /\ bud \in [1 .. n + 1 -> Nat]
      /\ at[n + 1] = Out(m + 1)
      /\ \A i \in 1 .. n :
           Inside(gs, at[i]) /\ Follows(gs, ln[i], at[i], at[i + 1], bud[i] - bud[i + 1])
  BY DEF Aligned
<1>3. 1 \in 1 .. n /\ 1 \in 1 .. n + 1 /\ 2 \in 1 .. n + 1 /\ 1 + 1 = 2
  BY <1>1
<1>4. /\ Inside(gs, at[1]) /\ at[2] \in Place /\ bud[1] \in Nat /\ bud[2] \in Nat
      /\ Follows(gs, Head(ln), at[1], at[2], bud[1] - bud[2])
  BY <1>1, <1>2, <1>3
<1>5. Len(Tail(ln)) = n - 1 /\ \A i \in 1 .. n - 1 : Tail(ln)[i] = ln[i + 1]
  OBVIOUS
<1> DEFINE at2 == [i \in 1 .. (n - 1) + 1 |-> at[i + 1]]
<1> DEFINE bud2 == [i \in 1 .. (n - 1) + 1 |-> bud[i + 1]]
<1>6. at2 \in [1 .. (n - 1) + 1 -> Place] /\ bud2 \in [1 .. (n - 1) + 1 -> Nat]
  <2>1. \A i \in 1 .. (n - 1) + 1 : i + 1 \in 1 .. n + 1
    BY <1>1
  <2> QED
    BY <1>2, <2>1
<1>7. \A i \in 1 .. n : at2[i] = at[i + 1] /\ bud2[i] = bud[i + 1]
  BY <1>1
<1> HIDE DEF at2, bud2
<1>8. at2[(n - 1) + 1] = Out(m + 1)
  BY <1>1, <1>2, <1>7
<1>9. ASSUME NEW i \in 1 .. n - 1
      PROVE  /\ Inside(gs, at2[i])
             /\ Follows(gs, Tail(ln)[i], at2[i], at2[i + 1], bud2[i] - bud2[i + 1])
  <2>1. i \in 1 .. n /\ i + 1 \in 1 .. n
    BY <1>1
  <2>2. /\ at2[i] = at[i + 1] /\ at2[i + 1] = at[(i + 1) + 1]
        /\ bud2[i] = bud[i + 1] /\ bud2[i + 1] = bud[(i + 1) + 1]
    BY <1>7, <2>1
  <2>3. Tail(ln)[i] = ln[i + 1]
    BY <1>5
  <2>4. /\ Inside(gs, at[i + 1])
        /\ Follows(gs, ln[i + 1], at[i + 1], at[(i + 1) + 1], bud[i + 1] - bud[(i + 1) + 1])
    BY <1>2, <2>1
  <2> QED
    BY <2>2, <2>3, <2>4
<1>10. Aligned(gs, m, Tail(ln), at2, bud2)
  BY <1>5, <1>6, <1>8, <1>9 DEF Aligned
<1>11. at2[1] = at[2] /\ bud2[1] = bud[2]
  BY <1>3, <1>7
<1> QED
  BY <1>4, <1>10, <1>11

\* One byte damaged: the line is aligned again with one more to be paid for, from
\* the same place or from one that a jump leads to.
Damaged(gs, m, ln2, at, bud) ==
  \E at2, bud2 :
    /\ Aligned(gs, m, ln2, at2, bud2)
    /\ \/ at2[1] = at[1] /\ bud2[1] = bud[1] + 1
       \/ Jump(at[1], at2[1], (bud[1] + 1) - bud2[1])

\* A byte is lost: those before it lead on to what is behind it.
LEMMA AlignedRemoved ==
  ASSUME NEW gs \in Sendable, NEW m, NEW ln \in Seq(Bytes), NEW i \in 1 .. Len(ln),
         NEW at, NEW bud, Aligned(gs, m, ln, at, bud)
  PROVE  Damaged(gs, m, RemoveAt(ln, i), at, bud)
<1> PICK n, c : n = Len(ln) /\ c = RemoveAt(ln, i)
  OBVIOUS
<1>1. n \in Nat \ {0} /\ i \in 1 .. n
  OBVIOUS
<1>2. /\ at \in [1 .. n + 1 -> Place] /\ bud \in [1 .. n + 1 -> Nat]
      /\ at[n + 1] = Out(m + 1)
      /\ \A j \in 1 .. n :
           Inside(gs, at[j]) /\ Follows(gs, ln[j], at[j], at[j + 1], bud[j] - bud[j + 1])
  BY DEF Aligned
<1>3. Len(c) = n - 1 /\ \A j \in 1 .. n - 1 : c[j] = IF j < i THEN ln[j] ELSE ln[j + 1]
  BY RemovedByte
<1>4. Jump(at[i], at[i + 1], (bud[i] - bud[i + 1]) + 1)
  <2>1. i + 1 \in 1 .. n + 1 /\ i \in 1 .. n + 1
    BY <1>1
  <2>2. at[i + 1] \in Place /\ bud[i] - bud[i + 1] \in Int
    BY <1>2, <2>1
  <2> QED
    BY <1>1, <1>2, <2>2, LeftOut
<1> DEFINE at2 == [j \in 1 .. (n - 1) + 1 |-> IF j < i THEN at[j] ELSE at[j + 1]]
<1> DEFINE bud2 == [j \in 1 .. (n - 1) + 1 |-> IF j < i THEN bud[j] + 1 ELSE bud[j + 1]]
<1>5. at2 \in [1 .. (n - 1) + 1 -> Place] /\ bud2 \in [1 .. (n - 1) + 1 -> Nat]
  <2>1. ASSUME NEW j \in 1 .. (n - 1) + 1 PROVE at2[j] \in Place /\ bud2[j] \in Nat
    <3>1. j \in 1 .. n + 1 /\ j + 1 \in 1 .. n + 1
      BY <1>1
    <3>2. at[j] \in Place /\ at[j + 1] \in Place /\ bud[j] \in Nat /\ bud[j + 1] \in Nat
      BY <1>2, <3>1
    <3>3. bud[j] + 1 \in Nat
      BY <3>2
    <3> QED
      BY <3>2, <3>3
  <2> QED
    BY <2>1
<1>6. /\ \A j \in 1 .. n : j < i => at2[j] = at[j] /\ bud2[j] = bud[j] + 1
      /\ \A j \in 1 .. n : ~ j < i => at2[j] = at[j + 1] /\ bud2[j] = bud[j + 1]
  BY <1>1
<1> HIDE DEF at2, bud2
<1>7. at2[(n - 1) + 1] = Out(m + 1)
  <2>1. (n - 1) + 1 = n /\ n \in 1 .. n /\ ~ n < i
    BY <1>1
  <2> QED
    BY <1>2, <1>6, <2>1
<1>8. ASSUME NEW j \in 1 .. n - 1
      PROVE  /\ Inside(gs, at2[j])
             /\ Follows(gs, c[j], at2[j], at2[j + 1], bud2[j] - bud2[j + 1])
  <2>1. j \in 1 .. n /\ j + 1 \in 1 .. n /\ j \in 1 .. n + 1 /\ j + 1 \in 1 .. n + 1
        /\ (j + 1) + 1 \in 1 .. n + 1
    BY <1>1
  <2>2. bud[j] \in Nat /\ bud[j + 1] \in Nat /\ bud[(j + 1) + 1] \in Nat
    BY <1>2, <2>1
  <2>3. CASE j + 1 < i
    <3>1. j < i
      BY <1>1, <2>1, <2>3
    <3>2. at2[j] = at[j] /\ bud2[j] = bud[j] + 1
      BY <1>6, <2>1, <3>1
    <3>3. at2[j + 1] = at[j + 1] /\ bud2[j + 1] = bud[j + 1] + 1
      BY <1>6, <2>1, <2>3
    <3>4. bud2[j] - bud2[j + 1] = bud[j] - bud[j + 1]
      BY <2>2, <3>2, <3>3
    <3>5. c[j] = ln[j]
      BY <1>3, <3>1
    <3>6. Inside(gs, at[j]) /\ Follows(gs, ln[j], at[j], at[j + 1], bud[j] - bud[j + 1])
      BY <1>2, <2>1
    <3> QED
      BY <3>2, <3>3, <3>4, <3>5, <3>6
  <2>4. CASE j + 1 = i
    <3>1. j < i /\ ~ j + 1 < i
      BY <1>1, <2>1, <2>4
    <3>2. at2[j] = at[j] /\ bud2[j] = bud[j] + 1
      BY <1>6, <2>1, <3>1
    <3>3. at2[j + 1] = at[(j + 1) + 1] /\ bud2[j + 1] = bud[(j + 1) + 1]
      BY <1>6, <2>1, <3>1
    <3>4. bud2[j] - bud2[j + 1] = (bud[j] - bud[j + 1]) + ((bud[j + 1] - bud[(j + 1) + 1]) + 1)
      BY <2>2, <3>2, <3>3
    <3>5. c[j] = ln[j]
      BY <1>3, <3>1
    <3>6. Inside(gs, at[j]) /\ Follows(gs, ln[j], at[j], at[j + 1], bud[j] - bud[j + 1])
      BY <1>2, <2>1
    <3>7. Jump(at[j + 1], at[(j + 1) + 1], (bud[j + 1] - bud[(j + 1) + 1]) + 1)
      BY <1>4, <2>4
    <3>8. /\ at[j + 1] \in Place /\ at[(j + 1) + 1] \in Place
          /\ bud[j] - bud[j + 1] \in Int /\ (bud[j + 1] - bud[(j + 1) + 1]) + 1 \in Int
      <4>1. at[j + 1] \in Place /\ at[(j + 1) + 1] \in Place
        BY <1>2, <2>1
      <4> QED
        BY <2>2, <4>1
    <3>9. Follows(gs, ln[j], at[j], at[(j + 1) + 1],
                  (bud[j] - bud[j + 1]) + ((bud[j + 1] - bud[(j + 1) + 1]) + 1))
      BY <3>6, <3>7, <3>8, Joined
    <3> QED
      BY <3>2, <3>3, <3>4, <3>5, <3>6, <3>9
  <2>5. CASE j + 1 > i
    <3>1. ~ j < i /\ ~ j + 1 < i
      BY <1>1, <2>1, <2>5
    <3>2. at2[j] = at[j + 1] /\ bud2[j] = bud[j + 1]
      BY <1>6, <2>1, <3>1
    <3>3. at2[j + 1] = at[(j + 1) + 1] /\ bud2[j + 1] = bud[(j + 1) + 1]
      BY <1>6, <2>1, <3>1
    <3>4. c[j] = ln[j + 1]
      BY <1>3, <3>1
    <3>5. /\ Inside(gs, at[j + 1])
          /\ Follows(gs, ln[j + 1], at[j + 1], at[(j + 1) + 1], bud[j + 1] - bud[(j + 1) + 1])
      BY <1>2, <2>1
    <3> QED
      BY <3>2, <3>3, <3>4, <3>5
  <2> QED
    BY <1>1, <2>1, <2>3, <2>4, <2>5
<1>9. Aligned(gs, m, c, at2, bud2)
  BY <1>3, <1>5, <1>7, <1>8 DEF Aligned
<1>10. \/ at2[1] = at[1] /\ bud2[1] = bud[1] + 1
       \/ Jump(at[1], at2[1], (bud[1] + 1) - bud2[1])
  <2>1. 1 \in 1 .. n /\ 1 + 1 = 2 /\ 1 \in 1 .. n + 1 /\ 2 \in 1 .. n + 1
    BY <1>1
  <2>2. CASE 1 < i
    BY <1>6, <2>1, <2>2
  <2>3. CASE i = 1
    <3>1. at2[1] = at[2] /\ bud2[1] = bud[2]
      BY <1>6, <2>1, <2>3
    <3>2. (bud[1] + 1) - bud[2] = (bud[1] - bud[2]) + 1
      <4>1. bud[1] \in Nat /\ bud[2] \in Nat
        BY <1>2, <2>1
      <4> QED
        BY <4>1
    <3>3. Jump(at[1], at[2], (bud[1] - bud[2]) + 1)
      BY <1>4, <2>1, <2>3
    <3> QED
      BY <3>1, <3>2, <3>3
  <2> QED
    BY <1>1, <2>2, <2>3
<1> QED
  BY <1>9, <1>10 DEF Damaged

\* A byte is changed: it may be left out, and the line goes on behind it.
LEMMA AlignedReplaced ==
  ASSUME NEW gs \in Sendable, NEW m, NEW ln \in Seq(Bytes), NEW i \in 1 .. Len(ln),
         NEW b \in Bytes, NEW at, NEW bud, Aligned(gs, m, ln, at, bud)
  PROVE  Damaged(gs, m, ReplaceAt(ln, i, b), at, bud)
<1> PICK n, c : n = Len(ln) /\ c = ReplaceAt(ln, i, b)
  OBVIOUS
<1>1. n \in Nat \ {0} /\ i \in 1 .. n
  OBVIOUS
<1>2. /\ at \in [1 .. n + 1 -> Place] /\ bud \in [1 .. n + 1 -> Nat]
      /\ at[n + 1] = Out(m + 1)
      /\ \A j \in 1 .. n :
           Inside(gs, at[j]) /\ Follows(gs, ln[j], at[j], at[j + 1], bud[j] - bud[j + 1])
  BY DEF Aligned
<1>3. Len(c) = n /\ \A j \in 1 .. n : j # i => c[j] = ln[j]
  BY ReplacedByte
<1> DEFINE bud2 == [j \in 1 .. n + 1 |-> IF j <= i THEN bud[j] + 1 ELSE bud[j]]
<1>4. bud2 \in [1 .. n + 1 -> Nat]
  BY <1>1, <1>2
<1>5. /\ \A j \in 1 .. n + 1 : j <= i => bud2[j] = bud[j] + 1
      /\ \A j \in 1 .. n + 1 : ~ j <= i => bud2[j] = bud[j]
  OBVIOUS
<1> HIDE DEF bud2
<1>6. ASSUME NEW j \in 1 .. n
      PROVE  Follows(gs, c[j], at[j], at[j + 1], bud2[j] - bud2[j + 1])
  <2>1. j \in 1 .. n + 1 /\ j + 1 \in 1 .. n + 1
    BY <1>1
  <2>2. bud[j] \in Nat /\ bud[j + 1] \in Nat /\ at[j + 1] \in Place
    BY <1>2, <2>1
  <2>3. Inside(gs, at[j]) /\ Follows(gs, ln[j], at[j], at[j + 1], bud[j] - bud[j + 1])
    BY <1>2
  <2>4. CASE j # i
    <3>1. (j <= i /\ j + 1 <= i) \/ (~ j <= i /\ ~ j + 1 <= i)
      BY <1>1, <2>4
    <3>2. bud2[j] - bud2[j + 1] = bud[j] - bud[j + 1]
      BY <1>5, <2>1, <2>2, <3>1
    <3> QED
      BY <1>3, <2>3, <2>4, <3>2
  <2>5. CASE j = i
    <3>1. j <= i /\ ~ j + 1 <= i
      BY <1>1, <2>5
    <3>2. bud2[j] = bud[j] + 1 /\ bud2[j + 1] = bud[j + 1]
      BY <1>5, <2>1, <3>1
    <3>3. bud2[j] - bud2[j + 1] = (bud[j] - bud[j + 1]) + 1
      BY <2>2, <3>2
    <3>4. Jump(at[j], at[j + 1], (bud[j] - bud[j + 1]) + 1)
      BY <2>2, <2>3, LeftOut
    <3> QED
      BY <3>3, <3>4 DEF Follows
  <2> QED
    BY <2>4, <2>5
<1>7. Aligned(gs, m, c, at, bud2)
  BY <1>2, <1>3, <1>4, <1>6 DEF Aligned
<1>8. bud2[1] = bud[1] + 1
  <2>1. 1 \in 1 .. n + 1 /\ 1 <= i
    BY <1>1
  <2> QED
    BY <1>5, <2>1
<1> QED
  BY <1>7, <1>8 DEF Damaged

\* A byte appears: the line goes on behind it from where it came in.
LEMMA AlignedInserted ==
  ASSUME NEW gs \in Sendable, NEW m, NEW ln \in Seq(Bytes), NEW i \in 1 .. Len(ln),
         NEW b \in Bytes, NEW at, NEW bud, Aligned(gs, m, ln, at, bud)
  PROVE  Damaged(gs, m, InsertAt(ln, i, b), at, bud)
<1> PICK n, c : n = Len(ln) /\ c = InsertAt(ln, i, b)
  OBVIOUS
<1>1. n \in Nat \ {0} /\ i \in 1 .. n
  OBVIOUS
<1>2. /\ at \in [1 .. n + 1 -> Place] /\ bud \in [1 .. n + 1 -> Nat]
      /\ at[n + 1] = Out(m + 1)
      /\ \A j \in 1 .. n :
           Inside(gs, at[j]) /\ Follows(gs, ln[j], at[j], at[j + 1], bud[j] - bud[j + 1])
  BY DEF Aligned
<1>3. /\ Len(c) = n + 1
      /\ \A j \in 1 .. n + 1 : c[j] = IF j < i THEN ln[j] ELSE IF j = i THEN b ELSE ln[j - 1]
  <2>1. PICK h : h = InsertAt(ln, i, b)
    OBVIOUS
  <2>2. Len(h) = Len(ln) + 1
    BY <2>1, InsertedByte
  <2>3. ASSUME NEW j \in 1 .. Len(ln) + 1
        PROVE  h[j] = IF j < i THEN ln[j] ELSE IF j = i THEN b ELSE ln[j - 1]
    BY <2>1, InsertedByte
  <2> QED
    BY <2>1, <2>2, <2>3
<1> DEFINE at2 == [j \in 1 .. (n + 1) + 1 |-> IF j <= i THEN at[j] ELSE at[j - 1]]
<1> DEFINE bud2 == [j \in 1 .. (n + 1) + 1 |-> IF j <= i THEN bud[j] + 1 ELSE bud[j - 1]]
<1>4. at2 \in [1 .. (n + 1) + 1 -> Place] /\ bud2 \in [1 .. (n + 1) + 1 -> Nat]
  <2>1. ASSUME NEW j \in 1 .. (n + 1) + 1 PROVE at2[j] \in Place /\ bud2[j] \in Nat
    <3>1. CASE j <= i
      <4>1. j \in 1 .. n + 1
        BY <1>1, <3>1
      <4> QED
        BY <1>2, <3>1, <4>1
    <3>2. CASE ~ j <= i
      <4>1. j - 1 \in 1 .. n + 1
        BY <1>1, <3>2
      <4> QED
        BY <1>2, <3>2, <4>1
    <3> QED
      BY <3>1, <3>2
  <2> QED
    BY <2>1
<1>5. /\ \A j \in 1 .. (n + 1) + 1 : j <= i => at2[j] = at[j] /\ bud2[j] = bud[j] + 1
      /\ \A j \in 1 .. (n + 1) + 1 : ~ j <= i => at2[j] = at[j - 1] /\ bud2[j] = bud[j - 1]
  OBVIOUS
<1> HIDE DEF at2, bud2
<1>6. at2[(n + 1) + 1] = Out(m + 1)
  <2>1. /\ (n + 1) + 1 \in 1 .. (n + 1) + 1 /\ ~ (n + 1) + 1 <= i /\ ((n + 1) + 1) - 1 = n + 1
    BY <1>1
  <2> QED
    BY <1>2, <1>5, <2>1
<1>7. ASSUME NEW j \in 1 .. n + 1
      PROVE  /\ Inside(gs, at2[j])
             /\ Follows(gs, c[j], at2[j], at2[j + 1], bud2[j] - bud2[j + 1])
  <2>1. j \in 1 .. (n + 1) + 1 /\ j + 1 \in 1 .. (n + 1) + 1 /\ (j + 1) - 1 = j
    BY <1>1
  <2>2. CASE j < i
    <3>1. j <= i /\ j + 1 <= i /\ j \in 1 .. n /\ j + 1 \in 1 .. n + 1
      BY <1>1, <2>2
    <3>2. /\ at2[j] = at[j] /\ bud2[j] = bud[j] + 1
          /\ at2[j + 1] = at[j + 1] /\ bud2[j + 1] = bud[j + 1] + 1
      BY <1>5, <2>1, <3>1
    <3>3. bud[j] \in Nat /\ bud[j + 1] \in Nat
      BY <1>2, <3>1
    <3>4. bud2[j] - bud2[j + 1] = bud[j] - bud[j + 1]
      BY <3>2, <3>3
    <3>5. c[j] = ln[j]
      BY <1>3, <2>2
    <3>6. Inside(gs, at[j]) /\ Follows(gs, ln[j], at[j], at[j + 1], bud[j] - bud[j + 1])
      BY <1>2, <3>1
    <3> QED
      BY <3>2, <3>4, <3>5, <3>6
  <2>3. CASE j = i
    <3>1. j <= i /\ ~ j + 1 <= i /\ j \in 1 .. n
      BY <1>1, <2>3
    <3>2. at2[j] = at[j] /\ bud2[j] = bud[j] + 1 /\ at2[j + 1] = at[j] /\ bud2[j + 1] = bud[j]
      BY <1>5, <2>1, <3>1
    <3>3. bud[j] \in Nat /\ at[j] \in Place /\ Inside(gs, at[j])
      BY <1>2, <3>1
    <3>4. bud2[j] - bud2[j + 1] = 1
      BY <3>2, <3>3
    <3>5. Jump(at[j], at[j], 1)
      <4>1. at[j].frame \in Nat /\ MaxLoss(at[j]) \in 1 .. 2
        BY <3>3 DEF MaxLoss, Place
      <4> QED
        BY <4>1 DEF Jump
    <3> QED
      BY <3>2, <3>3, <3>4, <3>5 DEF Follows
  <2>4. CASE j > i
    <3> PICK k : k = j - 1
      OBVIOUS
    <3>1. ~ j <= i /\ ~ j + 1 <= i /\ k \in 1 .. n /\ j = k + 1 /\ ~ j < i /\ j # i
      BY <1>1, <2>4
    <3>2. /\ at2[j] = at[k] /\ bud2[j] = bud[k]
          /\ at2[j + 1] = at[k + 1] /\ bud2[j + 1] = bud[k + 1]
      BY <1>5, <2>1, <3>1
    <3>3. c[j] = ln[k]
      BY <1>3, <3>1
    <3>4. Inside(gs, at[k]) /\ Follows(gs, ln[k], at[k], at[k + 1], bud[k] - bud[k + 1])
      BY <1>2, <3>1
    <3> QED
      BY <3>2, <3>3, <3>4
  <2> QED
    BY <1>1, <2>2, <2>3, <2>4
<1>8. Aligned(gs, m, c, at2, bud2)
  BY <1>3, <1>4, <1>6, <1>7 DEF Aligned
<1>9. at2[1] = at[1] /\ bud2[1] = bud[1] + 1
  <2>1. 1 \in 1 .. (n + 1) + 1 /\ 1 <= i
    BY <1>1
  <2> QED
    BY <1>5, <2>1
<1> QED
  BY <1>8, <1>9 DEF Damaged

----------------------------------------------------------------------------
(***************************************************************************)
(* The delivered frames that were sent.                                    *)
(***************************************************************************)
IntactOf(gs, d) == {i \in DOMAIN d : \E k \in DOMAIN gs : gs[k] = d[i]}

\* They are finitely many, at most all.
LEMMA IntactSize ==
  ASSUME NEW gs, NEW S, NEW d \in Seq(S)
  PROVE  /\ IsFiniteSet(IntactOf(gs, d))
         /\ Cardinality(IntactOf(gs, d)) \in Nat
         /\ Cardinality(IntactOf(gs, d)) <= Len(d)
<1>0. PICK n, A : n = Len(d) /\ A = IntactOf(gs, d)
  OBVIOUS
<1>1. n \in Nat /\ DOMAIN d = 1 .. n
  BY <1>0
<1>2. A \subseteq 1 .. n
  BY <1>0, <1>1 DEF IntactOf
<1>3. IsFiniteSet(1 .. n) /\ Cardinality(1 .. n) = n
  BY <1>1, FS_Interval
<1>4. IsFiniteSet(A) /\ Cardinality(A) <= Cardinality(1 .. n)
  BY <1>2, <1>3, FS_Subset
<1>5. Cardinality(A) \in Nat
  BY <1>4, FS_CardinalityType
<1> QED
  BY <1>0, <1>3, <1>4, <1>5

\* A frame more to be sent takes none of them away.
LEMMA IntactGiven ==
  ASSUME NEW gs \in Sendable, NEW f \in Seq(Bytes) \ {<< >>}, NEW S, NEW d \in Seq(S)
  PROVE  Cardinality(IntactOf(gs, d)) <= Cardinality(IntactOf(Append(gs, f), d))
<1> PICK hs : hs = Append(gs, f)
  OBVIOUS
<1>1. /\ \A k \in DOMAIN gs : k \in DOMAIN hs /\ hs[k] = gs[k]
  BY DEF Sendable
<1>2. IntactOf(gs, d) \subseteq IntactOf(hs, d)
  BY <1>1 DEF IntactOf
<1>3. IsFiniteSet(IntactOf(hs, d))
  BY IntactSize
<1> QED
  BY <1>2, <1>3, FS_Subset

\* A frame more delivered counts when it was sent.
LEMMA IntactDelivered ==
  ASSUME NEW gs, NEW S, NEW d \in Seq(S), NEW x \in S
  PROVE  /\ (\E k \in DOMAIN gs : gs[k] = x)
              => Cardinality(IntactOf(gs, Append(d, x))) = Cardinality(IntactOf(gs, d)) + 1
         /\ Cardinality(IntactOf(gs, d)) <= Cardinality(IntactOf(gs, Append(d, x)))
<1> PICK n, e : n = Len(d) /\ e = Append(d, x)
  OBVIOUS
<1>1. /\ n \in Nat /\ DOMAIN d = 1 .. n /\ DOMAIN e = 1 .. n + 1 /\ e \in Seq(S)
      /\ e[n + 1] = x /\ \A i \in 1 .. n : e[i] = d[i]
  OBVIOUS
<1>2. IsFiniteSet(IntactOf(gs, d)) /\ IsFiniteSet(IntactOf(gs, e))
  BY <1>1, IntactSize
<1>3. IntactOf(gs, d) \subseteq IntactOf(gs, e)
  BY <1>1 DEF IntactOf
<1>4. ASSUME \E k \in DOMAIN gs : gs[k] = x
      PROVE  Cardinality(IntactOf(gs, e)) = Cardinality(IntactOf(gs, d)) + 1
  <2>1. n + 1 \notin IntactOf(gs, d)
    BY <1>1 DEF IntactOf
  <2>2. \A i : i \in IntactOf(gs, e) <=> i \in IntactOf(gs, d) \/ i = n + 1
    <3>1. ASSUME NEW i PROVE i \in IntactOf(gs, e) <=> i \in IntactOf(gs, d) \/ i = n + 1
      <4>1. CASE i = n + 1
        BY <1>1, <1>4, <4>1 DEF IntactOf
      <4>2. CASE i # n + 1
        <5>1. i \in 1 .. n + 1 <=> i \in 1 .. n
          BY <1>1, <4>2
        <5> QED
          BY <1>1, <4>2, <5>1 DEF IntactOf
      <4> QED
        BY <4>1, <4>2
    <3> QED
      BY <3>1
  <2>3. IntactOf(gs, e) = IntactOf(gs, d) \cup {n + 1}
    BY <2>2
  <2> QED
    BY <1>2, <2>1, <2>3, FS_AddElement
<1> QED
  BY <1>2, <1>3, <1>4, FS_Subset

----------------------------------------------------------------------------
(***************************************************************************)
(* The accounts.  The frames made up so far, those the decoder may still   *)
(* make up and two for each damaged byte on the line come to at most two   *)
(* for each byte damaged ever; and so do the frames lost.  With no byte    *)
(* damaged, what is delivered is what was sent, in order.                  *)
(***************************************************************************)
Balanced(gs, s, p, b, d, e) ==
  /\ (Len(d) - Cardinality(IntactOf(gs, d))) + Debt(gs, s, p) + 2 * b <= 2 * e
  /\ (p.frame - Cardinality(IntactOf(gs, d))) + Loss(gs, s, p) + 2 * b <= 2 * e + 1
  /\ e = 0 => d = SubSeq(gs, 1, p.frame - 1)

\* Whatever is delivered, with no byte damaged the decoder is in step.
LEMMA BalancedClean ==
  ASSUME NEW gs, NEW s \in Decoder, NEW p \in Place, NEW b \in Nat, NEW S, NEW d \in Seq(S),
         Balanced(gs, s, p, b, d, 0)
  PROVE  b = 0 /\ InStep(gs, s, p) /\ d = SubSeq(gs, 1, p.frame - 1)
<1>1. (Len(d) - Cardinality(IntactOf(gs, d))) + Debt(gs, s, p) + 2 * b <= 0
  BY DEF Balanced
<1>2. Cardinality(IntactOf(gs, d)) \in Nat /\ Cardinality(IntactOf(gs, d)) <= Len(d) /\ Len(d) \in Nat
  BY IntactSize
<1>3. Debt(gs, s, p) \in 0 .. 2
  BY DebtBounds
<1>4. b = 0 /\ Debt(gs, s, p) = 0
  <2> PICK x, y, z : x = Len(d) /\ y = Cardinality(IntactOf(gs, d)) /\ z = Debt(gs, s, p)
    OBVIOUS
  <2> QED
    BY <1>1, <1>2, <1>3
<1> QED
  BY <1>4, DebtBounds DEF Balanced

\* Giving a frame keeps the accounts.
LEMMA BalancedGiven ==
  ASSUME NEW gs \in Sendable, NEW f \in Seq(Bytes) \ {<< >>},
         NEW s \in Decoder, NEW p \in Place, p.frame - 1 \in 0 .. Len(gs),
         Inside(gs, p) \/ p.side = "out",
         NEW b \in Nat, NEW d \in Seq(Seq(Bytes)), NEW e \in Nat, Balanced(gs, s, p, b, d, e)
  PROVE  Balanced(Append(gs, f), s, p, b, d, e)
<1>0. PICK hs, I, J, D, L, F :
      /\ F = p.frame /\ hs = Append(gs, f) /\ I = Cardinality(IntactOf(gs, d)) /\ J = Cardinality(IntactOf(hs, d))
      /\ D = Debt(gs, s, p) /\ L = Loss(gs, s, p)
  OBVIOUS
<1>1. Debt(hs, s, p) = D /\ Loss(hs, s, p) = L
  BY <1>0, DebtGiven
<1>2. I \in Nat /\ J \in Nat /\ I <= J /\ Len(d) \in Nat
  BY <1>0, IntactSize, IntactGiven
<1>3. D \in Nat /\ L \in Nat /\ F \in Nat
  BY <1>0, DebtTable DEF Place
<1>4. (Len(d) - I) + D + 2 * b <= 2 * e /\ (F - I) + L + 2 * b <= 2 * e + 1
  BY <1>0 DEF Balanced
<1>5. (Len(d) - J) + D + 2 * b <= 2 * e
  BY <1>2, <1>3, <1>4
<1>6. (F - J) + L + 2 * b <= 2 * e + 1
  BY <1>2, <1>3, <1>4
<1>7. e = 0 => d = SubSeq(hs, 1, p.frame - 1)
  <2>0. PICK k : k = p.frame - 1
    OBVIOUS
  <2>1. k \in 0 .. Len(gs)
    BY <2>0
  <2>2. SubSeq(hs, 1, k) = SubSeq(gs, 1, k)
    <3>1. gs \in Seq(Seq(Bytes)) /\ hs \in Seq(Seq(Bytes)) /\ Len(hs) = Len(gs) + 1
      BY <1>0 DEF Sendable
    <3>2. \A i \in 1 .. Len(gs) : hs[i] = gs[i]
      BY <1>0 DEF Sendable
    <3> QED
      BY <2>1, <3>1, <3>2
  <2> QED
    BY <2>0, <2>2 DEF Balanced
<1> QED
  BY <1>0, <1>1, <1>5, <1>6, <1>7 DEF Balanced

\* So does reading a byte.
LEMMA BalancedRead ==
  ASSUME NEW gs \in Sendable, NEW s \in Decoder, NEW b \in Bytes,
         NEW p, Inside(gs, p), NEW q \in Place, NEW x \in Nat, NEW y \in Nat,
         Follows(gs, b, p, q, x - y),
         NEW d \in Seq(Seq(Bytes)), NEW e \in Nat, Balanced(gs, s, p, x, d, e),
         NEW c, c = IF Ready(s, b) THEN Append(d, Read(s, b).frame) ELSE d
  PROVE  /\ c \in Seq(Seq(Bytes))
         /\ Balanced(gs, Read(s, b), q, y, c, e)
<1>0. PICK u, I, J, f, D, C, t, v, w, z, o :
      /\ u = Read(s, b) /\ I = Cardinality(IntactOf(gs, d)) /\ J = Cardinality(IntactOf(gs, c))
      /\ f = u.frame /\ D = Len(d) /\ C = Len(c) /\ o = One(Ready(s, b))
      /\ t = Debt(gs, s, p) /\ v = Debt(gs, u, q) /\ w = Loss(gs, s, p) /\ z = Loss(gs, u, q)
  OBVIOUS
<1>1. u \in Decoder /\ f \in Seq(Bytes) /\ p \in Place
  <2>1. u \in Decoder /\ p \in Place
    BY <1>0, DecoderType DEF Inside
  <2> QED
    BY <1>0, <2>1 DEF Decoder
<1>2. c \in Seq(Seq(Bytes)) /\ C = D + o
  <2>1. CASE Ready(s, b)
    <3>1. c = Append(d, f) /\ o = 1
      BY <1>0, <2>1 DEF One
    <3> QED
      BY <1>0, <1>1, <3>1
  <2>2. CASE ~ Ready(s, b)
    <3>1. c = d /\ o = 0
      BY <1>0, <2>2 DEF One
    <3> QED
      BY <1>0, <3>1
  <2> QED
    BY <2>1, <2>2
<1>3. I \in Nat /\ J \in Nat /\ I <= J /\ D \in Nat
  <2>1. I \in Nat /\ J \in Nat /\ D \in Nat
    <3>1. d \in Seq(Seq(Bytes)) /\ c \in Seq(Seq(Bytes))
      BY <1>2
    <3>2. Cardinality(IntactOf(gs, d)) \in Nat /\ Cardinality(IntactOf(gs, c)) \in Nat
      BY <3>1, IntactSize
    <3> QED
      BY <1>0, <3>2
  <2>2. CASE Ready(s, b)
    <3>1. c = Append(d, f)
      BY <1>0, <2>2
    <3>2. I <= J
      BY <1>0, <1>1, <3>1, IntactDelivered
    <3> QED
      BY <2>1, <3>2
  <2>3. CASE ~ Ready(s, b)
    <3>1. I = J
      BY <1>0, <2>3
    <3> QED
      BY <2>1, <3>1
  <2> QED
    BY <2>1, <2>2, <2>3
<1>4. Ready(s, b) /\ f = Contents(gs, p) => J = I + 1
  <2>1. SUFFICES ASSUME Ready(s, b), f = Contents(gs, p) PROVE J = I + 1
    OBVIOUS
  <2>2. c = Append(d, f)
    BY <1>0, <2>1
  <2>3. \E k \in DOMAIN gs : gs[k] = f
    BY <2>1 DEF Contents, Inside, Sendable
  <2> QED
    BY <1>0, <1>1, <2>2, <2>3, IntactDelivered
<1>5. x - y \in Int
  OBVIOUS
<1>6. /\ x - y >= 0
      /\ ((D + o) - J) + v <= (D - I) + t + 2 * (x - y)
      /\ (q.frame - J) + z <= (p.frame - I) + w + 2 * (x - y)
  <2>1. Ready(s, b) /\ Read(s, b).frame = Contents(gs, p) => J = I + 1
    BY <1>0, <1>4
  <2>2. /\ x - y >= 0
        /\ ((D + One(Ready(s, b))) - J) + Debt(gs, Read(s, b), q)
             <= (D - I) + Debt(gs, s, p) + 2 * (x - y)
        /\ (q.frame - J) + Loss(gs, Read(s, b), q)
             <= (p.frame - I) + Loss(gs, s, p) + 2 * (x - y)
    BY <1>3, <1>5, <2>1, Paid
  <2> QED
    BY <1>0, <2>2
<1>7. (D - I) + t + 2 * x <= 2 * e /\ (p.frame - I) + w + 2 * x <= 2 * e + 1
  BY <1>0 DEF Balanced
<1>8. /\ t \in Nat /\ v \in Nat /\ w \in Nat /\ z \in Nat
      /\ p.frame \in Nat /\ q.frame \in Nat /\ o \in Nat
  <2>1. t \in Nat /\ w \in Nat
    BY <1>0, <1>1, DebtTable
  <2>2. v \in Nat /\ z \in Nat
    BY <1>0, <1>1, DebtTable
  <2>3. p.frame \in Nat /\ q.frame \in Nat /\ o \in Nat
    BY <1>0, <1>1 DEF Place, One
  <2> QED
    BY <2>1, <2>2, <2>3
<1>9. (C - J) + v + 2 * y <= 2 * e
  <2>1. C = D + o
    BY <1>2
  <2> QED
    BY <1>3, <1>6, <1>7, <1>8, <2>1
<1>10. (q.frame - J) + z + 2 * y <= 2 * e + 1
  <2>0. PICK qf, pf : qf = q.frame /\ pf = p.frame
    OBVIOUS
  <2>1. qf \in Nat /\ pf \in Nat /\ (qf - J) + z <= (pf - I) + w + 2 * (x - y)
        /\ (pf - I) + w + 2 * x <= 2 * e + 1
    BY <1>6, <1>7, <1>8, <2>0
  <2>2. (qf - J) + z + 2 * y <= 2 * e + 1
    BY <1>3, <1>8, <2>1
  <2> QED
    BY <2>0, <2>2
<1>11. ASSUME e = 0 PROVE c = SubSeq(gs, 1, q.frame - 1)
  <2>1. x = 0 /\ InStep(gs, s, p) /\ d = SubSeq(gs, 1, p.frame - 1)
    BY <1>1, <1>11, BalancedClean
  <2>2. x - y = 0
    BY <1>6, <2>1
  <2>3. b = NextByte(gs, p) /\ q = After(gs, p)
    BY <2>2 DEF Follows, Jump
  <2>4. (Ready(s, b) <=> AtEnd(gs, p)) /\ (AtEnd(gs, p) => f = Contents(gs, p))
    BY <1>0, <2>1, <2>3, InStepByte
  <2>5. q.frame = p.frame + One(AtEnd(gs, p))
    BY <2>3, AfterFrame
  <2>6. CASE AtEnd(gs, p)
    <3>0. PICK k : k = p.frame - 1
      OBVIOUS
    <3>1. k \in Nat /\ k + 1 \in 1 .. Len(gs) /\ k + 1 = p.frame /\ q.frame - 1 = k + 1
      <4>1. p.frame \in 1 .. Len(gs) /\ q.frame = p.frame + 1
        BY <2>5, <2>6 DEF Inside, One
      <4> QED
        BY <1>8, <3>0, <4>1
    <3>2. gs \in Seq(Seq(Bytes))
      BY DEF Sendable
    <3>3. SubSeq(gs, 1, k + 1) = Append(SubSeq(gs, 1, k), gs[k + 1])
      BY <3>1, <3>2, OneMore
    <3>4. c = Append(d, f) /\ f = gs[k + 1]
      BY <1>0, <2>4, <2>6, <3>1 DEF Contents
    <3>5. c = Append(SubSeq(gs, 1, k), gs[k + 1])
      BY <2>1, <3>0, <3>4
    <3> QED
      BY <3>1, <3>3, <3>5
  <2>7. CASE ~ AtEnd(gs, p)
    <3>1. q.frame = p.frame
      BY <1>8, <2>5, <2>7 DEF One
    <3> QED
      BY <2>1, <2>4, <2>7, <3>1
  <2> QED
    BY <2>6, <2>7
<1> QED
  BY <1>0, <1>2, <1>9, <1>10, <1>11 DEF Balanced

\* So does damaging one, which adds two to what may be paid.
LEMMA BalancedDamaged ==
  ASSUME NEW gs, NEW s \in Decoder, NEW p \in Place, NEW q \in Place, NEW x \in Nat, NEW y \in Nat,
         (q = p /\ y = x + 1) \/ Jump(p, q, (x + 1) - y),
         NEW S, NEW d \in Seq(S), NEW e \in Nat, Balanced(gs, s, p, x, d, e)
  PROVE  Balanced(gs, s, q, y, d, e + 1)
<1>0. PICK D, I, t, v, w, z, pf, qf, M :
      /\ pf = p.frame /\ qf = q.frame /\ M = MaxLoss(q) /\ D = Len(d) /\ I = Cardinality(IntactOf(gs, d))
      /\ t = Debt(gs, s, p) /\ v = Debt(gs, s, q) /\ w = Loss(gs, s, p) /\ z = Loss(gs, s, q)
  OBVIOUS
<1>1. D \in Nat /\ I \in Nat
  BY <1>0, IntactSize
<1>2. t \in 0 .. 2 /\ v \in 0 .. 2 /\ w \in Nat /\ z \in 0 .. M /\ M \in 1 .. 2
  BY <1>0, DebtBounds, DebtTable
<1>3. pf \in Nat /\ qf \in Nat
  BY <1>0 DEF Place
<1>4. (D - I) + t + 2 * x <= 2 * e /\ (pf - I) + w + 2 * x <= 2 * e + 1
  BY <1>0 DEF Balanced
<1>5. (D - I) + v + 2 * y <= 2 * (e + 1) /\ (qf - I) + z + 2 * y <= 2 * (e + 1) + 1
  <2>1. CASE q = p /\ y = x + 1
    <3>1. t = v /\ w = z /\ pf = qf
      BY <1>0, <2>1
    <3> QED
      BY <1>1, <1>2, <1>3, <1>4, <2>1, <3>1
  <2>2. CASE Jump(p, q, (x + 1) - y)
    <3>1. (x + 1) - y >= 1 /\ (qf - pf) + M <= 2 * ((x + 1) - y)
      BY <1>0, <2>2 DEF Jump
    <3>2. (D - I) + v + 2 * y <= 2 * (e + 1)
      BY <1>1, <1>2, <1>4, <3>1
    <3>3. (qf - I) + z + 2 * y <= 2 * (e + 1) + 1
      BY <1>1, <1>2, <1>3, <1>4, <3>1
    <3> QED
      BY <3>2, <3>3
  <2> QED
    BY <2>1, <2>2
<1>6. e + 1 # 0
  OBVIOUS
<1> QED
  BY <1>0, <1>5, <1>6 DEF Balanced

----------------------------------------------------------------------------
(***************************************************************************)
(* The invariant of the module: the frames still to be transmitted are the *)
(* last of those given, the line is aligned with the ones before, and the  *)
(* accounts balance where the next byte is read.                           *)
(***************************************************************************)
Here == [frame |-> frame, flags |-> ctrlFlags]
Transmitted == Len(given) - Len(outFrames)

Framed ==
  /\ outFrames \in Seq(Frames) /\ given \in Seq(Frames)
  /\ line \in Seq(Bytes) /\ Here \in Decoder
  /\ delivered \in Seq(Seq(Bytes))
  /\ errors \in Nat /\ errors <= MaxErrors
  /\ Len(outFrames) <= Len(given)
  /\ \A i \in 1 .. Len(outFrames) : outFrames[i] = given[Transmitted + i]
  /\ \E at, bud : /\ Aligned(given, Transmitted, line, at, bud)
                  /\ Balanced(given, Here, at[1], bud[1], delivered, errors)

\* Frames can be sent: none is empty.
LEMMA FramesSendable ==
  /\ \A f \in Frames : f \in Seq(Bytes) \ {<< >>}
  /\ Seq(Frames) \subseteq Sendable
<1>1. \A f \in Frames : f \in Seq(Bytes) \ {<< >>}
  BY FramesAssumption
<1>2. ASSUME NEW s \in Seq(Frames) PROVE s \in Sendable
  BY <1>1 DEF Sendable
<1> QED
  BY <1>1, <1>2

\* It holds with nothing sent.
LEMMA FramedInit ==
  ASSUME Init
  PROVE  Framed
<1>1. /\ outFrames = << >> /\ line = << >> /\ frame = << >> /\ ctrlFlags = {}
      /\ delivered = << >> /\ given = << >> /\ errors = 0
  BY DEF Init
<1>2. Here = [frame |-> << >>, flags |-> Idle] /\ Here \in Decoder
  BY <1>1 DEF Here, Decoder, Idle
<1>3. Transmitted = 0
  BY <1>1 DEF Transmitted
<1> DEFINE at == [i \in 1 .. 1 |-> Out(1)]
<1> DEFINE bud == [i \in 1 .. 1 |-> 0]
<1>4. Out(1) \in Place /\ Out(1).side = "out" /\ Out(1).frame = 1
  BY DEF Out, Place
<1>5. at \in [1 .. 1 -> Place] /\ bud \in [1 .. 1 -> Nat] /\ at[1] = Out(1) /\ bud[1] = 0
  BY <1>4
<1> HIDE DEF at, bud
<1>6. Aligned(<< >>, 0, << >>, at, bud)
  <2>1. Len(<< >>) + 1 = 1 /\ 0 + 1 = 1 /\ 1 .. Len(<< >>) = {}
    OBVIOUS
  <2> QED
    BY <1>5, <2>1 DEF Aligned
<1>7. Balanced(<< >>, Here, at[1], bud[1], << >>, 0)
  <2>1. Debt(<< >>, Here, Out(1)) = 0 /\ Loss(<< >>, Here, Out(1)) = 0
    <3>1. InStep(<< >>, Here, Out(1))
      BY <1>2, <1>4 DEF InStep
    <3> QED
      BY <3>1 DEF Debt, Loss
  <2>2. Cardinality(IntactOf(<< >>, << >>)) = 0
    <3>1. IntactOf(<< >>, << >>) = {}
      BY DEF IntactOf
    <3> QED
      BY <3>1, FS_EmptySet
  <2>3. Len(<< >>) = 0 /\ SubSeq(<< >>, 1, 1 - 1) = << >>
    OBVIOUS
  <2> QED
    BY <1>4, <1>5, <2>1, <2>2, <2>3 DEF Balanced
<1>8. MaxErrors \in Nat
  BY SerialBoundsAssumption
<1> QED
  BY <1>1, <1>2, <1>3, <1>6, <1>7, <1>8 DEF Framed

\* A frame is given.
LEMMA FramedSendFrame ==
  ASSUME Framed, NEW f \in Frames, SendFrame(f)
  PROVE  Framed'
<1>0. PICK at, bud : /\ Aligned(given, Transmitted, line, at, bud)
                     /\ Balanced(given, Here, at[1], bud[1], delivered, errors)
  BY DEF Framed
<1>1. /\ given' = Append(given, f) /\ outFrames' = Append(outFrames, f)
      /\ line' = line /\ delivered' = delivered /\ errors' = errors /\ Here' = Here
  BY DEF SendFrame, Here
<1>2. /\ outFrames \in Seq(Frames) /\ given \in Seq(Frames) /\ line \in Seq(Bytes)
      /\ Here \in Decoder /\ delivered \in Seq(Seq(Bytes)) /\ errors \in Nat /\ errors <= MaxErrors
      /\ Len(outFrames) <= Len(given)
      /\ \A i \in 1 .. Len(outFrames) : outFrames[i] = given[Transmitted + i]
  BY DEF Framed
<1>3. given \in Sendable /\ f \in Seq(Bytes) \ {<< >>}
  BY <1>2, FramesSendable
<1> PICK gs, m, s : gs = given /\ m = Transmitted /\ s = Here
  OBVIOUS
<1>4. Transmitted' = m /\ m \in 0 .. Len(given)
  <2>1. Len(given') = Len(given) + 1 /\ Len(outFrames') = Len(outFrames) + 1
    BY <1>1, <1>2
  <2>2. Len(given) \in Nat /\ Len(outFrames) \in Nat
    BY <1>2
  <2> QED
    BY <1>2, <2>1, <2>2 DEF Transmitted
<1>5. Aligned(given', m, line, at, bud)
  BY <1>0, <1>1, <1>3, AlignedGiven
<1>6. Balanced(given', Here, at[1], bud[1], delivered, errors)
  <2>1. at[1] \in Place /\ bud[1] \in Nat /\ at[1].frame - 1 \in 0 .. Len(given)
        /\ (Inside(given, at[1]) \/ at[1].side = "out")
    BY <1>0, <1>2, <1>3, <1>4, FirstPlace
  <2> QED
    BY <1>0, <1>1, <1>2, <1>3, <2>1, BalancedGiven
<1>7. \A i \in 1 .. Len(outFrames') : outFrames'[i] = given'[m + i]
  <2>1. /\ Len(outFrames') = Len(outFrames) + 1 /\ Len(outFrames) \in Nat /\ Len(given) \in Nat
        /\ m = Len(given) - Len(outFrames)
    BY <1>1, <1>2 DEF Transmitted
  <2>2. ASSUME NEW i \in 1 .. Len(outFrames') PROVE outFrames'[i] = given'[m + i]
    <3>1. CASE i = Len(outFrames) + 1
      <4>1. m + i = Len(given) + 1
        BY <2>1, <3>1
      <4>2. outFrames'[i] = f /\ given'[Len(given) + 1] = f
        BY <1>1, <1>2, <3>1
      <4> QED
        BY <4>1, <4>2
    <3>2. CASE i # Len(outFrames) + 1
      <4>1. i \in 1 .. Len(outFrames) /\ m + i \in 1 .. Len(given)
        BY <1>4, <2>1, <3>2
      <4>2. outFrames'[i] = outFrames[i]
        BY <1>1, <1>2, <4>1
      <4>3. given'[m + i] = given[m + i]
        BY <1>1, <1>2, <4>1
      <4> QED
        BY <1>2, <4>1, <4>2, <4>3
    <3> QED
      BY <3>1, <3>2
  <2> QED
    BY <2>2
<1>8. outFrames' \in Seq(Frames) /\ given' \in Seq(Frames) /\ Len(outFrames') <= Len(given')
  <2>1. outFrames' \in Seq(Frames) /\ Len(outFrames') = Len(outFrames) + 1
    BY <1>1, <1>2
  <2>2. given' \in Seq(Frames) /\ Len(given') = Len(given) + 1
    BY <1>1, <1>2
  <2>3. Len(given) \in Nat /\ Len(outFrames) \in Nat
    BY <1>2
  <2> QED
    BY <1>2, <2>1, <2>2, <2>3
<1>9. \E a, b : /\ Aligned(given', Transmitted', line', a, b)
                /\ Balanced(given', Here', a[1], b[1], delivered', errors')
  BY <1>1, <1>4, <1>5, <1>6
<1> QED
  BY <1>1, <1>2, <1>4, <1>7, <1>8, <1>9 DEF Framed

\* A frame is written to the port.
LEMMA FramedTransmit ==
  ASSUME Framed, Transmit
  PROVE  Framed'
<1>0. PICK at, bud : /\ Aligned(given, Transmitted, line, at, bud)
                     /\ Balanced(given, Here, at[1], bud[1], delivered, errors)
  BY DEF Framed
<1>1. /\ outFrames # << >> /\ outFrames' = Tail(outFrames)
      /\ line' = line \o Encode(Head(outFrames))
      /\ given' = given /\ delivered' = delivered /\ errors' = errors /\ Here' = Here
  BY DEF Transmit, Here
<1>2. /\ outFrames \in Seq(Frames) /\ given \in Seq(Frames) /\ line \in Seq(Bytes)
      /\ Here \in Decoder /\ delivered \in Seq(Seq(Bytes)) /\ errors \in Nat /\ errors <= MaxErrors
      /\ Len(outFrames) <= Len(given)
      /\ \A i \in 1 .. Len(outFrames) : outFrames[i] = given[Transmitted + i]
  BY DEF Framed
<1>3. given \in Sendable
  BY <1>2, FramesSendable
<1>4. PICK m, n : m = Transmitted /\ n = Len(outFrames)
  OBVIOUS
<1>5. n \in Nat \ {0} /\ Len(given) \in Nat /\ m = Len(given) - n /\ n <= Len(given)
  BY <1>1, <1>2, <1>4, EmptySeq DEF Transmitted
<1>6. m \in Nat /\ m + 1 \in 1 .. Len(given) /\ 1 \in 1 .. n
  BY <1>5
<1>7. /\ Len(outFrames') = n - 1 /\ outFrames' \in Seq(Frames)
      /\ \A i \in 1 .. n - 1 : outFrames'[i] = outFrames[i + 1]
  BY <1>1, <1>2, <1>4
<1>8. Transmitted' = m + 1
  <2>1. Transmitted' = Len(given) - (n - 1)
    BY <1>1, <1>7 DEF Transmitted
  <2> QED
    BY <1>5, <2>1
<1>9. Head(outFrames) = given[m + 1]
  <2>1. Head(outFrames) = outFrames[1]
    BY <1>1, <1>2
  <2> QED
    BY <1>2, <1>4, <1>6, <2>1
<1>10. \A i \in 1 .. n - 1 : outFrames'[i] = given[(m + 1) + i]
  <2>1. ASSUME NEW i \in 1 .. n - 1 PROVE outFrames'[i] = given[(m + 1) + i]
    <3>1. i + 1 \in 1 .. n /\ m + (i + 1) = (m + 1) + i
      BY <1>5, <1>6
    <3>2. outFrames[i + 1] = given[m + (i + 1)]
      BY <1>2, <1>4, <3>1
    <3> QED
      BY <1>7, <3>1, <3>2
  <2> QED
    BY <2>1
<1>11. Encode(given[m + 1]) \in Seq(Bytes) /\ line' \in Seq(Bytes)
  <2>1. Encode(given[m + 1]) \in Seq(Bytes)
    BY <1>3, <1>6, WayFrame
  <2> QED
    BY <1>1, <1>2, <1>9, <2>1, ConcatProperties
<1>12. PICK at2, bud2 : /\ Aligned(given, m + 1, line \o Encode(given[m + 1]), at2, bud2)
                        /\ at2[1] = at[1] /\ bud2[1] = bud[1]
  BY <1>0, <1>2, <1>3, <1>4, <1>6, AlignedSent
<1>13. /\ Aligned(given', Transmitted', line', at2, bud2)
       /\ Balanced(given', Here', at2[1], bud2[1], delivered', errors')
  BY <1>0, <1>1, <1>8, <1>9, <1>12
<1>14. Len(outFrames') <= Len(given')
  BY <1>1, <1>5, <1>7
<1>15. \A i \in 1 .. Len(outFrames') : outFrames'[i] = given'[Transmitted' + i]
  BY <1>1, <1>7, <1>8, <1>10
<1> QED
  BY <1>1, <1>2, <1>7, <1>11, <1>13, <1>14, <1>15 DEF Framed

\* What ReadByte does, by the decoder's step.
LEMMA ReadByteIs ==
  ASSUME ReadByte
  PROVE  /\ line # << >> /\ line' = Tail(line)
         /\ Here' = Read(Here, Head(line))
         /\ delivered' = IF Ready(Here, Head(line))
                         THEN Append(delivered, Read(Here, Head(line)).frame) ELSE delivered
         /\ outFrames' = outFrames /\ given' = given /\ errors' = errors
<1>1. PICK t : t = ParseSerialData(Here, Head(line))
  OBVIOUS
<1>2. /\ line # << >> /\ line' = Tail(line)
      /\ frame' = t.frame /\ ctrlFlags' = t.flags \ {cfFrameReady}
      /\ delivered' = IF cfFrameReady \in t.flags THEN Append(delivered, t.frame) ELSE delivered
      /\ outFrames' = outFrames /\ given' = given /\ errors' = errors
  BY <1>1 DEF ReadByte, Here
<1>3. Read(Here, Head(line)) = [frame |-> t.frame, flags |-> t.flags \ {cfFrameReady}]
  BY <1>1 DEF Read
<1>4. Ready(Here, Head(line)) <=> cfFrameReady \in t.flags
  BY <1>1 DEF Ready
<1>5. Here' = [frame |-> frame', flags |-> ctrlFlags']
  BY DEF Here
<1>6. Read(Here, Head(line)).frame = t.frame
  BY <1>3
<1> QED
  BY <1>2, <1>3, <1>4, <1>5, <1>6

\* A byte is read.
LEMMA FramedReadByte ==
  ASSUME Framed, ReadByte
  PROVE  Framed'
<1>0. PICK at, bud : /\ Aligned(given, Transmitted, line, at, bud)
                     /\ Balanced(given, Here, at[1], bud[1], delivered, errors)
  BY DEF Framed
<1>1. PICK b : b = Head(line)
  OBVIOUS
<1>2. /\ line # << >> /\ line' = Tail(line) /\ Here' = Read(Here, b)
      /\ delivered' = IF Ready(Here, b) THEN Append(delivered, Read(Here, b).frame) ELSE delivered
      /\ outFrames' = outFrames /\ given' = given /\ errors' = errors
  BY <1>1, ReadByteIs
<1>3. /\ outFrames \in Seq(Frames) /\ given \in Seq(Frames) /\ line \in Seq(Bytes)
      /\ Here \in Decoder /\ delivered \in Seq(Seq(Bytes)) /\ errors \in Nat /\ errors <= MaxErrors
      /\ Len(outFrames) <= Len(given)
      /\ \A i \in 1 .. Len(outFrames) : outFrames[i] = given[Transmitted + i]
  BY DEF Framed
<1>4. given \in Sendable
  BY <1>3, FramesSendable
<1>5. Tail(line) \in Seq(Bytes) /\ b \in Bytes
  BY <1>1, <1>2, <1>3
<1>6. Transmitted' = Transmitted
  BY <1>2 DEF Transmitted
<1>7. /\ Inside(given, at[1]) /\ at[2] \in Place /\ bud[1] \in Nat /\ bud[2] \in Nat
      /\ Follows(given, b, at[1], at[2], bud[1] - bud[2])
      /\ \E at2, bud2 : /\ Aligned(given, Transmitted, Tail(line), at2, bud2)
                        /\ at2[1] = at[2] /\ bud2[1] = bud[2]
  BY <1>0, <1>1, <1>2, <1>3, <1>4, AlignedRead
<1>8. PICK at2, bud2 : /\ Aligned(given, Transmitted, Tail(line), at2, bud2)
                       /\ at2[1] = at[2] /\ bud2[1] = bud[2]
  BY <1>7
<1>9. PICK gs, s, p, q, x, y, d, e, c :
        /\ gs = given /\ s = Here /\ p = at[1] /\ q = at[2] /\ x = bud[1] /\ y = bud[2]
        /\ d = delivered /\ e = errors /\ c = delivered'
  OBVIOUS
<1>10. c \in Seq(Seq(Bytes)) /\ Balanced(gs, Read(s, b), q, y, c, e)
  <2>1. gs \in Sendable /\ s \in Decoder /\ d \in Seq(Seq(Bytes)) /\ e \in Nat
    BY <1>3, <1>4, <1>9
  <2>2. Inside(gs, p) /\ q \in Place /\ x \in Nat /\ y \in Nat /\ Follows(gs, b, p, q, x - y)
    BY <1>7, <1>9
  <2>3. Balanced(gs, s, p, x, d, e)
    BY <1>0, <1>9
  <2>4. c = IF Ready(s, b) THEN Append(d, Read(s, b).frame) ELSE d
    BY <1>2, <1>9
  <2> QED
    BY <1>5, <2>1, <2>2, <2>3, <2>4, BalancedRead
<1>11. Balanced(given', Here', at2[1], bud2[1], delivered', errors')
  BY <1>2, <1>8, <1>9, <1>10
<1>12. Here' \in Decoder
  BY <1>2, <1>3, <1>5, DecoderType
<1>13. Aligned(given', Transmitted', line', at2, bud2)
  BY <1>2, <1>6, <1>8
<1>14. \A i \in 1 .. Len(outFrames') : outFrames'[i] = given'[Transmitted' + i]
  BY <1>2, <1>3, <1>6
<1>15. delivered' \in Seq(Seq(Bytes))
  BY <1>9, <1>10
<1> QED
  BY <1>2, <1>3, <1>5, <1>11, <1>12, <1>13, <1>14, <1>15 DEF Framed

\* The line damages a byte.
LEMMA FramedLineError ==
  ASSUME Framed, LineError
  PROVE  Framed'
<1>0. PICK at, bud : /\ Aligned(given, Transmitted, line, at, bud)
                     /\ Balanced(given, Here, at[1], bud[1], delivered, errors)
  BY DEF Framed
<1>1. /\ errors < MaxErrors /\ errors' = errors + 1
      /\ outFrames' = outFrames /\ given' = given /\ delivered' = delivered /\ Here' = Here
  BY DEF LineError, Here
<1>2. PICK i \in DOMAIN line :
        \/ line' = RemoveAt(line, i)
        \/ \E b \in Bytes \ {line[i]} : line' = ReplaceAt(line, i, b)
        \/ \E b \in Bytes : line' = InsertAt(line, i, b)
  BY DEF LineError
<1>3. /\ outFrames \in Seq(Frames) /\ given \in Seq(Frames) /\ line \in Seq(Bytes)
      /\ Here \in Decoder /\ delivered \in Seq(Seq(Bytes)) /\ errors \in Nat /\ errors <= MaxErrors
      /\ Len(outFrames) <= Len(given)
      /\ \A j \in 1 .. Len(outFrames) : outFrames[j] = given[Transmitted + j]
  BY DEF Framed
<1>4. given \in Sendable /\ i \in 1 .. Len(line)
  <2>1. given \in Sendable
    BY <1>3, FramesSendable
  <2>2. DOMAIN line = 1 .. Len(line)
    BY <1>3
  <2> QED
    BY <2>1, <2>2
<1>5. PICK m, gs : m = Transmitted /\ gs = given
  OBVIOUS
<1>6. line' \in Seq(Bytes) /\ Damaged(gs, m, line', at, bud)
  <2>1. Aligned(gs, m, line, at, bud) /\ gs \in Sendable
    BY <1>0, <1>4, <1>5
  <2>2. CASE line' = RemoveAt(line, i)
    <3>1. RemoveAt(line, i) \in Seq(Bytes)
      BY <1>3, <1>4, RemovedByte
    <3> QED
      BY <1>3, <1>4, <2>1, <2>2, <3>1, AlignedRemoved
  <2>3. ASSUME NEW b \in Bytes, line' = ReplaceAt(line, i, b)
        PROVE  line' \in Seq(Bytes) /\ Damaged(gs, m, line', at, bud)
    <3>1. ReplaceAt(line, i, b) \in Seq(Bytes)
      BY <1>3, <1>4, ReplacedByte
    <3> QED
      BY <1>3, <1>4, <2>1, <2>3, <3>1, AlignedReplaced
  <2>4. ASSUME NEW b \in Bytes, line' = InsertAt(line, i, b)
        PROVE  line' \in Seq(Bytes) /\ Damaged(gs, m, line', at, bud)
    <3>1. InsertAt(line, i, b) \in Seq(Bytes)
      BY <1>3, <1>4, InsertedByte
    <3> QED
      BY <1>3, <1>4, <2>1, <2>4, <3>1, AlignedInserted
  <2> QED
    BY <1>2, <2>2, <2>3, <2>4
<1>7. PICK at2, bud2 :
        /\ Aligned(gs, m, line', at2, bud2)
        /\ \/ at2[1] = at[1] /\ bud2[1] = bud[1] + 1
           \/ Jump(at[1], at2[1], (bud[1] + 1) - bud2[1])
  BY <1>6 DEF Damaged
<1>8. Transmitted' = m /\ m \in 0 .. Len(gs)
  <2>1. Transmitted' = m /\ m = Len(given) - Len(outFrames)
    BY <1>1, <1>5 DEF Transmitted
  <2>2. Len(given) \in Nat /\ Len(outFrames) \in Nat /\ Len(outFrames) <= Len(given)
    BY <1>3
  <2> QED
    BY <1>5, <2>1, <2>2
<1>9. at[1] \in Place /\ bud[1] \in Nat
  BY <1>0, <1>3, <1>4, <1>5, <1>8, FirstPlace
<1>10. at2[1] \in Place /\ bud2[1] \in Nat
  <2>1. gs \in Sendable
    BY <1>4, <1>5
  <2> QED
    BY <1>6, <1>7, <1>8, <2>1, FirstPlace
<1>11. Balanced(gs, Here, at2[1], bud2[1], delivered, errors + 1)
  <2>1. PICK s, p, q, x, y, d, e :
          /\ s = Here /\ p = at[1] /\ q = at2[1] /\ x = bud[1] /\ y = bud2[1]
          /\ d = delivered /\ e = errors
    OBVIOUS
  <2>2. s \in Decoder /\ p \in Place /\ q \in Place /\ x \in Nat /\ y \in Nat
        /\ d \in Seq(Seq(Bytes)) /\ e \in Nat
    BY <1>3, <1>9, <1>10, <2>1
  <2>3. (q = p /\ y = x + 1) \/ Jump(p, q, (x + 1) - y)
    BY <1>7, <2>1
  <2>4. Balanced(gs, s, p, x, d, e)
    BY <1>0, <1>5, <2>1
  <2>5. Balanced(gs, s, q, y, d, e + 1)
    BY <2>2, <2>3, <2>4, BalancedDamaged
  <2> QED
    BY <2>1, <2>5
<1>12. /\ Aligned(given', Transmitted', line', at2, bud2)
       /\ Balanced(given', Here', at2[1], bud2[1], delivered', errors')
  BY <1>1, <1>5, <1>7, <1>8, <1>11
<1>13. \A j \in 1 .. Len(outFrames') : outFrames'[j] = given'[Transmitted' + j]
  BY <1>1, <1>3, <1>5, <1>8
<1>14. errors' \in Nat /\ errors' <= MaxErrors
  <2>1. MaxErrors \in Nat
    BY SerialBoundsAssumption
  <2> QED
    BY <1>1, <1>3, <2>1
<1> QED
  BY <1>1, <1>3, <1>6, <1>12, <1>13, <1>14 DEF Framed

\* So it holds in every state.
THEOREM FramingInvariant == Spec => []Framed
<1>1. Init => Framed
  BY FramedInit
<1>2. Framed /\ [Next]_vars => Framed'
  <2> SUFFICES ASSUME Framed, [Next]_vars PROVE Framed'
    OBVIOUS
  <2>1. ASSUME NEW f \in Frames, SendFrame(f) PROVE Framed'
    BY <2>1, FramedSendFrame
  <2>2. CASE Transmit
    BY <2>2, FramedTransmit
  <2>3. CASE ReadByte
    BY <2>3, FramedReadByte
  <2>4. CASE LineError
    BY <2>4, FramedLineError
  <2>5. CASE UNCHANGED vars
    BY <2>5 DEF Framed, Transmitted, Here, vars
  <2> QED
    BY <2>1, <2>2, <2>3, <2>4, <2>5 DEF Next
<1> QED
  BY <1>1, <1>2, PTL DEF Spec

----------------------------------------------------------------------------
(***************************************************************************)
(* What follows.                                                           *)
(***************************************************************************)
\* What the invariant says of the frames given and transmitted.
LEMMA FramedCounts ==
  ASSUME Framed
  PROVE  /\ given \in Sendable /\ line \in Seq(Bytes)
         /\ Transmitted \in 0 .. Len(given)
<1>1. given \in Seq(Frames) /\ outFrames \in Seq(Frames) /\ line \in Seq(Bytes)
      /\ Len(outFrames) <= Len(given)
  BY DEF Framed
<1>2. Len(given) \in Nat /\ Len(outFrames) \in Nat
  BY <1>1
<1> QED
  BY <1>1, <1>2, FramesSendable DEF Transmitted

\* TypeOK: the decoder of parseSerialData() is always outside a frame, in one,
\* or in one with an escape pending, whatever the line does to the bytes.
THEOREM TypeCorrect == Spec => []TypeOK
<1>1. Framed => TypeOK
  <2>1. SUFFICES ASSUME Framed PROVE TypeOK
    OBVIOUS
  <2>2. line \in Seq(Bytes) /\ Here \in Decoder
    BY <2>1 DEF Framed
  <2>3. frame \in Seq(Bytes) /\ ctrlFlags \in {Idle, Open, Pending}
    BY <2>2 DEF Here, Decoder
  <2> QED
    BY <2>2, <2>3 DEF TypeOK, Idle, Open, Pending
<1> QED
  BY <1>1, FramingInvariant, PTL

\* BoundedGarbage: a damaged byte makes parseSerialData() hand on at most two
\* frames that nobody sent, for frames of any bytes and any number of errors.
THEOREM GarbageIsBounded == Spec => []BoundedGarbage
<1>1. Framed => BoundedGarbage
  <2>1. SUFFICES ASSUME Framed PROVE BoundedGarbage
    OBVIOUS
  <2>2. PICK at, bud : /\ Aligned(given, Transmitted, line, at, bud)
                       /\ Balanced(given, Here, at[1], bud[1], delivered, errors)
    BY <2>1 DEF Framed
  <2>3. /\ Here \in Decoder /\ at[1] \in Place /\ bud[1] \in Nat
        /\ delivered \in Seq(Seq(Bytes)) /\ errors \in Nat
    <3>1. Here \in Decoder /\ delivered \in Seq(Seq(Bytes)) /\ errors \in Nat
      BY <2>1 DEF Framed
    <3>2. /\ given \in Sendable /\ line \in Seq(Bytes) /\ Transmitted \in 0 .. Len(given)
      BY <2>1, FramedCounts
    <3>3. at[1] \in Place /\ bud[1] \in Nat
      BY <2>2, <3>2, FirstPlace
    <3> QED
      BY <3>1, <3>3
  <2>4. PICK I, D, t, b : /\ I = Cardinality(IntactOf(given, delivered)) /\ D = Len(delivered)
                          /\ t = Debt(given, Here, at[1]) /\ b = bud[1]
    OBVIOUS
  <2>5. I \in Nat /\ D \in Nat /\ t \in Nat /\ b \in Nat
    <3>1. I \in Nat /\ D \in Nat
      BY <2>3, <2>4, IntactSize
    <3>2. t \in Nat
      BY <2>3, <2>4, DebtTable
    <3> QED
      BY <2>3, <2>4, <3>1, <3>2
  <2>6. (D - I) + t + 2 * b <= 2 * errors
    BY <2>2, <2>4 DEF Balanced
  <2>7. D - I <= 2 * errors
    BY <2>3, <2>5, <2>6
  <2> QED
    BY <2>4, <2>7 DEF BoundedGarbage, Intact, IntactOf
<1> QED
  BY <1>1, FramingInvariant, PTL

\* BoundedDamage: a damaged byte costs at most two of the frames given to
\* sendFrame(), for frames of any bytes and any number of errors and of frames.
THEOREM DamageIsBounded == Spec => []BoundedDamage
<1>1. Framed => BoundedDamage
  <2>1. SUFFICES ASSUME Framed, Drained
                 PROVE  Len(given) - Cardinality(Intact) <= 2 * errors
    BY DEF BoundedDamage
  <2>2. PICK at, bud : /\ Aligned(given, Transmitted, line, at, bud)
                       /\ Balanced(given, Here, at[1], bud[1], delivered, errors)
    BY <2>1 DEF Framed
  <2>3. given \in Sendable /\ Len(given) \in Nat /\ errors \in Nat /\ Here \in Decoder
        /\ delivered \in Seq(Seq(Bytes))
    BY <2>1, FramesSendable DEF Framed
  <2>4. Transmitted = Len(given)
    BY <2>1, <2>3 DEF Drained, Transmitted
  <2>5. /\ at[1] \in Place /\ bud[1] \in Nat /\ at[1] = Out(Len(given) + 1)
    <3>1. line \in Seq(Bytes) /\ line = << >> /\ Transmitted \in 0 .. Len(given)
      BY <2>1, <2>3, <2>4 DEF Drained
    <3> QED
      BY <2>2, <2>3, <2>4, <3>1, FirstPlace
  <2>6. PICK I, L, b, n : /\ I = Cardinality(IntactOf(given, delivered)) /\ n = Len(given)
                          /\ L = Loss(given, Here, at[1]) /\ b = bud[1]
    OBVIOUS
  <2>7. I \in Nat /\ L \in Nat /\ b \in Nat /\ n \in Nat
    <3>1. I \in Nat
      BY <2>3, <2>6, IntactSize
    <3>2. L \in Nat
      BY <2>3, <2>5, <2>6, DebtTable
    <3> QED
      BY <2>3, <2>5, <2>6, <3>1, <3>2
  <2>8. at[1].frame = n + 1
    BY <2>5, <2>6 DEF Out
  <2>9. ((n + 1) - I) + L + 2 * b <= 2 * errors + 1
    BY <2>2, <2>6, <2>8 DEF Balanced
  <2>10. n - I <= 2 * errors
    BY <2>3, <2>7, <2>9
  <2> QED
    BY <2>6, <2>10 DEF Intact, IntactOf
<1> QED
  BY <1>1, FramingInvariant, PTL

\* The frames delivered are the first of those given.
InOrder ==
  /\ Len(delivered) \in 0 .. Len(given)
  /\ \A i \in 1 .. Len(delivered) : delivered[i] = given[i]

\* Over a line without errors, what is delivered are the first frames given.
LEMMA DeliveredInOrder ==
  ASSUME Framed, MaxErrors = 0
  PROVE  /\ Len(delivered) \in 0 .. Len(given)
         /\ \A i \in 1 .. Len(delivered) : delivered[i] = given[i]
<1>1. PICK at, bud : /\ Aligned(given, Transmitted, line, at, bud)
                     /\ Balanced(given, Here, at[1], bud[1], delivered, errors)
  BY DEF Framed
<1>2. errors = 0
  BY DEF Framed
<1>3. /\ given \in Sendable /\ given \in Seq(Frames) /\ line \in Seq(Bytes)
      /\ Transmitted \in 0 .. Len(given)
  BY FramedCounts DEF Framed
<1>4. at[1].frame - 1 \in 0 .. Len(given)
  BY <1>1, <1>3, FirstPlace
<1>5. PICK k : k = at[1].frame - 1
  OBVIOUS
<1>6. delivered = SubSeq(given, 1, k) /\ k \in 0 .. Len(given)
  BY <1>1, <1>2, <1>4, <1>5 DEF Balanced
<1>7. Len(SubSeq(given, 1, k)) = k /\ \A i \in 1 .. k : SubSeq(given, 1, k)[i] = given[i]
  BY <1>3, <1>6
<1> QED
  BY <1>6, <1>7

\* A frame put at the end of a queue that is the end of a sequence.
LEMMA QueueGrows ==
  ASSUME NEW S, NEW s \in Seq(S), NEW x \in S, NEW k \in 0 .. Len(s)
  PROVE  SubSeq(Append(s, x), k + 1, Len(s) + 1) = Append(SubSeq(s, k + 1, Len(s)), x)
<1>0. PICK n, t, u, v : /\ n = Len(s) /\ t = Append(s, x) /\ u = SubSeq(t, k + 1, n + 1)
                        /\ v = SubSeq(s, k + 1, n)
  OBVIOUS
<1>1. n \in Nat /\ k \in 0 .. n /\ t \in Seq(S) /\ Len(t) = n + 1
  BY <1>0
<1>2. t[n + 1] = x /\ \A i \in 1 .. n : t[i] = s[i]
  BY <1>0
<1>3. u \in Seq(S) /\ Len(u) = (n + 1) - k /\ \A i \in 1 .. (n + 1) - k : u[i] = t[(k + 1) + i - 1]
  BY <1>0, <1>1
<1>4. v \in Seq(S) /\ Len(v) = n - k /\ \A i \in 1 .. n - k : v[i] = s[(k + 1) + i - 1]
  <2>1. v = SubSeq(s, k + 1, n) /\ n = Len(s)
    BY <1>0
  <2> QED
    BY <1>1, <2>1
<1>5. PICK w : w = Append(v, x)
  OBVIOUS
<1>6. /\ w \in Seq(S) /\ Len(w) = (n - k) + 1 /\ w[(n - k) + 1] = x
      /\ \A i \in 1 .. n - k : w[i] = v[i]
  <2>1. w \in Seq(S) /\ Len(w) = Len(v) + 1 /\ w[Len(v) + 1] = x
        /\ \A i \in 1 .. Len(v) : w[i] = v[i]
    BY <1>4, <1>5
  <2>2. Len(v) = n - k
    BY <1>4
  <2> QED
    BY <2>1, <2>2
<1>7. ASSUME NEW i \in 1 .. (n + 1) - k PROVE u[i] = w[i]
  <2>1. CASE i = (n - k) + 1
    <3>1. (k + 1) + i - 1 = n + 1
      BY <1>1, <2>1
    <3> QED
      BY <1>2, <1>3, <1>6, <2>1, <3>1
  <2>2. CASE i # (n - k) + 1
    <3>1. i \in 1 .. n - k /\ (k + 1) + i - 1 \in 1 .. n
      BY <1>1, <2>2
    <3>2. u[i] = t[(k + 1) + i - 1] /\ t[(k + 1) + i - 1] = s[(k + 1) + i - 1]
      BY <1>2, <1>3, <3>1
    <3>3. w[i] = v[i] /\ v[i] = s[(k + 1) + i - 1]
      BY <1>4, <1>6, <3>1
    <3> QED
      BY <3>2, <3>3
  <2> QED
    BY <2>1, <2>2
<1>8. Len(u) = (n + 1) - k /\ Len(w) = (n + 1) - k
  BY <1>1, <1>3, <1>6
<1>9. u = w
  BY <1>3, <1>6, <1>7, <1>8, SeqEqual
<1> QED
  BY <1>0, <1>5, <1>9

\* A frame taken from the front of such a queue.
LEMMA QueueShrinks ==
  ASSUME NEW S, NEW s \in Seq(S), NEW k \in Nat, k + 1 \in 1 .. Len(s)
  PROVE  /\ SubSeq(s, k + 1, Len(s)) # << >>
         /\ Head(SubSeq(s, k + 1, Len(s))) = s[k + 1]
         /\ Tail(SubSeq(s, k + 1, Len(s))) = SubSeq(s, (k + 1) + 1, Len(s))
<1>0. PICK n, u, v : n = Len(s) /\ u = SubSeq(s, k + 1, n) /\ v = SubSeq(s, (k + 1) + 1, n)
  OBVIOUS
<1>1. n \in Nat /\ k + 1 \in 1 .. n
  BY <1>0
<1>2. u \in Seq(S) /\ Len(u) = n - k /\ \A i \in 1 .. n - k : u[i] = s[(k + 1) + i - 1]
  BY <1>0, <1>1
<1>3. v \in Seq(S) /\ Len(v) = n - (k + 1)
      /\ \A i \in 1 .. n - (k + 1) : v[i] = s[((k + 1) + 1) + i - 1]
  BY <1>0, <1>1
<1>4. Len(u) # 0 /\ u # << >>
  <2>1. Len(u) # 0
    BY <1>1, <1>2
  <2> QED
    BY <2>1
<1>5. Head(u) = s[k + 1]
  <2>1. 1 \in 1 .. n - k /\ (k + 1) + 1 - 1 = k + 1
    BY <1>1
  <2>2. Head(u) = u[1]
    BY <1>2, <1>4
  <2> QED
    BY <1>2, <2>1, <2>2
<1>6. PICK w : w = Tail(u)
  OBVIOUS
<1>7. w \in Seq(S) /\ Len(w) = n - (k + 1) /\ \A i \in 1 .. n - (k + 1) : w[i] = u[i + 1]
  <2>1. w \in Seq(S) /\ Len(w) = Len(u) - 1 /\ \A i \in 1 .. Len(u) - 1 : w[i] = u[i + 1]
    BY <1>2, <1>4, <1>6
  <2>2. Len(u) - 1 = n - (k + 1)
    BY <1>1, <1>2
  <2> QED
    BY <2>1, <2>2
<1>8. ASSUME NEW i \in 1 .. n - (k + 1) PROVE w[i] = v[i]
  <2>1. i + 1 \in 1 .. n - k /\ (k + 1) + (i + 1) - 1 = ((k + 1) + 1) + i - 1
    BY <1>1
  <2> QED
    BY <1>2, <1>3, <1>7, <2>1
<1>9. w = v
  BY <1>3, <1>7, <1>8, SeqEqual
<1> QED
  BY <1>0, <1>4, <1>5, <1>6, <1>9

\* IsFrameChannel, its safety part: over a line without errors run() and
\* parseSerialData() together are a channel, for frames of any bytes.
THEOREM FramingIsTransparent ==
  ASSUME MaxErrors = 0
  PROVE  Spec => Channel!SafeSpec
<1>1. Init => Channel!Init
  BY DEF Init, Channel!Init
<1>2. Framed => InOrder
  BY DeliveredInOrder DEF InOrder
<1>3. Framed /\ InOrder /\ InOrder' /\ [Next]_vars => [Channel!Next]_(Channel!vars)
  <2> SUFFICES ASSUME Framed, InOrder, InOrder', [Next]_vars PROVE [Channel!Next]_(Channel!vars)
    OBVIOUS
  <2>1. PICK g, d, n, k : g = given /\ d = delivered /\ n = Len(given) /\ k = Len(delivered)
    OBVIOUS
  <2>2. /\ g \in Seq(Frames) /\ d \in Seq(Seq(Bytes)) /\ n \in Nat /\ k \in 0 .. n
        /\ n = Len(g) /\ k = Len(d)
    BY <2>1 DEF Framed, InOrder
  <2>3. CASE given' = given /\ delivered' = delivered
    BY <2>3 DEF Channel!vars
  <2>4. ASSUME NEW f \in Frames, SendFrame(f) PROVE Channel!Send(f)
    <3>1. given' = Append(g, f) /\ delivered' = d
      BY <2>1, <2>4 DEF SendFrame
    <3>2. SubSeq(Append(g, f), k + 1, n + 1) = Append(SubSeq(g, k + 1, n), f)
      BY <2>2, <2>4, QueueGrows
    <3>3. Len(given') = n + 1
      BY <2>2, <3>1
    <3> QED
      BY <2>1, <3>1, <3>2, <3>3 DEF Channel!Send
  <2>5. ASSUME ReadByte, delivered' # delivered PROVE Channel!Deliver
    <3>1. PICK x : delivered' = Append(d, x)
      BY <2>1, <2>5, ReadByteIs
    <3>2. given' = g
      BY <2>1, <2>5 DEF ReadByte
    <3>3. /\ Len(delivered') \in 0 .. Len(given')
          /\ \A i \in 1 .. Len(delivered') : delivered'[i] = given'[i]
      BY DEF InOrder
    <3>4. Len(delivered') = k + 1 /\ delivered'[k + 1] = x
      BY <2>2, <3>1
    <3>5. k + 1 \in 1 .. n /\ x = g[k + 1]
      BY <2>2, <3>2, <3>3, <3>4
    <3>6. /\ SubSeq(g, k + 1, n) # << >>
          /\ Head(SubSeq(g, k + 1, n)) = x
          /\ Tail(SubSeq(g, k + 1, n)) = SubSeq(g, (k + 1) + 1, n)
      BY <2>2, <3>5, QueueShrinks
    <3> QED
      BY <2>1, <3>1, <3>2, <3>4, <3>6 DEF Channel!Deliver
  <2>6. CASE ReadByte
    <3>1. given' = given
      BY <2>6 DEF ReadByte
    <3> QED
      BY <2>3, <2>5, <2>6, <3>1 DEF Channel!Next
  <2>7. CASE Transmit \/ LineError
    BY <2>3, <2>7 DEF Transmit, LineError
  <2>8. CASE UNCHANGED vars
    BY <2>3, <2>8 DEF vars
  <2> QED
    BY <2>4, <2>6, <2>7, <2>8 DEF Next, Channel!Next
<1> QED
  BY <1>1, <1>2, <1>3, FramingInvariant, PTL DEF Spec, Channel!SafeSpec
=============================================================================
