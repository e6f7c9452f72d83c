---------------------- MODULE QkConnectionManagerProofs ----------------------
(***************************************************************************)
(* Proofs about QkConnectionManager, for all ports and baud rates and for  *)
(* every number of connections and of calls within one another.            *)
(***************************************************************************)
EXTENDS QkConnectionManager, SequenceTheorems, TLAPS

----------------------------------------------------------------------------
(***************************************************************************)
(* Lemmas about the calls of the application thread.                       *)
(***************************************************************************)

\* A call puts a frame on top and leaves the others.
LEMMA PushFacts ==
  ASSUME NEW s \in Seq(Frame), NEW f \in Frame
  PROVE  /\ Append(s, f) \in Seq(Frame)
         /\ Len(Append(s, f)) = Len(s) + 1
         /\ \A i \in 1 .. Len(s) : Append(s, f)[i] = s[i]
         /\ Append(s, f)[Len(s) + 1] = f
BY AppendProperties

\* A return takes the top frame away and leaves the others.
LEMMA PopFacts ==
  ASSUME stack \in Seq(Frame), stack # << >>
  PROVE  /\ Len(stack) \in Nat \ {0}
         /\ Top \in Frame
         /\ Pop \in Seq(Frame)
         /\ Len(Pop) = Len(stack) - 1
         /\ \A i \in 1 .. Len(Pop) : Pop[i] = stack[i]
<1> DEFINE n == Len(stack) - 1
<1>1. Len(stack) \in Nat \ {0}
  BY EmptySeq, LenProperties
<1>2. Top \in Frame
  BY <1>1, ElementOfSeq DEF Top
<1>3. /\ n \in Nat
      /\ Pop = SubSeq(stack, 1, n)
      /\ \A i \in 1 .. n : stack[i] \in Frame
  BY <1>1, ElementOfSeq DEF Pop
<1> HIDE DEF n
<1>4. /\ Pop \in Seq(Frame)
      /\ Len(Pop) = n
      /\ \A i \in 1 .. n : Pop[i] = stack[i]
  BY <1>3, SubSeqProperties
<1> QED
  BY <1>1, <1>2, <1>4 DEF n

\* Within a call the top frame moves on and the others stay.
LEMMA GoesOnFacts ==
  ASSUME stack \in Seq(Frame), stack # << >>, NEW in \in Emitting \cup Blocking
  PROVE  /\ GoesOn(in) \in Seq(Frame)
         /\ Len(GoesOn(in)) = Len(stack)
         /\ \A i \in 1 .. Len(stack) - 1 : GoesOn(in)[i] = stack[i]
         /\ GoesOn(in)[Len(stack)] = Call(in, Top.conn)
<1>1. Call(in, Top.conn) \in Frame
  BY PopFacts DEF Call, Frame
<1> QED
  BY <1>1, PopFacts, PushFacts DEF GoesOn

----------------------------------------------------------------------------
(***************************************************************************)
(* Type correctness.                                                       *)
(***************************************************************************)

\* The types hold at the start.
LEMMA TypeInit == Init => TypeOK
BY ManagerAssumption, EmptySeq DEF Init, TypeOK, Created, Ids

\* The created connections are the numbers up to the last one.
LEMMA CreatedIds ==
  ASSUME TypeOK
  PROVE  Created = 1 .. Len(desc) /\ Created \subseteq Ids
BY ManagerAssumption, LenProperties DEF TypeOK, Created, Ids

\* A call keeps the types if nothing but the stack and one thread's flags change.
LEMMA TypePush ==
  ASSUME TypeOK, NEW in \in Emitting \cup Blocking, NEW c \in Created,
         stack # << >> => Top.in \in Emitting, stack' = Push(in, c),
         UNCHANGED <<desc, listed, thread, deleted, revived>>,
         mQuit' \in [Ids -> BOOLEAN], exited' \in [Ids -> BOOLEAN]
  PROVE  TypeOK'
<1>1. Call(in, c) \in Frame /\ Call(in, c).conn = c
  BY CreatedIds DEF Call, Frame
<1>2. stack \in Seq(Frame) /\ DOMAIN stack = 1 .. Len(stack) /\ Len(stack) \in Nat
  BY LenProperties DEF TypeOK
<1>3. /\ stack' \in Seq(Frame)
      /\ Len(stack') = Len(stack) + 1
      /\ \A i \in 1 .. Len(stack) : stack'[i] = stack[i]
      /\ stack'[Len(stack) + 1] = Call(in, c)
      /\ DOMAIN stack' = 1 .. Len(stack')
  BY <1>1, <1>2, PushFacts, LenProperties DEF Push
<1>4. \A i \in 1 .. Len(stack') - 1 : stack'[i].in \in Emitting
  <2> TAKE i \in 1 .. Len(stack') - 1
  <2>1. i \in 1 .. Len(stack) /\ stack'[i] = stack[i]
    BY <1>2, <1>3
  <2>2. CASE i = Len(stack)
    <3>1. stack # << >>
      BY <2>2, <2>1, <1>2, EmptySeq
    <3> QED
      BY <3>1, <2>1, <2>2 DEF Top
  <2>3. CASE i # Len(stack)
    <3>1. i \in 1 .. Len(stack) - 1
      <4>1. Len(stack) \in Nat /\ i \in 1 .. Len(stack)
        BY <1>2, <2>1
      <4> QED
        BY <4>1, <2>3
    <3> QED
      BY <3>1, <2>1 DEF TypeOK
  <2> QED
    BY <2>2, <2>3
<1>5. \A i \in DOMAIN stack' : stack'[i].conn \in Created'
  BY <1>1, <1>2, <1>3 DEF TypeOK, Created
<1> QED
  BY <1>3, <1>4, <1>5 DEF TypeOK, Created

\* So does a return.
LEMMA TypePop ==
  ASSUME TypeOK, stack # << >>, stack' = Pop, UNCHANGED desc,
         listed' \subseteq listed, deleted' \subseteq Created, revived' \subseteq Created,
         thread' \in [Ids -> {"off", "run", "reset", "early", "loop", "serve", "exec"}],
         \A c \in Ids \ Created : thread'[c] = "off",
         mQuit' \in [Ids -> BOOLEAN], exited' \in [Ids -> BOOLEAN]
  PROVE  TypeOK'
<1>1. stack \in Seq(Frame) /\ DOMAIN stack = 1 .. Len(stack)
  BY LenProperties DEF TypeOK
<1>2. /\ Len(stack) \in Nat \ {0}
      /\ stack' \in Seq(Frame)
      /\ Len(stack') = Len(stack) - 1
      /\ \A i \in 1 .. Len(stack') : stack'[i] = stack[i]
      /\ DOMAIN stack' = 1 .. Len(stack')
  BY <1>1, PopFacts, LenProperties
<1>3. \A i \in 1 .. Len(stack') - 1 : stack'[i].in \in Emitting
  BY <1>1, <1>2 DEF TypeOK
<1>4. \A i \in DOMAIN stack' : stack'[i].conn \in Created'
  BY <1>1, <1>2 DEF TypeOK, Created
<1> QED
  BY <1>2, <1>3, <1>4 DEF TypeOK, Created

\* And so does a call that moves on.
LEMMA TypeGoesOn ==
  ASSUME TypeOK, stack # << >>, NEW in \in Emitting \cup Blocking,
         stack' = GoesOn(in), UNCHANGED <<desc, listed, deleted, connVars>>
  PROVE  TypeOK'
<1>1. stack \in Seq(Frame) /\ DOMAIN stack = 1 .. Len(stack)
  BY LenProperties DEF TypeOK
<1>2. /\ stack' \in Seq(Frame)
      /\ Len(stack') = Len(stack)
      /\ Len(stack) \in Nat \ {0}
      /\ \A i \in 1 .. Len(stack) - 1 : stack'[i] = stack[i]
      /\ stack'[Len(stack)] = Call(in, Top.conn)
      /\ DOMAIN stack' = 1 .. Len(stack')
  BY <1>1, GoesOnFacts, PopFacts, LenProperties
<1>3. Top.conn \in Created
  <2>1. Len(stack) \in DOMAIN stack
    BY <1>1, <1>2
  <2>2. \A i \in DOMAIN stack : stack[i].conn \in Created
    BY DEF TypeOK
  <2> QED
    BY <2>1, <2>2 DEF Top
<1>4. Call(in, Top.conn).conn = Top.conn
  BY DEF Call
<1>5. \A i \in 1 .. Len(stack') - 1 : stack'[i].in \in Emitting
  BY <1>1, <1>2 DEF TypeOK
<1>6. \A i \in DOMAIN stack' : stack'[i].conn \in Created'
  BY <1>1, <1>2, <1>3, <1>4 DEF TypeOK, Created
<1> QED
  BY <1>2, <1>5, <1>6 DEF TypeOK, Created, connVars

\* The frames stay typed when a connection is created and called at once.
LEMMA TypeAddConnection ==
  ASSUME TypeOK, NEW d \in Descriptors, AddConnection(d)
  PROVE  TypeOK'
<1> DEFINE n == Len(desc) + 1
           f == Call("added", n)
<1>1. /\ desc \in Seq(Descriptors)
      /\ Len(desc) \in Nat
      /\ Len(desc) < MaxConns
      /\ Created = 1 .. Len(desc)
      /\ desc' = Append(desc, d)
  BY CreatedIds, LenProperties DEF TypeOK, AddConnection
<1>2. /\ desc' \in Seq(Descriptors)
      /\ Len(desc') = n
      /\ Len(desc') <= MaxConns
      /\ Created' = 1 .. n
      /\ Created \subseteq Created'
      /\ n \in Ids /\ n \in Created'
  BY <1>1, ManagerAssumption, AppendProperties DEF Created, Ids
<1>3. f \in Frame /\ f.conn = n /\ stack' = Append(stack, f)
  BY <1>2 DEF Call, Frame, Emitting, AddConnection, Push
<1>4. stack \in Seq(Frame) /\ DOMAIN stack = 1 .. Len(stack) /\ Len(stack) \in Nat
  BY LenProperties DEF TypeOK
<1> HIDE DEF f, n
<1>5. /\ stack' \in Seq(Frame)
      /\ Len(stack') = Len(stack) + 1
      /\ \A i \in 1 .. Len(stack) : stack'[i] = stack[i]
      /\ stack'[Len(stack) + 1] = f
      /\ DOMAIN stack' = 1 .. Len(stack')
  BY <1>3, <1>4, PushFacts, LenProperties
<1>6. \A i \in 1 .. Len(stack') - 1 : stack'[i].in \in Emitting
  <2> TAKE i \in 1 .. Len(stack') - 1
  <2>1. i \in 1 .. Len(stack) /\ stack'[i] = stack[i]
    BY <1>4, <1>5
  <2>2. CASE i = Len(stack)
    <3>1. stack # << >>
      BY <2>2, <2>1, <1>4, EmptySeq
    <3> QED
      BY <3>1, <2>1, <2>2 DEF Top, AddConnection, MayCall
  <2>3. CASE i # Len(stack)
    <3>1. i \in 1 .. Len(stack) - 1
      <4>1. Len(stack) \in Nat /\ i \in 1 .. Len(stack)
        BY <1>4, <2>1
      <4> QED
        BY <4>1, <2>3
    <3> QED
      BY <3>1, <2>1 DEF TypeOK
  <2> QED
    BY <2>2, <2>3
<1>7. \A i \in DOMAIN stack' : stack'[i].conn \in Created'
  <2> TAKE i \in DOMAIN stack'
  <2>1. CASE i \in 1 .. Len(stack)
    BY <2>1, <1>2, <1>4, <1>5 DEF TypeOK
  <2>2. CASE i = Len(stack) + 1
    BY <2>2, <1>2, <1>3, <1>5
  <2> QED
    BY <2>1, <2>2, <1>4, <1>5
<1>8. listed' \subseteq Created' /\ deleted' \subseteq Created' /\ revived' \subseteq Created'
  BY <1>2 DEF TypeOK, AddConnection, connVars, n
<1>9. /\ thread' \in [Ids -> {"off", "run", "reset", "early", "loop", "serve", "exec"}]
      /\ \A c \in Ids \ Created' : thread'[c] = "off"
      /\ mQuit' \in [Ids -> BOOLEAN]
      /\ exited' \in [Ids -> BOOLEAN]
  BY <1>2 DEF TypeOK, AddConnection, connVars
<1> QED
  BY <1>2, <1>5, <1>6, <1>7, <1>8, <1>9 DEF TypeOK

\* The steps of a worker's thread touch nothing but that thread.
LEMMA TypeThreadStep ==
  ASSUME TypeOK, NEW c \in Ids, ThreadStep(c)
  PROVE  TypeOK'
<1>1. /\ thread[c] # "off"
      /\ \E to \in {"off", "reset", "early", "loop", "serve", "exec"} :
           thread' = [thread EXCEPT ![c] = to]
      /\ UNCHANGED <<desc, listed, stack, deleted, mQuit, revived>>
      /\ exited' = exited \/ exited' = [exited EXCEPT ![c] = TRUE]
  BY DEF ThreadStep, OpenPort, OpenPortFails, OpenedTo, HearEarly, EndHearEarly, EndReset,
         Serve, EndServe, LeaveLoop, EndThread, Goes
<1>2. c \in Created
  BY <1>1 DEF TypeOK
<1> QED
  BY <1>1, <1>2 DEF TypeOK, Created

\* Every step preserves the types.
LEMMA TypeStep == TypeOK /\ [Next]_vars => TypeOK'
<1> SUFFICES ASSUME TypeOK, [Next]_vars PROVE TypeOK'
  OBVIOUS
<1>0. stack # << >> => Top.conn \in Created /\ Created \subseteq Ids
  <2> SUFFICES ASSUME stack # << >> PROVE Top.conn \in Created
    BY CreatedIds
  <2>1. Len(stack) \in Nat \ {0} /\ DOMAIN stack = 1 .. Len(stack)
    BY PopFacts, LenProperties DEF TypeOK
  <2> QED
    BY <2>1 DEF TypeOK, Top
<1>1. ASSUME NEW d \in Descriptors, AddConnection(d) PROVE TypeOK'
  BY <1>1, TypeAddConnection
<1>2. ASSUME NEW d \in Descriptors, RemoveConnection(d) PROVE TypeOK'
  <2>1. PICK c \in Found(d) : BeginClosing("removing", c)
    BY <1>2 DEF RemoveConnection
  <2>2. c \in Created
    BY <2>1 DEF Found, TypeOK
  <2> QED
    BY <1>2, <2>1, <2>2, TypePush DEF RemoveConnection, BeginClosing, MayCall, Blocking, TypeOK
<1>3. ASSUME NEW c \in Ids, Open(c) PROVE TypeOK'
  BY <1>3, TypePush DEF Open, MayCall, Emitting, TypeOK, connVars
<1>4. ASSUME NEW c \in Ids, Close(c) PROVE TypeOK'
  BY <1>4, TypePush DEF Close, BeginClosing, MayCall, Blocking, TypeOK
<1>5. ASSUME NEW c \in Ids, BeginDelete(c) PROVE TypeOK'
  <2>1. c \in Created
    BY <1>5 DEF BeginDelete, Doomed, TypeOK
  <2> QED
    BY <1>5, <2>1, TypePush DEF BeginDelete, BeginClosing, Blocking, TypeOK
<1>6. CASE OpenAdded
  BY <1>6, TypeGoesOn DEF OpenAdded, Within, Emitting
<1>7. CASE Start
  <2>1. stack # << >> /\ Top.conn \in Created /\ Top.conn \in Ids
    BY <1>0, <1>7 DEF Start, Within
  <2>2. /\ thread' \in [Ids -> {"off", "run", "reset", "early", "loop", "serve", "exec"}]
        /\ \A c \in Ids \ Created : thread'[c] = "off"
        /\ mQuit' \in [Ids -> BOOLEAN]
        /\ exited' \in [Ids -> BOOLEAN]
        /\ revived' \subseteq Created
    BY <1>7, <2>1 DEF Start, TypeOK, QuitKept
  <2> QED
    BY <1>7, <2>1, <2>2, TypePop DEF Start, TypeOK
<1>8. CASE EndClose
  BY <1>8, TypePop DEF EndClose, Within, TypeOK, connVars
<1>9. CASE AnnounceRemoved
  BY <1>9, TypeGoesOn DEF AnnounceRemoved, Within, Emitting
<1>10. CASE EndRemove
  BY <1>10, TypePop DEF EndRemove, Within, RemoveOne, TypeOK, connVars
<1>11. CASE EndDelete
  BY <1>0, <1>11, TypePop DEF EndDelete, Within, TypeOK, connVars
<1>12. ASSUME NEW c \in Ids, ThreadStep(c) PROVE TypeOK'
  BY <1>12, TypeThreadStep
<1>13. CASE UNCHANGED vars
  BY <1>13 DEF vars, connVars, TypeOK, Created
<1> QED
  BY <1>1, <1>2, <1>3, <1>4, <1>5, <1>6, <1>7, <1>8, <1>9, <1>10, <1>11, <1>12, <1>13
     DEF Next, AppStep

\* The variables keep their types, whatever the handlers call.
THEOREM TypeCorrect == Spec => []TypeOK
BY TypeInit, TypeStep, PTL DEF Spec

----------------------------------------------------------------------------
(***************************************************************************)
(* The inductive invariant.  A connection is released once its thread was  *)
(* joined after m_quit was set: from then on its thread is never in the    *)
(* loop of run() with a frame, and runs at all only if somebody has opened *)
(* the connection again: then it may hear its device during the reset.     *)
(***************************************************************************)
Released(c) ==
  /\ mQuit[c]
  /\ thread[c] # "serve"
  /\ c \notin revived => thread[c] = "off"

\* Who is not listed was released before.
UnlistedReleased == \A c \in Created \ listed : Released(c)

\* The calls that close a connection have set m_quit, and those that go on after
\* close() have released it, whatever was called within them.
CallInStep(f) ==
  /\ f.in \in Blocking => mQuit[f.conn]
  /\ f.in = "removed" => Released(f.conn)

CallsInStep == \A i \in DOMAIN stack : CallInStep(stack[i])

\* Nothing else is called while the manager deletes connections, or after it.
DeletesAlone ==
  /\ deleted # {} => stack = << >> \/ (Len(stack) = 1 /\ Top.in = "deleting")
  /\ Within("deleting") => Len(stack) = 1

ManagerInv ==
  /\ OnePerPort
  /\ UnlistedReleased
  /\ CallsInStep
  /\ DeletesAlone
  /\ DeletedEnded

\* The invariant holds at the start.
LEMMA InvInit == Init => ManagerInv
BY EmptySeq DEF Init, ManagerInv, OnePerPort, UnlistedReleased, CallsInStep, DeletesAlone,
                DeletedEnded, Created, Within

\* m_quit stays set and a released connection released, whatever happens.
LEMMA ReleaseStays ==
  ASSUME TypeOK, [Next]_vars, NEW c \in Created
  PROVE  /\ mQuit[c] => mQuit'[c]
         /\ Released(c) => Released(c)'
<1>0. c \in Ids /\ (stack # << >> => Top.conn \in Ids)
  BY CreatedIds, PopFacts DEF TypeOK, Frame
<1>1. ASSUME NEW d \in Ids, NEW in, BeginClosing(in, d)
      PROVE  (mQuit[c] => mQuit'[c]) /\ (Released(c) => Released(c)')
  BY <1>0, <1>1 DEF BeginClosing, Released, TypeOK
<1>2. ASSUME UNCHANGED connVars
      PROVE  (mQuit[c] => mQuit'[c]) /\ (Released(c) => Released(c)')
  BY <1>2 DEF connVars, Released
<1>3. CASE Start
  BY <1>0, <1>3 DEF Start, Within, QuitKept, Released, TypeOK
<1>4. ASSUME NEW d \in Ids, ThreadStep(d)
      PROVE  (mQuit[c] => mQuit'[c]) /\ (Released(c) => Released(c)')
  BY <1>0, <1>4 DEF ThreadStep, OpenPort, OpenPortFails, OpenedTo, HearEarly, EndHearEarly,
                    EndReset,
                    Serve, EndServe, LeaveLoop, EndThread,
                    Goes, Released, TypeOK
<1>5. \A d \in Descriptors : Found(d) \subseteq Ids
  BY CreatedIds DEF Found, TypeOK
<1> QED
  BY <1>1, <1>2, <1>3, <1>4, <1>5
     DEF Next, AppStep, vars, AddConnection, RemoveConnection, Open, Close, BeginDelete, OpenAdded,
         EndClose, AnnounceRemoved, EndRemove, EndDelete

\* A call that is in step stays so.
LEMMA CallStays ==
  ASSUME TypeOK, [Next]_vars, NEW f \in Frame, f.conn \in Created, CallInStep(f)
  PROVE  CallInStep(f)'
BY ReleaseStays DEF CallInStep

\* A new call keeps the calls in step if it is so itself.
LEMMA PushInStep ==
  ASSUME TypeOK, CallsInStep, [Next]_vars,
         NEW f \in Frame, stack' = Append(stack, f), CallInStep(f)'
  PROVE  CallsInStep'
<1>1. stack \in Seq(Frame) /\ DOMAIN stack = 1 .. Len(stack) /\ Len(stack) \in Nat
  BY LenProperties DEF TypeOK
<1>2. /\ DOMAIN stack' = 1 .. Len(stack) + 1
      /\ \A i \in 1 .. Len(stack) : stack'[i] = stack[i]
      /\ stack'[Len(stack) + 1] = f
  BY <1>1, PushFacts, LenProperties
<1> SUFFICES ASSUME NEW i \in DOMAIN stack', NEW g, g = stack'[i] PROVE CallInStep(g)'
  BY DEF CallsInStep, CallInStep, Released
<1>3. CASE i \in DOMAIN stack
  <2>1. g = stack[i] /\ g \in Frame
    BY <1>1, <1>2, <1>3, ElementOfSeq
  <2> QED
    BY <1>3, <2>1, CallStays DEF CallsInStep, TypeOK
<1>4. CASE i = Len(stack) + 1
  BY <1>2, <1>4
<1> QED
  BY <1>1, <1>2, <1>3, <1>4

\* A return keeps them in step.
LEMMA PopInStep ==
  ASSUME TypeOK, CallsInStep, [Next]_vars, stack # << >>, stack' = Pop
  PROVE  CallsInStep'
<1>1. stack \in Seq(Frame) /\ DOMAIN stack = 1 .. Len(stack)
  BY LenProperties DEF TypeOK
<1>2. /\ Len(stack) \in Nat
      /\ DOMAIN stack' = 1 .. Len(stack) - 1
      /\ \A i \in 1 .. Len(stack) - 1 : stack'[i] = stack[i]
  BY <1>1, PopFacts, LenProperties
<1> SUFFICES ASSUME NEW i \in DOMAIN stack', NEW g, g = stack'[i] PROVE CallInStep(g)'
  BY DEF CallsInStep, CallInStep, Released
<1>3. i \in DOMAIN stack /\ g = stack[i] /\ g \in Frame
  BY <1>1, <1>2, ElementOfSeq
<1> QED
  BY <1>3, CallStays DEF CallsInStep, TypeOK

\* So does a call that goes on, if it is in step where it has come to.
LEMMA GoesOnInStep ==
  ASSUME TypeOK, CallsInStep, [Next]_vars, stack # << >>,
         NEW in \in Emitting, NEW c \in Created, c = Top.conn,
         stack' = GoesOn(in), CallInStep(Call(in, c))'
  PROVE  CallsInStep'
<1>1. stack \in Seq(Frame) /\ DOMAIN stack = 1 .. Len(stack)
  BY LenProperties DEF TypeOK
<1>2. /\ Len(stack) \in Nat \ {0}
      /\ DOMAIN stack' = 1 .. Len(stack)
      /\ \A i \in 1 .. Len(stack) - 1 : stack'[i] = stack[i]
      /\ stack'[Len(stack)] = Call(in, c)
  BY <1>1, PopFacts, GoesOnFacts, LenProperties
<1> SUFFICES ASSUME NEW i \in DOMAIN stack', NEW g, g = stack'[i] PROVE CallInStep(g)'
  BY DEF CallsInStep, CallInStep, Released
<1>3. CASE i \in 1 .. Len(stack) - 1
  <2>1. i \in DOMAIN stack /\ g = stack[i] /\ g \in Frame
    BY <1>1, <1>2, <1>3, ElementOfSeq
  <2> QED
    BY <2>1, CallStays DEF CallsInStep, TypeOK
<1>4. CASE i = Len(stack)
  BY <1>2, <1>4
<1> QED
  BY <1>2, <1>3, <1>4

\* Created connections stay so, and only addConnection() lists one: its port is new.
LEMMA ListedStep ==
  ASSUME TypeOK, [Next]_vars
  PROVE  \/ desc' = desc /\ listed' \subseteq listed
         \/ \E d \in Descriptors : AddConnection(d)
BY DEF Next, AppStep, ThreadStep, vars, connVars, RemoveConnection, Open, Close, BeginDelete,
       BeginClosing, OpenAdded, Start, EndClose, AnnounceRemoved, EndRemove, RemoveOne, EndDelete,
       OpenPort, OpenPortFails, OpenedTo, HearEarly, EndHearEarly, EndReset,
       Serve, EndServe, LeaveLoop, EndThread, Goes

\* What addConnection() adds to the connections.
LEMMA AddedFacts ==
  ASSUME TypeOK, NEW d \in Descriptors, AddConnection(d)
  PROVE  /\ Created' = Created \cup {Len(desc) + 1}
         /\ Len(desc) + 1 \notin Created
         /\ \A c \in Created : desc'[c] = desc[c]
         /\ desc'[Len(desc) + 1] = d
         /\ listed' = listed \cup {Len(desc) + 1}
<1>1. /\ desc \in Seq(Descriptors) /\ Len(desc) \in Nat
      /\ Created = 1 .. Len(desc)
      /\ desc' = Append(desc, d)
  BY CreatedIds, LenProperties DEF TypeOK, AddConnection
<1>2. /\ Len(desc') = Len(desc) + 1
      /\ \A c \in 1 .. Len(desc) : desc'[c] = desc[c]
      /\ desc'[Len(desc) + 1] = d
      /\ Created' = 1 .. Len(desc) + 1
  BY <1>1, AppendProperties DEF Created
<1>3. listed' = listed \cup {Len(desc) + 1}
  BY <1>2 DEF AddConnection
<1> QED
  BY <1>1, <1>2, <1>3

\* Only addConnection() lists a connection, after it has looked for its port.
LEMMA OnePerPortStep ==
  ASSUME TypeOK, OnePerPort, [Next]_vars
  PROVE  OnePerPort'
<1>1. CASE desc' = desc /\ listed' \subseteq listed
  BY <1>1 DEF OnePerPort
<1>2. ASSUME NEW d \in Descriptors, AddConnection(d) PROVE OnePerPort'
  <2>1. \A c \in listed : desc[c].portName # d.portName
    BY <1>2 DEF AddConnection, Found, SameAs
  <2> QED
    BY <1>2, <2>1, AddedFacts DEF OnePerPort, TypeOK
<1> QED
  BY <1>1, <1>2, ListedStep

\* Only removeConnection() takes a connection off the list, and it has released it.
LEMMA UnlistedStep ==
  ASSUME TypeOK, UnlistedReleased, CallsInStep, [Next]_vars
  PROVE  UnlistedReleased'
<1> SUFFICES ASSUME NEW c \in Created', c \notin listed' PROVE Released(c)'
  BY DEF UnlistedReleased, Released
<1>1. c \in Created
  BY ListedStep, AddedFacts DEF Created
<1>2. CASE c \notin listed
  BY <1>1, <1>2, ReleaseStays DEF UnlistedReleased
<1>3. CASE c \in listed
  <2>1. EndRemove /\ c = Top.conn
    BY <1>3 DEF Next, AppStep, ThreadStep, vars, connVars, AddConnection, RemoveConnection, Open,
       Close, BeginDelete, BeginClosing, OpenAdded, Start, EndClose, AnnounceRemoved, EndRemove,
       RemoveOne, EndDelete, OpenPort, OpenPortFails, OpenedTo, HearEarly, EndHearEarly, EndReset,
       Serve, EndServe, LeaveLoop, EndThread, Goes
  <2>2. stack # << >> /\ Len(stack) \in DOMAIN stack /\ Top.in = "removed"
    BY <2>1, PopFacts, LenProperties DEF EndRemove, Within, TypeOK
  <2>3. Released(c)
    BY <2>1, <2>2 DEF CallsInStep, CallInStep, Top
  <2> QED
    BY <1>1, <2>3, ReleaseStays
<1> QED
  BY <1>2, <1>3

\* Every step keeps the calls in step.
LEMMA CallsStep ==
  ASSUME TypeOK, CallsInStep, [Next]_vars
  PROVE  CallsInStep'
<1>0. /\ Created \subseteq Ids
      /\ stack # << >> => Top.conn \in Created /\ CallInStep(Top)
  <2>1. stack # << >> => Len(stack) \in DOMAIN stack
    BY PopFacts, LenProperties DEF TypeOK
  <2> QED
    BY <2>1, CreatedIds DEF TypeOK, Top, CallsInStep
<1>1. ASSUME NEW c \in Created, NEW in \in {"closing", "removing", "deleting"}, BeginClosing(in, c)
      PROVE  CallsInStep'
  <2>1. Call(in, c) \in Frame /\ Call(in, c).in # "removed" /\ Call(in, c).conn = c
    BY <1>0 DEF Call, Frame, Blocking
  <2>2. mQuit'[c]
    BY <1>0, <1>1 DEF BeginClosing, TypeOK
  <2>3. \A f \in Frame : f.conn = c /\ f.in # "removed" => CallInStep(f)'
    BY <2>2 DEF CallInStep
  <2> QED
    BY <1>1, <2>1, <2>3, PushInStep DEF BeginClosing, Push
<1>2. ASSUME NEW c \in Ids, NEW in \in {"added", "connecting"}, stack' = Push(in, c)
      PROVE  CallsInStep'
  <2>1. /\ Call(in, c) \in Frame
        /\ Call(in, c).in = in
    BY <1>2 DEF Call, Frame, Emitting
  <2>2. \A f \in Frame : f.in \in {"added", "connecting"} => CallInStep(f)'
    BY DEF CallInStep, Blocking
  <2> QED
    BY <1>2, <2>1, <2>2, PushInStep DEF Push
<1>3. ASSUME NEW d \in Descriptors, AddConnection(d) PROVE CallsInStep'
  <2>1. Len(desc') \in Ids /\ stack' = Push("added", Len(desc'))
    BY <1>3, CreatedIds, ManagerAssumption, LenProperties, AppendProperties
       DEF AddConnection, TypeOK, Ids
  <2> QED
    BY <1>2, <2>1
<1>4. ASSUME NEW d \in Descriptors, RemoveConnection(d) PROVE CallsInStep'
  BY <1>1, <1>4 DEF RemoveConnection, Found, TypeOK
<1>5. ASSUME NEW c \in Ids, Open(c) PROVE CallsInStep'
  BY <1>2, <1>5 DEF Open
<1>6. ASSUME NEW c \in Ids, Close(c) \/ BeginDelete(c) PROVE CallsInStep'
  BY <1>1, <1>6 DEF Close, BeginDelete, Doomed, TypeOK
<1>7. CASE OpenAdded
  <2>1. stack # << >> /\ stack' = GoesOn("connecting") /\ Top.conn \in Created
    BY <1>0, <1>7 DEF OpenAdded, Within
  <2>2. \A c \in Created : CallInStep(Call("connecting", c))'
    BY DEF CallInStep, Call, Blocking
  <2> QED
    BY <2>1, <2>2, GoesOnInStep DEF Emitting
<1>8. CASE AnnounceRemoved
  <2>1. /\ stack # << >> /\ stack' = GoesOn("removed")
        /\ Top.conn \in Created /\ thread[Top.conn] = "off" /\ mQuit[Top.conn]
    BY <1>0, <1>8 DEF AnnounceRemoved, Within, Joined, CallInStep, Blocking
  <2>2. \A c \in Created : c = Top.conn => Released(c)
    BY <2>1 DEF Released
  <2>3. \A c \in Created : Released(c) => Released(c)'
    BY ReleaseStays
  <2>4. \A c \in Created : Released(c)' => CallInStep(Call("removed", c))'
    BY DEF CallInStep, Call, Blocking
  <2> QED
    BY <2>1, <2>2, <2>3, <2>4, GoesOnInStep DEF Emitting
<1>9. CASE Start \/ EndClose \/ EndRemove \/ EndDelete
  BY <1>9, PopInStep DEF Start, EndClose, EndRemove, EndDelete, Within
<1>10. CASE UNCHANGED stack
  <2> SUFFICES ASSUME NEW i \in DOMAIN stack, NEW f, f = stack[i] PROVE CallInStep(f)'
    BY <1>10 DEF CallsInStep, CallInStep, Released
  <2>1. f \in Frame /\ f.conn \in Created
    BY ElementOfSeq, LenProperties DEF TypeOK
  <2> QED
    BY <2>1, CallStays DEF CallsInStep
<1> QED
  BY <1>3, <1>4, <1>5, <1>6, <1>7, <1>8, <1>9, <1>10
     DEF Next, AppStep, ThreadStep, OpenPort, OpenPortFails, OpenedTo, HearEarly, EndHearEarly,
         EndReset,
         Serve, EndServe, LeaveLoop, EndThread,
         Goes, vars

\* The innermost call after a call, after a return and after going on.
LEMMA TopAfter ==
  ASSUME TypeOK, TypeOK'
  PROVE  /\ \A in, c : stack' = Push(in, c) => stack' # << >> /\ Top'.in = in
         /\ \A in : stack # << >> /\ stack' = GoesOn(in) => stack' # << >> /\ Top'.in = in
         /\ stack # << >> /\ stack' = Pop => stack' = << >> \/ Top'.in \in Emitting
<1>1. /\ stack \in Seq(Frame) /\ Len(stack) \in Nat
      /\ stack' \in Seq(Frame) /\ Len(stack') \in Nat
  BY LenProperties DEF TypeOK
<1>2. ASSUME NEW in, NEW c, stack' = Push(in, c) PROVE stack' # << >> /\ Top'.in = in
  BY <1>1, <1>2 DEF Push, Top, Call
<1>3. ASSUME NEW in, stack # << >>, stack' = GoesOn(in) PROVE stack' # << >> /\ Top'.in = in
  <2>1. Pop \in Seq(Frame) /\ Len(Pop) \in Nat
    BY <1>1, <1>3, PopFacts
  <2> QED
    BY <1>1, <1>3, <2>1 DEF GoesOn, Top, Call
<1>4. ASSUME stack # << >>, stack' = Pop, stack' # << >> PROVE Top'.in \in Emitting
  <2>1. /\ Len(stack) \in Nat \ {0} /\ Len(stack') = Len(stack) - 1
        /\ \A i \in 1 .. Len(stack') : stack'[i] = stack[i]
    BY <1>1, <1>4, PopFacts
  <2>2. Len(stack') # 0
    BY <1>1, <1>4, EmptySeq
  <2>3. Len(stack') \in 1 .. Len(stack) - 1 /\ Len(stack') \in 1 .. Len(stack')
    BY <2>1, <2>2, <1>1
  <2>4. Top' = stack[Len(stack')]
    BY <2>1, <2>3 DEF Top
  <2> QED
    BY <2>3, <2>4 DEF TypeOK
<1> QED
  BY <1>2, <1>3, <1>4

\* Deleting goes on alone.
LEMMA DeletesStep ==
  ASSUME TypeOK, TypeOK', DeletesAlone, [Next]_vars
  PROVE  DeletesAlone'
<1>1. CASE UNCHANGED <<stack, deleted>>
  BY <1>1 DEF DeletesAlone, Within, Top
<1>2. ASSUME NEW in \in Emitting \cup Blocking, NEW c, stack' = Push(in, c),
             in # "deleting", MayCall, deleted' = deleted
      PROVE  DeletesAlone'
  <2>1. Top'.in # "deleting" /\ deleted' = {}
    BY <1>2, TopAfter DEF MayCall
  <2> QED
    BY <2>1 DEF DeletesAlone, Within
<1>3. ASSUME NEW in \in Emitting, stack # << >>, Top.in # "deleting", stack' = GoesOn(in),
             deleted' = deleted
      PROVE  DeletesAlone'
  <2>1. Top'.in # "deleting" /\ deleted' = {}
    BY <1>3, TopAfter DEF DeletesAlone, Emitting
  <2> QED
    BY <2>1 DEF DeletesAlone, Within
<1>4. ASSUME stack # << >>, Top.in # "deleting", stack' = Pop, deleted' = deleted
      PROVE  DeletesAlone'
  <2>1. deleted' = {} /\ (stack' = << >> \/ Top'.in # "deleting")
    BY <1>4, TopAfter DEF DeletesAlone, Emitting
  <2> QED
    BY <2>1 DEF DeletesAlone, Within
<1>5. ASSUME NEW c \in Ids, BeginDelete(c) PROVE DeletesAlone'
  <2>1. stack' = Push("deleting", c) /\ stack = << >> /\ deleted' = deleted
    BY <1>5 DEF BeginDelete, BeginClosing
  <2>2. Len(stack') = 1
    BY <2>1 DEF Push
  <2> QED
    BY <2>1, <2>2, TopAfter DEF DeletesAlone, Within
<1>6. CASE EndDelete
  <2>1. Len(stack) = 1 /\ stack # << >> /\ stack' = Pop
    BY <1>6 DEF EndDelete, DeletesAlone, Within
  <2>2. Len(stack') = 0
    BY <2>1, PopFacts DEF TypeOK
  <2>3. stack' = << >>
    BY <2>2, EmptySeq DEF TypeOK
  <2> QED
    BY <2>3 DEF DeletesAlone, Within
<1>7. ASSUME NEW d \in Descriptors, AddConnection(d) \/ RemoveConnection(d) PROVE DeletesAlone'
  BY <1>2, <1>7 DEF AddConnection, RemoveConnection, BeginClosing, Emitting, Blocking
<1>8. ASSUME NEW c \in Ids, Open(c) \/ Close(c) PROVE DeletesAlone'
  BY <1>2, <1>8 DEF Open, Close, BeginClosing, Emitting, Blocking
<1>9. CASE OpenAdded \/ AnnounceRemoved
  BY <1>3, <1>9 DEF OpenAdded, AnnounceRemoved, Within, Emitting
<1>10. CASE Start \/ EndClose \/ EndRemove
  BY <1>4, <1>10 DEF Start, EndClose, EndRemove, Within
<1> QED
  BY <1>1, <1>5, <1>6, <1>7, <1>8, <1>9, <1>10
     DEF Next, AppStep, ThreadStep, OpenPort, OpenPortFails, OpenedTo, HearEarly, EndHearEarly,
         EndReset,
         Serve, EndServe, LeaveLoop, EndThread,
         Goes, vars

\* No thread of a deleted connection starts again, for nobody can call open().
LEMMA DeletedStep ==
  ASSUME TypeOK, DeletesAlone, DeletedEnded, [Next]_vars
  PROVE  DeletedEnded'
<1>1. deleted \subseteq Ids
  BY CreatedIds DEF TypeOK
<1>2. CASE EndDelete
  BY <1>2 DEF EndDelete, Joined, DeletedEnded, connVars
<1>3. CASE Start
  BY <1>3 DEF Start, Within, DeletesAlone, DeletedEnded
<1>4. ASSUME NEW c \in Ids, ThreadStep(c) PROVE DeletedEnded'
  BY <1>1, <1>4 DEF ThreadStep, OpenPort, OpenPortFails, OpenedTo, HearEarly, EndHearEarly,
                    EndReset,
                    Serve, EndServe, LeaveLoop, EndThread,
                    Goes, DeletedEnded, TypeOK
<1>5. CASE UNCHANGED <<thread, deleted>>
  BY <1>5 DEF DeletedEnded
<1> QED
  BY <1>2, <1>3, <1>4, <1>5
     DEF Next, AppStep, vars, connVars, AddConnection, RemoveConnection, Open, Close, BeginDelete,
         BeginClosing, OpenAdded, EndClose, AnnounceRemoved, EndRemove

\* The invariant is inductive.
LEMMA InvStep == TypeOK /\ TypeOK' /\ ManagerInv /\ [Next]_vars => ManagerInv'
BY OnePerPortStep, UnlistedStep, CallsStep, DeletesStep, DeletedStep DEF ManagerInv

\* The invariant holds in every reachable state.
LEMMA ManagerInvHolds == Spec => []ManagerInv
BY TypeCorrect, InvInit, InvStep, PTL DEF Spec

----------------------------------------------------------------------------
(***************************************************************************)
(* The properties.                                                         *)
(***************************************************************************)

\* There is never more than one listed connection for a port.
THEOREM PortsAreUnique == Spec => []OnePerPort
<1>1. ManagerInv => OnePerPort
  BY DEF ManagerInv
<1> QED
  BY <1>1, ManagerInvHolds, PTL

\* A connection that was removed handles no more frames, unless somebody opens it
\* again (addConnection() itself, after a handler removed it, or the application):
\* then it may hear frames while its USB port is reset, and still sends none.
THEOREM RemovedStaySilent == Spec => []RemovedSilent
<1>1. ManagerInv => RemovedSilent
  BY DEF ManagerInv, UnlistedReleased, Released, RemovedSilent
<1> QED
  BY <1>1, ManagerInvHolds, PTL

\* A listed connection finds its port taken, if at all, by one that was opened
\* after it had been closed.
THEOREM PortIsFree == Spec => []PortFree
<1>1. TypeOK /\ ManagerInv => PortFree
  <2> SUFFICES ASSUME TypeOK, ManagerInv, NEW c \in listed, NEW d \in Created \ {c},
                      HasPort(d), desc[d].portName = desc[c].portName
               PROVE  d \in revived
    BY DEF PortFree
  <2>1. d \notin listed
    BY DEF ManagerInv, OnePerPort
  <2>2. Released(d)
    BY <2>1 DEF ManagerInv, UnlistedReleased
  <2> QED
    BY <2>2 DEF Released, HasPort
<1> QED
  BY <1>1, TypeCorrect, ManagerInvHolds, PTL

\* Nothing runs on a connection that ~QkConnectionManager() has deleted.
THEOREM DeletedHaveEnded == Spec => []DeletedEnded
<1>1. ManagerInv => DeletedEnded
  BY DEF ManagerInv
<1> QED
  BY <1>1, ManagerInvHolds, PTL
=============================================================================
