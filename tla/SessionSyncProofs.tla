-------------------------- MODULE SessionSyncProofs --------------------------
(***************************************************************************)
(* NeverStale for any number of sessions and keys and any queue capacity.   *)
(* The argument follows SyncInv: facts about queues first (what appending   *)
(* and taking the head do to Silent and LastSays), then type correctness,   *)
(* then each part of the invariant under each kind of step.                 *)
(***************************************************************************)
EXTENDS SessionSync, SequenceTheorems, TLAPS

-----------------------------------------------------------------------------
(* Queues *)

\* A message appended to a queue has the last word, if it has one.
LEMMA AppendSays ==
    ASSUME NEW q \in Seq(Msgs), NEW m \in Msgs, NEW k \in Keys, NEW v \in Nat
    PROVE  /\ Silent(Append(q, m), k) <=> Silent(q, k) /\ m.upd[k] = 0
           /\ LastSays(Append(q, m), k, v) <=>
                 \/ v # 0 /\ m.upd[k] = v
                 \/ m.upd[k] = 0 /\ LastSays(q, k, v)
           /\ Append(q, m) \in Seq(Msgs)
<1> DEFINE a == Append(q, m)
<1>1. /\ Len(a) = Len(q) + 1
      /\ \A i \in 1..Len(q) : a[i] = q[i]
      /\ a[Len(q) + 1] = m
      /\ Len(q) \in Nat
  BY AppendProperties, LenProperties
<1>2. Silent(a, k) <=> Silent(q, k) /\ m.upd[k] = 0
  BY <1>1 DEF Silent
<1>3. ASSUME LastSays(a, k, v)
      PROVE  (v # 0 /\ m.upd[k] = v) \/ (m.upd[k] = 0 /\ LastSays(q, k, v))
  <2>1. PICK i \in 1..Len(a) : /\ v # 0
                               /\ a[i].upd[k] = v
                               /\ \A j \in (i + 1)..Len(a) : a[j].upd[k] = 0
    BY <1>3 DEF LastSays
  <2>2. CASE i = Len(q) + 1
    BY <1>1, <2>1, <2>2
  <2>3. CASE i \in 1..Len(q)
    BY <1>1, <2>1, <2>3 DEF LastSays
  <2> QED
    BY <1>1, <2>2, <2>3
<1>4. ASSUME v # 0, m.upd[k] = v
      PROVE  LastSays(a, k, v)
  <2>1. Len(q) + 1 \in 1..Len(a) /\ a[Len(q) + 1].upd[k] = v
    BY <1>1, <1>4
  <2>2. \A j \in ((Len(q) + 1) + 1)..Len(a) : a[j].upd[k] = 0
    BY <1>1
  <2> QED
    BY <1>4, <2>1, <2>2 DEF LastSays
<1>5. ASSUME m.upd[k] = 0, LastSays(q, k, v)
      PROVE  LastSays(a, k, v)
  <2>1. PICK i \in 1..Len(q) : /\ v # 0
                               /\ q[i].upd[k] = v
                               /\ \A j \in (i + 1)..Len(q) : q[j].upd[k] = 0
    BY <1>5 DEF LastSays
  <2>2. \A j \in (i + 1)..Len(a) : j \in (i + 1)..Len(q) \/ j = Len(q) + 1
    BY <1>1
  <2>3. i \in 1..Len(a) /\ a[i].upd[k] = v /\ \A j \in (i + 1)..Len(a) : a[j].upd[k] = 0
    BY <1>1, <1>5, <2>1, <2>2
  <2> QED
    BY <2>1, <2>3 DEF LastSays
<1>6. a \in Seq(Msgs)
  BY AppendProperties
<1> HIDE DEF a
<1> QED
  BY <1>2, <1>3, <1>4, <1>5, <1>6 DEF a

\* The head of a queue has the last word only when the rest says nothing.
LEMMA HeadSays ==
    ASSUME NEW q \in Seq(Msgs), q # <<>>, NEW k \in Keys, NEW v \in Nat
    PROVE  /\ Silent(q, k) <=> Silent(Tail(q), k) /\ Head(q).upd[k] = 0
           /\ LastSays(q, k, v) <=>
                 \/ LastSays(Tail(q), k, v)
                 \/ Silent(Tail(q), k) /\ v # 0 /\ Head(q).upd[k] = v
<1> DEFINE t == Tail(q)
<1>1. /\ t \in Seq(Msgs)
      /\ Len(t) = Len(q) - 1
      /\ \A i \in 1..Len(t) : t[i] = q[i + 1]
      /\ Len(q) \in Nat \ {0}
      /\ Head(q) = q[1]
  BY HeadTailProperties, EmptySeq, LenProperties
<1>2. \A j \in 2..Len(q) : j - 1 \in 1..Len(t) /\ q[j] = t[j - 1]
  BY <1>1
<1>3. Silent(q, k) <=> Silent(t, k) /\ Head(q).upd[k] = 0
  <2>1. ASSUME Silent(q, k) PROVE Silent(t, k) /\ Head(q).upd[k] = 0
    BY <1>1, <2>1 DEF Silent
  <2>2. ASSUME Silent(t, k), Head(q).upd[k] = 0 PROVE Silent(q, k)
    <3>1. SUFFICES ASSUME NEW j \in 1..Len(q) PROVE q[j].upd[k] = 0
      BY DEF Silent
    <3>2. CASE j = 1
      BY <1>1, <2>2, <3>2
    <3>3. CASE j \in 2..Len(q)
      BY <1>2, <2>2, <3>3 DEF Silent
    <3> QED
      BY <1>1, <3>2, <3>3
  <2> QED
    BY <2>1, <2>2
<1>4. ASSUME LastSays(q, k, v)
      PROVE  LastSays(t, k, v) \/ (Silent(t, k) /\ v # 0 /\ Head(q).upd[k] = v)
  <2>1. PICK i \in 1..Len(q) : /\ v # 0
                               /\ q[i].upd[k] = v
                               /\ \A j \in (i + 1)..Len(q) : q[j].upd[k] = 0
    BY <1>4 DEF LastSays
  <2>2. CASE i = 1
    BY <1>1, <2>1, <2>2 DEF Silent
  <2>3. CASE i \in 2..Len(q)
    <3>1. i - 1 \in 1..Len(t) /\ t[i - 1].upd[k] = v
      BY <1>1, <1>2, <2>1, <2>3
    <3>2. \A j \in ((i - 1) + 1)..Len(t) : t[j].upd[k] = 0
      BY <1>1, <2>1, <2>3
    <3> QED
      BY <2>1, <3>1, <3>2 DEF LastSays
  <2> QED
    BY <1>1, <2>2, <2>3
<1>5. ASSUME LastSays(t, k, v)
      PROVE  LastSays(q, k, v)
  <2>1. PICK i \in 1..Len(t) : /\ v # 0
                               /\ t[i].upd[k] = v
                               /\ \A j \in (i + 1)..Len(t) : t[j].upd[k] = 0
    BY <1>5 DEF LastSays
  <2>2. i + 1 \in 1..Len(q) /\ q[i + 1].upd[k] = v
    BY <1>1, <2>1
  <2>3. \A j \in ((i + 1) + 1)..Len(q) : j - 1 \in (i + 1)..Len(t) /\ q[j] = t[j - 1]
    BY <1>1, <1>2
  <2> QED
    BY <2>1, <2>2, <2>3 DEF LastSays
<1>6. ASSUME Silent(t, k), v # 0, Head(q).upd[k] = v
      PROVE  LastSays(q, k, v)
  <2>1. 1 \in 1..Len(q) /\ q[1].upd[k] = v
    BY <1>1, <1>6
  <2>2. ASSUME NEW j \in (1 + 1)..Len(q) PROVE q[j].upd[k] = 0
    <3>1. j \in 2..Len(q)
      OBVIOUS
    <3> QED
      BY <1>2, <1>6, <3>1 DEF Silent
  <2> QED
    BY <1>6, <2>1, <2>2 DEF LastSays
<1> HIDE DEF t
<1> QED
  BY <1>3, <1>4, <1>5, <1>6 DEF t

\* What a queue never says, its tail does not say either.
LEMMA KeepsToIt ==
    ASSUME NEW q \in Seq(Msgs), NEW m \in Msgs, NEW k \in Keys, NEW v \in Nat,
           NeverOther(q, k, v)
    PROVE  /\ m.upd[k] \in {0, v} => NeverOther(Append(q, m), k, v)
           /\ q # <<>> => NeverOther(Tail(q), k, v) /\ Head(q).upd[k] \in {0, v}
<1>1. /\ Len(Append(q, m)) = Len(q) + 1
      /\ \A i \in 1..Len(q) : Append(q, m)[i] = q[i]
      /\ Append(q, m)[Len(q) + 1] = m
      /\ Len(q) \in Nat
  BY AppendProperties, LenProperties
<1>2. m.upd[k] \in {0, v} => NeverOther(Append(q, m), k, v)
  BY <1>1 DEF NeverOther
<1>3. ASSUME q # <<>> PROVE NeverOther(Tail(q), k, v) /\ Head(q).upd[k] \in {0, v}
  <2>1. /\ Len(Tail(q)) = Len(q) - 1
        /\ \A i \in 1..Len(Tail(q)) : Tail(q)[i] = q[i + 1]
        /\ Len(q) \in Nat \ {0}
        /\ Head(q) = q[1]
    BY <1>3, HeadTailProperties, EmptySeq, LenProperties
  <2>2. \A i \in 1..Len(Tail(q)) : i + 1 \in 1..Len(q)
    BY <2>1
  <2> QED
    BY <2>1, <2>2 DEF NeverOther
<1> QED
  BY <1>2, <1>3

\* An empty queue says nothing.
LEMMA EmptySays ==
    ASSUME NEW k \in Keys
    PROVE  Silent(<<>>, k)
BY DEF Silent

\* The messages the server builds are messages.
LEMMA TextType == Text \in Msgs /\ Nothing \in Versions /\ \A k \in Keys : Text.upd[k] = 0
BY DEF Text, Msg, Msgs, Nothing, Versions

-----------------------------------------------------------------------------
(* Types *)

LEMMA ChangesType ==
    ASSUME NEW w \in Versions, NEW K
    PROVE  Changes(w, K) \in Versions
BY DEF Changes, Versions

LEMMA AppliedType ==
    ASSUME NEW v \in Versions, NEW u \in Versions
    PROVE  Applied(v, u) \in Versions
BY DEF Applied, Versions

LEMMA ReadType ==
    ASSUME NEW u \in Versions, NEW L, world \in Versions
    PROVE  Read(u, L) \in Versions
BY DEF Read, Versions

\* Every step keeps the shape of the state.
LEMMA TypeStep ==
    ASSUME TypeOK, [Next]_vars
    PROVE  TypeOK'
<1> USE DEF TypeOK
<1>1. ASSUME NEW s \in Sessions, Connect(s) PROVE TypeOK'
  BY <1>1 DEF Connect, worldVars, tickVars
<1>2. ASSUME NEW s \in Sessions, RemoveSession(s) PROVE TypeOK'
  BY <1>2 DEF RemoveSession, worldVars, tickVars
<1>3. ASSUME NEW s \in Sessions, NEW m \in Requests \ {Undecodable}, ReadMessage(s, m)
      PROVE  TypeOK'
  <2>1. m \in MessageKinds /\ inbox[s] \in Seq(MessageKinds)
    BY SyncAssumption
  <2>2. Append(inbox[s], m) \in Seq(MessageKinds)
    BY <2>1, AppendProperties
  <2> QED
    BY <1>3, <2>2 DEF ReadMessage, worldVars, tickVars
<1>4. ASSUME NEW s \in Sessions, RefuseMessage(s) PROVE TypeOK'
  <2>1. Append(out[s], Text) \in Seq(Msgs)
    BY TextType, AppendProperties
  <2>2. out' \in [Sessions -> Seq(Msgs)] /\ rpc' \in [Sessions -> {"none", "read", "flag", "done"}]
    BY <1>4, <2>1 DEF RefuseMessage, ReaderEnqueue
  <2> QED
    BY <1>4, <2>2 DEF RefuseMessage, worldVars, tickVars
<1>5. ASSUME NEW s \in Sessions, ReaderFlag(s) PROVE TypeOK'
  BY <1>5 DEF ReaderFlag, worldVars, tickVars
<1>6. ASSUME NEW s \in Sessions, ReaderEnds(s) PROVE TypeOK'
  BY <1>6 DEF ReaderEnds, Close, worldVars, tickVars
<1>7. ASSUME NEW s \in Sessions, WriterTop(s) PROVE TypeOK'
  BY <1>7 DEF WriterTop, worldVars, tickVars
<1>8. ASSUME NEW s \in Sessions, WriterFlush(s) PROVE TypeOK'
  <2>1. Tail(out[s]) \in Seq(Msgs)
    BY <1>8, HeadTailProperties DEF WriterFlush
  <2> QED
    BY <1>8, <2>1 DEF WriterFlush, worldVars, tickVars
<1>9. ASSUME NEW s \in Sessions, WriterFlushed(s) PROVE TypeOK'
  BY <1>9 DEF WriterFlushed, worldVars, tickVars
<1>10. ASSUME NEW s \in Sessions, WriterLoad(s) PROVE TypeOK'
  <2>1. view' \in [Sessions -> Versions]
    BY <1>10 DEF WriterLoad
  <2>2. wpc' \in [Sessions -> {"none", "top", "flush", "load", "select", "done"}]
    BY <1>10 DEF WriterLoad
  <2>3. UNCHANGED <<worldVars, tickVars, sessions, inbox, out, resync, closed, joined, rpc,
                    welcomed>>
    BY <1>10 DEF WriterLoad
  <2> QED
    BY <2>1, <2>2, <2>3 DEF worldVars, tickVars
<1>11. ASSUME NEW s \in Sessions, WriterSend(s) PROVE TypeOK'
  <2>1. Head(out[s]) \in Msgs /\ Tail(out[s]) \in Seq(Msgs)
    BY <1>11, HeadTailProperties DEF WriterSend
  <2>2. Head(out[s]).upd \in Versions
    BY <2>1 DEF Msgs
  <2>3. PICK L \in SUBSET Live :
           view' = [view EXCEPT ![s] = Applied(@, Read(Head(out[s]).upd, L))]
    BY <1>11 DEF WriterSend
  <2>4. Applied(view[s], Read(Head(out[s]).upd, L)) \in Versions
    BY <2>2, AppliedType, ReadType
  <2>5. view' \in [Sessions -> Versions]
    BY <2>3, <2>4
  <2>6. welcomed' \in [Sessions -> BOOLEAN]
    BY <1>11, Zenon DEF WriterSend
  <2> QED
    BY <1>11, <2>1, <2>5, <2>6 DEF WriterSend, worldVars, tickVars
<1>12. ASSUME NEW s \in Sessions, WriterTimeout(s) PROVE TypeOK'
  BY <1>12 DEF WriterTimeout, worldVars, tickVars
<1>13. ASSUME NEW s \in Sessions, WriterEnds(s) PROVE TypeOK'
  BY <1>13 DEF WriterEnds, Close, worldVars, tickVars
<1>14. CASE BeginStep
  BY <1>14 DEF BeginStep, worldVars, sessVars
<1>15. ASSUME NEW s \in Sessions, DrainInbox(s) PROVE TypeOK'
  <2> DEFINE new == [i \in 1..Len(inbox[s]) |-> <<s, inbox[s][i]>>]
  <2>1. inbox[s] \in Seq(MessageKinds)
    OBVIOUS
  <2>2. Len(inbox[s]) \in Nat /\ \A i \in 1..Len(inbox[s]) : inbox[s][i] \in MessageKinds
    BY <2>1, LenProperties, ElementOfSeq
  <2>3. new \in Seq(Sessions \X MessageKinds)
    BY <2>2, IsASeq
  <2>4. pending \o new \in Seq(Sessions \X MessageKinds)
    BY <2>3, ConcatProperties
  <2>5. pending' \in Seq(Sessions \X MessageKinds)
    BY <1>15, <2>4 DEF DrainInbox
  <2>6. inbox' \in [Sessions -> Seq(MessageKinds)]
    BY <1>15, EmptySeq DEF DrainInbox
  <2> HIDE DEF new
  <2> QED
    BY <1>15, <2>5, <2>6 DEF DrainInbox, worldVars
<1>16. ASSUME NEW s \in Sessions, ApplyMessage(s) PROVE TypeOK'
  <2>1. ASSUME NEW m, Applying(s, m)
        PROVE  /\ pending' \in Seq(Sessions \X MessageKinds)
               /\ UNCHANGED <<lastSnap, sessions, inbox, out, resync, closed, rpc, wpc,
                             view, welcomed, dropped>>
    BY <2>1, HeadTailProperties DEF Applying
  <2>2. ASSUME NEW K \in SUBSET Keys, Touch(K)
        PROVE  world' \in Versions /\ dirty' \in SUBSET Keys
    BY <2>2 DEF Touch, Versions
  <2>3. \A u \in Versions : \A t \in {"text", "chat", "welcome", "diff"} : Msg(t, u) \in Msgs
    BY DEF Msg, Msgs
  <2>4. CASE \E m \in MessageKinds : IgnoreMessage(s, m)
    BY <2>1, <2>4 DEF IgnoreMessage
  <2>5. CASE HandleHello(s)
    BY <2>1, <2>2, <2>3, <2>5 DEF HandleHello, Queueing
  <2>6. CASE AcceptBuild(s)
    BY <2>1, <2>2, <2>6 DEF AcceptBuild
  <2>7. CASE RejectBuild(s)
    BY <2>1, <2>7, TextType DEF RejectBuild, Queueing
  <2>8. CASE HandleChat(s)
    BY <2>1, <2>3, <2>8, TextType DEF HandleChat, Queueing
  <2>9. CASE DevCommand(s)
    BY <2>1, <2>2, <2>9, TextType DEF DevCommand, Queueing
  <2> QED
    BY <1>16, <2>4, <2>5, <2>6, <2>7, <2>8, <2>9 DEF ApplyMessage
<1>17. CASE Tick
  <2>1. PICK K \in SUBSET Keys :
           /\ world' = [k \in Keys |-> IF k \in K THEN world[k] + 1 ELSE world[k]]
           /\ cur' = Msg("diff", Changes(world', dirty \cup K))
    BY <1>17 DEF Tick
  <2>2. world' \in Versions
    BY <2>1 DEF Versions
  <2>3. cur' \in Msgs
    BY <2>1, <2>2, ChangesType DEF Msg, Msgs
  <2> QED
    BY <1>17, <2>2, <2>3 DEF Tick, sessVars
<1>18. CASE StoreSnapshot
  BY <1>18 DEF StoreSnapshot, sessVars
<1>19. ASSUME NEW s \in Sessions, Enqueue(s) PROVE TypeOK'
  <2>1. Append(out[s], cur) \in Seq(Msgs)
    BY AppendProperties
  <2>2. out' \in [Sessions -> Seq(Msgs)] /\ dropped' \in Sessions \cup {NoSession}
    BY <1>19, <2>1 DEF Enqueue
  <2> QED
    BY <1>19, <2>2 DEF Enqueue, worldVars
<1>20. ASSUME NEW s \in Sessions, EnqueueFlag(s) PROVE TypeOK'
  BY <1>20 DEF EnqueueFlag, worldVars
<1>21. CASE Queued
  BY <1>21, TextType DEF Queued, worldVars, sessVars
<1>22. CASE UNCHANGED vars
  BY <1>22 DEF vars, worldVars, sessVars, tickVars
<1> QED
  BY <1>1, <1>2, <1>3, <1>4, <1>5, <1>6, <1>7, <1>8, <1>9, <1>10, <1>11, <1>12, <1>13,
     <1>14, <1>15, <1>16, <1>17, <1>18, <1>19, <1>20, <1>21, <1>22
  DEF Next, TickLoop, Reader, Writer

\* The state always has its shape (every action of the server and sessions).
THEOREM TypeCorrect == Spec => []TypeOK
<1>1. Init => TypeOK
  BY SyncAssumption, TextType, EmptySeq DEF Init, TypeOK, Versions, Nothing
<1>2. TypeOK /\ [Next]_vars => TypeOK'
  BY TypeStep
<1> QED
  BY <1>1, <1>2, PTL DEF Spec

-----------------------------------------------------------------------------
(* The parts of SyncInv *)

\* What every step of a session leaves alone.
LEMMA SessionFrame ==
    ASSUME NEW s \in Sessions,
           Connect(s) \/ RemoveSession(s) \/ Reader(s) \/ Writer(s)
    PROVE  UNCHANGED <<world, dirty, lastSnap, joined, tpc, pending, cur, todo, dropped>>
BY DEF Connect, RemoveSession, Reader, ReadMessage, RefuseMessage, ReaderFlag, ReaderEnds,
       Writer, WriterTop, WriterFlush, WriterFlushed, WriterLoad, WriterSend, WriterTimeout,
       WriterEnds, worldVars, tickVars

\* What every step of the tick loop leaves alone.
LEMMA TickFrame ==
    ASSUME TickLoop
    PROVE  UNCHANGED <<sessions, closed, rpc, wpc, view, welcomed>>
BY DEF TickLoop, BeginStep, DrainInbox, ApplyMessage, IgnoreMessage, HandleHello, AcceptBuild,
       RejectBuild, HandleChat, DevCommand, Applying, Tick, StoreSnapshot, Enqueue,
       EnqueueFlag, Queued, sessVars

\* Only registered sessions and closed ones have players or messages in hand.
LEMMA RegisteredStep ==
    ASSUME TypeOK, Registered, [Next]_vars
    PROVE  Registered'
<1> DEFINE Known(s) == s \in sessions \/ closed[s]
<1> USE DEF TypeOK
<1>1. ASSUME NEW s \in Sessions, Connect(s) \/ RemoveSession(s) \/ Reader(s) \/ Writer(s)
      PROVE  Registered'
  <2>1. UNCHANGED <<joined, tpc, pending, todo>>
    BY <1>1, SessionFrame
  <2>2. ASSUME NEW t \in Sessions, Known(t) PROVE Known(t)'
    <3>1. CASE Connect(s)
      BY <2>2, <3>1 DEF Connect
    <3>2. CASE RemoveSession(s)
      BY <2>2, <3>2 DEF RemoveSession
    <3>3. CASE Reader(s)
      BY <2>2, <3>3 DEF Reader, ReadMessage, RefuseMessage, ReaderFlag, ReaderEnds, Close
    <3>4. CASE Writer(s)
      BY <2>2, <3>4 DEF Writer, WriterTop, WriterFlush, WriterFlushed, WriterLoad, WriterSend,
                        WriterTimeout, WriterEnds, Close
    <3> QED
      BY <1>1, <3>1, <3>2, <3>3, <3>4
  <2>3. \A i \in 1..Len(pending) : pending[i][1] \in Sessions
    BY ElementOfSeq
  <2> QED
    BY <2>1, <2>2, <2>3 DEF Registered
<1>2. CASE TickLoop
  <2>1. UNCHANGED <<sessions, closed>>
    BY <1>2, TickFrame
  <2>2. CASE BeginStep
    BY <2>1, <2>2 DEF BeginStep, sessVars, Registered
  <2>3. ASSUME NEW s \in Sessions, DrainInbox(s) PROVE Registered'
    <3> DEFINE new == [i \in 1..Len(inbox[s]) |-> <<s, inbox[s][i]>>]
    <3>1. Known(s) /\ joined' = joined /\ todo' = todo \ {s} /\ pending' = pending \o new
      BY <2>3 DEF DrainInbox, Registered
    <3>2. /\ inbox[s] \in Seq(MessageKinds)
          /\ pending \in Seq(Sessions \X MessageKinds)
      OBVIOUS
    <3>3. /\ Len(inbox[s]) \in Nat
          /\ \A i \in 1..Len(inbox[s]) : inbox[s][i] \in MessageKinds
      BY <3>2, LenProperties, ElementOfSeq
    <3>4. /\ new \in Seq(Sessions \X MessageKinds)
          /\ Len(new) = Len(inbox[s])
          /\ \A i \in 1..Len(new) : new[i][1] = s
      BY <3>3, IsASeq
    <3>5. ASSUME NEW i \in 1..Len(pending \o new) PROVE Known((pending \o new)[i][1])
      <4> HIDE DEF new
      <4>1. /\ Len(pending \o new) = Len(pending) + Len(new)
            /\ \A j \in 1..(Len(pending) + Len(new)) :
                  (pending \o new)[j] = IF j <= Len(pending) THEN pending[j]
                                        ELSE new[j - Len(pending)]
            /\ Len(pending) \in Nat /\ Len(new) \in Nat
        <5>1. Len(pending) \in Nat /\ Len(new) \in Nat
          BY <3>2, <3>4, LenProperties
        <5>2. /\ Len(pending \o new) = Len(pending) + Len(new)
              /\ \A j \in 1..(Len(pending) + Len(new)) :
                    (pending \o new)[j] = IF j <= Len(pending) THEN pending[j]
                                          ELSE new[j - Len(pending)]
          <6>1. pending \in Seq(Sessions \X MessageKinds) /\ new \in Seq(Sessions \X MessageKinds)
            BY <3>2, <3>4
          <6> HIDE DEF TypeOK
          <6> QED
            BY <6>1, ConcatProperties
        <5> QED
          BY <5>1, <5>2
      <4>2. CASE i <= Len(pending)
        BY <4>1, <4>2 DEF Registered
      <4>3. CASE ~(i <= Len(pending))
        <5>1. i - Len(pending) \in 1..Len(new) /\ (pending \o new)[i] = new[i - Len(pending)]
          BY <4>1, <4>3
        <5> QED
          BY <3>1, <3>4, <5>1, ZenonT(40)
      <4> QED
        BY <4>2, <4>3
    <3>6. tpc' = "drain" => tpc = "drain"
      BY <2>3 DEF DrainInbox
    <3> HIDE DEF new, TypeOK
    <3> QED
      BY <2>1, <3>1, <3>5, <3>6 DEF Registered
  <2>4. ASSUME NEW s \in Sessions, ApplyMessage(s) PROVE Registered'
    <3>1. ASSUME NEW m, Applying(s, m)
          PROVE  /\ \A i \in 1..Len(pending') : Known(pending'[i][1])
                 /\ Known(s)
      <4>1. /\ pending # <<>>
            /\ pending \in Seq(Sessions \X MessageKinds)
            /\ Head(pending) = <<s, m>>
            /\ pending' = Tail(pending)
        BY <3>1 DEF Applying
      <4>2. /\ Len(pending') = Len(pending) - 1
            /\ \A i \in 1..Len(pending') : pending'[i] = pending[i + 1]
            /\ Len(pending) \in Nat \ {0}
            /\ Head(pending) = pending[1]
        BY <4>1, HeadTailProperties, LenProperties, EmptySeq
      <4>3. \A i \in 1..Len(pending') : i + 1 \in 1..Len(pending)
        BY <4>2
      <4>4. \A i \in 1..Len(pending') : Known(pending'[i][1])
        BY <4>2, <4>3 DEF Registered
      <4>5. 1 \in 1..Len(pending) /\ pending[1][1] = s
        BY <4>1, <4>2
      <4> QED
        BY <4>4, <4>5 DEF Registered
    <3>2. ASSUME NEW t \in Sessions, joined'[t] PROVE joined[t] \/ t = s
      BY <2>4, <3>2 DEF ApplyMessage, IgnoreMessage, HandleHello, AcceptBuild, RejectBuild,
                        HandleChat, DevCommand
    <3>3. tpc' # "drain"
      BY <2>4 DEF ApplyMessage, IgnoreMessage, HandleHello, AcceptBuild, RejectBuild,
                  HandleChat, DevCommand, Applying, Queueing
    <3>4. \E m \in MessageKinds : Applying(s, m)
      BY <2>4 DEF ApplyMessage, IgnoreMessage, HandleHello, AcceptBuild, RejectBuild,
                  HandleChat, DevCommand, MessageKinds
    <3> QED
      BY <2>1, <3>1, <3>2, <3>3, <3>4 DEF Registered
  <2>5. CASE Tick \/ StoreSnapshot \/ Queued
    BY <2>1, <2>5 DEF Tick, StoreSnapshot, Queued, sessVars, Registered
  <2>6. ASSUME NEW s \in Sessions, Enqueue(s) \/ EnqueueFlag(s) PROVE Registered'
    BY <2>1, <2>6 DEF Enqueue, EnqueueFlag, Registered
  <2> QED
    BY <1>2, <2>2, <2>3, <2>4, <2>5, <2>6 DEF TickLoop
<1>3. CASE UNCHANGED vars
  BY <1>3 DEF vars, sessVars, tickVars, Registered
<1> QED
  BY <1>1, <1>2, <1>3 DEF Next

\* What the steps between two ticks do to the world and its marks.
LEMMA ApplyFrame ==
    ASSUME TypeOK, NEW s \in Sessions, ApplyMessage(s)
    PROVE  /\ tpc = "apply" /\ tpc' \in {"apply", "send"}
           /\ UNCHANGED <<lastSnap, sessions, inbox, out, resync, closed, rpc, wpc, view, welcomed,
                         dropped>>
           /\ dirty \subseteq dirty'
           /\ \A k \in Keys \ dirty' : world'[k] = world[k]
           /\ (\A k \in Keys : world[k] # 0) => (\A k \in Keys : world'[k] # 0)
           /\ tpc' = "send" => \A k \in Keys : cur'.upd[k] \in {0, world'[k]}
           /\ \A t \in Sessions \ {s} : joined'[t] = joined[t]
           /\ joined'[s] # joined[s] => tpc' = "send" /\ cur'.upd = world' /\ todo' = {s}
<1> USE DEF TypeOK, Applying
<1>1. ASSUME NEW K \in SUBSET Keys, Touch(K)
      PROVE  /\ world' \in Versions
             /\ dirty \subseteq dirty'
             /\ \A k \in Keys \ dirty' : world'[k] = world[k]
             /\ (\A k \in Keys : world[k] # 0) => (\A k \in Keys : world'[k] # 0)
  BY <1>1 DEF Touch, Versions
<1>2. Text.upd = Nothing /\ \A k \in Keys : Nothing[k] = 0
  BY DEF Text, Msg, Nothing
<1>3. CASE \E m \in MessageKinds : IgnoreMessage(s, m)
  BY <1>3 DEF IgnoreMessage
<1>4. CASE HandleHello(s)
  <2>1. PICK K \in SUBSET Keys : Touch(K)
    BY <1>4 DEF HandleHello
  <2>2. cur'.upd = world' /\ tpc' = "send" /\ todo' = {s}
    BY <1>4 DEF HandleHello, Queueing, Msg
  <2> QED
    BY <1>1, <1>4, <2>1, <2>2 DEF HandleHello
<1>5. CASE AcceptBuild(s)
  BY <1>1, <1>5 DEF AcceptBuild
<1>6. CASE RejectBuild(s)
  BY <1>2, <1>6 DEF RejectBuild, Queueing
<1>7. CASE HandleChat(s)
  BY <1>2, <1>7 DEF HandleChat, Queueing, Msg
<1>8. CASE DevCommand(s)
  <2>1. PICK K \in SUBSET Keys : Touch(K)
    BY <1>8 DEF DevCommand
  <2> QED
    BY <1>1, <1>2, <1>8, <2>1 DEF DevCommand, Queueing
<1> QED
  BY <1>3, <1>4, <1>5, <1>6, <1>7, <1>8 DEF ApplyMessage

\* What a tick does to them: the diff names every key that changed or was
\* marked, in its new version.
LEMMA TickStep ==
    ASSUME TypeOK, Tick
    PROVE  /\ tpc = "apply" /\ tpc' = "store" /\ dirty' = {}
           /\ UNCHANGED <<lastSnap, sessVars, pending, todo, dropped>>
           /\ \A k \in Keys : \/ cur'.upd[k] = world'[k]
                              \/ cur'.upd[k] = 0 /\ k \notin dirty /\ world'[k] = world[k]
           /\ (\A k \in Keys : world[k] # 0) => (\A k \in Keys : world'[k] # 0)
<1>1. PICK K \in SUBSET Keys :
         /\ world' = [k \in Keys |-> IF k \in K THEN world[k] + 1 ELSE world[k]]
         /\ cur' = Msg("diff", Changes(world', dirty \cup K))
  BY DEF Tick
<1>2. \A k \in Keys : cur'.upd[k] = IF k \in dirty \cup K THEN world'[k] ELSE 0
  BY <1>1 DEF Msg, Changes
<1>3. \A k \in Keys : world[k] \in Nat
  BY DEF TypeOK, Versions
<1>4. \A k \in Keys : world'[k] = IF k \in K THEN world[k] + 1 ELSE world[k]
  BY <1>1
<1>5. (\A k \in Keys : world[k] # 0) => (\A k \in Keys : world'[k] # 0)
  BY <1>3, <1>4
<1>6. \A k \in Keys : \/ cur'.upd[k] = world'[k]
                      \/ cur'.upd[k] = 0 /\ k \notin dirty /\ world'[k] = world[k]
  BY <1>2, <1>4
<1> QED
  BY <1>5, <1>6 DEF Tick

\* The message being queued and the stored snapshot stay current.
LEMMA FreshStep ==
    ASSUME TypeOK, CurFresh, SnapFresh, [Next]_vars
    PROVE  CurFresh' /\ SnapFresh'
<1> USE DEF CurFresh, SnapFresh, AwaitsStore
<1>1. ASSUME NEW s \in Sessions, Connect(s) \/ RemoveSession(s) \/ Reader(s) \/ Writer(s)
      PROVE  CurFresh' /\ SnapFresh'
  BY <1>1, SessionFrame DEF Nothing
<1>2. ASSUME NEW s \in Sessions, DrainInbox(s) \/ Enqueue(s) \/ EnqueueFlag(s)
      PROVE  CurFresh' /\ SnapFresh'
  BY <1>2 DEF DrainInbox, Enqueue, EnqueueFlag, worldVars, Nothing
<1>3. ASSUME NEW s \in Sessions, ApplyMessage(s)
      PROVE  CurFresh' /\ SnapFresh'
  BY <1>3, ApplyFrame DEF Nothing
<1>4. CASE Tick
  BY <1>4, TickStep DEF Nothing
<1>5. CASE StoreSnapshot
  <2>1. lastSnap' = world /\ world' = world /\ dirty' = dirty /\ cur' = cur /\ tpc = "store"
    BY <1>5 DEF StoreSnapshot
  <2>2. world # Nothing
    BY SyncAssumption DEF Nothing
  <2> QED
    BY <2>1, <2>2 DEF Nothing
<1>6. CASE BeginStep \/ Queued
  BY <1>6 DEF BeginStep, Queued, worldVars, Nothing
<1>7. CASE UNCHANGED vars
  BY <1>7 DEF vars, worldVars, tickVars, Nothing
<1> QED
  BY <1>1, <1>2, <1>3, <1>4, <1>5, <1>6, <1>7 DEF Next, TickLoop

\* What encoding may read of a key: what the message says, or the world's.
LEMMA ReadSays ==
    ASSUME NEW u \in Versions, NEW L, NEW v \in Versions, NEW k \in Keys, world[k] # 0
    PROVE  /\ u[k] = 0 => Applied(v, Read(u, L))[k] = v[k]
           /\ u[k] # 0 => Applied(v, Read(u, L))[k] \in {u[k], world[k]}
<1>1. Read(u, L)[k] = IF u[k] # 0 /\ k \in L THEN world[k] ELSE u[k]
  BY DEF Read
<1>2. Applied(v, Read(u, L))[k] = IF Read(u, L)[k] = 0 THEN v[k] ELSE Read(u, L)[k]
  BY DEF Applied
<1> QED
  BY <1>1, <1>2

\* Before the first snapshot, nothing but one version of an unmarked key is
\* ever seen.
LEMMA ColdStep ==
    ASSUME TypeOK, CurFresh, SnapFresh, ColdFresh, [Next]_vars
    PROVE  ColdFresh'
<1>1. TypeOK'
  BY TypeStep
<1>2. \A k \in Keys : world[k] \in Nat /\ world[k] # 0
  BY DEF TypeOK, Versions, SnapFresh
<1>3. ASSUME NEW s \in Sessions, Connect(s) \/ RemoveSession(s) \/ Reader(s) \/ Writer(s)
      PROVE  ColdFresh'
  <2>1. UNCHANGED <<world, dirty, lastSnap, tpc, cur>>
    BY <1>3, SessionFrame
  <2>2. ASSUME lastSnap = Nothing, NEW t \in Sessions, NEW k \in Keys \ dirty, ~AwaitsStore(k)
        PROVE  view'[t][k] \in {0, world[k]} /\ NeverOther(out'[t], k, world[k])
    <3>1. view[t][k] \in {0, world[k]} /\ NeverOther(out[t], k, world[k])
      BY <2>2 DEF ColdFresh
    <3>2. view[t] \in Versions /\ out[t] \in Seq(Msgs)
      BY DEF TypeOK
    <3>3. CASE WriterSend(s) /\ t = s
      <4>1. out[s] # <<>> /\ out'[s] = Tail(out[s])
        BY <3>3 DEF WriterSend, TypeOK
      <4>2. Head(out[s]).upd \in Versions
        <5>1. Head(out[s]) \in Msgs
          BY <3>2, <3>3, <4>1, HeadTailProperties
        <5> QED
          BY <5>1 DEF Msgs
      <4>3. PICK L \in SUBSET Live : view'[s] = Applied(view[s], Read(Head(out[s]).upd, L))
        BY <3>3 DEF WriterSend, TypeOK
      <4>4. NeverOther(out'[s], k, world[k]) /\ Head(out[s]).upd[k] \in {0, world[k]}
        BY <1>2, <3>1, <3>2, <3>3, <4>1, KeepsToIt, TextType
      <4> QED
        BY <1>2, <3>1, <3>2, <3>3, <4>2, <4>3, <4>4, ReadSays
    <3>4. CASE WriterFlush(s) /\ t = s
      <4>1. out[s] # <<>> /\ out'[s] = Tail(out[s]) /\ view' = view
        BY <3>4 DEF WriterFlush, TypeOK
      <4> QED
        BY <1>2, <3>1, <3>2, <3>4, <4>1, KeepsToIt, TextType
    <3>5. CASE RefuseMessage(s) /\ t = s
      <4>1. view' = view /\ out'[s] \in {out[s], Append(out[s], Text)}
        BY <3>5 DEF RefuseMessage, ReaderEnqueue, TypeOK
      <4> QED
        BY <1>2, <3>1, <3>2, <3>5, <4>1, KeepsToIt, TextType
    <3>6. CASE view'[t] = view[t] /\ out'[t] = out[t]
      BY <3>1, <3>6
    <3> QED
      BY <1>3, <2>2, <3>3, <3>4, <3>5, <3>6
      DEF Connect, RemoveSession, Reader, ReadMessage, RefuseMessage, ReaderEnqueue, ReaderFlag,
          ReaderEnds, Writer, WriterTop, WriterFlush, WriterFlushed, WriterLoad, WriterSend,
          WriterTimeout, WriterEnds, TypeOK
  <2> QED
    BY <2>1, <2>2 DEF ColdFresh, AwaitsStore, Nothing
<1>4. CASE TickLoop
  <2>1. view' = view
    BY <1>4, TickFrame
  <2> SUFFICES ASSUME lastSnap' = Nothing, NEW t \in Sessions, NEW k \in Keys \ dirty',
                      ~AwaitsStore(k)'
               PROVE  view'[t][k] \in {0, world'[k]} /\ NeverOther(out'[t], k, world'[k])
    BY DEF ColdFresh, Nothing
  <2>2. CASE BeginStep \/ Queued
    BY <2>1, <2>2 DEF BeginStep, Queued, worldVars, sessVars, ColdFresh, AwaitsStore, Nothing
  <2>3. ASSUME NEW s \in Sessions, DrainInbox(s) \/ EnqueueFlag(s)
        PROVE  view'[t][k] \in {0, world'[k]} /\ NeverOther(out'[t], k, world'[k])
    BY <2>1, <2>3 DEF DrainInbox, EnqueueFlag, worldVars, ColdFresh, AwaitsStore, Nothing
  <2>4. ASSUME NEW s \in Sessions, ApplyMessage(s)
        PROVE  view'[t][k] \in {0, world'[k]} /\ NeverOther(out'[t], k, world'[k])
    <3>1. /\ lastSnap = Nothing /\ out' = out
          /\ k \notin dirty /\ world'[k] = world[k] /\ tpc = "apply"
      BY <2>4, ApplyFrame DEF Nothing
    <3> QED
      BY <2>1, <3>1 DEF ColdFresh, AwaitsStore
  <2>5. CASE Tick
    <3>1. /\ lastSnap = Nothing /\ out' = out
          /\ k \notin dirty /\ world'[k] = world[k] /\ tpc = "apply"
      BY <2>5, TickStep DEF AwaitsStore, sessVars, Nothing
    <3> QED
      BY <2>1, <3>1 DEF ColdFresh, AwaitsStore
  <2>6. CASE StoreSnapshot
    <3>1. lastSnap' = world
      BY <2>6 DEF StoreSnapshot
    <3>2. world # Nothing
      BY SyncAssumption DEF Nothing, SnapFresh
    <3> QED
      BY <3>1, <3>2 DEF Nothing
  <2>7. ASSUME NEW s \in Sessions, Enqueue(s)
        PROVE  view'[t][k] \in {0, world'[k]} /\ NeverOther(out'[t], k, world'[k])
    <3>1. /\ lastSnap = Nothing /\ k \notin dirty /\ world' = world /\ tpc = "send"
          /\ out'[t] \in {out[t], Append(out[t], cur)}
      BY <2>7 DEF Enqueue, worldVars, Nothing, TypeOK
    <3>2. view[t][k] \in {0, world[k]} /\ NeverOther(out[t], k, world[k])
      BY <3>1 DEF ColdFresh, AwaitsStore
    <3>3. cur.upd[k] \in {0, world[k]} /\ cur \in Msgs /\ out[t] \in Seq(Msgs)
      BY <3>1 DEF CurFresh, TypeOK
    <3>4. NeverOther(Append(out[t], cur), k, world[k])
      BY <1>2, <3>1, <3>2, <3>3, KeepsToIt
    <3> QED
      BY <2>1, <3>1, <3>2, <3>4
  <2> QED
    BY <1>4, <2>2, <2>3, <2>4, <2>5, <2>6, <2>7 DEF TickLoop
<1>5. CASE UNCHANGED vars
  BY <1>5 DEF vars, worldVars, sessVars, tickVars, ColdFresh, AwaitsStore, Nothing
<1> QED
  BY <1>3, <1>4, <1>5 DEF Next

-----------------------------------------------------------------------------
(* The queues *)

\* What OutFresh and NeverStale say of one session.
Fresh(s) ==
    /\ Playing(s) /\ ~Lossy(s) =>
          \A k \in Keys \ dirty : Silent(Stream(s), k) \/ LastSays(Stream(s), k, world[k])
    /\ Playing(s) /\ ~ResyncDue(s) => \A k \in Keys \ dirty : WillHold(s, k)

\* A step that neither touches s's queue nor unmarks a key keeps s fresh.
LEMMA Untouched ==
    ASSUME NEW s \in Sessions, Fresh(s),
           out'[s] = out[s], view'[s] = view[s],
           Playing(s)' => Playing(s),
           Pending(s)' <=> Pending(s), Pending(s) => cur' = cur,
           Lossy(s) => Lossy(s)', ResyncDue(s) => ResyncDue(s)',
           dirty \subseteq dirty', \A k \in Keys \ dirty' : world'[k] = world[k]
    PROVE  Fresh(s)'
<1>1. Stream(s)' = Stream(s)
  BY DEF Stream
<1> QED
  BY <1>1 DEF Fresh, WillHold

\* A message that says nothing can join the queue of s.
LEMMA SaysNothing ==
    ASSUME TypeOK, NEW s \in Sessions, Fresh(s), NEW m \in Msgs,
           \A k \in Keys : m.upd[k] = 0,
           out'[s] = Append(out[s], m), view'[s] = view[s],
           Playing(s)' => Playing(s),
           Pending(s)' <=> Pending(s), Pending(s) => cur' = cur,
           Lossy(s) => Lossy(s)', ResyncDue(s) => ResyncDue(s)',
           UNCHANGED <<world, dirty>>
    PROVE  Fresh(s)'
<1>1. /\ out[s] \in Seq(Msgs) /\ cur \in Msgs
      /\ Append(out[s], m) \in Seq(Msgs)
      /\ \A k \in Keys : world[k] \in Nat
  BY AppendProperties DEF TypeOK, Versions
<1>2. ASSUME NEW k \in Keys
      PROVE  /\ Silent(Stream(s), k) <=> Silent(Stream(s)', k)
             /\ LastSays(Stream(s), k, world[k]) <=> LastSays(Stream(s)', k, world[k])
  <2> DEFINE new == Append(out[s], m)
             w == world[k]
  <2>1. /\ Silent(new, k) <=> Silent(out[s], k)
        /\ LastSays(new, k, w) <=> LastSays(out[s], k, w)
    BY <1>1, AppendSays
  <2>2. /\ Silent(Append(out[s], cur), k) <=> Silent(out[s], k) /\ cur.upd[k] = 0
        /\ LastSays(Append(out[s], cur), k, w) <=>
              \/ w # 0 /\ cur.upd[k] = w
              \/ cur.upd[k] = 0 /\ LastSays(out[s], k, w)
    BY <1>1, AppendSays
  <2>3. /\ Silent(Append(new, cur), k) <=> Silent(new, k) /\ cur.upd[k] = 0
        /\ LastSays(Append(new, cur), k, w) <=>
              \/ w # 0 /\ cur.upd[k] = w
              \/ cur.upd[k] = 0 /\ LastSays(new, k, w)
    <3> HIDE DEF new
    <3> QED
      BY <1>1, AppendSays, ZenonT(40) DEF new
  <2>4. CASE Pending(s)
    <3>1. Stream(s) = Append(out[s], cur) /\ Stream(s)' = Append(new, cur)
      BY <2>4 DEF Stream
    <3> HIDE DEF new
    <3> QED
      BY <2>1, <2>2, <2>3, <3>1
  <2>5. CASE ~Pending(s)
    BY <2>1, <2>5 DEF Stream
  <2> QED
    BY <2>4, <2>5
<1> QED
  BY <1>2 DEF Fresh, WillHold

\* Queueing the message that was pending changes nothing of the stream.
LEMMA JoinsQueue ==
    ASSUME NEW s \in Sessions, Fresh(s), Pending(s), ~Pending(s)',
           out'[s] = Append(out[s], cur), view'[s] = view[s],
           Playing(s)' => Playing(s),
           Lossy(s) => Lossy(s)', ResyncDue(s) => ResyncDue(s)',
           UNCHANGED <<world, dirty>>
    PROVE  Fresh(s)'
<1>1. Stream(s)' = Stream(s)
  BY DEF Stream
<1> QED
  BY <1>1 DEF Fresh, WillHold

\* A message that becomes pending for s, and names every key that changed, in
\* its current version.
LEMMA BecomesPending ==
    ASSUME TypeOK, TypeOK', NEW s \in Sessions, Fresh(s), ~Pending(s), Pending(s)',
           out'[s] = out[s], view'[s] = view[s],
           Playing(s)' => Playing(s),
           Lossy(s) => Lossy(s)', ResyncDue(s) => ResyncDue(s)',
           \A k \in Keys \ dirty' :
              /\ world'[k] # 0
              /\ \/ cur'.upd[k] = world'[k]
                 \/ cur'.upd[k] = 0 /\ k \notin dirty /\ world'[k] = world[k]
    PROVE  Fresh(s)'
<1>1. Stream(s) = out[s] /\ Stream(s)' = Append(out[s], cur')
  BY DEF Stream
<1>2. /\ out[s] \in Seq(Msgs) /\ cur' \in Msgs
      /\ \A k \in Keys : world'[k] \in Nat
  BY DEF TypeOK, Versions
<1>3. ASSUME NEW k \in Keys \ dirty', cur'.upd[k] = world'[k]
      PROVE  LastSays(Stream(s)', k, world'[k])
  BY <1>1, <1>2, <1>3, AppendSays
<1>4. ASSUME NEW k \in Keys \ dirty', cur'.upd[k] = 0, world'[k] = world[k]
      PROVE  /\ Silent(Stream(s)', k) <=> Silent(Stream(s), k)
             /\ LastSays(Stream(s)', k, world'[k]) <=> LastSays(Stream(s), k, world[k])
  BY <1>1, <1>2, <1>4, AppendSays
<1> QED
  BY <1>3, <1>4 DEF Fresh, WillHold

\* What the writer sends on is held afterwards.
LEMMA SendsHead ==
    ASSUME TypeOK, NEW s \in Sessions, Fresh(s), WriterSend(s), \A k \in Keys : world[k] # 0
    PROVE  Fresh(s)'
<1>1. /\ out[s] # <<>> /\ out'[s] = Tail(out[s])
      /\ wpc[s] = "select" /\ wpc'[s] = "top"
      /\ UNCHANGED <<world, dirty, sessions, resync, closed, joined, rpc, tpc, cur, todo, dropped>>
  BY DEF WriterSend, worldVars, tickVars, TypeOK
<1>2. /\ out[s] \in Seq(Msgs) /\ cur \in Msgs
      /\ \A k \in Keys : world[k] \in Nat
      /\ view[s] \in Versions
  BY DEF TypeOK, Versions
<1>3. Tail(out[s]) \in Seq(Msgs) /\ Head(out[s]) \in Msgs
  BY <1>1, <1>2, HeadTailProperties
<1>4. Head(out[s]).upd \in Versions
  BY <1>3 DEF Msgs
<1>5. PICK L \in SUBSET Live : view'[s] = Applied(view[s], Read(Head(out[s]).upd, L))
  BY DEF WriterSend, TypeOK
<1>6. (Playing(s)' <=> Playing(s)) /\ (Lossy(s)' <=> Lossy(s)) /\ (Pending(s)' <=> Pending(s))
      /\ (ResyncDue(s)' <=> ResyncDue(s))
  BY <1>1 DEF Playing, Lossy, ResyncDue, Pending
<1>7. ASSUME NEW k \in Keys
      PROVE  /\ Silent(out[s], k) <=> Silent(Tail(out[s]), k) /\ Head(out[s]).upd[k] = 0
             /\ LastSays(out[s], k, world[k]) <=>
                  \/ LastSays(Tail(out[s]), k, world[k])
                  \/ Silent(Tail(out[s]), k) /\ Head(out[s]).upd[k] = world[k]
             /\ Head(out[s]).upd[k] = 0 => view'[s][k] = view[s][k]
             /\ Head(out[s]).upd[k] = world[k] => view'[s][k] = world[k]
  <2>1. world[k] # 0
    OBVIOUS
  <2>2. /\ Head(out[s]).upd[k] = 0 => view'[s][k] = view[s][k]
        /\ Head(out[s]).upd[k] # 0 => view'[s][k] \in {Head(out[s]).upd[k], world[k]}
    BY <1>2, <1>4, <1>5, <2>1, ReadSays
  <2> QED
    BY <1>1, <1>2, <2>1, <2>2, HeadSays
<1>8. ASSUME NEW k \in Keys
      PROVE  /\ Silent(Stream(s), k) <=>
                  Silent(out[s], k) /\ (Pending(s) => cur.upd[k] = 0)
             /\ LastSays(Stream(s), k, world[k]) <=>
                  \/ Pending(s) /\ cur.upd[k] = world[k]
                  \/ (Pending(s) => cur.upd[k] = 0) /\ LastSays(out[s], k, world[k])
  <2>1. CASE Pending(s)
    <3>1. Stream(s) = Append(out[s], cur)
      BY <2>1 DEF Stream
    <3>2. world[k] # 0
      OBVIOUS
    <3> QED
      BY <1>2, <2>1, <3>1, <3>2, AppendSays
  <2>2. CASE ~Pending(s)
    BY <2>2 DEF Stream
  <2> QED
    BY <2>1, <2>2
<1>9. ASSUME NEW k \in Keys
      PROVE  /\ Silent(Stream(s)', k) <=>
                  Silent(Tail(out[s]), k) /\ (Pending(s) => cur.upd[k] = 0)
             /\ LastSays(Stream(s)', k, world[k]) <=>
                  \/ Pending(s) /\ cur.upd[k] = world[k]
                  \/ (Pending(s) => cur.upd[k] = 0) /\ LastSays(Tail(out[s]), k, world[k])
  <2>1. CASE Pending(s)
    <3>1. Stream(s)' = Append(Tail(out[s]), cur)
      BY <1>1, <1>6, <2>1 DEF Stream
    <3>2. world[k] # 0
      OBVIOUS
    <3>3. /\ Silent(Append(Tail(out[s]), cur), k) <=> Silent(Tail(out[s]), k) /\ cur.upd[k] = 0
          /\ LastSays(Append(Tail(out[s]), cur), k, world[k]) <=>
                \/ cur.upd[k] = world[k]
                \/ cur.upd[k] = 0 /\ LastSays(Tail(out[s]), k, world[k])
      BY <1>2, <1>3, <3>2, AppendSays, ZenonT(40)
    <3> QED
      BY <2>1, <3>1, <3>3
  <2>2. CASE ~Pending(s)
    BY <1>1, <1>6, <2>2 DEF Stream
  <2> QED
    BY <2>1, <2>2
<1>10. ASSUME NEW k \in Keys,
              Silent(Stream(s), k) \/ LastSays(Stream(s), k, world[k])
       PROVE  Silent(Stream(s)', k) \/ LastSays(Stream(s)', k, world[k])
  BY <1>7, <1>8, <1>9, <1>10
<1>11. ASSUME NEW k \in Keys, WillHold(s, k) PROVE WillHold(s, k)'
  <2>1. CASE LastSays(Stream(s), k, world[k])
    <3>1. \/ LastSays(Stream(s)', k, world[k])
          \/ Silent(Stream(s)', k) /\ view'[s][k] = world[k]
      BY <1>7, <1>8, <1>9, <2>1
    <3> QED
      BY <1>1, <3>1 DEF WillHold
  <2>2. CASE Silent(Stream(s), k)
    <3>1. Silent(Stream(s)', k) /\ view'[s][k] = view[s][k]
      BY <1>7, <1>8, <1>9, <2>2
    <3>2. LastSays(Stream(s), k, world[k]) =>
             LastSays(Stream(s)', k, world[k]) \/ view'[s][k] = world[k]
      BY <1>7, <1>8, <1>9
    <3> QED
      BY <1>1, <1>11, <3>1, <3>2 DEF WillHold
  <2> QED
    BY <1>11, <2>1, <2>2 DEF WillHold
<1> QED
  BY <1>1, <1>6, <1>10, <1>11 DEF Fresh

\* A session's own steps do not disturb another session.
LEMMA OtherSession ==
    ASSUME TypeOK, NEW s \in Sessions, NEW t \in Sessions \ {s}, Fresh(t),
           Connect(s) \/ RemoveSession(s) \/ Reader(s) \/ Writer(s)
    PROVE  Fresh(t)'
<1>1. UNCHANGED <<world, dirty, lastSnap, joined, tpc, pending, cur, todo, dropped>>
  BY SessionFrame
<1>2. /\ out'[t] = out[t] /\ view'[t] = view[t] /\ closed'[t] = closed[t]
      /\ resync'[t] = resync[t] /\ rpc'[t] = rpc[t] /\ wpc'[t] = wpc[t]
      /\ t \in sessions' <=> t \in sessions
  <2>1. CASE Connect(s)
    BY <2>1 DEF Connect, TypeOK
  <2>2. CASE RemoveSession(s)
    BY <2>2 DEF RemoveSession, TypeOK
  <2>3. CASE Reader(s)
    BY <2>3 DEF Reader, ReadMessage, RefuseMessage, ReaderEnqueue, ReaderFlag, ReaderEnds, Close,
                TypeOK
  <2>4. CASE Writer(s)
    BY <2>4 DEF Writer, WriterTop, WriterFlush, WriterFlushed, WriterLoad, WriterSend,
                WriterTimeout, WriterEnds, Close, TypeOK
  <2> QED
    BY <2>1, <2>2, <2>3, <2>4
<1>3. /\ Playing(t)' <=> Playing(t)
      /\ Pending(t)' <=> Pending(t)
      /\ Lossy(t)' <=> Lossy(t)
      /\ ResyncDue(t)' <=> ResyncDue(t)
  BY <1>1, <1>2 DEF Playing, Pending, Lossy, ResyncDue
<1> QED
  BY <1>1, <1>2, <1>3, Untouched

\* The writer has sent the snapshot, or found that there is none: what the
\* queue is silent about is covered.
LEMMA LoadsSnapshot ==
    ASSUME SyncInv, NEW s \in Sessions, WriterLoad(s)
    PROVE  Fresh(s)'
<1>1. /\ UNCHANGED <<world, dirty, lastSnap, joined, tpc, pending, cur, todo, dropped>>
      /\ out' = out /\ closed' = closed /\ sessions' = sessions /\ resync' = resync /\ rpc' = rpc
      /\ wpc[s] = "load" /\ wpc'[s] \in {"top", "select"}
      /\ \/ lastSnap = Nothing /\ view' = view
         \/ lastSnap # Nothing /\ view'[s] = lastSnap
  BY SessionFrame DEF WriterLoad, Writer, worldVars, tickVars, SyncInv, TypeOK
<1>2. /\ Playing(s)' <=> Playing(s)
      /\ Pending(s)' <=> Pending(s)
      /\ Lossy(s)' <=> Lossy(s)
      /\ ResyncDue(s)' <=> Lossy(s)
  BY <1>1 DEF Playing, Pending, Lossy, ResyncDue
<1>3. Stream(s)' = Stream(s)
  BY <1>1, <1>2 DEF Stream
<1> SUFFICES ASSUME Playing(s), ~Lossy(s), NEW k \in Keys \ dirty
             PROVE  /\ Silent(Stream(s), k) \/ LastSays(Stream(s), k, world[k])
                    /\ WillHold(s, k)'
  BY <1>1, <1>2, <1>3 DEF Fresh
<1>4. Silent(Stream(s), k) \/ LastSays(Stream(s), k, world[k])
  BY DEF SyncInv, OutFresh
<1>5. ASSUME AwaitsStore(k) PROVE LastSays(Stream(s), k, world[k])
  <2>1. Pending(s)
    BY <1>5 DEF AwaitsStore, Pending, Playing, SyncInv, Registered
  <2>2. Stream(s) = Append(out[s], cur)
    BY <2>1 DEF Stream
  <2>3. /\ out[s] \in Seq(Msgs) /\ cur \in Msgs /\ world[k] \in Nat /\ world[k] # 0
        /\ cur.upd[k] = world[k]
    BY <1>5 DEF SyncInv, TypeOK, SnapFresh, Versions, AwaitsStore
  <2>4. LastSays(Append(out[s], cur), k, world[k])
    BY <2>3, AppendSays
  <2> QED
    BY <2>2, <2>4
<1>6. ASSUME ~AwaitsStore(k)
      PROVE  view'[s][k] = world[k] \/ (~WarmStart /\ view'[s][k] = 0)
  <2>1. CASE lastSnap = Nothing
    BY <1>1, <1>6, <2>1 DEF SyncInv, ColdFresh, SnapFresh
  <2>2. CASE lastSnap # Nothing
    BY <1>1, <1>6, <2>2 DEF SyncInv, SnapFresh
  <2> QED
    BY <2>1, <2>2
<1>7. WillHold(s, k)'
  BY <1>1, <1>3, <1>4, <1>5, <1>6 DEF WillHold
<1> QED
  BY <1>4, <1>7

\* An emptied queue has lost everything but what is still to be queued.
LEMMA EmptiesQueue ==
    ASSUME SyncInv, NEW s \in Sessions, WriterFlushed(s)
    PROVE  Fresh(s)'
<1>1. /\ UNCHANGED <<world, dirty, lastSnap, joined, tpc, pending, cur, todo, dropped>>
      /\ out' = out /\ out[s] = <<>> /\ sessions' = sessions
      /\ wpc'[s] = "load"
  BY SessionFrame DEF WriterFlushed, Writer, worldVars, tickVars, SyncInv, TypeOK
<1>2. Pending(s)' <=> Pending(s)
  BY <1>1 DEF Pending
<1>3. ResyncDue(s)'
  BY <1>1 DEF ResyncDue
<1>4. ASSUME NEW k \in Keys
      PROVE  Silent(Stream(s)', k) \/ LastSays(Stream(s)', k, world[k])
  <2>1. CASE Pending(s)
    <3>1. Stream(s)' = Append(<<>>, cur)
      BY <1>1, <1>2, <2>1 DEF Stream
    <3>2. cur \in Msgs /\ world[k] \in Nat /\ world[k] # 0 /\ cur.upd[k] \in {0, world[k]}
      BY <2>1 DEF SyncInv, TypeOK, CurFresh, SnapFresh, Versions, Pending
    <3>3. <<>> \in Seq(Msgs)
      BY EmptySeq
    <3>4. Silent(Append(<<>>, cur), k) \/ LastSays(Append(<<>>, cur), k, world[k])
      BY <3>2, <3>3, AppendSays, EmptySays
    <3> QED
      BY <3>1, <3>4
  <2>2. CASE ~Pending(s)
    <3>1. Stream(s)' = <<>>
      BY <1>1, <1>2, <2>2 DEF Stream
    <3> QED
      BY <3>1, EmptySays
  <2> QED
    BY <2>1, <2>2
<1> QED
  BY <1>1, <1>3, <1>4 DEF Fresh

\* Nothing is owed to a session that is closed.
LEMMA ClosedIsFresh ==
    ASSUME NEW s \in Sessions, closed'[s]
    PROVE  Fresh(s)'
BY DEF Fresh, Playing

\* The steps of a session keep it fresh.
LEMMA SessionKeepsFresh ==
    ASSUME SyncInv, NEW s \in Sessions, Fresh(s),
           Connect(s) \/ RemoveSession(s) \/ Reader(s) \/ Writer(s)
    PROVE  Fresh(s)'
<1> USE DEF Playing, Pending, Lossy, ResyncDue
<1>1. UNCHANGED <<world, dirty, lastSnap, joined, tpc, pending, cur, todo, dropped>>
  BY SessionFrame
<1>2. TypeOK /\ \A k \in Keys : world[k] # 0
  BY DEF SyncInv, SnapFresh
<1>3. CASE closed'[s]
  BY <1>3, ClosedIsFresh
<1>4. CASE Connect(s) /\ ~closed'[s]
  <2>1. /\ out'[s] = out[s] /\ view'[s] = view[s] /\ closed' = closed /\ resync' = resync
        /\ rpc[s] = "none" /\ wpc[s] = "none" /\ sessions' = sessions \cup {s}
    BY <1>4 DEF Connect
  <2>2. joined[s] => s \in sessions
    BY <1>4, <2>1 DEF SyncInv, Registered
  <2> QED
    BY <1>1, <1>2, <2>1, <2>2, Untouched
<1>5. CASE RemoveSession(s)
  BY <1>5, ClosedIsFresh DEF RemoveSession
<1>6. CASE (\E m \in Requests \ {Undecodable} : ReadMessage(s, m)) \/ ReaderFlag(s)
  <2>1. /\ out' = out /\ view' = view /\ closed' = closed /\ sessions' = sessions /\ wpc' = wpc
        /\ resync[s] => resync'[s]
        /\ rpc[s] = "flag" => rpc'[s] = "flag" \/ resync'[s]
    BY <1>2, <1>6 DEF ReadMessage, ReaderFlag, TypeOK
  <2> QED
    BY <1>1, <2>1, Untouched
<1>7. CASE RefuseMessage(s) /\ ~closed'[s]
  <2>1. /\ view' = view /\ closed' = closed /\ sessions' = sessions /\ wpc' = wpc
        /\ resync' = resync /\ rpc[s] = "read"
        /\ out'[s] \in {out[s], Append(out[s], Text)}
    BY <1>2, <1>7 DEF RefuseMessage, ReaderEnqueue, TypeOK
  <2>2. CASE out'[s] = out[s]
    BY <1>1, <2>1, <2>2, Untouched
  <2>3. CASE out'[s] = Append(out[s], Text)
    BY <1>1, <1>2, <2>1, <2>3, SaysNothing, TextType
  <2> QED
    BY <2>1, <2>2, <2>3
<1>8. CASE ReaderEnds(s) \/ WriterEnds(s)
  <2>1. closed'[s]
    BY <1>2, <1>8 DEF ReaderEnds, WriterEnds, Close, TypeOK
  <2> QED
    BY <2>1, ClosedIsFresh
<1>9. CASE WriterTop(s)
  <2>1. /\ out' = out /\ view' = view /\ closed' = closed /\ sessions' = sessions /\ rpc' = rpc
        /\ wpc[s] = "top"
        /\ resync[s] => wpc'[s] = "flush"
    BY <1>2, <1>9 DEF WriterTop, TypeOK
  <2> QED
    BY <1>1, <2>1, Untouched
<1>10. CASE WriterFlush(s)
  <2>1. wpc'[s] = "flush"
    BY <1>10 DEF WriterFlush
  <2> QED
    BY <2>1 DEF Fresh
<1>11. CASE WriterTimeout(s)
  <2>1. /\ out' = out /\ view' = view /\ closed' = closed /\ sessions' = sessions /\ rpc' = rpc
        /\ wpc[s] = "select" /\ resync' = resync
    BY <1>11 DEF WriterTimeout
  <2> QED
    BY <1>1, <2>1, Untouched
<1> QED
  BY <1>2, <1>3, <1>4, <1>5, <1>6, <1>7, <1>8, <1>9, <1>10, <1>11,
     SendsHead, LoadsSnapshot, EmptiesQueue
  DEF Reader, Writer

\* The steps of the tick loop keep every session fresh.
LEMMA TickKeepsFresh ==
    ASSUME SyncInv, TypeOK', SnapFresh', TickLoop, NEW t \in Sessions, Fresh(t)
    PROVE  Fresh(t)'
<1> USE DEF Playing, Pending, Lossy, ResyncDue
<1>1. UNCHANGED <<sessions, closed, rpc, wpc, view, welcomed>>
  BY TickFrame
<1>2. TypeOK /\ \A k \in Keys : world[k] # 0 /\ world'[k] # 0
  BY DEF SyncInv, SnapFresh
<1>3. CASE closed'[t]
  BY <1>3, ClosedIsFresh
<1>4. CASE BeginStep
  BY <1>1, <1>4, Untouched DEF BeginStep, worldVars, sessVars
<1>5. ASSUME NEW s \in Sessions, DrainInbox(s) PROVE Fresh(t)'
  <2>1. /\ out' = out /\ resync' = resync /\ joined' = joined /\ world' = world /\ dirty' = dirty
        /\ dropped' = dropped /\ tpc = "drain" /\ tpc' \in {"drain", "apply"}
    BY <1>5 DEF DrainInbox, worldVars
  <2> QED
    BY <1>1, <2>1, Untouched
<1>6. ASSUME NEW s \in Sessions, ApplyMessage(s), ~closed'[t] PROVE Fresh(t)'
  <2>1. /\ tpc = "apply" /\ tpc' \in {"apply", "send"}
        /\ UNCHANGED <<lastSnap, sessions, inbox, out, resync, closed, rpc, wpc, view, welcomed,
                      dropped>>
        /\ dirty \subseteq dirty'
        /\ \A k \in Keys \ dirty' : world'[k] = world[k]
        /\ tpc' = "send" => \A k \in Keys : cur'.upd[k] \in {0, world'[k]}
        /\ t # s => joined'[t] = joined[t]
        /\ joined'[s] # joined[s] => tpc' = "send" /\ cur'.upd = world' /\ todo' = {s}
    BY <1>2, <1>6, ApplyFrame
  <2>2. CASE joined'[t] = joined[t] /\ ~(tpc' = "send" /\ t \in todo')
    BY <1>1, <2>1, <2>2, Untouched
  <2>3. CASE joined'[t] = joined[t] /\ tpc' = "send" /\ t \in todo'
    <3>1. \A k \in Keys \ dirty' :
             /\ world'[k] # 0
             /\ \/ cur'.upd[k] = world'[k]
                \/ cur'.upd[k] = 0 /\ k \notin dirty /\ world'[k] = world[k]
      BY <1>2, <2>1, <2>3
    <3>2. /\ ~Pending(t) /\ Pending(t)' /\ out'[t] = out[t] /\ view'[t] = view[t]
          /\ Playing(t)' => Playing(t)
          /\ Lossy(t) => Lossy(t)'
          /\ ResyncDue(t) => ResyncDue(t)'
      BY <1>1, <2>1, <2>3
    <3> HIDE DEF Playing, Pending, Lossy, ResyncDue
    <3> QED
      BY <1>2, <3>1, <3>2, BecomesPending
  <2>4. CASE joined'[t] # joined[t]
    <3>1. t = s /\ tpc' = "send" /\ cur'.upd = world' /\ todo' = {t}
      BY <2>1, <2>4
    <3>2. Stream(t)' = Append(out[t], cur')
      BY <2>1, <3>1 DEF Stream
    <3>3. out[t] \in Seq(Msgs) /\ cur' \in Msgs /\ \A k \in Keys : world'[k] \in Nat
      BY <1>2 DEF TypeOK, Versions
    <3>4. \A k \in Keys : LastSays(Append(out[t], cur'), k, world'[k])
      BY <1>2, <3>1, <3>3, AppendSays
    <3>5. \A k \in Keys : LastSays(Stream(t)', k, world'[k])
      BY <3>2, <3>4
    <3> QED
      BY <3>5 DEF Fresh, WillHold
  <2> QED
    BY <2>2, <2>3, <2>4
<1>7. CASE Tick /\ ~closed'[t]
  <2>1. /\ tpc = "apply" /\ tpc' = "store" /\ dirty' = {}
        /\ UNCHANGED <<lastSnap, sessVars, pending, todo, dropped>>
        /\ \A k \in Keys : \/ cur'.upd[k] = world'[k]
                           \/ cur'.upd[k] = 0 /\ k \notin dirty /\ world'[k] = world[k]
    BY <1>2, <1>7, TickStep
  <2>2. /\ out' = out /\ resync' = resync /\ joined' = joined
        /\ closed' = closed /\ sessions' = sessions
    BY <2>1 DEF sessVars
  <2>3. CASE joined[t]
    <3>1. t \in sessions
      BY <1>7, <2>2, <2>3 DEF SyncInv, Registered
    <3>2. /\ ~Pending(t) /\ Pending(t)' /\ out'[t] = out[t] /\ view'[t] = view[t]
          /\ Playing(t)' => Playing(t)
          /\ Lossy(t) => Lossy(t)'
          /\ ResyncDue(t) => ResyncDue(t)'
      BY <1>1, <2>1, <2>2, <2>3, <3>1
    <3> HIDE DEF Playing, Pending, Lossy, ResyncDue
    <3> QED
      BY <1>2, <2>1, <3>2, BecomesPending
  <2>4. CASE ~joined[t]
    BY <2>2, <2>4 DEF Fresh
  <2> QED
    BY <2>3, <2>4
<1>8. CASE StoreSnapshot /\ ~closed'[t]
  <2>1. /\ out' = out /\ resync' = resync /\ joined' = joined /\ world' = world /\ dirty' = dirty
        /\ dropped' = dropped /\ cur' = cur /\ tpc = "store" /\ tpc' = "send"
        /\ todo' = {s \in sessions : joined[s]}
    BY <1>8 DEF StoreSnapshot, sessVars
  <2> QED
    BY <1>1, <2>1, Untouched
<1>9. ASSUME NEW s \in Sessions, Enqueue(s), ~closed'[t] PROVE Fresh(t)'
  <2>1. /\ resync' = resync /\ joined' = joined /\ world' = world /\ dirty' = dirty
        /\ cur' = cur /\ tpc = "send" /\ tpc' = "send" /\ s \in todo /\ todo' = todo \ {s}
        /\ dropped = NoSession
    BY <1>9 DEF Enqueue, worldVars
  <2>2. NoSession # t
    BY SyncAssumption
  <2>3. CASE t # s
    <3>1. out'[t] = out[t]
      BY <1>2, <1>9, <2>3 DEF Enqueue, TypeOK
    <3> QED
      BY <1>1, <2>1, <2>2, <2>3, <3>1, Untouched
  <2>4. CASE t = s /\ out'[s] = Append(out[s], cur)
    <3>1. /\ Pending(t) /\ ~Pending(t)' /\ view'[t] = view[t]
          /\ Playing(t)' => Playing(t)
          /\ Lossy(t) => Lossy(t)'
          /\ ResyncDue(t) => ResyncDue(t)'
      BY <1>1, <2>1, <2>2, <2>4
    <3> HIDE DEF Playing, Pending, Lossy, ResyncDue
    <3> QED
      BY <2>1, <2>4, <3>1, JoinsQueue
  <2>5. CASE t = s /\ dropped' = s
    BY <2>5 DEF Fresh
  <2>6. t = s => out'[s] = Append(out[s], cur) \/ dropped' = s
    BY <1>1, <1>2, <1>9 DEF Enqueue, TypeOK
  <2> QED
    BY <2>3, <2>4, <2>5, <2>6
<1>10. ASSUME NEW s \in Sessions, EnqueueFlag(s) PROVE Fresh(t)'
  <2>1. /\ out' = out /\ joined' = joined /\ world' = world /\ dirty' = dirty
        /\ cur' = cur /\ tpc' = tpc /\ todo' = todo
        /\ dropped = s
        /\ resync[t] => resync'[t]
        /\ t = s => resync'[t]
    BY <1>2, <1>10 DEF EnqueueFlag, worldVars, TypeOK
  <2> QED
    BY <1>1, <2>1, Untouched
<1>11. CASE Queued
  <2>1. /\ out' = out /\ resync' = resync /\ joined' = joined /\ world' = world /\ dirty' = dirty
        /\ dropped' = dropped /\ tpc = "send" /\ todo = {} /\ tpc' \in {"idle", "apply"}
    BY <1>11 DEF Queued, worldVars, sessVars
  <2> QED
    BY <1>1, <2>1, Untouched
<1> QED
  BY <1>3, <1>4, <1>5, <1>6, <1>7, <1>8, <1>9, <1>10, <1>11 DEF TickLoop

\* OutFresh and NeverStale are Fresh of every session.
LEMMA FreshParts == OutFresh /\ NeverStale <=> \A s \in Sessions : Fresh(s)
BY DEF OutFresh, NeverStale, Fresh

\* SyncInv is inductive.
LEMMA SyncInvStep ==
    ASSUME SyncInv, [Next]_vars
    PROVE  SyncInv'
<1>1. TypeOK' /\ Registered' /\ CurFresh' /\ SnapFresh' /\ ColdFresh'
  BY TypeStep, RegisteredStep, FreshStep, ColdStep DEF SyncInv
<1>2. \A s \in Sessions : Fresh(s)
  BY FreshParts DEF SyncInv
<1>3. ASSUME NEW t \in Sessions PROVE Fresh(t)'
  <2>1. CASE TickLoop
    BY <1>1, <1>2, <2>1, TickKeepsFresh
  <2>2. ASSUME NEW s \in Sessions, Connect(s) \/ RemoveSession(s) \/ Reader(s) \/ Writer(s)
        PROVE  Fresh(t)'
    BY <1>2, <2>2, OtherSession, SessionKeepsFresh DEF SyncInv
  <2>3. CASE UNCHANGED vars
    <3>1. UNCHANGED <<world, dirty, sessions, out, resync, closed, joined, rpc, wpc, view,
                     tpc, cur, todo, dropped>>
      BY <2>3 DEF vars, worldVars, sessVars, tickVars
    <3> QED
      BY <1>2, <3>1, Untouched DEF Playing, Pending, Lossy, ResyncDue
  <2> QED
    BY <2>1, <2>2, <2>3 DEF Next
<1>4. OutFresh' /\ NeverStale'
  BY <1>3 DEF OutFresh, NeverStale, Fresh
<1> QED
  BY <1>1, <1>4 DEF SyncInv

\* The strengthening holds in every reachable state: a snapshot is current but
\* for the marked keys, and no queue that lost nothing ends behind the world.
THEOREM SyncInvariant == Spec => []SyncInv
<1>1. Init => SyncInv
  <2> SUFFICES ASSUME Init PROVE SyncInv
    OBVIOUS
  <2>1. TypeOK
    BY SyncAssumption, TextType, EmptySeq DEF Init, TypeOK, Versions, Nothing
  <2>2. Registered
    BY DEF Init, Registered
  <2>3. CurFresh
    BY DEF Init, CurFresh
  <2>4. SnapFresh
    <3>1. \A k \in Keys : world[k] = 1 /\ Nothing[k] = 0
      BY DEF Init, Nothing
    <3>2. lastSnap = IF WarmStart THEN world ELSE Nothing
      BY DEF Init
    <3>3. world # Nothing
      BY <3>1, SyncAssumption
    <3> QED
      BY <3>1, <3>2, <3>3 DEF SnapFresh
  <2>5. ColdFresh
    BY DEF Init, ColdFresh, NeverOther, Nothing
  <2>6. OutFresh /\ NeverStale
    BY DEF Init, OutFresh, NeverStale, Playing
  <2> QED
    BY <2>1, <2>2, <2>3, <2>4, <2>5, <2>6 DEF SyncInv
<1>2. SyncInv /\ [Next]_vars => SyncInv'
  BY SyncInvStep
<1> QED
  BY <1>1, <1>2, PTL DEF Spec

\* No client is left behind unnoticed: enqueue, writerLoop and step keep every
\* connected client's copy current, on its way, or marked for a resync.
THEOREM NeverLeftBehind == Spec => []NeverStale
<1>1. SyncInv => NeverStale
  BY DEF SyncInv
<1> QED
  BY <1>1, SyncInvariant, PTL

=============================================================================
