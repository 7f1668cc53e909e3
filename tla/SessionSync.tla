----------------------------- MODULE SessionSync -----------------------------
(***************************************************************************)
(* How the world server keeps every client's copy of the world up to date  *)
(* (server/session.go and the step of server/server.go).                   *)
(*                                                                         *)
(* Three kinds of goroutine run: the tick loop, which drains the inboxes,  *)
(* applies the messages, ticks the world, stores the encoded snapshot and  *)
(* queues the diff; and for every session a reader and a writer.  Queues   *)
(* are bounded: a message that finds its queue full is dropped, and a flag *)
(* asks the writer to throw its queue away and send the stored snapshot.   *)
(*                                                                         *)
(* The world is a function from Keys (an entity, a player, a tile) to the  *)
(* version of what is to be seen there, absence included.  A message       *)
(* carries for each key the version it states, or 0 when it does not name  *)
(* the key.  `view' is what the bytes written so far make the client hold. *)
(***************************************************************************)
EXTENDS Naturals, Sequences

CONSTANTS
    Sessions,   \* websocket connections; a reconnect is another session
    Keys,       \* things of the world a diff can name
    Live,       \* keys whose views share a map with the world (stock, resources)
    OutCap,     \* capacity of a session's out channel (128 in the code)
    InCap,      \* capacity of a session's inbox channel (128 in the code)
    Requests,   \* the kinds of message the clients send
    WarmStart,  \* TRUE: the server has completed a step, a snapshot is stored
    MaxVer,     \* bound of the model: versions a key goes through
    NoSession   \* model value: no session

MessageKinds == {"hello", "build", "chat", "command"}
Undecodable == "garbage"   \* what protocol.Decode refuses

ASSUME SyncAssumption ==
    /\ Live \subseteq Keys
    /\ Keys # {}
    /\ OutCap \in Nat \ {0}
    /\ InCap \in Nat \ {0}
    /\ Requests \subseteq MessageKinds \cup {Undecodable}
    /\ WarmStart \in BOOLEAN
    /\ MaxVer \in Nat
    /\ NoSession \notin Sessions

VARIABLES
    world,      \* version of every key
    dirty,      \* keys marked added, changed or removed since TakeChanges
    lastSnap,   \* Server.lastSnap: the versions of the stored snapshot
    sessions,   \* Server.sessions
    inbox,      \* Session.inbox
    out,        \* Session.out
    resync,     \* Session.resync
    closed,     \* Session.closed
    joined,     \* Session.playerID # ""
    rpc,        \* where the session's reader is
    wpc,        \* where the session's writer is
    view,       \* what the client holds
    welcomed,   \* the client has been sent a welcome
    tpc,        \* where the tick loop is
    pending,    \* messages drained and not yet applied
    cur,        \* message the tick loop is queueing
    todo,       \* sessions it is still to visit
    dropped     \* session whose queue was full, its flag not yet set

worldVars == <<world, dirty, lastSnap>>
tickVars == <<tpc, pending, cur, todo, dropped>>
sessVars == <<sessions, inbox, out, resync, closed, joined, rpc, wpc, view, welcomed>>
vars == <<worldVars, sessVars, tickVars>>

-----------------------------------------------------------------------------
(* Messages *)

Nothing == [k \in Keys |-> 0]
Versions == [Keys -> Nat]
Msg(t, u) == [type |-> t, upd |-> u]
Text == Msg("text", Nothing)
Msgs == [type : {"text", "chat", "welcome", "diff"}, upd : Versions]

\* The versions of the keys in K, and nothing about the others.
Changes(w, K) == [k \in Keys |-> IF k \in K THEN w[k] ELSE 0]

\* What a client holds once it has applied u on top of v.
Applied(v, u) == [k \in Keys |-> IF u[k] = 0 THEN v[k] ELSE u[k]]

\* What encoding a queued message may read: a view of a live key shares its
\* map with the world, so the encoder may see a version newer than the one
\* the message was built from.
Read(u, L) == [k \in Keys |-> IF u[k] # 0 /\ k \in L THEN world[k] ELSE u[k]]

\* Server.mu is held by the tick loop while it goes over the sessions.
MuHeld == tpc = "drain" \/ (tpc = "send" /\ cur.type \in {"chat", "diff"})

-----------------------------------------------------------------------------

Init ==
    /\ world = [k \in Keys |-> 1]
    /\ dirty \in IF WarmStart THEN {{}} ELSE SUBSET Keys
    /\ lastSnap = IF WarmStart THEN world ELSE Nothing
    /\ sessions = {}
    /\ inbox = [s \in Sessions |-> <<>>]
    /\ out = [s \in Sessions |-> <<>>]
    /\ resync = [s \in Sessions |-> FALSE]
    /\ closed = [s \in Sessions |-> FALSE]
    /\ joined = [s \in Sessions |-> FALSE]
    /\ rpc = [s \in Sessions |-> "none"]
    /\ wpc = [s \in Sessions |-> "none"]
    /\ view = [s \in Sessions |-> Nothing]
    /\ welcomed = [s \in Sessions |-> FALSE]
    /\ tpc = "idle"
    /\ pending = <<>>
    /\ cur = Text
    /\ todo = {}
    /\ dropped = NoSession

(* ------------------------------ connections ---------------------------- *)

\* handleWebSocket: registers the session and starts its two loops.
Connect(s) ==
    /\ ~MuHeld
    /\ rpc[s] = "none" /\ wpc[s] = "none"
    /\ sessions' = sessions \cup {s}
    /\ rpc' = [rpc EXCEPT ![s] = "read"]
    /\ wpc' = [wpc EXCEPT ![s] = "top"]
    /\ UNCHANGED <<worldVars, tickVars, inbox, out, resync, closed, joined, view, welcomed>>

\* closeAndCleanup up to the removal; the second caller does nothing.
Close(s) == closed' = [closed EXCEPT ![s] = TRUE]

\* removeSession, which closeAndCleanup calls after it has closed the socket.
RemoveSession(s) ==
    /\ closed[s]
    /\ s \in sessions
    /\ ~MuHeld
    /\ sessions' = sessions \ {s}
    /\ UNCHANGED <<worldVars, tickVars, inbox, out, resync, closed, joined, rpc, wpc,
                   view, welcomed>>

(* -------------------------------- reader ------------------------------- *)

\* enqueue from the reader: the message is queued, or the reader goes on to
\* set the flag.
ReaderEnqueue(s) ==
    IF closed[s] \/ Len(out[s]) < OutCap
    THEN /\ out' = [out EXCEPT ![s] = IF closed[s] THEN @ ELSE Append(@, Text)]
         /\ UNCHANGED rpc
    ELSE /\ rpc' = [rpc EXCEPT ![s] = "flag"]
         /\ UNCHANGED out

\* A message of the client is decoded and there is room for it.
ReadMessage(s, m) ==
    /\ rpc[s] = "read"
    /\ ~closed[s]
    /\ Len(inbox[s]) < InCap
    /\ inbox' = [inbox EXCEPT ![s] = Append(@, m)]
    /\ UNCHANGED <<worldVars, tickVars, sessions, out, resync, closed, joined, rpc, wpc,
                   view, welcomed>>

\* It cannot be decoded, or the inbox is full: the client is told.
RefuseMessage(s) ==
    /\ rpc[s] = "read"
    /\ ~closed[s]
    /\ Undecodable \in Requests \/ Len(inbox[s]) = InCap
    /\ ReaderEnqueue(s)
    /\ UNCHANGED <<worldVars, tickVars, sessions, inbox, resync, closed, joined, wpc,
                   view, welcomed>>

ReaderFlag(s) ==
    /\ rpc[s] = "flag"
    /\ resync' = [resync EXCEPT ![s] = TRUE]
    /\ rpc' = [rpc EXCEPT ![s] = "read"]
    /\ UNCHANGED <<worldVars, tickVars, sessions, inbox, out, closed, joined, wpc,
                   view, welcomed>>

\* The connection fails, the read deadline passes, or the writer has closed it.
ReaderEnds(s) ==
    /\ rpc[s] = "read"
    /\ rpc' = [rpc EXCEPT ![s] = "done"]
    /\ Close(s)
    /\ UNCHANGED <<worldVars, tickVars, sessions, inbox, out, resync, joined, wpc,
                   view, welcomed>>

(* -------------------------------- writer ------------------------------- *)

\* Mistaken: the queue is kept and sent after the snapshot.
WriterTopNoFlush(s) ==
    /\ wpc[s] = "top"
    /\ resync' = [resync EXCEPT ![s] = FALSE]
    /\ wpc' = [wpc EXCEPT ![s] = IF resync[s] THEN "load" ELSE "select"]
    /\ UNCHANGED <<worldVars, tickVars, sessions, inbox, out, closed, joined, rpc,
                   view, welcomed>>

\* The head of writerLoop: resync.Swap(false).
WriterTop(s) ==
    /\ wpc[s] = "top"
    /\ resync' = [resync EXCEPT ![s] = FALSE]
    /\ wpc' = [wpc EXCEPT ![s] = IF resync[s] THEN "flush" ELSE "select"]
    /\ UNCHANGED <<worldVars, tickVars, sessions, inbox, out, closed, joined, rpc,
                   view, welcomed>>

\* One turn of flushOut that finds a message.
WriterFlush(s) ==
    /\ wpc[s] = "flush"
    /\ out[s] # <<>>
    /\ out' = [out EXCEPT ![s] = Tail(@)]
    /\ UNCHANGED <<worldVars, tickVars, sessions, inbox, resync, closed, joined, rpc, wpc,
                   view, welcomed>>

\* The turn that finds none: flushOut returns.
WriterFlushed(s) ==
    /\ wpc[s] = "flush"
    /\ out[s] = <<>>
    /\ wpc' = [wpc EXCEPT ![s] = "load"]
    /\ UNCHANGED <<worldVars, tickVars, sessions, inbox, out, resync, closed, joined, rpc,
                   view, welcomed>>

\* Mistaken: the flag is cleared and nothing is sent.
WriterLoadSkips(s) ==
    /\ wpc[s] = "load"
    /\ wpc' = [wpc EXCEPT ![s] = "select"]
    /\ UNCHANGED <<worldVars, tickVars, sessions, inbox, out, resync, closed, joined, rpc,
                   view, welcomed>>

\* lastSnap.Load and the write of what it holds.  With no snapshot stored the
\* loop goes on to its select.
WriterLoad(s) ==
    /\ wpc[s] = "load"
    /\ \/ /\ lastSnap = Nothing
          /\ wpc' = [wpc EXCEPT ![s] = "select"]
          /\ UNCHANGED view
       \/ /\ lastSnap # Nothing
          /\ ~closed[s]
          /\ wpc' = [wpc EXCEPT ![s] = "top"]
          /\ view' = [view EXCEPT ![s] = lastSnap]
    /\ UNCHANGED <<worldVars, tickVars, sessions, inbox, out, resync, closed, joined, rpc,
                   welcomed>>

\* The select takes a message; a welcome's snapshot replaces what the client
\* holds, and names every key.  The encoder reads live maps as they are now.
WriterSend(s) ==
    /\ wpc[s] = "select"
    /\ out[s] # <<>>
    /\ ~closed[s]
    /\ LET m == Head(out[s])
       IN  /\ \E L \in SUBSET Live :
                 view' = [view EXCEPT ![s] = Applied(@, Read(m.upd, L))]
           /\ welcomed' = [welcomed EXCEPT ![s] = @ \/ m.type = "welcome"]
    /\ out' = [out EXCEPT ![s] = Tail(@)]
    /\ wpc' = [wpc EXCEPT ![s] = "top"]
    /\ UNCHANGED <<worldVars, tickVars, sessions, inbox, resync, closed, joined, rpc>>

\* 50 ms pass with nothing to send: a queued message, or the closed done
\* channel, wakes the select before its timer does.
WriterTimeout(s) ==
    /\ wpc[s] = "select"
    /\ out[s] = <<>>
    /\ ~closed[s]
    /\ wpc' = [wpc EXCEPT ![s] = "top"]
    /\ UNCHANGED <<worldVars, tickVars, sessions, inbox, out, resync, closed, joined, rpc,
                   view, welcomed>>

\* Mistaken: the select has no case for done.
WriterEndsByWrite(s) ==
    /\ wpc[s] \in {"load", "select"}
    /\ out[s] # <<>>
    /\ wpc' = [wpc EXCEPT ![s] = "done"]
    /\ Close(s)
    /\ UNCHANGED <<worldVars, tickVars, sessions, inbox, out, resync, joined, rpc,
                   view, welcomed>>

\* A write fails (always so once the socket is closed), or done is closed.
WriterEnds(s) ==
    /\ \/ wpc[s] = "load" /\ lastSnap # Nothing
       \/ wpc[s] = "select" /\ (out[s] # <<>> \/ closed[s])
    /\ wpc' = [wpc EXCEPT ![s] = "done"]
    /\ Close(s)
    /\ UNCHANGED <<worldVars, tickVars, sessions, inbox, out, resync, joined, rpc,
                   view, welcomed>>

(* ------------------------------- tick loop ----------------------------- *)

\* Entities, players or tiles change and are marked.
Touch(K) ==
    /\ \A k \in K : world[k] < MaxVer
    /\ world' = [k \in Keys |-> IF k \in K THEN world[k] + 1 ELSE world[k]]
    /\ dirty' = dirty \cup K

\* step begins: it takes mu and visits every session.
BeginStep ==
    /\ tpc = "idle"
    /\ tpc' = IF sessions = {} THEN "apply" ELSE "drain"
    /\ todo' = sessions
    /\ UNCHANGED <<worldVars, sessVars, pending, cur, dropped>>

\* Mistaken: the messages lose their session.
DrainInboxBare(s) ==
    /\ tpc = "drain"
    /\ s \in todo
    /\ pending' = pending \o inbox[s]
    /\ inbox' = [inbox EXCEPT ![s] = <<>>]
    /\ todo' = todo \ {s}
    /\ tpc' = IF todo' = {} THEN "apply" ELSE "drain"
    /\ UNCHANGED <<worldVars, sessions, out, resync, closed, joined, rpc, wpc, view, welcomed,
                   cur, dropped>>

\* drainInbox of one session, in the order the map gives.
DrainInbox(s) ==
    /\ tpc = "drain"
    /\ s \in todo
    /\ pending' = pending \o [i \in 1..Len(inbox[s]) |-> <<s, inbox[s][i]>>]
    /\ inbox' = [inbox EXCEPT ![s] = <<>>]
    /\ todo' = todo \ {s}
    /\ tpc' = IF todo' = {} THEN "apply" ELSE "drain"
    /\ UNCHANGED <<worldVars, sessions, out, resync, closed, joined, rpc, wpc, view, welcomed,
                   cur, dropped>>

\* applyMessage for the next drained message, of kind m from s.
Applying(s, m) ==
    /\ tpc = "apply"
    /\ pending # <<>>
    /\ Head(pending) = <<s, m>>
    /\ pending' = Tail(pending)
    /\ UNCHANGED <<lastSnap, sessions, inbox, out, resync, closed, rpc, wpc, view, welcomed,
                   dropped>>

\* Go on to queue message c for the sessions S.
Queueing(c, S) ==
    /\ tpc' = "send"
    /\ cur' = c
    /\ todo' = S

\* Anything but a hello from a session that has not said hello; a chat message
\* that is blank, and likewise one of a type the switch of applyMessage does not
\* know.
IgnoreMessage(s, m) ==
    /\ Applying(s, m)
    /\ m # "hello"
    /\ joined[s] => m = "chat"
    /\ UNCHANGED <<world, dirty, joined, tpc, cur, todo>>

\* handleHello: the player and its hub may be new; the welcome holds the whole
\* world as it is now.
HandleHello(s) ==
    /\ Applying(s, "hello")
    /\ \E K \in SUBSET Keys : Touch(K)
    /\ joined' = [joined EXCEPT ![s] = TRUE]
    /\ Queueing(Msg("welcome", world'), {s})

\* PlaceBuilding or RemoveBuilding is accepted: nothing is answered.
AcceptBuild(s) ==
    /\ Applying(s, "build")
    /\ joined[s]
    /\ \E K \in SUBSET Keys \ {{}} : Touch(K)
    /\ UNCHANGED <<joined, tpc, cur, todo>>

\* It is refused: the error is sent to its session.
RejectBuild(s) ==
    /\ Applying(s, "build")
    /\ joined[s]
    /\ Queueing(Text, {s})
    /\ UNCHANGED <<world, dirty, joined>>

\* handleChat: everyone connected is told, joined or not.
HandleChat(s) ==
    /\ Applying(s, "chat")
    /\ joined[s]
    /\ Queueing(Msg("chat", Nothing), sessions)
    /\ UNCHANGED <<world, dirty, joined>>

\* devCommand: it may change the world, and always answers.
DevCommand(s) ==
    /\ Applying(s, "command")
    /\ joined[s]
    /\ \E K \in SUBSET Keys : Touch(K)
    /\ Queueing(Text, {s})
    /\ UNCHANGED joined

\* world.Tick, TakeChanges, BuildDiff and BuildSnapshot.
Tick ==
    /\ tpc = "apply"
    /\ pending = <<>>
    /\ \E K \in SUBSET Keys :
          /\ \A k \in K : world[k] < MaxVer
          /\ world' = [k \in Keys |-> IF k \in K THEN world[k] + 1 ELSE world[k]]
          /\ cur' = Msg("diff", Changes(world', dirty \cup K))
    /\ dirty' = {}
    /\ tpc' = "store"
    /\ UNCHANGED <<lastSnap, sessVars, pending, todo, dropped>>

\* Mistaken: the loop stops at a session that has not joined.
StoreSnapshotBreak ==
    /\ tpc = "store"
    /\ lastSnap' = world
    /\ tpc' = "send"
    /\ todo' = IF \A s \in sessions : joined[s] THEN sessions ELSE {}
    /\ UNCHANGED <<world, dirty, sessVars, pending, cur, dropped>>

\* lastSnap.Store, then mu is taken for the joined sessions.
StoreSnapshot ==
    /\ tpc = "store"
    /\ lastSnap' = world
    /\ tpc' = "send"
    /\ todo' = {s \in sessions : joined[s]}
    /\ UNCHANGED <<world, dirty, sessVars, pending, cur, dropped>>

\* Mistaken: a plain channel send, which waits for room.
EnqueueBlocks(s) ==
    /\ tpc = "send"
    /\ dropped = NoSession
    /\ s \in todo
    /\ closed[s] \/ Len(out[s]) < OutCap
    /\ todo' = todo \ {s}
    /\ out' = [out EXCEPT ![s] = IF closed[s] THEN @ ELSE Append(@, cur)]
    /\ UNCHANGED <<worldVars, sessions, inbox, resync, closed, joined, rpc, wpc, view, welcomed,
                   tpc, pending, cur, dropped>>

\* enqueue of cur for one session.
Enqueue(s) ==
    /\ tpc = "send"
    /\ dropped = NoSession
    /\ s \in todo
    /\ todo' = todo \ {s}
    /\ IF closed[s] \/ Len(out[s]) < OutCap
       THEN /\ out' = [out EXCEPT ![s] = IF closed[s] THEN @ ELSE Append(@, cur)]
            /\ UNCHANGED dropped
       ELSE /\ dropped' = s
            /\ UNCHANGED out
    /\ UNCHANGED <<worldVars, sessions, inbox, resync, closed, joined, rpc, wpc, view, welcomed,
                   tpc, pending, cur>>

\* The flag that enqueue sets when the queue was full.
EnqueueFlag(s) ==
    /\ dropped = s
    /\ resync' = [resync EXCEPT ![s] = TRUE]
    /\ dropped' = NoSession
    /\ UNCHANGED <<worldVars, sessions, inbox, out, closed, joined, rpc, wpc, view, welcomed,
                   tpc, pending, cur, todo>>

\* The message is queued everywhere: on to the next one, or the step is over.
Queued ==
    /\ tpc = "send"
    /\ todo = {}
    /\ dropped = NoSession
    /\ tpc' = IF cur.type = "diff" THEN "idle" ELSE "apply"
    /\ cur' = Text
    /\ UNCHANGED <<worldVars, sessVars, pending, todo, dropped>>

-----------------------------------------------------------------------------

Reader(s) ==
    \/ \E m \in Requests \ {Undecodable} : ReadMessage(s, m)
    \/ RefuseMessage(s)
    \/ ReaderFlag(s)
    \/ ReaderEnds(s)

Writer(s) ==
    \/ WriterTop(s)
    \/ WriterFlush(s)
    \/ WriterFlushed(s)
    \/ WriterLoad(s)
    \/ WriterSend(s)
    \/ WriterTimeout(s)
    \/ WriterEnds(s)

ApplyMessage(s) ==
    \/ \E m \in MessageKinds : IgnoreMessage(s, m)
    \/ HandleHello(s)
    \/ AcceptBuild(s)
    \/ RejectBuild(s)
    \/ HandleChat(s)
    \/ DevCommand(s)

TickLoop ==
    \/ BeginStep
    \/ Tick
    \/ StoreSnapshot
    \/ Queued
    \/ \E s \in Sessions :
          DrainInbox(s) \/ ApplyMessage(s) \/ Enqueue(s) \/ EnqueueFlag(s)

Next ==
    \/ TickLoop
    \/ \E s \in Sessions : Connect(s) \/ RemoveSession(s) \/ Reader(s) \/ Writer(s)

Spec == Init /\ [][Next]_vars

\* The ticker fires for ever and a step never blocks (NeverWaits), so the tick
\* loop goes on.  Readers and writers are goroutines the runtime schedules, and
\* mu is handed to whoever has waited for a millisecond, so a session that asks
\* for it again and again gets it.  flushOut takes microseconds and a step
\* comes every 50 ms, so flushOut returns: nothing else keeps the tick loop
\* from refilling the queue for ever as fast as it is emptied.
\* Clients owe nothing: no fairness on connecting, sending or failing.
FairSpec ==
    /\ Spec
    /\ WF_vars(TickLoop)
    /\ \A s \in Sessions :
          /\ SF_vars(RemoveSession(s))
          /\ WF_vars(ReaderFlag(s))
          /\ WF_vars(closed[s] /\ ReaderEnds(s))
          /\ WF_vars(Writer(s))
          /\ []<>(wpc[s] # "flush")

-----------------------------------------------------------------------------
(* What is promised *)

TypeOK ==
    /\ world \in Versions
    /\ dirty \in SUBSET Keys
    /\ lastSnap \in Versions
    /\ sessions \in SUBSET Sessions
    /\ inbox \in [Sessions -> Seq(MessageKinds)]
    /\ out \in [Sessions -> Seq(Msgs)]
    /\ resync \in [Sessions -> BOOLEAN]
    /\ closed \in [Sessions -> BOOLEAN]
    /\ joined \in [Sessions -> BOOLEAN]
    /\ rpc \in [Sessions -> {"none", "read", "flag", "done"}]
    /\ wpc \in [Sessions -> {"none", "top", "flush", "load", "select", "done"}]
    /\ view \in [Sessions -> Versions]
    /\ welcomed \in [Sessions -> BOOLEAN]
    /\ tpc \in {"idle", "drain", "apply", "store", "send"}
    /\ pending \in Seq(Sessions \X MessageKinds)
    /\ cur \in Msgs
    /\ todo \in SUBSET Sessions
    /\ dropped \in Sessions \cup {NoSession}

\* What a queue q of messages says of key k: nothing; v, in the last message
\* that names it; nothing but v.
Silent(q, k) == \A i \in 1..Len(q) : q[i].upd[k] = 0
LastSays(q, k, v) ==
    \E i \in 1..Len(q) :
        /\ v # 0
        /\ q[i].upd[k] = v
        /\ \A j \in (i + 1)..Len(q) : q[j].upd[k] = 0

NeverOther(q, k, v) == \A i \in 1..Len(q) : q[i].upd[k] \in {0, v}

\* cur is still to be queued for s.
Pending(s) ==
    \/ tpc = "store" /\ s \in sessions /\ joined[s]
    \/ tpc = "send" /\ s \in todo

\* All that is on its way to s.
Stream(s) == IF Pending(s) THEN Append(out[s], cur) ELSE out[s]

\* Something was dropped for s, and the writer has yet to answer for it.
Lossy(s) ==
    \/ resync[s]
    \/ dropped = s
    \/ rpc[s] = "flag"
    \/ wpc[s] = "flush"

ResyncDue(s) == Lossy(s) \/ wpc[s] = "load"

Playing(s) == joined[s] /\ ~closed[s]

\* Once the queue is sent, s holds the current version of k.  A server that
\* had no snapshot to send may have left s without k.
WillHold(s, k) ==
    \/ LastSays(Stream(s), k, world[k])
    \/ /\ Silent(Stream(s), k)
       /\ view[s][k] = world[k] \/ (~WarmStart /\ view[s][k] = 0)

(***************************************************************************)
(* No client is left behind unnoticed (enqueue, writerLoop, step): unless a  *)
(* resync is due, whatever is no longer marked as changed is on its way to   *)
(* the client in its current version, or the client has it, whatever the     *)
(* order in which the tick loop, the reader and the writer run.              *)
(***************************************************************************)
NeverStale ==
    \A s \in Sessions : Playing(s) /\ ~ResyncDue(s) =>
        \A k \in Keys \ dirty : WillHold(s, k)

-----------------------------------------------------------------------------
(* Why NeverStale holds: what is true of the pieces at every step. *)

\* Whoever has a player, or has messages in hand, is registered or closed.
Registered ==
    LET Known(s) == s \in sessions \/ closed[s]
    IN  /\ \A s \in Sessions : joined[s] => Known(s)
        /\ tpc = "drain" => \A s \in todo : Known(s)
        /\ \A i \in 1..Len(pending) : Known(pending[i][1])

\* The message being queued states nothing but current versions.
CurFresh ==
    tpc \in {"store", "send"} => \A k \in Keys : cur.upd[k] \in {0, world[k]}

\* Between Tick and StoreSnapshot the message is ahead of the snapshot.
AwaitsStore(k) == tpc = "store" /\ cur.upd[k] = world[k]

\* A stored snapshot is current for every key not marked since.
SnapFresh ==
    /\ \A k \in Keys : world[k] # 0
    /\ WarmStart => lastSnap # Nothing
    /\ lastSnap # Nothing =>
          \A k \in Keys \ dirty : lastSnap[k] = world[k] \/ AwaitsStore(k)

\* Before the first snapshot there was no diff: a client knows of an unmarked
\* key the one version it has had, or nothing.
ColdFresh ==
    lastSnap = Nothing =>
        \A s \in Sessions, k \in Keys \ dirty :
            \/ AwaitsStore(k)
            \/ /\ view[s][k] \in {0, world[k]}
               /\ NeverOther(out[s], k, world[k])

\* A queue from which nothing has been lost ends with the current version.
OutFresh ==
    \A s \in Sessions : Playing(s) /\ ~Lossy(s) =>
        \A k \in Keys \ dirty :
            Silent(Stream(s), k) \/ LastSays(Stream(s), k, world[k])

(***************************************************************************)
(* The inductive strengthening of NeverStale: a client that is about to be   *)
(* sent the snapshot (wpc "load") is covered by the snapshot for the keys    *)
(* its queue is silent about, and by the queue for the others.               *)
(***************************************************************************)
SyncInv ==
    /\ TypeOK
    /\ Registered
    /\ CurFresh
    /\ SnapFresh
    /\ ColdFresh
    /\ OutFresh
    /\ NeverStale

-----------------------------------------------------------------------------

(***************************************************************************)
(* Once the world has stopped changing every client that stays connected    *)
(* comes to hold exactly the world, and keeps it (writerLoop's resync is a   *)
(* recovery, not only a drop).                                               *)
(***************************************************************************)
Converges ==
    \A s \in Sessions : <>[](Playing(s) => view[s] = world)

(***************************************************************************)
(* A closed connection leaves the server: its writer returns and the session *)
(* is removed, however often the tick loop holds mu (closeAndCleanup).       *)
(***************************************************************************)
ClosedLeaves ==
    \A s \in Sessions : closed[s] ~> (s \notin sessions /\ wpc[s] = "done" /\ rpc[s] = "done")

(***************************************************************************)
(* The step never waits for a client: wherever readers and writers are,      *)
(* full queues and closed sessions included, the tick loop has a step of its *)
(* own to take, so a message ends by being queued or dropped (enqueue does   *)
(* not block).                                                              *)
(***************************************************************************)
NeverWaits == ENABLED TickLoop

(***************************************************************************)
(* The server "sends its definitions to the client over the wire", in the   *)
(* welcome, and "embeds referenced textures into the content bundle it sends *)
(* every client": a client that has joined has been sent the welcome, or it  *)
(* is being queued or waits in the queue.                                    *)
(***************************************************************************)
WelcomeReachesClient ==
    \A s \in Sessions : Playing(s) =>
        \/ welcomed[s]
        \/ \E i \in 1..Len(out[s]) : out[s][i].type = "welcome"
        \/ tpc = "send" /\ cur.type = "welcome" /\ s \in todo

=============================================================================
