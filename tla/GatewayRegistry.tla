--------------------------- MODULE GatewayRegistry ---------------------------
(***************************************************************************)
(* The gateway's list of world servers (gateway/registry.go and the handler    *)
(* of POST /api/servers): requests run side by side, each adds its server to   *)
(* the map under the write lock and then writes the whole list to one and the  *)
(* same temporary file, under the read lock only, and renames it.  The process *)
(* may die between any two steps and starts again from the file.               *)
(***************************************************************************)
EXTENDS Naturals, FiniteSets

CONSTANTS
    Handlers,   \* requests; a process serves each once at most
    Ids,        \* ServerInfo.ID
    Infos,      \* the rest of a ServerInfo
    Inodes,     \* files on the disk, by whatever name
    NoInfo,     \* model value: no server of this id
    NoFile,     \* model value: no file of this name
    Cut,        \* model value: what a failed write leaves
    MaxCrashes  \* bound of the model

ASSUME GatewayAssumption ==
    /\ NoInfo \notin Infos
    /\ NoFile \notin Inodes
    /\ Cut \notin [Ids -> Infos \cup {NoInfo}]
    /\ MaxCrashes \in Nat

VARIABLES
    pc,        \* where each handler is
    req,       \* the ServerInfo it was sent, while it is served
    doc,       \* persist's doc, the list it writes
    fd,        \* the file it has opened
    servers,   \* Registry.servers
    content,   \* what each file holds
    live, tmp, \* the files named servers.yaml and servers.yaml.tmp
    acked,     \* history: ids whose registration was answered with 200
    failed,    \* history: the disk has refused something
    crashes

memVars == <<pc, req, doc, fd, servers>>
diskVars == <<content, live, tmp>>
vars == <<memVars, diskVars, acked, failed, crashes>>

ServerInfo == [id : Ids, info : Infos]
Lists == [Ids -> Infos \cup {NoInfo}]
Nobody == [i \in Ids |-> NoInfo]
Listed(list) == {i \in Ids : list[i] # NoInfo}

\* Those who hold the read lock of mu: List, which changes nothing, is left out.
Persisting(h) == pc[h] \in {"open", "write", "rename"}

Init ==
    /\ pc = [h \in Handlers |-> "idle"]
    /\ req = [h \in Handlers |-> NoInfo]
    /\ doc = [h \in Handlers |-> Nobody]
    /\ fd = [h \in Handlers |-> NoFile]
    /\ servers = Nobody
    /\ content = [x \in Inodes |-> Nobody]
    /\ live = NoFile /\ tmp = NoFile
    /\ acked = {} /\ failed = FALSE /\ crashes = 0

Goes(h, from, to) == pc[h] = from /\ pc' = [pc EXCEPT ![h] = to] /\ UNCHANGED crashes

\* A POST with the key, an id and a URL; any other request is refused before
\* anything is done.
Accept(h, r) ==
    /\ Goes(h, "idle", "add")
    /\ req' = [req EXCEPT ![h] = r]
    /\ UNCHANGED <<doc, fd, servers, diskVars, acked, failed>>

(* Add *)

\* Lock: from here on no new reader is let in; one writer at a time waits.
Announce(h) ==
    /\ \A g \in Handlers : pc[g] # "waiting"
    /\ Goes(h, "add", "waiting")
    /\ UNCHANGED <<req, doc, fd, servers, diskVars, acked, failed>>

\* Mistaken: the map is changed while others write it down.
EnterAtOnce(h) ==
    /\ Goes(h, "waiting", "rlock")
    /\ servers' = [servers EXCEPT ![req[h].id] = req[h].info]
    /\ UNCHANGED <<req, doc, fd, diskVars, acked, failed>>

\* The last reader has gone: the entry is made, and mu released.
Enter(h) ==
    /\ \A g \in Handlers : ~Persisting(g)
    /\ Goes(h, "waiting", "rlock")
    /\ servers' = [servers EXCEPT ![req[h].id] = req[h].info]
    /\ UNCHANGED <<req, doc, fd, diskVars, acked, failed>>

(* persist *)

\* Mistaken: the entry alone is written.
ReadEntry(h) ==
    /\ \A g \in Handlers : pc[g] # "waiting"
    /\ Goes(h, "rlock", "open")
    /\ doc' = [doc EXCEPT ![h] = [Nobody EXCEPT ![req[h].id] = req[h].info]]
    /\ UNCHANGED <<req, fd, servers, diskVars, acked, failed>>

\* Mistaken: mu is still locked by the handler itself.
ReadListLocked(h) ==
    /\ \A g \in Handlers : pc[g] \notin {"waiting", "rlock"}
    /\ Goes(h, "rlock", "open")
    /\ doc' = [doc EXCEPT ![h] = servers]
    /\ UNCHANGED <<req, fd, servers, diskVars, acked, failed>>

ReadList(h) ==
    /\ \A g \in Handlers : pc[g] # "waiting"
    /\ Goes(h, "rlock", "open")
    /\ doc' = [doc EXCEPT ![h] = servers]
    /\ UNCHANGED <<req, fd, servers, diskVars, acked, failed>>

\* A file that no name and no handler refers to.
Unused == {x \in Inodes : x \notin {live, tmp} /\ \A g \in Handlers : fd[g] # x}

\* WriteFile opens the file of that name and cuts it to nothing, or makes one.
OpenTmp(h) ==
    /\ Goes(h, "open", "write")
    /\ tmp = NoFile => Unused # {}
    /\ LET x == IF tmp = NoFile THEN CHOOSE x \in Unused : TRUE ELSE tmp IN
          /\ tmp' = x
          /\ fd' = [fd EXCEPT ![h] = x]
          /\ content' = [content EXCEPT ![x] = Nobody]
    /\ UNCHANGED <<req, doc, servers, live, acked, failed>>

\* The bytes go to the file that was opened, whatever its name is by now.
WriteTmp(h) ==
    /\ Goes(h, "write", "rename")
    /\ content' = [content EXCEPT ![fd[h]] = doc[h]]
    /\ UNCHANGED <<req, doc, fd, servers, live, tmp, acked, failed>>

\* The handler returns, and mu is released.
Returns(h) ==
    /\ req' = [req EXCEPT ![h] = NoInfo]
    /\ doc' = [doc EXCEPT ![h] = Nobody]
    /\ fd' = [fd EXCEPT ![h] = NoFile]

Answer(h, ok) ==
    /\ Goes(h, "rename", "done")
    /\ Returns(h)
    /\ acked' = IF ok THEN acked \cup {req[h].id} ELSE acked
    /\ UNCHANGED <<servers, content, failed>>

\* Mistaken: the file is answered for, and left where it is.
RenameLater(h) == Answer(h, TRUE) /\ UNCHANGED <<live, tmp>>

\* What is called tmp is renamed, whoever wrote it.
RenameTmp(h) ==
    /\ tmp # NoFile
    /\ Answer(h, TRUE)
    /\ live' = tmp
    /\ tmp' = NoFile

\* Somebody else has renamed it: 400, though the server is listed.
RenameMissing(h) ==
    /\ tmp = NoFile
    /\ Answer(h, FALSE)
    /\ UNCHANGED <<live, tmp>>

\* The disk refuses: the handler answers 400 and leaves things as they are.
DiskFails(h) ==
    /\ pc[h] \in {"open", "write", "rename"}
    /\ Goes(h, pc[h], "done")
    /\ Returns(h)
    /\ failed' = TRUE
    /\ content' \in IF pc[h] = "write" THEN {content, [content EXCEPT ![fd[h]] = Cut]} ELSE {content}
    /\ UNCHANGED <<servers, live, tmp, acked>>

\* LoadRegistry: what the file says; no file, or an empty one, says nothing.
Readable == IF live = NoFile THEN Nobody ELSE content[live]

\* Mistaken: whatever the file holds is taken for the list.
RestartAnyhow ==
    /\ crashes < MaxCrashes
    /\ crashes' = crashes + 1
    /\ servers' = Readable
    /\ acked' = {}
    /\ pc' = [h \in Handlers |-> "idle"]
    /\ req' = [h \in Handlers |-> NoInfo]
    /\ doc' = [h \in Handlers |-> Nobody]
    /\ fd' = [h \in Handlers |-> NoFile]
    /\ UNCHANGED <<diskVars, failed>>

\* The process dies; LoadRegistry reads the file, one that is missing or empty
\* as no servers.  A file that cannot be parsed is Fatal: there is no gateway.
Restart ==
    /\ crashes < MaxCrashes
    /\ crashes' = crashes + 1
    /\ live # NoFile => content[live] # Cut
    /\ servers' = Readable
    /\ acked' = acked \cap Listed(servers')
    /\ pc' = [h \in Handlers |-> "idle"]
    /\ req' = [h \in Handlers |-> NoInfo]
    /\ doc' = [h \in Handlers |-> Nobody]
    /\ fd' = [h \in Handlers |-> NoFile]
    /\ UNCHANGED <<diskVars, failed>>

Handle(h) ==
    \/ Announce(h) \/ Enter(h) \/ ReadList(h) \/ OpenTmp(h) \/ WriteTmp(h)
    \/ RenameTmp(h) \/ RenameMissing(h)

Next ==
    \/ \E h \in Handlers :
          \/ DiskFails(h) \/ Handle(h)
          \/ \E r \in ServerInfo : Accept(h, r)
    \/ Restart

Spec == Init /\ [][Next]_vars

\* A request that is being served goes on when it can.
FairSpec == Spec /\ \A h \in Handlers : WF_vars(Handle(h))

-----------------------------------------------------------------------------
(* What is promised *)

TypeOK ==
    /\ pc \in [Handlers -> {"idle", "add", "waiting", "rlock", "open", "write", "rename", "done"}]
    /\ req \in [Handlers -> ServerInfo \cup {NoInfo}]
    /\ doc \in [Handlers -> Lists]
    /\ fd \in [Handlers -> Inodes \cup {NoFile}]
    /\ servers \in Lists
    /\ content \in [Inodes -> Lists \cup {Cut}]
    /\ live \in Inodes \cup {NoFile}
    /\ tmp \in Inodes \cup {NoFile}
    /\ acked \subseteq Ids
    /\ failed \in BOOLEAN
    /\ crashes \in Nat

\* A handler is about to write file x.
Rewritten(x) == \E h \in Handlers : pc[h] = "write" /\ fd[h] = x

\* File x holds the list of the registry, or somebody is about to write it there.
Sound(x) == content[x] = servers \/ Rewritten(x)

(***************************************************************************)
(* The read lock is enough: though all the registrations write one temporary  *)
(* file and rename one another's, once none is under way the file lists just   *)
(* the servers of the registry, those of the refused requests included, unless *)
(* the disk has failed (Add's two locks, persist).                            *)
(***************************************************************************)
InProgress == \E h \in Handlers : pc[h] = "rlock" \/ Persisting(h)
Persisted ==
    ~failed /\ ~InProgress => servers = Readable

(***************************************************************************)
(* What was answered with 200 is in the file, so that a crash does not forget  *)
(* it, with one exception: while a handler writes a file that another has      *)
(* renamed under its hands, the file is empty (WriteFile's truncation, Rename).*)
(***************************************************************************)
AckedInFile ==
    ~failed => acked \subseteq Listed(Readable) \/ Rewritten(live)

(***************************************************************************)
(* The inductive invariant of the proofs.  Whoever persists writes the list of *)
(* the registry, for nobody changes it meanwhile; whoever has written finds    *)
(* that list under the name tmp or, renamed by another, under the name live.   *)
(***************************************************************************)
Locked ==
    /\ \A h \in Handlers : Persisting(h) => doc[h] = servers
    /\ \A h \in Handlers : pc[h] \in {"add", "waiting"} => req[h] \in ServerInfo
    /\ \A h \in Handlers : pc[h] = "rlock" \/ Persisting(h) =>
          req[h] \in ServerInfo /\ req[h].id \in Listed(servers)
Opened ==
    /\ \A h \in Handlers : pc[h] \in {"write", "rename"} <=> fd[h] # NoFile
    /\ tmp # NoFile => tmp # live
Renamable ==
    ~failed /\ (\E h \in Handlers : pc[h] \in {"write", "rename"}) =>
        IF tmp = NoFile THEN live # NoFile /\ Sound(live) ELSE Sound(tmp)
Known == acked \subseteq Listed(servers)
\* What is renamed is never a list of old: whoever renames has cut the file first.
Replaced ==
    tmp # NoFile /\ (\E h \in Handlers : pc[h] \in {"write", "rename"}) =>
        content[tmp] \in {servers, Nobody, Cut}
RegistryInv ==
    /\ TypeOK
    /\ Locked
    /\ Opened
    /\ Renamable
    /\ Persisted
    /\ AckedInFile
    /\ Known
    /\ Replaced

(***************************************************************************)
(* The registry implements a list that is saved as a whole: the file is never  *)
(* taken back to an earlier list, is torn only while somebody saves, and has   *)
(* the registry's list when the last one is done (Add, persist, LoadRegistry). *)
(***************************************************************************)
SomebodySaves == \E h \in Handlers : Persisting(h)
Durable == INSTANCE DurableList WITH
    listed <- servers,
    saved <- Readable,
    saving <- SomebodySaves,
    Unreadable <- Cut
KeepsList == Durable!DSpec

(***************************************************************************)
(* No registration waits for ever, whatever else is being registered (mu).     *)
(***************************************************************************)
Answered == \A h \in Handlers : pc[h] = "add" ~> pc[h] \in {"idle", "done"}

=============================================================================
