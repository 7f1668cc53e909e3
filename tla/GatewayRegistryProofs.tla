------------------------ MODULE GatewayRegistryProofs ------------------------
(***************************************************************************)
(* The registry and its file: RegistryInv is inductive, for any number of     *)
(* requests, ids and files and any number of restarts.                       *)
(***************************************************************************)
EXTENDS GatewayRegistry, TLAPS

USE GatewayAssumption DEF GatewayAssumption

\* No servers and no file.
LEMMA InitInv == Init => RegistryInv
<1> SUFFICES ASSUME Init PROVE RegistryInv
    OBVIOUS
<1> USE DEF Init, Persisting
<1>1. TypeOK
  <2>1. Nobody \in Lists
      BY DEF Nobody, Lists
  <2> QED
      BY <2>1 DEF TypeOK
<1>2. Locked /\ Opened /\ Renamable /\ Known
    BY DEF Locked, Opened, Renamable, Known
<1>3. Persisted /\ AckedInFile
    BY DEF Persisted, AckedInFile, Readable
<1>4. Replaced
    BY DEF Replaced
<1> QED
    BY <1>1, <1>2, <1>3, <1>4 DEF RegistryInv

\* A request comes in: nothing is locked or written.
LEMMA AcceptInv ==
    ASSUME RegistryInv, NEW h \in Handlers, NEW r \in ServerInfo, Accept(h, r)
    PROVE  RegistryInv'
<1> USE DEF Accept, Goes, Persisting, memVars, diskVars
<1>0. /\ TypeOK /\ Locked /\ Opened /\ Renamable /\ Persisted /\ AckedInFile /\ Known /\ Replaced
    BY DEF RegistryInv
<1>1. TypeOK'
    BY <1>0 DEF TypeOK, Lists
<1>2. Locked'
    BY <1>0 DEF TypeOK, Locked, Listed, ServerInfo
<1>3. Opened'
    BY <1>0 DEF TypeOK, Opened
<1>4. Renamable'
    BY <1>0 DEF TypeOK, Locked, Opened, Renamable, Sound, Rewritten, Lists
<1>5. Persisted'
    BY <1>0 DEF TypeOK, Locked, Opened, Renamable, Persisted, InProgress, Sound, Rewritten, Readable, Lists
<1>6. AckedInFile'
    BY <1>0 DEF TypeOK, Locked, Opened, Renamable, AckedInFile, Known, Sound, Rewritten, Readable
<1>7. Known'
    BY <1>0 DEF TypeOK, Locked, Known, Listed
<1>8. Replaced'
    BY <1>0 DEF TypeOK, Locked, Opened, Replaced
<1> QED
    BY <1>1, <1>2, <1>3, <1>4, <1>5, <1>6, <1>7, <1>8 DEF RegistryInv

\* The lock is asked for.
LEMMA AnnounceInv ==
    ASSUME RegistryInv, NEW h \in Handlers, Announce(h)
    PROVE  RegistryInv'
<1> USE DEF Announce, Goes, Persisting, memVars, diskVars
<1>0. /\ TypeOK /\ Locked /\ Opened /\ Renamable /\ Persisted /\ AckedInFile /\ Known /\ Replaced
    BY DEF RegistryInv
<1>1. TypeOK'
    BY <1>0 DEF TypeOK, Lists
<1>2. Locked'
    BY <1>0 DEF TypeOK, Locked, Listed, ServerInfo
<1>3. Opened'
    BY <1>0 DEF TypeOK, Opened
<1>4. Renamable'
    BY <1>0 DEF TypeOK, Locked, Opened, Renamable, Sound, Rewritten, Lists
<1>5. Persisted'
    BY <1>0 DEF TypeOK, Locked, Opened, Renamable, Persisted, InProgress, Sound, Rewritten, Readable, Lists
<1>6. AckedInFile'
    BY <1>0 DEF TypeOK, Locked, Opened, Renamable, AckedInFile, Known, Sound, Rewritten, Readable
<1>7. Known'
    BY <1>0 DEF TypeOK, Locked, Known, Listed
<1>8. Replaced'
    BY <1>0 DEF TypeOK, Locked, Opened, Replaced
<1> QED
    BY <1>1, <1>2, <1>3, <1>4, <1>5, <1>6, <1>7, <1>8 DEF RegistryInv

\* The map is changed while nobody persists, and its ids only grow.
LEMMA EnterInv ==
    ASSUME RegistryInv, NEW h \in Handlers, Enter(h)
    PROVE  RegistryInv'
<1> USE DEF Enter, Goes, Persisting, memVars, diskVars
<1>0. /\ TypeOK /\ Locked /\ Opened /\ Renamable /\ Persisted /\ AckedInFile /\ Known /\ Replaced
    BY DEF RegistryInv
<1>1. TypeOK'
  <2>1. req[h].id \in Ids /\ req[h].info \in Infos
      BY <1>0 DEF Locked, ServerInfo
  <2>2. servers' \in Lists
      BY <1>0, <2>1 DEF TypeOK, Lists
  <2> QED
      BY <1>0, <2>2 DEF TypeOK
<1>2. Locked'
  <2>1. req[h] \in ServerInfo /\ req[h].id \in Ids /\ req[h].info # NoInfo
      BY <1>0 DEF Locked, ServerInfo
  <2>2. Listed(servers)' = Listed(servers) \cup {req[h].id}
      BY <1>0, <2>1 DEF TypeOK, Listed, Lists
  <2> QED
      BY <1>0, <2>1, <2>2 DEF TypeOK, Locked
<1>3. Opened'
    BY <1>0 DEF TypeOK, Opened
<1>4. Renamable'
    BY <1>0 DEF TypeOK, Locked, Opened, Renamable, Sound, Rewritten, Lists
<1>5. Persisted'
    BY <1>0 DEF TypeOK, Locked, Opened, Renamable, Persisted, InProgress, Sound, Rewritten, Readable, Lists
<1>6. AckedInFile'
    BY <1>0 DEF TypeOK, Locked, Opened, Renamable, AckedInFile, Known, Sound, Rewritten, Readable
<1>7. Known'
  <2>1. req[h].id \in Ids /\ req[h].info # NoInfo
      BY <1>0 DEF Locked, ServerInfo
  <2>2. Listed(servers)' = Listed(servers) \cup {req[h].id}
      BY <1>0, <2>1 DEF TypeOK, Listed, Lists
  <2> QED
      BY <1>0, <2>2 DEF Known
<1>8. Replaced'
    BY <1>0 DEF TypeOK, Locked, Opened, Replaced
<1> QED
    BY <1>1, <1>2, <1>3, <1>4, <1>5, <1>6, <1>7, <1>8 DEF RegistryInv

\* The list is read.
LEMMA ReadListInv ==
    ASSUME RegistryInv, NEW h \in Handlers, ReadList(h)
    PROVE  RegistryInv'
<1> USE DEF ReadList, Goes, Persisting, memVars, diskVars
<1>0. /\ TypeOK /\ Locked /\ Opened /\ Renamable /\ Persisted /\ AckedInFile /\ Known /\ Replaced
    BY DEF RegistryInv
<1>1. TypeOK'
    BY <1>0 DEF TypeOK, Lists
<1>2. Locked'
    BY <1>0 DEF TypeOK, Locked, Listed, ServerInfo
<1>3. Opened'
    BY <1>0 DEF TypeOK, Opened
<1>4. Renamable'
    BY <1>0 DEF TypeOK, Locked, Opened, Renamable, Sound, Rewritten, Lists
<1>5. Persisted'
    BY <1>0 DEF TypeOK, Locked, Opened, Renamable, Persisted, InProgress, Sound, Rewritten, Readable, Lists
<1>6. AckedInFile'
    BY <1>0 DEF TypeOK, Locked, Opened, Renamable, AckedInFile, Known, Sound, Rewritten, Readable
<1>7. Known'
    BY <1>0 DEF TypeOK, Locked, Known, Listed
<1>8. Replaced'
    BY <1>0 DEF TypeOK, Locked, Opened, Replaced
<1> QED
    BY <1>1, <1>2, <1>3, <1>4, <1>5, <1>6, <1>7, <1>8 DEF RegistryInv

\* The file that is cut is never the live one.
LEMMA OpenTmpInv ==
    ASSUME RegistryInv, NEW h \in Handlers, OpenTmp(h)
    PROVE  RegistryInv'
<1> USE DEF OpenTmp, Goes, Persisting, memVars, diskVars, Unused
<1>0. /\ TypeOK /\ Locked /\ Opened /\ Renamable /\ Persisted /\ AckedInFile /\ Known /\ Replaced
    BY DEF RegistryInv
<1>1. TypeOK'
  <2>1. Nobody \in Lists
      BY DEF Nobody, Lists
  <2>2. (IF tmp = NoFile THEN CHOOSE x \in Unused : TRUE ELSE tmp) \in Inodes
      BY <1>0 DEF TypeOK
  <2> QED
      BY <1>0, <2>1, <2>2 DEF TypeOK
<1>2. Locked'
    BY <1>0 DEF TypeOK, Locked, Listed, ServerInfo
<1>3. Opened'
    BY <1>0 DEF TypeOK, Opened
<1>4. Renamable'
    BY <1>0 DEF TypeOK, Locked, Opened, Renamable, Sound, Rewritten, Lists
<1>5. Persisted'
    BY <1>0 DEF TypeOK, Locked, Opened, Renamable, Persisted, InProgress, Sound, Rewritten, Readable, Lists
<1>6. AckedInFile'
    BY <1>0 DEF TypeOK, Locked, Opened, Renamable, AckedInFile, Known, Sound, Rewritten, Readable
<1>7. Known'
    BY <1>0 DEF TypeOK, Locked, Known, Listed
<1>8. Replaced'
    BY <1>0 DEF TypeOK, Locked, Opened, Replaced
<1> QED
    BY <1>1, <1>2, <1>3, <1>4, <1>5, <1>6, <1>7, <1>8 DEF RegistryInv

\* What is written is the list of the registry, whichever name the file has now.
LEMMA WriteTmpInv ==
    ASSUME RegistryInv, NEW h \in Handlers, WriteTmp(h)
    PROVE  RegistryInv'
<1> USE DEF WriteTmp, Goes, Persisting, memVars, diskVars
<1>0. /\ TypeOK /\ Locked /\ Opened /\ Renamable /\ Persisted /\ AckedInFile /\ Known /\ Replaced
    BY DEF RegistryInv
<1>1. TypeOK'
    BY <1>0 DEF TypeOK, Lists
<1>2. Locked'
    BY <1>0 DEF TypeOK, Locked, Listed, ServerInfo
<1>3. Opened'
    BY <1>0 DEF TypeOK, Opened
<1>4. Renamable'
    BY <1>0 DEF TypeOK, Locked, Opened, Renamable, Sound, Rewritten, Lists
<1>5. Persisted'
    BY <1>0 DEF TypeOK, Locked, Opened, Renamable, Persisted, InProgress, Sound, Rewritten, Readable, Lists
<1>6. AckedInFile'
    BY <1>0 DEF TypeOK, Locked, Opened, Renamable, AckedInFile, Known, Sound, Rewritten, Readable
<1>7. Known'
    BY <1>0 DEF TypeOK, Locked, Known, Listed
<1>8. Replaced'
    BY <1>0 DEF TypeOK, Locked, Opened, Replaced
<1> QED
    BY <1>1, <1>2, <1>3, <1>4, <1>5, <1>6, <1>7, <1>8 DEF RegistryInv

\* What is renamed is sound, for another persists as well as this handler.
LEMMA RenameTmpInv ==
    ASSUME RegistryInv, NEW h \in Handlers, RenameTmp(h)
    PROVE  RegistryInv'
<1> USE DEF RenameTmp, Goes, Persisting, memVars, diskVars, Answer, Returns
<1>0. /\ TypeOK /\ Locked /\ Opened /\ Renamable /\ Persisted /\ AckedInFile /\ Known /\ Replaced
    BY DEF RegistryInv
<1>1. TypeOK'
  <2>1. Nobody \in Lists
      BY DEF Nobody, Lists
  <2>2. req' \in [Handlers -> ServerInfo \cup {NoInfo}] /\ doc' \in [Handlers -> Lists]
        /\ fd' \in [Handlers -> Inodes \cup {NoFile}]
      BY <1>0, <2>1 DEF TypeOK
  <2>3. acked' \subseteq Ids
      BY <1>0 DEF TypeOK, Locked, Listed
  <2> QED
      BY <1>0, <2>2, <2>3 DEF TypeOK
<1>2. Locked'
    BY <1>0 DEF TypeOK, Locked, Listed, ServerInfo
<1>3. Opened'
    BY <1>0 DEF TypeOK, Opened
<1>4. Renamable'
    BY <1>0 DEF TypeOK, Locked, Opened, Renamable, Sound, Rewritten, Lists
<1>5. Persisted'
    BY <1>0 DEF TypeOK, Locked, Opened, Renamable, Persisted, InProgress, Sound, Rewritten, Readable, Lists
<1>6. AckedInFile'
    BY <1>0 DEF TypeOK, Locked, Opened, Renamable, AckedInFile, Known, Sound, Rewritten, Readable
<1>7. Known'
    BY <1>0 DEF TypeOK, Locked, Known, Listed
<1>8. Replaced'
    BY <1>0 DEF TypeOK, Locked, Opened, Replaced
<1> QED
    BY <1>1, <1>2, <1>3, <1>4, <1>5, <1>6, <1>7, <1>8 DEF RegistryInv

\* Another has renamed the file, and the live one is sound.
LEMMA RenameMissingInv ==
    ASSUME RegistryInv, NEW h \in Handlers, RenameMissing(h)
    PROVE  RegistryInv'
<1> USE DEF RenameMissing, Goes, Persisting, memVars, diskVars, Answer, Returns
<1>0. /\ TypeOK /\ Locked /\ Opened /\ Renamable /\ Persisted /\ AckedInFile /\ Known /\ Replaced
    BY DEF RegistryInv
<1>1. TypeOK'
  <2>1. Nobody \in Lists
      BY DEF Nobody, Lists
  <2>2. req' \in [Handlers -> ServerInfo \cup {NoInfo}] /\ doc' \in [Handlers -> Lists]
        /\ fd' \in [Handlers -> Inodes \cup {NoFile}]
      BY <1>0, <2>1 DEF TypeOK
  <2>3. acked' \subseteq Ids
      BY <1>0 DEF TypeOK, Locked, Listed
  <2> QED
      BY <1>0, <2>2, <2>3 DEF TypeOK
<1>2. Locked'
    BY <1>0 DEF TypeOK, Locked, Listed, ServerInfo
<1>3. Opened'
    BY <1>0 DEF TypeOK, Opened
<1>4. Renamable'
    BY <1>0 DEF TypeOK, Locked, Opened, Renamable, Sound, Rewritten, Lists
<1>5. Persisted'
    BY <1>0 DEF TypeOK, Locked, Opened, Renamable, Persisted, InProgress, Sound, Rewritten, Readable, Lists
<1>6. AckedInFile'
    BY <1>0 DEF TypeOK, Locked, Opened, Renamable, AckedInFile, Known, Sound, Rewritten, Readable
<1>7. Known'
    BY <1>0 DEF TypeOK, Locked, Known, Listed
<1>8. Replaced'
    BY <1>0 DEF TypeOK, Locked, Opened, Replaced
<1> QED
    BY <1>1, <1>2, <1>3, <1>4, <1>5, <1>6, <1>7, <1>8 DEF RegistryInv

\* A failure is remembered, and nothing more is promised.
LEMMA DiskFailsInv ==
    ASSUME RegistryInv, NEW h \in Handlers, DiskFails(h)
    PROVE  RegistryInv'
<1> USE DEF DiskFails, Goes, Persisting, memVars, diskVars, Returns
<1>0. /\ TypeOK /\ Locked /\ Opened /\ Renamable /\ Persisted /\ AckedInFile /\ Known /\ Replaced
    BY DEF RegistryInv
<1>1. TypeOK'
  <2>1. Nobody \in Lists
      BY DEF Nobody, Lists
  <2>2. req' \in [Handlers -> ServerInfo \cup {NoInfo}] /\ doc' \in [Handlers -> Lists]
        /\ fd' \in [Handlers -> Inodes \cup {NoFile}]
      BY <1>0, <2>1 DEF TypeOK
  <2>3. acked' \subseteq Ids
      BY <1>0 DEF TypeOK, Locked, Listed
  <2> QED
      BY <1>0, <2>2, <2>3 DEF TypeOK
<1>2. Locked'
    BY <1>0 DEF TypeOK, Locked, Listed, ServerInfo
<1>3. Opened'
    BY <1>0 DEF TypeOK, Opened
<1>4. Renamable'
    BY <1>0 DEF TypeOK, Locked, Opened, Renamable, Sound, Rewritten, Lists
<1>5. Persisted'
    BY <1>0 DEF TypeOK, Locked, Opened, Renamable, Persisted, InProgress, Sound, Rewritten, Readable, Lists
<1>6. AckedInFile'
    BY <1>0 DEF TypeOK, Locked, Opened, Renamable, AckedInFile, Known, Sound, Rewritten, Readable
<1>7. Known'
    BY <1>0 DEF TypeOK, Locked, Known, Listed
<1>8. Replaced'
    BY <1>0 DEF TypeOK, Locked, Opened, Replaced
<1> QED
    BY <1>1, <1>2, <1>3, <1>4, <1>5, <1>6, <1>7, <1>8 DEF RegistryInv

\* The registry is what the file says, and nobody is under way.
LEMMA RestartInv ==
    ASSUME RegistryInv, Restart
    PROVE  RegistryInv'
<1> USE DEF Restart, Persisting, diskVars
<1>0. TypeOK
    BY DEF RegistryInv
<1>1. TypeOK'
  <2>1. Nobody \in Lists
      BY DEF Nobody, Lists
  <2>2. servers' \in Lists
      BY <1>0, <2>1 DEF TypeOK, Readable
  <2> QED
      BY <1>0, <2>1, <2>2 DEF TypeOK
<1>2. Locked' /\ Renamable' /\ Known'
    BY <1>0 DEF TypeOK, Locked, Renamable, Known
<1>3. Opened'
    BY <1>0 DEF TypeOK, Opened, RegistryInv
<1>4. Persisted' /\ AckedInFile'
    BY <1>0 DEF TypeOK, Persisted, AckedInFile, Readable
<1>5. Replaced'
    BY DEF Replaced
<1> QED
    BY <1>1, <1>2, <1>3, <1>4, <1>5 DEF RegistryInv

\* Every step keeps the invariant.
LEMMA NextInv == RegistryInv /\ [Next]_vars => RegistryInv'
<1> SUFFICES ASSUME RegistryInv, [Next]_vars PROVE RegistryInv'
    OBVIOUS
<1>1. CASE \E h \in Handlers : Handle(h)
    BY <1>1, AnnounceInv, EnterInv, ReadListInv, OpenTmpInv, WriteTmpInv, RenameTmpInv,
       RenameMissingInv DEF Handle
<1>2. CASE \E h \in Handlers : DiskFails(h)
    BY <1>2, DiskFailsInv
<1>3. CASE \E h \in Handlers, r \in ServerInfo : Accept(h, r)
    BY <1>3, AcceptInv
<1>4. CASE Restart
    BY <1>4, RestartInv
<1>5. CASE UNCHANGED vars
  <2> USE <1>5 DEF vars, memVars, diskVars
  <2>1. TypeOK' /\ Locked' /\ Opened' /\ Known'
      BY DEF RegistryInv, TypeOK, Locked, Opened, Known, Persisting
  <2>2. Renamable' /\ Persisted' /\ AckedInFile'
      BY DEF RegistryInv, Renamable, Persisted, AckedInFile, Sound, Rewritten, InProgress, Readable,
         Persisting
  <2>3. Replaced'
      BY DEF RegistryInv, Replaced
  <2> QED
      BY <2>1, <2>2, <2>3 DEF RegistryInv
<1> QED
    BY <1>1, <1>2, <1>3, <1>4, <1>5 DEF Next

(***************************************************************************)
(* The invariant of the registry, its lock and its files (Add, persist).       *)
(***************************************************************************)
THEOREM RegistryInvariant == Spec => []RegistryInv
<1> QED
    BY InitInv, NextInv, PTL DEF Spec

(***************************************************************************)
(* Once no registration is under way the file lists just the servers of the   *)
(* registry, though all of them wrote the same temporary file (persist).      *)
(***************************************************************************)
THEOREM FileCatchesUp == Spec => []Persisted
<1>1. RegistryInv => Persisted
    BY DEF RegistryInv
<1> QED
    BY <1>1, RegistryInvariant, PTL

(***************************************************************************)
(* An answered registration is in the file, except while the file is written  *)
(* under the name another handler has given it (persist, handleRegisterServer).*)
(***************************************************************************)
THEOREM AckedIsKept == Spec => []AckedInFile
<1>1. RegistryInv => AckedInFile
    BY DEF RegistryInv
<1> QED
    BY <1>1, RegistryInvariant, PTL

(***************************************************************************)
(* The state keeps its shape: what is read back from the file or sent in an    *)
(* answer is a whole list, and a handle is a file that exists (Add, load,      *)
(* persist).                                                                   *)
(***************************************************************************)
THEOREM RegistryTypes == Spec => []TypeOK
<1>1. RegistryInv => TypeOK
    BY DEF RegistryInv
<1> QED
    BY <1>1, RegistryInvariant, PTL

-----------------------------------------------------------------------------
(* DurableList *)

\* What DurableList sees when nothing that it sees changes.
LEMMA SeesNothing ==
    ASSUME servers' = servers, Readable' = Readable, failed' = failed,
           SomebodySaves' = SomebodySaves
    PROVE  [Durable!DNext]_(Durable!absVars)
BY DEF Durable!absVars

\* No list, and no file.
LEMMA InitDurable == Init => Durable!DInit
<1> SUFFICES ASSUME Init PROVE Durable!DInit
    OBVIOUS
<1>1. ~SomebodySaves
    BY DEF Init, SomebodySaves, Persisting
<1>2. servers = Durable!None /\ Readable = Durable!None /\ failed = FALSE
    BY DEF Init, Readable, Nobody, Durable!None
<1> QED
    BY <1>1, <1>2 DEF Durable!DInit

\* A registration enters while nobody saves.
LEMMA EnterDurable ==
    ASSUME RegistryInv, NEW h \in Handlers, Enter(h)
    PROVE  Durable!Register
<1>1. req[h].id \in Ids /\ req[h].info \in Infos
    BY DEF Enter, Goes, RegistryInv, Locked, ServerInfo
<1>2. ~SomebodySaves /\ ~SomebodySaves'
    BY DEF Enter, Goes, SomebodySaves, Persisting, RegistryInv, TypeOK
<1>3. servers' = [servers EXCEPT ![req[h].id] = req[h].info] /\ failed' = failed
    BY DEF Enter
<1>4. Readable' = Readable
    BY DEF Enter, diskVars, Readable
<1>5. \E i \in Ids, x \in Infos : servers' = [servers EXCEPT ![i] = x]
    <2> DEFINE i == req[h].id
               x == req[h].info
    <2>1. i \in Ids /\ x \in Infos /\ servers' = [servers EXCEPT ![i] = x]
        BY <1>1, <1>3
    <2> HIDE DEF i, x
    <2> QED
        BY <2>1
<1>6. SomebodySaves' = SomebodySaves
    BY <1>2 DEF SomebodySaves
<1> QED
    BY <1>2, <1>3, <1>4, <1>5, <1>6 DEF Durable!Register

\* The first to save begins a save, the others join it.
LEMMA ReadListDurable ==
    ASSUME RegistryInv, NEW h \in Handlers, ReadList(h)
    PROVE  [Durable!DNext]_(Durable!absVars)
<1>1. SomebodySaves'
    BY DEF ReadList, Goes, SomebodySaves, Persisting, RegistryInv, TypeOK
<1>2. servers' = servers /\ failed' = failed /\ Readable' = Readable
    BY DEF ReadList, diskVars, Readable
<1>3. SomebodySaves' \in BOOLEAN /\ SomebodySaves \in BOOLEAN
    BY DEF SomebodySaves
<1>4. CASE SomebodySaves
    BY <1>1, <1>2, <1>3, <1>4, SeesNothing
<1>5. CASE ~SomebodySaves
    BY <1>1, <1>2, <1>3, <1>5 DEF Durable!DNext, Durable!BeginSave
<1> QED
    BY <1>4, <1>5

\* The file that is cut is not the one that is read at a start.
LEMMA OpenTmpDurable ==
    ASSUME RegistryInv, NEW h \in Handlers, OpenTmp(h)
    PROVE  [Durable!DNext]_(Durable!absVars)
<1> DEFINE x == IF tmp = NoFile THEN CHOOSE y \in Unused : TRUE ELSE tmp
<1>1. x # live
    BY DEF OpenTmp, Unused, RegistryInv, Opened
<1>2. content' = [content EXCEPT ![x] = Nobody] /\ live' = live
    BY DEF OpenTmp
<1> HIDE DEF x
<1>3. Readable' = Readable
    BY <1>1, <1>2 DEF Readable, RegistryInv, TypeOK
<1>4. SomebodySaves /\ SomebodySaves'
    BY DEF OpenTmp, Goes, SomebodySaves, Persisting, RegistryInv, TypeOK
<1>5. servers' = servers /\ failed' = failed
    BY DEF OpenTmp
<1>6. SomebodySaves' \in BOOLEAN /\ SomebodySaves \in BOOLEAN
    BY DEF SomebodySaves
<1> QED
    BY <1>3, <1>4, <1>5, <1>6, SeesNothing

\* A step of somebody who saves.
LEMMA SavesOn ==
    ASSUME SomebodySaves, servers' = servers, failed' \in {failed, TRUE},
           Readable' \in {Readable, servers, Nobody, Cut},
           SomebodySaves' \/ failed' \/ Readable' = servers
    PROVE  Durable!Save
<1>1. SomebodySaves' \in BOOLEAN
    BY DEF SomebodySaves
<1> QED
    BY <1>1 DEF Durable!Save, Durable!Torn, Durable!None, Nobody

\* Whatever name the file has that is written, it is the present list.
LEMMA WriteTmpDurable ==
    ASSUME RegistryInv, NEW h \in Handlers, WriteTmp(h)
    PROVE  Durable!Save
<1>1. SomebodySaves /\ SomebodySaves'
    BY DEF WriteTmp, Goes, SomebodySaves, Persisting, RegistryInv, TypeOK
<1>2. servers' = servers /\ failed' = failed
    BY DEF WriteTmp
<1>3. doc[h] = servers
    BY DEF WriteTmp, Goes, Persisting, RegistryInv, Locked
<1>4. Readable' \in {Readable, servers}
    BY <1>3 DEF WriteTmp, Readable, RegistryInv, TypeOK
<1> QED
    BY <1>1, <1>2, <1>4, SavesOn

\* What is renamed is the present list, or torn while another writes it; the
\* last one finds it whole.
LEMMA RenameTmpDurable ==
    ASSUME RegistryInv, NEW h \in Handlers, RenameTmp(h)
    PROVE  Durable!Save
<1> USE DEF RenameTmp, Answer, Goes
<1>1. SomebodySaves
    BY DEF SomebodySaves, Persisting
<1>2. servers' = servers /\ failed' = failed /\ Readable' = content[tmp]
    BY DEF Readable
<1>3. content[tmp] \in {servers, Nobody, Cut}
    BY DEF RegistryInv, Replaced
<1>4. ASSUME ~failed, content[tmp] # servers
      PROVE  SomebodySaves'
  <2>1. Sound(tmp)
      BY <1>4 DEF RegistryInv, Renamable
  <2>2. PICK g \in Handlers : pc[g] = "write" /\ fd[g] = tmp
      BY <1>4, <2>1 DEF Sound, Rewritten
  <2>3. pc'[g] = "write"
      BY <2>2 DEF RegistryInv, TypeOK
  <2> QED
      BY <2>3 DEF SomebodySaves, Persisting
<1> QED
    BY <1>1, <1>2, <1>3, <1>4, SavesOn

\* The same of the file that another has renamed.
LEMMA RenameMissingDurable ==
    ASSUME RegistryInv, NEW h \in Handlers, RenameMissing(h)
    PROVE  Durable!Save
<1> USE DEF RenameMissing, Answer, Goes
<1>1. SomebodySaves
    BY DEF SomebodySaves, Persisting
<1>2. servers' = servers /\ failed' = failed /\ Readable' = Readable
    BY DEF Readable
<1>3. ASSUME ~failed, Readable # servers
      PROVE  SomebodySaves'
  <2>1. live # NoFile /\ Sound(live)
      BY <1>3 DEF RegistryInv, Renamable
  <2>2. PICK g \in Handlers : pc[g] = "write" /\ fd[g] = live
      BY <1>3, <2>1 DEF Sound, Rewritten, Readable
  <2>3. pc'[g] = "write"
      BY <2>2 DEF RegistryInv, TypeOK
  <2> QED
      BY <2>3 DEF SomebodySaves, Persisting
<1> QED
    BY <1>1, <1>2, <1>3, SavesOn

\* A failed write tears at most what it was writing.
LEMMA DiskFailsDurable ==
    ASSUME RegistryInv, NEW h \in Handlers, DiskFails(h)
    PROVE  Durable!Save
<1>1. SomebodySaves
    BY DEF DiskFails, SomebodySaves, Persisting
<1>2. servers' = servers /\ failed' = TRUE
    BY DEF DiskFails
<1>3. Readable' \in {Readable, Cut}
    BY DEF DiskFails, Readable, RegistryInv, TypeOK
<1> QED
    BY <1>1, <1>2, <1>3, SavesOn

\* A gateway starts from the file, and nobody saves.
LEMMA RestartDurable ==
    ASSUME RegistryInv, Restart
    PROVE  Durable!Restart
<1>1. SomebodySaves' = FALSE
    BY DEF Restart, SomebodySaves, Persisting
<1>2. servers' = Readable /\ Readable' = Readable /\ failed' = failed
    BY DEF Restart, diskVars, Readable
<1>3. Readable # Cut
    BY GatewayAssumption DEF Restart, Readable, Nobody
<1> QED
    BY <1>1, <1>2, <1>3 DEF Durable!Restart

\* Before a registration asks for the lock nothing is to be seen of it.
LEMMA WaitsDurable ==
    ASSUME RegistryInv, NEW h \in Handlers,
           Announce(h) \/ \E r \in ServerInfo : Accept(h, r)
    PROVE  [Durable!DNext]_(Durable!absVars)
<1>1. servers' = servers /\ failed' = failed /\ Readable' = Readable
    BY DEF Announce, Accept, diskVars, Readable
<1>2. \A g \in Handlers : Persisting(g)' <=> Persisting(g)
    BY DEF Announce, Accept, Goes, Persisting, RegistryInv, TypeOK
<1>3. SomebodySaves' = SomebodySaves
    BY <1>2 DEF SomebodySaves
<1> QED
    BY <1>1, <1>3, SeesNothing

\* Every step is a step of DurableList, or leaves what it sees alone.
LEMMA NextDurable == RegistryInv /\ [Next]_vars => [Durable!DNext]_(Durable!absVars)
<1> SUFFICES ASSUME RegistryInv, [Next]_vars PROVE [Durable!DNext]_(Durable!absVars)
    OBVIOUS
<1>1. CASE \E h \in Handlers : Handle(h)
  <2>1. PICK h \in Handlers : Handle(h)
      BY <1>1
  <2>2. CASE Announce(h)
      BY <2>2, WaitsDurable
  <2>3. CASE Enter(h)
      BY <2>3, EnterDurable DEF Durable!DNext
  <2>4. CASE ReadList(h)
      BY <2>4, ReadListDurable
  <2>5. CASE OpenTmp(h)
      BY <2>5, OpenTmpDurable
  <2>6. CASE WriteTmp(h) \/ RenameTmp(h) \/ RenameMissing(h)
      BY <2>6, WriteTmpDurable, RenameTmpDurable, RenameMissingDurable DEF Durable!DNext
  <2> QED
      BY <2>1, <2>2, <2>3, <2>4, <2>5, <2>6 DEF Handle
<1>2. CASE \E h \in Handlers : DiskFails(h)
    BY <1>2, DiskFailsDurable DEF Durable!DNext
<1>3. CASE \E h \in Handlers, r \in ServerInfo : Accept(h, r)
    BY <1>3, WaitsDurable
<1>4. CASE Restart
    BY <1>4, RestartDurable DEF Durable!DNext
<1>5. CASE UNCHANGED vars
  <2>1. servers' = servers /\ failed' = failed /\ Readable' = Readable /\ pc' = pc
      BY <1>5 DEF vars, memVars, diskVars, Readable
  <2>2. SomebodySaves' = SomebodySaves
      BY <2>1 DEF SomebodySaves, Persisting
  <2> QED
      BY <2>1, <2>2, SeesNothing
<1> QED
    BY <1>1, <1>2, <1>3, <1>4, <1>5 DEF Next

(***************************************************************************)
(* The registry implements DurableList: its file is never taken back to an     *)
(* earlier list, is torn only while a registration is saved, and has the       *)
(* present list when the last one is done (Add, persist, LoadRegistry).        *)
(***************************************************************************)
THEOREM ImplementsDurableList == Spec => KeepsList
<1> QED
    BY InitDurable, NextDurable, RegistryInvariant, PTL DEF Spec, KeepsList, Durable!DSpec

=============================================================================
