------------------------------ MODULE Accounts -------------------------------
(***************************************************************************)
(* Who is who on a world server (handleHello, World.AddPlayer, EnsureHub),  *)
(* and what of it survives a restart (save, New, FromData).                 *)
(*                                                                         *)
(* A session says hello with a name; the player of that name is found or   *)
(* made, gets a hub, and from then on the session acts as that player id.  *)
(* Players and buildings are saved; the counter that ids come from is not. *)
(***************************************************************************)
EXTENDS Integers, FiniteSets

CONSTANTS
    Sessions,   \* websocket connections
    Names,      \* what clients send as their name, blanks trimmed
    Size,       \* World.size (40 in the code)
    Column,     \* tiles findSpawn looks at (6 in the code)
    Dry,        \* tiles the generator left buildable, spawn meadow and all
    Plots,      \* tiles the players build on
    Restarts,   \* bound of the model: how often the server starts again
    NoPlayer    \* model value: a session that has not said hello

ASSUME AccountsAssumption ==
    /\ Size \in Nat
    /\ Column \in Nat \ {0}
    /\ Restarts \in Nat
    /\ NoPlayer \notin Nat

VARIABLES
    players,       \* World.players: the name of every id in use
    buildings,     \* World.entities: owner and kind by tile
    nextPlayerID,  \* Server.nextPlayerID
    who,           \* Session.playerID
    said,          \* the name the session's last hello gave
    disk,          \* the save file; while there is none, New makes the empty world
    starts         \* starts that are still to come

vars == <<players, buildings, nextPlayerID, who, said, disk, starts>>
World == [players |-> players, buildings |-> buildings]

-----------------------------------------------------------------------------

NoOne == [i \in {} |-> ""]
Nothing == [p \in {} |-> [owner |-> 0, kind |-> ""]]

\* Mistaken: a blank name stays blank.
AccountBlank(n) == n

\* A blank name becomes "Player".
Account(n) == IF n = "" THEN "Player" ELSE n

\* The ring of water and what lies outside are not buildable.
BuildableAt(p) ==
    /\ -Size < p[1] /\ p[1] < Size
    /\ -Size < p[2] /\ p[2] < Size
    /\ p \in Dry

Free(p) == BuildableAt(p) /\ p \notin DOMAIN buildings

Init ==
    /\ players = NoOne
    /\ buildings = Nothing
    /\ nextPlayerID = 1
    /\ who = [s \in Sessions |-> NoPlayer]
    /\ said = [s \in Sessions |-> ""]
    /\ disk = World
    /\ starts = Restarts

Put(f, k, v) == [x \in DOMAIN f \cup {k} |-> IF x = k THEN v ELSE f[x]]

\* PlayerByName: the ids of that name.
PlayerByName(P, n) == {i \in DOMAIN P : P[i] = n}

HasHub(i) == \E p \in DOMAIN buildings : buildings[p] = [owner |-> i, kind |-> "hub"]

\* findSpawn: the first free tile of a column that moves east with the number
\* of players, or the top of the column if none is free.
Spawn(n) ==
    LET at(y) == <<1 + 3 * n, y>>
        rows == {y \in 0..(Column - 1) : Free(at(y))}
    IN  IF rows = {} THEN at(0) ELSE at(CHOOSE y \in rows : \A z \in rows : y <= z)

\* EnsureHub for player i of n: PlaceBuilding may refuse, and nobody is told.
EnsureHub(i, n) ==
    buildings' = IF HasHub(i) \/ ~Free(Spawn(n)) THEN buildings
                 ELSE Put(buildings, Spawn(n), [owner |-> i, kind |-> "hub"])

\* Mistaken: the session keeps the player of its first hello.
HandleHelloOnce(s, n) ==
    LET name == Account(n)
        known == PlayerByName(players, name)
        i == IF known = {} THEN nextPlayerID ELSE CHOOSE j \in known : TRUE
    IN  /\ players' = IF known = {} THEN Put(players, i, name) ELSE players
        /\ nextPlayerID' = IF known = {} THEN nextPlayerID + 1 ELSE nextPlayerID
        /\ EnsureHub(i, Cardinality(DOMAIN players'))
        /\ who' = [who EXCEPT ![s] = IF @ = NoPlayer THEN i ELSE @]
        /\ said' = [said EXCEPT ![s] = n]
        /\ UNCHANGED <<disk, starts>>

\* Mistaken: the counter stays where it is.
HandleHelloStuck(s, n) ==
    LET name == Account(n)
        known == PlayerByName(players, name)
        i == IF known = {} THEN nextPlayerID ELSE CHOOSE j \in known : TRUE
    IN  /\ players' = IF known = {} THEN Put(players, i, name) ELSE players
        /\ EnsureHub(i, Cardinality(DOMAIN players'))
        /\ who' = [who EXCEPT ![s] = i]
        /\ said' = [said EXCEPT ![s] = n]
        /\ UNCHANGED <<nextPlayerID, disk, starts>>

HandleHello(s, n) ==
    LET name == Account(n)
        known == PlayerByName(players, name)
        i == IF known = {} THEN nextPlayerID ELSE CHOOSE j \in known : TRUE
    IN  /\ players' = IF known = {} THEN Put(players, i, name) ELSE players
        /\ nextPlayerID' = IF known = {} THEN nextPlayerID + 1 ELSE nextPlayerID
        /\ EnsureHub(i, Cardinality(DOMAIN players'))
        /\ who' = [who EXCEPT ![s] = i]
        /\ said' = [said EXCEPT ![s] = n]
        /\ UNCHANGED <<disk, starts>>

\* Mistaken: the owner is not looked at.
RemoveAnyBuilding(s, p) ==
    /\ who[s] # NoPlayer
    /\ p \in DOMAIN buildings
    /\ buildings' = [q \in DOMAIN buildings \ {p} |-> buildings[q]]
    /\ UNCHANGED <<players, nextPlayerID, who, said, disk, starts>>

\* PlaceBuilding and RemoveBuilding, as the player the session is.  A hub is a
\* building like the others, and costs nothing.
PlaceBuilding(s, p) ==
    /\ who[s] # NoPlayer
    /\ Free(p)
    /\ \E k \in {"hub", "other"} : buildings' = Put(buildings, p, [owner |-> who[s], kind |-> k])
    /\ UNCHANGED <<players, nextPlayerID, who, said, disk, starts>>

RemoveBuilding(s, p) ==
    /\ who[s] # NoPlayer
    /\ p \in DOMAIN buildings
    /\ buildings[p].owner = who[s]
    /\ buildings' = [q \in DOMAIN buildings \ {p} |-> buildings[q]]
    /\ UNCHANGED <<players, nextPlayerID, who, said, disk, starts>>

\* removeSession: another connection starts with no player.
Disconnect(s) ==
    /\ who[s] # NoPlayer
    /\ who' = [who EXCEPT ![s] = NoPlayer]
    /\ UNCHANGED <<players, buildings, nextPlayerID, said, disk, starts>>

\* The autosave, and the save on the way out.
Save ==
    /\ disk # World
    /\ disk' = World
    /\ UNCHANGED <<players, buildings, nextPlayerID, who, said, starts>>

\* Mistaken: the players are not loaded.
RestartNobody ==
    /\ starts > 0
    /\ starts' = starts - 1
    /\ players' = NoOne
    /\ buildings' = disk.buildings
    /\ nextPlayerID' = 1
    /\ who' = [s \in Sessions |-> NoPlayer]
    /\ UNCHANGED <<said, disk>>

\* The process ends, with a save before (Save) or without, and New starts from
\* the save.
Restart ==
    /\ starts > 0
    /\ starts' = starts - 1
    /\ players' = disk.players
    /\ buildings' = disk.buildings
    /\ nextPlayerID' = 1
    /\ who' = [s \in Sessions |-> NoPlayer]
    /\ UNCHANGED <<said, disk>>

Next ==
    \/ \E s \in Sessions :
          \/ \E n \in Names : HandleHello(s, n)
          \/ \E p \in Plots : PlaceBuilding(s, p)
          \/ \E p \in DOMAIN buildings : RemoveBuilding(s, p)
          \/ Disconnect(s)
    \/ Save
    \/ Restart

Spec == Init /\ [][Next]_vars

-----------------------------------------------------------------------------
(* What is promised *)

TypeOK ==
    /\ DOMAIN players \subseteq Nat
    /\ \A i \in DOMAIN players : players[i] \in (Names \ {""}) \cup {"Player"}
    /\ \A p \in DOMAIN buildings : buildings[p].owner \in Nat /\ buildings[p].kind \in {"hub", "other"}
    /\ nextPlayerID \in Nat \ {0}
    /\ who \in [Sessions -> Nat \cup {NoPlayer}]
    /\ said \in [Sessions -> Names \cup {""}]
    /\ starts \in 0..Restarts

(***************************************************************************)
(* In the first life of the server a session is the player whose name it     *)
(* has given, and two players never have one name: no hello, of this session *)
(* or another, first or repeated, makes a session act for somebody else      *)
(* (handleHello).  AccountsPersist tells what becomes of it after a restart. *)
(***************************************************************************)
Identity ==
    starts = Restarts =>
        /\ \A s \in Sessions : who[s] # NoPlayer =>
              who[s] \in DOMAIN players /\ players[who[s]] = Account(said[s])
        /\ \A i, j \in DOMAIN players : players[i] = players[j] => i = j

(***************************************************************************)
(* Whoever has a building is a player, in the world and in the save: what    *)
(* deliverToOwner and RemoveBuilding rely on, across saves and crashes.      *)
(***************************************************************************)
OwnersKnown ==
    /\ \A p \in DOMAIN buildings : buildings[p].owner \in DOMAIN players
    /\ \A p \in DOMAIN disk.buildings : disk.buildings[p].owner \in DOMAIN disk.players

(***************************************************************************)
(* In one life of the server a building goes by the hand of a session that    *)
(* has given the name of the player who owns it, whoever built it and however *)
(* often either has said hello since (RemoveBuilding: "not your structure").  *)
(***************************************************************************)
OwnersStep ==
    starts = Restarts /\ starts' = starts =>
        \A p \in DOMAIN buildings \ DOMAIN buildings' : \E s \in Sessions :
            who[s] # NoPlayer /\ Account(said[s]) = players[buildings[p].owner]
OwnersDecide == [][OwnersStep]_vars

-----------------------------------------------------------------------------
(* Why Identity and OwnersKnown hold *)

\* What a save holds is such as the world was.
DiskOK ==
    /\ DOMAIN disk.players \subseteq Nat
    /\ \A i \in DOMAIN disk.players : disk.players[i] \in (Names \ {""}) \cup {"Player"}
    /\ \A p \in DOMAIN disk.buildings : disk.buildings[p].kind \in {"hub", "other"}

\* Sessions act for players the world knows: a restart forgets both.
WhoKnown == \A s \in Sessions : who[s] # NoPlayer => who[s] \in DOMAIN players

\* Until a restart the counter is past every id in use.
FreshID == starts = Restarts => \A i \in DOMAIN players : i < nextPlayerID

(***************************************************************************)
(* The inductive invariant: who acts is known (WhoKnown), so what is built    *)
(* has a known owner; a new account takes an id that is free (FreshID), until *)
(* a restart turns the counter back (handleHello, New).                      *)
(***************************************************************************)
AccountsInv ==
    /\ TypeOK
    /\ DiskOK
    /\ WhoKnown
    /\ FreshID
    /\ Identity
    /\ OwnersKnown

-----------------------------------------------------------------------------

(***************************************************************************)
(* "A persistent multiplayer factory-building and combat RTS": an account     *)
(* that is in the save stays, under its name and its id.                      *)
(***************************************************************************)
AccountsPersist ==
    [][\A i \in DOMAIN disk.players : i \in DOMAIN players =>
          i \in DOMAIN players' /\ players'[i] = players[i]]_vars

(***************************************************************************)
(* "Give every player a material hub at their spawn (idempotent)": whoever is *)
(* given a player has a hub.                                                 *)
(***************************************************************************)
EveryPlayerHasHub ==
    [][\A s \in Sessions, n \in Names : HandleHello(s, n) =>
          \E p \in DOMAIN buildings' : buildings'[p] = [owner |-> who'[s], kind |-> "hub"]]_vars

=============================================================================
