--------------------------- MODULE AccountsProofs ----------------------------
(***************************************************************************)
(* Accounts keep their owners apart: AccountsInv is inductive, for any       *)
(* number of sessions, names and restarts and any map.                       *)
(***************************************************************************)
EXTENDS Accounts, TLAPS

USE AccountsAssumption DEF AccountsAssumption

\* A name that is not blank, or the default.
LEMMA AccountType ==
    ASSUME NEW n \in Names
    PROVE  Account(n) \in (Names \ {""}) \cup {"Player"}
BY DEF Account

\* A hello changes the buildings by a hub of its player at most.
LEMMA HubAdds ==
    ASSUME NEW i, NEW n, EnsureHub(i, n)
    PROVE  \/ buildings' = buildings
           \/ buildings' = Put(buildings, Spawn(n), [owner |-> i, kind |-> "hub"])
BY DEF EnsureHub

\* An empty world, and its save.
LEMMA InitInv == Init => AccountsInv
<1> SUFFICES ASSUME Init PROVE AccountsInv
    OBVIOUS
<1>1. /\ players = NoOne
      /\ buildings = Nothing
      /\ disk.players = players
      /\ disk.buildings = buildings
    BY DEF Init, World
<1>2. DOMAIN players = {} /\ DOMAIN buildings = {}
    BY <1>1 DEF NoOne, Nothing
<1>3. TypeOK
  <2>1. who \in [Sessions -> Nat \cup {NoPlayer}] /\ said \in [Sessions -> Names \cup {""}]
      BY DEF Init
  <2>2. nextPlayerID \in Nat \ {0} /\ starts \in 0..Restarts
    <3>1. nextPlayerID = 1 /\ starts = Restarts
        BY DEF Init
    <3> HIDE DEF Init
    <3> QED
        BY <3>1
  <2> QED
      BY <1>2, <2>1, <2>2 DEF TypeOK
<1>4. DiskOK
    BY <1>1, <1>2 DEF DiskOK
<1>5. WhoKnown
    BY DEF Init, WhoKnown
<1>6. FreshID
    BY <1>2 DEF FreshID
<1>7. Identity
    BY <1>2 DEF Init, Identity
<1>8. OwnersKnown
    BY <1>1, <1>2 DEF OwnersKnown
<1> QED
    BY <1>3, <1>4, <1>5, <1>6, <1>7, <1>8 DEF AccountsInv

\* A hello knows its player and makes no other: what it does to the players.
LEMMA HelloPlayers ==
    ASSUME TypeOK, NEW s \in Sessions, NEW n \in Names, HandleHello(s, n)
    PROVE  \E i \in Nat :
              /\ who' = [who EXCEPT ![s] = i]
              /\ EnsureHub(i, Cardinality(DOMAIN players'))
              /\ \/ /\ i \in DOMAIN players
                    /\ players[i] = Account(n)
                    /\ UNCHANGED <<players, nextPlayerID>>
                 \/ /\ i = nextPlayerID
                    /\ \A j \in DOMAIN players : players[j] # Account(n)
                    /\ players' = Put(players, i, Account(n))
                    /\ nextPlayerID' = nextPlayerID + 1
<1> DEFINE known == PlayerByName(players, Account(n))
           i == IF known = {} THEN nextPlayerID ELSE CHOOSE j \in known : TRUE
<1>1. /\ players' = IF known = {} THEN Put(players, i, Account(n)) ELSE players
      /\ nextPlayerID' = IF known = {} THEN nextPlayerID + 1 ELSE nextPlayerID
      /\ EnsureHub(i, Cardinality(DOMAIN players'))
      /\ who' = [who EXCEPT ![s] = i]
    BY DEF HandleHello
<1>2. CASE known = {}
  <2>1. i = nextPlayerID /\ i \in Nat
      BY <1>2 DEF TypeOK
  <2>2. \A j \in DOMAIN players : players[j] # Account(n)
      BY <1>2 DEF PlayerByName
  <2>3. players' = Put(players, i, Account(n)) /\ nextPlayerID' = nextPlayerID + 1
      BY <1>1, <1>2
  <2> HIDE DEF i, known
  <2> QED
      BY <1>1, <2>1, <2>2, <2>3
<1>3. CASE known # {}
  <2>1. i \in known
      BY <1>3
  <2>2. i \in DOMAIN players /\ players[i] = Account(n)
      BY <2>1 DEF PlayerByName
  <2>3. i \in Nat
      BY <2>2 DEF TypeOK
  <2>4. UNCHANGED <<players, nextPlayerID>>
      BY <1>1, <1>3
  <2> HIDE DEF i, known
  <2> QED
      BY <1>1, <2>2, <2>3, <2>4
<1> QED
    BY <1>2, <1>3

\* A hello keeps the invariant.
LEMMA HelloKeepsInv ==
    ASSUME AccountsInv, NEW s \in Sessions, NEW n \in Names, HandleHello(s, n)
    PROVE  AccountsInv'
<1>0. TypeOK /\ DiskOK /\ WhoKnown /\ FreshID /\ Identity /\ OwnersKnown
    BY DEF AccountsInv
<1>1. PICK i \in Nat :
              /\ who' = [who EXCEPT ![s] = i]
              /\ EnsureHub(i, Cardinality(DOMAIN players'))
              /\ \/ /\ i \in DOMAIN players
                    /\ players[i] = Account(n)
                    /\ UNCHANGED <<players, nextPlayerID>>
                 \/ /\ i = nextPlayerID
                    /\ \A j \in DOMAIN players : players[j] # Account(n)
                    /\ players' = Put(players, i, Account(n))
                    /\ nextPlayerID' = nextPlayerID + 1
    BY <1>0, HelloPlayers
<1>2. /\ said' = [said EXCEPT ![s] = n]
      /\ UNCHANGED <<disk, starts>>
    BY DEF HandleHello
<1>3. Account(n) \in (Names \ {""}) \cup {"Player"}
    BY AccountType
\* What becomes of the players, whichever way.
<1>4. /\ DOMAIN players' = DOMAIN players \cup {i}
      /\ players'[i] = Account(n)
      /\ \A j \in DOMAIN players : j # i => players'[j] = players[j]
  <2>1. CASE players' = players /\ i \in DOMAIN players /\ players[i] = Account(n)
      BY <2>1
  <2>2. CASE players' = Put(players, i, Account(n))
      BY <2>2 DEF Put
  <2> QED
      BY <1>1, <2>1, <2>2
\* And of the buildings.
<1>5. /\ DOMAIN buildings \subseteq DOMAIN buildings'
      /\ \A p \in DOMAIN buildings' :
            \/ p \in DOMAIN buildings /\ buildings'[p] = buildings[p]
            \/ buildings'[p] = [owner |-> i, kind |-> "hub"]
  <2> DEFINE p0 == Spawn(Cardinality(DOMAIN players'))
             hub == [owner |-> i, kind |-> "hub"]
  <2>1. buildings' = buildings \/ buildings' = Put(buildings, p0, hub)
      BY <1>1, HubAdds
  <2> HIDE DEF p0, hub
  <2>2. CASE buildings' = buildings
      BY <2>2
  <2>3. CASE buildings' = Put(buildings, p0, hub)
    <3>1. /\ DOMAIN buildings' = DOMAIN buildings \cup {p0}
          /\ buildings'[p0] = hub
          /\ \A p \in DOMAIN buildings : p # p0 => buildings'[p] = buildings[p]
        BY <2>3 DEF Put
    <3> QED
        BY <3>1 DEF hub
  <2> QED
      BY <2>1, <2>2, <2>3 DEF hub
<1>6. TypeOK'
  <2>1. DOMAIN players' \subseteq Nat
      BY <1>0, <1>4 DEF TypeOK
  <2>2. \A j \in DOMAIN players' : players'[j] \in (Names \ {""}) \cup {"Player"}
      BY <1>0, <1>3, <1>4 DEF TypeOK
  <2>3. ASSUME NEW p \in DOMAIN buildings'
        PROVE  buildings'[p].owner \in Nat /\ buildings'[p].kind \in {"hub", "other"}
    <3>1. CASE p \in DOMAIN buildings /\ buildings'[p] = buildings[p]
        BY <1>0, <3>1 DEF TypeOK
    <3>2. CASE buildings'[p] = [owner |-> i, kind |-> "hub"]
        BY <3>2
    <3> QED
        BY <1>5, <3>1, <3>2
  <2>4. nextPlayerID' \in Nat \ {0}
    <3>1. nextPlayerID \in Nat \ {0}
        BY <1>0 DEF TypeOK
    <3>2. nextPlayerID' = nextPlayerID \/ nextPlayerID' = nextPlayerID + 1
        BY <1>1
    <3> QED
        BY <3>1, <3>2
  <2>5. who' \in [Sessions -> Nat \cup {NoPlayer}] /\ said' \in [Sessions -> Names \cup {""}]
      BY <1>0, <1>1, <1>2 DEF TypeOK
  <2>6. starts' \in 0..Restarts
      BY <1>0, <1>2 DEF TypeOK
  <2> QED
      BY <2>1, <2>2, <2>3, <2>4, <2>5, <2>6 DEF TypeOK
<1>7. DiskOK'
    BY <1>0, <1>2 DEF DiskOK
<1>8. WhoKnown'
    BY <1>0, <1>1, <1>4 DEF WhoKnown, TypeOK
<1>9. FreshID'
  <2> SUFFICES ASSUME starts = Restarts, NEW j \in DOMAIN players'
               PROVE  j < nextPlayerID'
      BY <1>2 DEF FreshID
  <2>1. nextPlayerID \in Nat /\ \A k \in DOMAIN players : k \in Nat /\ k < nextPlayerID
      BY <1>0 DEF FreshID, TypeOK
  <2>2. CASE players' = players /\ nextPlayerID' = nextPlayerID
      BY <2>1, <2>2
  <2>3. CASE i = nextPlayerID /\ nextPlayerID' = nextPlayerID + 1
      BY <1>4, <2>1, <2>3
  <2> QED
      BY <1>1, <2>2, <2>3
<1>10. Identity'
  <2> SUFFICES ASSUME starts = Restarts
               PROVE  /\ \A t \in Sessions : who'[t] # NoPlayer =>
                            who'[t] \in DOMAIN players' /\ players'[who'[t]] = Account(said'[t])
                      /\ \A j, k \in DOMAIN players' : players'[j] = players'[k] => j = k
      BY <1>2 DEF Identity, Account
  <2>1. \A j \in DOMAIN players : players'[j] = players[j]
    <3>1. CASE i = nextPlayerID
      <4>1. \A j \in DOMAIN players : j \in Nat /\ j < nextPlayerID
          BY <1>0 DEF FreshID, TypeOK
      <4>2. \A j \in DOMAIN players : j # i
          BY <3>1, <4>1
      <4> QED
          BY <1>4, <4>2
    <3>2. CASE players' = players
        BY <3>2
    <3> QED
        BY <1>1, <3>1, <3>2
  <2>2. \A j \in DOMAIN players : players[j] = Account(n) => j = i
      BY <1>0, <1>1 DEF Identity
  <2>3. ASSUME NEW t \in Sessions, who'[t] # NoPlayer
        PROVE  who'[t] \in DOMAIN players' /\ players'[who'[t]] = Account(said'[t])
    <3>1. CASE t = s
        BY <1>0, <1>1, <1>2, <1>4, <3>1 DEF TypeOK
    <3>2. CASE t # s
      <4>1. who'[t] = who[t] /\ said'[t] = said[t]
          BY <1>0, <1>1, <1>2, <3>2 DEF TypeOK
      <4>2. who[t] \in DOMAIN players /\ players[who[t]] = Account(said[t])
          BY <1>0, <2>3, <4>1 DEF Identity
      <4> QED
          BY <1>4, <2>1, <4>1, <4>2
    <3> QED
        BY <3>1, <3>2
  <2>4. ASSUME NEW j \in DOMAIN players', NEW k \in DOMAIN players', players'[j] = players'[k]
        PROVE  j = k
      BY <1>0, <1>4, <2>1, <2>2, <2>4 DEF Identity
  <2> QED
      BY <2>3, <2>4
<1>11. OwnersKnown'
  <2>1. \A p \in DOMAIN buildings' : buildings'[p].owner \in DOMAIN players'
      BY <1>0, <1>4, <1>5 DEF OwnersKnown
  <2> QED
      BY <1>0, <1>2, <2>1 DEF OwnersKnown
<1> QED
    BY <1>6, <1>7, <1>8, <1>9, <1>10, <1>11 DEF AccountsInv

\* What a session builds keeps the invariant.
LEMMA PlaceKeepsInv ==
    ASSUME AccountsInv, NEW s \in Sessions, NEW p, PlaceBuilding(s, p)
    PROVE  AccountsInv'
<1>0. TypeOK /\ DiskOK /\ WhoKnown /\ FreshID /\ Identity /\ OwnersKnown
    BY DEF AccountsInv
<1> PICK kind \in {"hub", "other"} : buildings' = Put(buildings, p, [owner |-> who[s], kind |-> kind])
    BY DEF PlaceBuilding
<1>1. /\ who[s] \in DOMAIN players
      /\ buildings' = Put(buildings, p, [owner |-> who[s], kind |-> kind])
      /\ UNCHANGED <<players, nextPlayerID, who, said, disk, starts>>
    BY <1>0 DEF PlaceBuilding, WhoKnown
<1>2. \A q \in DOMAIN buildings' :
          \/ q \in DOMAIN buildings /\ buildings'[q] = buildings[q]
          \/ buildings'[q] = [owner |-> who[s], kind |-> kind]
    BY <1>1 DEF Put
<1>3. TypeOK'
  <2>1. ASSUME NEW q \in DOMAIN buildings'
        PROVE  buildings'[q].owner \in Nat /\ buildings'[q].kind \in {"hub", "other"}
    <3>1. CASE q \in DOMAIN buildings /\ buildings'[q] = buildings[q]
        BY <1>0, <3>1 DEF TypeOK
    <3>2. CASE buildings'[q] = [owner |-> who[s], kind |-> kind]
      <4>1. who[s] \in Nat
          BY <1>0, <1>1 DEF TypeOK
      <4> QED
          BY <3>2, <4>1
    <3> QED
        BY <1>2, <3>1, <3>2
  <2> QED
      BY <1>0, <1>1, <2>1 DEF TypeOK
<1>4. OwnersKnown'
    BY <1>0, <1>1, <1>2 DEF OwnersKnown
<1>5. DiskOK' /\ WhoKnown' /\ FreshID' /\ Identity'
    BY <1>0, <1>1 DEF DiskOK, WhoKnown, FreshID, Identity, Account
<1> QED
    BY <1>3, <1>4, <1>5 DEF AccountsInv

\* What a session takes away keeps it.
LEMMA RemoveKeepsInv ==
    ASSUME AccountsInv, NEW s \in Sessions, NEW p, RemoveBuilding(s, p)
    PROVE  AccountsInv'
<1>0. TypeOK /\ DiskOK /\ WhoKnown /\ FreshID /\ Identity /\ OwnersKnown
    BY DEF AccountsInv
<1>1. /\ buildings' = [q \in DOMAIN buildings \ {p} |-> buildings[q]]
      /\ UNCHANGED <<players, nextPlayerID, who, said, disk, starts>>
    BY DEF RemoveBuilding
<1>2. \A q \in DOMAIN buildings' : q \in DOMAIN buildings /\ buildings'[q] = buildings[q]
    BY <1>1
<1>3. TypeOK' /\ OwnersKnown'
    BY <1>0, <1>1, <1>2 DEF TypeOK, OwnersKnown
<1>4. DiskOK' /\ WhoKnown' /\ FreshID' /\ Identity'
    BY <1>0, <1>1 DEF DiskOK, WhoKnown, FreshID, Identity, Account
<1> QED
    BY <1>3, <1>4 DEF AccountsInv

\* A closed connection keeps it.
LEMMA DisconnectKeepsInv ==
    ASSUME AccountsInv, NEW s \in Sessions, Disconnect(s)
    PROVE  AccountsInv'
<1>0. TypeOK /\ DiskOK /\ WhoKnown /\ FreshID /\ Identity /\ OwnersKnown
    BY DEF AccountsInv
<1>1. /\ who' = [who EXCEPT ![s] = NoPlayer]
      /\ UNCHANGED <<players, buildings, nextPlayerID, said, disk, starts>>
    BY DEF Disconnect
<1>2. \A t \in Sessions : who'[t] = NoPlayer \/ who'[t] = who[t]
    BY <1>0, <1>1 DEF TypeOK
<1>3. TypeOK'
    BY <1>0, <1>1 DEF TypeOK
<1>4. WhoKnown' /\ Identity'
    BY <1>0, <1>1, <1>2 DEF WhoKnown, Identity, Account
<1>5. DiskOK' /\ FreshID' /\ OwnersKnown'
    BY <1>0, <1>1 DEF DiskOK, FreshID, OwnersKnown
<1> QED
    BY <1>3, <1>4, <1>5 DEF AccountsInv

\* A save keeps it.
LEMMA SaveKeepsInv ==
    ASSUME AccountsInv, Save
    PROVE  AccountsInv'
<1>0. TypeOK /\ DiskOK /\ WhoKnown /\ FreshID /\ Identity /\ OwnersKnown
    BY DEF AccountsInv
<1>1. /\ disk'.players = players
      /\ disk'.buildings = buildings
      /\ UNCHANGED <<players, buildings, nextPlayerID, who, said, starts>>
    BY DEF Save, World
<1>2. DiskOK' /\ OwnersKnown'
    BY <1>0, <1>1 DEF DiskOK, TypeOK, OwnersKnown
<1>3. TypeOK' /\ WhoKnown' /\ FreshID' /\ Identity'
    BY <1>0, <1>1 DEF TypeOK, WhoKnown, FreshID, Identity, Account
<1> QED
    BY <1>2, <1>3 DEF AccountsInv

\* A restart keeps it: the save is such as the world was, and no session is left.
LEMMA RestartKeepsInv ==
    ASSUME AccountsInv, Restart
    PROVE  AccountsInv'
<1>0. TypeOK /\ DiskOK /\ OwnersKnown
    BY DEF AccountsInv
<1>1. /\ starts > 0
      /\ starts' = starts - 1
      /\ players' = disk.players
      /\ buildings' = disk.buildings
      /\ nextPlayerID' = 1
      /\ who' = [s \in Sessions |-> NoPlayer]
      /\ UNCHANGED <<said, disk>>
    BY DEF Restart
<1>2. starts \in 0..Restarts
    BY <1>0 DEF TypeOK
<1>3. starts' \in 0..Restarts /\ starts' # Restarts
    BY <1>1, <1>2
<1>4. TypeOK'
  <2>1. ASSUME NEW p \in DOMAIN buildings'
        PROVE  buildings'[p].owner \in Nat /\ buildings'[p].kind \in {"hub", "other"}
      BY <1>0, <1>1 DEF DiskOK, OwnersKnown
  <2>2. nextPlayerID' \in Nat \ {0}
      BY <1>1
  <2>3. who' \in [Sessions -> Nat \cup {NoPlayer}] /\ said' \in [Sessions -> Names \cup {""}]
      BY <1>0, <1>1 DEF TypeOK
  <2>4. /\ DOMAIN players' \subseteq Nat
        /\ \A i \in DOMAIN players' : players'[i] \in (Names \ {""}) \cup {"Player"}
      BY <1>0, <1>1 DEF DiskOK
  <2> QED
      BY <1>3, <2>1, <2>2, <2>3, <2>4 DEF TypeOK
<1>5. DiskOK' /\ OwnersKnown'
    BY <1>0, <1>1 DEF DiskOK, OwnersKnown
<1>6. WhoKnown'
    BY <1>1 DEF WhoKnown
<1>7. FreshID' /\ Identity'
    BY <1>3 DEF FreshID, Identity
<1> QED
    BY <1>4, <1>5, <1>6, <1>7 DEF AccountsInv

\* Every step keeps it.
LEMMA NextKeepsInv == AccountsInv /\ [Next]_vars => AccountsInv'
<1> SUFFICES ASSUME AccountsInv, [Next]_vars PROVE AccountsInv'
    OBVIOUS
<1>1. ASSUME NEW s \in Sessions, NEW n \in Names, HandleHello(s, n) PROVE AccountsInv'
    BY <1>1, HelloKeepsInv
<1>2. ASSUME NEW s \in Sessions, NEW p \in Plots, PlaceBuilding(s, p) PROVE AccountsInv'
    BY <1>2, PlaceKeepsInv
<1>3. ASSUME NEW s \in Sessions, NEW p \in DOMAIN buildings, RemoveBuilding(s, p) PROVE AccountsInv'
    BY <1>3, RemoveKeepsInv
<1>4. ASSUME NEW s \in Sessions, Disconnect(s) PROVE AccountsInv'
    BY <1>4, DisconnectKeepsInv
<1>5. CASE Save
    BY <1>5, SaveKeepsInv
<1>6. CASE Restart
    BY <1>6, RestartKeepsInv
<1>7. CASE UNCHANGED vars
    BY <1>7 DEF AccountsInv, TypeOK, DiskOK, WhoKnown, FreshID, Identity, OwnersKnown, Account, vars
<1> QED
    BY <1>1, <1>2, <1>3, <1>4, <1>5, <1>6, <1>7 DEF Next

(***************************************************************************)
(* What the theorems below rest on holds in every state, after any hellos,   *)
(* saves, crashes and restarts.                                              *)
(***************************************************************************)
THEOREM AccountsInvariant == Spec => []AccountsInv
<1>1. Init => AccountsInv
    BY InitInv
<1>2. AccountsInv /\ [Next]_vars => AccountsInv'
    BY NextKeepsInv
<1> QED
    BY <1>1, <1>2, PTL DEF Spec

(***************************************************************************)
(* World, save and sessions keep their shape, whatever is loaded (New).      *)
(***************************************************************************)
THEOREM AccountsTypes == Spec => []TypeOK
<1>1. AccountsInv => TypeOK
    BY DEF AccountsInv
<1> QED
    BY <1>1, AccountsInvariant, PTL

(***************************************************************************)
(* Until the server starts again, no hello makes a session act for somebody  *)
(* else (handleHello).                                                       *)
(***************************************************************************)
THEOREM NobodyElse == Spec => []Identity
<1>1. AccountsInv => Identity
    BY DEF AccountsInv
<1> QED
    BY <1>1, AccountsInvariant, PTL

(***************************************************************************)
(* Every building of the world and of the save has a player, across saves,   *)
(* crashes and restarts (save, New, FromData).                               *)
(***************************************************************************)
THEOREM NoOrphans == Spec => []OwnersKnown
<1>1. AccountsInv => OwnersKnown
    BY DEF AccountsInv
<1> QED
    BY <1>1, AccountsInvariant, PTL

(***************************************************************************)
(* In one life of the server a building goes by the hand of a session that    *)
(* has given its owner's name (RemoveBuilding, handleHello).                  *)
(***************************************************************************)
THEOREM OwnersHand == Spec => OwnersDecide
<1>1. ASSUME AccountsInv, [Next]_vars, starts = Restarts, starts' = starts,
             NEW p \in DOMAIN buildings \ DOMAIN buildings'
      PROVE  \E s \in Sessions :
                who[s] # NoPlayer /\ Account(said[s]) = players[buildings[p].owner]
  <2>1. ASSUME NEW s \in Sessions, NEW n \in Names, HandleHello(s, n) PROVE FALSE
    <3>1. \E i, k : EnsureHub(i, k)
        BY <2>1 DEF HandleHello
    <3> QED
        BY <1>1, <3>1 DEF EnsureHub, Put
  <2>2. ASSUME NEW s \in Sessions, NEW q \in Plots, PlaceBuilding(s, q) PROVE FALSE
      BY <1>1, <2>2 DEF PlaceBuilding, Put
  <2>3. ASSUME NEW s \in Sessions, NEW q \in DOMAIN buildings, RemoveBuilding(s, q)
        PROVE  who[s] # NoPlayer /\ Account(said[s]) = players[buildings[p].owner]
    <3>1. who[s] # NoPlayer /\ who[s] = buildings[q].owner /\ p = q
        BY <1>1, <2>3 DEF RemoveBuilding
    <3>2. players[who[s]] = Account(said[s])
        BY <1>1, <3>1 DEF AccountsInv, Identity
    <3> QED
        BY <3>1, <3>2
  <2>4. ~Restart
    <3>1. starts \in 0..Restarts
        BY <1>1 DEF AccountsInv, TypeOK
    <3> QED
        BY <1>1, <3>1 DEF Restart
  <2>5. ASSUME NEW s \in Sessions, Disconnect(s) PROVE FALSE
      BY <1>1, <2>5 DEF Disconnect
  <2>6. ~Save /\ ~UNCHANGED vars
      BY <1>1 DEF Save, vars
  <2> QED
      BY <1>1, <2>1, <2>2, <2>3, <2>4, <2>5, <2>6 DEF Next
<1>2. AccountsInv /\ [Next]_vars => [OwnersStep]_vars
    BY <1>1 DEF OwnersStep
<1> QED
    BY <1>2, AccountsInvariant, PTL DEF Spec, OwnersDecide

=============================================================================
