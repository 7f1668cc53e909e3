---------------------------- MODULE FactoryProofs ----------------------------
(***************************************************************************)
(* That every change of the world is marked and every diff exact, for any     *)
(* content, map, layout and number of players.  What a step changes is        *)
(* described by Changes(I, P, T): the entities, players and tiles it may      *)
(* touch are among those it marks.  After that, what the operators compute    *)
(* that the goods are counted with: sums over finite sets, the items picked   *)
(* from a belt and the items of a resource.  Induction comes there from the   *)
(* well-foundedness of < on the naturals, in the form of a least element,     *)
(* which needs no operator as a parameter.                                    *)
(***************************************************************************)
EXTENDS Factory, FiniteSetTheorems, SequenceTheorems, WellFoundedInduction, TLAPS

\* E is the world's entities with other contents: nobody is built or moved.
SameBuildings(E) ==
    /\ E = [k \in DOMAIN ent |-> E[k]]
    /\ \A k \in DOMAIN ent :
          /\ Shaped(E[k])
          /\ E[k].kind = ent[k].kind
          /\ E[k].owner = ent[k].owner
          /\ E[k].at = ent[k].at

\* m with the marks a tick step can make.
With(m, I, P, T) ==
    [added |-> m.added, changed |-> m.changed \cup (I \ m.added), removed |-> m.removed,
     players |-> m.players \cup P, tiles |-> m.tiles \cup T]

Banks(P) ==
    /\ bank' = [p \in Players |-> bank'[p]]
    /\ \A p \in Players \ P : bank'[p] = bank[p]

Land(T) ==
    /\ deposit' \in [Tiles -> Deposits]
    /\ \A p \in Tiles \ T : deposit'[p] = deposit[p]

Changes(I, P, T) ==
    /\ I \in SUBSET DOMAIN ent
    /\ P \in SUBSET Players
    /\ T \in SUBSET Tiles
    /\ SameBuildings(ent')
    /\ \A k \in DOMAIN ent \ I : ent'[k] = ent[k]
    /\ Banks(P)
    /\ Land(T)
    /\ marks' = With(marks, I, P, T)

\* From E to F goods have moved at the entities I, and nobody has worked.
Moved(E, F, I) ==
    /\ SameBuildings(F)
    /\ \A k \in DOMAIN ent \ I : F[k] = E[k]
    /\ \A k \in DOMAIN ent : F[k].progress = E[k].progress

MarkSets == [added : SUBSET DOMAIN ent, changed : SUBSET DOMAIN ent, removed : SUBSET Nat,
             players : SUBSET Players, tiles : SUBSET Tiles]

-----------------------------------------------------------------------------
(* Marks *)

\* What the helpers of the marks leave in a set of marks.
LEMMA MarksMade ==
    ASSUME NEW m \in MarkSets, NEW I \in SUBSET DOMAIN ent, NEW P \in SUBSET Players,
           NEW T \in SUBSET Tiles
    PROVE  /\ With(m, I, P, T) \in MarkSets
           /\ MarkChanged(m, I) = With(m, I, {}, {})
           /\ MarkPlayers(m, P) = With(m, {}, P, {})
           /\ MarkTiles(m, T) = With(m, {}, {}, T)
           /\ With(m, I, P, T).added = m.added
           /\ With(m, I, P, T).removed = m.removed
           /\ With(m, I, P, T).changed = m.changed \cup (I \ m.added)
           /\ With(m, I, P, T).players = m.players \cup P
           /\ With(m, I, P, T).tiles = m.tiles \cup T
<1>1. /\ With(m, I, P, T).added = m.added
      /\ With(m, I, P, T).removed = m.removed
      /\ With(m, I, P, T).changed = m.changed \cup (I \ m.added)
      /\ With(m, I, P, T).players = m.players \cup P
      /\ With(m, I, P, T).tiles = m.tiles \cup T
  BY DEF With
<1>2. /\ m.changed \cup (I \ m.added) \in SUBSET DOMAIN ent
      /\ m.players \cup P \in SUBSET Players
      /\ m.tiles \cup T \in SUBSET Tiles
      /\ m.added \in SUBSET DOMAIN ent
      /\ m.removed \in SUBSET Nat
  BY DEF MarkSets
<1>3. With(m, I, P, T) \in MarkSets
  BY <1>2 DEF With, MarkSets
<1>4. m = [added |-> m.added, changed |-> m.changed, removed |-> m.removed,
           players |-> m.players, tiles |-> m.tiles]
  BY DEF MarkSets
<1>5. /\ m.changed \cup ({} \ m.added) = m.changed
      /\ m.players \cup {} = m.players
      /\ m.tiles \cup {} = m.tiles
  OBVIOUS
<1>6. MarkChanged(m, I) = With(m, I, {}, {})
  BY <1>4, <1>5 DEF MarkChanged, With
<1>7. MarkPlayers(m, P) = With(m, {}, P, {})
  BY <1>4, <1>5 DEF MarkPlayers, With
<1>8. MarkTiles(m, T) = With(m, {}, {}, T)
  BY <1>4, <1>5 DEF MarkTiles, With
<1> QED
  BY <1>1, <1>3, <1>6, <1>7, <1>8

\* Marks add up.
LEMMA MarksAddUp ==
    ASSUME NEW m \in MarkSets,
           NEW I \in SUBSET DOMAIN ent, NEW P \in SUBSET Players, NEW T \in SUBSET Tiles,
           NEW J \in SUBSET DOMAIN ent, NEW Q \in SUBSET Players, NEW U \in SUBSET Tiles
    PROVE  With(With(m, I, P, T), J, Q, U) = With(m, I \cup J, P \cup Q, T \cup U)
<1>1. (m.changed \cup (I \ m.added)) \cup (J \ m.added) = m.changed \cup ((I \cup J) \ m.added)
  OBVIOUS
<1>2. (m.players \cup P) \cup Q = m.players \cup (P \cup Q) /\ (m.tiles \cup T) \cup U = m.tiles \cup (T \cup U)
  OBVIOUS
<1> QED
  BY <1>1, <1>2 DEF With

-----------------------------------------------------------------------------
(* Entities *)

\* What a machine or a belt does to an entity leaves it what it is.
LEMMA ShapeStays ==
    ASSUME NEW e, Shaped(e), NEW v
    PROVE  /\ Shaped([e EXCEPT !.stock = v])
           /\ Shaped([e EXCEPT !.belt = v])
           /\ Shaped([e EXCEPT !.progress = v])
           /\ [e EXCEPT !.stock = v].progress = e.progress
           /\ [e EXCEPT !.belt = v].progress = e.progress
           /\ [e EXCEPT !.progress = v].progress = v
           /\ \A f \in {"kind", "owner", "at"} :
                 /\ [e EXCEPT !.stock = v][f] = e[f]
                 /\ [e EXCEPT !.belt = v][f] = e[f]
                 /\ [e EXCEPT !.progress = v][f] = e[f]
  BY DEF Shaped

\* The same of the progress alone.
LEMMA ProgressStays ==
    ASSUME NEW e, Shaped(e), NEW v
    PROVE  Shaped([e EXCEPT !.progress = v]) /\ [e EXCEPT !.progress = v].progress = v
  BY DEF Shaped

\* One building is replaced by one of the same kind, owner and place.
LEMMA OneReplaced ==
    ASSUME NEW E, SameBuildings(E), NEW i \in DOMAIN ent, NEW e, Shaped(e),
           e.kind = E[i].kind, e.owner = E[i].owner, e.at = E[i].at
    PROVE  /\ SameBuildings([E EXCEPT ![i] = e])
           /\ [E EXCEPT ![i] = e][i] = e
           /\ \A k \in DOMAIN ent \ {i} : [E EXCEPT ![i] = e][k] = E[k]
<1> DEFINE F == [E EXCEPT ![i] = e]
<1>1. E = [k \in DOMAIN ent |-> E[k]]
  BY DEF SameBuildings
<1>2. F = [k \in DOMAIN ent |-> F[k]]
  BY <1>1
<1>3. F[i] = e /\ \A k \in DOMAIN ent \ {i} : F[k] = E[k]
  BY <1>1
<1>4. \A k \in DOMAIN ent : /\ Shaped(F[k])
                             /\ F[k].kind = ent[k].kind
                             /\ F[k].owner = ent[k].owner
                             /\ F[k].at = ent[k].at
  BY <1>3 DEF SameBuildings
<1> QED
  BY <1>2, <1>3, <1>4 DEF SameBuildings

\* Stock or belt of one entity changes.
LEMMA OneMoved ==
    ASSUME NEW E, SameBuildings(E), NEW i \in DOMAIN ent, NEW v
    PROVE  /\ Moved(E, [E EXCEPT ![i].stock = v], {i})
           /\ Moved(E, [E EXCEPT ![i].belt = v], {i})
<1>1. Shaped(E[i])
  BY DEF SameBuildings
<1> DEFINE s == [E[i] EXCEPT !.stock = v]
           b == [E[i] EXCEPT !.belt = v]
<1>2. /\ Shaped(s) /\ s.progress = E[i].progress
      /\ s.kind = E[i].kind /\ s.owner = E[i].owner /\ s.at = E[i].at
  BY <1>1, ShapeStays
<1>3. /\ Shaped(b) /\ b.progress = E[i].progress
      /\ b.kind = E[i].kind /\ b.owner = E[i].owner /\ b.at = E[i].at
  BY <1>1, ShapeStays
<1> HIDE DEF s, b
<1>4. Moved(E, [E EXCEPT ![i] = s], {i})
  BY <1>2, OneReplaced DEF Moved
<1>5. Moved(E, [E EXCEPT ![i] = b], {i})
  BY <1>3, OneReplaced DEF Moved
<1> QED
  BY <1>4, <1>5 DEF s, b

\* Two moves one after the other move what either moves.
LEMMA MovesAddUp ==
    ASSUME NEW E, NEW F, NEW G, NEW I, NEW J, Moved(E, F, I), Moved(F, G, J)
    PROVE  Moved(E, G, I \cup J)
  BY DEF Moved

-----------------------------------------------------------------------------
(* receiveInto *)

\* Whatever i pushes, and into whatever: what changes is marked.
LEMMA ReceiveMarks ==
    ASSUME EntitiesKept, LandKept, NEW E, SameBuildings(E), NEW m \in MarkSets,
           NEW i \in DOMAIN ent, NEW r \in Resources, ReceiveInto(E, m, i, r)
    PROVE  \E I \in SUBSET DOMAIN ent, P \in SUBSET Players :
              /\ Moved(E, ent', I)
              /\ Banks(P)
              /\ marks' = With(m, I, P, {})
<1> DEFINE from == [E EXCEPT ![i].stock[r] = @ - 1]
           Takers == {j \in At(E, Ahead(E[i])) : Receives(E, i, j, r)}
<1>1. Takers \subseteq DOMAIN ent
  BY DEF At, SameBuildings
<1>2. Moved(E, E, {}) /\ Moved(E, from, {i})
  <2>1. from = [E EXCEPT ![i].stock = [E[i].stock EXCEPT ![r] = @ - 1]]
    OBVIOUS
  <2> HIDE DEF from
  <2>2. Moved(E, from, {i})
    BY <2>1, OneMoved
  <2> QED
    BY <2>2 DEF Moved
<1>3. CASE Takers = {}
  <2>1. ent' = E /\ marks' = m /\ UNCHANGED bank
    BY <1>3 DEF ReceiveInto
  <2>2. m = With(m, {}, {}, {})
    BY DEF With, MarkSets
  <2> QED
    BY <1>2, <2>1, <2>2 DEF Banks, LandKept
<1>4. ASSUME NEW j \in Takers, E[j].kind = "hub", ent' = from,
             bank' = [bank EXCEPT ![E[j].owner][r] = @ + 1],
             marks' = MarkChanged(MarkPlayers(m, {E[j].owner}), {i})
      PROVE  Moved(E, ent', {i}) /\ Banks({E[j].owner})
             /\ marks' = With(m, {i}, {E[j].owner}, {}) /\ {E[j].owner} \in SUBSET Players
  <2>1. E[j].owner \in Players
    BY <1>1 DEF SameBuildings, EntitiesKept
  <2>2. marks' = With(m, {i}, {E[j].owner}, {})
    <3> DEFINE o == {E[j].owner}
    <3>1. o \in SUBSET Players /\ {i} \in SUBSET DOMAIN ent /\ {} \in SUBSET DOMAIN ent
          /\ {} \in SUBSET Players /\ {} \in SUBSET Tiles
      BY <2>1
    <3>2. marks' = MarkChanged(MarkPlayers(m, o), {i})
      BY <1>4
    <3> HIDE DEF o
    <3>3. MarkPlayers(m, o) = With(m, {}, o, {}) /\ With(m, {}, o, {}) \in MarkSets
      BY <3>1, MarksMade
    <3>4. marks' = With(With(m, {}, o, {}), {i}, {}, {})
      BY <3>1, <3>2, <3>3, MarksMade
    <3>5. marks' = With(m, {} \cup {i}, o \cup {}, {} \cup {})
      BY <3>1, <3>4, MarksAddUp
    <3>6. {} \cup {i} = {i} /\ o \cup {} = o
      OBVIOUS
    <3> QED
      BY <3>5, <3>6 DEF o
  <2>3. Banks({E[j].owner})
    BY <1>4, <2>1 DEF Banks, LandKept
  <2> QED
    BY <1>2, <1>4, <2>1, <2>2, <2>3
<1>5. ASSUME NEW j \in Takers, marks' = MarkChanged(m, {i, j}), UNCHANGED bank,
             \/ ent' = [from EXCEPT ![j].belt = Append(@, NewItem(r))]
             \/ ent' = [from EXCEPT ![j].stock[r] = @ + 1]
      PROVE  Moved(E, ent', {i, j}) /\ Banks({}) /\ marks' = With(m, {i, j}, {}, {})
  <2>1. {i, j} \in SUBSET DOMAIN ent
    BY <1>1
  <2>2. marks' = With(m, {i, j}, {}, {})
    BY <1>5, <2>1, MarksMade
  <2>3. SameBuildings(from)
    BY <1>2 DEF Moved
  <2> HIDE DEF from
  <2>4. Moved(from, ent', {j})
    <3>1. CASE ent' = [from EXCEPT ![j].belt = Append(@, NewItem(r))]
      <4>1. ent' = [from EXCEPT ![j].belt = Append(from[j].belt, NewItem(r))]
        BY <3>1
      <4> QED
        BY <4>1, <2>1, <2>3, OneMoved
    <3>2. CASE ent' = [from EXCEPT ![j].stock[r] = @ + 1]
      <4>1. ent' = [from EXCEPT ![j].stock = [from[j].stock EXCEPT ![r] = @ + 1]]
        BY <3>2
      <4> QED
        BY <4>1, <2>1, <2>3, OneMoved
    <3> QED
      BY <1>5, <3>1, <3>2
  <2>5. {i} \cup {j} = {i, j}
    OBVIOUS
  <2>6. Moved(E, ent', {i, j})
    BY <1>2, <2>4, <2>5, MovesAddUp
  <2> QED
    BY <1>5, <2>2, <2>6 DEF Banks, LandKept
<1>6. CASE Takers # {}
  <2>1. PICK j \in Takers :
           \/ /\ E[j].kind = "hub" /\ ent' = from
              /\ bank' = [bank EXCEPT ![E[j].owner][r] = @ + 1]
              /\ marks' = MarkChanged(MarkPlayers(m, {E[j].owner}), {i})
           \/ /\ ent' = [from EXCEPT ![j].belt = Append(@, NewItem(r))]
              /\ marks' = MarkChanged(m, {i, j}) /\ UNCHANGED bank
           \/ /\ ent' = [from EXCEPT ![j].stock[r] = @ + 1]
              /\ marks' = MarkChanged(m, {i, j}) /\ UNCHANGED bank
    BY <1>6 DEF ReceiveInto
  <2>2. {i} \in SUBSET DOMAIN ent /\ {i, j} \in SUBSET DOMAIN ent
    BY <1>1
  <2> HIDE DEF from, Takers
  <2> QED
    BY <1>4, <1>5, <2>1, <2>2
<1> QED
  BY <1>3, <1>6

-----------------------------------------------------------------------------
(* One visit *)

\* Only marks and progress can spoil the invariant in a tick.
LEMMA ChangesKeep ==
    ASSUME FactoryInv, game' = game, UNCHANGED <<nextID, seen>>, VisitsKept', IdleWithoutDeposit',
           OreKept',
           NEW I, NEW P, NEW T, Changes(I, P, T)
    PROVE  FactoryInv'
<1>1. Players' = Players /\ Tiles' = Tiles
  BY DEF FactoryInv, Players, Tiles
<1>2. DOMAIN ent' = DOMAIN ent
  BY DEF Changes, SameBuildings
<1>3. EntitiesKept'
  BY <1>1, <1>2 DEF FactoryInv, EntitiesKept, Changes, SameBuildings
<1>4. OnePerTile'
  BY <1>2 DEF FactoryInv, OnePerTile, Changes, SameBuildings
<1>5. LandKept'
  BY <1>1 DEF FactoryInv, LandKept, Changes, Banks, Land
<1>6. marks \in MarkSets
  BY DEF FactoryInv, MarksKept, MarkSets
<1>7. /\ marks' \in MarkSets
      /\ marks'.added = marks.added
      /\ marks'.removed = marks.removed
      /\ marks'.changed = marks.changed \cup (I \ marks.added)
      /\ marks'.players = marks.players \cup P
      /\ marks'.tiles = marks.tiles \cup T
  <2>1. /\ I \in SUBSET DOMAIN ent /\ P \in SUBSET Players /\ T \in SUBSET Tiles
        /\ marks' = With(marks, I, P, T)
    BY DEF Changes
  <2>2. marks' \in MarkSets
    BY <1>6, <2>1, MarksMade
  <2> QED
    BY <2>1, <2>2 DEF With
<1>8. MarksKept'
  BY <1>1, <1>2, <1>7 DEF FactoryInv, MarksKept, MarkSets
<1>9. MarksComplete'
  <2>1. ASSUME NEW k \in (DOMAIN ent' \cup DOMAIN seen'.ent)
                          \ (marks'.added \cup marks'.changed \cup marks'.removed)
        PROVE  k \in DOMAIN ent' /\ k \in DOMAIN seen'.ent /\ ent'[k] = seen'.ent[k]
    <3>1. k \in (DOMAIN ent \cup DOMAIN seen.ent)
                 \ (marks.added \cup marks.changed \cup marks.removed)
      BY <1>2, <1>7
    <3>2. k \notin I
      BY <1>7, <3>1
    <3> QED
      BY <1>2, <3>1, <3>2 DEF FactoryInv, MarksComplete, Changes
  <2>2. \A p \in Players \ marks'.players : bank'[p] = seen'.bank[p]
    BY <1>7 DEF FactoryInv, MarksComplete, Changes, Banks
  <2>3. \A p \in Tiles \ marks'.tiles : deposit'[p] = seen'.deposit[p]
    BY <1>7 DEF FactoryInv, MarksComplete, Changes, Land
  <2> QED
    BY <1>1, <2>1, <2>2, <2>3 DEF MarksComplete
<1> QED
  BY <1>3, <1>4, <1>5, <1>8, <1>9 DEF FactoryInv

\* The loop goes on among entities of the same kinds.
LEMMA VisitsGoOn ==
    ASSUME FactoryInv, SameBuildings(ent'), NEW i, NEW ph, Visiting(ph, i)
    PROVE  VisitsKept'
<1>1. DOMAIN ent' = DOMAIN ent
  BY DEF SameBuildings
<1>2. Machines' = Machines /\ BeltIDs' = BeltIDs
  BY <1>1 DEF Machines, BeltIDs, SameBuildings
<1> QED
  BY <1>2 DEF VisitsKept, Visiting, FactoryInv

\* A visit to i that leaves the ground alone leaves the miners without a
\* deposit idle, if i is none, or has one, or has just been reset.
LEMMA IdleStays ==
    ASSUME FactoryInv, SameBuildings(ent'), UNCHANGED deposit, NEW i \in DOMAIN ent,
           \A k \in DOMAIN ent \ {i} : ent'[k].progress = ent[k].progress,
           \/ ~Mines(ent[i].kind)
           \/ deposit[ent[i].at].res # NoRes
           \/ ent'[i].progress = 0
           \/ ent'[i].progress = ent[i].progress
    PROVE  IdleWithoutDeposit'
<1>1. DOMAIN ent' = DOMAIN ent
  BY DEF SameBuildings
<1>2. ASSUME NEW k \in DOMAIN ent, Mines(ent[k].kind), deposit[ent[k].at].res = NoRes
      PROVE  ent'[k].progress = 0
  BY <1>2 DEF FactoryInv, IdleWithoutDeposit
<1> QED
  BY <1>1, <1>2 DEF IdleWithoutDeposit, SameBuildings, Mines

\* A visit that keeps the ground.
LEMMA VisitKeeps ==
    ASSUME FactoryInv, game' = game, NEW i \in DOMAIN ent, NEW ph, Visiting(ph, i),
           UNCHANGED deposit,
           NEW I \in SUBSET DOMAIN ent, NEW P \in SUBSET Players,
           SameBuildings(ent'),
           \A k \in DOMAIN ent \ I : ent'[k] = ent[k],
           \A k \in DOMAIN ent \ {i} : ent'[k].progress = ent[k].progress,
           Banks(P),
           marks' = With(marks, I, P, {}),
           \/ ~Mines(ent[i].kind)
           \/ deposit[ent[i].at].res # NoRes
           \/ ent'[i].progress = 0
           \/ ent'[i].progress = ent[i].progress
    PROVE  FactoryInv'
<1>1. VisitsKept' /\ IdleWithoutDeposit'
  BY VisitsGoOn, IdleStays
<1>2. Land({}) /\ OreKept'
  BY DEF Land, FactoryInv, LandKept, OreKept, Tiles
<1>3. Changes(I, P, {})
  BY <1>2 DEF Changes
<1>4. UNCHANGED <<nextID, seen>>
  BY DEF Visiting
<1> QED
  BY <1>1, <1>2, <1>3, <1>4, ChangesKeep

-----------------------------------------------------------------------------
(* tickExtraction *)

\* What every visit of a machine starts from.
LEMMA MachineVisited ==
    ASSUME FactoryInv, NEW i, Visiting("systems", i)
    PROVE  /\ i \in DOMAIN ent
           /\ SameBuildings(ent)
           /\ marks \in MarkSets
           /\ marks = With(marks, {}, {}, {})
           /\ RecipeOf(i) \in Recipes
           /\ Mines(ent[i].kind) <=> RecipeOf(i).extraction
<1>1. i \in DOMAIN ent /\ RecipeOf(i) # NoRecipe
  BY DEF FactoryInv, VisitsKept, Visiting, Machines, RecipeOf
<1>2. SameBuildings(ent) /\ ent[i].kind \in DOMAIN Buildings
  BY <1>1 DEF FactoryInv, EntitiesKept, SameBuildings
<1>3. RecipeOf(i) \in Recipes
  BY <1>1, <1>2, FactoryAssumption DEF RecipeOf
<1>4. marks \in MarkSets
  BY DEF FactoryInv, MarksKept, MarkSets
<1>5. marks = With(marks, {}, {}, {})
  BY <1>4 DEF MarkSets, With
<1> QED
  BY <1>1, <1>2, <1>3, <1>4, <1>5 DEF Mines, RecipeOf

\* Progress of one entity changes.
LEMMA OneWorked ==
    ASSUME NEW E, SameBuildings(E), NEW i \in DOMAIN ent, NEW v
    PROVE  /\ SameBuildings([E EXCEPT ![i].progress = v])
           /\ \A k \in DOMAIN ent \ {i} : [E EXCEPT ![i].progress = v][k] = E[k]
           /\ [E EXCEPT ![i].progress = v][i].progress = v
<1>1. Shaped(E[i])
  BY DEF SameBuildings
<1> DEFINE w == [E[i] EXCEPT !.progress = v]
<1>2. Shaped(w) /\ w.progress = v
  BY <1>1, ProgressStays
<1>3. w.kind = E[i].kind /\ w.owner = E[i].owner /\ w.at = E[i].at
  BY <1>1 DEF Shaped
<1> HIDE DEF w
<1>4. /\ SameBuildings([E EXCEPT ![i] = w])
      /\ [E EXCEPT ![i] = w][i] = w
      /\ \A k \in DOMAIN ent \ {i} : [E EXCEPT ![i] = w][k] = E[k]
  BY <1>2, <1>3, OneReplaced
<1> QED
  BY <1>2, <1>4 DEF w

\* A miner without a deposit under it.
LEMMA NoDepositKeeps ==
    ASSUME FactoryInv, game' = game, NEW i, NoDeposit(i)
    PROVE  FactoryInv'
<1>1. Visiting("systems", i) /\ RecipeOf(i).extraction
  BY DEF NoDeposit, Extracts
<1>2. i \in DOMAIN ent /\ SameBuildings(ent) /\ marks = With(marks, {}, {}, {})
      /\ Mines(ent[i].kind)
  BY <1>1, MachineVisited
<1>3. ent[i].progress = 0
  BY <1>2 DEF NoDeposit, FactoryInv, IdleWithoutDeposit
<1>4. ent' = [ent EXCEPT ![i].progress = 0] /\ marks' = marks /\ UNCHANGED <<deposit, bank>>
  BY DEF NoDeposit, Rests
<1>5. /\ SameBuildings(ent')
      /\ \A k \in DOMAIN ent \ {i} : ent'[k] = ent[k]
      /\ ent'[i].progress = 0
  BY <1>2, <1>4, OneWorked
<1>6. ent'[i] = ent[i]
  <2>1. Shaped(ent[i])
    BY <1>2 DEF SameBuildings
  <2>2. [ent[i] EXCEPT !.progress = 0] = ent[i]
    BY <1>3, <2>1 DEF Shaped
  <2>3. ent'[i] = [ent[i] EXCEPT !.progress = 0]
    BY <1>2, <1>4 DEF SameBuildings
  <2> QED
    BY <2>2, <2>3
<1>7. Banks({})
  BY <1>4 DEF Banks, FactoryInv, LandKept
<1>8. \A k \in DOMAIN ent \ {} : ent'[k] = ent[k]
  BY <1>5, <1>6
<1> QED
  BY <1>1, <1>2, <1>4, <1>5, <1>7, <1>8, VisitKeeps

\* A miner whose storage is full.
LEMMA StorageFullKeeps ==
    ASSUME FactoryInv, game' = game, NEW i, StorageFull(i)
    PROVE  FactoryInv'
<1>1. Visiting("systems", i) /\ RecipeOf(i).extraction
  BY DEF StorageFull, Extracts
<1>2. i \in DOMAIN ent /\ SameBuildings(ent) /\ marks = With(marks, {}, {}, {})
      /\ marks \in MarkSets
  BY <1>1, MachineVisited
<1>4. ent' = [ent EXCEPT ![i].progress = 0] /\ UNCHANGED <<deposit, bank>>
  BY DEF StorageFull, Rests
<1>5. /\ SameBuildings(ent')
      /\ \A k \in DOMAIN ent \ {i} : ent'[k] = ent[k]
      /\ ent'[i].progress = 0
  BY <1>2, <1>4, OneWorked
<1>6. Banks({})
  BY <1>4 DEF Banks, FactoryInv, LandKept
<1>7. CASE ent[i].progress = 0
  <2>1. marks' = With(marks, {}, {}, {})
    BY <1>2, <1>7 DEF StorageFull, Rests
  <2>2. ent'[i] = ent[i]
    <3>1. Shaped(ent[i])
      BY <1>2 DEF SameBuildings
    <3>2. [ent[i] EXCEPT !.progress = 0] = ent[i]
      BY <1>7, <3>1 DEF Shaped
    <3>3. ent'[i] = [ent[i] EXCEPT !.progress = 0]
      BY <1>2, <1>4 DEF SameBuildings
    <3> QED
      BY <3>2, <3>3
  <2>3. \A k \in DOMAIN ent \ {} : ent'[k] = ent[k]
    BY <1>5, <2>2
  <2> QED
    BY <1>1, <1>2, <1>4, <1>5, <1>6, <2>1, <2>3, VisitKeeps
<1>8. CASE ent[i].progress # 0
  <2>1. marks' = MarkChanged(marks, {i})
    BY <1>8 DEF StorageFull, Rests
  <2>2. marks' = With(marks, {i}, {}, {})
    BY <1>2, <2>1, MarksMade
  <2> QED
    BY <1>1, <1>2, <1>4, <1>5, <1>6, <2>2, VisitKeeps
<1> QED
  BY <1>7, <1>8

\* A miner that digs on.
LEMMA DigKeeps ==
    ASSUME FactoryInv, game' = game, NEW i, Dig(i)
    PROVE  FactoryInv'
<1>1. Visiting("systems", i) /\ deposit[ent[i].at].res # NoRes
  BY DEF Dig, Digs, Extracts
<1>2. i \in DOMAIN ent /\ SameBuildings(ent) /\ marks \in MarkSets
  BY <1>1, MachineVisited
<1>3. /\ ent' = [ent EXCEPT ![i].progress = ent[i].progress + 1]
      /\ marks' = MarkChanged(marks, {i}) /\ UNCHANGED <<deposit, bank>>
  BY DEF Dig, Rests
<1>4. marks' = With(marks, {i}, {}, {})
  BY <1>2, <1>3, MarksMade
<1>5. SameBuildings(ent') /\ \A k \in DOMAIN ent \ {i} : ent'[k] = ent[k]
  BY <1>2, <1>3, OneWorked
<1>6. Banks({})
  BY <1>3 DEF Banks, FactoryInv, LandKept
<1> QED
  BY <1>1, <1>2, <1>3, <1>4, <1>5, <1>6, VisitKeeps

\* A miner that brings up a unit.
LEMMA MineKeeps ==
    ASSUME FactoryInv, game' = game, NEW i, Mine(i)
    PROVE  FactoryInv'
<1> DEFINE p == ent[i].at
           d == deposit[p]
           m == MarkTiles(MarkChanged(marks, {i}), {p})
           E == Mined(i, d.res)
<1>1. Visiting("systems", i) /\ d.res # NoRes
  BY DEF Mine, Digs, Extracts
<1>2. i \in DOMAIN ent /\ SameBuildings(ent) /\ marks \in MarkSets
  BY <1>1, MachineVisited
<1>3. p \in Tiles /\ d \in Deposits /\ d.res \in Resources
  BY <1>1, <1>2 DEF FactoryInv, EntitiesKept, LandKept, Deposits
<1>4. m = With(marks, {i}, {}, {p}) /\ m \in MarkSets
  <2>1. {i} \in SUBSET DOMAIN ent /\ {p} \in SUBSET Tiles /\ {} \in SUBSET DOMAIN ent
        /\ {} \in SUBSET Players /\ {} \in SUBSET Tiles
    BY <1>2, <1>3
  <2> HIDE DEF p
  <2>2. MarkChanged(marks, {i}) = With(marks, {i}, {}, {})
        /\ With(marks, {i}, {}, {}) \in MarkSets
    BY <1>2, <2>1, MarksMade
  <2> DEFINE n == With(marks, {i}, {}, {})
  <2> HIDE DEF n
  <2>3. n \in MarkSets /\ MarkChanged(marks, {i}) = n
    BY <2>2 DEF n
  <2>4. MarkTiles(n, {p}) = With(n, {}, {}, {p})
    BY <2>1, <2>3, MarksMade
  <2>5. m = With(With(marks, {i}, {}, {}), {}, {}, {p})
    BY <2>3, <2>4 DEF n
  <2>6. m = With(marks, {i} \cup {}, {} \cup {}, {} \cup {p})
    BY <1>2, <2>1, <2>5, MarksAddUp
  <2>7. m = With(marks, {i}, {}, {p})
    <3>1. {i} \cup {} = {i} /\ {} \cup {p} = {p}
      OBVIOUS
    <3> HIDE DEF m
    <3> QED
      BY <2>6, <3>1
  <2> HIDE DEF m
  <2> QED
    BY <1>2, <2>1, <2>7, MarksMade
<1>5. /\ SameBuildings(E)
      /\ \A k \in DOMAIN ent \ {i} : E[k] = ent[k]
      /\ E[i].progress = 0
  <2> DEFINE F == [ent EXCEPT ![i].stock = [ent[i].stock EXCEPT ![d.res] = @ + 1]]
  <2>1. E = [F EXCEPT ![i].progress = 0]
    BY DEF Mined
  <2>2. Moved(ent, F, {i})
    BY <1>2, OneMoved
  <2> HIDE DEF F, E
  <2>3. SameBuildings(F) /\ \A k \in DOMAIN ent \ {i} : F[k] = ent[k]
    BY <2>2 DEF Moved
  <2>4. /\ SameBuildings([F EXCEPT ![i].progress = 0])
        /\ \A k \in DOMAIN ent \ {i} : [F EXCEPT ![i].progress = 0][k] = F[k]
        /\ [F EXCEPT ![i].progress = 0][i].progress = 0
    BY <1>2, <2>3, OneWorked
  <2> QED
    BY <2>1, <2>3, <2>4
<1>6. /\ deposit' = [deposit EXCEPT ![p] = [res |-> IF d.yield <= 1 THEN NoRes ELSE d.res,
                                          yield |-> d.yield - 1]]
      /\ ReceiveInto(E, m, i, d.res)
  BY DEF Mine
<1> HIDE DEF E, m
<1>7. PICK J \in SUBSET DOMAIN ent, P \in SUBSET Players :
         Moved(E, ent', J) /\ Banks(P) /\ marks' = With(m, J, P, {})
  BY <1>2, <1>3, <1>4, <1>5, <1>6, ReceiveMarks DEF FactoryInv
<1> DEFINE I == {i} \cup J
<1>8. I \in SUBSET DOMAIN ent /\ {p} \in SUBSET Tiles
  BY <1>2, <1>3
<1>9. marks' = With(marks, I, P, {p})
  <2>1. {i} \in SUBSET DOMAIN ent /\ {} \in SUBSET Players /\ {} \in SUBSET Tiles
    BY <1>2
  <2>2. marks' = With(marks, {i} \cup J, {} \cup P, {p} \cup {})
    BY <1>2, <1>4, <1>7, <1>8, <2>1, MarksAddUp
  <2>3. {} \cup P = P /\ {p} \cup {} = {p}
    OBVIOUS
  <2> QED
    BY <2>2, <2>3
<1>10. SameBuildings(ent') /\ \A k \in DOMAIN ent \ I : ent'[k] = ent[k]
  BY <1>5, <1>7 DEF Moved
<1>11. Land({p})
  <2>1. [res |-> IF d.yield <= 1 THEN NoRes ELSE d.res, yield |-> d.yield - 1] \in Deposits
    BY <1>3 DEF Deposits
  <2> QED
    BY <1>3, <1>6, <2>1 DEF Land, FactoryInv, LandKept
<1>12. OreKept'
  <2>1. Tiles' = Tiles
    BY DEF Tiles
  <2>2. deposit'[p].res # NoRes => deposit'[p].yield > 0
    BY <1>1, <1>3, <1>6 DEF Deposits, FactoryInv, LandKept
  <2>3. \A q \in Tiles \ {p} : deposit'[q] = deposit[q]
    BY <1>11 DEF Land
  <2> QED
    BY <1>1, <1>3, <2>1, <2>2, <2>3 DEF FactoryInv, LandKept, OreKept
<1>13. IdleWithoutDeposit'
  <2>1. ASSUME NEW k \in DOMAIN ent, Mines(ent[k].kind), deposit'[ent[k].at].res = NoRes
        PROVE  ent'[k].progress = 0
    <3>1. CASE k = i
      BY <1>5, <1>7, <3>1 DEF Moved
    <3>2. CASE k # i
      <4>1. ent[k].at # p /\ ent[k].at \in Tiles
        BY <1>2, <3>2 DEF FactoryInv, OnePerTile, EntitiesKept
      <4>2. ent[k].progress = 0
        BY <1>11, <2>1, <4>1 DEF Land, FactoryInv, IdleWithoutDeposit
      <4>3. ent'[k].progress = ent[k].progress
        BY <1>5, <1>7, <3>2 DEF Moved
      <4> QED
        BY <4>2, <4>3
    <3> QED
      BY <3>1, <3>2
  <2>2. DOMAIN ent' = DOMAIN ent
    BY <1>10 DEF SameBuildings
  <2> QED
    BY <1>10, <2>1, <2>2 DEF IdleWithoutDeposit, SameBuildings, Mines
<1>14. VisitsKept' /\ UNCHANGED <<nextID, seen>>
  BY <1>1, <1>10, VisitsGoOn DEF Visiting
<1>15. Changes(I, P, {p})
  BY <1>7, <1>8, <1>9, <1>10, <1>11 DEF Changes
<1> QED
  BY <1>12, <1>13, <1>14, <1>15, ChangesKeep

-----------------------------------------------------------------------------
(* tickProduction *)

\* What pullInputs moves, it marks.
LEMMA PullMoves ==
    ASSUME FactoryInv, NEW i \in DOMAIN ent
    PROVE  Pull(i).changed \in SUBSET DOMAIN ent /\ Moved(ent, Pull(i).ent, Pull(i).changed)
<1>1. SameBuildings(ent)
  BY DEF FactoryInv, EntitiesKept, SameBuildings
<1>2. CASE HasInputs(ent[i], RecipeOf(i)) \/ NothingBehind(i)
  <2>1. Pull(i) = [ent |-> ent, changed |-> {}]
    BY <1>2 DEF Pull
  <2> QED
    BY <1>1, <2>1 DEF Moved
<1>3. CASE ~(HasInputs(ent[i], RecipeOf(i)) \/ NothingBehind(i))
  <2> DEFINE j == CHOOSE j \in At(ent, Behind(ent[i])) : TRUE
             take == PulledFrom(i, j)
             F == [ent EXCEPT ![i].stock = [r \in Resources |-> ent[i].stock[r] + take[r]]]
             G == [F EXCEPT ![j].belt = RemoveItems(ent[j].belt, take)]
             H == [G EXCEPT ![j].stock = [r \in Resources |->
                        IF ent[j].kind \in Belts THEN ent[j].stock[r]
                        ELSE ent[j].stock[r] - take[r]]]
  <2>1. j \in DOMAIN ent
    BY <1>3 DEF NothingBehind, At
  <2>2. Pull(i) = [ent |-> H, changed |-> {i, j}]
    <3>1. Pull(i) = [ent |-> Taken(i, j), changed |-> {i, j}]
      BY <1>3 DEF Pull
    <3> HIDE DEF j
    <3>2. Taken(i, j) = H
      BY DEF Taken
    <3> QED
      BY <3>1, <3>2
  <2>3. Moved(ent, F, {i})
    BY <1>1, OneMoved
  <2>4. Moved(F, G, {j})
    <3>1. SameBuildings(F)
      BY <2>3 DEF Moved
    <3> HIDE DEF F, j, take
    <3> QED
      BY <2>1, <3>1, OneMoved
  <2>5. Moved(G, H, {j})
    <3>1. SameBuildings(G)
      BY <2>4 DEF Moved
    <3> HIDE DEF G, j, take
    <3> QED
      BY <2>1, <3>1, OneMoved
  <2> HIDE DEF F, G, H, j
  <2>6. {i, j} \in SUBSET DOMAIN ent /\ ({i} \cup {j}) \cup {j} = {i, j}
    BY <2>1
  <2>7. Moved(ent, H, {i, j})
    BY <2>3, <2>4, <2>5, <2>6, MovesAddUp
  <2> QED
    BY <2>2, <2>6, <2>7
<1> QED
  BY <1>2, <1>3

\* A machine that works on.
LEMMA WorkKeeps ==
    ASSUME FactoryInv, game' = game, NEW i, Work(i)
    PROVE  FactoryInv'
<1> DEFINE E == Pull(i).ent
           I == Pull(i).changed \cup {i}
<1>1. Visiting("systems", i) /\ ~RecipeOf(i).extraction /\ UNCHANGED deposit
  BY DEF Work, Produces
<1>2. i \in DOMAIN ent /\ marks \in MarkSets /\ ~Mines(ent[i].kind)
  BY <1>1, MachineVisited
<1>3. Pull(i).changed \in SUBSET DOMAIN ent /\ Moved(ent, E, Pull(i).changed)
  BY <1>2, PullMoves
<1>4. PICK v : ent' = [E EXCEPT ![i].progress = v]
  BY DEF Work, Rests
<1>5. marks' = MarkChanged(marks, I) /\ UNCHANGED bank
  BY DEF Work, Rests
<1>6. I \in SUBSET DOMAIN ent
  BY <1>2, <1>3
<1>7. marks' = With(marks, I, {}, {})
  BY <1>2, <1>5, <1>6, MarksMade
<1>8. SameBuildings(E)
  BY <1>3 DEF Moved
<1>9. SameBuildings(ent') /\ \A k \in DOMAIN ent \ {i} : ent'[k] = E[k]
  <2> HIDE DEF E
  <2>1. /\ SameBuildings([E EXCEPT ![i].progress = v])
        /\ \A k \in DOMAIN ent \ {i} : [E EXCEPT ![i].progress = v][k] = E[k]
    BY <1>2, <1>8, OneWorked
  <2> QED
    BY <1>4, <2>1
<1>10. /\ \A k \in DOMAIN ent \ I : ent'[k] = ent[k]
       /\ \A k \in DOMAIN ent \ {i} : ent'[k].progress = ent[k].progress
  BY <1>3, <1>9 DEF Moved
<1>11. Banks({})
  BY <1>5 DEF Banks, FactoryInv, LandKept
<1> QED
  BY <1>1, <1>2, <1>6, <1>7, <1>9, <1>10, <1>11, VisitKeeps

\* A machine that crafts.
LEMMA CraftKeeps ==
    ASSUME FactoryInv, game' = game, NEW i, Craft(i)
    PROVE  FactoryInv'
<1> DEFINE E == Pull(i).ent
           H == Pull(i).changed \cup {i}
           rec == RecipeOf(i)
           m == MarkChanged(marks, H)
           F == [E EXCEPT ![i].progress = 0]
           G == [F EXCEPT ![i].stock = [r \in Resources |->
                    F[i].stock[r] - rec.input[r] + (IF r = rec.output THEN rec.qty ELSE 0)]]
<1>1. Visiting("systems", i) /\ ~rec.extraction /\ UNCHANGED deposit
  BY DEF Craft, Produces
<1>2. i \in DOMAIN ent /\ marks \in MarkSets /\ ~Mines(ent[i].kind) /\ rec.output \in Resources
  BY <1>1, MachineVisited DEF Recipes
<1>3. Pull(i).changed \in SUBSET DOMAIN ent /\ Moved(ent, E, Pull(i).changed)
  BY <1>2, PullMoves
<1>4. ReceiveInto(G, m, i, rec.output)
  BY DEF Craft
<1>5. H \in SUBSET DOMAIN ent
  BY <1>2, <1>3
<1>6. m = With(marks, H, {}, {}) /\ m \in MarkSets
  <2> HIDE DEF H
  <2>1. {} \in SUBSET Players /\ {} \in SUBSET Tiles
    OBVIOUS
  <2>2. m = With(marks, H, {}, {})
    BY <1>2, <1>5, MarksMade
  <2>3. With(marks, H, {}, {}) \in MarkSets
    BY <1>2, <1>5, <2>1, MarksMade
  <2> HIDE DEF m
  <2> QED
    BY <2>2, <2>3
<1>7. /\ SameBuildings(F)
      /\ \A k \in DOMAIN ent \ {i} : F[k] = E[k]
  <2>1. SameBuildings(E)
    BY <1>3 DEF Moved
  <2> HIDE DEF E
  <2> QED
    BY <1>2, <2>1, OneWorked
<1>8. Moved(F, G, {i})
  <2> HIDE DEF F, rec
  <2> QED
    BY <1>2, <1>7, OneMoved
<1>9. SameBuildings(G)
  BY <1>8 DEF Moved
<1> HIDE DEF E, F, G, H, m, rec
<1>10. PICK J \in SUBSET DOMAIN ent, P \in SUBSET Players :
         Moved(G, ent', J) /\ Banks(P) /\ marks' = With(m, J, P, {})
  BY <1>2, <1>4, <1>6, <1>9, ReceiveMarks DEF FactoryInv
<1> DEFINE I == H \cup J
<1>11. I \in SUBSET DOMAIN ent
  BY <1>5
<1>12. marks' = With(marks, I, P, {})
  <2>1. {} \in SUBSET Players /\ {} \in SUBSET Tiles
    OBVIOUS
  <2>2. marks' = With(marks, H \cup J, {} \cup P, {} \cup {})
    BY <1>2, <1>5, <1>6, <1>10, <2>1, MarksAddUp
  <2>3. {} \cup P = P
    OBVIOUS
  <2> QED
    BY <2>2, <2>3
<1>13. SameBuildings(ent')
  BY <1>10 DEF Moved
<1>14. /\ \A k \in DOMAIN ent \ I : ent'[k] = ent[k]
       /\ \A k \in DOMAIN ent \ {i} : ent'[k].progress = ent[k].progress
  <2>1. i \in H /\ Pull(i).changed \subseteq H
    BY DEF H
  <2> QED
    BY <1>3, <1>7, <1>8, <1>10, <2>1 DEF Moved
<1> QED
  BY <1>1, <1>2, <1>10, <1>11, <1>12, <1>13, <1>14, VisitKeeps

-----------------------------------------------------------------------------
(* tickLogistics *)

\* A belt that moves goods between itself and what it faces, and marks both.
LEMMA BeltVisitKeeps ==
    ASSUME FactoryInv, game' = game, NEW i, Carries(i),
           NEW I \in SUBSET DOMAIN ent, NEW P \in SUBSET Players,
           Moved(ent, ent', I), Banks(P), marks' = With(marks, I, P, {})
    PROVE  FactoryInv'
<1>1. Visiting("logistics", i) /\ UNCHANGED deposit
  BY DEF Carries
<1>2. i \in DOMAIN ent
  BY <1>1 DEF FactoryInv, VisitsKept, Visiting, BeltIDs
<1>3. /\ SameBuildings(ent')
      /\ \A k \in DOMAIN ent \ I : ent'[k] = ent[k]
      /\ \A k \in DOMAIN ent \ {i} : ent'[k].progress = ent[k].progress
      /\ ent'[i].progress = ent[i].progress
  BY <1>2 DEF Moved
<1> QED
  BY <1>1, <1>2, <1>3, VisitKeeps

\* A belt with nothing on it.
LEMMA SkipEmptyBeltKeeps ==
    ASSUME FactoryInv, game' = game, NEW i, SkipEmptyBelt(i)
    PROVE  FactoryInv'
<1>1. Carries(i) /\ UNCHANGED <<ent, bank, marks>>
  BY DEF SkipEmptyBelt
<1>2. Moved(ent, ent', {}) /\ Banks({})
  BY <1>1 DEF Moved, Banks, SameBuildings, FactoryInv, EntitiesKept, LandKept
<1>3. marks' = With(marks, {}, {}, {})
  <2>1. marks \in MarkSets
    BY DEF FactoryInv, MarksKept, MarkSets
  <2> QED
    BY <1>1, <2>1 DEF MarkSets, With
<1> QED
  BY <1>1, <1>2, <1>3, BeltVisitKeeps

\* A belt that moves its items.
LEMMA MoveBeltKeeps ==
    ASSUME FactoryInv, game' = game, NEW i, MoveBelt(i)
    PROVE  FactoryInv'
<1> DEFINE m == MarkChanged(marks, {i})
           Targets == At(ent, Ahead(ent[i]))
<1>1. Carries(i)
  BY DEF MoveBelt
<1>2. i \in DOMAIN ent /\ SameBuildings(ent) /\ marks \in MarkSets
  <2>1. i \in DOMAIN ent
    BY <1>1 DEF Carries, FactoryInv, VisitsKept, Visiting, BeltIDs
  <2> QED
    BY <2>1 DEF FactoryInv, EntitiesKept, SameBuildings, MarksKept, MarkSets
<1>3. {i} \in SUBSET DOMAIN ent /\ {} \in SUBSET Players /\ {} \in SUBSET Tiles
  BY <1>2
<1>4. m = With(marks, {i}, {}, {}) /\ With(marks, {i}, {}, {}) \in MarkSets
  BY <1>2, <1>3, MarksMade
<1>5. ASSUME NEW b, ent' = [ent EXCEPT ![i].belt = b], marks' = m, UNCHANGED bank
      PROVE  FactoryInv'
  <2>1. Moved(ent, ent', {i})
    BY <1>2, <1>5, OneMoved
  <2>2. Banks({})
    BY <1>5 DEF Banks, FactoryInv, LandKept
  <2> QED
    BY <1>1, <1>3, <1>4, <1>5, <2>1, <2>2, BeltVisitKeeps
<1>6. ASSUME NEW j \in Targets, NEW b, NEW c, ent' = [ent EXCEPT ![i].belt = b],
             bank' = [bank EXCEPT ![ent[j].owner] = c],
             marks' = MarkChanged(MarkPlayers(m, {ent[j].owner}), {j})
      PROVE  FactoryInv'
  <2> DEFINE P == {ent[j].owner}
  <2>1. j \in DOMAIN ent /\ ent[j].owner \in Players
    BY DEF At, FactoryInv, EntitiesKept
  <2>2. {j} \in SUBSET DOMAIN ent /\ {i, j} \in SUBSET DOMAIN ent /\ P \in SUBSET Players
        /\ {} \in SUBSET DOMAIN ent
    BY <1>2, <2>1
  <2>3. Moved(ent, ent', {i, j})
    <3>1. Moved(ent, ent', {i})
      BY <1>2, <1>6, OneMoved
    <3> QED
      BY <3>1 DEF Moved
  <2>4. Banks(P)
    BY <1>6, <2>1 DEF Banks, FactoryInv, LandKept
  <2>5. marks' = With(marks, {i, j}, P, {})
    <3>1. marks' = MarkChanged(MarkPlayers(m, P), {j})
      BY <1>6
    <3> DEFINE W == With(marks, {i}, {}, {})
    <3>2. m = W /\ W \in MarkSets
      BY <1>4
    <3> HIDE DEF P, W, m
    <3>3. MarkPlayers(W, P) = With(W, {}, P, {}) /\ With(W, {}, P, {}) \in MarkSets
      BY <1>3, <2>2, <3>2, MarksMade
    <3>4. marks' = With(With(W, {}, P, {}), {j}, {}, {})
      <4> DEFINE X == With(W, {}, P, {})
      <4>1. X \in MarkSets /\ marks' = MarkChanged(X, {j})
        BY <3>1, <3>2, <3>3
      <4> HIDE DEF X
      <4>2. marks' = With(X, {j}, {}, {})
        BY <2>2, <4>1, MarksMade
      <4> QED
        BY <4>2 DEF X
    <3>5. marks' = With(W, {} \cup {j}, P \cup {}, {} \cup {})
      BY <1>3, <2>2, <3>2, <3>4, MarksAddUp
    <3>6. {} \cup {j} = {j} /\ P \cup {} = P /\ {i} \cup {j} = {i, j} /\ {} \cup P = P
      OBVIOUS
    <3>7. marks' = With(W, {j}, P, {})
      BY <3>5, <3>6
    <3>8. With(W, {j}, P, {}) = With(marks, {i} \cup {j}, {} \cup P, {} \cup {})
      BY <1>2, <1>3, <2>2, MarksAddUp DEF W
    <3> QED
      BY <3>6, <3>7, <3>8
  <2> HIDE DEF P
  <2> QED
    BY <1>1, <2>2, <2>3, <2>4, <2>5, BeltVisitKeeps
<1>7. ASSUME NEW j \in Targets, NEW F, Moved(ent, F, {i}), Moved(F, ent', {j}),
             marks' = MarkChanged(m, {j}), UNCHANGED bank
      PROVE  FactoryInv'
  <2>1. {j} \in SUBSET DOMAIN ent /\ {i, j} \in SUBSET DOMAIN ent /\ {i} \cup {j} = {i, j}
    BY <1>2 DEF At
  <2>2. Moved(ent, ent', {i, j})
    BY <1>7, <2>1, MovesAddUp
  <2>3. Banks({})
    BY <1>7 DEF Banks, FactoryInv, LandKept
  <2>4. marks' = With(marks, {i, j}, {}, {})
    <3> DEFINE W == With(marks, {i}, {}, {})
    <3>1. m = W /\ W \in MarkSets
      BY <1>4
    <3>2. marks' = MarkChanged(W, {j})
      BY <1>7, <3>1
    <3> HIDE DEF W
    <3>3. marks' = With(W, {j}, {}, {})
      BY <2>1, <3>1, <3>2, MarksMade
    <3>4. With(W, {j}, {}, {}) = With(marks, {i} \cup {j}, {} \cup {}, {} \cup {})
      BY <1>2, <1>3, <2>1, MarksAddUp DEF W
    <3> QED
      BY <2>1, <3>3, <3>4
  <2> QED
    BY <1>1, <1>3, <2>1, <2>2, <2>3, <2>4, BeltVisitKeeps
<1>8. ASSUME NEW j \in Targets, NEW b, NEW c, marks' = MarkChanged(m, {j}), UNCHANGED bank,
             \/ ent' = [ent EXCEPT ![i].belt = b, ![j].belt = c]
             \/ ent' = [ent EXCEPT ![i].belt = b, ![j].stock = c]
      PROVE  FactoryInv'
  <2> DEFINE F == [ent EXCEPT ![i].belt = b]
  <2>1. Moved(ent, F, {i})
    BY <1>2, OneMoved
  <2>2. j \in DOMAIN ent /\ SameBuildings(F)
    BY <2>1 DEF At, Moved
  <2>3. ent' = [F EXCEPT ![j].belt = c] \/ ent' = [F EXCEPT ![j].stock = c]
    BY <1>8
  <2> HIDE DEF F
  <2>4. /\ Moved(F, [F EXCEPT ![j].belt = c], {j})
        /\ Moved(F, [F EXCEPT ![j].stock = c], {j})
    BY <2>2, OneMoved
  <2>5. Moved(F, ent', {j})
    BY <2>3, <2>4
  <2> QED
    BY <1>7, <1>8, <2>1, <2>5
<1> HIDE DEF m, Targets
<1>9. \/ \E b : ent' = [ent EXCEPT ![i].belt = b] /\ marks' = m /\ UNCHANGED bank
      \/ \E j \in Targets :
            \/ \E b, c : /\ ent' = [ent EXCEPT ![i].belt = b]
                         /\ bank' = [bank EXCEPT ![ent[j].owner] = c]
                         /\ marks' = MarkChanged(MarkPlayers(m, {ent[j].owner}), {j})
            \/ \E b, c : /\ \/ ent' = [ent EXCEPT ![i].belt = b, ![j].belt = c]
                            \/ ent' = [ent EXCEPT ![i].belt = b, ![j].stock = c]
                         /\ marks' = MarkChanged(m, {j}) /\ UNCHANGED bank
  BY DEF MoveBelt, m, Targets
<1> QED
  BY <1>5, <1>6, <1>8, <1>9

-----------------------------------------------------------------------------
(* Commands *)

\* What is marked when a building comes or goes.
LEMMA BuildingMarks ==
    ASSUME marks \in MarkSets, NEW P, NEW n, NEW I
    PROVE  /\ MarkAdded(MarkPlayers(marks, P), n) =
                 [added |-> marks.added \cup {n}, changed |-> marks.changed \ {n},
                  removed |-> marks.removed, players |-> marks.players \cup P,
                  tiles |-> marks.tiles]
           /\ MarkRemoved(MarkPlayers(marks, P), I) =
                 [added |-> marks.added \ I, changed |-> marks.changed \ I,
                  removed |-> marks.removed \cup I, players |-> marks.players \cup P,
                  tiles |-> marks.tiles]
<1>1. marks = [added |-> marks.added, changed |-> marks.changed, removed |-> marks.removed,
               players |-> marks.players, tiles |-> marks.tiles]
  BY DEF MarkSets
<1>2. MarkPlayers(marks, P) =
        [added |-> marks.added, changed |-> marks.changed, removed |-> marks.removed,
         players |-> marks.players \cup P, tiles |-> marks.tiles]
  BY <1>1 DEF MarkPlayers
<1> DEFINE Rec(a, c, r) == [added |-> a, changed |-> c, removed |-> r,
                            players |-> marks.players \cup P, tiles |-> marks.tiles]
<1>3. \A a, c, r, x : [Rec(a, c, r) EXCEPT !.added = x] = Rec(x, c, r)
  OBVIOUS
<1>4. \A a, c, r : Rec(a, c, r).added = a /\ Rec(a, c, r).changed = c /\ Rec(a, c, r).removed = r
  OBVIOUS
<1>5. MarkPlayers(marks, P) = Rec(marks.added, marks.changed, marks.removed)
  BY <1>2
<1> HIDE DEF Rec
<1> DEFINE m == Rec(marks.added, marks.changed, marks.removed)
<1>6. /\ m.added = marks.added /\ m.changed = marks.changed /\ m.removed = marks.removed
      /\ \A x : [m EXCEPT !.added = x] = Rec(x, marks.changed, marks.removed)
  BY <1>3, <1>4
<1>7. m = Rec(marks.added, marks.changed, marks.removed)
  OBVIOUS
<1> HIDE DEF m
<1>8. MarkAdded(m, n) = Rec(marks.added \cup {n}, marks.changed \ {n}, marks.removed)
  <2> DEFINE q == Rec(marks.added \cup {n}, marks.changed, marks.removed)
  <2>1. [m EXCEPT !.added = marks.added \cup {n}] = q
    BY <1>6
  <2>2. [q EXCEPT !.changed = marks.changed \ {n}]
          = Rec(marks.added \cup {n}, marks.changed \ {n}, marks.removed)
    BY DEF Rec
  <2>3. MarkAdded(m, n) = [[m EXCEPT !.added = marks.added \cup {n}]
                              EXCEPT !.changed = marks.changed \ {n}]
    BY <1>6 DEF MarkAdded
  <2> HIDE DEF q
  <2> QED
    BY <2>1, <2>2, <2>3, Zenon
<1>9. MarkRemoved(m, I) = Rec(marks.added \ I, marks.changed \ I, marks.removed \cup I)
  <2> DEFINE q == Rec(marks.added \ I, marks.changed, marks.removed)
             w == Rec(marks.added \ I, marks.changed \ I, marks.removed)
  <2>1. [m EXCEPT !.added = marks.added \ I] = q
    BY <1>6
  <2>2. [q EXCEPT !.changed = marks.changed \ I] = w
    BY DEF Rec
  <2>3. [w EXCEPT !.removed = marks.removed \cup I]
          = Rec(marks.added \ I, marks.changed \ I, marks.removed \cup I)
    BY DEF Rec
  <2>4. MarkRemoved(m, I) = [[[m EXCEPT !.added = marks.added \ I]
                                EXCEPT !.changed = marks.changed \ I]
                                EXCEPT !.removed = marks.removed \cup I]
    BY <1>6 DEF MarkRemoved
  <2> HIDE DEF q, w
  <2> QED
    BY <2>1, <2>2, <2>3, <2>4, Zenon
<1> QED
  BY <1>5, <1>7, <1>8, <1>9 DEF Rec

\* Between two ticks nobody is to be visited.
LEMMA Resting ==
    ASSUME FactoryInv, game' = game, NEW c, Asked(c)
    PROVE  /\ VisitsKept' /\ seen' = seen /\ Players' = Players /\ Tiles' = Tiles
           /\ game' \in Games
           /\ marks \in MarkSets
  BY DEF FactoryInv, Asked, VisitsKept, Players, Tiles, MarksKept, MarkSets

\* A building is placed.
LEMMA PlaceBuildingKeeps ==
    ASSUME FactoryInv, game' = game, NEW p \in Players, NEW o \in game.offers, PlaceBuilding(p, o)
    PROVE  FactoryInv'
<1>1. Asked("place") /\ nextID' = nextID + 1 /\ UNCHANGED deposit
  BY DEF PlaceBuilding
<1>2. /\ VisitsKept' /\ seen' = seen /\ Players' = Players /\ Tiles' = Tiles
      /\ game' \in Games /\ marks \in MarkSets
  BY <1>1, Resting
<1> DEFINE new == NewEntity(o, p)
<1>3. /\ Shaped(new) /\ new.kind = o.kind /\ new.owner = p /\ new.at = o.at /\ new.progress = 0
  BY DEF NewEntity, Shaped
<1>4. o.kind \in DOMAIN Buildings /\ o.at \in Tiles /\ At(ent, o.at) = {}
  BY GamesAssumption DEF PlaceBuilding, FactoryInv, Offers
<1>5. nextID \in Nat /\ DOMAIN ent \subseteq 0..(nextID - 1) /\ nextID \notin DOMAIN ent
  BY DEF FactoryInv, EntitiesKept
<1>6. ent' = [i \in DOMAIN ent \cup {nextID} |-> IF i = nextID THEN new ELSE ent[i]]
  BY DEF PlaceBuilding
<1> HIDE DEF new
<1>7. /\ DOMAIN ent' = DOMAIN ent \cup {nextID} /\ ent'[nextID] = new
      /\ \A k \in DOMAIN ent : ent'[k] = ent[k]
      /\ ent' = [k \in DOMAIN ent' |-> ent'[k]]
  BY <1>5, <1>6
<1>8. EntitiesKept'
  BY <1>1, <1>2, <1>3, <1>4, <1>5, <1>7 DEF FactoryInv, EntitiesKept
<1>9. OnePerTile'
  BY <1>3, <1>4, <1>5, <1>7 DEF FactoryInv, OnePerTile, At
<1>10. LandKept' /\ \A q \in Players \ {p} : bank'[q] = bank[q]
  <2>1. bank' = [bank EXCEPT ![p] = [r \in Resources |-> bank[p][r] - Buildings[o.kind].cost[r]]]
    BY DEF PlaceBuilding
  <2> QED
    BY <1>1, <1>2, <2>1 DEF FactoryInv, LandKept, OreKept
<1>11. marks' = [added |-> marks.added \cup {nextID}, changed |-> marks.changed \ {nextID},
                 removed |-> marks.removed, players |-> marks.players \cup {p},
                 tiles |-> marks.tiles]
  BY <1>2, BuildingMarks DEF PlaceBuilding
<1>12. MarksKept'
  <2>1. /\ marks.added \cup {nextID} \in SUBSET DOMAIN ent'
        /\ marks.changed \ {nextID} \in SUBSET DOMAIN ent'
        /\ marks.players \cup {p} \in SUBSET Players'
        /\ marks.removed \in SUBSET Nat /\ marks.tiles \in SUBSET Tiles'
    BY <1>2, <1>7 DEF MarkSets
  <2>2. /\ marks.removed \cap DOMAIN ent = {}
        /\ marks.removed \cup DOMAIN seen.ent \subseteq 0..(nextID - 1)
    BY DEF FactoryInv, MarksKept
  <2>3. nextID \notin marks.removed
    BY <1>5, <2>2
  <2>4. marks.removed \cap DOMAIN ent' = {}
    BY <1>7, <2>2, <2>3
  <2>5. marks.removed \cup DOMAIN seen'.ent \subseteq 0..(nextID' - 1)
    BY <1>1, <1>2, <1>5, <2>2
  <2> QED
    BY <1>11, <2>1, <2>4, <2>5 DEF MarksKept
<1>13. IdleWithoutDeposit'
  BY <1>1, <1>3, <1>7 DEF FactoryInv, IdleWithoutDeposit
<1>14. MarksComplete'
  <2>1. ASSUME NEW k \in (DOMAIN ent' \cup DOMAIN seen'.ent)
                          \ (marks'.added \cup marks'.changed \cup marks'.removed)
        PROVE  k \in DOMAIN ent' /\ k \in DOMAIN seen'.ent /\ ent'[k] = seen'.ent[k]
    <3>1. k # nextID
      BY <1>11
    <3>2. k \in (DOMAIN ent \cup DOMAIN seen.ent)
                 \ (marks.added \cup marks.changed \cup marks.removed)
      BY <1>2, <1>7, <1>11, <3>1
    <3> QED
      BY <1>2, <1>7, <3>2 DEF FactoryInv, MarksComplete
  <2> QED
    BY <1>1, <1>2, <1>10, <1>11, <2>1 DEF FactoryInv, MarksComplete
<1> QED
  BY <1>2, <1>8, <1>9, <1>10, <1>12, <1>13, <1>14 DEF FactoryInv

\* Buildings go: those of I, with the marks of RemoveBuilding.
LEMMA GoneKeeps ==
    ASSUME FactoryInv, game' = game, NEW c, Asked(c), UNCHANGED <<deposit, nextID>>,
           NEW I \in SUBSET DOMAIN ent, NEW P \in SUBSET Players, Banks(P),
           ent' = [k \in DOMAIN ent \ I |-> ent[k]],
           marks' = MarkRemoved(MarkPlayers(marks, P), I)
    PROVE  FactoryInv'
<1>1. /\ VisitsKept' /\ seen' = seen /\ Players' = Players /\ Tiles' = Tiles
      /\ game' \in Games /\ marks \in MarkSets
  BY Resting
<1>2. /\ DOMAIN ent' = DOMAIN ent \ I /\ \A k \in DOMAIN ent' : ent'[k] = ent[k]
      /\ ent' = [k \in DOMAIN ent' |-> ent'[k]]
  OBVIOUS
<1>3. EntitiesKept'
  BY <1>1, <1>2 DEF FactoryInv, EntitiesKept
<1>4. OnePerTile'
  BY <1>2 DEF FactoryInv, OnePerTile
<1>5. LandKept'
  BY <1>1 DEF FactoryInv, LandKept, OreKept, Banks
<1>6. marks' = [added |-> marks.added \ I, changed |-> marks.changed \ I,
                removed |-> marks.removed \cup I, players |-> marks.players \cup P,
                tiles |-> marks.tiles]
  BY <1>1, BuildingMarks
<1>7. MarksKept'
  <2>1. /\ marks.added \ I \in SUBSET DOMAIN ent'
        /\ marks.changed \ I \in SUBSET DOMAIN ent'
        /\ marks.players \cup P \in SUBSET Players'
        /\ marks.tiles \in SUBSET Tiles'
    BY <1>1, <1>2 DEF MarkSets
  <2>2. I \subseteq 0..(nextID - 1) /\ nextID \in Nat
    BY DEF FactoryInv, EntitiesKept
  <2>3. /\ marks.removed \cap DOMAIN ent = {}
        /\ marks.removed \cup DOMAIN seen.ent \subseteq 0..(nextID - 1)
    BY DEF FactoryInv, MarksKept
  <2>4. marks.removed \cup I \in SUBSET Nat
    BY <2>2, <2>3
  <2>5. (marks.removed \cup I) \cap DOMAIN ent' = {}
    BY <1>2, <2>3
  <2>6. (marks.removed \cup I) \cup DOMAIN seen'.ent \subseteq 0..(nextID' - 1)
    BY <1>1, <2>2, <2>3
  <2> QED
    BY <1>6, <2>1, <2>4, <2>5, <2>6 DEF MarksKept
<1>8. IdleWithoutDeposit'
  BY <1>2 DEF FactoryInv, IdleWithoutDeposit
<1>9. MarksComplete'
  <2>1. ASSUME NEW k \in (DOMAIN ent' \cup DOMAIN seen'.ent)
                          \ (marks'.added \cup marks'.changed \cup marks'.removed)
        PROVE  k \in DOMAIN ent' /\ k \in DOMAIN seen'.ent /\ ent'[k] = seen'.ent[k]
    <3>1. k \notin I
      BY <1>6
    <3>2. k \in (DOMAIN ent \cup DOMAIN seen.ent)
                 \ (marks.added \cup marks.changed \cup marks.removed)
      BY <1>1, <1>2, <1>6, <3>1
    <3> QED
      BY <1>1, <1>2, <3>1, <3>2 DEF FactoryInv, MarksComplete
  <2> QED
    BY <1>1, <1>6, <2>1 DEF FactoryInv, MarksComplete, Banks
<1> QED
  BY <1>1, <1>3, <1>4, <1>5, <1>7, <1>8, <1>9 DEF FactoryInv

\* A building is removed.
LEMMA RemoveBuildingKeeps ==
    ASSUME FactoryInv, game' = game, NEW p \in Players, NEW i \in DOMAIN ent, RemoveBuilding(p, i)
    PROVE  FactoryInv'
<1>1. /\ Asked("remove") /\ UNCHANGED <<deposit, nextID>>
      /\ ent' = [k \in DOMAIN ent \ {i} |-> ent[k]]
      /\ marks' = MarkRemoved(MarkPlayers(marks, {p}), {i})
  BY DEF RemoveBuilding
<1>2. Banks({p})
  BY DEF RemoveBuilding, Banks, FactoryInv, LandKept
<1>3. {i} \in SUBSET DOMAIN ent /\ {p} \in SUBSET Players
  OBVIOUS
<1> QED
  BY <1>1, <1>2, <1>3, GoneKeeps

\* The dev command that removes everything.
LEMMA ClearKeeps ==
    ASSUME FactoryInv, game' = game, ClearAllEntities
    PROVE  FactoryInv'
<1> DEFINE P == IF ent = <<>> THEN {} ELSE Players
<1>1. /\ Asked("clear") /\ UNCHANGED <<deposit, nextID, bank>> /\ ent' = <<>>
      /\ marks' = MarkRemoved(MarkPlayers(marks, P), DOMAIN ent)
  BY DEF ClearAllEntities
<1>2. ent' = [k \in DOMAIN ent \ DOMAIN ent |-> ent[k]]
  <2>1. DOMAIN ent \ DOMAIN ent = {}
    OBVIOUS
  <2>2. <<>> \in Seq({}) /\ Len(<<>>) = 0
    OBVIOUS
  <2>3. <<>> = [k \in 1..Len(<<>>) |-> <<>>[k]]
    BY <2>2
  <2>4. 1..Len(<<>>) = {}
    BY <2>2
  <2> QED
    BY <1>1, <2>1, <2>3, <2>4
<1>3. Banks(P) /\ P \in SUBSET Players /\ DOMAIN ent \in SUBSET DOMAIN ent
  BY <1>1 DEF Banks, FactoryInv, LandKept
<1> HIDE DEF P
<1> QED
  BY <1>1, <1>2, <1>3, GoneKeeps

\* A command that neither builds nor removes.
LEMMA RestKeeps ==
    ASSUME FactoryInv, game' = game, NEW c, Asked(c), UNCHANGED <<ent, nextID>>,
           NEW P \in SUBSET Players, NEW T \in SUBSET Tiles, Banks(P), Land(T),
           marks' = With(marks, {}, P, T), IdleWithoutDeposit',
           OreKept'
    PROVE  FactoryInv'
<1>1. VisitsKept' /\ seen' = seen
  BY Resting
<1>2. Changes({}, P, T)
  BY DEF Changes, SameBuildings, FactoryInv, EntitiesKept
<1> QED
  BY <1>1, <1>2, ChangesKeep

\* The dev command that sets a bank.
LEMMA SetResourceKeeps ==
    ASSUME FactoryInv, game' = game, NEW p \in Players, NEW r, NEW n, SetResource(p, r, n)
    PROVE  FactoryInv'
<1>1. Asked("set") /\ UNCHANGED <<ent, deposit, nextID>> /\ marks' = MarkPlayers(marks, {p})
  BY DEF SetResource
<1>2. Banks({p})
  <2>1. bank' = [bank EXCEPT ![p] = [bank[p] EXCEPT ![r] = n]]
    BY DEF SetResource
  <2> QED
    BY <2>1 DEF Banks, FactoryInv, LandKept
<1>3. {p} \in SUBSET Players /\ {} \in SUBSET Tiles /\ marks \in MarkSets
  BY DEF FactoryInv, MarksKept, MarkSets
<1>4. marks' = With(marks, {}, {p}, {})
  BY <1>1, <1>3, MarksMade
<1>5. /\ Land({}) /\ IdleWithoutDeposit'
      /\ OreKept'
  BY <1>1 DEF Land, FactoryInv, LandKept, OreKept, Tiles, IdleWithoutDeposit
<1> QED
  BY <1>1, <1>2, <1>3, <1>4, <1>5, RestKeeps

\* The map made again has no deposit where there never was one, so no miner
\* that works loses its own.
LEMMA GenerateKeeps ==
    ASSUME FactoryInv, game' = game, Generate
    PROVE  FactoryInv'
<1>1. Asked("regen") /\ UNCHANGED <<ent, bank, nextID>> /\ deposit' = game.ore
      /\ marks' = [marks EXCEPT !.tiles = Tiles]
  BY DEF Generate
<1>2. game.ore \in [Tiles -> Deposits]
  BY GamesAssumption DEF FactoryInv, Tiles
<1>3. Banks({}) /\ Land(Tiles)
  BY <1>1, <1>2 DEF Banks, Land, FactoryInv, LandKept
<1>4. marks' = With(marks, {}, {}, Tiles)
  <2>1. marks \in MarkSets
    BY DEF FactoryInv, MarksKept, MarkSets
  <2>2. marks.tiles \cup Tiles = Tiles
    BY <2>1 DEF MarkSets
  <2> QED
    BY <1>1, <2>1, <2>2 DEF With, MarkSets
<1>5. IdleWithoutDeposit'
  BY <1>1 DEF FactoryInv, EntitiesKept, LandKept, OreKept, IdleWithoutDeposit
<1>6. OreKept'
  BY <1>1, GamesAssumption DEF FactoryInv, OreKept, Tiles
<1> QED
  BY <1>1, <1>3, <1>4, <1>5, <1>6, RestKeeps

-----------------------------------------------------------------------------
(* The whole *)

\* The worlds games start from.
LEMMA InitInv == Init => FactoryInv
<1> SUFFICES ASSUME Init PROVE FactoryInv
  OBVIOUS
<1> DEFINE lay == game.layout
           At0(k) == lay[k + 1]
<1>1. /\ game \in Games /\ lay \in Seq(BuiltAtFirst(game))
      /\ \A m, n \in 1..Len(lay) : lay[m].at = lay[n].at => m = n
      /\ game.ore \in [Tiles -> Deposits]
      /\ game.funds \in [Players -> [Resources -> Int]]
  BY GamesAssumption DEF Init, Tiles, Players
<1>2. Len(lay) \in Nat /\ nextID = Len(lay) /\ DOMAIN ent = 0..(Len(lay) - 1)
  BY <1>1 DEF Init
<1>3. \A k \in DOMAIN ent : k + 1 \in 1..Len(lay) /\ At0(k) \in BuiltAtFirst(game)
  BY <1>1, <1>2
<1>4. \A k \in DOMAIN ent : ent[k] = NewEntity(At0(k), At0(k).owner)
  BY DEF Init
<1>5. ent = [k \in DOMAIN ent |-> ent[k]]
  BY DEF Init
<1> HIDE DEF At0
<1>6. ASSUME NEW k \in DOMAIN ent
      PROVE  /\ Shaped(ent[k]) /\ ent[k].kind \in DOMAIN Buildings /\ ent[k].owner \in Players
             /\ ent[k].at \in Tiles /\ ent[k].progress = 0 /\ ent[k].at = At0(k).at
  <2> DEFINE o == At0(k)
  <2>1. o \in BuiltAtFirst(game)
    BY <1>3
  <2>2. o.kind \in DOMAIN Buildings /\ o.owner \in Players /\ o.at \in Tiles
    BY <2>1 DEF BuiltAtFirst, Players, Tiles
  <2> HIDE DEF o
  <2>3. ent[k] = NewEntity(o, o.owner)
    BY <1>4 DEF o
  <2> QED
    BY <2>2, <2>3 DEF NewEntity, Shaped, o
<1>7. EntitiesKept
  BY <1>2, <1>5, <1>6 DEF EntitiesKept
<1>8. OnePerTile
  <2>1. ASSUME NEW i \in DOMAIN ent, NEW j \in DOMAIN ent, ent[i].at = ent[j].at PROVE i = j
    <3>1. lay[i + 1].at = lay[j + 1].at
      BY <1>6, <2>1 DEF At0
    <3>2. i + 1 = j + 1
      BY <1>1, <1>3, <3>1
    <3> QED
      BY <1>2, <3>2
  <2> QED
    BY <2>1 DEF OnePerTile
<1>9. LandKept
  <2>1. \A p \in Tiles : game.ore[p].res # NoRes => game.ore[p].yield > 0
    BY <1>1, GamesAssumption DEF Tiles
  <2> QED
    BY <1>1, <2>1 DEF Init, LandKept, OreKept
<1>10. MarksKept
  BY <1>2 DEF Init, MarksKept, NoMarks
<1>11. VisitsKept /\ IdleWithoutDeposit /\ MarksComplete
  BY <1>6 DEF Init, VisitsKept, IdleWithoutDeposit, MarksComplete
<1> QED
  BY <1>1, <1>7, <1>8, <1>9, <1>10, <1>11 DEF FactoryInv

\* The rest of a tick changes nothing but where the loop is.
LEMMA LoopKeeps ==
    ASSUME FactoryInv, game' = game, BeginTick \/ BeginLogistics
    PROVE  FactoryInv'
<1>1. UNCHANGED <<game, ent, deposit, bank, nextID, marks, seen>>
  BY DEF BeginTick, BeginLogistics, World
<1>2. VisitsKept'
  BY <1>1 DEF BeginTick, BeginLogistics, VisitsKept, Machines, BeltIDs
<1>3. Players' = Players /\ Tiles' = Tiles
  BY <1>1 DEF Players, Tiles
<1> QED
  BY <1>1, <1>2, <1>3 DEF FactoryInv, EntitiesKept, OnePerTile, LandKept, OreKept,
                         MarksKept, IdleWithoutDeposit, MarksComplete

\* The diff tells all that is marked, and nothing else has changed.
LEMMA DiffTells ==
    ASSUME FactoryInv, TakeChanges
    PROVE  seen' = [ent |-> ent, deposit |-> deposit, bank |-> bank]
<1>1. /\ marks.added \subseteq DOMAIN ent /\ marks.changed \subseteq DOMAIN ent
      /\ marks.removed \cap DOMAIN ent = {}
  BY DEF FactoryInv, MarksKept
<1> DEFINE D == (DOMAIN seen.ent \cup Shown) \ marks.removed
<1>2. Shown = marks.added \cup marks.changed
  BY <1>1 DEF Shown
<1>3. \A i \in (DOMAIN ent \cup DOMAIN seen.ent)
                \ (marks.added \cup marks.changed \cup marks.removed) :
          i \in DOMAIN ent /\ i \in DOMAIN seen.ent /\ ent[i] = seen.ent[i]
  BY DEF FactoryInv, MarksComplete
<1>4. D = DOMAIN ent
  BY <1>1, <1>2, <1>3
<1>5. \A i \in DOMAIN ent : (IF i \in Shown THEN ent[i] ELSE seen.ent[i]) = ent[i]
  BY <1>1, <1>2, <1>3
<1>6. [i \in D |-> IF i \in Shown THEN ent[i] ELSE seen.ent[i]] = ent
  <2> HIDE DEF D
  <2> QED
    BY <1>4, <1>5 DEF FactoryInv, EntitiesKept
<1>7. [p \in Tiles |-> IF p \in marks.tiles THEN deposit[p] ELSE seen.deposit[p]] = deposit
  <2>1. deposit = [p \in Tiles |-> deposit[p]]
    BY DEF FactoryInv, LandKept
  <2>2. \A p \in Tiles \ marks.tiles : deposit[p] = seen.deposit[p]
    BY DEF FactoryInv, MarksComplete
  <2> QED
    BY <2>1, <2>2
<1>8. [p \in Players |-> IF p \in marks.players THEN bank[p] ELSE seen.bank[p]] = bank
  <2>1. bank = [p \in Players |-> bank[p]]
    BY DEF FactoryInv, LandKept
  <2>2. \A p \in Players \ marks.players : bank[p] = seen.bank[p]
    BY DEF FactoryInv, MarksComplete
  <2> QED
    BY <2>1, <2>2
<1> QED
  BY <1>6, <1>7, <1>8 DEF TakeChanges

\* The marks are taken.
LEMMA TakeChangesKeeps ==
    ASSUME FactoryInv, game' = game, TakeChanges
    PROVE  FactoryInv'
<1>1. seen' = [ent |-> ent, deposit |-> deposit, bank |-> bank]
  BY DiffTells
<1>2. /\ UNCHANGED <<game, ent, deposit, bank, nextID>> /\ marks' = NoMarks
      /\ phase' = "rest" /\ todo' = {}
  BY DEF TakeChanges, World
<1>3. Players' = Players /\ Tiles' = Tiles
  BY <1>2 DEF Players, Tiles
<1>4. MarksKept'
  BY <1>1, <1>2 DEF MarksKept, NoMarks, FactoryInv, EntitiesKept
<1>5. VisitsKept' /\ MarksComplete'
  BY <1>1, <1>2 DEF VisitsKept, MarksComplete
<1> QED
  BY <1>2, <1>3, <1>4, <1>5 DEF FactoryInv, EntitiesKept, OnePerTile, LandKept, OreKept, IdleWithoutDeposit

\* The invariant is inductive.
LEMMA NextKeeps ==
    ASSUME FactoryInv, [Next]_vars
    PROVE  FactoryInv'
<1>1. CASE UNCHANGED vars
  <2>1. UNCHANGED <<game, ent, deposit, bank, nextID, marks, seen, phase, todo>>
    BY <1>1 DEF vars
  <2>2. Players' = Players /\ Tiles' = Tiles
    BY <2>1 DEF Players, Tiles
  <2> QED
    BY <2>1, <2>2 DEF FactoryInv, EntitiesKept, OnePerTile, LandKept, OreKept, MarksKept, VisitsKept,
                     IdleWithoutDeposit, MarksComplete, Machines, BeltIDs
<1>2. CASE Tick /\ game' = game
  <2>1. CASE BeginTick \/ BeginLogistics
    BY <1>2, <2>1, LoopKeeps
  <2>2. CASE TakeChanges
    BY <1>2, <2>2, TakeChangesKeeps
  <2>3. ASSUME NEW i \in todo, TickSystem(i) PROVE FactoryInv'
    BY <1>2, <2>3, NoDepositKeeps, StorageFullKeeps, DigKeeps, MineKeeps, WorkKeeps, CraftKeeps
       DEF TickSystem
  <2>4. ASSUME NEW i \in todo, TickBelt(i) PROVE FactoryInv'
    BY <1>2, <2>4, SkipEmptyBeltKeeps, MoveBeltKeeps DEF TickBelt
  <2> QED
    BY <1>2, <2>1, <2>2, <2>3, <2>4 DEF Tick
<1>3. CASE Command /\ game' = game
  <2>1. ASSUME NEW p \in Players, NEW o \in game.offers, PlaceBuilding(p, o) PROVE FactoryInv'
    BY <1>3, <2>1, PlaceBuildingKeeps
  <2>2. ASSUME NEW p \in Players, NEW i \in DOMAIN ent, RemoveBuilding(p, i) PROVE FactoryInv'
    BY <1>3, <2>2, RemoveBuildingKeeps
  <2>3. ASSUME NEW p \in Players, NEW r, NEW n, SetResource(p, r, n) PROVE FactoryInv'
    BY <1>3, <2>3, SetResourceKeeps
  <2>4. CASE ClearAllEntities
    BY <1>3, <2>4, ClearKeeps
  <2>5. CASE Generate
    BY <1>3, <2>5, GenerateKeeps
  <2> QED
    BY <1>3, <2>1, <2>2, <2>3, <2>4, <2>5 DEF Command
<1> QED
  BY <1>1, <1>2, <1>3 DEF Next

(***************************************************************************)
(* Marks, ids, tiles and idle miners are as every handler of the tick and     *)
(* every command expects them (systems.go, logistics.go, commands.go).        *)
(***************************************************************************)
THEOREM FactoryInvariant == Spec => []FactoryInv
<1>1. Init => FactoryInv
  BY InitInv
<1>2. FactoryInv /\ [Next]_vars => FactoryInv'
  BY NextKeeps
<1> QED
  BY <1>1, <1>2, PTL DEF Spec

(***************************************************************************)
(* Nothing changes without a mark (markAdded, markChanged, markRemoved,       *)
(* MarkPlayerChanged, SetYield and all who must call them).                   *)
(***************************************************************************)
THEOREM EveryChangeMarked == Spec => []MarksComplete
<1>1. FactoryInv => MarksComplete
  BY DEF FactoryInv
<1> QED
  BY <1>1, FactoryInvariant, PTL

(***************************************************************************)
(* A tile holds one building at most (PlaceBuilding).                         *)
(***************************************************************************)
THEOREM OneBuildingPerTile == Spec => []OnePerTile
<1>1. FactoryInv => OnePerTile
  BY DEF FactoryInv
<1> QED
  BY <1>1, FactoryInvariant, PTL

(***************************************************************************)
(* A client that applies each diff holds the world after each                 *)
(* (TakeChanges, BuildDiff, apply_diff).                                      *)
(***************************************************************************)
THEOREM DiffsSuffice == Spec => DiffExact
<1>1. FactoryInv /\ [Next]_vars =>
        [TakeChanges => seen' = [ent |-> ent, deposit |-> deposit, bank |-> bank]]_vars
  BY DiffTells
<1> QED
  BY <1>1, FactoryInvariant, PTL DEF Spec, DiffExact

-----------------------------------------------------------------------------
(* Induction *)

\* A set of naturals has a least element.
LEMMA LeastNatural ==
    ASSUME NEW T \in SUBSET Nat, T # {}
    PROVE  \E m \in T : \A n \in T : m <= n
<1> DEFINE Less == {p \in Nat \X Nat : p[1] < p[2]}
<1>1. IsWellFoundedOn(Less, Nat)
  BY NatLessThanWellFounded DEF OpToRel
<1> HIDE DEF Less
<1>2. PICK m \in T : \A n \in T : <<n, m>> \notin Less
  BY <1>1, WFMin
<1>3. \A n \in T : m <= n
  <2>1. ASSUME NEW n \in T, n < m
        PROVE  FALSE
    <3>1. <<n, m>> \in Less
      BY <2>1 DEF Less
    <3> QED
      BY <1>2, <3>1
  <2>2. m \in Nat /\ \A n \in T : n \in Nat
    OBVIOUS
  <2> QED
    BY <2>1, <2>2
<1> QED
  BY <1>3

\* What holds of 0 and of the next of each holds of every natural.
LEMMA NaturalsFromZero ==
    ASSUME NEW T, 0 \in T, \A n \in Nat : n \in T => n + 1 \in T
    PROVE  \A n \in Nat : n \in T
<1> DEFINE C == {n \in Nat : n \notin T}
<1> SUFFICES ASSUME C # {} PROVE FALSE
  OBVIOUS
<1>1. PICK m \in C : \A n \in C : m <= n
  BY LeastNatural
<1>2. m \in Nat /\ m # 0 /\ m \notin T
  OBVIOUS
<1>3. m - 1 \in Nat /\ m - 1 \notin C
  BY <1>1, <1>2
<1>4. (m - 1) + 1 = m
  BY <1>2
<1> QED
  BY <1>2, <1>3, <1>4

\* What holds of the empty set and with one element more holds of a finite set.
LEMMA SetsFromEmpty ==
    ASSUME NEW S, IsFiniteSet(S), NEW T, {} \in T,
           \A A \in SUBSET S : \A x \in S \ A : A \in T => A \cup {x} \in T
    PROVE  S \in T
<1> DEFINE P(n) == \A A \in SUBSET S : Cardinality(A) = n => A \in T
           N == {n \in Nat : P(n)}
<1>1. \A A \in SUBSET S : IsFiniteSet(A) /\ Cardinality(A) \in Nat
  BY FS_Subset, FS_CardinalityType
<1>2. 0 \in N
  BY <1>1, FS_EmptySet
<1>3. ASSUME NEW n \in Nat, n \in N
      PROVE  n + 1 \in N
  <2>1. ASSUME NEW A \in SUBSET S, Cardinality(A) = n + 1
        PROVE  A \in T
    <3>1. A # {}
      BY <2>1, FS_EmptySet
    <3>2. PICK x \in A : TRUE
      BY <3>1
    <3>3. Cardinality(A \ {x}) = n
      <4>1. Cardinality(A \ {x}) = Cardinality(A) - 1
        BY <1>1, <3>2, FS_RemoveElement
      <4> QED
        BY <2>1, <4>1
    <3>4. A \ {x} \in T
      BY <1>3, <3>3
    <3>5. (A \ {x}) \cup {x} \in T
      BY <3>4
    <3>6. (A \ {x}) \cup {x} = A
      BY <3>2
    <3> QED
      BY <3>5, <3>6, Zenon
  <2> QED
    BY <2>1
<1> HIDE DEF N
<1>4. Cardinality(S) \in N
  BY <1>1, <1>2, <1>3, NaturalsFromZero
<1> QED
  BY <1>4 DEF N

-----------------------------------------------------------------------------
(* Sums *)

\* g holds the sum of f over every subset of S, an element less at a time.
SumTable(g, f, S) ==
    g = [s \in SUBSET S |-> IF s = {} THEN 0
                            ELSE f[CHOOSE x \in s : TRUE] + g[s \ {CHOOSE x \in s : TRUE}]]

\* The partial sums over the subsets of a finite set exist, by induction on its size.
LEMMA SumTableExists ==
    ASSUME NEW f, NEW S, IsFiniteSet(S)
    PROVE  \E g : SumTable(g, f, S)
<1> DEFINE Pick(s) == CHOOSE x \in s : TRUE
           Small(n) == {s \in SUBSET S : Cardinality(s) <= n}
           Table(g, n) == g = [s \in Small(n) |-> IF s = {} THEN 0 ELSE f[Pick(s)] + g[s \ {Pick(s)}]]
           N == {n \in Nat : \E g : Table(g, n)}
<1>1. \A s \in SUBSET S : IsFiniteSet(s) /\ Cardinality(s) \in Nat
  BY FS_Subset, FS_CardinalityType
<1>2. \A s \in SUBSET S : s # {} =>
         /\ Pick(s) \in s
         /\ s \ {Pick(s)} \in SUBSET S
         /\ Cardinality(s \ {Pick(s)}) = Cardinality(s) - 1
  BY <1>1, FS_RemoveElement
<1>3. \A s \in SUBSET S : Cardinality(s) = 0 <=> s = {}
  BY <1>1, FS_EmptySet
<1> HIDE DEF Pick
<1>4. 0 \in N
  <2> DEFINE g == [s \in Small(0) |-> 0]
  <2>1. \A s \in Small(0) : s = {}
    BY <1>1, <1>3
  <2>2. Table(g, 0)
    BY <2>1
  <2> QED
    BY <2>2
<1>5. ASSUME NEW n \in Nat, n \in N
      PROVE  n + 1 \in N
  <2>1. PICK g : Table(g, n)
    BY <1>5
  <2> DEFINE h == [s \in Small(n + 1) |-> IF s = {} THEN 0 ELSE f[Pick(s)] + g[s \ {Pick(s)}]]
  <2>2. ASSUME NEW s \in Small(n + 1), s # {}
        PROVE  s \ {Pick(s)} \in Small(n)
    BY <1>1, <1>2, <2>2
  <2>3. ASSUME NEW s \in Small(n)
        PROVE  s \in Small(n + 1) /\ h[s] = g[s]
    <3>1. s \in Small(n + 1)
      BY <1>1, <2>3
    <3>2. g[s] = IF s = {} THEN 0 ELSE f[Pick(s)] + g[s \ {Pick(s)}]
      BY <2>1, Zenon
    <3> QED
      BY <3>1, <3>2, Zenon
  <2>4. \A s \in Small(n + 1) : s # {} => h[s \ {Pick(s)}] = g[s \ {Pick(s)}]
    BY <2>2, <2>3, Zenon
  <2>5. Table(h, n + 1)
    BY <2>4, Zenon
  <2>6. n + 1 \in Nat
    OBVIOUS
  <2> HIDE DEF h, Table
  <2> QED
    BY <2>5, <2>6, Zenon
<1>6. Cardinality(S) \in N
  <2> HIDE DEF N
  <2> QED
    BY <1>1, <1>4, <1>5, NaturalsFromZero
<1>7. PICK g : Table(g, Cardinality(S))
  BY <1>6
<1>8. Small(Cardinality(S)) = SUBSET S
  BY FS_Subset
<1>9. SumTable(g, f, S)
  BY <1>7, <1>8, Zenon DEF SumTable, Pick
<1> QED
  BY <1>9

\* The fold of the library returns what such a table says.
LEMMA SumFromTable ==
    ASSUME NEW f, NEW S, IsFiniteSet(S)
    PROVE  \E g : SumTable(g, f, S) /\ SumFunctionOnSet(f, S) = g[S]
<1> DEFINE h == CHOOSE iter : SumTable(iter, f, S)
<1>1. SumFunctionOnSet(f, S) = h[S]
  BY Zenon DEF SumFunctionOnSet, FoldFunctionOnSet, MapThenFoldSet, SumTable
<1>2. SumTable(h, f, S)
  BY SumTableExists, Zenon
<1> QED
  BY <1>1, <1>2

\* Of any two tables of f, what they say of a common set is the same.
LEMMA SumTablesAgree ==
    ASSUME NEW f, NEW S, NEW T, IsFiniteSet(S), NEW g, NEW h, SumTable(g, f, S), SumTable(h, f, T)
    PROVE  \A s \in SUBSET S : s \in SUBSET T => g[s] = h[s]
<1> DEFINE Pick(s) == CHOOSE x \in s : TRUE
           N == {n \in Nat : \A s \in SUBSET S :
                                s \in SUBSET T /\ Cardinality(s) = n => g[s] = h[s]}
<1>1. \A s \in SUBSET S : IsFiniteSet(s) /\ Cardinality(s) \in Nat
  BY FS_Subset, FS_CardinalityType
<1>2. \A s \in SUBSET S : s # {} => Pick(s) \in s /\ Cardinality(s \ {Pick(s)}) = Cardinality(s) - 1
  BY <1>1, FS_RemoveElement
<1>3. \A s \in SUBSET S : Cardinality(s) = 0 <=> s = {}
  BY <1>1, FS_EmptySet
<1>4. /\ \A s \in SUBSET S : g[s] = IF s = {} THEN 0 ELSE f[Pick(s)] + g[s \ {Pick(s)}]
      /\ \A s \in SUBSET T : h[s] = IF s = {} THEN 0 ELSE f[Pick(s)] + h[s \ {Pick(s)}]
  BY Zenon DEF SumTable
<1> HIDE DEF Pick
<1>5. 0 \in N
  BY <1>3, <1>4
<1>6. ASSUME NEW n \in Nat, n \in N
      PROVE  n + 1 \in N
  <2>1. ASSUME NEW s \in SUBSET S, s \in SUBSET T, Cardinality(s) = n + 1
        PROVE  g[s] = h[s]
    <3>1. s # {}
      BY <1>3, <2>1
    <3>2. s \ {Pick(s)} \in SUBSET S /\ s \ {Pick(s)} \in SUBSET T
          /\ Cardinality(s \ {Pick(s)}) = n
      BY <1>2, <2>1, <3>1
    <3>3. g[s \ {Pick(s)}] = h[s \ {Pick(s)}]
      BY <1>6, <3>2
    <3> QED
      BY <1>4, <2>1, <3>1, <3>3
  <2> QED
    BY <2>1
<1> HIDE DEF N
<1>7. \A n \in Nat : n \in N
  BY <1>5, <1>6, NaturalsFromZero
<1> QED
  BY <1>1, <1>7 DEF N

\* The sum over no element.
LEMMA SumOfNone ==
    ASSUME NEW f
    PROVE  SumFunctionOnSet(f, {}) = 0
<1>1. PICK g : SumTable(g, f, {}) /\ SumFunctionOnSet(f, {}) = g[{}]
  BY SumFromTable, FS_EmptySet
<1>2. g[{}] = 0
  BY <1>1, Zenon DEF SumTable
<1> QED
  BY <1>1, <1>2

\* A sum is one of its terms and the sum of the others.
LEMMA SumChoosing ==
    ASSUME NEW f, NEW S, IsFiniteSet(S), S # {}
    PROVE  \E x \in S : SumFunctionOnSet(f, S) = f[x] + SumFunctionOnSet(f, S \ {x})
                        /\ x = CHOOSE y \in S : TRUE
<1> DEFINE x == CHOOSE y \in S : TRUE
<1>1. x \in S /\ IsFiniteSet(S \ {x})
  BY FS_RemoveElement
<1>2. PICK g : SumTable(g, f, S) /\ SumFunctionOnSet(f, S) = g[S]
  BY SumFromTable
<1>3. PICK h : SumTable(h, f, S \ {x}) /\ SumFunctionOnSet(f, S \ {x}) = h[S \ {x}]
  BY <1>1, SumFromTable
<1>4. g[S] = f[x] + g[S \ {x}]
  BY <1>2, Zenon DEF SumTable
<1>5. g[S \ {x}] = h[S \ {x}]
  BY <1>2, <1>3, SumTablesAgree
<1> QED
  BY <1>1, <1>2, <1>3, <1>4, <1>5

\* Any element can be taken out of a sum.
LEMMA SumTakingOut ==
    ASSUME NEW f, NEW S, IsFiniteSet(S), \A x \in S : f[x] \in Int
    PROVE  /\ SumFunctionOnSet(f, S) \in Int
           /\ \A x \in S : SumFunctionOnSet(f, S) = f[x] + SumFunctionOnSet(f, S \ {x})
<1> DEFINE Sum(A) == SumFunctionOnSet(f, A)
           Fine(A) == /\ Sum(A) \in Int
                      /\ \A x \in A : Sum(A \ {x}) \in Int /\ Sum(A) = f[x] + Sum(A \ {x})
           N == {n \in Nat : \A A \in SUBSET S : Cardinality(A) = n => Fine(A)}
<1>1. \A A \in SUBSET S : IsFiniteSet(A) /\ Cardinality(A) \in Nat
  BY FS_Subset, FS_CardinalityType
<1>2. \A A \in SUBSET S : \A x \in A : Cardinality(A \ {x}) = Cardinality(A) - 1
  BY <1>1, FS_RemoveElement
<1>3. \A A \in SUBSET S : Cardinality(A) = 0 => A = {}
  BY <1>1, FS_EmptySet
<1>4. \A A \in SUBSET S : A # {} => \E y \in A : Sum(A) = f[y] + Sum(A \ {y})
  BY <1>1, SumChoosing
<1>5. Fine({})
  BY SumOfNone
<1> HIDE DEF Sum
<1>6. 0 \in N
  BY <1>3, <1>5
<1>7. ASSUME NEW n \in Nat, n \in N
      PROVE  n + 1 \in N
  <2>1. ASSUME NEW A \in SUBSET S, Cardinality(A) = n + 1
        PROVE  Fine(A)
    <3>1. A # {}
      BY <2>1, FS_EmptySet
    <3>2. PICK y \in A : Sum(A) = f[y] + Sum(A \ {y})
      BY <1>4, <3>1
    <3>3. \A x \in A : A \ {x} \in SUBSET S /\ Cardinality(A \ {x}) = n
      BY <1>2, <2>1
    <3>4. \A x \in A : Fine(A \ {x})
      BY <1>7, <3>3
    <3>5. Sum(A) \in Int /\ \A x \in A : Sum(A \ {x}) \in Int
      BY <3>2, <3>4
    <3>6. ASSUME NEW x \in A, x # y
          PROVE  Sum(A) = f[x] + Sum(A \ {x})
      <4> DEFINE U == Sum((A \ {x}) \ {y})
      <4>1. (A \ {y}) \ {x} = (A \ {x}) \ {y}
        OBVIOUS
      <4>2. Sum(A \ {y}) = f[x] + U
        BY <3>4, <3>6, <4>1
      <4>3. Sum(A \ {x}) = f[y] + U
        BY <3>4, <3>6
      <4>4. U \in Int /\ f[x] \in Int /\ f[y] \in Int
        BY <3>4, <3>6
      <4> HIDE DEF U, Fine
      <4> QED
        BY <3>2, <4>2, <4>3, <4>4
    <3> QED
      BY <3>2, <3>5, <3>6
  <2> HIDE DEF Fine
  <2> QED
    BY <2>1
<1>8. Cardinality(S) \in N
  <2> HIDE DEF N
  <2> QED
    BY <1>1, <1>6, <1>7, NaturalsFromZero
<1> QED
  BY <1>8 DEF Sum

\* A term added to a sum, whichever element the fold would have chosen.
LEMMA SumOneMore ==
    ASSUME NEW f, NEW S, IsFiniteSet(S), NEW x, x \notin S, \A y \in S \cup {x} : f[y] \in Int
    PROVE  SumFunctionOnSet(f, S \cup {x}) = f[x] + SumFunctionOnSet(f, S)
<1>1. IsFiniteSet(S \cup {x})
  BY FS_AddElement
<1>2. (S \cup {x}) \ {x} = S
  OBVIOUS
<1> QED
  BY <1>1, <1>2, SumTakingOut

\* A sum of sums.
LEMMA SumOfSums ==
    ASSUME NEW f, NEW g, NEW h, NEW S, IsFiniteSet(S),
           \A x \in S : f[x] \in Int /\ g[x] \in Int /\ h[x] = f[x] + g[x]
    PROVE  SumFunctionOnSet(h, S) = SumFunctionOnSet(f, S) + SumFunctionOnSet(g, S)
<1> DEFINE T == {A \in SUBSET S : SumFunctionOnSet(h, A) = SumFunctionOnSet(f, A) + SumFunctionOnSet(g, A)}
<1>1. {} \in T
  BY SumOfNone
<1>2. ASSUME NEW A \in SUBSET S, NEW x \in S \ A, A \in T
      PROVE  A \cup {x} \in T
  <2>1. IsFiniteSet(A)
    BY FS_Subset
  <2>2. \A y \in A \cup {x} : f[y] \in Int /\ g[y] \in Int /\ h[y] \in Int
    OBVIOUS
  <2>3. /\ SumFunctionOnSet(f, A \cup {x}) = f[x] + SumFunctionOnSet(f, A)
        /\ SumFunctionOnSet(g, A \cup {x}) = g[x] + SumFunctionOnSet(g, A)
        /\ SumFunctionOnSet(h, A \cup {x}) = h[x] + SumFunctionOnSet(h, A)
    BY <2>1, <2>2, SumOneMore
  <2>4. SumFunctionOnSet(f, A) \in Int /\ SumFunctionOnSet(g, A) \in Int
    BY <2>1, <2>2, SumTakingOut
  <2>5. SumFunctionOnSet(h, A) = SumFunctionOnSet(f, A) + SumFunctionOnSet(g, A)
    BY <1>2
  <2>6. h[x] = f[x] + g[x] /\ f[x] \in Int /\ g[x] \in Int
    OBVIOUS
  <2>7. SumFunctionOnSet(h, A \cup {x})
          = SumFunctionOnSet(f, A \cup {x}) + SumFunctionOnSet(g, A \cup {x})
    BY <2>3, <2>4, <2>5, <2>6
  <2> QED
    BY <2>7
<1> HIDE DEF T
<1>3. S \in T
  BY <1>1, <1>2, SetsFromEmpty
<1> QED
  BY <1>3 DEF T

\* A sum of zeros.
LEMMA SumOfZeros ==
    ASSUME NEW f, NEW S, IsFiniteSet(S), \A x \in S : f[x] = 0
    PROVE  SumFunctionOnSet(f, S) = 0
<1> DEFINE T == {A \in SUBSET S : SumFunctionOnSet(f, A) = 0}
<1>1. {} \in T
  BY SumOfNone
<1>2. ASSUME NEW A \in SUBSET S, NEW x \in S \ A, A \in T
      PROVE  A \cup {x} \in T
  <2>1. IsFiniteSet(A)
    BY FS_Subset
  <2>2. SumFunctionOnSet(f, A \cup {x}) = f[x] + SumFunctionOnSet(f, A)
    BY <2>1, SumOneMore
  <2> QED
    BY <1>2, <2>2
<1> HIDE DEF T
<1>3. S \in T
  BY <1>1, <1>2, SetsFromEmpty
<1> QED
  BY <1>3 DEF T

\* A sum is the same over functions that agree.
LEMMA SumOfSame ==
    ASSUME NEW f, NEW g, NEW S, IsFiniteSet(S), \A x \in S : f[x] \in Int /\ g[x] = f[x]
    PROVE  SumFunctionOnSet(g, S) = SumFunctionOnSet(f, S)
<1> DEFINE z == [x \in S |-> 0]
<1>1. SumFunctionOnSet(z, S) = 0
  BY SumOfZeros
<1>2. \A x \in S : z[x] \in Int /\ g[x] = f[x] + z[x]
  OBVIOUS
<1> HIDE DEF z
<1>3. SumFunctionOnSet(g, S) = SumFunctionOnSet(f, S) + SumFunctionOnSet(z, S)
  BY <1>2, SumOfSums
<1>4. SumFunctionOnSet(f, S) \in Int
  BY SumTakingOut
<1> QED
  BY <1>1, <1>3, <1>4

\* What the sums of a function over its domain do.
LEMMA SumType ==
    ASSUME NEW S, IsFiniteSet(S), NEW f \in [S -> Int]
    PROVE  SumFunction(f) \in Int
  BY SumTakingOut, Zenon DEF SumFunction

\* The sum of the sums of two functions.
LEMMA SumPlus ==
    ASSUME NEW S, IsFiniteSet(S), NEW f \in [S -> Int], NEW g \in [S -> Int], NEW h \in [S -> Int],
           \A x \in S : h[x] = f[x] + g[x]
    PROVE  SumFunction(h) = SumFunction(f) + SumFunction(g)
<1>1. DOMAIN f = S /\ DOMAIN g = S /\ DOMAIN h = S
  OBVIOUS
<1>2. \A x \in S : f[x] \in Int /\ g[x] \in Int /\ h[x] = f[x] + g[x]
  OBVIOUS
<1> QED
  BY <1>1, <1>2, SumOfSums DEF SumFunction

\* The sum of a function that is zero everywhere.
LEMMA SumZero ==
    ASSUME NEW S, IsFiniteSet(S), NEW f, DOMAIN f = S, \A x \in S : f[x] = 0
    PROVE  SumFunction(f) = 0
  BY SumOfZeros DEF SumFunction

\* One entry changes.
LEMMA SumOne ==
    ASSUME NEW S, IsFiniteSet(S), NEW f \in [S -> Int], NEW g \in [S -> Int], NEW i \in S,
           \A x \in S \ {i} : g[x] = f[x]
    PROVE  SumFunction(g) = SumFunction(f) + (g[i] - f[i])
<1>1. DOMAIN f = S /\ DOMAIN g = S /\ f[i] \in Int /\ g[i] \in Int
  OBVIOUS
<1>2. IsFiniteSet(S \ {i}) /\ \A x \in S \ {i} : f[x] \in Int
  BY FS_RemoveElement
<1>3. SumFunctionOnSet(g, S \ {i}) = SumFunctionOnSet(f, S \ {i})
  BY <1>2, SumOfSame
<1>4. SumFunctionOnSet(f, S \ {i}) \in Int
  BY <1>2, SumTakingOut
<1>5. /\ SumFunctionOnSet(f, S) = f[i] + SumFunctionOnSet(f, S \ {i})
      /\ SumFunctionOnSet(g, S) = g[i] + SumFunctionOnSet(g, S \ {i})
  BY SumTakingOut
<1> QED
  BY <1>1, <1>3, <1>4, <1>5 DEF SumFunction

\* Two entries change.
LEMMA SumTwo ==
    ASSUME NEW S, IsFiniteSet(S), NEW f \in [S -> Int], NEW g \in [S -> Int],
           NEW i \in S, NEW j \in S, i # j, \A x \in S \ {i, j} : g[x] = f[x]
    PROVE  SumFunction(g) = SumFunction(f) + (g[i] - f[i]) + (g[j] - f[j])
<1> DEFINE h == [f EXCEPT ![i] = g[i]]
<1>1. h \in [S -> Int] /\ h[i] = g[i] /\ h[j] = f[j]
  OBVIOUS
<1>2. (\A x \in S \ {i} : h[x] = f[x]) /\ (\A x \in S \ {j} : g[x] = h[x])
  OBVIOUS
<1> HIDE DEF h
<1>3. SumFunction(h) = SumFunction(f) + (h[i] - f[i])
  BY <1>1, <1>2, SumOne
<1>4. SumFunction(g) = SumFunction(h) + (g[j] - h[j])
  BY <1>1, <1>2, SumOne
<1>5. SumFunction(f) \in Int /\ f[i] \in Int /\ g[i] \in Int /\ f[j] \in Int /\ g[j] \in Int
  BY SumType
<1> QED
  BY <1>1, <1>3, <1>4, <1>5

\* One entry goes.
LEMMA SumLess ==
    ASSUME NEW f, NEW g, NEW i \in DOMAIN f, IsFiniteSet(DOMAIN f),
           \A x \in DOMAIN f : f[x] \in Int,
           DOMAIN g = DOMAIN f \ {i}, \A x \in DOMAIN g : g[x] = f[x]
    PROVE  SumFunction(f) = SumFunction(g) + f[i]
<1> DEFINE S == DOMAIN f
           T == DOMAIN g
<1>1. f[i] \in Int
  OBVIOUS
<1>2. IsFiniteSet(T) /\ \A x \in T : f[x] \in Int
  BY FS_RemoveElement
<1>3. SumFunctionOnSet(g, T) = SumFunctionOnSet(f, T)
  BY <1>2, SumOfSame
<1>4. SumFunctionOnSet(f, T) \in Int
  BY <1>2, SumTakingOut
<1>5. SumFunctionOnSet(f, S) = f[i] + SumFunctionOnSet(f, T)
  <2>1. SumFunctionOnSet(f, S) = f[i] + SumFunctionOnSet(f, S \ {i})
    BY SumTakingOut
  <2> QED
    BY <2>1
<1> QED
  BY <1>1, <1>3, <1>4, <1>5 DEF SumFunction

-----------------------------------------------------------------------------
(* Places *)

Rank(S, n) == Cardinality({k \in S : k <= n})

\* The elements of a finite set of numbers have the ranks from 1 to its size, in order.
LEMMA Ranks ==
    ASSUME NEW S \in SUBSET Nat, IsFiniteSet(S)
    PROVE  /\ Cardinality(S) \in Nat
           /\ \A n \in S : Rank(S, n) \in 1..Cardinality(S)
           /\ \A m, n \in S : m < n => Rank(S, m) < Rank(S, n)
           /\ \A c \in 1..Cardinality(S) : \E n \in S : Rank(S, n) = c
<1> DEFINE UpTo(n) == {k \in S : k <= n}
           f == [n \in S |-> Rank(S, n)]
<1>1. \A n \in S : /\ UpTo(n) \in SUBSET S /\ IsFiniteSet(UpTo(n))
                   /\ n \in UpTo(n)
                   /\ Cardinality(UpTo(n)) \in Nat
                   /\ Cardinality(UpTo(n)) <= Cardinality(S)
  BY FS_Subset, FS_CardinalityType
<1>2. Cardinality(S) \in Nat
  BY FS_CardinalityType
<1>3. \A n \in S : Rank(S, n) \in 1..Cardinality(S)
  <2>1. \A n \in S : Cardinality(UpTo(n)) # 0
    BY <1>1, FS_EmptySet
  <2> QED
    BY <1>1, <1>2, <2>1 DEF Rank
<1>4. ASSUME NEW m \in S, NEW n \in S, m < n
      PROVE  Rank(S, m) < Rank(S, n)
  <2>1. UpTo(m) \in SUBSET (UpTo(n) \ {n})
    <3>1. ASSUME NEW k \in UpTo(m)
          PROVE  k \in UpTo(n) \ {n}
      <4>1. k \in S /\ k <= m /\ m \in Nat /\ n \in Nat /\ k \in Nat
        OBVIOUS
      <4>2. k <= n /\ k # n
        BY <1>4, <4>1
      <4> QED
        BY <4>1, <4>2
    <3> QED
      BY <3>1
  <2>2. IsFiniteSet(UpTo(n) \ {n}) /\ Cardinality(UpTo(n) \ {n}) = Cardinality(UpTo(n)) - 1
    BY <1>1, FS_RemoveElement
  <2>3. Cardinality(UpTo(m)) <= Cardinality(UpTo(n) \ {n})
    BY <2>1, <2>2, FS_Subset
  <2> HIDE DEF UpTo
  <2>4. Cardinality(UpTo(m)) < Cardinality(UpTo(n))
    BY <1>1, <2>2, <2>3
  <2> QED
    BY <2>4 DEF Rank, UpTo
<1>5. \A m, n \in S : Rank(S, m) = Rank(S, n) => m = n
  <2>1. \A m, n \in S : m < n \/ n < m \/ m = n
    OBVIOUS
  <2>2. \A n \in S : Rank(S, n) \in Int
    BY <1>3
  <2> QED
    BY <1>4, <2>1, <2>2
<1>6. f \in Injection(S, 1..Cardinality(S))
  BY <1>3, <1>5 DEF Injection, IsInjective
<1>7. IsFiniteSet(1..Cardinality(S)) /\ Cardinality(1..Cardinality(S)) = Cardinality(S)
  BY <1>2, FS_Interval
<1>8. f \in Surjection(S, 1..Cardinality(S))
  <2> HIDE DEF f
  <2> QED
    BY <1>6, <1>7, FS_Injection
<1>9. \A c \in 1..Cardinality(S) : \E n \in S : Rank(S, n) = c
  BY <1>8 DEF Surjection
<1> QED
  BY <1>2, <1>3, <1>4, <1>9

\* The m-th of S is a member, and S is counted through in order.
LEMMA NthCounts ==
    ASSUME NEW S \in SUBSET Nat, IsFiniteSet(S)
    PROVE  /\ Cardinality(S) \in Nat
           /\ \A c \in 1..Cardinality(S) : Nth(S, c) \in S /\ Rank(S, Nth(S, c)) = c
           /\ \A c, d \in 1..Cardinality(S) : c < d => Nth(S, c) < Nth(S, d)
           /\ \A n \in S : \E c \in 1..Cardinality(S) : Nth(S, c) = n
<1>1. \A c \in 1..Cardinality(S) : Nth(S, c) \in S /\ Rank(S, Nth(S, c)) = c
  BY Ranks DEF Nth, Rank
<1>2. ASSUME NEW m \in S, NEW n \in S, Rank(S, m) <= Rank(S, n)
      PROVE  m <= n
  <2>1. ~(n < m)
    BY <1>2, Ranks
  <2> QED
    BY <2>1
<1>3. \A n \in S : Rank(S, n) \in 1..Cardinality(S) /\ Nth(S, Rank(S, n)) = n
  <2>1. \A n \in S : Rank(S, n) \in 1..Cardinality(S)
    BY Ranks
  <2>2. ASSUME NEW n \in S
        PROVE  Nth(S, Rank(S, n)) = n
    <3>1. Nth(S, Rank(S, n)) \in S /\ Rank(S, Nth(S, Rank(S, n))) = Rank(S, n)
      BY <1>1, <2>1
    <3>2. Rank(S, n) \in Int
      BY <2>1
    <3>3. PICK m \in S : m = Nth(S, Rank(S, n)) /\ Rank(S, m) = Rank(S, n)
      BY <3>1
    <3>4. m \in Nat /\ n \in Nat
      OBVIOUS
    <3>5. m <= n /\ n <= m
      BY <1>2, <3>2, <3>3
    <3> QED
      BY <3>3, <3>4, <3>5
  <2> QED
    BY <2>1, <2>2
<1>4. ASSUME NEW c \in 1..Cardinality(S), NEW d \in 1..Cardinality(S), c < d
      PROVE  Nth(S, c) < Nth(S, d)
  <2>1. Nth(S, c) <= Nth(S, d)
    <3>1. Nth(S, c) \in S /\ Nth(S, d) \in S /\ Rank(S, Nth(S, c)) <= Rank(S, Nth(S, d))
      BY <1>1, <1>4
    <3> QED
      BY <1>2, <3>1
  <2>2. Nth(S, c) # Nth(S, d)
    BY <1>1, <1>4
  <2>3. Nth(S, c) \in Nat /\ Nth(S, d) \in Nat
    BY <1>1
  <2> QED
    BY <2>1, <2>2, <2>3
<1>5. Cardinality(S) \in Nat
  BY FS_CardinalityType
<1> QED
  BY <1>1, <1>3, <1>4, <1>5

\* What is picked from a sequence.
LEMMA PickedItems ==
    ASSUME NEW T, NEW q \in Seq(T), NEW S \in SUBSET (1..Len(q))
    PROVE  /\ IsFiniteSet(S)
           /\ Cardinality(S) \in 0..Len(q)
           /\ Picked(q, S) \in Seq(T)
           /\ Len(Picked(q, S)) = Cardinality(S)
           /\ \A c \in 1..Cardinality(S) : Nth(S, c) \in S /\ Picked(q, S)[c] = q[Nth(S, c)]
           /\ \A c, d \in 1..Cardinality(S) : c # d => Nth(S, c) # Nth(S, d)
<1>1. Len(q) \in Nat /\ IsFiniteSet(1..Len(q)) /\ Cardinality(1..Len(q)) = Len(q)
  BY FS_Interval
<1>2. IsFiniteSet(S) /\ Cardinality(S) <= Len(q) /\ Cardinality(S) \in Nat
  BY <1>1, FS_Subset, FS_CardinalityType
<1>3. S \in SUBSET Nat
  OBVIOUS
<1>4. /\ \A c \in 1..Cardinality(S) : Nth(S, c) \in S
      /\ \A c, d \in 1..Cardinality(S) : c < d => Nth(S, c) < Nth(S, d)
  BY <1>2, <1>3, NthCounts
<1>5. \A c, d \in 1..Cardinality(S) : c # d => Nth(S, c) # Nth(S, d)
  <2> SUFFICES ASSUME NEW c \in 1..Cardinality(S), NEW d \in 1..Cardinality(S), c # d
               PROVE  Nth(S, c) # Nth(S, d)
    OBVIOUS
  <2>1. c < d \/ d < c
    BY <1>2
  <2>2. Nth(S, c) \in Nat /\ Nth(S, d) \in Nat
    BY <1>3, <1>4
  <2> QED
    BY <1>4, <2>1, <2>2
<1>6. \A c \in 1..Cardinality(S) : q[Nth(S, c)] \in T
  BY <1>4, ElementOfSeq
<1>7. Picked(q, S) \in [1..Cardinality(S) -> T]
  BY <1>6 DEF Picked
<1>8. Picked(q, S) \in Seq(T) /\ Len(Picked(q, S)) = Cardinality(S)
  BY <1>2, <1>7
<1>9. \A c \in 1..Cardinality(S) : Picked(q, S)[c] = q[Nth(S, c)]
  BY DEF Picked
<1> QED
  BY <1>1, <1>2, <1>4, <1>5, <1>8, <1>9

-----------------------------------------------------------------------------
(* How many items of a resource *)

Places(q, r) == {n \in 1..Len(q) : q[n].res = r}

\* A count is a number, no more than the length.
LEMMA CountType ==
    ASSUME NEW T, NEW q \in Seq(T), NEW r
    PROVE  CountOf(q, r) \in Nat /\ CountOf(q, r) <= Len(q) /\ IsFiniteSet(Places(q, r))
<1>1. /\ Len(q) \in Nat /\ IsFiniteSet(1..Len(q)) /\ Cardinality(1..Len(q)) = Len(q)
      /\ Places(q, r) \in SUBSET (1..Len(q))
  <2>1. Len(q) \in Nat
    OBVIOUS
  <2>2. IsFiniteSet(1..Len(q)) /\ Cardinality(1..Len(q)) = Len(q)
    BY <2>1, FS_Interval
  <2> QED
    BY <2>1, <2>2 DEF Places
<1>2. IsFiniteSet(Places(q, r)) /\ Cardinality(Places(q, r)) <= Len(q) /\ Cardinality(Places(q, r)) \in Nat
  BY <1>1, FS_Subset, FS_CardinalityType
<1> QED
  BY <1>2 DEF CountOf, Places

\* How many numbers there are from 1 to n.
LEMMA Numbers ==
    ASSUME NEW n \in Nat
    PROVE  IsFiniteSet(1..n) /\ Cardinality(1..n) = n
  BY FS_Interval

\* Sets that a function carries one to the other are equal in number.
LEMMA SameNumber ==
    ASSUME NEW A, NEW B, IsFiniteSet(A), NEW f \in [A -> B],
           \A x, y \in A : f[x] = f[y] => x = y, \A z \in B : \E x \in A : f[x] = z
    PROVE  IsFiniteSet(B) /\ Cardinality(B) = Cardinality(A)
<1>1. f \in Bijection(A, B)
  BY DEF Bijection, Injection, Surjection, IsInjective
<1>2. ExistsBijection(A, B)
  BY <1>1 DEF ExistsBijection
<1> QED
  BY <1>2, FS_Bijection

\* Items of the same resources have the same counts.
LEMMA CountSame ==
    ASSUME NEW p, NEW q, Len(p) = Len(q), \A n \in 1..Len(q) : p[n].res = q[n].res, NEW r
    PROVE  CountOf(p, r) = CountOf(q, r)
<1>1. {n \in 1..Len(p) : p[n].res = r} = {n \in 1..Len(q) : q[n].res = r}
  OBVIOUS
<1> QED
  BY <1>1 DEF CountOf

\* What is counted among the items picked.
LEMMA CountPicked ==
    ASSUME NEW T, NEW q \in Seq(T), NEW S \in SUBSET (1..Len(q)), NEW r
    PROVE  CountOf(Picked(q, S), r) = Cardinality({n \in S : q[n].res = r})
<1> DEFINE p == Picked(q, S)
           A == Places(p, r)
           B == {n \in S : q[n].res = r}
           f == [c \in A |-> Nth(S, c)]
<1>1. /\ IsFiniteSet(S) /\ S \in SUBSET Nat
      /\ p \in Seq(T) /\ Len(p) = Cardinality(S)
      /\ \A c \in 1..Cardinality(S) : Nth(S, c) \in S /\ p[c] = q[Nth(S, c)]
      /\ \A c, d \in 1..Cardinality(S) : c # d => Nth(S, c) # Nth(S, d)
  BY PickedItems
<1>2. \A n \in S : \E c \in 1..Cardinality(S) : Nth(S, c) = n
  BY <1>1, NthCounts
<1>3. IsFiniteSet(A)
  BY <1>1, CountType
<1> HIDE DEF p
<1>4. \A c \in A : c \in 1..Cardinality(S)
  BY <1>1 DEF Places
<1>5. f \in [A -> B]
  <2>1. \A c \in A : Nth(S, c) \in B
    BY <1>1, <1>4 DEF Places
  <2> HIDE DEF A, B
  <2> QED
    BY <2>1
<1>6. \A x, y \in A : f[x] = f[y] => x = y
  BY <1>1, <1>4
<1>7. \A z \in B : \E x \in A : f[x] = z
  <2> SUFFICES ASSUME NEW z \in B PROVE \E x \in A : f[x] = z
    OBVIOUS
  <2>1. PICK c \in 1..Cardinality(S) : Nth(S, c) = z
    BY <1>2
  <2>2. c \in A
    BY <1>1, <2>1 DEF Places
  <2> QED
    BY <2>1, <2>2
<1> HIDE DEF A, B, f
<1>8. Cardinality(B) = Cardinality(A)
  BY <1>3, <1>5, <1>6, <1>7, SameNumber
<1> QED
  BY <1>8 DEF A, B, CountOf, Places, p

\* The counts of two sequences add up.
LEMMA CountConcat ==
    ASSUME NEW T, NEW p \in Seq(T), NEW q \in Seq(T), NEW r
    PROVE  CountOf(p \o q, r) = CountOf(p, r) + CountOf(q, r)
<1> DEFINE A == Places(p, r)
           B == {n \in (Len(p) + 1)..(Len(p) + Len(q)) : q[n - Len(p)].res = r}
           f == [n \in Places(q, r) |-> n + Len(p)]
<1>1. /\ Len(p) \in Nat /\ Len(q) \in Nat /\ Len(p \o q) = Len(p) + Len(q)
      /\ \A i \in 1..(Len(p) + Len(q)) :
            (p \o q)[i] = IF i <= Len(p) THEN p[i] ELSE q[i - Len(p)]
  BY ConcatProperties
<1>2. Places(p \o q, r) = A \cup B
  <2>1. ASSUME NEW n \in 1..(Len(p) + Len(q))
        PROVE  (p \o q)[n].res = r <=> n \in A \cup B
    <3>1. CASE n <= Len(p)
      BY <1>1, <3>1 DEF Places
    <3>2. CASE ~(n <= Len(p))
      BY <1>1, <3>2 DEF Places
    <3> QED
      BY <3>1, <3>2
  <2>2. \A n \in A \cup B : n \in 1..(Len(p) + Len(q))
    BY <1>1 DEF Places
  <2> QED
    BY <1>1, <2>1, <2>2 DEF Places
<1>3. A \cap B = {}
  BY <1>1 DEF Places
<1>4. IsFiniteSet(A) /\ IsFiniteSet(Places(q, r))
  BY CountType
<1>5. IsFiniteSet(B) /\ Cardinality(B) = Cardinality(Places(q, r))
  <2>1. f \in [Places(q, r) -> B]
    BY <1>1 DEF Places
  <2>2. \A x, y \in Places(q, r) : f[x] = f[y] => x = y
    BY <1>1 DEF Places
  <2>3. \A z \in B : \E x \in Places(q, r) : f[x] = z
    <3> SUFFICES ASSUME NEW z \in B PROVE z - Len(p) \in Places(q, r) /\ f[z - Len(p)] = z
      OBVIOUS
    <3>1. z - Len(p) \in 1..Len(q) /\ (z - Len(p)) + Len(p) = z /\ q[z - Len(p)].res = r
      BY <1>1
    <3> QED
      BY <3>1 DEF Places
  <2> HIDE DEF f, B
  <2> QED
    BY <1>4, <2>1, <2>2, <2>3, SameNumber
<1> HIDE DEF A, B, f
<1>6. Cardinality(A \cup B) = Cardinality(A) + Cardinality(B) - Cardinality({})
  BY <1>3, <1>4, <1>5, FS_Union
<1>7. Cardinality(A) \in Nat /\ Cardinality(B) \in Nat /\ Cardinality({}) = 0
  BY <1>4, <1>5, FS_CardinalityType, FS_EmptySet
<1>8. Cardinality(Places(p \o q, r)) = Cardinality(A) + Cardinality(Places(q, r))
  BY <1>2, <1>5, <1>6, <1>7
<1> QED
  BY <1>8 DEF A, CountOf, Places

\* One item more.
LEMMA CountAppend ==
    ASSUME NEW T, NEW q \in Seq(T), NEW x \in T, NEW r
    PROVE  CountOf(Append(q, x), r) = CountOf(q, r) + (IF x.res = r THEN 1 ELSE 0)
<1>1. Append(q, x) = q \o <<x>> /\ <<x>> \in Seq(T)
  BY AppendIsConcat
<1>2. CountOf(Append(q, x), r) = CountOf(q, r) + CountOf(<<x>>, r)
  BY <1>1, CountConcat
<1>3. CountOf(<<x>>, r) = Cardinality(IF x.res = r THEN {1} ELSE {})
  <2>1. {n \in 1..Len(<<x>>) : <<x>>[n].res = r} = IF x.res = r THEN {1} ELSE {}
    OBVIOUS
  <2> QED
    BY <2>1 DEF CountOf
<1>4. Cardinality(IF x.res = r THEN {1} ELSE {}) = IF x.res = r THEN 1 ELSE 0
  BY FS_Singleton, FS_EmptySet
<1> QED
  BY <1>2, <1>3, <1>4

\* A belt cut in two.
LEMMA CountParts ==
    ASSUME NEW T, NEW q \in Seq(T), NEW n \in 0..Len(q), NEW r
    PROVE  CountOf(q, r) = CountOf(SubSeq(q, 1, n), r) + CountOf(SubSeq(q, n + 1, Len(q)), r)
<1> DEFINE p1 == SubSeq(q, 1, n)
           p2 == SubSeq(q, n + 1, Len(q))
<1>1. p1 \o p2 = q
  <2>1. /\ 1 \in 1..(Len(q) + 1) /\ n \in (1 - 1)..Len(q) /\ Len(q) \in n..Len(q)
    OBVIOUS
  <2>2. p1 \o p2 = SubSeq(q, 1, Len(q))
    BY <2>1, ConcatAdjacentSubSeq
  <2> QED
    BY <2>2, SubSeqFull
<1>2. p1 \in Seq(T) /\ p2 \in Seq(T)
  <2>1. (\A i \in 1..n : q[i] \in T) /\ (\A i \in (n + 1)..Len(q) : q[i] \in T)
    BY ElementOfSeq
  <2> QED
    BY <2>1, SubSeqProperties
<1> HIDE DEF p1, p2
<1>3. CountOf(p1 \o p2, r) = CountOf(p1, r) + CountOf(p2, r)
  BY <1>2, CountConcat
<1> QED
  BY <1>1, <1>3 DEF p1, p2

\* removeBeltItems takes off a belt just what it is asked to.
LEMMA CountRemoved ==
    ASSUME NEW T, NEW q \in Seq(T), NEW take, NEW r, take[r] \in Nat, take[r] <= CountOf(q, r)
    PROVE  CountOf(RemoveItems(q, take), r) = CountOf(q, r) - take[r]
<1> DEFINE t == take[r]
           S == {n \in 1..Len(q) : CountOf(SubSeq(q, 1, n), q[n].res) > take[q[n].res]}
           R == Places(q, r)
           B == {n \in S : q[n].res = r}
           c == Cardinality(R)
           f == [n \in B |-> Rank(R, n)]
<1>1. IsFiniteSet(R) /\ c = CountOf(q, r) /\ c \in Nat /\ t \in Nat /\ t <= c
  BY CountType DEF CountOf, Places
<1>2. R \in SUBSET Nat
  BY DEF Places
<1>3. ASSUME NEW n \in R
      PROVE  CountOf(SubSeq(q, 1, n), r) = Rank(R, n)
  <2>1. n \in 1..Len(q) /\ \A k \in 1..n : q[k] \in T
    BY ElementOfSeq DEF Places
  <2>2. Len(SubSeq(q, 1, n)) = n /\ \A k \in 1..n : SubSeq(q, 1, n)[k] = q[k]
    BY <2>1, SubSeqProperties
  <2>3. {k \in 1..Len(SubSeq(q, 1, n)) : SubSeq(q, 1, n)[k].res = r} = {k \in R : k <= n}
    BY <2>1, <2>2 DEF Places
  <2> QED
    BY <2>3 DEF CountOf, Rank
<1>4. B = {n \in R : Rank(R, n) > t}
  BY <1>3 DEF Places
<1>5. f \in [B -> (t + 1)..c]
  <2>1. \A n \in R : Rank(R, n) \in 1..c
    BY <1>1, <1>2, Ranks
  <2> HIDE DEF R, c, t
  <2>2. \A n \in B : Rank(R, n) \in (t + 1)..c
    BY <1>1, <1>4, <2>1
  <2> HIDE DEF B
  <2> QED
    BY <2>2
<1>6. \A x, y \in B : f[x] = f[y] => x = y
  <2> SUFFICES ASSUME NEW x \in B, NEW y \in B, x # y PROVE f[x] # f[y]
    OBVIOUS
  <2>1. x \in R /\ y \in R
    BY <1>4
  <2>2. x < y \/ y < x
    BY <1>2, <2>1
  <2>3. Rank(R, x) < Rank(R, y) \/ Rank(R, y) < Rank(R, x)
    BY <1>1, <1>2, <2>1, <2>2, Ranks
  <2>4. Rank(R, x) \in 1..c /\ Rank(R, y) \in 1..c
    BY <1>1, <1>2, <2>1, Ranks
  <2> HIDE DEF R, B
  <2> QED
    BY <1>1, <2>3, <2>4
<1>7. \A z \in (t + 1)..c : \E x \in B : f[x] = z
  <2> SUFFICES ASSUME NEW z \in (t + 1)..c PROVE \E x \in B : f[x] = z
    OBVIOUS
  <2>1. z \in 1..c /\ z > t
    BY <1>1
  <2>2. PICK x \in R : Rank(R, x) = z
    BY <1>1, <1>2, <2>1, Ranks
  <2>3. x \in B
    BY <1>4, <2>1, <2>2
  <2> QED
    BY <2>2, <2>3
<1>8. IsFiniteSet(B)
  BY <1>1, <1>4, FS_Subset
<1> HIDE DEF B, f, R, c, t
<1>9. Cardinality((t + 1)..c) = Cardinality(B)
  BY <1>5, <1>6, <1>7, <1>8, SameNumber
<1>10. Cardinality((t + 1)..c) = c - t
  BY <1>1, FS_Interval
<1>11. CountOf(RemoveItems(q, take), r) = Cardinality(B)
  <2>1. S \in SUBSET (1..Len(q))
    OBVIOUS
  <2>2. RemoveItems(q, take) = Picked(q, S)
    BY DEF RemoveItems
  <2> HIDE DEF S
  <2>3. CountOf(Picked(q, S), r) = Cardinality({n \in S : q[n].res = r})
    BY <2>1, CountPicked
  <2> QED
    BY <2>2, <2>3 DEF B
<1> QED
  BY <1>1, <1>9, <1>10, <1>11 DEF t

-----------------------------------------------------------------------------
(* Where items go *)

\* An item on its way, its progress not yet cut to what the belt is long.
Loads == [id : Nat \ {0}, res : Resources, progress : Nat]

Distinct(q) == \A m, n \in 1..Len(q) : q[m].id = q[n].id => m = n
Apart(p, q) == \A m \in 1..Len(p), n \in 1..Len(q) : p[m].id # q[n].id
ComesFrom(p, q) ==
    \A m \in 1..Len(p) : \E n \in 1..Len(q) : p[m].id = q[n].id /\ p[m].res = q[n].res

\* p has the items of q, with other progress.
Alike(p, q) ==
    Len(p) = Len(q) /\ \A n \in 1..Len(q) : p[n].id = q[n].id /\ p[n].res = q[n].res

\* A sequence of the same ids and resources is as good for every question asked here.
LEMMA AlikeServes ==
    ASSUME NEW p, NEW q, Alike(p, q)
    PROVE  /\ Distinct(q) => Distinct(p)
           /\ ComesFrom(p, q)
           /\ \A o : ComesFrom(q, o) => ComesFrom(p, o)
           /\ \A o : (Apart(q, o) => Apart(p, o)) /\ (Apart(o, q) => Apart(o, p))
           /\ \A r : CountOf(p, r) = CountOf(q, r)
<1>1. \A r : CountOf(p, r) = CountOf(q, r)
  BY CountSame DEF Alike
<1>2. /\ Distinct(q) => Distinct(p)
      /\ ComesFrom(p, q)
  BY DEF Alike, Distinct, ComesFrom
<1>3. ASSUME NEW o
      PROVE  /\ ComesFrom(q, o) => ComesFrom(p, o)
             /\ Apart(q, o) => Apart(p, o)
             /\ Apart(o, q) => Apart(o, p)
  BY DEF Alike, ComesFrom, Apart
<1> QED
  BY <1>1, <1>2, <1>3

\* Items picked from a belt are distinct, come from it and are apart from the others.
LEMMA PickedServes ==
    ASSUME NEW T, NEW q \in Seq(T), NEW S \in SUBSET (1..Len(q)), Distinct(q)
    PROVE  /\ Distinct(Picked(q, S))
           /\ ComesFrom(Picked(q, S), q)
           /\ \A U \in SUBSET (1..Len(q)) :
                 S \cap U = {} => Apart(Picked(q, S), Picked(q, U))
<1>1. /\ Len(Picked(q, S)) = Cardinality(S)
      /\ \A c \in 1..Cardinality(S) : Nth(S, c) \in S /\ Picked(q, S)[c] = q[Nth(S, c)]
      /\ \A c, d \in 1..Cardinality(S) : c # d => Nth(S, c) # Nth(S, d)
  BY PickedItems
<1>2. Distinct(Picked(q, S))
  <2> SUFFICES ASSUME NEW c \in 1..Cardinality(S), NEW d \in 1..Cardinality(S), c # d
               PROVE  Picked(q, S)[c].id # Picked(q, S)[d].id
    BY <1>1 DEF Distinct
  <2>1. Nth(S, c) # Nth(S, d) /\ Nth(S, c) \in 1..Len(q) /\ Nth(S, d) \in 1..Len(q)
    BY <1>1
  <2> QED
    BY <1>1, <2>1 DEF Distinct
<1>3. ComesFrom(Picked(q, S), q)
  BY <1>1 DEF ComesFrom
<1>4. ASSUME NEW U \in SUBSET (1..Len(q)), S \cap U = {}
      PROVE  Apart(Picked(q, S), Picked(q, U))
  <2>1. /\ Len(Picked(q, U)) = Cardinality(U)
        /\ \A c \in 1..Cardinality(U) : Nth(U, c) \in U /\ Picked(q, U)[c] = q[Nth(U, c)]
    BY PickedItems
  <2> SUFFICES ASSUME NEW c \in 1..Cardinality(S), NEW d \in 1..Cardinality(U)
               PROVE  Picked(q, S)[c].id # Picked(q, U)[d].id
    BY <1>1, <2>1 DEF Apart
  <2>2. Nth(S, c) # Nth(U, d) /\ Nth(S, c) \in 1..Len(q) /\ Nth(U, d) \in 1..Len(q)
    BY <1>1, <1>4, <2>1
  <2> QED
    BY <1>1, <2>1, <2>2 DEF Distinct
<1> QED
  BY <1>2, <1>3, <1>4

\* Two numbers of places add up.
LEMMA CardinalityOfParts ==
    ASSUME NEW A, NEW B, IsFiniteSet(A), IsFiniteSet(B), A \cap B = {}
    PROVE  /\ Cardinality(A) \in Nat /\ Cardinality(B) \in Nat /\ IsFiniteSet(A \cup B)
           /\ Cardinality(A \cup B) = Cardinality(A) + Cardinality(B)
<1>1. Cardinality(A) \in Nat /\ Cardinality(B) \in Nat /\ Cardinality({}) = 0
  BY FS_CardinalityType, FS_EmptySet
<1>2. IsFiniteSet(A \cup B)
  BY FS_Union
<1>3. Cardinality(A \cup B) = Cardinality(A) + Cardinality(B) - Cardinality({})
  BY FS_Union
<1> QED
  BY <1>1, <1>2, <1>3

\* An item that moves stays the item it is.
LEMMA ItemMoves ==
    ASSUME NEW e \in Loads, NEW v
    PROVE  /\ [e EXCEPT !.progress = v].id = e.id
           /\ [e EXCEPT !.progress = v].res = e.res
           /\ [e EXCEPT !.progress = v].progress = v
           /\ v \in Nat => [e EXCEPT !.progress = v] \in Loads
           /\ v \in 0..BeltSpeed => [e EXCEPT !.progress = v] \in Items
<1>1. e = [id |-> e.id, res |-> e.res, progress |-> e.progress]
  BY DEF Loads
<1>2. [e EXCEPT !.progress = v] = [id |-> e.id, res |-> e.res, progress |-> v]
  BY <1>1
<1> QED
  BY <1>2 DEF Loads, Items

\* An item on a belt is not yet past its end.
LEMMA ItemsAreLoads ==
    ASSUME BeltSpeed \in Nat \ {0}, NEW e \in Items
    PROVE  e \in Loads /\ e.progress \in 0..BeltSpeed /\ e.progress \in Nat
<1>1. /\ e = [id |-> e.id, res |-> e.res, progress |-> e.progress]
      /\ e.id \in Nat \ {0} /\ e.res \in Resources /\ e.progress \in 0..BeltSpeed
  BY DEF Items
<1>2. e.progress \in Nat
  BY <1>1
<1>3. [id |-> e.id, res |-> e.res, progress |-> e.progress] \in Loads
  BY <1>1, <1>2 DEF Loads
<1> QED
  BY <1>1, <1>2, <1>3, Zenon

\* What items do in one tick.
LEMMA ItemsAdvance ==
    ASSUME BeltSpeed \in Nat \ {0}, NEW q \in Seq(Items)
    PROVE  /\ Advanced(q) \in Seq(Loads)
           /\ Alike(Advanced(q), q)
           /\ \A n \in 1..Len(q) : Advanced(q)[n].progress = q[n].progress + 1
                                   /\ q[n].progress \in 0..BeltSpeed
<1>1. \A n \in 1..Len(q) : q[n] \in Items
  BY ElementOfSeq
<1>2. ASSUME NEW n \in 1..Len(q)
      PROVE  /\ [q[n] EXCEPT !.progress = @ + 1] \in Loads
             /\ [q[n] EXCEPT !.progress = @ + 1].id = q[n].id
             /\ [q[n] EXCEPT !.progress = @ + 1].res = q[n].res
             /\ [q[n] EXCEPT !.progress = @ + 1].progress = q[n].progress + 1
             /\ q[n].progress \in 0..BeltSpeed
  <2>1. q[n] \in Loads /\ q[n].progress \in 0..BeltSpeed /\ q[n].progress + 1 \in Nat
    BY <1>1, ItemsAreLoads
  <2> QED
    BY <2>1, ItemMoves
<1>3. Advanced(q) \in [1..Len(q) -> Loads]
  BY <1>2 DEF Advanced
<1>4. Advanced(q) \in Seq(Loads) /\ Len(Advanced(q)) = Len(q)
  <2>1. Len(q) \in Nat
    OBVIOUS
  <2> QED
    BY <1>3, <2>1
<1>5. \A n \in 1..Len(q) : Advanced(q)[n] = [q[n] EXCEPT !.progress = @ + 1]
  BY DEF Advanced
<1> QED
  BY <1>2, <1>4, <1>5 DEF Alike

\* Items held back are items at the end of the belt.
LEMMA HeldItems ==
    ASSUME BeltSpeed \in Nat \ {0}, NEW q \in Seq(Loads)
    PROVE  Held(q) \in Seq(Items) /\ Alike(Held(q), q)
<1>1. \A n \in 1..Len(q) : q[n] \in Loads
  BY ElementOfSeq
<1>2. ASSUME NEW n \in 1..Len(q)
      PROVE  /\ [q[n] EXCEPT !.progress = BeltSpeed] \in Items
             /\ [q[n] EXCEPT !.progress = BeltSpeed].id = q[n].id
             /\ [q[n] EXCEPT !.progress = BeltSpeed].res = q[n].res
  <2>1. q[n] \in Loads /\ BeltSpeed \in 0..BeltSpeed
    BY <1>1
  <2> QED
    BY <2>1, ItemMoves
<1>3. Held(q) \in [1..Len(q) -> Items]
  BY <1>2 DEF Held
<1>4. Held(q) \in Seq(Items) /\ Len(Held(q)) = Len(q)
  <2>1. Len(q) \in Nat
    OBVIOUS
  <2> QED
    BY <1>3, <2>1
<1>5. \A n \in 1..Len(q) : Held(q)[n] = [q[n] EXCEPT !.progress = BeltSpeed]
  BY DEF Held
<1> QED
  BY <1>2, <1>4, <1>5 DEF Alike

\* Items taken in keep their id and resource.
LEMMA EnteringItems ==
    ASSUME BeltSpeed \in Nat \ {0}, NEW q \in Seq(Loads),
           \A n \in 1..Len(q) : q[n].progress \in BeltSpeed..(BeltSpeed + 1)
    PROVE  Entering(q) \in Seq(Items) /\ Alike(Entering(q), q)
<1>1. \A n \in 1..Len(q) : q[n] \in Loads
  BY ElementOfSeq
<1>2. ASSUME NEW n \in 1..Len(q)
      PROVE  /\ [q[n] EXCEPT !.progress = @ - BeltSpeed] \in Items
             /\ [q[n] EXCEPT !.progress = @ - BeltSpeed].id = q[n].id
             /\ [q[n] EXCEPT !.progress = @ - BeltSpeed].res = q[n].res
  <2>1. q[n] \in Loads /\ q[n].progress - BeltSpeed \in 0..BeltSpeed
    BY <1>1
  <2> QED
    BY <2>1, ItemMoves
<1>3. Entering(q) \in [1..Len(q) -> Items]
  BY <1>2 DEF Entering
<1>4. Entering(q) \in Seq(Items) /\ Len(Entering(q)) = Len(q)
  <2>1. Len(q) \in Nat
    OBVIOUS
  <2> QED
    BY <1>3, <2>1
<1>5. \A n \in 1..Len(q) : Entering(q)[n] = [q[n] EXCEPT !.progress = @ - BeltSpeed]
  BY DEF Entering
<1> QED
  BY <1>2, <1>4, <1>5 DEF Alike

\* Two sequences in one.
LEMMA Joined ==
    ASSUME NEW T, NEW u \in Seq(T), NEW v \in Seq(T)
    PROVE  /\ u \o v \in Seq(T)
           /\ Len(u) \in Nat /\ Len(v) \in Nat /\ Len(u \o v) = Len(u) + Len(v)
           /\ \A n \in 1..Len(u \o v) :
                 \/ n \in 1..Len(u) /\ (u \o v)[n] = u[n]
                 \/ n - Len(u) \in 1..Len(v) /\ (u \o v)[n] = v[n - Len(u)]
           /\ Distinct(u) /\ Distinct(v) /\ Apart(u, v) => Distinct(u \o v)
           /\ \A o : ComesFrom(u, o) /\ ComesFrom(v, o) => ComesFrom(u \o v, o)
           /\ \A o : (Apart(o, u) /\ Apart(o, v) => Apart(o, u \o v))
                     /\ (Apart(u, o) /\ Apart(v, o) => Apart(u \o v, o))
<1> DEFINE w == u \o v
<1>1. /\ w \in Seq(T) /\ Len(w) = Len(u) + Len(v)
      /\ \A n \in 1..(Len(u) + Len(v)) : w[n] = IF n <= Len(u) THEN u[n] ELSE v[n - Len(u)]
  BY ConcatProperties
<1>2. Len(u) \in Nat /\ Len(v) \in Nat
  OBVIOUS
<1> HIDE DEF w
<1>3. \A n \in 1..Len(w) : \/ n \in 1..Len(u) /\ w[n] = u[n]
                           \/ n - Len(u) \in 1..Len(v) /\ w[n] = v[n - Len(u)]
  BY <1>1, <1>2
<1>4. ASSUME Distinct(u), Distinct(v), Apart(u, v)
      PROVE  Distinct(w)
  <2> SUFFICES ASSUME NEW m \in 1..Len(w), NEW n \in 1..Len(w), w[m].id = w[n].id
               PROVE  m = n
    BY DEF Distinct
  <2>1. CASE m \in 1..Len(u) /\ w[m] = u[m] /\ n \in 1..Len(u) /\ w[n] = u[n]
    BY <1>4, <2>1 DEF Distinct
  <2>2. CASE /\ m - Len(u) \in 1..Len(v) /\ w[m] = v[m - Len(u)]
             /\ n - Len(u) \in 1..Len(v) /\ w[n] = v[n - Len(u)]
    <3>1. m - Len(u) = n - Len(u)
      BY <1>4, <2>2 DEF Distinct
    <3> QED
      BY <1>2, <3>1
  <2>3. CASE m \in 1..Len(u) /\ w[m] = u[m] /\ n - Len(u) \in 1..Len(v) /\ w[n] = v[n - Len(u)]
    BY <1>4, <2>3 DEF Apart
  <2>4. CASE n \in 1..Len(u) /\ w[n] = u[n] /\ m - Len(u) \in 1..Len(v) /\ w[m] = v[m - Len(u)]
    BY <1>4, <2>4 DEF Apart
  <2> QED
    BY <1>3, <2>1, <2>2, <2>3, <2>4
<1>5. ASSUME NEW o, ComesFrom(u, o), ComesFrom(v, o)
      PROVE  ComesFrom(w, o)
  <2> SUFFICES ASSUME NEW n \in 1..Len(w)
               PROVE  \E k \in 1..Len(o) : w[n].id = o[k].id /\ w[n].res = o[k].res
    BY DEF ComesFrom
  <2>1. CASE n \in 1..Len(u) /\ w[n] = u[n]
    BY <1>5, <2>1 DEF ComesFrom
  <2>2. CASE n - Len(u) \in 1..Len(v) /\ w[n] = v[n - Len(u)]
    BY <1>5, <2>2 DEF ComesFrom
  <2> QED
    BY <1>3, <2>1, <2>2
<1>6. ASSUME NEW o
      PROVE  /\ Apart(o, u) /\ Apart(o, v) => Apart(o, w)
             /\ Apart(u, o) /\ Apart(v, o) => Apart(w, o)
  BY <1>3 DEF Apart
<1> QED
  BY <1>1, <1>2, <1>3, <1>4, <1>5, <1>6 DEF w

\* A sequence cut in two.
LEMMA Cut ==
    ASSUME NEW T, NEW q \in Seq(T), NEW n \in 0..Len(q), Distinct(q)
    PROVE  LET u == SubSeq(q, 1, n)
               v == SubSeq(q, n + 1, Len(q))
           IN  /\ u \in Seq(T) /\ v \in Seq(T)
               /\ Len(u) = n /\ Len(v) = Len(q) - n
               /\ \A k \in 1..Len(u) : k \in 1..Len(q) /\ u[k] = q[k]
               /\ Distinct(u) /\ Distinct(v) /\ Apart(u, v)
               /\ ComesFrom(u, q) /\ ComesFrom(v, q)
               /\ \A r : CountOf(q, r) = CountOf(u, r) + CountOf(v, r)
<1> DEFINE u == SubSeq(q, 1, n)
           v == SubSeq(q, n + 1, Len(q))
<1>1. Len(q) \in Nat /\ n \in Nat /\ n <= Len(q)
  OBVIOUS
<1>2. (\A i \in 1..n : q[i] \in T) /\ (\A i \in (n + 1)..Len(q) : q[i] \in T)
  BY <1>1, ElementOfSeq
<1>3. u \in Seq(T) /\ Len(u) = n /\ \A k \in 1..n : u[k] = q[k]
  BY <1>1, <1>2, SubSeqProperties
<1>4. v \in Seq(T) /\ Len(v) = Len(q) - n /\ \A k \in 1..(Len(q) - n) : v[k] = q[n + k]
  <2>1. /\ v \in Seq(T)
        /\ Len(v) = IF n + 1 <= Len(q) THEN Len(q) - (n + 1) + 1 ELSE 0
        /\ \A k \in 1..(Len(q) - (n + 1) + 1) : v[k] = q[(n + 1) + k - 1]
    BY <1>1, <1>2, SubSeqProperties
  <2> HIDE DEF v
  <2>2. Len(v) = Len(q) - n /\ Len(q) - (n + 1) + 1 = Len(q) - n
    BY <1>1, <2>1
  <2>3. \A k \in 1..(Len(q) - n) : (n + 1) + k - 1 = n + k
    BY <1>1
  <2> QED
    BY <2>1, <2>2, <2>3
<1>5. \A r : CountOf(q, r) = CountOf(u, r) + CountOf(v, r)
  BY CountParts
<1> HIDE DEF u, v
<1>6. \A k \in 1..(Len(q) - n) : n + k \in 1..Len(q) /\ n + k > n
  BY <1>1
<1>7. \A k \in 1..n : k \in 1..Len(q) /\ k <= n
  BY <1>1
<1>8. Distinct(u) /\ ComesFrom(u, q)
  BY <1>3, <1>7 DEF Distinct, ComesFrom
<1>9. ComesFrom(v, q)
  BY <1>4, <1>6 DEF ComesFrom
<1>10. Distinct(v)
  <2> SUFFICES ASSUME NEW k \in 1..(Len(q) - n), NEW l \in 1..(Len(q) - n), v[k].id = v[l].id
               PROVE  k = l
    BY <1>4 DEF Distinct
  <2>1. n + k = n + l
    BY <1>4, <1>6 DEF Distinct
  <2> QED
    BY <1>1, <2>1
<1>11. Apart(u, v)
  <2> SUFFICES ASSUME NEW k \in 1..n, NEW l \in 1..(Len(q) - n)
               PROVE  u[k].id # v[l].id
    BY <1>3, <1>4 DEF Apart
  <2>1. k # n + l
    BY <1>1
  <2> QED
    BY <1>3, <1>4, <1>6, <1>7, <2>1 DEF Distinct
<1> QED
  BY <1>3, <1>4, <1>5, <1>7, <1>8, <1>9, <1>10, <1>11 DEF u, v

\* The parts of a belt.
Among(S, q, r) == {n \in S : q[n].res = r}

\* Items picked in two parts are together those of both.
LEMMA PickedParts ==
    ASSUME NEW T, NEW q \in Seq(T), NEW S \in SUBSET (1..Len(q)), NEW U \in SUBSET (1..Len(q)),
           S \cap U = {}, NEW W, W = S \cup U, NEW r
    PROVE  CountOf(Picked(q, S), r) + CountOf(Picked(q, U), r) = Cardinality(Among(W, q, r))
<1> DEFINE A == Among(S, q, r)
           B == Among(U, q, r)
<1>1. IsFiniteSet(A) /\ IsFiniteSet(B) /\ A \cap B = {}
  <2>1. IsFiniteSet(S) /\ IsFiniteSet(U)
    BY PickedItems
  <2>2. A \in SUBSET S /\ B \in SUBSET U
    BY DEF Among
  <2> QED
    BY <2>1, <2>2, FS_Subset
<1>2. Among(W, q, r) = A \cup B
  BY DEF Among
<1>3. CountOf(Picked(q, S), r) = Cardinality(A) /\ CountOf(Picked(q, U), r) = Cardinality(B)
  BY CountPicked DEF Among
<1> HIDE DEF A, B
<1>4. Cardinality(A \cup B) = Cardinality(A) + Cardinality(B)
  BY <1>1, CardinalityOfParts
<1> QED
  BY <1>2, <1>3, <1>4

\* A tick parts the items of a belt in those that stay and those at its end.
LEMMA BeltParts ==
    ASSUME BeltSpeed \in Nat \ {0}, NEW q \in Seq(Items), Distinct(q)
    PROVE  /\ Staying(q) \in Seq(Items) /\ Completed(q) \in Seq(Loads)
           /\ Len(Staying(q)) + Len(Completed(q)) = Len(q)
           /\ Distinct(Staying(q)) /\ Distinct(Completed(q)) /\ Apart(Staying(q), Completed(q))
           /\ ComesFrom(Staying(q), q) /\ ComesFrom(Completed(q), q)
           /\ \A n \in 1..Len(Completed(q)) :
                 Completed(q)[n].progress \in BeltSpeed..(BeltSpeed + 1)
           /\ \A r : CountOf(Staying(q), r) + CountOf(Completed(q), r) = CountOf(q, r)
<1> DEFINE a == Advanced(q)
           N == 1..Len(q)
           S == {n \in N : q[n].progress + 1 < BeltSpeed}
           U == {n \in N : q[n].progress + 1 > BeltSpeed}
           V == {n \in N : q[n].progress + 1 = BeltSpeed}
           s == Picked(a, S)
           u == Picked(a, U)
           v == Picked(a, V)
<1>1. /\ a \in Seq(Loads) /\ Alike(a, q)
      /\ \A n \in N : a[n].progress = q[n].progress + 1 /\ q[n].progress \in 0..BeltSpeed
  BY ItemsAdvance
<1>2. Staying(q) = s /\ Completed(q) = u \o v
  BY DEF Staying, Completed
<1>3. Len(a) = Len(q) /\ Len(q) \in Nat /\ Distinct(a)
  <2> HIDE DEF a
  <2>1. Len(a) = Len(q)
    BY <1>1 DEF Alike
  <2>2. Distinct(a)
    BY <1>1, AlikeServes
  <2> QED
    BY <2>1, <2>2
<1>4. /\ S \in SUBSET (1..Len(a)) /\ U \in SUBSET (1..Len(a)) /\ V \in SUBSET (1..Len(a))
      /\ S \cap U = {} /\ S \cap V = {} /\ U \cap V = {}
      /\ (S \cap (U \cup V)) = {} /\ S \cup (U \cup V) = 1..Len(a)
  <2>1. \A n \in N : q[n].progress + 1 \in Int
    BY <1>1
  <2>2. \A n \in N : n \in S \/ n \in U \/ n \in V
    BY <2>1
  <2> QED
    BY <1>3, <2>1, <2>2
<1> HIDE DEF a, S, U, V
<1>5. /\ s \in Seq(Loads) /\ u \in Seq(Loads) /\ v \in Seq(Loads)
      /\ Len(s) = Cardinality(S) /\ Len(u) = Cardinality(U) /\ Len(v) = Cardinality(V)
      /\ \A c \in 1..Len(s) : Nth(S, c) \in S /\ s[c] = a[Nth(S, c)]
      /\ \A c \in 1..Len(u) : Nth(U, c) \in U /\ u[c] = a[Nth(U, c)]
      /\ \A c \in 1..Len(v) : Nth(V, c) \in V /\ v[c] = a[Nth(V, c)]
  BY <1>1, <1>4, PickedItems
<1>6. /\ Distinct(s) /\ Distinct(u) /\ Distinct(v)
      /\ Apart(s, u) /\ Apart(s, v) /\ Apart(u, v)
      /\ ComesFrom(s, a) /\ ComesFrom(u, a) /\ ComesFrom(v, a)
  BY <1>1, <1>3, <1>4, PickedServes
<1>7. /\ s \in Seq(Items)
      /\ \A c \in 1..Len(u) : u[c].progress \in BeltSpeed..(BeltSpeed + 1)
      /\ \A c \in 1..Len(v) : v[c].progress \in BeltSpeed..(BeltSpeed + 1)
  <2>1. /\ \A n \in S : n \in N /\ a[n] \in Loads /\ a[n].progress \in 0..BeltSpeed
        /\ \A n \in U \cup V : a[n].progress \in BeltSpeed..(BeltSpeed + 1)
    <3>1. \A n \in N : a[n] \in Loads
      BY <1>1, <1>3, ElementOfSeq
    <3> QED
      BY <1>1, <3>1 DEF S, U, V
  <2>2. \A e \in Loads : e.progress \in 0..BeltSpeed => e \in Items
    BY DEF Loads, Items
  <2>3. \A c \in 1..Len(s) : s[c] \in Items
    BY <1>5, <2>1, <2>2
  <2>4. s \in [1..Len(s) -> Items] /\ Len(s) \in Nat
    BY <1>5, <2>3
  <2> HIDE DEF s, u, v
  <2>5. s \in Seq(Items)
    BY <2>4
  <2> QED
    BY <1>5, <2>1, <2>5
<1> HIDE DEF s, u, v
<1>8. /\ u \o v \in Seq(Loads) /\ Len(u \o v) = Len(u) + Len(v)
      /\ Len(u) \in Nat /\ Len(v) \in Nat
  BY <1>5, Joined
<1>9. \A n \in 1..Len(u \o v) : \/ n \in 1..Len(u) /\ (u \o v)[n] = u[n]
                                \/ n - Len(u) \in 1..Len(v) /\ (u \o v)[n] = v[n - Len(u)]
  BY <1>5, Joined
<1>10. Distinct(u \o v)
  BY <1>5, <1>6, Joined
<1>11. Apart(s, u \o v)
  BY <1>5, <1>6, Joined
<1>12. ComesFrom(s, q) /\ ComesFrom(u \o v, q)
  <2>1. ComesFrom(u \o v, a)
    BY <1>5, <1>6, Joined
  <2>2. \A o : ComesFrom(o, a) => ComesFrom(o, q)
    <3>1. Len(a) = Len(q) /\ \A n \in 1..Len(q) : a[n].id = q[n].id /\ a[n].res = q[n].res
      BY <1>1 DEF Alike
    <3> QED
      BY <3>1 DEF ComesFrom
  <2> QED
    BY <1>6, <2>1, <2>2
<1>13. \A n \in 1..Len(u \o v) : (u \o v)[n].progress \in BeltSpeed..(BeltSpeed + 1)
  BY <1>7, <1>9
<1>14. Len(s) + Len(u \o v) = Len(q)
  <2>1. /\ IsFiniteSet(S) /\ IsFiniteSet(U) /\ IsFiniteSet(V)
    BY <1>1, <1>4, PickedItems
  <2>2. IsFiniteSet(U \cup V) /\ Cardinality(U \cup V) = Cardinality(U) + Cardinality(V)
    BY <1>4, <2>1, CardinalityOfParts
  <2>3. Cardinality(S \cup (U \cup V)) = Cardinality(S) + Cardinality(U \cup V)
    BY <1>4, <2>1, <2>2, CardinalityOfParts
  <2>4. Cardinality(1..Len(a)) = Len(a)
    <3>1. Len(a) \in Nat
      BY <1>3
    <3> QED
      BY <3>1, Numbers
  <2> QED
    BY <1>3, <1>4, <1>5, <1>8, <2>2, <2>3, <2>4
<1>15. \A r : CountOf(s, r) + CountOf(u \o v, r) = CountOf(q, r)
  <2> SUFFICES ASSUME NEW r PROVE CountOf(s, r) + CountOf(u \o v, r) = CountOf(q, r)
    OBVIOUS
  <2>1. CountOf(u \o v, r) = CountOf(u, r) + CountOf(v, r)
    BY <1>5, CountConcat
  <2> DEFINE W == U \cup V
  <2>2. CountOf(u, r) + CountOf(v, r) = Cardinality(Among(W, a, r))
    <3>1. W = U \cup V
      OBVIOUS
    <3> HIDE DEF W
    <3>2. a \in Seq(Loads) /\ U \in SUBSET (1..Len(a)) /\ V \in SUBSET (1..Len(a)) /\ U \cap V = {}
      BY <1>1, <1>4
    <3>3. CountOf(Picked(a, U), r) + CountOf(Picked(a, V), r) = Cardinality(Among(W, a, r))
      BY <3>1, <3>2, PickedParts
    <3> QED
      BY <2>1, <3>3 DEF u, v
  <2>3. CountOf(s, r) = Cardinality(Among(S, a, r))
    BY <1>1, <1>4, CountPicked DEF s, Among
  <2> DEFINE A == Among(S, a, r)
             B == Among(W, a, r)
  <2>4. IsFiniteSet(A) /\ IsFiniteSet(B) /\ A \cap B = {}
    <3>1. IsFiniteSet(1..Len(a))
      BY <1>3, Numbers
    <3>2. A \in SUBSET (1..Len(a)) /\ B \in SUBSET (1..Len(a)) /\ A \cap B = {}
      BY <1>4 DEF Among
    <3> QED
      BY <3>1, <3>2, FS_Subset
  <2>5. A \cup B = {n \in 1..Len(a) : a[n].res = r}
    BY <1>4 DEF Among
  <2> HIDE DEF A, B
  <2>6. Cardinality(A \cup B) = Cardinality(A) + Cardinality(B)
    BY <2>4, CardinalityOfParts
  <2>7. CountOf(a, r) = CountOf(q, r)
    BY <1>1, AlikeServes
  <2>8. CountOf(a, r) = Cardinality(A \cup B)
    BY <2>5 DEF CountOf
  <2> QED
    BY <2>1, <2>2, <2>3, <2>6, <2>7, <2>8 DEF A, B
<1> QED
  BY <1>2, <1>6, <1>7, <1>8, <1>10, <1>11, <1>12, <1>13, <1>14, <1>15

-----------------------------------------------------------------------------
(* What stocks are worth *)

\* Products of numbers, for the solver.
LEMMA Distributes ==
    ASSUME NEW v \in Int, NEW a \in Int, NEW b \in Int
    PROVE  /\ v * a \in Int /\ v * (a + b) = v * a + v * b /\ v * (a - b) = v * a - v * b
           /\ v * 0 = 0
  OBVIOUS

\* The worth of an amount of each resource is a number.
LEMMA WorthType ==
    ASSUME NEW a \in [Resources -> Int]
    PROVE  WorthOf(a) \in Int
<1>1. IsFiniteSet(Resources) /\ \A r \in Resources : Value[r] \in Int /\ a[r] \in Int
  BY FactoryAssumption
<1>2. [r \in Resources |-> Value[r] * a[r]] \in [Resources -> Int]
  BY <1>1, Distributes
<1> QED
  BY <1>1, <1>2, SumType DEF WorthOf

\* The worth of two amounts together.
LEMMA WorthPlus ==
    ASSUME NEW a \in [Resources -> Int], NEW b \in [Resources -> Int], NEW c \in [Resources -> Int],
           \A r \in Resources : c[r] = a[r] + b[r]
    PROVE  WorthOf(c) = WorthOf(a) + WorthOf(b)
<1> DEFINE f(s) == [r \in Resources |-> Value[r] * s[r]]
<1>1. IsFiniteSet(Resources) /\ \A r \in Resources : /\ Value[r] \in Int
                                                     /\ a[r] \in Int /\ b[r] \in Int /\ c[r] \in Int
  BY FactoryAssumption
<1>2. f(a) \in [Resources -> Int] /\ f(b) \in [Resources -> Int] /\ f(c) \in [Resources -> Int]
  BY <1>1, Distributes
<1>3. \A r \in Resources : f(c)[r] = f(a)[r] + f(b)[r]
  BY <1>1, Distributes
<1>4. WorthOf(a) = SumFunction(f(a)) /\ WorthOf(b) = SumFunction(f(b)) /\ WorthOf(c) = SumFunction(f(c))
  BY DEF WorthOf
<1> HIDE DEF f
<1> QED
  BY <1>1, <1>2, <1>3, <1>4, SumPlus

\* The worth of an amount that differs in one resource.
LEMMA WorthOne ==
    ASSUME NEW a \in [Resources -> Int], NEW b \in [Resources -> Int], NEW r \in Resources,
           \A s \in Resources \ {r} : b[s] = a[s]
    PROVE  WorthOf(b) = WorthOf(a) + Value[r] * (b[r] - a[r])
<1> DEFINE f(s) == [t \in Resources |-> Value[t] * s[t]]
<1>1. IsFiniteSet(Resources) /\ \A s \in Resources : Value[s] \in Int /\ a[s] \in Int /\ b[s] \in Int
  BY FactoryAssumption
<1>2. f(a) \in [Resources -> Int] /\ f(b) \in [Resources -> Int]
  BY <1>1, Distributes
<1>3. \A s \in Resources \ {r} : f(b)[s] = f(a)[s]
  OBVIOUS
<1>4. WorthOf(a) = SumFunction(f(a)) /\ WorthOf(b) = SumFunction(f(b))
  BY DEF WorthOf
<1>5. f(b)[r] - f(a)[r] = Value[r] * (b[r] - a[r])
  BY <1>1, Distributes
<1> HIDE DEF f
<1>6. SumFunction(f(b)) = SumFunction(f(a)) + (f(b)[r] - f(a)[r])
  BY <1>1, <1>2, <1>3, SumOne
<1> QED
  BY <1>4, <1>5, <1>6

\* Nothing is worth nothing.
LEMMA WorthEmpty ==
    ASSUME NEW a, \A r \in Resources : a[r] = 0
    PROVE  WorthOf(a) = 0
<1>1. IsFiniteSet(Resources) /\ \A r \in Resources : Value[r] \in Int
  BY FactoryAssumption
<1>2. \A r \in Resources : [t \in Resources |-> Value[t] * a[t]][r] = 0
  BY <1>1, Distributes
<1> QED
  BY <1>1, <1>2, SumZero DEF WorthOf

\* What the items of a belt are worth.
Counts(q) == [r \in Resources |-> CountOf(q, r)]

\* The counts of a belt are an amount of each resource.
LEMMA CountsType ==
    ASSUME NEW T, NEW q \in Seq(T)
    PROVE  Counts(q) \in [Resources -> Nat] /\ Counts(q) \in [Resources -> Int]
  BY CountType DEF Counts

=============================================================================
