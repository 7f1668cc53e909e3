----------------------------- MODULE GoodsProofs -----------------------------
(***************************************************************************)
(* That belts stay within their limits, that items keep their identity and   *)
(* that goods are conserved, for any content, map, layout and number of      *)
(* players.  What a step does is followed from the entities E to the          *)
(* entities F: which are Sound, what Stays on its belt, what Flows on to the  *)
(* next one, and what the Stuff of all buildings is worth.                   *)
(***************************************************************************)
EXTENDS FactoryProofs

\* What an entity may hold when the last item had the id n.
Fine(e, n) ==
    /\ e \in Entities
    /\ Len(e.belt) <= MaxBelt
    /\ e.kind \notin Belts => e.belt = <<>>
    /\ Distinct(e.belt)
    /\ \A m \in 1..Len(e.belt) : e.belt[m].id <= n

\* Finitely many entities, of which no two have an item in common.
Sound(E, n) ==
    /\ n \in Nat
    /\ IsFiniteSet(DOMAIN E)
    /\ E = [k \in DOMAIN E |-> E[k]]
    /\ \A k \in DOMAIN E : Fine(E[k], n)
    /\ \A k, l \in DOMAIN E : k # l => Apart(E[k].belt, E[l].belt)

\* F differs from E at the entities I.
Alters(E, F, I) ==
    F = [k \in DOMAIN E |-> F[k]] /\ \A k \in DOMAIN E \ I : F[k] = E[k]

\* The building e is still the building f.
SameBuilding(e, f) ==
    e.kind = f.kind /\ e.owner = f.owner /\ e.at = f.at /\ e.dir = f.dir /\ e.flipped = f.flipped

\* The same buildings, whatever they hold.
Kept(E, F) == DOMAIN F = DOMAIN E /\ \A k \in DOMAIN E : SameBuilding(F[k], E[k])

\* The items of F were on the same belts in E.
Stays(E, F) == \A k \in DOMAIN E : ComesFrom(F[k].belt, E[k].belt)

\* Or they come from a belt that faces theirs, or are new.
Flows(E, n, F, o) ==
    \A k \in DOMAIN F : \A m \in 1..Len(F[k].belt) :
        \/ F[k].belt[m].id > n /\ F[k].belt[m].id <= o
        \/ \E l \in DOMAIN E : \E i \in 1..Len(E[l].belt) :
              /\ E[l].belt[i].id = F[k].belt[m].id
              /\ E[l].belt[i].res = F[k].belt[m].res
              /\ k = l \/ F[k].at = Ahead(E[l])

\* E with another progress, stock or belt of entity i.
WithProgress(E, i, v) == [E EXCEPT ![i].progress = v]
WithStock(E, i, s) == [E EXCEPT ![i].stock = s]
WithBelt(E, i, b) == [E EXCEPT ![i].belt = b]
WithBelts(E, i, b, j, d) == [E EXCEPT ![i].belt = b, ![j].belt = d]

\* The items of p were on q or on o.
ComesFromOne(p, q, o) ==
    \A m \in 1..Len(p) :
        \/ \E l \in 1..Len(q) : p[m].id = q[l].id /\ p[m].res = q[l].res
        \/ \E l \in 1..Len(o) : p[m].id = o[l].id /\ p[m].res = o[l].res

\* What the entities E and all they hold are worth.
Stuff(E) == SumFunction([k \in DOMAIN E |-> Contents(E[k]) + Price(E[k])])

-----------------------------------------------------------------------------
(* One entity *)

\* The fields of an entity.
LEMMA EntityFields ==
    ASSUME NEW e \in Entities
    PROVE  /\ e = [kind |-> e.kind, owner |-> e.owner, at |-> e.at, dir |-> e.dir,
                   flipped |-> e.flipped, progress |-> e.progress, stock |-> e.stock,
                   belt |-> e.belt]
           /\ e.kind \in DOMAIN Buildings /\ e.owner \in Players /\ e.at \in Tiles
           /\ e.dir \in Directions /\ e.flipped \in BOOLEAN
           /\ e.progress \in Nat /\ e.stock \in [Resources -> Nat] /\ e.belt \in Seq(Items)
  BY DEF Entities

\* An entity put together from fields of the right sorts.
LEMMA EntityOf ==
    ASSUME NEW e \in Entities, NEW v \in Nat, NEW s \in [Resources -> Nat], NEW b \in Seq(Items)
    PROVE  [kind |-> e.kind, owner |-> e.owner, at |-> e.at, dir |-> e.dir, flipped |-> e.flipped,
            progress |-> v, stock |-> s, belt |-> b] \in Entities
<1>1. /\ e.kind \in DOMAIN Buildings /\ e.owner \in Players /\ e.at \in Tiles
      /\ e.dir \in Directions /\ e.flipped \in BOOLEAN
  BY EntityFields
<1> QED
  BY <1>1 DEF Entities

\* An entity whose progress is set is otherwise what it was.
LEMMA ProgressSet ==
    ASSUME NEW e \in Entities, NEW v \in Nat
    PROVE  LET f == [e EXCEPT !.progress = v]
           IN  f \in Entities /\ SameBuilding(f, e) /\ f.progress = v /\ f.stock = e.stock /\ f.belt = e.belt
<1> DEFINE f == [e EXCEPT !.progress = v]
<1>1. f = [kind |-> e.kind, owner |-> e.owner, at |-> e.at, dir |-> e.dir, flipped |-> e.flipped,
           progress |-> v, stock |-> e.stock, belt |-> e.belt]
  BY EntityFields
<1>2. e.stock \in [Resources -> Nat] /\ e.belt \in Seq(Items)
  BY EntityFields
<1> HIDE DEF f
<1>3. f \in Entities
  BY <1>1, <1>2, EntityOf
<1> QED
  BY <1>1, <1>3 DEF SameBuilding, f

\* An entity whose stock is set is otherwise what it was.
LEMMA StockSet ==
    ASSUME NEW e \in Entities, NEW s \in [Resources -> Nat]
    PROVE  LET f == [e EXCEPT !.stock = s]
           IN  f \in Entities /\ SameBuilding(f, e) /\ f.progress = e.progress /\ f.stock = s /\ f.belt = e.belt
<1> DEFINE f == [e EXCEPT !.stock = s]
<1>1. f = [kind |-> e.kind, owner |-> e.owner, at |-> e.at, dir |-> e.dir, flipped |-> e.flipped,
           progress |-> e.progress, stock |-> s, belt |-> e.belt]
  BY EntityFields
<1>2. e.progress \in Nat /\ e.belt \in Seq(Items)
  BY EntityFields
<1> HIDE DEF f
<1>3. f \in Entities
  BY <1>1, <1>2, EntityOf
<1> QED
  BY <1>1, <1>3 DEF SameBuilding, f

\* An entity whose belt is set is otherwise what it was.
LEMMA BeltSet ==
    ASSUME NEW e \in Entities, NEW b \in Seq(Items)
    PROVE  LET f == [e EXCEPT !.belt = b]
           IN  f \in Entities /\ SameBuilding(f, e) /\ f.progress = e.progress /\ f.stock = e.stock /\ f.belt = b
<1> DEFINE f == [e EXCEPT !.belt = b]
<1>1. f = [kind |-> e.kind, owner |-> e.owner, at |-> e.at, dir |-> e.dir, flipped |-> e.flipped,
           progress |-> e.progress, stock |-> e.stock, belt |-> b]
  BY EntityFields
<1>2. e.progress \in Nat /\ e.stock \in [Resources -> Nat]
  BY EntityFields
<1> HIDE DEF f
<1>3. f \in Entities
  BY <1>1, <1>2, EntityOf
<1> QED
  BY <1>1, <1>3 DEF SameBuilding, f

\* What is held is a number of goods.
LEMMA ContentsType ==
    ASSUME NEW e \in Entities
    PROVE  /\ WorthOf(e.stock) \in Int /\ WorthOf(Counts(e.belt)) \in Int
           /\ Contents(e) = WorthOf(e.stock) + WorthOf(Counts(e.belt))
           /\ Contents(e) \in Int /\ Price(e) \in Int
<1>1. e.stock \in [Resources -> Int] /\ e.belt \in Seq(Items) /\ e.kind \in DOMAIN Buildings
  BY EntityFields
<1>2. Counts(e.belt) \in [Resources -> Int] /\ Buildings[e.kind].cost \in [Resources -> Int]
  <2>1. Buildings[e.kind].cost \in [Resources -> Nat]
    BY <1>1, FactoryAssumption
  <2>2. Counts(e.belt) \in [Resources -> Int]
    BY <1>1, CountsType
  <2> QED
    BY <2>1, <2>2
<1>3. WorthOf(e.stock) \in Int /\ WorthOf(Counts(e.belt)) \in Int /\ WorthOf(Buildings[e.kind].cost) \in Int
  BY <1>1, <1>2, WorthType
<1> QED
  BY <1>3 DEF Contents, Price, Counts

-----------------------------------------------------------------------------
(* All entities *)

\* What all buildings are and hold is worth a number.
LEMMA StuffType ==
    ASSUME NEW E, NEW n, Sound(E, n)
    PROVE  Stuff(E) \in Int
<1>1. \A k \in DOMAIN E : E[k] \in Entities
  BY DEF Sound, Fine
<1>2. \A k \in DOMAIN E : Contents(E[k]) + Price(E[k]) \in Int
  BY <1>1, ContentsType
<1> QED
  BY <1>2, SumType DEF Stuff, Sound

\* Two entities change, or one when they are the same.
LEMMA SoundAfter ==
    ASSUME NEW E, NEW n, Sound(E, n), NEW o \in Nat, n <= o,
           NEW i \in DOMAIN E, NEW j \in DOMAIN E, NEW F,
           Alters(E, F, {i, j}),
           Fine(F[i], o), Fine(F[j], o), i # j => Apart(F[i].belt, F[j].belt),
           \A k \in DOMAIN E \ {i, j} : Apart(F[i].belt, E[k].belt) /\ Apart(F[j].belt, E[k].belt)
    PROVE  Sound(F, o)
<1>1. DOMAIN F = DOMAIN E /\ F = [k \in DOMAIN E |-> F[k]]
      /\ \A k \in DOMAIN E \ {i, j} : F[k] = E[k]
  BY DEF Alters
<1>2. \A k \in DOMAIN E : Fine(F[k], o)
  <2>1. \A k \in DOMAIN E : Fine(E[k], n)
    BY DEF Sound
  <2>2. \A e : Fine(e, n) => Fine(e, o)
    <3> SUFFICES ASSUME NEW e, Fine(e, n) PROVE Fine(e, o)
      OBVIOUS
    <3>1. \A m \in 1..Len(e.belt) : e.belt[m].id \in Nat
      <4>1. e.belt \in Seq(Items)
        BY EntityFields DEF Fine
      <4>2. \A m \in 1..Len(e.belt) : e.belt[m] \in Items
        BY <4>1, ElementOfSeq
      <4> QED
        BY <4>2 DEF Items
    <3> QED
      BY <3>1 DEF Fine, Sound
  <2> QED
    BY <1>1, <2>1, <2>2
<1>3. \A p, q : Apart(p, q) => Apart(q, p)
  BY DEF Apart
<1>4. \A k, l \in DOMAIN E : k # l => Apart(F[k].belt, F[l].belt)
  <2> SUFFICES ASSUME NEW k \in DOMAIN E, NEW l \in DOMAIN E, k # l
               PROVE  Apart(F[k].belt, F[l].belt)
    OBVIOUS
  <2>1. CASE k \notin {i, j} /\ l \notin {i, j}
    BY <1>1, <2>1 DEF Sound
  <2>2. CASE k \in {i, j} /\ l \notin {i, j}
    BY <1>1, <2>2
  <2>3. CASE k \notin {i, j} /\ l \in {i, j}
    BY <1>1, <1>3, <2>3
  <2>4. CASE k \in {i, j} /\ l \in {i, j}
    BY <1>3, <2>4
  <2> QED
    BY <2>1, <2>2, <2>3, <2>4
<1> QED
  BY <1>1, <1>2, <1>4 DEF Sound

\* What one entity changes by, all do.
LEMMA StuffOne ==
    ASSUME NEW E, NEW n, Sound(E, n), NEW i \in DOMAIN E, NEW F, NEW o, Sound(F, o),
           Alters(E, F, {i}), F[i].kind = E[i].kind
    PROVE  Stuff(F) = Stuff(E) + (Contents(F[i]) - Contents(E[i]))
<1> DEFINE v(G) == [k \in DOMAIN E |-> Contents(G[k]) + Price(G[k])]
<1>1. \A k \in DOMAIN E : E[k] \in Entities /\ F[k] \in Entities
  BY DEF Sound, Fine, Alters
<1>2. \A k \in DOMAIN E : /\ Contents(E[k]) \in Int /\ Price(E[k]) \in Int
                          /\ Contents(F[k]) \in Int /\ Price(F[k]) \in Int
  BY <1>1, ContentsType
<1>3. v(E) \in [DOMAIN E -> Int] /\ v(F) \in [DOMAIN E -> Int] /\ IsFiniteSet(DOMAIN E)
  BY <1>2 DEF Sound
<1>4. \A k \in DOMAIN E \ {i} : v(F)[k] = v(E)[k]
  BY DEF Alters
<1>5. v(F)[i] - v(E)[i] = Contents(F[i]) - Contents(E[i])
  <2>1. Price(F[i]) = Price(E[i])
    BY DEF Price
  <2> QED
    BY <1>2, <2>1
<1>6. Stuff(E) = SumFunction(v(E)) /\ Stuff(F) = SumFunction(v(F))
  BY DEF Stuff, Alters
<1> HIDE DEF v
<1>7. SumFunction(v(F)) = SumFunction(v(E)) + (v(F)[i] - v(E)[i])
  BY <1>3, <1>4, SumOne
<1> QED
  BY <1>5, <1>6, <1>7

\* Two buildings that change what they hold change the total by just that.
LEMMA StuffTwo ==
    ASSUME NEW E, NEW n, Sound(E, n), NEW i \in DOMAIN E, NEW j \in DOMAIN E, i # j,
           NEW F, NEW o, Sound(F, o), Alters(E, F, {i, j}),
           F[i].kind = E[i].kind, F[j].kind = E[j].kind
    PROVE  Stuff(F) = Stuff(E) + (Contents(F[i]) - Contents(E[i])) + (Contents(F[j]) - Contents(E[j]))
<1> DEFINE v(G) == [k \in DOMAIN E |-> Contents(G[k]) + Price(G[k])]
<1>1. \A k \in DOMAIN E : E[k] \in Entities /\ F[k] \in Entities
  BY DEF Sound, Fine, Alters
<1>2. \A k \in DOMAIN E : /\ Contents(E[k]) \in Int /\ Price(E[k]) \in Int
                          /\ Contents(F[k]) \in Int /\ Price(F[k]) \in Int
  BY <1>1, ContentsType
<1>3. v(E) \in [DOMAIN E -> Int] /\ v(F) \in [DOMAIN E -> Int] /\ IsFiniteSet(DOMAIN E)
  BY <1>2 DEF Sound
<1>4. \A k \in DOMAIN E \ {i, j} : v(F)[k] = v(E)[k]
  BY DEF Alters
<1>5. /\ v(F)[i] - v(E)[i] = Contents(F[i]) - Contents(E[i])
      /\ v(F)[j] - v(E)[j] = Contents(F[j]) - Contents(E[j])
  <2>1. Price(F[i]) = Price(E[i]) /\ Price(F[j]) = Price(E[j])
    BY DEF Price
  <2> QED
    BY <1>2, <2>1
<1>6. Stuff(E) = SumFunction(v(E)) /\ Stuff(F) = SumFunction(v(F))
  BY DEF Stuff, Alters
<1> HIDE DEF v
<1>7. SumFunction(v(F)) = SumFunction(v(E)) + (v(F)[i] - v(E)[i]) + (v(F)[j] - v(E)[j])
  BY <1>3, <1>4, SumTwo
<1> QED
  BY <1>5, <1>6, <1>7

\* Every item of a belt comes from that belt.
LEMMA StaysRefl ==
    ASSUME NEW q
    PROVE  ComesFrom(q, q)
  BY DEF ComesFrom

\* A belt whose items come from another shares items with no belt that one did not.
LEMMA ApartKept ==
    ASSUME NEW p, NEW q, NEW o, ComesFrom(p, q), Apart(q, o)
    PROVE  Apart(p, o)
  BY DEF ComesFrom, Apart

\* Entity i changes, and holds no other items.
LEMMA OneSet ==
    ASSUME NEW E, NEW n, Sound(E, n), NEW i \in DOMAIN E, NEW F, Alters(E, F, {i}),
           Fine(F[i], n), SameBuilding(F[i], E[i]), ComesFrom(F[i].belt, E[i].belt)
    PROVE  /\ Sound(F, n) /\ Kept(E, F) /\ Stays(E, F)
           /\ Stuff(F) = Stuff(E) + (Contents(F[i]) - Contents(E[i]))
<1>1. n \in Nat /\ n <= n
  BY DEF Sound
<1>2. DOMAIN F = DOMAIN E /\ \A k \in DOMAIN E \ {i} : F[k] = E[k]
  BY DEF Alters
<1>3. \A k \in DOMAIN E \ {i, i} : Apart(F[i].belt, E[k].belt) /\ Apart(F[i].belt, E[k].belt)
  BY <1>2, ApartKept DEF Sound
<1>4. Alters(E, F, {i, i})
  OBVIOUS
<1>5. Sound(F, n)
  BY <1>1, <1>3, <1>4, SoundAfter
<1>6. Kept(E, F)
  BY <1>2 DEF Kept, SameBuilding
<1>7. Stays(E, F)
  BY <1>2, StaysRefl DEF Stays
<1>8. Stuff(F) = Stuff(E) + (Contents(F[i]) - Contents(E[i]))
  BY <1>5, StuffOne DEF SameBuilding
<1> QED
  BY <1>5, <1>6, <1>7, <1>8

\* What the fields of an entity are, and that its contents are numbers.
LEMMA FineEntity ==
    ASSUME NEW e, NEW n, Fine(e, n)
    PROVE  /\ e \in Entities /\ e.progress \in Nat /\ e.stock \in [Resources -> Nat]
           /\ e.belt \in Seq(Items) /\ e.stock \in [Resources -> Int]
           /\ Contents(e) = WorthOf(e.stock) + WorthOf(Counts(e.belt))
           /\ WorthOf(e.stock) \in Int /\ WorthOf(Counts(e.belt)) \in Int
<1>1. e \in Entities
  BY DEF Fine
<1>2. e.progress \in Nat /\ e.stock \in [Resources -> Nat] /\ e.belt \in Seq(Items)
  BY <1>1, EntityFields
<1> QED
  BY <1>1, <1>2, ContentsType

\* Setting the progress of one building moves no goods.
LEMMA ProgressOne ==
    ASSUME NEW E, NEW n, Sound(E, n), NEW i \in DOMAIN E, NEW v \in Nat,
           NEW F, F = WithProgress(E, i, v)
    PROVE  /\ Sound(F, n) /\ Kept(E, F) /\ Stays(E, F)
           /\ F[i].progress = v /\ F[i].stock = E[i].stock /\ F[i].belt = E[i].belt
           /\ \A k \in DOMAIN E \ {i} : F[k] = E[k]
           /\ Stuff(F) = Stuff(E)
<1> DEFINE e == [E[i] EXCEPT !.progress = v]
<1>1. Fine(E[i], n)
  BY DEF Sound
<1>2. e \in Entities /\ SameBuilding(e, E[i]) /\ e.progress = v /\ e.stock = E[i].stock /\ e.belt = E[i].belt
  BY <1>1, ProgressSet DEF Fine
<1>3. F = [E EXCEPT ![i] = e]
  BY DEF WithProgress
<1> HIDE DEF e
<1>4. Fine(e, n) /\ ComesFrom(e.belt, E[i].belt)
  BY <1>1, <1>2, StaysRefl DEF Fine, SameBuilding
<1>5. Contents(e) = Contents(E[i])
  BY <1>2 DEF Contents
<1>6. /\ Sound(F, n) /\ Kept(E, F) /\ Stays(E, F)
      /\ F[i] = e /\ \A k \in DOMAIN E \ {i} : F[k] = E[k]
      /\ Stuff(F) = Stuff(E) + (Contents(e) - Contents(E[i]))
  <2>1. F = [k \in DOMAIN E |-> F[k]] /\ F[i] = e /\ \A k \in DOMAIN E \ {i} : F[k] = E[k]
    BY <1>3 DEF Sound
  <2>2. Alters(E, F, {i})
    BY <2>1 DEF Alters
  <2>3. Fine(F[i], n) /\ SameBuilding(F[i], E[i]) /\ ComesFrom(F[i].belt, E[i].belt)
    BY <1>2, <1>4, <2>1
  <2>4. Sound(F, n) /\ Kept(E, F) /\ Stays(E, F)
    BY <2>2, <2>3, OneSet
  <2>5. Stuff(F) = Stuff(E) + (Contents(F[i]) - Contents(E[i]))
    BY <2>2, <2>3, OneSet
  <2> QED
    BY <2>1, <2>4, <2>5
<1>7. Contents(E[i]) \in Int /\ Stuff(E) \in Int
  BY <1>1, StuffType, ContentsType DEF Fine
<1> QED
  BY <1>2, <1>5, <1>6, <1>7

\* Setting the stock of one building changes the total by the worth of the difference.
LEMMA StockOne ==
    ASSUME NEW E, NEW n, Sound(E, n), NEW i \in DOMAIN E, NEW s \in [Resources -> Nat],
           NEW F, F = WithStock(E, i, s)
    PROVE  /\ Sound(F, n) /\ Kept(E, F) /\ Stays(E, F)
           /\ F[i].progress = E[i].progress /\ F[i].stock = s /\ F[i].belt = E[i].belt
           /\ \A k \in DOMAIN E \ {i} : F[k] = E[k]
           /\ Stuff(F) = Stuff(E) + (WorthOf(s) - WorthOf(E[i].stock))
           /\ WorthOf(s) \in Int /\ WorthOf(E[i].stock) \in Int /\ Stuff(E) \in Int
<1> DEFINE e == [E[i] EXCEPT !.stock = s]
<1>1. Fine(E[i], n)
  BY DEF Sound
<1>2. e \in Entities /\ SameBuilding(e, E[i]) /\ e.progress = E[i].progress /\ e.stock = s /\ e.belt = E[i].belt
  BY <1>1, StockSet DEF Fine
<1>3. F = [E EXCEPT ![i] = e]
  BY DEF WithStock
<1> HIDE DEF e
<1>4. Fine(e, n) /\ ComesFrom(e.belt, E[i].belt)
  BY <1>1, <1>2, StaysRefl DEF Fine, SameBuilding
<1>5. /\ Contents(e) = WorthOf(s) + WorthOf(Counts(E[i].belt))
      /\ Contents(E[i]) = WorthOf(E[i].stock) + WorthOf(Counts(E[i].belt))
      /\ WorthOf(s) \in Int /\ WorthOf(E[i].stock) \in Int /\ WorthOf(Counts(E[i].belt)) \in Int
  BY <1>1, <1>2, <1>4, FineEntity
<1>6. /\ Sound(F, n) /\ Kept(E, F) /\ Stays(E, F)
      /\ F[i] = e /\ \A k \in DOMAIN E \ {i} : F[k] = E[k]
      /\ Stuff(F) = Stuff(E) + (Contents(e) - Contents(E[i]))
  <2>1. F = [k \in DOMAIN E |-> F[k]] /\ F[i] = e /\ \A k \in DOMAIN E \ {i} : F[k] = E[k]
    BY <1>3 DEF Sound
  <2>2. Alters(E, F, {i})
    BY <2>1 DEF Alters
  <2>3. Fine(F[i], n) /\ SameBuilding(F[i], E[i]) /\ ComesFrom(F[i].belt, E[i].belt)
    BY <1>2, <1>4, <2>1
  <2>4. Sound(F, n) /\ Kept(E, F) /\ Stays(E, F)
    BY <2>2, <2>3, OneSet
  <2>5. Stuff(F) = Stuff(E) + (Contents(F[i]) - Contents(E[i]))
    BY <2>2, <2>3, OneSet
  <2> QED
    BY <2>1, <2>4, <2>5
<1>7. Stuff(E) \in Int
  BY StuffType
<1> QED
  BY <1>2, <1>5, <1>6, <1>7

\* Belt i comes to hold the items p, which it held.
LEMMA BeltOne ==
    ASSUME NEW E, NEW n, Sound(E, n), NEW i \in DOMAIN E, NEW b \in Seq(Items),
           Len(b) <= MaxBelt, Distinct(b), ComesFrom(b, E[i].belt),
           E[i].kind \notin Belts => b = <<>>, NEW F, F = WithBelt(E, i, b)
    PROVE  /\ Sound(F, n) /\ Kept(E, F) /\ Stays(E, F)
           /\ F[i].progress = E[i].progress /\ F[i].stock = E[i].stock /\ F[i].belt = b
           /\ \A k \in DOMAIN E \ {i} : F[k] = E[k]
           /\ Stuff(F) = Stuff(E) + (WorthOf(Counts(b)) - WorthOf(Counts(E[i].belt)))
           /\ WorthOf(Counts(b)) \in Int /\ WorthOf(Counts(E[i].belt)) \in Int /\ Stuff(E) \in Int
<1> DEFINE e == [E[i] EXCEPT !.belt = b]
<1>1. Fine(E[i], n)
  BY DEF Sound
<1>2. e \in Entities /\ SameBuilding(e, E[i]) /\ e.progress = E[i].progress /\ e.stock = E[i].stock /\ e.belt = b
  BY <1>1, BeltSet DEF Fine
<1>3. F = [E EXCEPT ![i] = e]
  BY DEF WithBelt
<1> HIDE DEF e
<1>4. \A m \in 1..Len(b) : b[m].id <= n
  BY <1>1 DEF Fine, ComesFrom
<1>5. Fine(e, n)
  BY <1>2, <1>4 DEF Fine, SameBuilding
<1>6. /\ Contents(e) = WorthOf(E[i].stock) + WorthOf(Counts(b))
      /\ Contents(E[i]) = WorthOf(E[i].stock) + WorthOf(Counts(E[i].belt))
      /\ WorthOf(Counts(b)) \in Int /\ WorthOf(E[i].stock) \in Int /\ WorthOf(Counts(E[i].belt)) \in Int
  BY <1>1, <1>2, <1>5, FineEntity
<1>7. F = [k \in DOMAIN E |-> F[k]] /\ F[i] = e /\ \A k \in DOMAIN E \ {i} : F[k] = E[k]
  BY <1>3 DEF Sound
<1>8. Alters(E, F, {i})
  BY <1>7 DEF Alters
<1>9. Fine(F[i], n) /\ SameBuilding(F[i], E[i]) /\ ComesFrom(F[i].belt, E[i].belt)
  BY <1>2, <1>5, <1>7
<1>10. Sound(F, n) /\ Kept(E, F) /\ Stays(E, F)
  BY <1>8, <1>9, OneSet
<1>11. Stuff(F) = Stuff(E) + (Contents(F[i]) - Contents(E[i]))
  BY <1>8, <1>9, OneSet
<1>12. Stuff(E) \in Int
  BY StuffType
<1> QED
  BY <1>2, <1>6, <1>7, <1>10, <1>11, <1>12

\* A new item enters belt j.
LEMMA ItemEnters ==
    ASSUME NEW E, NEW n, Sound(E, n), NEW j \in DOMAIN E, NEW r \in Resources,
           E[j].kind \in Belts, Len(E[j].belt) < MaxBelt, NEW x,
           x = [id |-> n + 1, res |-> r, progress |-> 0],
           NEW F, F = WithBelt(E, j, Append(E[j].belt, x))
    PROVE  /\ Sound(F, n + 1) /\ Kept(E, F) /\ Flows(E, n, F, n + 1)
           /\ Stuff(F) = Stuff(E) + Value[r]
<1> DEFINE q == E[j].belt
           b == Append(q, x)
           e == [E[j] EXCEPT !.belt = b]
<1>1. Fine(E[j], n) /\ n \in Nat /\ MaxBelt \in Nat /\ BeltSpeed \in Nat
  BY FactoryAssumption DEF Sound
<1>2. q \in Seq(Items) /\ Len(q) \in Nat /\ Distinct(q) /\ Len(q) < MaxBelt
  <2>1. q \in Seq(Items)
    BY <1>1, FineEntity
  <2>2. Distinct(q)
    BY <1>1 DEF Fine
  <2> QED
    BY <2>1, <2>2
<1>3. x \in Items
  BY <1>1 DEF Items
<1>4. /\ b \in Seq(Items) /\ Len(b) = Len(q) + 1 /\ b[Len(q) + 1] = x
      /\ \A m \in 1..Len(q) : b[m] = q[m]
  BY <1>2, <1>3, AppendProperties
<1>5. e \in Entities /\ SameBuilding(e, E[j]) /\ e.stock = E[j].stock /\ e.belt = b
  BY <1>1, <1>4, BeltSet DEF Fine
<1>6. F = [E EXCEPT ![j] = e]
  BY DEF WithBelt
<1>8. \A m \in 1..Len(q) : q[m] \in Items /\ q[m].id \in Nat /\ q[m].id <= n
  <2>1. \A m \in 1..Len(q) : q[m] \in Items
    BY <1>2, ElementOfSeq
  <2> QED
    BY <1>1, <2>1 DEF Fine, Items
<1>9. x.id = n + 1 /\ x.res = r
  OBVIOUS
<1>11. /\ F = [k \in DOMAIN E |-> F[k]] /\ F[j] = e /\ F[j].belt = b
       /\ \A k \in DOMAIN E \ {j} : F[k] = E[k]
  BY <1>5, <1>6 DEF Sound
<1>16. E[j].belt = q
  OBVIOUS
<1> HIDE DEF q, b, e
<1>7. \A m \in 1..Len(b) : m \in 1..Len(q) \/ m = Len(q) + 1
  BY <1>2, <1>4
<1>10. Fine(e, n + 1)
  <2>1. \A m \in 1..Len(b) : b[m].id <= n + 1
    BY <1>1, <1>4, <1>7, <1>8, <1>9
  <2>2. Distinct(b)
    <3> SUFFICES ASSUME NEW m \in 1..Len(b), NEW l \in 1..Len(b), b[m].id = b[l].id
                 PROVE  m = l
      BY DEF Distinct
    <3>1. CASE m \in 1..Len(q) /\ l \in 1..Len(q)
      BY <1>2, <1>4, <3>1 DEF Distinct
    <3>2. CASE m = Len(q) + 1 /\ l = Len(q) + 1
      BY <3>2
    <3>3. CASE m \in 1..Len(q) /\ l = Len(q) + 1
      BY <1>1, <1>4, <1>8, <1>9, <3>3
    <3>4. CASE l \in 1..Len(q) /\ m = Len(q) + 1
      BY <1>1, <1>4, <1>8, <1>9, <3>4
    <3> QED
      BY <1>7, <3>1, <3>2, <3>3, <3>4
  <2>3. Len(b) <= MaxBelt
    BY <1>1, <1>2, <1>4
  <2> QED
    BY <1>5, <2>1, <2>2, <2>3 DEF Fine, SameBuilding
<1>12. ASSUME NEW k \in DOMAIN E \ {j}
       PROVE  Apart(F[j].belt, E[k].belt)
  <2>1. Fine(E[k], n) /\ Apart(q, E[k].belt)
    BY <1>16 DEF Sound
  <2>2. \A m \in 1..Len(E[k].belt) : E[k].belt[m].id <= n /\ E[k].belt[m].id \in Nat
    <3>1. E[k].belt \in Seq(Items)
      BY <2>1, FineEntity
    <3>2. \A m \in 1..Len(E[k].belt) : E[k].belt[m] \in Items
      BY <3>1, ElementOfSeq
    <3> QED
      BY <2>1, <3>2 DEF Fine, Items
  <2> SUFFICES ASSUME NEW m \in 1..Len(b), NEW l \in 1..Len(E[k].belt)
               PROVE  b[m].id # E[k].belt[l].id
    BY <1>11 DEF Apart
  <2>3. CASE m \in 1..Len(q)
    BY <1>4, <2>1, <2>3 DEF Apart
  <2>4. CASE m = Len(q) + 1
    BY <1>1, <1>4, <1>9, <2>2, <2>4
  <2> QED
    BY <1>7, <2>3, <2>4
<1>13. Sound(F, n + 1)
  <2>1. Alters(E, F, {j, j})
    BY <1>11 DEF Alters
  <2>2. n + 1 \in Nat /\ n <= n + 1
    BY <1>1
  <2>3. Fine(F[j], n + 1)
    BY <1>10, <1>11
  <2>4. \A k \in DOMAIN E \ {j, j} : Apart(F[j].belt, E[k].belt) /\ Apart(F[j].belt, E[k].belt)
    BY <1>12
  <2> QED
    BY <2>1, <2>2, <2>3, <2>4, SoundAfter
<1>14. Kept(E, F)
  BY <1>5, <1>11 DEF Kept, SameBuilding
<1>15. Flows(E, n, F, n + 1)
  <2> SUFFICES ASSUME NEW k \in DOMAIN F, NEW m \in 1..Len(F[k].belt)
               PROVE  \/ F[k].belt[m].id > n /\ F[k].belt[m].id <= n + 1
                      \/ \E i \in 1..Len(E[k].belt) : /\ E[k].belt[i].id = F[k].belt[m].id
                                                      /\ E[k].belt[i].res = F[k].belt[m].res
    BY <1>11 DEF Flows
  <2>1. CASE k # j
    BY <1>11, <2>1
  <2>2. CASE k = j /\ m \in 1..Len(q)
    BY <1>4, <1>11, <1>16, <2>2
  <2>3. CASE k = j /\ m = Len(q) + 1
    BY <1>1, <1>4, <1>9, <1>11, <2>3
  <2> QED
    BY <1>7, <1>11, <2>1, <2>2, <2>3
<1>17. Stuff(F) = Stuff(E) + Value[r]
  <2>1. Alters(E, F, {j}) /\ F[j].kind = E[j].kind
    BY <1>5, <1>11 DEF Alters, SameBuilding
  <2>2. Stuff(F) = Stuff(E) + (Contents(F[j]) - Contents(E[j]))
    BY <1>13, <2>1, StuffOne
  <2>3. Counts(b) \in [Resources -> Int] /\ Counts(q) \in [Resources -> Int]
    BY <1>2, <1>4, CountsType
  <2>4. \A s \in Resources : CountOf(b, s) = CountOf(q, s) + (IF x.res = s THEN 1 ELSE 0)
    BY <1>2, <1>3, CountAppend DEF b
  <2>5. \A s \in Resources : CountOf(q, s) \in Nat
    BY <1>2, CountType
  <2>6. /\ \A s \in Resources \ {r} : Counts(b)[s] = Counts(q)[s]
        /\ Counts(b)[r] - Counts(q)[r] = 1
    BY <1>9, <2>4, <2>5 DEF Counts
  <2>7. WorthOf(Counts(b)) = WorthOf(Counts(q)) + Value[r] * (Counts(b)[r] - Counts(q)[r])
    BY <2>3, <2>6, WorthOne
  <2>8. Value[r] \in Int
    BY FactoryAssumption
  <2>9. WorthOf(Counts(b)) = WorthOf(Counts(q)) + Value[r]
    BY <2>6, <2>7, <2>8
  <2>10. /\ Contents(F[j]) = WorthOf(E[j].stock) + WorthOf(Counts(b))
         /\ Contents(E[j]) = WorthOf(E[j].stock) + WorthOf(Counts(q))
         /\ WorthOf(E[j].stock) \in Int /\ WorthOf(Counts(q)) \in Int
    BY <1>1, <1>5, <1>10, <1>11, <1>16, FineEntity
  <2>11. Stuff(E) \in Int
    BY StuffType
  <2> QED
    BY <2>2, <2>8, <2>9, <2>10, <2>11
<1> QED
  BY <1>13, <1>14, <1>15, <1>17

\* Entities i and j change; only items of i come to j.
LEMMA TwoSet ==
    ASSUME NEW E, NEW n, Sound(E, n), NEW i \in DOMAIN E, NEW j \in DOMAIN E, i # j,
           NEW F, Alters(E, F, {i, j}), Fine(F[i], n), Fine(F[j], n),
           SameBuilding(F[i], E[i]), SameBuilding(F[j], E[j]),
           ComesFrom(F[i].belt, E[i].belt), Apart(F[i].belt, F[j].belt),
           ComesFromOne(F[j].belt, E[j].belt, E[i].belt)
    PROVE  /\ Sound(F, n) /\ Kept(E, F)
           /\ Stuff(F) = Stuff(E) + (Contents(F[i]) - Contents(E[i])) + (Contents(F[j]) - Contents(E[j]))
           /\ ComesFrom(F[j].belt, E[j].belt) => Stays(E, F)
           /\ E[j].at = Ahead(E[i]) => Flows(E, n, F, n)
<1>1. n \in Nat /\ n <= n
  BY DEF Sound
<1>2. DOMAIN F = DOMAIN E /\ \A k \in DOMAIN E \ {i, j} : F[k] = E[k]
  BY DEF Alters
<1>3. ASSUME NEW k \in DOMAIN E \ {i, j}
      PROVE  Apart(F[i].belt, E[k].belt) /\ Apart(F[j].belt, E[k].belt)
  <2>1. Apart(E[i].belt, E[k].belt) /\ Apart(E[j].belt, E[k].belt)
    BY DEF Sound
  <2>2. Apart(F[i].belt, E[k].belt)
    BY <2>1, ApartKept
  <2>3. Apart(F[j].belt, E[k].belt)
    BY <2>1 DEF Apart, ComesFromOne
  <2> QED
    BY <2>2, <2>3
<1>4. Sound(F, n)
  BY <1>1, <1>3, SoundAfter
<1>5. Kept(E, F)
  BY <1>2 DEF Kept, SameBuilding
<1>6. Stuff(F) = Stuff(E) + (Contents(F[i]) - Contents(E[i])) + (Contents(F[j]) - Contents(E[j]))
  BY <1>4, StuffTwo DEF SameBuilding
<1>7. ComesFrom(F[j].belt, E[j].belt) => Stays(E, F)
  BY <1>2, StaysRefl DEF Stays
<1>8. ASSUME E[j].at = Ahead(E[i])
      PROVE  Flows(E, n, F, n)
  <2> SUFFICES ASSUME NEW k \in DOMAIN E, NEW m \in 1..Len(F[k].belt)
               PROVE  \E l \in DOMAIN E : \E c \in 1..Len(E[l].belt) :
                         /\ E[l].belt[c].id = F[k].belt[m].id
                         /\ E[l].belt[c].res = F[k].belt[m].res
                         /\ k = l \/ F[k].at = Ahead(E[l])
    BY <1>2 DEF Flows
  <2>1. CASE k = i
    BY <2>1 DEF ComesFrom
  <2>2. CASE k = j
    <3>1. F[k].at = Ahead(E[i])
      BY <1>8, <2>2 DEF SameBuilding
    <3>2. CASE \E c \in 1..Len(E[j].belt) : /\ F[j].belt[m].id = E[j].belt[c].id
                                            /\ F[j].belt[m].res = E[j].belt[c].res
      BY <2>2, <3>2
    <3>3. CASE \E c \in 1..Len(E[i].belt) : /\ F[j].belt[m].id = E[i].belt[c].id
                                            /\ F[j].belt[m].res = E[i].belt[c].res
      BY <2>2, <3>1, <3>3
    <3> QED
      BY <2>2, <3>2, <3>3 DEF ComesFromOne
  <2>3. CASE k \notin {i, j}
    BY <1>2, <2>3
  <2> QED
    BY <2>1, <2>2, <2>3
<1> QED
  BY <1>4, <1>5, <1>6, <1>7, <1>8

\* One step after the other.
LEMMA StaysFlows ==
    ASSUME NEW E, NEW F, Kept(E, F), Stays(E, F), NEW n, NEW o
    PROVE  Flows(E, n, F, o)
<1>1. \A k \in DOMAIN F : k \in DOMAIN E /\ ComesFrom(F[k].belt, E[k].belt)
  BY DEF Kept, Stays
<1> QED
  BY <1>1 DEF Flows, ComesFrom

\* A step that keeps the belts, then one along which items flow, is one along which they flow.
LEMMA StaysThenFlows ==
    ASSUME NEW E, NEW F, NEW G, Kept(E, F), Kept(F, G), Stays(E, F), NEW n, NEW o, Flows(F, n, G, o)
    PROVE  Kept(E, G) /\ Flows(E, n, G, o)
<1>1. Kept(E, G)
  BY DEF Kept, SameBuilding
<1>2. \A k \in DOMAIN E : k \in DOMAIN F /\ ComesFrom(F[k].belt, E[k].belt) /\ Ahead(F[k]) = Ahead(E[k])
  BY DEF Kept, Stays, SameBuilding, Ahead
<1>3. ASSUME NEW k \in DOMAIN G, NEW m \in 1..Len(G[k].belt),
             ~(G[k].belt[m].id > n /\ G[k].belt[m].id <= o)
      PROVE  \E l \in DOMAIN E : \E c \in 1..Len(E[l].belt) :
                /\ E[l].belt[c].id = G[k].belt[m].id
                /\ E[l].belt[c].res = G[k].belt[m].res
                /\ k = l \/ G[k].at = Ahead(E[l])
  <2>1. PICK l \in DOMAIN F : \E c \in 1..Len(F[l].belt) :
                /\ F[l].belt[c].id = G[k].belt[m].id
                /\ F[l].belt[c].res = G[k].belt[m].res
                /\ k = l \/ G[k].at = Ahead(F[l])
    BY <1>3 DEF Flows
  <2>2. PICK c \in 1..Len(F[l].belt) :
                /\ F[l].belt[c].id = G[k].belt[m].id
                /\ F[l].belt[c].res = G[k].belt[m].res
                /\ k = l \/ G[k].at = Ahead(F[l])
    BY <2>1
  <2>3. l \in DOMAIN E /\ ComesFrom(F[l].belt, E[l].belt) /\ Ahead(F[l]) = Ahead(E[l])
    BY <1>2 DEF Kept
  <2>4. PICK d \in 1..Len(E[l].belt) : F[l].belt[c].id = E[l].belt[d].id /\ F[l].belt[c].res = E[l].belt[d].res
    BY <2>3 DEF ComesFrom
  <2> QED
    BY <2>2, <2>3, <2>4
<1>4. Flows(E, n, G, o)
  BY <1>3 DEF Flows
<1> QED
  BY <1>1, <1>4

\* Two steps that keep the belts keep the belts.
LEMMA StaysThenStays ==
    ASSUME NEW E, NEW F, NEW G, Kept(E, F), Kept(F, G), Stays(E, F), Stays(F, G)
    PROVE  Kept(E, G) /\ Stays(E, G)
<1>1. Kept(E, G)
  BY DEF Kept, SameBuilding
<1>2. \A k \in DOMAIN E : ComesFrom(F[k].belt, E[k].belt) /\ ComesFrom(G[k].belt, F[k].belt)
  BY DEF Kept, Stays
<1>3. \A p, q, o : ComesFrom(p, q) /\ ComesFrom(q, o) => ComesFrom(p, o)
  BY DEF ComesFrom
<1> QED
  BY <1>1, <1>2, <1>3 DEF Stays

-----------------------------------------------------------------------------
(* The banks *)

Funds == [Players -> [Resources -> Int]]
Banked(B) == SumFunction([p \in Players |-> WorthOf(B[p])])

\* There are finitely many players and tiles.
LEMMA FiniteGame ==
    ASSUME game \in Games
    PROVE  IsFiniteSet(Players) /\ IsFiniteSet(Tiles) /\ Tiles \subseteq Int \X Int
  BY GamesAssumption DEF Players, Tiles

\* What is in the banks is worth a number.
LEMMA BankedType ==
    ASSUME game \in Games, NEW B \in Funds
    PROVE  Banked(B) \in Int
<1>1. \A p \in Players : WorthOf(B[p]) \in Int
  BY WorthType DEF Funds
<1> QED
  BY <1>1, FiniteGame, SumType DEF Banked

\* What one player pays or is paid, all do.
LEMMA BankedOne ==
    ASSUME game \in Games, NEW B \in Funds, NEW p \in Players, NEW a \in [Resources -> Int],
           NEW C, C = [B EXCEPT ![p] = a]
    PROVE  /\ C \in Funds
           /\ Banked(C) = Banked(B) + (WorthOf(a) - WorthOf(B[p]))
           /\ Banked(B) \in Int /\ WorthOf(a) \in Int /\ WorthOf(B[p]) \in Int
<1> DEFINE v(D) == [k \in Players |-> WorthOf(D[k])]
<1>1. C \in Funds /\ C[p] = a /\ \A k \in Players \ {p} : C[k] = B[k]
  BY DEF Funds
<1>2. \A k \in Players : WorthOf(B[k]) \in Int /\ WorthOf(C[k]) \in Int
  BY <1>1, WorthType DEF Funds
<1>3. v(B) \in [Players -> Int] /\ v(C) \in [Players -> Int] /\ IsFiniteSet(Players)
  BY <1>2, FiniteGame
<1>4. \A k \in Players \ {p} : v(C)[k] = v(B)[k]
  BY <1>1
<1>5. v(C)[p] - v(B)[p] = WorthOf(a) - WorthOf(B[p])
  BY <1>1
<1>6. Banked(B) = SumFunction(v(B)) /\ Banked(C) = SumFunction(v(C))
  BY DEF Banked
<1>7. WorthOf(a) \in Int /\ WorthOf(B[p]) \in Int
  BY <1>1, <1>2
<1> HIDE DEF v
<1>8. SumFunction(v(C)) = SumFunction(v(B)) + (v(C)[p] - v(B)[p])
  BY <1>3, <1>4, SumOne
<1> QED
  BY <1>1, <1>5, <1>6, <1>7, <1>8, BankedType

-----------------------------------------------------------------------------
(* Pushing *)

\* One of r more or less.
LEMMA StockByOne ==
    ASSUME NEW e \in Entities, NEW r \in Resources, NEW d \in {-1, 1}, e.stock[r] + d >= 0,
           NEW s, s = [e.stock EXCEPT ![r] = @ + d]
    PROVE  s \in [Resources -> Nat] /\ WorthOf(s) - WorthOf(e.stock) = Value[r] * d
<1>1. e.stock \in [Resources -> Nat] /\ e.stock \in [Resources -> Int]
  BY EntityFields
<1>2. e.stock[r] \in Nat /\ e.stock[r] + d \in Nat
  BY <1>1
<1>3. s \in [Resources -> Nat] /\ s \in [Resources -> Int] /\ s[r] = e.stock[r] + d
      /\ \A t \in Resources \ {r} : s[t] = e.stock[t]
  BY <1>1, <1>2
<1>4. WorthOf(s) = WorthOf(e.stock) + Value[r] * (s[r] - e.stock[r])
  BY <1>1, <1>3, WorthOne
<1>5. s[r] - e.stock[r] = d
  BY <1>2, <1>3
<1>6. WorthOf(e.stock) \in Int /\ Value[r] * d \in Int
  BY <1>1, WorthType, FactoryAssumption
<1> QED
  BY <1>3, <1>4, <1>5, <1>6

\* A unit is taken from a stock that has one.
LEMMA OneLess ==
    ASSUME NEW E, NEW n, Sound(E, n), NEW i \in DOMAIN E, NEW r \in Resources, E[i].stock[r] > 0,
           NEW F, F = WithStock(E, i, [E[i].stock EXCEPT ![r] = @ - 1])
    PROVE  /\ Sound(F, n) /\ Kept(E, F) /\ Stays(E, F)
           /\ \A k \in DOMAIN E : F[k].belt = E[k].belt
           /\ Stuff(F) = Stuff(E) - Value[r]
<1>1. E[i] \in Entities /\ E[i].stock \in [Resources -> Nat]
  BY FineEntity DEF Sound
<1> DEFINE s == [E[i].stock EXCEPT ![r] = @ + (-1)]
<1>2. s \in [Resources -> Nat] /\ WorthOf(s) - WorthOf(E[i].stock) = Value[r] * (-1)
  BY <1>1, StockByOne
<1>3. F = WithStock(E, i, s)
  <2>1. s = [E[i].stock EXCEPT ![r] = @ - 1]
    BY <1>1
  <2> QED
    BY <2>1
<1> HIDE DEF s
<1>4. s \in [Resources -> Nat]
  BY <1>2
<1>6. Sound(F, n) /\ Kept(E, F) /\ Stays(E, F)
  BY <1>3, <1>4, StockOne
<1>8. F[i].belt = E[i].belt
  BY <1>3, <1>4, StockOne
<1>9. \A k \in DOMAIN E \ {i} : F[k] = E[k]
  BY <1>3, <1>4, StockOne
<1>7. Stuff(F) = Stuff(E) + (WorthOf(s) - WorthOf(E[i].stock)) /\ Stuff(E) \in Int
  BY <1>3, <1>4, StockOne
<1>5. Value[r] \in Int
  BY FactoryAssumption
<1> QED
  BY <1>2, <1>5, <1>6, <1>7, <1>8, <1>9

\* A unit is added to a stock.
LEMMA OneMore ==
    ASSUME NEW E, NEW n, Sound(E, n), NEW i \in DOMAIN E, NEW r \in Resources,
           NEW F, F = WithStock(E, i, [E[i].stock EXCEPT ![r] = @ + 1])
    PROVE  /\ Sound(F, n) /\ Kept(E, F) /\ Stays(E, F)
           /\ Stuff(F) = Stuff(E) + Value[r]
           /\ F[i].stock[r] > 0
<1>1. E[i] \in Entities /\ E[i].stock \in [Resources -> Nat] /\ E[i].stock[r] \in Nat
  BY FineEntity DEF Sound
<1> DEFINE s == [E[i].stock EXCEPT ![r] = @ + 1]
<1>2. s \in [Resources -> Nat] /\ WorthOf(s) - WorthOf(E[i].stock) = Value[r] * 1
  BY <1>1, StockByOne
<1>3. F = WithStock(E, i, s) /\ s[r] > 0
  BY <1>1
<1> HIDE DEF s
<1>4. /\ Sound(F, n) /\ Kept(E, F) /\ Stays(E, F) /\ F[i].stock = s
      /\ Stuff(F) = Stuff(E) + (WorthOf(s) - WorthOf(E[i].stock))
      /\ Stuff(E) \in Int
  BY <1>2, <1>3, StockOne
<1>5. Value[r] \in Int
  BY FactoryAssumption
<1> QED
  BY <1>2, <1>3, <1>4, <1>5

\* Whatever i faces, what it pushes is neither lost nor made.
LEMMA ReceiveGoods ==
    ASSUME game \in Games, bank \in Funds, NEW E, Sound(E, nextItemID), NEW m,
           NEW i \in DOMAIN E, NEW r \in Resources, ReceiveInto(E, m, i, r)
    PROVE  /\ Sound(ent', nextItemID') /\ nextItemID <= nextItemID' /\ bank' \in Funds
           /\ Kept(E, ent') /\ Flows(E, nextItemID, ent', nextItemID')
           /\ Stuff(ent') + Banked(bank') = Stuff(E) + Banked(bank)
<1> DEFINE G == WithStock(E, i, [E[i].stock EXCEPT ![r] = @ - 1])
<1>1. nextItemID \in Nat /\ Stuff(E) \in Int /\ Banked(bank) \in Int /\ Value[r] \in Int
      /\ MaxBelt \in Nat
  BY StuffType, BankedType, FactoryAssumption DEF Sound
<1>2. CASE ent' = E /\ bank' = bank /\ nextItemID' = nextItemID
  <2>1. Kept(E, E) /\ Stays(E, E)
    BY StaysRefl DEF Kept, Stays, SameBuilding
  <2>2. Flows(E, nextItemID, E, nextItemID)
    BY <2>1, StaysFlows
  <2> QED
    BY <1>1, <1>2, <2>1, <2>2
<1>3. ASSUME NEW j \in DOMAIN E, Receives(E, i, j, r)
      PROVE  /\ Sound(G, nextItemID) /\ Kept(E, G) /\ Stays(E, G)
             /\ j \in DOMAIN G /\ G[j].kind = E[j].kind /\ G[j].belt = E[j].belt
             /\ Stuff(G) = Stuff(E) - Value[r]
  <2>1. E[i].stock[r] > 0
    BY <1>3 DEF Receives
  <2>2. /\ Sound(G, nextItemID) /\ Kept(E, G) /\ Stays(E, G)
        /\ \A k \in DOMAIN E : G[k].belt = E[k].belt
        /\ Stuff(G) = Stuff(E) - Value[r]
    BY <2>1, OneLess
  <2> QED
    BY <2>2 DEF Kept, SameBuilding
<1> HIDE DEF G
<1>4. ASSUME NEW j \in DOMAIN E, Receives(E, i, j, r),
             ent' = G, bank' = [bank EXCEPT ![E[j].owner][r] = @ + 1], nextItemID' = nextItemID
      PROVE  /\ Sound(ent', nextItemID') /\ nextItemID <= nextItemID' /\ bank' \in Funds
             /\ Kept(E, ent') /\ Flows(E, nextItemID, ent', nextItemID')
             /\ Stuff(ent') + Banked(bank') = Stuff(E) + Banked(bank)
  <2> DEFINE p == E[j].owner
             a == [bank[p] EXCEPT ![r] = @ + 1]
  <2>1. p \in Players
    BY EntityFields DEF Sound, Fine
  <2>2. bank[p] \in [Resources -> Int] /\ bank[p][r] \in Int
    BY <2>1 DEF Funds
  <2>3. a \in [Resources -> Int] /\ a[r] - bank[p][r] = 1 /\ \A s \in Resources \ {r} : a[s] = bank[p][s]
    BY <2>2
  <2>4. bank' = [bank EXCEPT ![p] = a]
    BY <1>4
  <2> HIDE DEF p, a
  <2>5. WorthOf(a) = WorthOf(bank[p]) + Value[r] * (a[r] - bank[p][r])
    BY <2>2, <2>3, WorthOne
  <2>6. /\ bank' \in Funds /\ Banked(bank') = Banked(bank) + (WorthOf(a) - WorthOf(bank[p]))
        /\ WorthOf(a) \in Int /\ WorthOf(bank[p]) \in Int
    BY <2>1, <2>3, <2>4, BankedOne
  <2>7. Banked(bank') = Banked(bank) + Value[r]
    BY <1>1, <2>3, <2>5, <2>6
  <2>8. Flows(E, nextItemID, G, nextItemID)
    BY <1>3, <1>4, StaysFlows
  <2> QED
    BY <1>1, <1>3, <1>4, <2>6, <2>7, <2>8
<1>5. ASSUME NEW j \in DOMAIN E, Receives(E, i, j, r), E[j].kind \in Belts,
             ent' = WithBelt(G, j, Append(G[j].belt, NewItem(r))),
             bank' = bank, nextItemID' = nextItemID + 1
      PROVE  /\ Sound(ent', nextItemID') /\ nextItemID <= nextItemID' /\ bank' \in Funds
             /\ Kept(E, ent') /\ Flows(E, nextItemID, ent', nextItemID')
             /\ Stuff(ent') + Banked(bank') = Stuff(E) + Banked(bank)
  <2>1. Len(E[j].belt) < MaxBelt
    BY <1>5 DEF Receives, Belts
  <2>2. /\ Sound(G, nextItemID) /\ Kept(E, G) /\ Stays(E, G)
        /\ j \in DOMAIN G /\ G[j].kind \in Belts /\ Len(G[j].belt) < MaxBelt
        /\ Stuff(G) = Stuff(E) - Value[r]
    BY <1>3, <1>5, <2>1
  <2>3. NewItem(r) = [id |-> nextItemID + 1, res |-> r, progress |-> 0]
    BY DEF NewItem
  <2>4. /\ Sound(ent', nextItemID + 1) /\ Kept(G, ent') /\ Flows(G, nextItemID, ent', nextItemID + 1)
        /\ Stuff(ent') = Stuff(G) + Value[r]
    BY <1>5, <2>2, <2>3, ItemEnters
  <2>5. Kept(E, ent') /\ Flows(E, nextItemID, ent', nextItemID + 1)
    BY <2>2, <2>4, StaysThenFlows
  <2> QED
    BY <1>1, <1>5, <2>2, <2>4, <2>5
<1>6. ASSUME NEW j \in DOMAIN E, Receives(E, i, j, r),
             ent' = WithStock(G, j, [G[j].stock EXCEPT ![r] = @ + 1]), bank' = bank, nextItemID' = nextItemID
      PROVE  /\ Sound(ent', nextItemID') /\ nextItemID <= nextItemID' /\ bank' \in Funds
             /\ Kept(E, ent') /\ Flows(E, nextItemID, ent', nextItemID')
             /\ Stuff(ent') + Banked(bank') = Stuff(E) + Banked(bank)
  <2>1. /\ Sound(G, nextItemID) /\ Kept(E, G) /\ Stays(E, G) /\ j \in DOMAIN G
        /\ Stuff(G) = Stuff(E) - Value[r]
    BY <1>3, <1>6
  <2>2. /\ Sound(ent', nextItemID) /\ Kept(G, ent') /\ Stays(G, ent')
        /\ Stuff(ent') = Stuff(G) + Value[r]
    BY <1>6, <2>1, OneMore
  <2>3. Kept(E, ent') /\ Stays(E, ent')
    BY <2>1, <2>2, StaysThenStays
  <2>4. Flows(E, nextItemID, ent', nextItemID)
    BY <2>3, StaysFlows
  <2> QED
    BY <1>1, <1>6, <2>1, <2>2, <2>3, <2>4
<1>7. G = [E EXCEPT ![i].stock[r] = @ - 1]
  BY DEF G, WithStock
<1>8. \/ ent' = E /\ bank' = bank /\ nextItemID' = nextItemID
      \/ \E j \in DOMAIN E :
            /\ Receives(E, i, j, r)
            /\ \/ ent' = G /\ bank' = [bank EXCEPT ![E[j].owner][r] = @ + 1] /\ nextItemID' = nextItemID
               \/ /\ E[j].kind \in Belts /\ ent' = WithBelt(G, j, Append(G[j].belt, NewItem(r)))
                  /\ bank' = bank /\ nextItemID' = nextItemID + 1
               \/ /\ ent' = WithStock(G, j, [G[j].stock EXCEPT ![r] = @ + 1])
                  /\ bank' = bank /\ nextItemID' = nextItemID
  BY <1>7 DEF ReceiveInto, At, WithStock, WithBelt
<1> QED
  BY <1>2, <1>4, <1>5, <1>6, <1>8

-----------------------------------------------------------------------------
(* The ground *)

Buried(d) == IF d.res = NoRes THEN 0 ELSE d.yield * Value[d.res]
Ground(D) == SumFunction([p \in Tiles |-> Buried(D[p])])

\* What a deposit holds is worth a number.
LEMMA BuriedType ==
    ASSUME NEW d \in Deposits
    PROVE  Buried(d) \in Int
<1>1. CASE d.res = NoRes
  BY <1>1 DEF Buried
<1>2. CASE d.res # NoRes
  <2>1. d.res \in Resources /\ d.yield \in Int
    BY <1>2 DEF Deposits
  <2>2. Value[d.res] \in Int
    BY <2>1, FactoryAssumption
  <2> QED
    BY <1>2, <2>1, <2>2 DEF Buried
<1> QED
  BY <1>1, <1>2

\* What is in the ground is worth a number.
LEMMA GroundType ==
    ASSUME game \in Games, NEW D \in [Tiles -> Deposits]
    PROVE  Ground(D) \in Int
<1>1. \A p \in Tiles : Buried(D[p]) \in Int
  BY BuriedType
<1> QED
  BY <1>1, FiniteGame, SumType DEF Ground

\* One is dug from a deposit.
LEMMA OneDug ==
    ASSUME game \in Games, NEW D \in [Tiles -> Deposits], NEW p \in Tiles,
           D[p].res # NoRes, D[p].yield > 0, NEW C,
           C = [D EXCEPT ![p] = [res |-> IF D[p].yield <= 1 THEN NoRes ELSE D[p].res,
                                 yield |-> D[p].yield - 1]]
    PROVE  /\ D[p].res \in Resources /\ C \in [Tiles -> Deposits]
           /\ Ground(C) = Ground(D) - Value[D[p].res]
<1> DEFINE d == D[p]
           c == [res |-> IF d.yield <= 1 THEN NoRes ELSE d.res, yield |-> d.yield - 1]
           v(B) == [k \in Tiles |-> Buried(B[k])]
<1>1. d \in Deposits /\ d.res \in Resources /\ d.yield \in Nat /\ d.yield > 0 /\ d.res # NoRes
  BY DEF Deposits
<1>2. c.res = (IF d.yield <= 1 THEN NoRes ELSE d.res) /\ c.yield = d.yield - 1 /\ c \in Deposits
  BY <1>1 DEF Deposits
<1>3. C \in [Tiles -> Deposits] /\ C[p] = c /\ \A k \in Tiles \ {p} : C[k] = D[k]
  BY <1>2
<1>4. Buried(c) = Buried(d) - Value[d.res]
  <2>1. Value[d.res] \in Int
    BY <1>1, FactoryAssumption
  <2>2. CASE d.yield = 1
    BY <1>1, <1>2, <2>1, <2>2 DEF Buried
  <2>3. CASE d.yield > 1
    <3>1. c.res = d.res /\ c.yield = d.yield - 1
      BY <1>1, <1>2, <2>3
    <3>2. (d.yield - 1) * Value[d.res] = d.yield * Value[d.res] - Value[d.res]
      BY <1>1, <2>1
    <3> QED
      BY <1>1, <3>1, <3>2 DEF Buried
  <2> QED
    BY <1>1, <2>2, <2>3
<1>5. v(C) \in [Tiles -> Int] /\ v(D) \in [Tiles -> Int] /\ IsFiniteSet(Tiles)
  BY <1>3, BuriedType, FiniteGame
<1>6. \A k \in Tiles \ {p} : v(C)[k] = v(D)[k]
  BY <1>3
<1>7. v(C)[p] = Buried(c) /\ v(D)[p] = Buried(d)
  BY <1>3
<1>8. Ground(C) = SumFunction(v(C)) /\ Ground(D) = SumFunction(v(D))
  BY DEF Ground
<1>9. Buried(d) \in Int /\ Value[d.res] \in Int /\ Ground(D) \in Int
  BY <1>1, BuriedType, GroundType, FactoryAssumption
<1>12. D[p] = d
  OBVIOUS
<1> HIDE DEF v, c, d
<1>10. SumFunction(v(C)) = SumFunction(v(D)) + (v(C)[p] - v(D)[p])
  BY <1>5, <1>6, SumOne
<1>11. Ground(C) = Ground(D) - Value[d.res]
  BY <1>4, <1>7, <1>8, <1>9, <1>10
<1> QED
  BY <1>1, <1>3, <1>11, <1>12

-----------------------------------------------------------------------------
(* The machines *)

\* What holds at every step: FactoryInv says what is built and marked, Goods what
\* is held.
Goods == Sound(ent, nextItemID) /\ bank \in Funds
GoodsInv == FactoryInv /\ Goods

\* A step of the tick: items move on, and what all is worth stays the same.
GoodsMove ==
    /\ Sound(ent', nextItemID') /\ nextItemID <= nextItemID' /\ bank' \in Funds
    /\ Kept(ent, ent') /\ Flows(ent, nextItemID, ent', nextItemID')
    /\ Ground(deposit') + Banked(bank') + Stuff(ent') = Ground(deposit) + Banked(bank) + Stuff(ent)

\* All three totals are numbers.
LEMMA NumbersOfGoods ==
    ASSUME GoodsInv
    PROVE  /\ Ground(deposit) \in Int /\ Banked(bank) \in Int /\ Stuff(ent) \in Int
           /\ nextItemID \in Nat /\ game \in Games
<1>1. game \in Games /\ deposit \in [Tiles -> Deposits] /\ bank \in Funds /\ Sound(ent, nextItemID)
  BY DEF GoodsInv, FactoryInv, LandKept, Goods
<1> QED
  BY <1>1, GroundType, BankedType, StuffType DEF Sound

\* The entities come to E while the bank and the ground stay.
LEMMA RestingMoves ==
    ASSUME GoodsInv, NEW E, Sound(E, nextItemID), Kept(ent, E), Stays(ent, E), Stuff(E) = Stuff(ent),
           ent' = E, UNCHANGED <<deposit, bank, nextItemID>>
    PROVE  GoodsMove
<1>1. Flows(ent, nextItemID, E, nextItemID)
  BY StaysFlows
<1>2. nextItemID \in Nat /\ bank \in Funds
  BY NumbersOfGoods DEF GoodsInv, Goods
<1> QED
  BY <1>1, <1>2 DEF GoodsMove

\* The loops of the tick and the diff move nothing.
LEMMA StillMoves ==
    ASSUME GoodsInv, UNCHANGED <<ent, deposit, bank, nextItemID>>
    PROVE  GoodsMove
<1>1. Sound(ent, nextItemID)
  BY DEF GoodsInv, Goods
<1>2. Kept(ent, ent) /\ Stays(ent, ent)
  BY StaysRefl DEF Kept, Stays, SameBuilding
<1> QED
  BY <1>1, <1>2, RestingMoves

\* What every visit of a machine starts from.
LEMMA MachineGoods ==
    ASSUME GoodsInv, NEW i, Visiting("systems", i)
    PROVE  /\ i \in DOMAIN ent /\ Sound(ent, nextItemID) /\ Fine(ent[i], nextItemID)
           /\ ent[i].progress \in Nat /\ ent[i].at \in Tiles
           /\ RecipeOf(i) \in Recipes /\ RecipeOf(i) # NoRecipe /\ ent[i].kind \in DOMAIN Buildings
<1>1. i \in DOMAIN ent /\ RecipeOf(i) \in Recipes
  BY MachineVisited DEF GoodsInv
<1>2. Sound(ent, nextItemID) /\ Fine(ent[i], nextItemID)
  BY <1>1 DEF GoodsInv, Goods, Sound
<1>3. ent[i] \in Entities
  BY <1>2 DEF Fine
<1>4. RecipeOf(i) # NoRecipe
  BY DEF GoodsInv, FactoryInv, VisitsKept, Visiting, Machines, RecipeOf
<1> QED
  BY <1>1, <1>2, <1>3, <1>4, EntityFields

\* A step that only sets a progress (a machine that works or idles).
LEMMA ProgressMoves ==
    ASSUME GoodsInv, NEW i \in DOMAIN ent, NEW v \in Nat, ent' = WithProgress(ent, i, v),
           UNCHANGED <<deposit, bank, nextItemID>>
    PROVE  GoodsMove
<1>1. Sound(ent, nextItemID)
  BY DEF GoodsInv, Goods
<1>2. /\ Sound(ent', nextItemID) /\ Kept(ent, ent') /\ Stays(ent, ent')
      /\ Stuff(ent') = Stuff(ent)
  BY <1>1, ProgressOne
<1> QED
  BY <1>2, RestingMoves

\* A miner that idles or digs on.
LEMMA IdleMoves ==
    ASSUME GoodsInv, NEW i, NoDeposit(i) \/ StorageFull(i) \/ Dig(i)
    PROVE  GoodsMove
<1>1. Visiting("systems", i)
  BY DEF NoDeposit, StorageFull, Dig, Digs, Extracts
<1>2. i \in DOMAIN ent /\ ent[i].progress \in Nat
  BY <1>1, MachineGoods
<1>3. \E v \in Nat : ent' = WithProgress(ent, i, v) /\ UNCHANGED <<deposit, bank, nextItemID>>
  <2>1. CASE NoDeposit(i) \/ StorageFull(i)
    <3>1. ent' = WithProgress(ent, i, 0) /\ UNCHANGED <<deposit, bank, nextItemID>>
      BY <2>1 DEF NoDeposit, StorageFull, Rests, WithProgress
    <3> QED
      BY <3>1
  <2>2. CASE Dig(i)
    <3>1. ent' = WithProgress(ent, i, ent[i].progress + 1) /\ UNCHANGED <<deposit, bank, nextItemID>>
      BY <2>2 DEF Dig, Rests, WithProgress
    <3>2. ent[i].progress + 1 \in Nat
      BY <1>2
    <3> QED
      BY <3>1, <3>2
  <2> QED
    BY <2>1, <2>2
<1> QED
  BY <1>2, <1>3, ProgressMoves

\* What is dug is one less in the ground and one more with the miner.
LEMMA MineMoves ==
    ASSUME GoodsInv, NEW i, Mine(i)
    PROVE  GoodsMove
<1> DEFINE p == ent[i].at
           r == deposit[p].res
           A == WithStock(ent, i, [ent[i].stock EXCEPT ![r] = @ + 1])
           E == Mined(i, r)
<1>1. Visiting("systems", i) /\ r # NoRes
  BY DEF Mine, Digs, Extracts
<1>2. i \in DOMAIN ent /\ p \in Tiles /\ Sound(ent, nextItemID)
  BY <1>1, MachineGoods
<1>3. deposit \in [Tiles -> Deposits] /\ deposit[p].yield > 0 /\ game \in Games
  BY <1>1, <1>2 DEF GoodsInv, FactoryInv, LandKept, OreKept
<1>4. deposit' = [deposit EXCEPT ![p] = [res |-> IF deposit[p].yield <= 1 THEN NoRes ELSE deposit[p].res,
                                         yield |-> deposit[p].yield - 1]]
  BY DEF Mine
<1>5. r \in Resources /\ Ground(deposit') = Ground(deposit) - Value[r]
  BY <1>1, <1>2, <1>3, <1>4, OneDug
<1>6. \E m : ReceiveInto(E, m, i, r)
  BY DEF Mine
<1>7. E = WithProgress(A, i, 0)
  BY DEF Mined, WithProgress, WithStock
<1> HIDE DEF p, r, A, E
<1>8. /\ Sound(A, nextItemID) /\ Kept(ent, A) /\ Stays(ent, A)
      /\ Stuff(A) = Stuff(ent) + Value[r]
  BY <1>2, <1>5, OneMore DEF A
<1>9. i \in DOMAIN A
  BY <1>2, <1>8 DEF Kept
<1>10. /\ Sound(E, nextItemID) /\ Kept(A, E) /\ Stays(A, E)
       /\ Stuff(E) = Stuff(A)
  BY <1>7, <1>8, <1>9, ProgressOne
<1>11. Kept(ent, E) /\ Stays(ent, E) /\ i \in DOMAIN E
  BY <1>2, <1>8, <1>10, StaysThenStays DEF Kept
<1>12. bank \in Funds /\ game \in Games
  BY <1>3 DEF GoodsInv, Goods
<1>13. /\ Sound(ent', nextItemID') /\ nextItemID <= nextItemID' /\ bank' \in Funds
       /\ Kept(E, ent') /\ Flows(E, nextItemID, ent', nextItemID')
       /\ Stuff(ent') + Banked(bank') = Stuff(E) + Banked(bank)
  BY <1>5, <1>6, <1>10, <1>11, <1>12, ReceiveGoods
<1>14. Kept(ent, ent') /\ Flows(ent, nextItemID, ent', nextItemID')
  BY <1>11, <1>13, StaysThenFlows
<1>15. Ground(deposit) \in Int /\ Banked(bank) \in Int /\ Stuff(ent) \in Int /\ Value[r] \in Int
       /\ Stuff(ent') \in Int /\ Banked(bank') \in Int
  BY <1>5, <1>12, <1>13, NumbersOfGoods, StuffType, BankedType, FactoryAssumption
<1>16. Ground(deposit') + Banked(bank') + Stuff(ent') = Ground(deposit) + Banked(bank) + Stuff(ent)
  <2>1. Ground(deposit') = Ground(deposit) - Value[r]
    BY <1>5
  <2>2. Stuff(E) = Stuff(ent) + Value[r]
    BY <1>8, <1>10
  <2>3. Stuff(ent') + Banked(bank') = Stuff(E) + Banked(bank)
    BY <1>13
  <2> QED
    BY <1>15, <2>1, <2>2, <2>3
<1> QED
  BY <1>13, <1>14, <1>16 DEF GoodsMove

\* The tile beside another is another.
LEMMA BesideElsewhere ==
    ASSUME NEW p \in Int \X Int, NEW d \in Directions
    PROVE  Beside(p, d) # p
<1>1. p[1] \in Int /\ p[2] \in Int /\ p = <<p[1], p[2]>>
  OBVIOUS
<1>2. d = 0 \/ d = 1 \/ d = 2 \/ d = 3
  BY DEF Directions
<1>3. Offset[d] = CASE d = 0 -> <<0, -1>> [] d = 1 -> <<1, 0>> [] d = 2 -> <<0, 1>> [] d = 3 -> <<-1, 0>>
  BY DEF Offset
<1>4. Beside(p, d) = <<p[1] + Offset[d][1], p[2] + Offset[d][2]>>
  BY DEF Beside
<1>5. CASE d = 0
  <2>1. Offset[d] = <<0, -1>>
    BY <1>3, <1>5
  <2> QED
    BY <1>1, <1>4, <2>1
<1>6. CASE d = 1
  <2>1. Offset[d] = <<1, 0>>
    BY <1>3, <1>6
  <2> QED
    BY <1>1, <1>4, <2>1
<1>7. CASE d = 2
  <2>1. Offset[d] = <<0, 1>>
    BY <1>3, <1>7
  <2> QED
    BY <1>1, <1>4, <2>1
<1>8. CASE d = 3
  <2>1. Offset[d] = <<-1, 0>>
    BY <1>3, <1>8
  <2> QED
    BY <1>1, <1>4, <2>1
<1> QED
  BY <1>2, <1>5, <1>6, <1>7, <1>8

\* pullInputs: what i takes from the entity behind it is not lost.
LEMMA TakenGoods ==
    ASSUME GoodsInv, NEW i \in DOMAIN ent, RecipeOf(i) \in Recipes,
           NEW j \in DOMAIN ent, i # j
    PROVE  LET E == Taken(i, j)
           IN  /\ Sound(E, nextItemID) /\ Kept(ent, E) /\ Stays(ent, E) /\ Stuff(E) = Stuff(ent)
<1> DEFINE take == PulledFrom(i, j)
           q == ent[j].belt
           b == RemoveItems(q, take)
           s == [r \in Resources |-> ent[i].stock[r] + take[r]]
           t == [r \in Resources |-> IF ent[j].kind \in Belts THEN ent[j].stock[r]
                                     ELSE ent[j].stock[r] - take[r]]
           A == WithStock(ent, i, s)
           B == WithBelt(A, j, b)
           E == WithStock(B, j, t)
<1>1. /\ Sound(ent, nextItemID) /\ Fine(ent[j], nextItemID) /\ Fine(ent[i], nextItemID)
      /\ MaxBelt \in Nat
  BY FactoryAssumption DEF GoodsInv, Goods, Sound
<1>2. /\ ent[i].stock \in [Resources -> Nat] /\ ent[j].stock \in [Resources -> Nat]
      /\ q \in Seq(Items) /\ Distinct(q) /\ Len(q) <= MaxBelt
      /\ ent[j].kind \notin Belts => q = <<>>
  <2>1. ent[i].stock \in [Resources -> Nat] /\ ent[j].stock \in [Resources -> Nat] /\ q \in Seq(Items)
    BY <1>1, FineEntity
  <2> QED
    BY <1>1, <2>1 DEF Fine
<1>3. \A r \in Resources : CountOf(q, r) \in Nat
  BY <1>2, CountType
<1>4. RecipeOf(i).input \in [Resources -> Nat]
  BY DEF Recipes
<1>5. ASSUME NEW r \in Resources
      PROVE  /\ take[r] \in Nat
             /\ ent[j].kind \in Belts => take[r] <= CountOf(q, r)
             /\ ent[j].kind \notin Belts => take[r] <= ent[j].stock[r]
  <2> DEFINE missing == RecipeOf(i).input[r] - ent[i].stock[r]
             has == IF ent[j].kind \in Belts THEN CountOf(q, r) ELSE ent[j].stock[r]
  <2>1. missing \in Int /\ has \in Nat
    BY <1>2, <1>3, <1>4
  <2>2. take[r] = IF missing <= 0 \/ has <= 0 THEN 0 ELSE IF has > missing THEN missing ELSE has
    BY DEF PulledFrom
  <2>3. /\ ent[j].kind \in Belts => has = CountOf(q, r)
        /\ ent[j].kind \notin Belts => has = ent[j].stock[r]
    OBVIOUS
  <2> HIDE DEF missing, has, take
  <2>4. take[r] \in Nat /\ take[r] <= has
    BY <2>1, <2>2
  <2> QED
    BY <2>3, <2>4
<1>6. take = [r \in Resources |-> take[r]]
  BY DEF PulledFrom
<1>7. Taken(i, j) = E
  <2>1. Taken(i, j) = [ent EXCEPT ![i].stock = s, ![j].belt = b, ![j].stock = t]
    BY DEF Taken
  <2> HIDE DEF s, b, t
  <2> QED
    BY <2>1 DEF WithStock, WithBelt
<1>8. ent[j].belt = q
  OBVIOUS
<1>9. \A r \in Resources : /\ s[r] = ent[i].stock[r] + take[r]
                           /\ t[r] = IF ent[j].kind \in Belts THEN ent[j].stock[r]
                                     ELSE ent[j].stock[r] - take[r]
  OBVIOUS
<1>10. s = [r \in Resources |-> s[r]] /\ t = [r \in Resources |-> t[r]]
  OBVIOUS
<1> HIDE DEF take, q, s, t
<1>11. s \in [Resources -> Nat] /\ t \in [Resources -> Nat] /\ take \in [Resources -> Nat]
  <2>1. \A r \in Resources : s[r] \in Nat /\ t[r] \in Nat
    <3> SUFFICES ASSUME NEW r \in Resources PROVE s[r] \in Nat /\ t[r] \in Nat
      OBVIOUS
    <3>1. ent[i].stock[r] \in Nat /\ ent[j].stock[r] \in Nat
      BY <1>2
    <3> QED
      BY <1>5, <1>9, <3>1
  <2> QED
    BY <1>5, <1>6, <1>10, <2>1
<1>12. /\ b \in Seq(Items) /\ Distinct(b) /\ ComesFrom(b, q) /\ Len(b) <= MaxBelt
       /\ q = <<>> => b = <<>>
  <2> DEFINE S == {n \in 1..Len(q) : CountOf(SubSeq(q, 1, n), q[n].res) > take[q[n].res]}
  <2>1. S \in SUBSET (1..Len(q)) /\ b = Picked(q, S) /\ Len(q) \in Nat
    BY <1>2 DEF RemoveItems
  <2> HIDE DEF S, b
  <2>2. Picked(q, S) \in Seq(Items)
    BY <1>2, <2>1, PickedItems
  <2>3. Len(Picked(q, S)) = Cardinality(S)
    BY <1>2, <2>1, PickedItems
  <2>6. Cardinality(S) \in 0..Len(q)
    BY <1>2, <2>1, PickedItems
  <2>4. Distinct(Picked(q, S)) /\ ComesFrom(Picked(q, S), q)
    BY <1>2, <2>1, PickedServes
  <2>5. q = <<>> => b = <<>>
    <3>1. q = <<>> => Len(q) = 0
      OBVIOUS
    <3>2. b \in Seq(Items) /\ Len(b) = 0 => b = <<>>
      BY EmptySeq
    <3> QED
      BY <2>1, <2>2, <2>3, <2>6, <3>1, <3>2
  <2> QED
    BY <1>1, <1>2, <2>1, <2>2, <2>3, <2>4, <2>5, <2>6
<1>13. ASSUME ent[j].kind \in Belts
       PROVE  \A r \in Resources : CountOf(b, r) = CountOf(q, r) - take[r]
  BY <1>2, <1>5, <1>13, CountRemoved
<1> HIDE DEF b, A, B, E
<1>14. /\ Sound(A, nextItemID) /\ Kept(ent, A) /\ Stays(ent, A)
       /\ A[j] = ent[j]
       /\ Stuff(A) = Stuff(ent) + (WorthOf(s) - WorthOf(ent[i].stock))
       /\ WorthOf(s) \in Int /\ WorthOf(ent[i].stock) \in Int /\ Stuff(ent) \in Int
  BY <1>1, <1>11, StockOne DEF A
<1>15. /\ j \in DOMAIN A
       /\ A[j].kind \notin Belts => b = <<>>
  BY <1>2, <1>12, <1>14 DEF Kept
<1>16. /\ Sound(B, nextItemID) /\ Kept(A, B) /\ Stays(A, B) /\ B[j].stock = ent[j].stock
  <2>1. ComesFrom(b, A[j].belt)
    BY <1>8, <1>12, <1>14
  <2>2. Sound(B, nextItemID) /\ Kept(A, B) /\ Stays(A, B)
    BY <1>12, <1>14, <1>15, <2>1, BeltOne DEF B
  <2>3. B[j].stock = A[j].stock
    BY <1>12, <1>14, <1>15, <2>1, BeltOne DEF B
  <2> QED
    BY <1>14, <2>2, <2>3
<1>17. /\ Stuff(B) = Stuff(A) + (WorthOf(Counts(b)) - WorthOf(Counts(q)))
       /\ WorthOf(Counts(b)) \in Int /\ WorthOf(Counts(q)) \in Int
  <2>1. ComesFrom(b, A[j].belt) /\ A[j].belt = q
    BY <1>8, <1>12, <1>14
  <2>2. /\ Stuff(B) = Stuff(A) + (WorthOf(Counts(b)) - WorthOf(Counts(A[j].belt)))
        /\ WorthOf(Counts(b)) \in Int /\ WorthOf(Counts(A[j].belt)) \in Int
    BY <1>12, <1>14, <1>15, <2>1, BeltOne DEF B
  <2> QED
    BY <2>1, <2>2
<1>18. j \in DOMAIN B
  BY <1>15, <1>16 DEF Kept
<1>19. /\ Sound(E, nextItemID) /\ Kept(B, E) /\ Stays(B, E)
  BY <1>11, <1>16, <1>18, StockOne DEF E
<1>20. /\ Stuff(E) = Stuff(B) + (WorthOf(t) - WorthOf(ent[j].stock))
       /\ WorthOf(t) \in Int /\ WorthOf(ent[j].stock) \in Int
  BY <1>11, <1>16, <1>18, StockOne DEF E
<1>21. Kept(ent, B) /\ Stays(ent, B)
  BY <1>14, <1>16, StaysThenStays
<1>22. Kept(ent, E) /\ Stays(ent, E)
  BY <1>19, <1>21, StaysThenStays
<1>23. /\ s \in [Resources -> Int] /\ t \in [Resources -> Int] /\ take \in [Resources -> Int]
       /\ ent[i].stock \in [Resources -> Int] /\ ent[j].stock \in [Resources -> Int]
       /\ Counts(b) \in [Resources -> Int] /\ Counts(q) \in [Resources -> Int]
  <2>1. Counts(b) \in [Resources -> Int] /\ Counts(q) \in [Resources -> Int]
    BY <1>2, <1>12, CountsType
  <2> QED
    BY <1>2, <1>11, <2>1
<1>24. WorthOf(take) \in Int
  BY <1>23, WorthType
<1>25. WorthOf(s) = WorthOf(ent[i].stock) + WorthOf(take)
  BY <1>9, <1>23, WorthPlus
<1>26. WorthOf(Counts(q)) + WorthOf(ent[j].stock) = WorthOf(Counts(b)) + WorthOf(t) + WorthOf(take)
  <2>1. CASE ent[j].kind \in Belts
    <3>1. \A r \in Resources : Counts(q)[r] = Counts(b)[r] + take[r]
      <4> SUFFICES ASSUME NEW r \in Resources PROVE CountOf(q, r) = CountOf(b, r) + take[r]
        BY DEF Counts
      <4>1. CountOf(b, r) = CountOf(q, r) - take[r] /\ CountOf(q, r) \in Nat /\ take[r] \in Nat
        BY <1>3, <1>5, <1>13, <2>1
      <4> QED
        BY <4>1
    <3>2. WorthOf(Counts(q)) = WorthOf(Counts(b)) + WorthOf(take)
      BY <1>23, <3>1, WorthPlus
    <3>3. t = ent[j].stock
      BY <1>2, <1>9, <1>10, <2>1
    <3> QED
      BY <1>17, <1>20, <1>24, <3>2, <3>3
  <2>2. CASE ent[j].kind \notin Belts
    <3>1. \A r \in Resources : ent[j].stock[r] = t[r] + take[r]
      <4> SUFFICES ASSUME NEW r \in Resources PROVE ent[j].stock[r] = t[r] + take[r]
        OBVIOUS
      <4>1. t[r] = ent[j].stock[r] - take[r] /\ ent[j].stock[r] \in Nat /\ take[r] \in Nat
        BY <1>2, <1>5, <1>9, <2>2
      <4> QED
        BY <4>1
    <3>2. WorthOf(ent[j].stock) = WorthOf(t) + WorthOf(take)
      BY <1>23, <3>1, WorthPlus
    <3>3. b = q
      BY <1>2, <1>12, <2>2
    <3> QED
      BY <1>17, <1>20, <1>24, <3>2, <3>3
  <2> QED
    BY <2>1, <2>2
<1>27. Stuff(E) = Stuff(ent)
  BY <1>14, <1>17, <1>20, <1>24, <1>25, <1>26
<1> QED
  BY <1>7, <1>19, <1>22, <1>27

\* What Pull leaves: all there was, and i as far as it was.
LEMMA PullGoods ==
    ASSUME GoodsInv, NEW i, Visiting("systems", i)
    PROVE  LET E == Pull(i).ent
           IN  /\ Sound(E, nextItemID) /\ Kept(ent, E) /\ Stays(ent, E) /\ Stuff(E) = Stuff(ent)
<1>1. i \in DOMAIN ent /\ Sound(ent, nextItemID) /\ RecipeOf(i) \in Recipes /\ ent[i].at \in Tiles
      /\ ent[i] \in Entities
  BY MachineGoods DEF Fine
<1>2. CASE Pull(i).ent = ent
  <2>1. Kept(ent, ent) /\ Stays(ent, ent)
    BY StaysRefl DEF Kept, Stays, SameBuilding
  <2> QED
    BY <1>1, <1>2, <2>1
<1>3. CASE Pull(i).ent # ent
  <2> DEFINE j == CHOOSE j \in At(ent, Behind(ent[i])) : TRUE
  <2>1. Pull(i).ent = Taken(i, j) /\ ~NothingBehind(i)
    BY <1>3 DEF Pull
  <2>2. j \in At(ent, Behind(ent[i]))
    BY <2>1 DEF NothingBehind
  <2> HIDE DEF j
  <2>3. j \in DOMAIN ent /\ ent[j].at = Behind(ent[i])
    BY <2>2 DEF At
  <2>4. i # j
    <3>1. ent[i].at \in Int \X Int /\ ent[i].dir \in Directions
      BY <1>1, FiniteGame, EntityFields DEF GoodsInv, FactoryInv
    <3>2. Behind(ent[i]) # ent[i].at
      BY <3>1, BesideElsewhere DEF Behind, Directions
    <3> QED
      BY <2>3, <3>2
  <2> QED
    BY <1>1, <2>1, <2>3, <2>4, TakenGoods
<1> QED
  BY <1>2, <1>3

\* A machine that works on.
LEMMA WorkMoves ==
    ASSUME GoodsInv, NEW i, Work(i)
    PROVE  GoodsMove
<1> DEFINE E == Pull(i).ent
           rec == RecipeOf(i)
           v == IF E[i].progress + 1 < rec.ticks THEN E[i].progress + 1 ELSE rec.ticks
<1>1. Visiting("systems", i) /\ UNCHANGED <<deposit, bank, nextItemID>>
  BY DEF Work, Produces, Rests
<1>2. /\ Sound(E, nextItemID) /\ Kept(ent, E) /\ Stays(ent, E) /\ Stuff(E) = Stuff(ent)
  BY <1>1, PullGoods
<1>3. i \in DOMAIN ent /\ rec.ticks \in Nat
  BY <1>1, MachineGoods DEF Recipes
<1>4. ent' = WithProgress(E, i, v)
  BY DEF Work, Rests, WithProgress
<1> HIDE DEF E, rec
<1>5. i \in DOMAIN E
  BY <1>2, <1>3 DEF Kept
<1>6. E[i].progress \in Nat
  BY <1>2, <1>5, FineEntity DEF Sound
<1>7. v \in Nat
  BY <1>3, <1>6
<1> HIDE DEF v
<1>8. Sound(ent', nextItemID) /\ Kept(E, ent') /\ Stays(E, ent') /\ Stuff(ent') = Stuff(E)
  BY <1>2, <1>4, <1>5, <1>7, ProgressOne
<1>9. Kept(ent, ent') /\ Stays(ent, ent')
  BY <1>2, <1>8, StaysThenStays
<1> QED
  BY <1>1, <1>2, <1>8, <1>9, RestingMoves

\* What is crafted takes the place of what it is made from.
LEMMA CraftedWorth ==
    ASSUME NEW k \in DOMAIN Buildings, NEW rec, rec = Buildings[k].recipe,
           rec \in Recipes, rec # NoRecipe, ~rec.extraction,
           NEW a \in [Resources -> Nat], \A r \in Resources : a[r] >= rec.input[r],
           NEW s, s = [r \in Resources |-> a[r] - rec.input[r] + (IF r = rec.output THEN rec.qty ELSE 0)]
    PROVE  s \in [Resources -> Nat] /\ WorthOf(s) = WorthOf(a)
<1> DEFINE o == [r \in Resources |-> IF r = rec.output THEN rec.qty ELSE 0]
           z == [r \in Resources |-> 0]
           u == [r \in Resources |-> a[r] + o[r]]
           d == rec.input
<1>1. d \in [Resources -> Nat] /\ rec.output \in Resources /\ rec.qty \in Nat
  BY DEF Recipes
<1>2. o \in [Resources -> Nat] /\ z \in [Resources -> Int]
  BY <1>1
<1>3. \A r \in Resources : a[r] \in Nat /\ d[r] \in Nat /\ o[r] \in Nat /\ a[r] >= d[r]
  BY <1>1, <1>2
<1>4. \A r \in Resources : s[r] = a[r] - d[r] + o[r] /\ u[r] = a[r] + o[r]
  OBVIOUS
<1>5. o[rec.output] = rec.qty /\ \A r \in Resources \ {rec.output} : o[r] = z[r]
  BY <1>1
<1>6. z[rec.output] = 0 /\ \A r \in Resources : z[r] = 0
  BY <1>1
<1>7. s = [r \in Resources |-> s[r]] /\ u = [r \in Resources |-> u[r]]
  OBVIOUS
<1>8. WorthOf(d) = Value[rec.output] * rec.qty
  BY ValueAssumption
<1> HIDE DEF o, z, u, d
<1>9. \A r \in Resources : s[r] \in Nat /\ u[r] \in Int /\ u[r] = s[r] + d[r]
  BY <1>3, <1>4
<1>10. /\ s \in [Resources -> Nat] /\ s \in [Resources -> Int] /\ u \in [Resources -> Int]
       /\ d \in [Resources -> Int] /\ o \in [Resources -> Int] /\ a \in [Resources -> Int]
  <2>1. s \in [Resources -> Nat] /\ u \in [Resources -> Int]
    BY <1>7, <1>9
  <2> QED
    BY <1>1, <1>2, <2>1
<1>11. WorthOf(o) = WorthOf(z) + Value[rec.output] * (o[rec.output] - z[rec.output])
  BY <1>1, <1>2, <1>5, <1>10, WorthOne
<1>12. WorthOf(z) = 0
  BY <1>6, WorthEmpty
<1>13. Value[rec.output] \in Int /\ WorthOf(d) \in Int /\ WorthOf(a) \in Int /\ WorthOf(s) \in Int
  BY <1>1, <1>10, WorthType, FactoryAssumption
<1>14. WorthOf(o) = WorthOf(d)
  <2>1. o[rec.output] - z[rec.output] = rec.qty
    BY <1>1, <1>5, <1>6
  <2> QED
    BY <1>8, <1>11, <1>12, <1>13, <2>1
<1>15. WorthOf(u) = WorthOf(a) + WorthOf(o)
  <2>1. \A r \in Resources : u[r] = a[r] + o[r]
    BY <1>4
  <2> QED
    BY <1>10, <2>1, WorthPlus
<1>16. WorthOf(u) = WorthOf(s) + WorthOf(d)
  BY <1>9, <1>10, WorthPlus
<1> QED
  BY <1>10, <1>13, <1>14, <1>15, <1>16

\* A machine that takes its inputs, makes its output and hands it on.
LEMMA CraftMoves ==
    ASSUME GoodsInv, NEW i, Craft(i)
    PROVE  GoodsMove
<1> DEFINE E == Pull(i).ent
           rec == RecipeOf(i)
           s == [r \in Resources |-> E[i].stock[r] - rec.input[r]
                                     + (IF r = rec.output THEN rec.qty ELSE 0)]
           A == WithProgress(E, i, 0)
           G == WithStock(A, i, s)
<1>1. Visiting("systems", i) /\ UNCHANGED deposit /\ ~rec.extraction
  BY DEF Craft, Produces
<1>2. /\ Sound(E, nextItemID) /\ Kept(ent, E) /\ Stays(ent, E) /\ Stuff(E) = Stuff(ent)
  BY <1>1, PullGoods
<1>3. i \in DOMAIN ent /\ rec \in Recipes /\ rec # NoRecipe /\ ent[i].kind \in DOMAIN Buildings
  BY <1>1, MachineGoods
<1>4. rec = Buildings[ent[i].kind].recipe
  BY DEF RecipeOf
<1>5. \A r \in Resources : E[i].stock[r] >= rec.input[r]
  BY DEF Craft, HasInputs
<1>6. \E m : ReceiveInto([E EXCEPT ![i].progress = 0, ![i].stock = s], m, i, rec.output)
  <2>1. \E m : ReceiveInto([E EXCEPT ![i].progress = 0,
                                    ![i].stock = [r \in Resources |->
                                       @[r] - rec.input[r] + (IF r = rec.output THEN rec.qty ELSE 0)]],
                           m, i, rec.output)
    BY DEF Craft
  <2> QED
    BY <2>1
<1>7. G = [E EXCEPT ![i].progress = 0, ![i].stock = s]
  BY DEF WithProgress, WithStock
<1>8. \E m : ReceiveInto(G, m, i, rec.output)
  BY <1>6, <1>7
<1> HIDE DEF E, rec, A, G
<1>9. i \in DOMAIN E
  BY <1>2, <1>3 DEF Kept
<1>10. E[i].stock \in [Resources -> Nat]
  BY <1>2, <1>9, FineEntity DEF Sound
<1>11. s \in [Resources -> Nat] /\ WorthOf(s) = WorthOf(E[i].stock)
  BY <1>1, <1>3, <1>4, <1>5, <1>10, CraftedWorth
<1> HIDE DEF s
<1>12. Sound(A, nextItemID) /\ Kept(E, A) /\ Stays(E, A) /\ A[i].stock = E[i].stock /\ Stuff(A) = Stuff(E)
  BY <1>2, <1>9, ProgressOne DEF A
<1>13. i \in DOMAIN A
  BY <1>9, <1>12 DEF Kept
<1>14. Sound(G, nextItemID) /\ Kept(A, G) /\ Stays(A, G)
  BY <1>11, <1>12, <1>13, StockOne DEF G
<1>15. Stuff(G) = Stuff(A) + (WorthOf(s) - WorthOf(A[i].stock)) /\ WorthOf(s) \in Int /\ Stuff(A) \in Int
  BY <1>11, <1>12, <1>13, StockOne DEF G
<1>16. Stuff(G) = Stuff(ent)
  BY <1>2, <1>11, <1>12, <1>15
<1>17. Kept(ent, A) /\ Stays(ent, A)
  BY <1>2, <1>12, StaysThenStays
<1>18. Kept(ent, G) /\ Stays(ent, G)
  BY <1>14, <1>17, StaysThenStays
<1>19. i \in DOMAIN G /\ rec.output \in Resources /\ bank \in Funds /\ game \in Games
  BY <1>3, <1>13, <1>14 DEF Kept, Recipes, GoodsInv, Goods, FactoryInv
<1>20. /\ Sound(ent', nextItemID') /\ nextItemID <= nextItemID' /\ bank' \in Funds
       /\ Kept(G, ent') /\ Flows(G, nextItemID, ent', nextItemID')
       /\ Stuff(ent') + Banked(bank') = Stuff(G) + Banked(bank)
  BY <1>8, <1>14, <1>19, ReceiveGoods
<1>21. Kept(ent, ent') /\ Flows(ent, nextItemID, ent', nextItemID')
  BY <1>18, <1>20, StaysThenFlows
<1>22. Ground(deposit') + Banked(bank') + Stuff(ent') = Ground(deposit) + Banked(bank) + Stuff(ent)
  <2>1. Ground(deposit) \in Int /\ Banked(bank) \in Int /\ Stuff(ent) \in Int
    BY NumbersOfGoods
  <2>2. Stuff(ent') \in Int /\ Banked(bank') \in Int
    BY <1>19, <1>20, StuffType, BankedType
  <2>3. Ground(deposit') = Ground(deposit)
    BY <1>1
  <2>4. Stuff(ent') + Banked(bank') = Stuff(ent) + Banked(bank)
    BY <1>16, <1>20
  <2> QED
    BY <2>1, <2>2, <2>3, <2>4
<1> QED
  BY <1>20, <1>21, <1>22 DEF GoodsMove

-----------------------------------------------------------------------------
(* The belts *)

\* What every visit of a belt starts from.
LEMMA BeltGoods ==
    ASSUME GoodsInv, NEW i, Carries(i), NEW q, q = ent[i].belt
    PROVE  /\ i \in DOMAIN ent /\ ent[i].kind \in Belts /\ ent[i] \in Entities
           /\ Sound(ent, nextItemID) /\ UNCHANGED <<deposit, nextItemID>>
           /\ BeltSpeed \in Nat \ {0} /\ MaxBelt \in Nat
           /\ q \in Seq(Items) /\ Distinct(q) /\ Len(q) <= MaxBelt
           /\ Staying(q) \in Seq(Items) /\ Completed(q) \in Seq(Loads)
           /\ Len(Staying(q)) + Len(Completed(q)) = Len(q)
           /\ Len(Staying(q)) \in Nat /\ Len(Completed(q)) \in Nat
           /\ Distinct(Staying(q)) /\ Distinct(Completed(q)) /\ Apart(Staying(q), Completed(q))
           /\ ComesFrom(Staying(q), q) /\ ComesFrom(Completed(q), q)
           /\ \A n \in 1..Len(Completed(q)) :
                 Completed(q)[n].progress \in BeltSpeed..(BeltSpeed + 1)
           /\ \A r : CountOf(Staying(q), r) + CountOf(Completed(q), r) = CountOf(q, r)
<1>1. i \in DOMAIN ent /\ ent[i].kind \in Belts
  BY DEF GoodsInv, FactoryInv, VisitsKept, Carries, Visiting, BeltIDs
<1>2. Sound(ent, nextItemID) /\ Fine(ent[i], nextItemID)
  BY <1>1 DEF GoodsInv, Goods, Sound
<1>3. q \in Seq(Items) /\ Distinct(q) /\ Len(q) <= MaxBelt /\ ent[i] \in Entities
  BY <1>2, FineEntity DEF Fine
<1>4. BeltSpeed \in Nat \ {0} /\ MaxBelt \in Nat
  BY FactoryAssumption
<1>5. /\ Staying(q) \in Seq(Items) /\ Completed(q) \in Seq(Loads)
      /\ Len(Staying(q)) + Len(Completed(q)) = Len(q)
      /\ Distinct(Staying(q)) /\ Distinct(Completed(q)) /\ Apart(Staying(q), Completed(q))
      /\ ComesFrom(Staying(q), q) /\ ComesFrom(Completed(q), q)
      /\ \A n \in 1..Len(Completed(q)) :
            Completed(q)[n].progress \in BeltSpeed..(BeltSpeed + 1)
      /\ \A r : CountOf(Staying(q), r) + CountOf(Completed(q), r) = CountOf(q, r)
  BY <1>3, <1>4, BeltParts
<1>6. Len(Staying(q)) \in Nat /\ Len(Completed(q)) \in Nat
  BY <1>5, LenProperties
<1> QED
  BY <1>1, <1>2, <1>3, <1>4, <1>5, <1>6 DEF Carries

\* Sharing no items goes both ways.
LEMMA ApartSwaps ==
    ASSUME NEW p, NEW q, Apart(p, q)
    PROVE  Apart(q, p)
  BY DEF Apart

\* What counts to the same is worth the same.
LEMMA WorthOfParts ==
    ASSUME NEW T, NEW p \in Seq(T), NEW q \in Seq(T), NEW U, NEW o \in Seq(U),
           \A r \in Resources : CountOf(p, r) + CountOf(o, r) = CountOf(q, r)
    PROVE  /\ WorthOf(Counts(q)) = WorthOf(Counts(p)) + WorthOf(Counts(o))
           /\ WorthOf(Counts(p)) \in Int /\ WorthOf(Counts(q)) \in Int /\ WorthOf(Counts(o)) \in Int
<1>1. /\ Counts(p) \in [Resources -> Int] /\ Counts(q) \in [Resources -> Int]
      /\ Counts(o) \in [Resources -> Int]
  <2>1. Counts(p) \in [Resources -> Int] /\ Counts(q) \in [Resources -> Int]
    BY CountsType
  <2>2. Counts(o) \in [Resources -> Int]
    BY CountsType
  <2> QED
    BY <2>1, <2>2
<1>2. \A r \in Resources : Counts(q)[r] = Counts(p)[r] + Counts(o)[r]
  BY DEF Counts
<1>3. WorthOf(Counts(q)) = WorthOf(Counts(p)) + WorthOf(Counts(o))
  BY <1>1, <1>2, WorthPlus
<1>4. WorthOf(Counts(p)) \in Int /\ WorthOf(Counts(q)) \in Int /\ WorthOf(Counts(o)) \in Int
  BY <1>1, WorthType
<1> QED
  BY <1>3, <1>4

\* An empty belt is passed over.
LEMMA SkipMoves ==
    ASSUME GoodsInv, NEW i, SkipEmptyBelt(i)
    PROVE  GoodsMove
  BY StillMoves DEF SkipEmptyBelt, Carries

\* Holding items back keeps their number.
LEMMA HeldCounts ==
    ASSUME NEW u \in Seq(Items), NEW d \in Seq(Loads), NEW r
    PROVE  CountOf(u \o Held(d), r) = CountOf(u, r) + CountOf(d, r)
<1>1. BeltSpeed \in Nat \ {0}
  BY FactoryAssumption
<1>2. Held(d) \in Seq(Items) /\ Alike(Held(d), d)
  BY <1>1, HeldItems
<1>3. CountOf(Held(d), r) = CountOf(d, r)
  BY <1>2, AlikeServes
<1>4. CountOf(u \o Held(d), r) = CountOf(u, r) + CountOf(Held(d), r)
  BY <1>2, CountConcat
<1> QED
  BY <1>3, <1>4

\* What a belt keeps: the items that are under way, and d at its end.
LEMMA KeptOnBelt ==
    ASSUME GoodsInv, NEW i, Carries(i), NEW q, q = ent[i].belt,
           NEW d \in Seq(Loads), Distinct(d), ComesFrom(d, Completed(q)),
           Len(d) <= Len(Completed(q)), NEW b, b = Staying(q) \o Held(d)
    PROVE  b \in Seq(Items) /\ Distinct(b) /\ ComesFrom(b, q) /\ Len(b) <= MaxBelt
<1> DEFINE stay == Staying(q)
           done == Completed(q)
           h == Held(d)
<1>1. /\ BeltSpeed \in Nat \ {0} /\ MaxBelt \in Nat /\ q \in Seq(Items) /\ Len(q) <= MaxBelt
      /\ stay \in Seq(Items) /\ done \in Seq(Loads) /\ Len(stay) + Len(done) = Len(q)
      /\ Distinct(stay) /\ Apart(stay, done) /\ ComesFrom(stay, q) /\ ComesFrom(done, q)
      /\ Len(stay) \in Nat /\ Len(done) \in Nat
  BY BeltGoods
<1>2. h \in Seq(Items) /\ Alike(h, d)
  BY <1>1, HeldItems
<1>3. b = stay \o h
  OBVIOUS
<1> HIDE DEF stay, done, h
<1>4. Distinct(h) /\ ComesFrom(h, d) /\ Len(h) = Len(d) /\ \A r : CountOf(h, r) = CountOf(d, r)
  BY <1>2, AlikeServes DEF Alike
<1>5. ComesFrom(h, done) /\ ComesFrom(h, q)
  <2>1. ComesFrom(d, done)
    BY DEF done
  <2>2. \A x, y, z : ComesFrom(x, y) /\ ComesFrom(y, z) => ComesFrom(x, z)
    BY DEF ComesFrom
  <2> QED
    BY <1>1, <1>4, <2>1, <2>2
<1>6. Apart(stay, h)
  BY <1>1, <1>5, ApartSwaps, ApartKept
<1>7. /\ b \in Seq(Items) /\ Len(b) = Len(stay) + Len(h)
      /\ Distinct(b) /\ ComesFrom(b, q)
  <2>1. stay \in Seq(Items) /\ h \in Seq(Items) /\ Distinct(stay) /\ ComesFrom(stay, q)
    BY <1>1, <1>2
  <2>2. stay \o h \in Seq(Items) /\ Len(stay \o h) = Len(stay) + Len(h)
    BY <2>1, Joined
  <2>3. Distinct(stay \o h)
    BY <1>4, <1>6, <2>1, Joined
  <2>4. ComesFrom(stay \o h, q)
    BY <1>5, <2>1, Joined
  <2> QED
    BY <1>3, <2>2, <2>3, <2>4
<1>9. Len(d) \in Nat /\ Len(d) <= Len(done)
  BY LenProperties DEF done
<1>10. Len(b) <= MaxBelt
  BY <1>1, <1>4, <1>7, <1>9, LenProperties
<1> QED
  BY <1>7, <1>10

\* The end of the belt leads nowhere.
LEMMA HeldMoves ==
    ASSUME GoodsInv, NEW i, Carries(i), NEW q, q = ent[i].belt,
           ent' = WithBelt(ent, i, Staying(q) \o Held(Completed(q))), UNCHANGED bank
    PROVE  GoodsMove
<1> DEFINE b == Staying(q) \o Held(Completed(q))
<1>1. /\ i \in DOMAIN ent /\ ent[i].kind \in Belts /\ Sound(ent, nextItemID) /\ q \in Seq(Items)
      /\ UNCHANGED <<deposit, nextItemID>>
      /\ Completed(q) \in Seq(Loads) /\ Distinct(Completed(q)) /\ Len(Completed(q)) \in Nat
      /\ \A r : CountOf(Staying(q), r) + CountOf(Completed(q), r) = CountOf(q, r)
  BY BeltGoods
<1>2. ComesFrom(Completed(q), Completed(q)) /\ Len(Completed(q)) <= Len(Completed(q))
  BY <1>1, StaysRefl
<1>3. b \in Seq(Items) /\ Distinct(b) /\ ComesFrom(b, q) /\ Len(b) <= MaxBelt
  BY <1>1, <1>2, KeptOnBelt
<1>4. ent' = WithBelt(ent, i, b)
  OBVIOUS
<1>10. ASSUME NEW r
       PROVE  CountOf(b, r) = CountOf(q, r)
  <2>1. Staying(q) \in Seq(Items)
    BY BeltGoods
  <2>2. CountOf(b, r) = CountOf(Staying(q), r) + CountOf(Completed(q), r)
    BY <1>1, <2>1, HeldCounts
  <2> QED
    BY <1>1, <2>2
<1> HIDE DEF b
<1>5. Counts(b) = Counts(q)
  BY <1>10 DEF Counts
<1>6. ComesFrom(b, ent[i].belt)
  BY <1>3
<1>7. Sound(ent', nextItemID) /\ Kept(ent, ent') /\ Stays(ent, ent')
  BY <1>1, <1>3, <1>4, <1>6, BeltOne
<1>8. Stuff(ent') = Stuff(ent) + (WorthOf(Counts(b)) - WorthOf(Counts(q)))
      /\ WorthOf(Counts(b)) \in Int /\ Stuff(ent) \in Int
  BY <1>1, <1>3, <1>4, <1>6, BeltOne
<1>9. Stuff(ent') = Stuff(ent)
  BY <1>5, <1>8
<1> QED
  BY <1>1, <1>7, <1>9, RestingMoves

\* The items at the end of the belt leave it.
LEMMA LeavingGoods ==
    ASSUME GoodsInv, NEW i, Carries(i), NEW q, q = ent[i].belt,
           NEW E, E = WithBelt(ent, i, Staying(q))
    PROVE  /\ Sound(E, nextItemID) /\ Kept(ent, E) /\ Stays(ent, E)
           /\ \A k \in DOMAIN ent \ {i} : E[k] = ent[k]
           /\ Stuff(E) + WorthOf(Counts(Completed(q))) = Stuff(ent)
           /\ WorthOf(Counts(Completed(q))) \in Int /\ Stuff(E) \in Int
           /\ Counts(Completed(q)) \in [Resources -> Nat]
           /\ Counts(Completed(q)) \in [Resources -> Int]
<1> DEFINE b == Staying(q)
           d == Completed(q)
<1>1. /\ i \in DOMAIN ent /\ ent[i].kind \in Belts /\ Sound(ent, nextItemID) /\ q \in Seq(Items)
      /\ b \in Seq(Items) /\ d \in Seq(Loads) /\ Len(b) + Len(d) = Len(q) /\ Len(q) <= MaxBelt
      /\ MaxBelt \in Nat /\ Len(b) \in Nat /\ Len(d) \in Nat
      /\ Distinct(b) /\ ComesFrom(b, q)
  BY BeltGoods
<1>2. \A r \in Resources : CountOf(b, r) + CountOf(d, r) = CountOf(q, r)
  BY BeltGoods
<1>3. E = WithBelt(ent, i, b) /\ ComesFrom(b, ent[i].belt) /\ ent[i].belt = q
  BY <1>1
<1> HIDE DEF b, d
<1>4. Len(b) <= MaxBelt
  BY <1>1, LenProperties
<1>5. Sound(E, nextItemID) /\ Kept(ent, E) /\ Stays(ent, E)
  BY <1>1, <1>3, <1>4, BeltOne
<1>6. \A k \in DOMAIN ent \ {i} : E[k] = ent[k]
  BY <1>1, <1>3, <1>4, BeltOne
<1>7. Stuff(E) = Stuff(ent) + (WorthOf(Counts(b)) - WorthOf(Counts(ent[i].belt))) /\ Stuff(ent) \in Int
  BY <1>1, <1>3, <1>4, BeltOne
<1>8. /\ WorthOf(Counts(q)) = WorthOf(Counts(b)) + WorthOf(Counts(d))
      /\ WorthOf(Counts(b)) \in Int /\ WorthOf(Counts(q)) \in Int /\ WorthOf(Counts(d)) \in Int
  BY <1>1, <1>2, WorthOfParts
<1>9. Stuff(E) + WorthOf(Counts(d)) = Stuff(ent) /\ Stuff(E) \in Int
  BY <1>3, <1>7, <1>8
<1>10. Counts(d) \in [Resources -> Nat] /\ Counts(d) \in [Resources -> Int]
  BY <1>1, CountsType
<1> QED
  BY <1>5, <1>6, <1>8, <1>9, <1>10 DEF d

\* A hub puts them in its owner's bank.
LEMMA DeliveryMoves ==
    ASSUME GoodsInv, NEW i, Carries(i), NEW q, q = ent[i].belt, NEW j \in DOMAIN ent,
           ent' = WithBelt(ent, i, Staying(q)),
           bank' = [bank EXCEPT ![ent[j].owner] = [r \in Resources |-> @[r] + CountOf(Completed(q), r)]]
    PROVE  GoodsMove
<1> DEFINE p == ent[j].owner
           d == Completed(q)
           a == [r \in Resources |-> bank[p][r] + CountOf(d, r)]
<1>1. UNCHANGED <<deposit, nextItemID>>
  BY DEF Carries
<1>2. /\ Sound(ent', nextItemID) /\ Kept(ent, ent') /\ Stays(ent, ent')
      /\ Stuff(ent') + WorthOf(Counts(d)) = Stuff(ent)
      /\ WorthOf(Counts(d)) \in Int /\ Stuff(ent') \in Int
      /\ Counts(d) \in [Resources -> Nat] /\ Counts(d) \in [Resources -> Int]
  BY LeavingGoods
<1>3. p \in Players /\ bank \in Funds /\ game \in Games /\ bank[p] \in [Resources -> Int]
  <2>1. Sound(ent, nextItemID) /\ bank \in Funds /\ game \in Games
    BY DEF GoodsInv, Goods, FactoryInv
  <2>2. ent[j] \in Entities
    BY <2>1 DEF Sound, Fine
  <2>3. p \in Players
    BY <2>2, EntityFields
  <2> QED
    BY <2>1, <2>3 DEF Funds
<1>4. bank' = [bank EXCEPT ![p] = a]
  OBVIOUS
<1>5. a = [r \in Resources |-> bank[p][r] + Counts(d)[r]]
  BY DEF Counts
<1> HIDE DEF p, d, a
<1>6. a \in [Resources -> Int] /\ \A r \in Resources : a[r] = bank[p][r] + Counts(d)[r]
  BY <1>2, <1>3, <1>5
<1>7. WorthOf(a) = WorthOf(bank[p]) + WorthOf(Counts(d))
  BY <1>2, <1>3, <1>6, WorthPlus
<1>8. bank' \in Funds
  BY <1>3, <1>4, <1>6, BankedOne
<1>9. /\ Banked(bank') = Banked(bank) + (WorthOf(a) - WorthOf(bank[p]))
      /\ Banked(bank) \in Int /\ WorthOf(a) \in Int /\ WorthOf(bank[p]) \in Int
  <2>1. a \in [Resources -> Int]
    BY <1>6
  <2>2. Banked(bank') = Banked(bank) + (WorthOf(a) - WorthOf(bank[p]))
    BY <1>3, <1>4, <2>1, BankedOne
  <2>3. Banked(bank) \in Int /\ WorthOf(a) \in Int /\ WorthOf(bank[p]) \in Int
    BY <1>3, <2>1, BankedType, WorthType
  <2> QED
    BY <2>2, <2>3
<1>10. Flows(ent, nextItemID, ent', nextItemID)
  BY <1>2, StaysFlows
<1>11. Ground(deposit') + Banked(bank') + Stuff(ent') = Ground(deposit) + Banked(bank) + Stuff(ent)
  <2>1. Ground(deposit') = Ground(deposit) /\ Ground(deposit) \in Int
    BY <1>1, NumbersOfGoods
  <2>2. Stuff(ent') + WorthOf(Counts(d)) = Stuff(ent) /\ WorthOf(Counts(d)) \in Int /\ Stuff(ent') \in Int
    BY <1>2
  <2> QED
    BY <1>7, <1>9, <2>1, <2>2
<1>12. nextItemID \in Nat
  BY NumbersOfGoods
<1> QED
  BY <1>1, <1>2, <1>8, <1>10, <1>11, <1>12 DEF GoodsMove

\* A machine takes them all.
LEMMA FeedingMoves ==
    ASSUME GoodsInv, NEW i, Carries(i), NEW q, q = ent[i].belt, NEW j \in DOMAIN ent, i # j,
           NEW s, s = [r \in Resources |-> ent[j].stock[r] + CountOf(Completed(q), r)],
           ent' = WithStock(WithBelt(ent, i, Staying(q)), j, s), UNCHANGED bank
    PROVE  GoodsMove
<1> DEFINE d == Completed(q)
           E == WithBelt(ent, i, Staying(q))
<1>1. UNCHANGED <<deposit, nextItemID>>
  BY DEF Carries
<1>2. /\ Sound(E, nextItemID) /\ Kept(ent, E) /\ Stays(ent, E)
      /\ \A k \in DOMAIN ent \ {i} : E[k] = ent[k]
      /\ Stuff(E) + WorthOf(Counts(d)) = Stuff(ent)
      /\ WorthOf(Counts(d)) \in Int /\ Stuff(E) \in Int
      /\ Counts(d) \in [Resources -> Nat] /\ Counts(d) \in [Resources -> Int]
  BY LeavingGoods
<1>3. ent' = WithStock(E, j, s)
  OBVIOUS
<1>4. s = [r \in Resources |-> ent[j].stock[r] + Counts(d)[r]]
  BY DEF Counts
<1> HIDE DEF d, E
<1>5. j \in DOMAIN E /\ E[j] = ent[j]
  BY <1>2 DEF Kept
<1>6. E[j].stock \in [Resources -> Nat] /\ E[j].stock \in [Resources -> Int]
  BY <1>2, <1>5, FineEntity DEF Sound
<1>7. /\ s \in [Resources -> Nat] /\ s \in [Resources -> Int]
      /\ \A r \in Resources : s[r] = E[j].stock[r] + Counts(d)[r]
  <2>1. \A r \in Resources : ent[j].stock[r] \in Nat /\ Counts(d)[r] \in Nat
    BY <1>2, <1>5, <1>6
  <2> QED
    BY <1>4, <1>5, <2>1
<1>8. WorthOf(s) = WorthOf(E[j].stock) + WorthOf(Counts(d))
  <2>1. \A r \in Resources : s[r] = E[j].stock[r] + Counts(d)[r]
    BY <1>7
  <2>2. s \in [Resources -> Int] /\ Counts(d) \in [Resources -> Int]
    BY <1>2, <1>7
  <2> QED
    BY <1>6, <2>1, <2>2, WorthPlus
<1>9. Sound(ent', nextItemID) /\ Kept(E, ent') /\ Stays(E, ent')
  BY <1>2, <1>3, <1>5, <1>7, StockOne
<1>10. /\ Stuff(ent') = Stuff(E) + (WorthOf(s) - WorthOf(E[j].stock))
       /\ WorthOf(s) \in Int /\ WorthOf(E[j].stock) \in Int
  BY <1>2, <1>3, <1>5, <1>7, StockOne
<1>11. Stuff(ent') = Stuff(ent)
  <2>1. Stuff(E) + WorthOf(Counts(d)) = Stuff(ent) /\ WorthOf(Counts(d)) \in Int /\ Stuff(E) \in Int
    BY <1>2
  <2> QED
    BY <1>8, <1>10, <2>1
<1>12. Kept(ent, ent') /\ Stays(ent, ent')
  BY <1>2, <1>9, StaysThenStays
<1> QED
  BY <1>1, <1>9, <1>11, <1>12, RestingMoves

\* A belt with other items.
LEMMA Loaded ==
    ASSUME NEW e, NEW n, Fine(e, n), e.kind \in Belts, NEW b \in Seq(Items), Len(b) <= MaxBelt,
           Distinct(b), \A m \in 1..Len(b) : b[m].id <= n, NEW f, f = [e EXCEPT !.belt = b]
    PROVE  /\ Fine(f, n) /\ SameBuilding(f, e) /\ f.belt = b
           /\ Contents(f) - Contents(e) = WorthOf(Counts(b)) - WorthOf(Counts(e.belt))
           /\ Contents(f) \in Int /\ Contents(e) \in Int
<1>1. f \in Entities /\ SameBuilding(f, e) /\ f.stock = e.stock /\ f.belt = b
  BY BeltSet DEF Fine
<1>2. Fine(f, n)
  BY <1>1 DEF Fine, SameBuilding
<1>3. /\ Contents(f) = WorthOf(e.stock) + WorthOf(Counts(b))
      /\ WorthOf(e.stock) \in Int /\ WorthOf(Counts(b)) \in Int
  BY <1>1, <1>2, FineEntity
<1>4. /\ Contents(e) = WorthOf(e.stock) + WorthOf(Counts(e.belt))
      /\ WorthOf(Counts(e.belt)) \in Int
  BY FineEntity
<1>5. Contents(f) - Contents(e) = WorthOf(Counts(b)) - WorthOf(Counts(e.belt))
      /\ Contents(f) \in Int /\ Contents(e) \in Int
  BY <1>3, <1>4
<1> QED
  BY <1>1, <1>2, <1>5

\* The items a belt takes over, and those it then has.
LEMMA TakenOver ==
    ASSUME BeltSpeed \in Nat \ {0}, NEW o \in Seq(Items), Distinct(o),
           NEW u \in Seq(Loads), Distinct(u), Apart(u, o),
           \A k \in 1..Len(u) : u[k].progress \in BeltSpeed..(BeltSpeed + 1),
           NEW b, b = o \o Entering(u)
    PROVE  /\ b \in Seq(Items) /\ Distinct(b) /\ Len(b) = Len(o) + Len(u)
           /\ ComesFromOne(b, o, u)
<1> DEFINE e == Entering(u)
<1>1. e \in Seq(Items) /\ Alike(e, u)
  BY EnteringItems
<1>2. b = o \o e
  OBVIOUS
<1> HIDE DEF e
<1>3. Distinct(e) /\ Apart(e, o) /\ ComesFrom(e, u) /\ Len(e) = Len(u)
  BY <1>1, AlikeServes DEF Alike
<1>6. Apart(o, e)
  BY <1>3, ApartSwaps
<1>7. b \in Seq(Items) /\ Len(b) = Len(o) + Len(e)
  BY <1>1, <1>2, Joined
<1>8. Distinct(b)
  BY <1>1, <1>2, <1>3, <1>6, Joined
<1>11. ASSUME NEW m \in 1..Len(b)
       PROVE  \/ \E l \in 1..Len(o) : b[m].id = o[l].id /\ b[m].res = o[l].res
              \/ \E l \in 1..Len(u) : b[m].id = u[l].id /\ b[m].res = u[l].res
  <2>1. \/ m \in 1..Len(o) /\ b[m] = o[m]
        \/ m - Len(o) \in 1..Len(e) /\ b[m] = e[m - Len(o)]
    BY <1>1, <1>2, Joined
  <2>2. \A l \in 1..Len(e) : \E k \in 1..Len(u) : e[l].id = u[k].id /\ e[l].res = u[k].res
    BY <1>3 DEF ComesFrom
  <2>3. CASE m \in 1..Len(o) /\ b[m] = o[m]
    BY <2>3
  <2>4. CASE m - Len(o) \in 1..Len(e) /\ b[m] = e[m - Len(o)]
    BY <2>2, <2>4
  <2> QED
    BY <2>1, <2>3, <2>4
<1> QED
  BY <1>3, <1>7, <1>8, <1>11 DEF ComesFromOne

\* Taking items in keeps their number.
LEMMA TakenCounts ==
    ASSUME BeltSpeed \in Nat \ {0}, NEW o \in Seq(Items), NEW u \in Seq(Loads),
           \A k \in 1..Len(u) : u[k].progress \in BeltSpeed..(BeltSpeed + 1), NEW r
    PROVE  CountOf(o, r) + CountOf(u, r) = CountOf(o \o Entering(u), r)
<1>1. Entering(u) \in Seq(Items) /\ Alike(Entering(u), u)
  BY EnteringItems
<1>2. CountOf(Entering(u), r) = CountOf(u, r)
  BY <1>1, AlikeServes
<1>3. CountOf(o \o Entering(u), r) = CountOf(o, r) + CountOf(Entering(u), r)
  BY <1>1, CountConcat
<1> QED
  BY <1>2, <1>3

\* A belt apart from what is there and from what comes is apart from both together.
LEMMA TakenApart ==
    ASSUME BeltSpeed \in Nat \ {0}, NEW o \in Seq(Items), NEW u \in Seq(Loads),
           \A k \in 1..Len(u) : u[k].progress \in BeltSpeed..(BeltSpeed + 1),
           NEW p, Apart(p, o), Apart(p, u)
    PROVE  Apart(p, o \o Entering(u))
<1>1. Entering(u) \in Seq(Items) /\ Alike(Entering(u), u)
  BY EnteringItems
<1>2. Apart(p, Entering(u))
  BY <1>1, AlikeServes
<1> QED
  BY <1>1, <1>2, Joined

\* Items that come from one of two belts, of which the second is part of a third.
LEMMA ComesOnFromOne ==
    ASSUME NEW p, NEW q, NEW o, NEW w, ComesFromOne(p, q, o), ComesFrom(o, w)
    PROVE  ComesFromOne(p, q, w)
<1> SUFFICES ASSUME NEW m \in 1..Len(p)
             PROVE  \/ \E l \in 1..Len(q) : p[m].id = q[l].id /\ p[m].res = q[l].res
                    \/ \E l \in 1..Len(w) : p[m].id = w[l].id /\ p[m].res = w[l].res
  BY DEF ComesFromOne
<1>1. CASE \E l \in 1..Len(q) : p[m].id = q[l].id /\ p[m].res = q[l].res
  BY <1>1
<1>2. CASE \E l \in 1..Len(o) : p[m].id = o[l].id /\ p[m].res = o[l].res
  BY <1>2 DEF ComesFrom
<1> QED
  BY <1>1, <1>2 DEF ComesFromOne

\* How many items there is room for.
LEMMA PassingBounds ==
    ASSUME NEW i, NEW j, NEW c, Len(c) \in Nat, Len(ent[j].belt) \in Nat, MaxBelt \in Nat,
           Len(ent[j].belt) <= MaxBelt, NEW n, n = Passing(i, j, c)
    PROVE  n \in 0..Len(c) /\ Len(ent[j].belt) + n <= MaxBelt
<1> DEFINE k == Len(ent[j].belt)
           m == Len(c)
           shut == ~CornerAcceptsFrom(ent[i], ent[j]) \/ MaxBelt - k < 0
<1>1. k \in Nat /\ m \in Nat /\ k <= MaxBelt
  OBVIOUS
<1>2. n = IF shut THEN 0 ELSE IF MaxBelt - k < m THEN MaxBelt - k ELSE m
  BY Zenon DEF Passing
<1> HIDE DEF k, m, shut
<1>3. n \in 0..m /\ k + n <= MaxBelt
  BY <1>1, <1>2
<1> QED
  BY <1>3 DEF k, m

\* A belt takes as many as it has room for; the others wait.
LEMMA PassedMoves ==
    ASSUME GoodsInv, NEW i, Carries(i), NEW q, q = ent[i].belt, NEW j \in DOMAIN ent, i # j,
           ent[j].at = Ahead(ent[i]), ent[j].kind \in Belts,
           NEW c, c = Completed(q), NEW n, n = Passing(i, j, c),
           ent' = WithBelts(ent, i, Staying(q) \o Held(SubSeq(c, n + 1, Len(c))),
                            j, ent[j].belt \o Entering(SubSeq(c, 1, n))),
           UNCHANGED bank
    PROVE  GoodsMove
<1> DEFINE o == ent[j].belt
           u == SubSeq(c, 1, n)
           v == SubSeq(c, n + 1, Len(c))
           b == Staying(q) \o Held(v)
           d == o \o Entering(u)
           e == [ent[i] EXCEPT !.belt = b]
           f == [ent[j] EXCEPT !.belt = d]
<1>1. /\ i \in DOMAIN ent /\ ent[i].kind \in Belts
      /\ Sound(ent, nextItemID) /\ UNCHANGED <<deposit, nextItemID>>
      /\ BeltSpeed \in Nat \ {0} /\ MaxBelt \in Nat /\ q \in Seq(Items)
      /\ Staying(q) \in Seq(Items) /\ c \in Seq(Loads) /\ Len(c) \in Nat /\ Distinct(c)
      /\ Apart(Staying(q), c) /\ ComesFrom(c, q)
      /\ \A k \in 1..Len(c) : c[k].progress \in BeltSpeed..(BeltSpeed + 1)
  BY BeltGoods
<1>2. \A r \in Resources : CountOf(Staying(q), r) + CountOf(c, r) = CountOf(q, r)
  BY BeltGoods
<1>3. /\ Fine(ent[i], nextItemID) /\ Fine(ent[j], nextItemID) /\ Apart(q, o)
      /\ o \in Seq(Items) /\ Distinct(o) /\ Len(o) <= MaxBelt /\ Len(o) \in Nat
  <2>1. Fine(ent[i], nextItemID) /\ Fine(ent[j], nextItemID) /\ Apart(q, o)
    BY <1>1 DEF Sound
  <2>2. o \in Seq(Items) /\ Len(o) \in Nat
    BY <2>1, FineEntity, LenProperties
  <2> QED
    BY <2>1, <2>2 DEF Fine
<1>4. n \in 0..Len(c) /\ Len(o) + n <= MaxBelt
  BY <1>1, <1>3, PassingBounds
<1>5. /\ u \in Seq(Loads) /\ v \in Seq(Loads) /\ Len(u) = n /\ Len(v) = Len(c) - n
      /\ \A k \in 1..Len(u) : k \in 1..Len(c) /\ u[k] = c[k]
      /\ Distinct(u) /\ Distinct(v) /\ Apart(u, v) /\ ComesFrom(u, c) /\ ComesFrom(v, c)
      /\ \A r : CountOf(c, r) = CountOf(u, r) + CountOf(v, r)
  BY <1>1, <1>4, Cut
<1>6. ent' = [ent EXCEPT ![i] = e, ![j] = f]
  BY DEF WithBelts
<1>7. ent[j].belt = o
  OBVIOUS
<1> HIDE DEF o, u, v, b, d, e, f
<1>8. ComesFrom(u, q) /\ Apart(u, o)
  <2>1. \A x, y, z : ComesFrom(x, y) /\ ComesFrom(y, z) => ComesFrom(x, z)
    BY DEF ComesFrom
  <2>2. ComesFrom(u, q)
    BY <1>1, <1>5, <2>1
  <2> QED
    BY <1>3, <2>2, ApartKept
<1>9. b \in Seq(Items) /\ Distinct(b) /\ ComesFrom(b, q) /\ Len(b) <= MaxBelt
  <2>1. Len(v) <= Len(Completed(q)) /\ ComesFrom(v, Completed(q))
    BY <1>1, <1>4, <1>5
  <2>2. b = Staying(q) \o Held(v)
    BY DEF b
  <2> QED
    BY <1>5, <2>1, <2>2, KeptOnBelt
<1>10. d = o \o Entering(u)
  BY DEF d
<1>11. \A k \in 1..Len(u) : u[k].progress \in BeltSpeed..(BeltSpeed + 1)
  BY <1>1, <1>5
<1>12. d \in Seq(Items) /\ Distinct(d) /\ Len(d) = Len(o) + Len(u) /\ ComesFromOne(d, o, u)
  <2>1. /\ BeltSpeed \in Nat \ {0} /\ o \in Seq(Items) /\ Distinct(o)
        /\ u \in Seq(Loads) /\ Distinct(u) /\ Apart(u, o)
    BY <1>1, <1>3, <1>5, <1>8
  <2> QED
    BY <2>1, <1>10, <1>11, TakenOver
<1>13. ASSUME NEW r
       PROVE  CountOf(o, r) + CountOf(u, r) = CountOf(d, r)
  BY <1>1, <1>3, <1>5, <1>10, <1>11, TakenCounts
<1>14. Apart(b, d)
  <2>1. Apart(b, o)
    BY <1>3, <1>9, ApartKept
  <2>2. Apart(Staying(q), u)
    <3>1. Apart(c, Staying(q))
      BY <1>1, ApartSwaps
    <3>2. Apart(u, Staying(q))
      BY <1>5, <3>1, ApartKept
    <3> QED
      BY <3>2, ApartSwaps
  <2>3. Apart(Held(v), u) /\ Held(v) \in Seq(Items)
    <3>1. Held(v) \in Seq(Items) /\ Alike(Held(v), v)
      BY <1>1, <1>5, HeldItems
    <3>2. Apart(v, u)
      BY <1>5, ApartSwaps
    <3> QED
      BY <3>1, <3>2, AlikeServes
  <2>4. Apart(b, u)
    <3>1. Apart(Staying(q) \o Held(v), u)
      BY <1>1, <2>2, <2>3, Joined
    <3> QED
      BY <3>1 DEF b
  <2> QED
    BY <1>1, <1>3, <1>5, <1>10, <1>11, <2>1, <2>4, TakenApart
<1>15. ComesFromOne(d, o, q)
  BY <1>8, <1>12, ComesOnFromOne
<1>16. /\ \A m \in 1..Len(q) : q[m].id <= nextItemID
       /\ \A m \in 1..Len(o) : o[m].id <= nextItemID
  BY <1>3, <1>7 DEF Fine
<1>17. \A m \in 1..Len(b) : b[m].id <= nextItemID
  BY <1>9, <1>16 DEF ComesFrom
<1>18. \A m \in 1..Len(d) : d[m].id <= nextItemID
  BY <1>15, <1>16 DEF ComesFromOne
<1>19. /\ Fine(e, nextItemID) /\ SameBuilding(e, ent[i]) /\ e.belt = b
       /\ Contents(e) - Contents(ent[i]) = WorthOf(Counts(b)) - WorthOf(Counts(q))
       /\ Contents(e) \in Int /\ Contents(ent[i]) \in Int
  <2>1. e = [ent[i] EXCEPT !.belt = b] /\ ent[i].belt = q
    BY DEF e
  <2>3. /\ Fine(ent[i], nextItemID) /\ ent[i].kind \in Belts /\ b \in Seq(Items)
        /\ Len(b) <= MaxBelt /\ Distinct(b) /\ \A m \in 1..Len(b) : b[m].id <= nextItemID
    BY <1>1, <1>3, <1>9, <1>17, <2>1
  <2>4. Fine(e, nextItemID)
    BY <2>1, <2>3, Loaded
  <2>7. SameBuilding(e, ent[i]) /\ e.belt = b
    BY <2>1, <2>3, Loaded
  <2>5. Contents(e) - Contents(ent[i]) = WorthOf(Counts(b)) - WorthOf(Counts(ent[i].belt))
    BY <2>1, <2>3, Loaded
  <2>6. Contents(e) \in Int /\ Contents(ent[i]) \in Int
    BY <2>3, <2>4, ContentsType DEF Fine
  <2> QED
    BY <1>7, <2>1, <2>4, <2>5, <2>6, <2>7
<1>20. /\ Fine(f, nextItemID) /\ SameBuilding(f, ent[j]) /\ f.belt = d
       /\ Contents(f) - Contents(ent[j]) = WorthOf(Counts(d)) - WorthOf(Counts(o))
       /\ Contents(f) \in Int /\ Contents(ent[j]) \in Int
  <2>1. f = [ent[j] EXCEPT !.belt = d]
    BY DEF f
  <2>2. Len(d) <= MaxBelt
    BY <1>4, <1>5, <1>12
  <2>3. /\ Fine(ent[j], nextItemID) /\ ent[j].kind \in Belts /\ d \in Seq(Items)
        /\ Len(d) <= MaxBelt /\ Distinct(d) /\ \A m \in 1..Len(d) : d[m].id <= nextItemID
    BY <1>3, <1>7, <1>12, <1>18, <2>1, <2>2
  <2>4. Fine(f, nextItemID)
    BY <2>1, <2>3, Loaded
  <2>7. SameBuilding(f, ent[j]) /\ f.belt = d
    BY <2>1, <2>3, Loaded
  <2>5. Contents(f) - Contents(ent[j]) = WorthOf(Counts(d)) - WorthOf(Counts(ent[j].belt))
    BY <2>1, <2>3, Loaded
  <2>6. Contents(f) \in Int /\ Contents(ent[j]) \in Int
    BY <2>3, <2>4, ContentsType DEF Fine
  <2> QED
    BY <1>7, <2>1, <2>4, <2>5, <2>6, <2>7
<1>21. /\ ent' = [k \in DOMAIN ent |-> ent'[k]] /\ ent'[i] = e /\ ent'[j] = f
       /\ \A k \in DOMAIN ent \ {i, j} : ent'[k] = ent[k]
  <2>1. ent = [k \in DOMAIN ent |-> ent[k]]
    BY <1>1 DEF Sound
  <2>2. ent' = [k \in DOMAIN ent |-> IF k = j THEN f ELSE IF k = i THEN e ELSE ent[k]]
    BY <1>1, <1>6, <2>1
  <2> QED
    BY <1>1, <2>2
<1>22. Alters(ent, ent', {i, j})
  BY <1>21 DEF Alters
<1>23. /\ Fine(ent'[i], nextItemID) /\ Fine(ent'[j], nextItemID)
       /\ SameBuilding(ent'[i], ent[i]) /\ SameBuilding(ent'[j], ent[j])
       /\ ComesFrom(ent'[i].belt, ent[i].belt) /\ Apart(ent'[i].belt, ent'[j].belt)
  BY <1>9, <1>14, <1>19, <1>20, <1>21
<1>24. ComesFromOne(ent'[j].belt, ent[j].belt, ent[i].belt)
  BY <1>7, <1>15, <1>20, <1>21
<1>29. Sound(ent, nextItemID) /\ i \in DOMAIN ent
  BY <1>1
<1>25. Sound(ent', nextItemID) /\ Kept(ent, ent') /\ Flows(ent, nextItemID, ent', nextItemID)
  <2>1. Sound(ent', nextItemID) /\ Kept(ent, ent')
    BY <1>22, <1>23, <1>24, <1>29, TwoSet
  <2>2. ent[j].at = Ahead(ent[i]) => Flows(ent, nextItemID, ent', nextItemID)
    BY <1>22, <1>23, <1>24, <1>29, TwoSet
  <2> QED
    BY <2>1, <2>2
<1>26. Stuff(ent') = Stuff(ent) + (Contents(ent'[i]) - Contents(ent[i]))
                     + (Contents(ent'[j]) - Contents(ent[j]))
  BY <1>22, <1>23, <1>25, <1>29, StuffTwo DEF SameBuilding
<1>27. Stuff(ent') = Stuff(ent)
  <2>1. \A r \in Resources : CountOf(u, r) + CountOf(v, r) = CountOf(c, r)
    BY <1>5
  <2>2. \A r \in Resources : CountOf(Staying(q), r) + CountOf(v, r) = CountOf(b, r)
    BY <1>1, <1>5, HeldCounts DEF b
  <2>3. /\ WorthOf(Counts(q)) = WorthOf(Counts(Staying(q))) + WorthOf(Counts(c))
        /\ WorthOf(Counts(q)) \in Int /\ WorthOf(Counts(Staying(q))) \in Int /\ WorthOf(Counts(c)) \in Int
    BY <1>1, <1>2, WorthOfParts
  <2>4. /\ WorthOf(Counts(c)) = WorthOf(Counts(u)) + WorthOf(Counts(v))
        /\ WorthOf(Counts(u)) \in Int /\ WorthOf(Counts(v)) \in Int
    BY <1>1, <1>5, <2>1, WorthOfParts
  <2>5. WorthOf(Counts(b)) = WorthOf(Counts(Staying(q))) + WorthOf(Counts(v))
    BY <1>1, <1>5, <1>9, <2>2, WorthOfParts
  <2>6. WorthOf(Counts(d)) = WorthOf(Counts(o)) + WorthOf(Counts(u)) /\ WorthOf(Counts(o)) \in Int
    BY <1>3, <1>5, <1>12, <1>13, WorthOfParts
  <2>7. Stuff(ent) \in Int
    BY <1>1, StuffType
  <2>8. /\ Contents(ent'[i]) - Contents(ent[i]) = WorthOf(Counts(b)) - WorthOf(Counts(q))
        /\ Contents(ent'[j]) - Contents(ent[j]) = WorthOf(Counts(d)) - WorthOf(Counts(o))
    BY <1>19, <1>20, <1>21
  <2> QED
    BY <1>26, <2>3, <2>4, <2>5, <2>6, <2>7, <2>8
<1>28. nextItemID \in Nat /\ bank \in Funds /\ Ground(deposit) \in Int /\ Banked(bank) \in Int
  BY NumbersOfGoods DEF GoodsInv, Goods
<1> QED
  BY <1>1, <1>25, <1>27, <1>28 DEF GoodsMove

\* A belt moves its items, hands on what fits and holds the rest back.
LEMMA BeltMoves ==
    ASSUME GoodsInv, NEW i, MoveBelt(i)
    PROVE  GoodsMove
<1> DEFINE q == ent[i].belt
           c == Completed(q)
<1>1. Carries(i)
  BY DEF MoveBelt
<1>2. i \in DOMAIN ent /\ ent[i].kind \in Belts /\ ent[i] \in Entities
  BY <1>1, BeltGoods
<1>3. CASE ent' = WithBelt(ent, i, Staying(q) \o Held(c)) /\ UNCHANGED bank
  BY <1>1, <1>3, HeldMoves
<1>4. ASSUME NEW j \in DOMAIN ent, ent' = WithBelt(ent, i, Staying(q)),
             bank' = [bank EXCEPT ![ent[j].owner] = [r \in Resources |-> @[r] + CountOf(c, r)]]
      PROVE  GoodsMove
  BY <1>1, <1>4, DeliveryMoves
<1>5. ASSUME NEW j \in DOMAIN ent, ent[j].at = Ahead(ent[i]), ent[j].kind \in Belts,
             NEW n, n = Passing(i, j, c),
             ent' = WithBelts(ent, i, Staying(q) \o Held(SubSeq(c, n + 1, Len(c))),
                              j, ent[j].belt \o Entering(SubSeq(c, 1, n))),
             UNCHANGED bank
      PROVE  GoodsMove
  <2>1. i # j
    <3>1. ent[i].at \in Int \X Int /\ ent[i].dir \in Directions
      BY <1>2, FiniteGame, EntityFields DEF GoodsInv, FactoryInv
    <3>2. Ahead(ent[i]) # ent[i].at
      BY <3>1, BesideElsewhere DEF Ahead
    <3> QED
      BY <1>5, <3>2
  <2> QED
    BY <1>1, <1>5, <2>1, PassedMoves
<1>6. ASSUME NEW j \in DOMAIN ent, ent[j].kind \notin Belts,
             ent' = WithStock(WithBelt(ent, i, Staying(q)), j,
                              [r \in Resources |-> ent[j].stock[r] + CountOf(c, r)]),
             UNCHANGED bank
      PROVE  GoodsMove
  <2>1. i # j
    BY <1>2, <1>6
  <2> QED
    BY <1>1, <1>6, <2>1, FeedingMoves
<1>7. \/ ent' = WithBelt(ent, i, Staying(q) \o Held(c)) /\ UNCHANGED bank
      \/ \E j \in DOMAIN ent :
            /\ ent[j].at = Ahead(ent[i])
            /\ \/ /\ ent' = WithBelt(ent, i, Staying(q))
                  /\ bank' = [bank EXCEPT ![ent[j].owner] = [r \in Resources |-> @[r] + CountOf(c, r)]]
               \/ /\ ent[j].kind \in Belts
                  /\ \E n : /\ n = Passing(i, j, c)
                            /\ ent' = WithBelts(ent, i, Staying(q) \o Held(SubSeq(c, n + 1, Len(c))),
                                                j, ent[j].belt \o Entering(SubSeq(c, 1, n)))
                  /\ UNCHANGED bank
               \/ /\ ent[j].kind \notin Belts
                  /\ ent' = [ent EXCEPT ![i].belt = Staying(q),
                                        ![j].stock = [r \in Resources |-> @[r] + CountOf(c, r)]]
                  /\ UNCHANGED bank
  BY DEF MoveBelt, At, WithBelt, WithBelts
<1>8. ASSUME NEW j \in DOMAIN ent, ent[j].kind \notin Belts,
             ent' = [ent EXCEPT ![i].belt = Staying(q),
                                ![j].stock = [r \in Resources |-> @[r] + CountOf(c, r)]]
      PROVE  ent' = WithStock(WithBelt(ent, i, Staying(q)), j,
                              [r \in Resources |-> ent[j].stock[r] + CountOf(c, r)])
  <2>1. i # j
    BY <1>2, <1>8
  <2> QED
    BY <1>2, <1>8, <2>1 DEF WithStock, WithBelt
<1> HIDE DEF q, c
<1> QED
  BY <1>3, <1>4, <1>5, <1>6, <1>7, <1>8

-----------------------------------------------------------------------------
(* The commands *)

\* A building is taken away with what it holds and its price.
LEMMA FewerSound ==
    ASSUME NEW E, NEW n, Sound(E, n), NEW i \in DOMAIN E, NEW F, F = [k \in DOMAIN E \ {i} |-> E[k]]
    PROVE  /\ Sound(F, n)
           /\ Stuff(E) = Stuff(F) + (Contents(E[i]) + Price(E[i]))
           /\ Contents(E[i]) \in Int /\ Price(E[i]) \in Int
<1> DEFINE D == DOMAIN E
           v == [k \in D |-> Contents(E[k]) + Price(E[k])]
           w == [k \in D \ {i} |-> Contents(F[k]) + Price(F[k])]
<1>1. DOMAIN F = D \ {i} /\ F = [k \in DOMAIN F |-> F[k]] /\ \A k \in D \ {i} : F[k] = E[k]
  OBVIOUS
<1>2. IsFiniteSet(D) /\ \A k \in D : E[k] \in Entities
  BY DEF Sound, Fine
<1>3. IsFiniteSet(D \ {i})
  BY <1>2, FS_Subset
<1>4. Sound(F, n)
  BY <1>1, <1>3 DEF Sound
<1>5. \A k \in D : Contents(E[k]) \in Int /\ Price(E[k]) \in Int
  BY <1>2, ContentsType
<1>6. v \in [D -> Int] /\ w \in [D \ {i} -> Int] /\ \A k \in D \ {i} : w[k] = v[k]
  BY <1>1, <1>5
<1>7. Stuff(E) = SumFunction(v) /\ Stuff(F) = SumFunction(w) /\ v[i] = Contents(E[i]) + Price(E[i])
  BY <1>1 DEF Stuff
<1>8. i \in D
  OBVIOUS
<1> HIDE DEF D, v, w
<1>9. SumFunction(v) = SumFunction(w) + v[i]
  <2>1. IsFiniteSet(DOMAIN v) /\ i \in DOMAIN v /\ DOMAIN w = DOMAIN v \ {i}
    BY <1>2, <1>6, <1>8
  <2>2. /\ \A k \in DOMAIN v : v[k] \in Int
        /\ \A k \in DOMAIN w : w[k] = v[k]
    BY <1>6
  <2> QED
    BY <2>1, <2>2, SumLess
<1> QED
  BY <1>4, <1>5, <1>7, <1>8, <1>9

\* A building holds nothing at first.
LEMMA NewGoods ==
    ASSUME NEW o, o.kind \in DOMAIN Buildings, o.at \in Tiles, o.dir \in Directions,
           o.flipped \in BOOLEAN, NEW p \in Players, NEW n, NEW e, e = NewEntity(o, p)
    PROVE  /\ Fine(e, n) /\ e.belt = <<>> /\ \A q : Apart(<<>>, q) /\ Apart(q, <<>>)
           /\ Contents(e) = 0 /\ Price(e) = WorthOf(Buildings[o.kind].cost)
<1>1. e = [kind |-> o.kind, owner |-> p, at |-> o.at, dir |-> o.dir, flipped |-> o.flipped,
           progress |-> 0, stock |-> Empty, belt |-> <<>>]
  BY DEF NewEntity
<1>2. Empty \in [Resources -> Nat] /\ \A r \in Resources : Empty[r] = 0
  BY DEF Empty
<1>3. <<>> \in Seq(Items) /\ Len(<<>>) = 0
  BY EmptySeq
<1>4. e \in Entities
  BY <1>1, <1>2, <1>3 DEF Entities
<1>5. Distinct(<<>>) /\ \A q : Apart(<<>>, q) /\ Apart(q, <<>>)
  BY <1>3 DEF Distinct, Apart
<1>6. Fine(e, n)
  BY <1>1, <1>3, <1>4, <1>5, FactoryAssumption DEF Fine
<1>7. \A r \in Resources : Counts(<<>>)[r] = 0
  <2> SUFFICES ASSUME NEW r \in Resources PROVE CountOf(<<>>, r) = 0
    BY DEF Counts
  <2>1. CountOf(<<>>, r) \in Nat /\ CountOf(<<>>, r) <= Len(<<>>)
    BY <1>3, CountType
  <2> QED
    BY <1>3, <2>1
<1>8. WorthOf(Counts(<<>>)) = 0 /\ WorthOf(Empty) = 0
  BY <1>2, <1>7, WorthEmpty
<1>9. Contents(e) = 0
  <2>1. Contents(e) = WorthOf(e.stock) + WorthOf(Counts(e.belt))
    BY <1>4, ContentsType
  <2> QED
    BY <1>1, <1>8, <2>1
<1>10. Price(e) = WorthOf(Buildings[o.kind].cost)
  BY <1>1 DEF Price
<1> QED
  BY <1>1, <1>5, <1>6, <1>9, <1>10

\* A player pays, or is paid.
LEMMA Payment ==
    ASSUME GoodsInv, NEW p \in Players, NEW c \in [Resources -> Nat]
    PROVE  /\ \A B : B = [bank EXCEPT ![p] = [r \in Resources |-> @[r] - c[r]]] =>
                 B \in Funds /\ Banked(B) = Banked(bank) - WorthOf(c)
           /\ \A B : B = [bank EXCEPT ![p] = [r \in Resources |-> @[r] + c[r]]] =>
                 B \in Funds /\ Banked(B) = Banked(bank) + WorthOf(c)
           /\ WorthOf(c) \in Int
<1> DEFINE a == [r \in Resources |-> bank[p][r] - c[r]]
           b == [r \in Resources |-> bank[p][r] + c[r]]
<1>1. game \in Games /\ bank \in Funds /\ bank[p] \in [Resources -> Int] /\ c \in [Resources -> Int]
  BY DEF GoodsInv, Goods, FactoryInv, Funds
<1>2. \A r \in Resources : bank[p][r] \in Int /\ c[r] \in Int
  BY <1>1
<1>3. a \in [Resources -> Int] /\ b \in [Resources -> Int]
  BY <1>2
<1>4. \A r \in Resources : bank[p][r] = a[r] + c[r]
  BY <1>2
<1>5. \A r \in Resources : b[r] = bank[p][r] + c[r]
  OBVIOUS
<1>6. /\ \A B : B = [bank EXCEPT ![p] = [r \in Resources |-> @[r] - c[r]]] <=> B = [bank EXCEPT ![p] = a]
      /\ \A B : B = [bank EXCEPT ![p] = [r \in Resources |-> @[r] + c[r]]] <=> B = [bank EXCEPT ![p] = b]
  OBVIOUS
<1> HIDE DEF a, b
<1>7. WorthOf(bank[p]) = WorthOf(a) + WorthOf(c) /\ WorthOf(c) \in Int
  BY <1>1, <1>3, <1>4, WorthPlus, WorthType
<1>8. WorthOf(b) = WorthOf(bank[p]) + WorthOf(c)
  BY <1>1, <1>3, <1>5, WorthPlus
<1>9. WorthOf(bank[p]) \in Int /\ WorthOf(a) \in Int /\ WorthOf(b) \in Int /\ Banked(bank) \in Int
  BY <1>1, <1>3, WorthType, BankedType
<1>10. ASSUME NEW B, B = [bank EXCEPT ![p] = a]
       PROVE  B \in Funds /\ Banked(B) = Banked(bank) - WorthOf(c)
  <2>1. B \in Funds
    BY <1>1, <1>3, <1>10, BankedOne
  <2>2. Banked(B) = Banked(bank) + (WorthOf(a) - WorthOf(bank[p]))
    BY <1>1, <1>3, <1>10, BankedOne
  <2> QED
    BY <1>7, <1>9, <2>1, <2>2
<1>11. ASSUME NEW B, B = [bank EXCEPT ![p] = b]
       PROVE  B \in Funds /\ Banked(B) = Banked(bank) + WorthOf(c)
  <2>1. B \in Funds
    BY <1>1, <1>3, <1>11, BankedOne
  <2>2. Banked(B) = Banked(bank) + (WorthOf(b) - WorthOf(bank[p]))
    BY <1>1, <1>3, <1>11, BankedOne
  <2> QED
    BY <1>7, <1>8, <1>9, <2>1, <2>2
<1> QED
  BY <1>6, <1>7, <1>10, <1>11

-----------------------------------------------------------------------------
(* Every step *)

\* Items are followed through a step (the body of ItemsTracked).
Tracked ==
    \A k \in DOMAIN ent' : \A m \in 1..Len(ent'[k].belt) :
        \/ ent'[k].belt[m].id > nextItemID /\ ent'[k].belt[m].id <= nextItemID'
        \/ \E l \in DOMAIN ent : \E c \in 1..Len(ent[l].belt) :
              /\ ent[l].belt[c].id = ent'[k].belt[m].id
              /\ ent[l].belt[c].res = ent'[k].belt[m].res
              /\ k = l \/ ent[k].at = Ahead(ent[l])

Balanced ==
    Ground(deposit') + Banked(bank') + Stuff(ent')
        = Ground(deposit) + Banked(bank) + Stuff(ent) - LostContents

\* What a step leaves behind, and whether it may drop goods.
GoodsStep ==
    /\ Sound(ent', nextItemID') /\ bank' \in Funds
    /\ Tracked
    /\ game.requests \subseteq {"place", "remove"} => Balanced

\* No building goes.
LEMMA NothingLost ==
    ASSUME DOMAIN ent \subseteq DOMAIN ent'
    PROVE  LostContents = 0
<1> DEFINE f == [i \in DOMAIN ent \ DOMAIN ent' |-> Contents(ent[i])]
<1>1. DOMAIN f = {} /\ LostContents = SumFunction(f)
  BY DEF LostContents
<1> HIDE DEF f
<1>2. IsFiniteSet({}) /\ \A x \in {} : f[x] = 0
  BY FS_EmptySet
<1>3. SumFunction(f) = 0
  BY <1>1, <1>2, SumZero
<1> QED
  BY <1>1, <1>3

\* A move is a step that keeps the invariant and the worth.
LEMMA MoveSteps ==
    ASSUME GoodsInv, GoodsMove
    PROVE  GoodsStep
<1>1. LostContents = 0
  BY NothingLost DEF GoodsMove, Kept
<1>2. Tracked
  <2>1. \A k \in DOMAIN ent' : ent'[k].at = ent[k].at
    BY DEF GoodsMove, Kept, SameBuilding
  <2> QED
    BY <2>1 DEF GoodsMove, Flows, Tracked
<1>3. Balanced
  BY <1>1, NumbersOfGoods DEF GoodsMove, Balanced
<1> QED
  BY <1>2, <1>3 DEF GoodsMove, GoodsStep

\* Belts that stay as they are.
LEMMA SameTracked ==
    ASSUME \A k \in DOMAIN ent' : ent'[k].belt = <<>> \/ (k \in DOMAIN ent /\ ent'[k] = ent[k])
    PROVE  Tracked
<1> SUFFICES ASSUME NEW k \in DOMAIN ent', NEW m \in 1..Len(ent'[k].belt)
             PROVE  k \in DOMAIN ent /\ ent'[k] = ent[k]
  BY DEF Tracked
<1>1. CASE ent'[k].belt = <<>>
  <2>1. Len(<<>>) = 0
    OBVIOUS
  <2> QED
    BY <1>1, <2>1
<1> QED
  BY <1>1

\* A building is bought: its price leaves the bank and is worth as much as a building.
LEMMA PlaceSteps ==
    ASSUME GoodsInv, NEW p \in Players, NEW o \in game.offers, PlaceBuilding(p, o)
    PROVE  GoodsStep
<1> DEFINE e == NewEntity(o, p)
           c == Buildings[o.kind].cost
<1>1. o.kind \in DOMAIN Buildings /\ o.at \in Tiles /\ o.dir \in Directions /\ o.flipped \in BOOLEAN
  <2>1. o \in Offers(Tiles)
    BY GamesAssumption DEF GoodsInv, FactoryInv, Tiles
  <2> QED
    BY <2>1 DEF Offers
<1>2. /\ Fine(e, nextItemID) /\ e.belt = <<>>
      /\ Contents(e) = 0 /\ Price(e) = WorthOf(c)
  BY <1>1, NewGoods
<1>3. \A q : Apart(<<>>, q) /\ Apart(q, <<>>)
  BY <1>1, NewGoods
<1>4. /\ ent' = [i \in DOMAIN ent \cup {nextID} |-> IF i = nextID THEN e ELSE ent[i]]
      /\ bank' = [bank EXCEPT ![p] = [r \in Resources |-> @[r] - c[r]]]
      /\ UNCHANGED <<deposit, nextItemID>>
  BY DEF PlaceBuilding, Asked
<1>5. Sound(ent, nextItemID) /\ nextID \notin DOMAIN ent
  <2>1. DOMAIN ent \subseteq 0..(nextID - 1) /\ nextID \in Nat
    BY DEF GoodsInv, FactoryInv, EntitiesKept
  <2> QED
    BY <2>1 DEF GoodsInv, Goods
<1>6. c \in [Resources -> Nat]
  BY <1>1, FactoryAssumption
<1> HIDE DEF e, c
<1>7. /\ DOMAIN ent' = DOMAIN ent \cup {nextID} /\ ent' = [k \in DOMAIN ent' |-> ent'[k]]
      /\ ent'[nextID] = e /\ \A k \in DOMAIN ent : ent'[k] = ent[k]
  BY <1>4, <1>5
<1>8. Sound(ent', nextItemID)
  <2>1. IsFiniteSet(DOMAIN ent')
    BY <1>5, <1>7, FS_AddElement DEF Sound
  <2>2. \A k \in DOMAIN ent' : Fine(ent'[k], nextItemID)
    BY <1>2, <1>5, <1>7 DEF Sound
  <2>3. ASSUME NEW k \in DOMAIN ent', NEW l \in DOMAIN ent', k # l
        PROVE  Apart(ent'[k].belt, ent'[l].belt)
    <3>1. CASE k = nextID \/ l = nextID
      BY <1>2, <1>3, <1>7, <3>1
    <3>2. CASE k # nextID /\ l # nextID
      BY <1>5, <1>7, <2>3, <3>2 DEF Sound
    <3> QED
      BY <3>1, <3>2
  <2> QED
    BY <1>5, <1>7, <2>1, <2>2, <2>3 DEF Sound
<1>9. Stuff(ent') = Stuff(ent) + WorthOf(c)
  <2>1. ent = [k \in DOMAIN ent' \ {nextID} |-> ent'[k]] /\ nextID \in DOMAIN ent'
    <3>1. DOMAIN ent' \ {nextID} = DOMAIN ent
      BY <1>5, <1>7
    <3>2. ent = [k \in DOMAIN ent |-> ent[k]]
      BY <1>5 DEF Sound
    <3> QED
      BY <1>7, <3>1, <3>2
  <2>2. Stuff(ent') = Stuff(ent) + (Contents(ent'[nextID]) + Price(ent'[nextID]))
        /\ Price(ent'[nextID]) \in Int
    BY <1>8, <2>1, FewerSound
  <2> QED
    BY <1>2, <1>7, <2>2
<1>10. bank' \in Funds /\ Banked(bank') = Banked(bank) - WorthOf(c) /\ WorthOf(c) \in Int
  BY <1>4, <1>6, Payment
<1>11. LostContents = 0
  BY <1>7, NothingLost
<1>12. Balanced
  <2>1. Ground(deposit') = Ground(deposit)
    BY <1>4
  <2>2. Ground(deposit) \in Int /\ Banked(bank) \in Int /\ Stuff(ent) \in Int
    BY NumbersOfGoods
  <2> QED
    BY <1>9, <1>10, <1>11, <2>1, <2>2 DEF Balanced
<1>13. Tracked
  <2>1. ASSUME NEW k \in DOMAIN ent'
        PROVE  ent'[k].belt = <<>> \/ (k \in DOMAIN ent /\ ent'[k] = ent[k])
    <3>1. CASE k = nextID
      <4>1. ent'[nextID].belt = <<>>
        BY <1>2, <1>7
      <4> QED
        BY <3>1, <4>1
    <3>2. CASE k \in DOMAIN ent
      BY <1>7, <3>2
    <3> QED
      BY <1>7, <3>1, <3>2
  <2> QED
    BY <2>1, SameTracked
<1>14. nextItemID' = nextItemID
  BY <1>4
<1> QED
  BY <1>8, <1>10, <1>12, <1>13, <1>14 DEF GoodsStep

\* A building is removed: its price is refunded, what it held is lost.
LEMMA RemoveSteps ==
    ASSUME GoodsInv, NEW p \in Players, NEW i \in DOMAIN ent, RemoveBuilding(p, i)
    PROVE  GoodsStep
<1> DEFINE c == Buildings[ent[i].kind].cost
<1>1. /\ ent' = [j \in DOMAIN ent \ {i} |-> ent[j]]
      /\ bank' = [bank EXCEPT ![p] = [r \in Resources |-> @[r] + c[r]]]
      /\ UNCHANGED <<deposit, nextItemID>>
  BY DEF RemoveBuilding, Asked
<1>2. Sound(ent, nextItemID) /\ ent[i] \in Entities
  BY DEF GoodsInv, Goods, Sound, Fine
<1>3. c \in [Resources -> Nat] /\ Price(ent[i]) = WorthOf(c)
  BY <1>2, EntityFields, FactoryAssumption DEF Price
<1>4. Sound(ent', nextItemID)
  BY <1>1, <1>2, FewerSound
<1>5. /\ Stuff(ent) = Stuff(ent') + (Contents(ent[i]) + Price(ent[i]))
      /\ Contents(ent[i]) \in Int /\ Price(ent[i]) \in Int
  BY <1>1, <1>2, FewerSound
<1> HIDE DEF c
<1>6. bank' \in Funds /\ Banked(bank') = Banked(bank) + WorthOf(c) /\ WorthOf(c) \in Int
  BY <1>1, <1>3, Payment
<1>7. LostContents = Contents(ent[i])
  <2> DEFINE f == [k \in DOMAIN ent \ DOMAIN ent' |-> Contents(ent[k])]
             g == [k \in {} |-> 0]
  <2>1. DOMAIN f = {i} /\ f[i] = Contents(ent[i]) /\ LostContents = SumFunction(f)
    <3>1. DOMAIN ent \ DOMAIN ent' = {i}
      BY <1>1
    <3> QED
      BY <3>1 DEF LostContents
  <2>2. DOMAIN g = {} /\ \A x \in DOMAIN g : g[x] = f[x]
    OBVIOUS
  <2> HIDE DEF f, g
  <2>3. SumFunction(g) = 0
    <3>1. IsFiniteSet({}) /\ \A x \in {} : g[x] = 0
      BY FS_EmptySet
    <3> QED
      BY <2>2, <3>1, SumZero
  <2>4. /\ i \in DOMAIN f /\ IsFiniteSet(DOMAIN f) /\ \A x \in DOMAIN f : f[x] \in Int
        /\ DOMAIN g = DOMAIN f \ {i}
    BY <1>5, <2>1, <2>2, FS_Singleton
  <2>5. SumFunction(f) = SumFunction(g) + f[i]
    BY <2>2, <2>4, SumLess
  <2> QED
    BY <1>5, <2>1, <2>3, <2>5
<1>8. Balanced
  <2>1. Ground(deposit') = Ground(deposit)
    BY <1>1
  <2>2. Ground(deposit) \in Int /\ Banked(bank) \in Int /\ Stuff(ent) \in Int
    BY NumbersOfGoods
  <2>3. Stuff(ent') \in Int
    BY <1>4, StuffType
  <2> QED
    BY <1>3, <1>5, <1>6, <1>7, <2>1, <2>2, <2>3 DEF Balanced
<1>9. Tracked
  <2>1. \A k \in DOMAIN ent' : ent'[k].belt = <<>> \/ (k \in DOMAIN ent /\ ent'[k] = ent[k])
    BY <1>1
  <2> QED
    BY <2>1, SameTracked
<1>10. nextItemID' = nextItemID
  BY <1>1
<1> QED
  BY <1>4, <1>6, <1>8, <1>9, <1>10 DEF GoodsStep

\* The commands of a dev server; none of them is asked for in a usual game.
LEMMA DevSteps ==
    ASSUME GoodsInv,
           \/ ClearAllEntities
           \/ Generate
           \/ \E p \in Players, r \in Resources, n \in {-1, 1} : SetResource(p, r, n)
    PROVE  GoodsStep
<1>1. Sound(ent, nextItemID) /\ bank \in Funds
  BY DEF GoodsInv, Goods
<1>2. /\ nextItemID' = nextItemID
      /\ ~(game.requests \subseteq {"place", "remove"})
  BY DEF ClearAllEntities, Generate, SetResource, Asked
<1>3. Sound(ent', nextItemID)
  <2>1. CASE ent' = ent
    BY <1>1, <2>1
  <2>2. CASE ent' = <<>>
    <3>1. DOMAIN ent' = {} /\ ent' = [k \in DOMAIN ent' |-> ent'[k]]
      BY <2>2
    <3> QED
      BY <1>1, <3>1, FS_EmptySet DEF Sound
  <2> QED
    BY <2>1, <2>2 DEF ClearAllEntities, Generate, SetResource
<1>4. bank' \in Funds
  <2>1. CASE bank' = bank
    BY <1>1, <2>1
  <2>2. ASSUME NEW p \in Players, NEW r \in Resources, NEW n \in {-1, 1},
               bank' = [bank EXCEPT ![p][r] = n]
        PROVE  bank' \in Funds
    BY <1>1, <2>2 DEF Funds
  <2> QED
    BY <2>1, <2>2 DEF ClearAllEntities, Generate, SetResource
<1>5. Tracked
  <2>1. \A k \in DOMAIN ent' : ent'[k].belt = <<>> \/ (k \in DOMAIN ent /\ ent'[k] = ent[k])
    <3>1. CASE ent' = ent
      BY <3>1
    <3>2. CASE ent' = <<>>
      BY <3>2
    <3> QED
      BY <3>1, <3>2 DEF ClearAllEntities, Generate, SetResource
  <2> QED
    BY <2>1, SameTracked
<1> QED
  BY <1>2, <1>3, <1>4, <1>5 DEF GoodsStep

\* Every step of the world.
LEMMA NextSteps ==
    ASSUME GoodsInv, [Next]_vars
    PROVE  GoodsStep
<1>1. CASE UNCHANGED vars
  BY <1>1, StillMoves, MoveSteps DEF vars
<1>2. CASE Tick
  <2>1. CASE BeginTick \/ BeginLogistics \/ TakeChanges
    BY <2>1, StillMoves, MoveSteps DEF BeginTick, BeginLogistics, TakeChanges, World
  <2>2. ASSUME NEW i \in todo, TickSystem(i) PROVE GoodsStep
    BY <2>2, IdleMoves, MineMoves, WorkMoves, CraftMoves, MoveSteps DEF TickSystem
  <2>3. ASSUME NEW i \in todo, TickBelt(i) PROVE GoodsStep
    BY <2>3, SkipMoves, BeltMoves, MoveSteps DEF TickBelt
  <2> QED
    BY <1>2, <2>1, <2>2, <2>3 DEF Tick
<1>3. CASE Command
  BY <1>3, PlaceSteps, RemoveSteps, DevSteps DEF Command
<1> QED
  BY <1>1, <1>2, <1>3 DEF Next

\* What is meant of the next state is what is said of it.
LEMMA SameGame ==
    ASSUME GoodsInv, game' = game
    PROVE  /\ Sound(ent', nextItemID') /\ bank' \in Funds => Goods'
           /\ Worth' = Ground(deposit') + Banked(bank') + Stuff(ent')
           /\ Worth = Ground(deposit) + Banked(bank) + Stuff(ent)
<1>1. Players' = Players /\ Tiles' = Tiles
  BY DEF Players, Tiles
<1>2. Entities' = Entities /\ Funds' = Funds
  BY <1>1 DEF Entities, Funds
<1>3. ASSUME Sound(ent', nextItemID'), bank' \in Funds
      PROVE  Goods'
  BY <1>2, <1>3 DEF Goods, Sound, Fine
<1>4. InGround' = Ground(deposit') /\ InGround = Ground(deposit)
  BY <1>1 DEF InGround, Ground, Buried
<1>5. InBanks' = Banked(bank') /\ InBanks = Banked(bank)
  BY <1>1 DEF InBanks, Banked
<1>6. InBuildings' = Stuff(ent') /\ InBuildings = Stuff(ent)
  BY DEF InBuildings, Stuff
<1> QED
  BY <1>3, <1>4, <1>5, <1>6 DEF Worth

\* The worlds games start from.
LEMMA GoodsAtFirst ==
    ASSUME Init
    PROVE  GoodsInv
<1>1. FactoryInv
  BY InitInv
<1>2. /\ game \in Games /\ game.layout \in Seq(BuiltAtFirst(game))
      /\ nextItemID = 0 /\ bank = game.funds
      /\ ent = [n \in 0..(Len(game.layout) - 1) |->
                   NewEntity(game.layout[n + 1], game.layout[n + 1].owner)]
  BY GamesAssumption DEF Init
<1>3. bank \in Funds
  BY <1>2, GamesAssumption DEF Funds, Players
<1>4. Len(game.layout) \in Nat
  BY <1>2, LenProperties
<1>5. ASSUME NEW k \in DOMAIN ent
      PROVE  /\ Fine(ent[k], 0) /\ ent[k].belt = <<>>
             /\ \A q : Apart(<<>>, q)
  <2> DEFINE o == game.layout[k + 1]
  <2>1. k + 1 \in 1..Len(game.layout)
    BY <1>2, <1>4
  <2>2. o \in BuiltAtFirst(game)
    BY <1>2, <2>1, ElementOfSeq
  <2>3. /\ o.kind \in DOMAIN Buildings /\ o.at \in Tiles /\ o.dir \in Directions
        /\ o.flipped \in BOOLEAN /\ o.owner \in Players
    BY <2>2 DEF BuiltAtFirst, Tiles, Players
  <2>4. ent[k] = NewEntity(o, o.owner)
    BY <1>2
  <2> HIDE DEF o
  <2> QED
    BY <2>3, <2>4, NewGoods
<1>6. IsFiniteSet(DOMAIN ent) /\ ent = [k \in DOMAIN ent |-> ent[k]]
  <2>1. 0 \in Int /\ Len(game.layout) - 1 \in Int
    BY <1>4
  <2> QED
    BY <1>2, <2>1, FS_Interval
<1>7. Sound(ent, 0)
  BY <1>5, <1>6 DEF Sound
<1> QED
  BY <1>1, <1>2, <1>3, <1>7 DEF GoodsInv, Goods

\* The invariant is inductive.
LEMMA GoodsKept ==
    ASSUME GoodsInv, [Next]_vars
    PROVE  GoodsInv'
<1>1. FactoryInv'
  BY NextKeeps DEF GoodsInv
<1>2. game' = game
  BY DEF Next, vars
<1>3. Sound(ent', nextItemID') /\ bank' \in Funds
  BY NextSteps DEF GoodsStep
<1> QED
  BY <1>1, <1>2, <1>3, SameGame DEF GoodsInv

(***************************************************************************)
(* Every belt holds items of its own, no more than MaxBelt, only belts hold   *)
(* any, and no stock is ever negative, whoever pushes, carries, pulls or      *)
(* crafts (receiveInto, pullInputs, removeBeltItems, tickLogistics).          *)
(***************************************************************************)
THEOREM GoodsInvariant == Spec => []GoodsInv
<1>1. Init => GoodsInv
  BY GoodsAtFirst
<1>2. GoodsInv /\ [Next]_vars => GoodsInv'
  BY GoodsKept
<1> QED
  BY <1>1, <1>2, PTL DEF Spec

\* The invariant says what the state is made of.
LEMMA GoodsTypes ==
    ASSUME GoodsInv
    PROVE  TypeOK
<1>1. DOMAIN ent \subseteq 0..(nextID - 1) /\ nextID \in Nat
  BY DEF GoodsInv, FactoryInv, EntitiesKept
<1>2. (\A i \in DOMAIN ent : ent[i] \in Entities) /\ nextItemID \in Nat
  BY DEF GoodsInv, Goods, Sound, Fine
<1>3. bank \in [Players -> [Resources -> Int]] /\ deposit \in [Tiles -> Deposits]
  BY DEF GoodsInv, Goods, Funds, FactoryInv, LandKept
<1>4. marks \in [added : SUBSET Nat, changed : SUBSET Nat, removed : SUBSET Nat,
                 players : SUBSET Players, tiles : SUBSET Tiles]
  <2>1. DOMAIN ent \subseteq Nat
    BY <1>1
  <2>2. marks \in [added : SUBSET DOMAIN ent, changed : SUBSET DOMAIN ent, removed : SUBSET Nat,
                   players : SUBSET Players, tiles : SUBSET Tiles]
    BY DEF GoodsInv, FactoryInv, MarksKept
  <2> QED
    BY <2>1, <2>2
<1>5. phase \in {"rest", "systems", "logistics"} /\ todo \subseteq DOMAIN ent
  BY DEF GoodsInv, FactoryInv, VisitsKept, Machines, BeltIDs
<1> QED
  BY <1>1, <1>2, <1>3, <1>4, <1>5 DEF TypeOK

(***************************************************************************)
(* Entities, deposits, banks and marks are what World and Player declare:     *)
(* above all, a stock and an item's progress are never negative and never     *)
(* more than a belt is long (buildings.go, logistics.go).                     *)
(***************************************************************************)
THEOREM FactoryTypes == Spec => []TypeOK
<1>1. GoodsInv => TypeOK
  BY GoodsTypes
<1> QED
  BY <1>1, GoodsInvariant, PTL

\* The invariant says that belts are consistent.
LEMMA GoodsConsistent ==
    ASSUME GoodsInv
    PROVE  Consistent
<1>1. OnePerTile /\ Sound(ent, nextItemID)
  BY DEF GoodsInv, FactoryInv, Goods
<1>2. BeltBounded
  BY <1>1 DEF BeltBounded, Sound, Fine
<1>3. \A s \in Spots : /\ s[1] \in DOMAIN ent /\ s[2] \in 1..Len(ent[s[1]].belt)
                       /\ s = <<s[1], s[2]>> /\ Item(s) = ent[s[1]].belt[s[2]]
  <2> SUFFICES ASSUME NEW s \in Spots
               PROVE  /\ s[1] \in DOMAIN ent /\ s[2] \in 1..Len(ent[s[1]].belt)
                      /\ s = <<s[1], s[2]>>
    BY DEF Item
  <2>1. s \in (DOMAIN ent) \X (1..MaxBelt) /\ s[2] <= Len(ent[s[1]].belt)
    BY DEF Spots
  <2>2. s[1] \in DOMAIN ent /\ s[2] \in 1..MaxBelt /\ s = <<s[1], s[2]>>
    BY <2>1
  <2>3. ent[s[1]].belt \in Seq(Items)
    BY <1>1, <2>2, FineEntity DEF Sound
  <2>4. Len(ent[s[1]].belt) \in Nat /\ MaxBelt \in Nat
    BY <2>3, LenProperties, FactoryAssumption
  <2> QED
    BY <2>1, <2>2, <2>4
<1>4. \A s \in Spots : Item(s).id <= nextItemID
  BY <1>1, <1>3 DEF Sound, Fine
<1>5. ASSUME NEW s \in Spots, NEW t \in Spots, Item(s).id = Item(t).id
      PROVE  s = t
  <2>1. CASE s[1] = t[1]
    <3>1. Distinct(ent[s[1]].belt)
      BY <1>1, <1>3 DEF Sound, Fine
    <3>2. s[2] = t[2]
      BY <1>3, <1>5, <2>1, <3>1 DEF Distinct
    <3> QED
      BY <1>3, <2>1, <3>2
  <2>2. CASE s[1] # t[1]
    <3>1. Apart(ent[s[1]].belt, ent[t[1]].belt)
      BY <1>1, <1>3, <2>2 DEF Sound
    <3> QED
      BY <1>3, <1>5, <3>1 DEF Apart
  <2> QED
    BY <2>1, <2>2
<1>6. UniqueItems
  BY <1>4, <1>5 DEF UniqueItems
<1> QED
  BY <1>1, <1>2, <1>6 DEF Consistent

(***************************************************************************)
(* No belt is overfull and no two items in the world share an id, in whatever *)
(* order the belts are visited and whatever is pulled off them                *)
(* (receiveInto, addBeltItem, tickLogistics, removeBeltItems).                *)
(***************************************************************************)
THEOREM BeltsConsistent == Spec => []Consistent
<1>1. GoodsInv => Consistent
  BY GoodsConsistent
<1> QED
  BY <1>1, GoodsInvariant, PTL

\* Every item after a step is new or was there before it.
LEMMA StepsTrack ==
    ASSUME GoodsInv, [Next]_vars
    PROVE  \A t \in Spots' : LET x == Item(t)' IN
              \/ x.id > nextItemID /\ x.id <= nextItemID'
              \/ \E s \in Spots :
                    /\ Item(s).id = x.id
                    /\ Item(s).res = x.res
                    /\ t[1] = s[1] \/ ent[t[1]].at = Ahead(ent[s[1]])
<1>1. Tracked /\ Sound(ent, nextItemID) /\ Sound(ent', nextItemID') /\ MaxBelt \in Nat
  BY NextSteps, FactoryAssumption DEF GoodsStep, GoodsInv, Goods
<1> SUFFICES ASSUME NEW t \in Spots',
                    ~(ent'[t[1]].belt[t[2]].id > nextItemID /\ ent'[t[1]].belt[t[2]].id <= nextItemID')
             PROVE  \E s \in Spots :
                       /\ Item(s).id = ent'[t[1]].belt[t[2]].id
                       /\ Item(s).res = ent'[t[1]].belt[t[2]].res
                       /\ t[1] = s[1] \/ ent[t[1]].at = Ahead(ent[s[1]])
  BY DEF Item
<1>2. t[1] \in DOMAIN ent' /\ t[2] \in 1..Len(ent'[t[1]].belt)
  <2>1. t \in (DOMAIN ent') \X (1..MaxBelt) /\ t[2] <= Len(ent'[t[1]].belt)
    BY DEF Spots
  <2>2. t[1] \in DOMAIN ent' /\ t[2] \in 1..MaxBelt
    BY <2>1
  <2>3. ent'[t[1]].belt \in Seq(Items)
    BY <1>1, <2>2, FineEntity DEF Sound
  <2>4. Len(ent'[t[1]].belt) \in Nat
    BY <2>3, LenProperties
  <2> QED
    BY <1>1, <2>1, <2>2, <2>4
<1>3. PICK l \in DOMAIN ent : \E c \in 1..Len(ent[l].belt) :
              /\ ent[l].belt[c].id = ent'[t[1]].belt[t[2]].id
              /\ ent[l].belt[c].res = ent'[t[1]].belt[t[2]].res
              /\ t[1] = l \/ ent[t[1]].at = Ahead(ent[l])
  BY <1>1, <1>2 DEF Tracked
<1>4. PICK c \in 1..Len(ent[l].belt) :
              /\ ent[l].belt[c].id = ent'[t[1]].belt[t[2]].id
              /\ ent[l].belt[c].res = ent'[t[1]].belt[t[2]].res
              /\ t[1] = l \/ ent[t[1]].at = Ahead(ent[l])
  BY <1>3
<1>5. <<l, c>> \in Spots
  <2>1. Fine(ent[l], nextItemID)
    BY <1>1 DEF Sound
  <2>2. Len(ent[l].belt) \in Nat /\ Len(ent[l].belt) <= MaxBelt
    BY <2>1, FineEntity, LenProperties DEF Fine
  <2>3. c \in 1..MaxBelt /\ c <= Len(ent[l].belt)
    BY <1>1, <2>2
  <2> QED
    BY <2>3 DEF Spots
<1>6. Item(<<l, c>>) = ent[l].belt[c] /\ <<l, c>>[1] = l
  BY DEF Item
<1> QED
  BY <1>4, <1>5, <1>6

(***************************************************************************)
(* An item is the same item wherever it goes: it stays on its belt, goes on   *)
(* to the belt this one faces, or leaves, and a new one has an id that was    *)
(* never used (nextItemID, addBeltItem, tickLogistics).                       *)
(***************************************************************************)
THEOREM ItemsKeepIdentity == Spec => ItemsTracked
<1>1. GoodsInv /\ [Next]_vars =>
        [\A t \in Spots' : LET x == Item(t)' IN
              \/ x.id > nextItemID /\ x.id <= nextItemID'
              \/ \E s \in Spots :
                    /\ Item(s).id = x.id
                    /\ Item(s).res = x.res
                    /\ t[1] = s[1] \/ ent[t[1]].at = Ahead(ent[s[1]])]_vars
  BY StepsTrack
<1> QED
  BY <1>1, GoodsInvariant, PTL DEF Spec, ItemsTracked

\* What is lost with the buildings that a step removes is a number.
LEMMA LostNumber ==
    ASSUME GoodsInv
    PROVE  LostContents \in Int
<1> DEFINE f == [i \in DOMAIN ent \ DOMAIN ent' |-> Contents(ent[i])]
<1>1. DOMAIN f = DOMAIN ent \ DOMAIN ent' /\ LostContents = SumFunction(f)
  BY DEF LostContents
<1>2. IsFiniteSet(DOMAIN f)
  BY <1>1, FS_Subset DEF GoodsInv, Goods, Sound
<1>3. ASSUME NEW i \in DOMAIN f
      PROVE  f[i] \in Int
  <2>1. i \in DOMAIN ent /\ f[i] = Contents(ent[i])
    BY <1>1
  <2>2. ent[i] \in Entities
    BY <2>1 DEF GoodsInv, Goods, Sound, Fine
  <2> QED
    BY <2>1, <2>2, ContentsType
<1>4. f \in [DOMAIN f -> Int]
  BY <1>3
<1> HIDE DEF f
<1> QED
  BY <1>1, <1>2, <1>4, SumType

\* The worth of everything changes by what is lost.
LEMMA StepsBalance ==
    ASSUME GoodsInv, [Next]_vars, game.requests \subseteq {"place", "remove"}
    PROVE  Worth' = Worth - LostContents
<1>1. game' = game
  BY DEF Next, vars
<1>2. Balanced
  BY NextSteps DEF GoodsStep
<1>3. Worth' = Ground(deposit') + Banked(bank') + Stuff(ent')
      /\ Worth = Ground(deposit) + Banked(bank) + Stuff(ent)
  BY <1>1, SameGame
<1>4. Ground(deposit') + Banked(bank') + Stuff(ent')
        = Ground(deposit) + Banked(bank) + Stuff(ent) - LostContents
  BY <1>2 DEF Balanced
<1>5. LostContents \in Int
  BY LostNumber
<1>6. Ground(deposit) \in Int /\ Banked(bank) \in Int /\ Stuff(ent) \in Int
  BY NumbersOfGoods
<1> QED
  BY <1>3, <1>4, <1>5, <1>6

(***************************************************************************)
(* Nothing is made from nothing and nothing vanishes, for any content whose   *)
(* recipes keep the worth of what they use: what lies in the ground, in       *)
(* buildings, on belts and in banks is together worth the same after every    *)
(* dig, craft, push, pull, delivery and purchase, and a removal loses only    *)
(* what the building held (systems.go, logistics.go, PlaceBuilding,           *)
(* RemoveBuilding).                                                           *)
(***************************************************************************)
THEOREM GoodsConserved == Spec => Conserved
<1>1. GoodsInv /\ [Next]_vars =>
        [game.requests \subseteq {"place", "remove"} => Worth' = Worth - LostContents]_vars
  BY StepsBalance
<1> QED
  BY <1>1, GoodsInvariant, PTL DEF Spec, Conserved

=============================================================================
