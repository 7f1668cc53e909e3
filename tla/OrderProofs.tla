----------------------------- MODULE OrderProofs -----------------------------
(***************************************************************************)
(* That items stay in order in one-way games, for any content, map, layout    *)
(* and number of players.  Between two tiles of a way all items of a resource *)
(* are older on the one further down; on one belt they are Sorted; and a belt *)
(* on which one waits is Stalled, so that its head start harms nobody.        *)
(***************************************************************************)
EXTENDS GoodsProofs

\* The m-th item of q is further along than the n-th, or came there before it.
Before(q, m, n) ==
    q[m].progress > q[n].progress \/ (q[m].progress = q[n].progress /\ m < n)

Sorted(q, r) ==
    \A m, n \in 1..Len(q) : q[m].res = r /\ q[n].res = r /\ Before(q, m, n) => q[m].id < q[n].id

\* Every r of p was made before every r of q.
Older(p, q, r) ==
    \A m \in 1..Len(p), n \in 1..Len(q) : p[m].res = r /\ q[n].res = r => p[m].id < q[n].id

Has(q, r) == \E n \in 1..Len(q) : q[n].res = r
Waits(q, r) == \E n \in 1..Len(q) : q[n].res = r /\ q[n].progress = BeltSpeed
Fresh(q, r) == \E n \in 1..Len(q) : q[n].res = r /\ q[n].progress = 0

\* p is what is left of q when some items are taken.
Thinned(p, q) ==
    \E f \in [1..Len(p) -> 1..Len(q)] :
        /\ \A m, n \in 1..Len(p) : m < n => f[m] < f[n]
        /\ \A m \in 1..Len(p) : p[m] = q[f[m]]

\* What a Route says of the entities E, all of which are planned.
Lines(E, way, r) ==
    /\ way \in [Tiles -> Nat]
    /\ \A k \in DOMAIN E : E[k].at \in Tiles
    /\ \A k, l \in DOMAIN E : way[E[k].at] = way[E[l].at] /\ way[E[k].at] > 0 => k = l
    /\ \A k, l \in DOMAIN E : Feeds(E[k], E[l]) =>
          /\ Makes(game.ore, E[k], r) => way[E[l].at] = 1
          /\ E[k].kind \in Belts /\ way[E[k].at] > 0 => way[E[l].at] = way[E[k].at] + 1
    /\ \A k, l \in DOMAIN E : Crafts(E[k]) /\ E[l].at = Behind(E[k]) => way[E[l].at] <= 1

\* The r lie on the way, and the further down the way the older they are.
Located(E, way, r) == \A k \in DOMAIN E : Has(E[k].belt, r) => way[E[k].at] > 0
Ranked(E, way, r) ==
    \A k, l \in DOMAIN E : way[E[k].at] > way[E[l].at] => Older(E[k].belt, E[l].belt, r)

\* An item that waits has a head start when it goes on: before it does, all that
\* are at the start of the next belt have moved.
Stalled(E, ph, td, r) ==
    \A k, l \in DOMAIN E :
        Feeds(E[k], E[l]) /\ E[k].kind \in Belts /\ Waits(E[k].belt, r) /\ Fresh(E[l].belt, r) =>
            /\ Len(E[l].belt) = MaxBelt
            /\ ph = "logistics" /\ k \in td => l \in td

Ordered(E, ph, td, way, r) ==
    /\ \A k \in DOMAIN E : Sorted(E[k].belt, r)
    /\ Located(E, way, r)
    /\ Ranked(E, way, r)
    /\ Stalled(E, ph, td, r)

\* The same building feeds the same.
LEMMA SameFeeds ==
    ASSUME NEW a, NEW b, NEW c, NEW d, SameBuilding(a, c), SameBuilding(b, d)
    PROVE  /\ Feeds(a, b) <=> Feeds(c, d)
           /\ \A ore, r : Makes(ore, a, r) <=> Makes(ore, c, r)
           /\ Crafts(a) <=> Crafts(c)
           /\ Ahead(a) = Ahead(c) /\ Behind(a) = Behind(c)
  BY DEF SameBuilding, Feeds, Makes, Crafts, Works, Ahead, Behind, CornerAcceptsFrom,
         BeltTurnInputDir

\* Lines stay when the buildings do.
LEMMA LinesStay ==
    ASSUME NEW E, NEW F, NEW way, NEW r, Lines(E, way, r), Kept(E, F)
    PROVE  Lines(F, way, r)
<1>1. DOMAIN F = DOMAIN E /\ \A k \in DOMAIN E : SameBuilding(F[k], E[k])
  BY DEF Kept
<1>2. \A k \in DOMAIN E : F[k].at = E[k].at /\ F[k].kind = E[k].kind
  BY <1>1 DEF SameBuilding
<1>3. \A k, l \in DOMAIN E : /\ Feeds(F[k], F[l]) <=> Feeds(E[k], E[l])
                             /\ Makes(game.ore, F[k], r) <=> Makes(game.ore, E[k], r)
                             /\ Crafts(F[k]) <=> Crafts(E[k])
                             /\ Behind(F[k]) = Behind(E[k])
  BY <1>1, SameFeeds
<1> QED
  BY <1>1, <1>2, <1>3 DEF Lines

\* An item of p is one of q, so what holds of the items of q holds of it.
LEMMA OlderFrom ==
    ASSUME NEW p, NEW q, ComesFrom(p, q), NEW r
    PROVE  /\ \A o : Older(q, o, r) => Older(p, o, r)
           /\ \A o : Older(o, q, r) => Older(o, p, r)
           /\ Has(p, r) => Has(q, r)
  BY DEF ComesFrom, Older, Has

\* Belts on which items are taken.
LEMMA ThinnedServes ==
    ASSUME NEW p \in Seq(Items), NEW q \in Seq(Items), Thinned(p, q), NEW r
    PROVE  /\ Sorted(q, r) => Sorted(p, r)
           /\ ComesFrom(p, q)
           /\ Waits(p, r) => Waits(q, r)
           /\ Fresh(p, r) => Fresh(q, r)
<1>1. PICK f \in [1..Len(p) -> 1..Len(q)] :
         /\ \A m, n \in 1..Len(p) : m < n => f[m] < f[n]
         /\ \A m \in 1..Len(p) : p[m] = q[f[m]]
  BY DEF Thinned
<1>2. \A m, n \in 1..Len(p) : Before(p, m, n) => Before(q, f[m], f[n])
  BY <1>1 DEF Before
<1>3. \A m \in 1..Len(p) : f[m] \in 1..Len(q)
  BY <1>1
<1>4. Sorted(q, r) => Sorted(p, r)
  BY <1>1, <1>2, <1>3 DEF Sorted
<1>5. ComesFrom(p, q)
  BY <1>1, <1>3 DEF ComesFrom
<1>6. (Waits(p, r) => Waits(q, r)) /\ (Fresh(p, r) => Fresh(q, r))
  BY <1>1, <1>3 DEF Waits, Fresh
<1> QED
  BY <1>4, <1>5, <1>6

\* The m-th item of p is the item f[m] of q, from the places S and in their order.
InPlace(f, p, q, S) ==
    /\ f \in [1..Len(p) -> S]
    /\ \A m, n \in 1..Len(p) : m < n => f[m] < f[n]
    /\ \A m \in 1..Len(p) : p[m] = q[f[m]]

\* What is picked of a sequence is in its order.
LEMMA PickedInOrder ==
    ASSUME NEW T, NEW q \in Seq(T), NEW S \in SUBSET (1..Len(q)), NEW p, p = Picked(q, S)
    PROVE  /\ p \in Seq(T)
           /\ \E f : InPlace(f, p, q, S)
<1> DEFINE f == [m \in 1..Len(p) |-> Nth(S, m)]
<1>1. /\ IsFiniteSet(S) /\ p \in Seq(T) /\ Len(p) = Cardinality(S)
      /\ \A c \in 1..Cardinality(S) : Nth(S, c) \in S /\ p[c] = q[Nth(S, c)]
  BY PickedItems
<1>2. S \in SUBSET Nat
  OBVIOUS
<1>3. \A c, d \in 1..Cardinality(S) : c < d => Nth(S, c) < Nth(S, d)
  BY <1>1, <1>2, NthCounts
<1>4. f \in [1..Len(p) -> S]
  BY <1>1
<1>5. /\ \A m, n \in 1..Len(p) : m < n => f[m] < f[n]
      /\ \A m \in 1..Len(p) : p[m] = q[f[m]]
  BY <1>1, <1>3
<1> HIDE DEF f
<1>6. InPlace(f, p, q, S)
  BY <1>4, <1>5 DEF InPlace
<1> QED
  BY <1>1, <1>6

LEMMA PickedThinned ==
    ASSUME NEW T, NEW q \in Seq(T), NEW S \in SUBSET (1..Len(q)), NEW p, p = Picked(q, S)
    PROVE  Thinned(p, q)
<1>1. PICK f : InPlace(f, p, q, S)
  BY PickedInOrder
<1>2. f \in [1..Len(p) -> 1..Len(q)]
  BY <1>1 DEF InPlace
<1> QED
  BY <1>1, <1>2 DEF Thinned, InPlace

\* Belts that are built, or that items are taken off where nobody feeds them.
LEMMA ThinsOrdered ==
    ASSUME NEW E, NEW ph, NEW td, NEW way, NEW r, Lines(E, way, r), Ordered(E, ph, td, way, r),
           NEW F, NEW ps, ps # "logistics", NEW ts,
           \A k \in DOMAIN E : E[k].belt \in Seq(Items),
           \A k \in DOMAIN F :
              \/ F[k].belt = <<>>
              \/ /\ k \in DOMAIN E /\ SameBuilding(F[k], E[k])
                 /\ \/ F[k].belt = E[k].belt
                    \/ /\ F[k].belt \in Seq(Items) /\ Thinned(F[k].belt, E[k].belt)
                       /\ way[E[k].at] <= 1
    PROVE  Ordered(F, ps, ts, way, r)
<1> DEFINE Bare(k) == F[k].belt = <<>>
<1>1. \A q : Sorted(<<>>, r) /\ ~Has(<<>>, r) /\ ~Waits(<<>>, r) /\ ~Fresh(<<>>, r)
             /\ Older(<<>>, q, r) /\ Older(q, <<>>, r)
  BY DEF Sorted, Has, Waits, Fresh, Older
<1>2. ASSUME NEW k \in DOMAIN F, ~Bare(k)
      PROVE  /\ k \in DOMAIN E /\ SameBuilding(F[k], E[k]) /\ F[k].at = E[k].at
             /\ F[k].kind = E[k].kind
             /\ Sorted(F[k].belt, r)
             /\ ComesFrom(F[k].belt, E[k].belt)
             /\ Waits(F[k].belt, r) => Waits(E[k].belt, r)
             /\ Fresh(F[k].belt, r) => Fresh(E[k].belt, r)
             /\ F[k].belt = E[k].belt \/ way[E[k].at] <= 1
  <2>1. k \in DOMAIN E /\ SameBuilding(F[k], E[k])
    BY <1>2
  <2>2. Sorted(E[k].belt, r)
    BY <2>1 DEF Ordered
  <2>3. CASE F[k].belt = E[k].belt
    BY <2>1, <2>2, <2>3, StaysRefl DEF SameBuilding
  <2>4. CASE F[k].belt \in Seq(Items) /\ Thinned(F[k].belt, E[k].belt) /\ way[E[k].at] <= 1
    BY <2>1, <2>2, <2>4, ThinnedServes DEF SameBuilding
  <2> QED
    BY <1>2, <2>3, <2>4
<1>3. \A k \in DOMAIN F : Sorted(F[k].belt, r)
  BY <1>1, <1>2
<1>4. Located(F, way, r)
  <2> SUFFICES ASSUME NEW k \in DOMAIN F, Has(F[k].belt, r)
               PROVE  way[F[k].at] > 0
    BY DEF Located
  <2>1. ~Bare(k)
    BY <1>1
  <2>2. Has(E[k].belt, r)
    BY <1>2, <2>1, OlderFrom
  <2> QED
    BY <1>2, <2>1, <2>2 DEF Ordered, Located
<1>5. Ranked(F, way, r)
  <2> SUFFICES ASSUME NEW k \in DOMAIN F, NEW l \in DOMAIN F, way[F[k].at] > way[F[l].at]
               PROVE  Older(F[k].belt, F[l].belt, r)
    BY DEF Ranked
  <2>1. CASE Bare(k) \/ Bare(l)
    BY <1>1, <2>1
  <2>2. CASE ~Bare(k) /\ ~Bare(l)
    <3>1. Older(E[k].belt, E[l].belt, r)
      BY <1>2, <2>2 DEF Ordered, Ranked
    <3>2. Older(F[k].belt, E[l].belt, r)
      BY <1>2, <2>2, <3>1, OlderFrom
    <3> QED
      BY <1>2, <2>2, <3>2, OlderFrom
  <2> QED
    BY <2>1, <2>2
<1>6. Stalled(F, ps, ts, r)
  <2> SUFFICES ASSUME NEW k \in DOMAIN F, NEW l \in DOMAIN F, Feeds(F[k], F[l]),
                      F[k].kind \in Belts, Waits(F[k].belt, r), Fresh(F[l].belt, r)
               PROVE  Len(F[l].belt) = MaxBelt
    BY DEF Stalled
  <2>1. ~Bare(k) /\ ~Bare(l)
    BY <1>1
  <2>2. /\ k \in DOMAIN E /\ l \in DOMAIN E /\ E[k].kind \in Belts
        /\ Waits(E[k].belt, r) /\ Fresh(E[l].belt, r)
    BY <1>2, <2>1
  <2>3. Feeds(E[k], E[l])
    BY <1>2, <2>1, SameFeeds
  <2>4. Has(E[k].belt, r)
    BY <2>2 DEF Has, Waits
  <2>5. way[E[k].at] > 0 /\ way[E[k].at] \in Nat
    BY <2>2, <2>4 DEF Ordered, Located, Lines
  <2>6. way[E[l].at] = way[E[k].at] + 1
    BY <2>2, <2>3, <2>5 DEF Lines
  <2>7. F[l].belt = E[l].belt
    BY <1>2, <2>1, <2>5, <2>6
  <2> QED
    BY <2>2, <2>3, <2>7 DEF Ordered, Stalled
<1> QED
  BY <1>3, <1>4, <1>5, <1>6 DEF Ordered

\* Any belt that is fed is among the belts.
LEMMA AllBeltsOrdered ==
    ASSUME NEW way, NEW r, NEW ph, NEW td, Ordered(ent, ph, td, way, r)
    PROVE  Ordered(ent, "logistics", BeltIDs, way, r)
<1>1. \A k, l \in DOMAIN ent : Feeds(ent[k], ent[l]) => l \in BeltIDs
  BY DEF Feeds, BeltIDs
<1>2. Stalled(ent, "logistics", BeltIDs, r)
  BY <1>1 DEF Ordered, Stalled
<1> QED
  BY <1>2 DEF Ordered

\* Tiles of the way.
LEMMA WayNumbers ==
    ASSUME NEW E, NEW way, NEW r, Lines(E, way, r), NEW k \in DOMAIN E
    PROVE  way[E[k].at] \in Nat
  BY DEF Lines

\* A new item at the start of a belt, where only its own maker gives.
LEMMA EntersOrdered ==
    ASSUME NEW E, NEW n, Sound(E, n), NEW way, NEW r, Lines(E, way, r), NEW td,
           Ordered(E, "systems", td, way, r), BeltSpeed > 0, BeltSpeed \in Nat, NEW ts,
           NEW j \in DOMAIN E, E[j].kind \in Belts, Len(E[j].belt) < MaxBelt,
           NEW x \in Items, x.id = n + 1, x.progress = 0, x.res = r => way[E[j].at] = 1,
           NEW F, Kept(E, F), F[j].belt = Append(E[j].belt, x),
           \A k \in DOMAIN E \ {j} : F[k].belt = E[k].belt
    PROVE  Ordered(F, "systems", ts, way, r)
<1> DEFINE o == E[j].belt
           d == Append(o, x)
<1>1. DOMAIN F = DOMAIN E /\ \A k \in DOMAIN E : SameBuilding(F[k], E[k])
  BY DEF Kept
<1>2. \A k \in DOMAIN E : F[k].at = E[k].at /\ F[k].kind = E[k].kind /\ way[E[k].at] \in Nat
  BY <1>1, WayNumbers DEF SameBuilding
<1>3. /\ o \in Seq(Items) /\ Len(o) \in Nat /\ n \in Nat
      /\ \A k \in DOMAIN E : \A m \in 1..Len(E[k].belt) : E[k].belt[m].id <= n
      /\ \A k \in DOMAIN E : E[k].belt \in Seq(Items)
  <2>1. \A k \in DOMAIN E : E[k].belt \in Seq(Items)
    BY FineEntity DEF Sound
  <2> QED
    BY <2>1 DEF Sound, Fine
<1>4. /\ Len(d) = Len(o) + 1 /\ d[Len(o) + 1] = x
      /\ \A m \in 1..Len(o) : d[m] = o[m]
  BY <1>3
<1>5. \A m \in 1..Len(d) : m \in 1..Len(o) \/ m = Len(o) + 1
  BY <1>3, <1>4
<1>6. \A m \in 1..Len(o) : o[m].progress \in Nat /\ o[m].id \in Nat /\ o[m].id <= n
  <2>1. \A m \in 1..Len(o) : o[m] \in Items
    BY <1>3, ElementOfSeq
  <2>2. \A m \in 1..Len(o) : o[m].progress \in Nat /\ o[m].id \in Nat
    BY <2>1, ItemsAreLoads DEF Items
  <2> QED
    BY <1>3, <2>2
<1>7. Len(o) < MaxBelt /\ MaxBelt \in Nat
  BY FactoryAssumption
<1> HIDE DEF d, o
<1>8. F[j].belt = d /\ E[j].belt = o
  BY DEF d, o
<1>9. Sorted(d, r)
  <2> SUFFICES ASSUME NEW k \in 1..Len(d), NEW m \in 1..Len(d), d[k].res = r, d[m].res = r,
                      Before(d, k, m)
               PROVE  d[k].id < d[m].id
    BY DEF Sorted
  <2>1. CASE k \in 1..Len(o) /\ m \in 1..Len(o)
    <3>1. Before(o, k, m) /\ o[k].res = r /\ o[m].res = r
      BY <1>4, <2>1 DEF Before
    <3>2. Sorted(o, r)
      BY <1>8 DEF Ordered
    <3> QED
      BY <1>4, <2>1, <3>1, <3>2 DEF Sorted
  <2>2. CASE k \in 1..Len(o) /\ m = Len(o) + 1
    BY <1>3, <1>4, <1>6, <2>2
  <2>3. CASE k = Len(o) + 1
    <3>1. d[k].progress = 0 /\ ~(k < m)
      BY <1>3, <1>4, <2>3
    <3>2. d[m].progress \in Nat
      BY <1>4, <1>5, <1>6
    <3> QED
      BY <3>1, <3>2 DEF Before
  <2> QED
    BY <1>5, <2>1, <2>2, <2>3
<1>10. Has(d, r) => Has(o, r) \/ x.res = r
  BY <1>4, <1>5 DEF Has
<1>11. Fresh(d, r) => Fresh(o, r) \/ x.res = r
  BY <1>4, <1>5 DEF Fresh
<1>12. Waits(d, r) => Waits(o, r)
  BY <1>4, <1>5 DEF Waits
<1>13. \A k \in DOMAIN F : Sorted(F[k].belt, r)
  BY <1>1, <1>8, <1>9 DEF Ordered
<1>14. Located(F, way, r)
  <2> SUFFICES ASSUME NEW k \in DOMAIN F, Has(F[k].belt, r)
               PROVE  way[F[k].at] > 0
    BY DEF Located
  <2>1. Has(E[k].belt, r) \/ (k = j /\ x.res = r)
    BY <1>1, <1>8, <1>10
  <2> QED
    BY <1>1, <1>2, <2>1 DEF Ordered, Located
<1>15. Ranked(F, way, r)
  <2> SUFFICES ASSUME NEW k \in DOMAIN F, NEW l \in DOMAIN F, way[F[k].at] > way[F[l].at]
               PROVE  Older(F[k].belt, F[l].belt, r)
    BY DEF Ranked
  <2>1. Older(E[k].belt, E[l].belt, r) /\ k # l
    BY <1>1, <1>2 DEF Ordered, Ranked
  <2>2. CASE k # j /\ l # j
    BY <1>1, <2>1, <2>2
  <2>3. CASE k = j
    <3>1. F[l].belt = E[l].belt
      BY <1>1, <2>1, <2>3
    <3>2. CASE x.res = r
      <4>1. ~Has(E[l].belt, r)
        BY <1>1, <1>2, <2>3, <3>2 DEF Ordered, Located
      <4> QED
        BY <3>1, <4>1 DEF Has, Older
    <3>3. CASE x.res # r
      BY <1>4, <1>5, <1>8, <2>1, <2>3, <3>1, <3>3 DEF Older
    <3> QED
      BY <3>2, <3>3
  <2>4. CASE l = j
    <3>1. F[k].belt = E[k].belt /\ k \in DOMAIN E
      BY <1>1, <2>1, <2>4
    <3>2. \A m \in 1..Len(E[k].belt) : E[k].belt[m].id \in Nat /\ E[k].belt[m].id <= n
      <4>1. \A m \in 1..Len(E[k].belt) : E[k].belt[m] \in Items
        BY <1>3, <3>1, ElementOfSeq
      <4> QED
        BY <1>3, <3>1, <4>1 DEF Items
    <3>3. \A m \in 1..Len(E[k].belt) : E[k].belt[m].id < x.id
      <4>1. x.id = n + 1 /\ n \in Nat
        BY <1>3
      <4> HIDE DEF Lines
      <4> QED
        BY <3>2, <4>1
    <3> QED
      BY <1>4, <1>5, <1>8, <2>1, <2>4, <3>1, <3>3 DEF Older
  <2> QED
    BY <2>2, <2>3, <2>4
<1>16. Stalled(F, "systems", ts, r)
  <2> SUFFICES ASSUME NEW k \in DOMAIN F, NEW l \in DOMAIN F, Feeds(F[k], F[l]),
                      F[k].kind \in Belts, Waits(F[k].belt, r), Fresh(F[l].belt, r)
               PROVE  Len(F[l].belt) = MaxBelt
    BY DEF Stalled
  <2>1. Feeds(E[k], E[l]) /\ E[k].kind \in Belts
    BY <1>1, <1>2, SameFeeds
  <2>2. Waits(E[k].belt, r)
    BY <1>1, <1>8, <1>12
  <2>3. way[E[k].at] > 0 /\ way[E[l].at] = way[E[k].at] + 1
    <3>1. Has(E[k].belt, r)
      BY <2>2 DEF Has, Waits
    <3>2. way[E[k].at] > 0
      BY <1>1, <3>1 DEF Ordered, Located
    <3> QED
      BY <1>1, <2>1, <3>2 DEF Lines
  <2>4. CASE l = j
    <3>1. x.res # r
      BY <1>1, <1>2, <2>3, <2>4
    <3>2. Fresh(E[l].belt, r)
      BY <1>8, <1>11, <2>4, <3>1
    <3>3. Len(E[l].belt) = MaxBelt
      BY <1>1, <2>1, <2>2, <3>2 DEF Ordered, Stalled
    <3> QED
      BY <1>3, <1>7, <1>8, <2>4, <3>3
  <2>5. CASE l # j
    <3>1. F[l].belt = E[l].belt
      BY <1>1, <2>5
    <3> QED
      BY <1>1, <2>1, <2>2, <3>1 DEF Ordered, Stalled
  <2> QED
    BY <2>4, <2>5
<1> QED
  BY <1>13, <1>14, <1>15, <1>16 DEF Ordered

-----------------------------------------------------------------------------
(* A belt that moves *)

\* The items at the end, in the order in which they are handed on.
LEMMA CompletedInOrder ==
    ASSUME BeltSpeed \in Nat \ {0}, NEW q \in Seq(Items), NEW c, c = Completed(q)
    PROVE  \E h \in [1..Len(c) -> 1..Len(q)] :
              /\ \A m, n \in 1..Len(c) : m < n => Before(q, h[m], h[n])
              /\ \A m \in 1..Len(c) : /\ c[m] = Advanced(q)[h[m]]
                                      /\ q[h[m]].progress \in {BeltSpeed - 1, BeltSpeed}
<1> DEFINE a == Advanced(q)
           S == {n \in 1..Len(q) : q[n].progress + 1 > BeltSpeed}
           U == {n \in 1..Len(q) : q[n].progress + 1 = BeltSpeed}
           x == Picked(a, S)
           y == Picked(a, U)
<1>1. /\ a \in Seq(Loads) /\ Len(a) = Len(q) /\ Len(q) \in Nat
      /\ \A n \in 1..Len(q) : q[n].progress \in 0..BeltSpeed
  BY ItemsAdvance DEF Alike
<1>2. S \in SUBSET (1..Len(a)) /\ U \in SUBSET (1..Len(a))
  BY <1>1
<1>3. (\A n \in S : q[n].progress = BeltSpeed) /\ (\A n \in U : q[n].progress = BeltSpeed - 1)
  BY <1>1
<1>4. c = x \o y /\ x = Picked(a, S) /\ y = Picked(a, U)
  BY DEF Completed
<1> HIDE DEF a, S, U, x, y
<1>5. x \in Seq(Loads) /\ y \in Seq(Loads)
  BY <1>1, <1>2, <1>4, PickedInOrder
<1>6. PICK f : InPlace(f, x, a, S)
  <2>1. a \in Seq(Loads) /\ S \in SUBSET (1..Len(a)) /\ x = Picked(a, S)
    BY <1>1, <1>2, <1>4
  <2> QED
    BY <2>1, PickedInOrder
<1>7. PICK g : InPlace(g, y, a, U)
  <2>1. a \in Seq(Loads) /\ U \in SUBSET (1..Len(a)) /\ y = Picked(a, U)
    BY <1>1, <1>2, <1>4
  <2> QED
    BY <2>1, PickedInOrder
<1> DEFINE h == [m \in 1..Len(c) |-> IF m <= Len(x) THEN f[m] ELSE g[m - Len(x)]]
<1>8. Len(x) \in Nat /\ Len(y) \in Nat /\ Len(c) = Len(x) + Len(y)
      /\ \A n \in 1..Len(c) : \/ n \in 1..Len(x) /\ c[n] = x[n]
                              \/ n - Len(x) \in 1..Len(y) /\ c[n] = y[n - Len(x)]
  <2>1. /\ Len(x) \in Nat /\ Len(y) \in Nat /\ Len(x \o y) = Len(x) + Len(y)
        /\ \A n \in 1..Len(x \o y) :
              \/ n \in 1..Len(x) /\ (x \o y)[n] = x[n]
              \/ n - Len(x) \in 1..Len(y) /\ (x \o y)[n] = y[n - Len(x)]
    BY <1>5, Joined
  <2> QED
    BY <1>4, <2>1
<1>9. ASSUME NEW m \in 1..Len(c)
      PROVE  /\ m <= Len(x) => m \in 1..Len(x) /\ h[m] = f[m] /\ f[m] \in S /\ c[m] = x[m]
             /\ ~(m <= Len(x)) => /\ m - Len(x) \in 1..Len(y) /\ h[m] = g[m - Len(x)]
                                  /\ g[m - Len(x)] \in U /\ c[m] = y[m - Len(x)]
  <2>1. CASE m <= Len(x)
    <3>1. m \in 1..Len(x) /\ c[m] = x[m]
      BY <1>8, <2>1
    <3>2. f[m] \in S /\ h[m] = f[m]
      BY <1>6, <2>1, <3>1 DEF InPlace
    <3> QED
      BY <2>1, <3>1, <3>2
  <2>2. CASE ~(m <= Len(x))
    <3>1. m - Len(x) \in 1..Len(y) /\ c[m] = y[m - Len(x)]
      BY <1>8, <2>2
    <3>2. g[m - Len(x)] \in U /\ h[m] = g[m - Len(x)]
      BY <1>7, <2>2, <3>1 DEF InPlace
    <3> QED
      BY <2>2, <3>1, <3>2
  <2> QED
    BY <2>1, <2>2
<1>10. h \in [1..Len(c) -> 1..Len(q)]
  BY <1>1, <1>2, <1>9
<1>11. \A m \in 1..Len(c) : c[m] = a[h[m]] /\ q[h[m]].progress \in {BeltSpeed - 1, BeltSpeed}
  BY <1>3, <1>6, <1>7, <1>9 DEF InPlace
<1>12. ASSUME NEW m \in 1..Len(c), NEW n \in 1..Len(c), m < n
       PROVE  Before(q, h[m], h[n])
  <2>1. CASE n <= Len(x)
    <3>1. m <= Len(x)
      BY <1>8, <1>12, <2>1
    <3>2. f[m] < f[n]
      BY <1>6, <1>9, <1>12, <2>1, <3>1 DEF InPlace
    <3>3. h[m] = f[m] /\ h[n] = f[n] /\ q[f[m]].progress = BeltSpeed /\ q[f[n]].progress = BeltSpeed
      BY <1>3, <1>9, <2>1, <3>1
    <3> QED
      BY <3>2, <3>3 DEF Before
  <2>2. CASE m <= Len(x) /\ ~(n <= Len(x))
    <3>1. q[h[m]].progress = BeltSpeed /\ q[h[n]].progress = BeltSpeed - 1
      BY <1>3, <1>9, <2>2
    <3> QED
      BY <3>1 DEF Before
  <2>3. CASE ~(m <= Len(x)) /\ ~(n <= Len(x))
    <3>1. m - Len(x) < n - Len(x)
      BY <1>8, <1>12
    <3>2. g[m - Len(x)] < g[n - Len(x)]
      BY <1>7, <1>9, <2>3, <3>1 DEF InPlace
    <3>3. /\ h[m] = g[m - Len(x)] /\ h[n] = g[n - Len(x)]
          /\ q[h[m]].progress = BeltSpeed - 1 /\ q[h[n]].progress = BeltSpeed - 1
      BY <1>3, <1>9, <2>3
    <3> QED
      BY <3>2, <3>3 DEF Before
  <2>4. ~(m <= Len(x)) => ~(n <= Len(x))
    BY <1>8, <1>12
  <2> QED
    BY <2>1, <2>2, <2>3, <2>4
<1> HIDE DEF h
<1> QED
  BY <1>10, <1>11, <1>12 DEF a

\* What stays on a belt and what comes to its end, of items in order.
LEMMA MovedItems ==
    ASSUME BeltSpeed \in Nat \ {0}, NEW q \in Seq(Items), NEW r, Sorted(q, r),
           NEW s, s = Staying(q), NEW c, c = Completed(q)
    PROVE  /\ Sorted(s, r)
           /\ \A n \in 1..Len(s) : s[n].progress \in 1..(BeltSpeed - 1)
           /\ \A m, n \in 1..Len(c) : m < n /\ c[m].res = r /\ c[n].res = r =>
                 c[m].id < c[n].id /\ c[m].progress >= c[n].progress
           /\ Older(c, s, r)
           /\ \A n \in 1..Len(c) : c[n].res = r /\ c[n].progress # BeltSpeed => Waits(q, r)
<1> DEFINE a == Advanced(q)
           S == {n \in 1..Len(q) : q[n].progress + 1 < BeltSpeed}
<1>1. /\ a \in Seq(Loads) /\ Len(a) = Len(q) /\ Len(q) \in Nat
      /\ \A n \in 1..Len(q) : /\ a[n].id = q[n].id /\ a[n].res = q[n].res
                              /\ a[n].progress = q[n].progress + 1
                              /\ q[n].progress \in 0..BeltSpeed
  BY ItemsAdvance DEF Alike
<1>2. S \in SUBSET (1..Len(a))
  BY <1>1
<1>3. s = Picked(a, S)
  BY DEF Staying
<1> HIDE DEF a, S
<1>4. PICK f : InPlace(f, s, a, S)
  BY <1>1, <1>2, <1>3, PickedInOrder
<1>5. PICK h \in [1..Len(c) -> 1..Len(q)] :
         /\ \A m, n \in 1..Len(c) : m < n => Before(q, h[m], h[n])
         /\ \A m \in 1..Len(c) : /\ c[m] = a[h[m]]
                                 /\ q[h[m]].progress \in {BeltSpeed - 1, BeltSpeed}
  BY CompletedInOrder DEF a
<1>6. \A m \in 1..Len(s) : /\ f[m] \in 1..Len(q) /\ q[f[m]].progress + 1 < BeltSpeed
                           /\ s[m].id = q[f[m]].id /\ s[m].res = q[f[m]].res
                           /\ s[m].progress = q[f[m]].progress + 1
  <2>1. \A m \in 1..Len(s) : f[m] \in S
    BY <1>4 DEF InPlace
  <2>2. \A n \in S : n \in 1..Len(q) /\ q[n].progress + 1 < BeltSpeed
    BY DEF S
  <2> QED
    BY <1>1, <1>4, <2>1, <2>2 DEF InPlace
<1>7. \A m \in 1..Len(c) : /\ h[m] \in 1..Len(q)
                           /\ c[m].id = q[h[m]].id /\ c[m].res = q[h[m]].res
                           /\ c[m].progress = q[h[m]].progress + 1
  BY <1>1, <1>5
<1>8. Sorted(s, r)
  <2> SUFFICES ASSUME NEW m \in 1..Len(s), NEW n \in 1..Len(s), s[m].res = r, s[n].res = r,
                      Before(s, m, n)
               PROVE  s[m].id < s[n].id
    BY DEF Sorted
  <2>1. q[f[m]].progress \in Int /\ q[f[n]].progress \in Int
    BY <1>1, <1>6
  <2>2. Before(q, f[m], f[n])
    BY <1>4, <1>6, <2>1 DEF Before, InPlace
  <2> QED
    BY <1>6, <2>2 DEF Sorted
<1>9. ASSUME NEW n \in 1..Len(s)
      PROVE  s[n].progress \in 1..(BeltSpeed - 1)
  <2>1. PICK x : x = q[f[n]].progress
    OBVIOUS
  <2>2. x \in 0..BeltSpeed /\ x + 1 < BeltSpeed /\ s[n].progress = x + 1
    BY <1>1, <1>6, <2>1
  <2> QED
    BY <2>2
<1>10. ASSUME NEW m \in 1..Len(c), NEW n \in 1..Len(c), m < n, c[m].res = r, c[n].res = r
       PROVE  c[m].id < c[n].id /\ c[m].progress >= c[n].progress
  <2>1. Before(q, h[m], h[n])
    BY <1>5, <1>10
  <2>2. c[m].id < c[n].id
    BY <1>7, <1>10, <2>1 DEF Sorted
  <2>3. q[h[m]].progress \in Int /\ q[h[n]].progress \in Int
    BY <1>1, <1>7
  <2> QED
    BY <1>7, <2>1, <2>2, <2>3 DEF Before
<1>11. Older(c, s, r)
  <2> SUFFICES ASSUME NEW m \in 1..Len(c), NEW n \in 1..Len(s), c[m].res = r, s[n].res = r
               PROVE  c[m].id < s[n].id
    BY DEF Older
  <2>1. q[h[m]].progress \in Int /\ q[f[n]].progress \in Int
    BY <1>1, <1>6, <1>7
  <2>2. Before(q, h[m], f[n])
    <3>1. q[h[m]].progress \in {BeltSpeed - 1, BeltSpeed} /\ q[f[n]].progress + 1 < BeltSpeed
      BY <1>5, <1>6
    <3>2. q[h[m]].progress > q[f[n]].progress
      BY <2>1, <3>1
    <3> QED
      BY <3>2 DEF Before
  <2> QED
    BY <1>6, <1>7, <2>2 DEF Sorted
<1>12. ASSUME NEW n \in 1..Len(c), c[n].res = r, c[n].progress # BeltSpeed
       PROVE  Waits(q, r)
  <2>1. q[h[n]].progress = BeltSpeed
    BY <1>5, <1>7, <1>12
  <2> QED
    BY <1>7, <1>12, <2>1 DEF Waits
<1> QED
  BY <1>8, <1>9, <1>10, <1>11, <1>12

\* What holds of the items of two belts holds of those of both together.
LEMMA JoinedOrder ==
    ASSUME NEW T, NEW u \in Seq(T), NEW v \in Seq(T), NEW d, d = u \o v, NEW r
    PROVE  /\ \A p : Older(u, p, r) /\ Older(v, p, r) => Older(d, p, r)
           /\ \A p : Older(p, u, r) /\ Older(p, v, r) => Older(p, d, r)
           /\ Has(d, r) => Has(u, r) \/ Has(v, r)
           /\ Fresh(d, r) => Fresh(u, r) \/ Has(v, r)
<1>1. \A n \in 1..Len(d) : \/ n \in 1..Len(u) /\ d[n] = u[n]
                           \/ n - Len(u) \in 1..Len(v) /\ d[n] = v[n - Len(u)]
  <2>1. \A n \in 1..Len(u \o v) :
           \/ n \in 1..Len(u) /\ (u \o v)[n] = u[n]
           \/ n - Len(u) \in 1..Len(v) /\ (u \o v)[n] = v[n - Len(u)]
    BY Joined
  <2> QED
    BY <2>1
<1>2. \A n \in 1..Len(d) : \/ \E m \in 1..Len(u) : d[n] = u[m]
                           \/ \E m \in 1..Len(v) : d[n] = v[m]
  BY <1>1
<1>3. \A p : Older(u, p, r) /\ Older(v, p, r) => Older(d, p, r)
  BY <1>2 DEF Older
<1>4. \A p : Older(p, u, r) /\ Older(p, v, r) => Older(p, d, r)
  BY <1>2 DEF Older
<1>5. Has(d, r) => Has(u, r) \/ Has(v, r)
  BY <1>2 DEF Has
<1>6. Fresh(d, r) => Fresh(u, r) \/ Has(v, r)
  BY <1>2 DEF Has, Fresh
<1> QED
  BY <1>3, <1>4, <1>5, <1>6

\* The two parts of what came to the end.
LEMMA Halves ==
    ASSUME NEW T, NEW c \in Seq(T), NEW n \in 0..Len(c),
           NEW u, u = SubSeq(c, 1, n), NEW v, v = SubSeq(c, n + 1, Len(c))
    PROVE  /\ u \in Seq(T) /\ v \in Seq(T) /\ Len(c) \in Nat /\ n \in Nat
           /\ Len(u) = n /\ Len(v) = Len(c) - n
           /\ \A k \in 1..n : k \in 1..Len(c) /\ u[k] = c[k]
           /\ \A k \in 1..Len(v) : n + k \in 1..Len(c) /\ v[k] = c[n + k]
<1>1. Len(c) \in Nat /\ n \in Nat /\ n <= Len(c)
  OBVIOUS
<1>2. (\A i \in 1..n : c[i] \in T) /\ (\A i \in (n + 1)..Len(c) : c[i] \in T)
  BY <1>1, ElementOfSeq
<1>3. u \in Seq(T) /\ Len(u) = n /\ \A k \in 1..n : u[k] = c[k]
  BY <1>1, <1>2, SubSeqProperties
<1>4. v \in Seq(T) /\ Len(v) = Len(c) - n /\ \A k \in 1..(Len(c) - n) : v[k] = c[n + k]
  <2>1. n + 1 \in Int /\ Len(c) \in Int
    BY <1>1
  <2>2. /\ SubSeq(c, n + 1, Len(c)) \in Seq(T)
        /\ Len(SubSeq(c, n + 1, Len(c))) = IF n + 1 <= Len(c) THEN Len(c) - (n + 1) + 1 ELSE 0
        /\ \A i \in 1..(Len(c) - (n + 1) + 1) : SubSeq(c, n + 1, Len(c))[i] = c[(n + 1) + i - 1]
    BY <1>2, <2>1, SubSeqProperties
  <2>3. Len(c) - (n + 1) + 1 = Len(c) - n /\ \A i \in 1..(Len(c) - n) : (n + 1) + i - 1 = n + i
    BY <1>1
  <2>4. Len(SubSeq(c, n + 1, Len(c))) = Len(c) - n
    BY <1>1, <2>2
  <2>5. \A i \in 1..(Len(c) - n) : SubSeq(c, n + 1, Len(c))[i] = c[n + i]
    BY <2>2, <2>3
  <2> QED
    BY <2>2, <2>4, <2>5
<1>5. \A k \in 1..n : k \in 1..Len(c)
  BY <1>1
<1>6. \A k \in 1..Len(v) : k \in 1..(Len(c) - n) /\ n + k \in 1..Len(c)
  BY <1>1, <1>4
<1> QED
  BY <1>1, <1>3, <1>4, <1>5, <1>6

\* Items that are held back wait at the end, those taken over are at the start.
LEMMA HeldWait ==
    ASSUME BeltSpeed \in Nat \ {0}, NEW v \in Seq(Loads), NEW h, h = Held(v)
    PROVE  /\ h \in Seq(Items) /\ Len(h) = Len(v)
           /\ \A k \in 1..Len(v) : /\ h[k].id = v[k].id /\ h[k].res = v[k].res
                                   /\ h[k].progress = BeltSpeed
<1>1. h \in Seq(Items) /\ Alike(h, v)
  BY HeldItems
<1>2. ASSUME NEW k \in 1..Len(v)
      PROVE  h[k].progress = BeltSpeed
  <2>1. h[k] = [v[k] EXCEPT !.progress = BeltSpeed]
    BY DEF Held
  <2>2. v[k] \in Loads
    BY ElementOfSeq
  <2> QED
    BY <2>1, <2>2, ItemMoves
<1> QED
  BY <1>1, <1>2 DEF Alike

LEMMA EnteringStart ==
    ASSUME BeltSpeed \in Nat \ {0}, NEW u \in Seq(Loads),
           \A k \in 1..Len(u) : u[k].progress \in BeltSpeed..(BeltSpeed + 1), NEW w, w = Entering(u)
    PROVE  /\ w \in Seq(Items) /\ Len(w) = Len(u)
           /\ \A k \in 1..Len(u) : /\ w[k].id = u[k].id /\ w[k].res = u[k].res
                                   /\ w[k].progress = u[k].progress - BeltSpeed
<1>1. w \in Seq(Items) /\ Alike(w, u)
  BY EnteringItems
<1>2. ASSUME NEW k \in 1..Len(u)
      PROVE  w[k].progress = u[k].progress - BeltSpeed
  <2>1. w[k] = [u[k] EXCEPT !.progress = @ - BeltSpeed]
    BY DEF Entering
  <2>2. u[k] \in Loads
    BY ElementOfSeq
  <2> QED
    BY <2>1, <2>2, ItemMoves
<1> QED
  BY <1>1, <1>2 DEF Alike

\* b is s, and after it the items of c from the n-th on, held back at the end.
Piled(b, s, c, n) ==
    /\ Len(b) = Len(s) + (Len(c) - n)
    /\ \A m \in 1..Len(b) :
          \/ m \in 1..Len(s) /\ b[m] = s[m]
          \/ /\ m - Len(s) \in 1..(Len(c) - n)
             /\ b[m].id = c[n + (m - Len(s))].id /\ b[m].res = c[n + (m - Len(s))].res
             /\ b[m].progress = BeltSpeed

Rest(v, c, n) == Len(v) = Len(c) - n /\ \A k \in 1..Len(v) : v[k] = c[n + k]

\* The r of c are handed on from the oldest to the youngest.
InTurn(c, r) ==
    \A k, m \in 1..Len(c) : k < m /\ c[k].res = r /\ c[m].res = r => c[k].id < c[m].id

\* Every r of the first n of c was made before every r of b.
Went(c, n, b, r) ==
    \A k \in 1..n, m \in 1..Len(b) : c[k].res = r /\ b[m].res = r => c[k].id < b[m].id

LEMMA LeftItems ==
    ASSUME BeltSpeed \in Nat \ {0}, NEW s \in Seq(Items), NEW c, Len(c) \in Nat, NEW n \in 0..Len(c),
           NEW v \in Seq(Loads), Rest(v, c, n)
    PROVE  Len(s) \in Nat /\ Piled(s \o Held(v), s, c, n)
<1> DEFINE b == s \o Held(v)
<1>0. Len(v) = Len(c) - n /\ \A k \in 1..Len(v) : v[k] = c[n + k]
  BY DEF Rest
<1>1. PICK h : h = Held(v)
  OBVIOUS
<1>2. /\ h \in Seq(Items) /\ Len(h) = Len(v)
      /\ \A k \in 1..Len(v) : /\ h[k].id = v[k].id /\ h[k].res = v[k].res
                              /\ h[k].progress = BeltSpeed
  BY <1>1, HeldWait
<1>3. /\ Len(s) \in Nat /\ Len(s \o h) = Len(s) + Len(h)
      /\ \A m \in 1..Len(s \o h) :
            \/ m \in 1..Len(s) /\ (s \o h)[m] = s[m]
            \/ m - Len(s) \in 1..Len(h) /\ (s \o h)[m] = h[m - Len(s)]
  <2>1. h \in Seq(Items)
    BY <1>2
  <2> QED
    BY <2>1, Joined
<1>4. /\ Len(b) = Len(s) + Len(h)
      /\ \A m \in 1..Len(b) : \/ m \in 1..Len(s) /\ b[m] = s[m]
                              \/ m - Len(s) \in 1..Len(h) /\ b[m] = h[m - Len(s)]
  BY <1>1, <1>3
<1> HIDE DEF b
<1>5. \A m \in 1..Len(b) :
         \/ m \in 1..Len(s) /\ b[m] = s[m]
         \/ /\ m - Len(s) \in 1..Len(v)
            /\ b[m].id = v[m - Len(s)].id /\ b[m].res = v[m - Len(s)].res
            /\ b[m].progress = BeltSpeed
  BY <1>2, <1>4
<1>6. Len(b) = Len(s) + (Len(c) - n)
  BY <1>0, <1>2, <1>4
<1>7. ASSUME NEW m \in 1..Len(b)
      PROVE  \/ m \in 1..Len(s) /\ b[m] = s[m]
             \/ /\ m - Len(s) \in 1..(Len(c) - n)
                /\ b[m].id = c[n + (m - Len(s))].id /\ b[m].res = c[n + (m - Len(s))].res
                /\ b[m].progress = BeltSpeed
  BY <1>0, <1>5
<1>8. Piled(b, s, c, n)
  BY <1>6, <1>7 DEF Piled
<1> QED
  BY <1>3, <1>8 DEF b

LEMMA LeftInOrder ==
    ASSUME BeltSpeed \in Nat \ {0}, NEW r, NEW s, Len(s) \in Nat, NEW c, Len(c) \in Nat, Sorted(s, r),
           \A k \in 1..Len(s) : s[k].progress \in 1..(BeltSpeed - 1),
           InTurn(c, r), Older(c, s, r), NEW n \in 0..Len(c), NEW b, Piled(b, s, c, n)
    PROVE  /\ Sorted(b, r) /\ ~Fresh(b, r)
           /\ Waits(b, r) => n < Len(c)
           /\ Went(c, n, b, r)
<1> DEFINE Last(m) == n + (m - Len(s))
<1>1. ASSUME NEW m \in 1..Len(b)
      PROVE  \/ m \in 1..Len(s) /\ b[m] = s[m] /\ b[m].progress \in 1..(BeltSpeed - 1)
             \/ /\ Last(m) \in 1..Len(c) /\ Last(m) > n
                /\ b[m].id = c[Last(m)].id /\ b[m].res = c[Last(m)].res
                /\ b[m].progress = BeltSpeed
  BY DEF Piled
<1>2. \A m, k \in 1..Len(b) : m < k => Last(m) < Last(k)
  OBVIOUS
<1>0. \A k, m \in 1..Len(c) : k < m /\ c[k].res = r /\ c[m].res = r => c[k].id < c[m].id
  BY DEF InTurn
<1> HIDE DEF Last
<1>3. ASSUME NEW m \in 1..Len(b), NEW k \in 1..Len(b), b[m].res = r, b[k].res = r, Before(b, m, k)
      PROVE  b[m].id < b[k].id
  <2>1. CASE m \in 1..Len(s) /\ b[m] = s[m] /\ k \in 1..Len(s) /\ b[k] = s[k]
    <3>1. Before(s, m, k)
      BY <1>3, <2>1 DEF Before
    <3> QED
      BY <1>3, <2>1, <3>1 DEF Sorted
  <2>2. CASE /\ Last(m) \in 1..Len(c) /\ b[m].id = c[Last(m)].id /\ b[m].res = c[Last(m)].res
             /\ k \in 1..Len(s) /\ b[k] = s[k]
    BY <1>3, <2>2 DEF Older
  <2>3. CASE b[m].progress \in 1..(BeltSpeed - 1) /\ b[k].progress = BeltSpeed
    BY <1>3, <2>3 DEF Before
  <2>4. CASE /\ Last(m) \in 1..Len(c) /\ b[m].id = c[Last(m)].id /\ b[m].res = c[Last(m)].res
             /\ Last(k) \in 1..Len(c) /\ b[k].id = c[Last(k)].id /\ b[k].res = c[Last(k)].res
             /\ b[m].progress = BeltSpeed /\ b[k].progress = BeltSpeed
    <3>1. m < k
      BY <1>3, <2>4 DEF Before
    <3>2. Last(m) < Last(k)
      BY <1>2, <3>1
    <3> QED
      BY <1>0, <1>3, <2>4, <3>2
  <2> QED
    BY <1>1, <2>1, <2>2, <2>3, <2>4
<1>4. Sorted(b, r)
  BY <1>3 DEF Sorted
<1>5. \A m \in 1..Len(b) : b[m].progress # 0
  BY <1>1
<1>6. ~Fresh(b, r)
  BY <1>5 DEF Fresh
<1>7. ASSUME Waits(b, r)
      PROVE  n < Len(c)
  <2>1. PICK m \in 1..Len(b) : b[m].progress = BeltSpeed
    BY <1>7 DEF Waits
  <2> QED
    BY <1>1, <2>1
<1>8. ASSUME NEW k \in 1..n, NEW m \in 1..Len(b), c[k].res = r, b[m].res = r
      PROVE  c[k].id < b[m].id
  <2>1. k \in 1..Len(c)
    OBVIOUS
  <2>2. CASE m \in 1..Len(s) /\ b[m] = s[m]
    BY <1>8, <2>1, <2>2 DEF Older
  <2>3. CASE Last(m) \in 1..Len(c) /\ Last(m) > n /\ b[m].id = c[Last(m)].id /\ b[m].res = c[Last(m)].res
    <3>1. k < Last(m)
      BY <2>3
    <3> QED
      BY <1>0, <1>8, <2>1, <2>3, <3>1
  <2> QED
    BY <1>1, <2>2, <2>3
<1> QED
  BY <1>4, <1>6, <1>7, <1>8 DEF Went

\* A visit to a belt of the items q: c come to the end, of which the next belt
\* takes over the first n as w, and b is left.
Visited(q, c, n, w, b) ==
    /\ c = Completed(q)
    /\ n \in 0..Len(c)
    /\ w = Entering(SubSeq(c, 1, n))
    /\ b = Staying(q) \o Held(SubSeq(c, n + 1, Len(c)))

LEMMA BeltLeft ==
    ASSUME BeltSpeed \in Nat \ {0}, NEW q \in Seq(Items), Distinct(q), NEW r, Sorted(q, r),
           NEW c, NEW n, NEW w, NEW b, Visited(q, c, n, w, b)
    PROVE  /\ Sorted(b, r) /\ ComesFrom(b, q) /\ ~Fresh(b, r)
           /\ Waits(b, r) => n < Len(c)
           /\ Went(c, n, b, r)
<1>0. c = Completed(q) /\ n \in 0..Len(c)
  BY DEF Visited
<1>1. PICK s, v : s = Staying(q) /\ v = SubSeq(c, n + 1, Len(c))
  OBVIOUS
<1>2. /\ s \in Seq(Items) /\ c \in Seq(Loads) /\ ComesFrom(s, q) /\ ComesFrom(c, q)
  BY <1>0, <1>1, BeltParts
<1>3. /\ Sorted(s, r)
      /\ \A k \in 1..Len(s) : s[k].progress \in 1..(BeltSpeed - 1)
      /\ \A k, m \in 1..Len(c) : k < m /\ c[k].res = r /\ c[m].res = r => c[k].id < c[m].id
      /\ Older(c, s, r)
  BY <1>0, <1>1, MovedItems
<1>4. InTurn(c, r)
  BY <1>3 DEF InTurn
<1>5. v \in Seq(Loads) /\ Len(c) \in Nat /\ Rest(v, c, n)
  BY <1>0, <1>1, <1>2, Halves DEF Rest
<1>6. Len(s) \in Nat /\ Piled(b, s, c, n)
  <2>1. Len(s) \in Nat /\ Piled(s \o Held(v), s, c, n)
    BY <1>0, <1>2, <1>5, LeftItems
  <2> QED
    BY <1>1, <2>1 DEF Visited
<1>7. /\ Sorted(b, r) /\ ~Fresh(b, r)
      /\ Waits(b, r) => n < Len(c)
      /\ Went(c, n, b, r)
  BY <1>0, <1>3, <1>4, <1>5, <1>6, LeftInOrder
<1>8. ComesFrom(b, q)
  <2> SUFFICES ASSUME NEW m \in 1..Len(b)
               PROVE  \E k \in 1..Len(q) : b[m].id = q[k].id /\ b[m].res = q[k].res
    BY DEF ComesFrom
  <2>1. \/ m \in 1..Len(s) /\ b[m] = s[m]
        \/ /\ m - Len(s) \in 1..(Len(c) - n)
           /\ b[m].id = c[n + (m - Len(s))].id /\ b[m].res = c[n + (m - Len(s))].res
    BY <1>6 DEF Piled
  <2>2. m - Len(s) \in 1..(Len(c) - n) => n + (m - Len(s)) \in 1..Len(c)
    BY <1>0, <1>5, <1>6
  <2> QED
    BY <1>2, <2>1, <2>2 DEF ComesFrom
<1> QED
  BY <1>7, <1>8

\* The first n of c, at the start of the next belt; one that waited is a step ahead.
Starts(w, c, n) ==
    /\ Len(w) = n
    /\ \A k \in 1..n : /\ w[k].id = c[k].id /\ w[k].res = c[k].res
                       /\ w[k].progress = c[k].progress - BeltSpeed
                       /\ c[k].progress \in BeltSpeed..(BeltSpeed + 1)

LEMMA StartItems ==
    ASSUME BeltSpeed \in Nat \ {0}, NEW c \in Seq(Loads), NEW n \in 0..Len(c),
           \A k \in 1..Len(c) : c[k].progress \in BeltSpeed..(BeltSpeed + 1)
    PROVE  LET w == Entering(SubSeq(c, 1, n)) IN w \in Seq(Items) /\ Starts(w, c, n)
<1>1. PICK u : u = SubSeq(c, 1, n)
  OBVIOUS
<1>2. PICK w : w = Entering(u)
  OBVIOUS
<1>3. /\ u \in Seq(Loads) /\ Len(u) = n
      /\ \A k \in 1..n : k \in 1..Len(c) /\ u[k] = c[k]
  BY <1>1, Halves
<1>4. \A k \in 1..Len(u) : u[k].progress \in BeltSpeed..(BeltSpeed + 1)
  BY <1>3
<1>5. /\ w \in Seq(Items) /\ Len(w) = Len(u)
      /\ \A k \in 1..Len(u) : /\ w[k].id = u[k].id /\ w[k].res = u[k].res
                              /\ w[k].progress = u[k].progress - BeltSpeed
  BY <1>2, <1>3, <1>4, EnteringStart
<1>6. Starts(w, c, n)
  BY <1>3, <1>4, <1>5 DEF Starts
<1> QED
  BY <1>1, <1>2, <1>5, <1>6

LEMMA TakenInOrder ==
    ASSUME BeltSpeed \in Nat, BeltSpeed > 1, NEW r, NEW o, Len(o) \in Nat,
           \A k \in 1..Len(o) : o[k].progress \in Nat,
           NEW c, NEW n \in Nat, NEW w, Starts(w, c, n), NEW d,
           Len(d) = Len(o) + Len(w),
           \A m \in 1..Len(d) : \/ m \in 1..Len(o) /\ d[m] = o[m]
                                \/ m - Len(o) \in 1..Len(w) /\ d[m] = w[m - Len(o)],
           Sorted(o, r), Older(o, w, r),
           \A k, m \in 1..n : k < m /\ c[k].res = r /\ c[m].res = r =>
              c[k].id < c[m].id /\ c[k].progress >= c[m].progress,
           \A k \in 1..n : c[k].res = r /\ c[k].progress # BeltSpeed => ~Fresh(o, r)
    PROVE  Sorted(d, r) /\ (Waits(d, r) => Waits(o, r))
<1> DEFINE Last(m) == m - Len(o)
<1>1. ASSUME NEW m \in 1..Len(d)
      PROVE  \/ m \in 1..Len(o) /\ d[m] = o[m] /\ o[m].progress \in Nat
             \/ /\ Last(m) \in 1..n /\ m > Len(o)
                /\ d[m].id = c[Last(m)].id /\ d[m].res = c[Last(m)].res
                /\ d[m].progress = c[Last(m)].progress - BeltSpeed
                /\ c[Last(m)].progress \in BeltSpeed..(BeltSpeed + 1)
                /\ Last(m) \in 1..Len(w) /\ d[m] = w[Last(m)]
  BY DEF Starts
<1>2. \A m, k \in 1..Len(d) : m < k <=> Last(m) < Last(k)
  OBVIOUS
<1> HIDE DEF Last
<1>3. ASSUME NEW m \in 1..Len(d), NEW k \in 1..Len(d), d[m].res = r, d[k].res = r, Before(d, m, k)
      PROVE  d[m].id < d[k].id
  <2>1. CASE m \in 1..Len(o) /\ d[m] = o[m] /\ k \in 1..Len(o) /\ d[k] = o[k]
    <3>1. Before(o, m, k)
      BY <1>3, <2>1 DEF Before
    <3> QED
      BY <1>3, <2>1, <3>1 DEF Sorted
  <2>2. CASE /\ m \in 1..Len(o) /\ d[m] = o[m]
             /\ Last(k) \in 1..Len(w) /\ d[k] = w[Last(k)]
    BY <1>3, <2>2 DEF Older
  <2>3. CASE /\ Last(m) \in 1..n /\ m > Len(o) /\ d[m].res = c[Last(m)].res
             /\ d[m].progress = c[Last(m)].progress - BeltSpeed
             /\ c[Last(m)].progress \in BeltSpeed..(BeltSpeed + 1)
             /\ k \in 1..Len(o) /\ d[k] = o[k] /\ o[k].progress \in Nat
    <3>1. ~(m < k)
      BY <2>3
    <3>2. d[m].progress > d[k].progress
      BY <1>3, <3>1 DEF Before
    <3>3. d[k].progress = 0 /\ c[Last(m)].progress # BeltSpeed
      BY <2>3, <3>2
    <3>4. Fresh(o, r)
      BY <1>3, <2>3, <3>3 DEF Fresh
    <3> QED
      BY <1>3, <2>3, <3>3, <3>4
  <2>4. CASE /\ Last(m) \in 1..n /\ d[m].id = c[Last(m)].id /\ d[m].res = c[Last(m)].res
             /\ d[m].progress = c[Last(m)].progress - BeltSpeed
             /\ c[Last(m)].progress \in BeltSpeed..(BeltSpeed + 1)
             /\ Last(k) \in 1..n /\ d[k].id = c[Last(k)].id /\ d[k].res = c[Last(k)].res
             /\ d[k].progress = c[Last(k)].progress - BeltSpeed
             /\ c[Last(k)].progress \in BeltSpeed..(BeltSpeed + 1)
    <3>1. CASE m < k
      BY <1>2, <1>3, <2>4, <3>1
    <3>2. CASE ~(m < k)
      <4>1. d[m].progress > d[k].progress
        BY <1>3, <3>2 DEF Before
      <4>2. c[Last(m)].progress > c[Last(k)].progress
        BY <2>4, <4>1
      <4>3. m # k
        BY <2>4, <4>1
      <4>4. Last(k) < Last(m)
        BY <1>2, <3>2, <4>3
      <4>5. c[Last(k)].progress >= c[Last(m)].progress
        BY <1>3, <2>4, <4>4
      <4> QED
        BY <2>4, <4>2, <4>5
    <3> QED
      BY <3>1, <3>2
  <2> QED
    BY <1>1, <2>1, <2>2, <2>3, <2>4
<1>4. Sorted(d, r)
  BY <1>3 DEF Sorted
<1>5. ASSUME Waits(d, r)
      PROVE  Waits(o, r)
  <2>1. PICK m \in 1..Len(d) : d[m].res = r /\ d[m].progress = BeltSpeed
    BY <1>5 DEF Waits
  <2>2. m \in 1..Len(o) /\ d[m] = o[m]
    BY <1>1, <2>1
  <2> QED
    BY <2>1, <2>2 DEF Waits
<1> QED
  BY <1>4, <1>5

\* What the next belt holds after a visit.
LEMMA BeltTaken ==
    ASSUME BeltSpeed \in Nat, BeltSpeed > 1, NEW q \in Seq(Items), Distinct(q), NEW r, Sorted(q, r),
           NEW c, NEW n, NEW w, NEW b, Visited(q, c, n, w, b),
           NEW o \in Seq(Items), Sorted(o, r), Older(o, q, r),
           n > 0 /\ Waits(q, r) => ~Fresh(o, r)
    PROVE  /\ Sorted(o \o w, r)
           /\ Waits(o \o w, r) => Waits(o, r)
           /\ ComesFrom(w, q) /\ Older(w, b, r)
           /\ w \in Seq(Items) /\ Len(w) = n
<1> DEFINE d == o \o w
<1>0. c = Completed(q) /\ n \in 0..Len(c) /\ w = Entering(SubSeq(c, 1, n))
  BY DEF Visited
<1>1. /\ c \in Seq(Loads) /\ ComesFrom(c, q) /\ Len(c) \in Nat
      /\ \A k \in 1..Len(c) : c[k].progress \in BeltSpeed..(BeltSpeed + 1)
  BY <1>0, BeltParts
<1>2. w \in Seq(Items) /\ Starts(w, c, n)
  BY <1>0, <1>1, StartItems
<1>3. /\ \A k, m \in 1..Len(c) : k < m /\ c[k].res = r /\ c[m].res = r =>
            c[k].id < c[m].id /\ c[k].progress >= c[m].progress
      /\ \A k \in 1..Len(c) : c[k].res = r /\ c[k].progress # BeltSpeed => Waits(q, r)
  BY <1>0, MovedItems
<1>4. Went(c, n, b, r)
  BY BeltLeft
<1>5. /\ n \in Nat /\ \A k \in 1..n : k \in 1..Len(c) /\ n > 0
      /\ Len(w) = n /\ \A k \in 1..n : w[k].id = c[k].id /\ w[k].res = c[k].res
  BY <1>0, <1>1, <1>2 DEF Starts
<1>6. ComesFrom(w, q)
  BY <1>1, <1>5 DEF ComesFrom
<1>7. Older(w, b, r)
  BY <1>4, <1>5 DEF Went, Older
<1>8. Older(o, w, r)
  BY <1>6, OlderFrom
<1>9. /\ \A k, m \in 1..n : k < m /\ c[k].res = r /\ c[m].res = r =>
            c[k].id < c[m].id /\ c[k].progress >= c[m].progress
      /\ \A k \in 1..n : c[k].res = r /\ c[k].progress # BeltSpeed => ~Fresh(o, r)
  BY <1>3, <1>5
<1>10. /\ Len(o) \in Nat /\ Len(d) = Len(o) + Len(w)
       /\ \A m \in 1..Len(d) : \/ m \in 1..Len(o) /\ d[m] = o[m]
                               \/ m - Len(o) \in 1..Len(w) /\ d[m] = w[m - Len(o)]
  BY <1>2, Joined
<1>11. \A k \in 1..Len(o) : o[k].progress \in Nat
  <2>1. \A k \in 1..Len(o) : o[k] \in Items
    BY ElementOfSeq
  <2> QED
    BY <2>1 DEF Items
<1> HIDE DEF d
<1>12. Sorted(d, r) /\ (Waits(d, r) => Waits(o, r))
  BY <1>2, <1>5, <1>8, <1>9, <1>10, <1>11, TakenInOrder
<1> QED
  BY <1>2, <1>5, <1>6, <1>7, <1>12 DEF d

LEMMA JoinedOlder ==
    ASSUME NEW u \in Seq(Items), NEW v \in Seq(Items), NEW p, NEW r
    PROVE  /\ Older(u, p, r) /\ Older(v, p, r) => Older(u \o v, p, r)
           /\ Older(p, u, r) /\ Older(p, v, r) => Older(p, u \o v, r)
<1>1. PICK d : d = u \o v
  OBVIOUS
<1>2. /\ \A o : Older(u, o, r) /\ Older(v, o, r) => Older(d, o, r)
      /\ \A o : Older(o, u, r) /\ Older(o, v, r) => Older(o, d, r)
  BY <1>1, JoinedOrder
<1> QED
  BY <1>1, <1>2

\* The belt that i faces takes over w, the first n of c, for which it has the room.
HandedOn(E, F, i, c, n, w) ==
    \A k \in DOMAIN E \ {i} :
        IF Feeds(E[i], E[k])
        THEN /\ F[k].belt = E[k].belt \o w
             /\ n < Len(c) => Len(F[k].belt) = MaxBelt
             /\ n > 0 => Len(E[k].belt) < MaxBelt
        ELSE F[k].belt = E[k].belt

\* The r that belt i hands on go further down the way than i.
LEMMA CarriedOrdered ==
    ASSUME NEW E, NEW way, NEW r, Lines(E, way, r), NEW td,
           Ordered(E, "logistics", td, way, r), BeltSpeed \in Nat, BeltSpeed > 1,
           \A k, l \in DOMAIN E : E[k].at = E[l].at => k = l,
           \A k \in DOMAIN E : E[k].belt \in Seq(Items) /\ Distinct(E[k].belt),
           NEW i \in DOMAIN E, E[i].kind \in Belts, ~Feeds(E[i], E[i]),
           NEW c, NEW n, NEW w, NEW b, Visited(E[i].belt, c, n, w, b),
           NEW F, Kept(E, F), F[i].belt = b, HandedOn(E, F, i, c, n, w)
    PROVE  Ordered(F, "logistics", td \ {i}, way, r)
<1> DEFINE Fed(k) == k # i /\ Feeds(E[i], E[k])
<1>1. /\ DOMAIN F = DOMAIN E
      /\ \A k \in DOMAIN E : SameBuilding(F[k], E[k])
      /\ \A k \in DOMAIN E : F[k].at = E[k].at /\ F[k].kind = E[k].kind /\ way[E[k].at] \in Nat
  BY WayNumbers DEF Kept, SameBuilding
<1>2. E[i].belt \in Seq(Items) /\ Distinct(E[i].belt) /\ Sorted(E[i].belt, r)
  BY DEF Ordered
<1>3. /\ Sorted(b, r) /\ ComesFrom(b, E[i].belt) /\ ~Fresh(b, r)
      /\ Waits(b, r) => n < Len(c)
  BY <1>2, BeltLeft
<1>4. ASSUME NEW k \in DOMAIN E, Fed(k)
      PROVE  /\ Has(E[i].belt, r) => way[E[i].at] > 0 /\ way[E[k].at] = way[E[i].at] + 1
             /\ Older(E[k].belt, E[i].belt, r)
             /\ n > 0 /\ Waits(E[i].belt, r) => ~Fresh(E[k].belt, r)
  <2>1. Has(E[i].belt, r) => way[E[i].at] > 0 /\ way[E[k].at] = way[E[i].at] + 1
    BY <1>4 DEF Ordered, Located, Lines
  <2>2. CASE Has(E[i].belt, r)
    <3>1. way[E[k].at] > way[E[i].at]
      BY <1>1, <2>1, <2>2
    <3>2. Older(E[k].belt, E[i].belt, r)
      BY <3>1 DEF Ordered, Ranked
    <3>3. n > 0 /\ Waits(E[i].belt, r) /\ Fresh(E[k].belt, r) => FALSE
      <4>1. SUFFICES ASSUME n > 0, Waits(E[i].belt, r), Fresh(E[k].belt, r) PROVE FALSE
        OBVIOUS
      <4>2. Len(E[k].belt) = MaxBelt
        BY <1>4, <4>1 DEF Ordered, Stalled
      <4>3. Len(E[k].belt) < MaxBelt
        BY <1>4, <4>1 DEF HandedOn
      <4> QED
        BY <4>2, <4>3, FactoryAssumption
    <3> QED
      BY <2>1, <3>2, <3>3
  <2>3. CASE ~Has(E[i].belt, r)
    BY <2>1, <2>3 DEF Has, Older, Waits
  <2> QED
    BY <2>2, <2>3
<1>5. ASSUME NEW k \in DOMAIN E, Fed(k)
      PROVE  /\ F[k].belt = E[k].belt \o w
             /\ Sorted(F[k].belt, r)
             /\ Waits(F[k].belt, r) => Waits(E[k].belt, r)
             /\ ComesFrom(w, E[i].belt) /\ Older(w, b, r)
             /\ E[k].belt \in Seq(Items) /\ w \in Seq(Items) /\ Len(w) = n
  <2>1. E[k].belt \in Seq(Items) /\ Sorted(E[k].belt, r)
    BY DEF Ordered
  <2>2. F[k].belt = E[k].belt \o w
    BY <1>5 DEF HandedOn
  <2>3. /\ Sorted(E[k].belt \o w, r)
        /\ Waits(E[k].belt \o w, r) => Waits(E[k].belt, r)
        /\ ComesFrom(w, E[i].belt) /\ Older(w, b, r)
        /\ w \in Seq(Items) /\ Len(w) = n
    BY <1>2, <1>4, <1>5, <2>1, BeltTaken
  <2> QED
    BY <2>1, <2>2, <2>3
<1>6. \A k \in DOMAIN E : k # i /\ ~Fed(k) => F[k].belt = E[k].belt
  BY DEF HandedOn
<1>7. \A k, l \in DOMAIN E : Fed(k) /\ Fed(l) => k = l
  BY DEF Feeds
<1>8. \A k \in DOMAIN E : /\ k # i /\ Feeds(E[i], E[k]) => Fed(k)
                          /\ Fed(k) => /\ k # i
                                       /\ n < Len(c) => Len(F[k].belt) = MaxBelt
                                       /\ n > 0 => Len(E[k].belt) < MaxBelt
  BY DEF HandedOn
<1> HIDE DEF Fed
<1>9. ASSUME NEW k \in DOMAIN E, Fed(k), NEW p
       PROVE  /\ Older(E[k].belt, p, r) /\ Older(w, p, r) => Older(F[k].belt, p, r)
              /\ Older(p, E[k].belt, r) /\ Older(p, w, r) => Older(p, F[k].belt, r)
  <2>1. /\ E[k].belt \in Seq(Items) /\ w \in Seq(Items) /\ F[k].belt = E[k].belt \o w
    BY <1>5, <1>9
  <2>2. /\ Older(E[k].belt, p, r) /\ Older(w, p, r) => Older(E[k].belt \o w, p, r)
        /\ Older(p, E[k].belt, r) /\ Older(p, w, r) => Older(p, E[k].belt \o w, r)
    BY <2>1, JoinedOlder
  <2> QED
    BY <2>1, <2>2
<1>10. \A k \in DOMAIN F : Sorted(F[k].belt, r)
  BY <1>1, <1>3, <1>5, <1>6 DEF Ordered
<1>11. ASSUME NEW k \in DOMAIN E, Has(F[k].belt, r)
       PROVE  \/ Has(E[k].belt, r)
              \/ Fed(k) /\ Has(w, r) /\ Has(E[i].belt, r)
  <2>1. CASE k = i
    BY <1>3, <1>11, <2>1, OlderFrom
  <2>2. CASE Fed(k)
    <3>1. Has(E[k].belt, r) \/ Has(w, r)
      BY <1>5, <1>11, <2>2, JoinedOrder
    <3> QED
      BY <1>5, <2>2, <3>1, OlderFrom
  <2> QED
    BY <1>6, <1>11, <2>1, <2>2
<1>12. Located(F, way, r)
  <2> SUFFICES ASSUME NEW k \in DOMAIN F, Has(F[k].belt, r)
               PROVE  way[F[k].at] > 0
    BY DEF Located
  <2>1. CASE Has(E[k].belt, r)
    BY <1>1, <2>1 DEF Ordered, Located
  <2>2. CASE Fed(k) /\ Has(E[i].belt, r)
    BY <1>1, <1>4, <2>2
  <2> QED
    BY <1>1, <1>11, <2>1, <2>2
<1>13. Ranked(F, way, r)
  <2> SUFFICES ASSUME NEW k \in DOMAIN E, NEW l \in DOMAIN E, way[E[k].at] > way[E[l].at]
               PROVE  Older(F[k].belt, F[l].belt, r)
    BY <1>1 DEF Ranked
  <2>1. Older(E[k].belt, E[l].belt, r) /\ k # l
    BY <1>1 DEF Ordered, Ranked
  <2>2. \A o : ~Has(w, r) => Older(w, o, r) /\ Older(o, w, r)
    BY DEF Has, Older
  <2>3. ComesFrom(w, E[i].belt) /\ Has(w, r) => Has(E[i].belt, r)
    BY OlderFrom
  <2>4. CASE k = i
    <3>1. Older(b, E[l].belt, r)
      BY <1>3, <2>1, <2>4, OlderFrom
    <3>2. CASE Fed(l)
      <4>1. ~Has(w, r)
        BY <1>1, <1>4, <1>5, <2>3, <2>4, <3>2
      <4>2. Older(b, w, r)
        BY <2>2, <4>1
      <4> QED
        BY <1>9, <2>4, <3>1, <3>2, <4>2
    <3> QED
      BY <1>6, <2>1, <2>4, <3>1, <3>2
  <2>5. CASE Fed(k)
    <3>1. Older(E[k].belt, F[l].belt, r) /\ Older(w, F[l].belt, r)
      <4>1. CASE l = i
        <5>1. Older(E[k].belt, b, r)
          BY <1>3, <2>1, <4>1, OlderFrom
        <5> QED
          BY <1>5, <2>5, <4>1, <5>1
      <4>2. CASE l # i
        <5>1. F[l].belt = E[l].belt
          BY <1>6, <1>7, <2>1, <2>5, <4>2
        <5>2. Older(w, E[l].belt, r)
          <6>1. CASE ~Has(w, r)
            BY <2>2, <6>1
          <6>2. CASE Has(w, r)
            <7>1. way[E[i].at] > 0 /\ way[E[k].at] = way[E[i].at] + 1
              BY <1>4, <1>5, <2>3, <2>5, <6>2
            <7>2. way[E[l].at] # way[E[i].at]
              BY <4>2, <7>1 DEF Lines
            <7>3. way[E[i].at] > way[E[l].at]
              <8>1. way[E[i].at] \in Nat /\ way[E[l].at] \in Nat /\ way[E[k].at] \in Nat
                BY <1>1
              <8> QED
                BY <7>1, <7>2, <8>1
            <7>4. Older(E[i].belt, E[l].belt, r)
              BY <7>3 DEF Ordered, Ranked
            <7> QED
              <8>1. ComesFrom(w, E[i].belt)
                BY <1>5, <2>5
              <8> QED
                BY <7>4, <8>1, OlderFrom
          <6> QED
            BY <6>1, <6>2
        <5> QED
          BY <2>1, <5>1, <5>2
      <4> QED
        BY <4>1, <4>2
    <3> QED
      BY <1>9, <2>5, <3>1
  <2>6. CASE k # i /\ ~Fed(k)
    <3>1. F[k].belt = E[k].belt
      BY <1>6, <2>6
    <3>2. CASE l = i
      BY <1>3, <2>1, <3>1, <3>2, OlderFrom
    <3>3. CASE Fed(l)
      <4>1. Older(E[k].belt, w, r)
        <5>1. CASE ~Has(w, r)
          BY <2>2, <5>1
        <5>2. CASE Has(w, r)
          <6>1. way[E[l].at] = way[E[i].at] + 1
            BY <1>4, <1>5, <2>3, <3>3, <5>2
          <6>2. way[E[k].at] > way[E[i].at]
            <7>1. way[E[i].at] \in Nat /\ way[E[l].at] \in Nat /\ way[E[k].at] \in Nat
              BY <1>1
            <7> QED
              BY <6>1, <7>1
          <6>3. Older(E[k].belt, E[i].belt, r)
            BY <6>2 DEF Ordered, Ranked
          <6> QED
            BY <1>5, <3>3, <6>3, OlderFrom
        <5> QED
          BY <5>1, <5>2
      <4> QED
        BY <1>9, <2>1, <3>1, <3>3, <4>1
    <3> QED
      BY <1>6, <2>1, <3>1, <3>2, <3>3
  <2> QED
    BY <2>4, <2>5, <2>6
<1>14. Stalled(F, "logistics", td \ {i}, r)
  <2> SUFFICES ASSUME NEW x \in DOMAIN E, NEW y \in DOMAIN E, Feeds(F[x], F[y]),
                      F[x].kind \in Belts, Waits(F[x].belt, r), Fresh(F[y].belt, r)
               PROVE  /\ Len(F[y].belt) = MaxBelt
                      /\ x \in td \ {i} => y \in td \ {i}
    BY <1>1 DEF Stalled
  <2>1. Feeds(E[x], E[y]) /\ E[x].kind \in Belts
    BY <1>1, SameFeeds
  <2>2. y # i
    BY <1>3
  <2>3. CASE x = i
    <3>1. Fed(y) /\ n < Len(c)
      BY <1>3, <1>8, <2>1, <2>2, <2>3
    <3> QED
      BY <1>8, <2>3, <3>1
  <2>4. CASE x # i
    <3>1. Waits(E[x].belt, r)
      BY <1>5, <1>6, <2>4
    <3>2. Has(E[x].belt, r)
      BY <3>1 DEF Has, Waits
    <3>3. way[E[x].at] > 0 /\ way[E[y].at] = way[E[x].at] + 1
      BY <2>1, <3>2 DEF Ordered, Located, Lines
    <3>4. CASE ~Fed(y)
      <4>1. F[y].belt = E[y].belt
        BY <1>6, <2>2, <3>4
      <4> QED
        BY <2>1, <2>2, <3>1, <4>1 DEF Ordered, Stalled
    <3>5. CASE Fed(y)
      <4>1. Fresh(E[y].belt, r) \/ Has(w, r)
        BY <1>5, <3>5, JoinedOrder
      <4>2. ~Has(w, r)
        <5>1. SUFFICES ASSUME Has(w, r) PROVE FALSE
          OBVIOUS
        <5>2. way[E[i].at] > 0 /\ way[E[y].at] = way[E[i].at] + 1
          BY <1>4, <1>5, <3>5, <5>1, OlderFrom
        <5>3. way[E[x].at] = way[E[i].at]
          <6>1. way[E[i].at] \in Nat /\ way[E[x].at] \in Nat
            BY <1>1
          <6> QED
            BY <3>3, <5>2, <6>1
        <5> QED
          BY <2>4, <3>3, <5>3 DEF Lines
      <4>3. /\ Len(E[y].belt) = MaxBelt
            /\ x \in td => y \in td
        BY <2>1, <3>1, <4>1, <4>2 DEF Ordered, Stalled
      <4>4. n = 0
        <5>1. n \in 0..Len(c) /\ Len(c) \in Nat
          BY <1>2, BeltParts DEF Visited
        <5>2. ~(n > 0)
          BY <1>8, <3>5, <4>3, FactoryAssumption
        <5> QED
          BY <5>1, <5>2
      <4>5. Len(E[y].belt \o w) = Len(E[y].belt) + 0
        BY <1>5, <3>5, <4>4, Joined
      <4> QED
        BY <1>5, <2>2, <3>5, <4>3, <4>5, FactoryAssumption
    <3> QED
      BY <3>4, <3>5
  <2> QED
    BY <2>3, <2>4
<1> QED
  BY <1>10, <1>12, <1>13, <1>14 DEF Ordered

-----------------------------------------------------------------------------
(* The machines *)

LEMMA SoundBelts ==
    ASSUME NEW E, NEW n, Sound(E, n), NEW k \in DOMAIN E
    PROVE  E[k].belt \in Seq(Items) /\ Distinct(E[k].belt) /\ E[k] \in Entities
<1>1. Fine(E[k], n)
  BY DEF Sound
<1> QED
  BY <1>1, FineEntity DEF Fine

\* The belts are as they were, outside the pass over the belts.
LEMMA SameBeltsOrdered ==
    ASSUME NEW E, NEW n, Sound(E, n), NEW ph, NEW td, NEW way, NEW r, Lines(E, way, r),
           Ordered(E, ph, td, way, r), NEW F, Kept(E, F),
           \A k \in DOMAIN E : F[k].belt = E[k].belt, NEW ps, ps # "logistics", NEW ts
    PROVE  Ordered(F, ps, ts, way, r)
<1>1. \A k \in DOMAIN E : E[k].belt \in Seq(Items)
  BY SoundBelts
<1>2. \A k \in DOMAIN F : k \in DOMAIN E /\ SameBuilding(F[k], E[k]) /\ F[k].belt = E[k].belt
  BY DEF Kept
<1> QED
  BY <1>1, <1>2, ThinsOrdered

\* A unit that is put in a stock moves no item.
LEMMA StockPut ==
    ASSUME NEW E, NEW n, Sound(E, n), NEW i \in DOMAIN E, NEW r \in Resources,
           NEW F, F = WithStock(E, i, [E[i].stock EXCEPT ![r] = @ + 1])
    PROVE  Kept(E, F) /\ \A k \in DOMAIN E : F[k].belt = E[k].belt
<1>1. E[i].stock \in [Resources -> Nat] /\ E[i].stock[r] \in Nat
  BY FineEntity DEF Sound
<1>2. PICK s : s = [E[i].stock EXCEPT ![r] = @ + 1]
  OBVIOUS
<1>3. s \in [Resources -> Nat]
  BY <1>1, <1>2
<1>4. Kept(E, F) /\ F[i].belt = E[i].belt /\ \A k \in DOMAIN E \ {i} : F[k] = E[k]
  BY <1>2, <1>3, StockOne
<1> QED
  BY <1>4

\* A machine pushes what it makes into whatever it faces.
LEMMA ReceiveOrders ==
    ASSUME NEW E, Sound(E, nextItemID), NEW m, NEW i \in DOMAIN E, NEW s \in Resources,
           ReceiveInto(E, m, i, s), NEW td, NEW way, NEW r, Lines(E, way, r),
           Ordered(E, "systems", td, way, r), s = r => Makes(game.ore, E[i], r), NEW ts
    PROVE  Ordered(ent', "systems", ts, way, r)
<1> DEFINE G == WithStock(E, i, [E[i].stock EXCEPT ![s] = @ - 1])
<1>1. CASE ent' = E
  <2>1. Kept(E, E)
    BY DEF Kept, SameBuilding
  <2> QED
    BY <1>1, <2>1, SameBeltsOrdered
<1>2. ASSUME E[i].stock[s] > 0
      PROVE  /\ Sound(G, nextItemID) /\ Kept(E, G)
             /\ \A k \in DOMAIN E : G[k].belt = E[k].belt
             /\ Ordered(G, "systems", ts, way, r)
  <2>1. /\ Sound(G, nextItemID) /\ Kept(E, G)
        /\ \A k \in DOMAIN E : G[k].belt = E[k].belt
    BY <1>2, OneLess
  <2>2. PICK H : H = G
    OBVIOUS
  <2>3. Ordered(H, "systems", ts, way, r)
    BY <2>1, <2>2, SameBeltsOrdered
  <2> QED
    BY <2>1, <2>2, <2>3
<1>3. G = [E EXCEPT ![i].stock[s] = @ - 1]
  BY DEF WithStock
<1>4. \/ ent' = E
      \/ \E j \in DOMAIN E :
            /\ Receives(E, i, j, s)
            /\ E[j].at = Ahead(E[i])
            /\ \/ ent' = G
               \/ E[j].kind \in Belts /\ ent' = WithBelt(G, j, Append(G[j].belt, NewItem(s)))
               \/ ent' = WithStock(G, j, [G[j].stock EXCEPT ![s] = @ + 1])
  BY <1>3 DEF ReceiveInto, At, WithStock, WithBelt
<1> HIDE DEF G
<1>5. ASSUME NEW j \in DOMAIN E, Receives(E, i, j, s), E[j].at = Ahead(E[i]), E[j].kind \in Belts,
             ent' = WithBelt(G, j, Append(G[j].belt, NewItem(s)))
      PROVE  Ordered(ent', "systems", ts, way, r)
  <2>1. /\ E[i].stock[s] > 0 /\ CornerAcceptsFrom(E[i], E[j]) /\ Len(E[j].belt) < MaxBelt
    BY <1>5 DEF Receives, Belts
  <2>2. /\ Sound(G, nextItemID) /\ Kept(E, G) /\ Ordered(G, "systems", ts, way, r)
        /\ DOMAIN G = DOMAIN E /\ SameBuilding(G[j], E[j]) /\ G[j].belt = E[j].belt
    BY <1>2, <2>1 DEF Kept
  <2>3. Lines(G, way, r)
    BY <2>2, LinesStay
  <2>4. PICK x : x = NewItem(s)
    OBVIOUS
  <2>5. /\ nextItemID \in Nat /\ BeltSpeed \in Nat \ {0}
        /\ x = [id |-> nextItemID + 1, res |-> s, progress |-> 0]
    BY <2>4, FactoryAssumption DEF NewItem, Sound
  <2>6. x \in Items /\ x.id = nextItemID + 1 /\ x.progress = 0 /\ x.res = s
    BY <2>5 DEF Items
  <2>7. x.res = r => way[G[j].at] = 1
    <3>1. Feeds(E[i], E[j])
      BY <1>5, <2>1 DEF Feeds
    <3> QED
      BY <2>2, <2>6, <3>1 DEF Lines, SameBuilding
  <2>8. ent' = WithBelt(G, j, Append(G[j].belt, x))
    BY <1>5, <2>4
  <2>9. Kept(G, ent')
    BY <1>5, <2>1, <2>2, <2>5, <2>8, ItemEnters DEF SameBuilding
  <2>10. /\ ent'[j].belt = Append(G[j].belt, x)
         /\ \A k \in DOMAIN G \ {j} : ent'[k].belt = G[k].belt
    <3>1. G = [k \in DOMAIN G |-> G[k]] /\ j \in DOMAIN G /\ G[j] \in Entities
      BY <2>2, SoundBelts DEF Sound
    <3>2. [G[j] EXCEPT !.belt = Append(G[j].belt, x)].belt = Append(G[j].belt, x)
      BY <3>1 DEF Entities
    <3> QED
      BY <2>8, <3>1, <3>2 DEF WithBelt
  <2>11. j \in DOMAIN G /\ G[j].kind \in Belts /\ Len(G[j].belt) < MaxBelt /\ BeltSpeed > 0
    BY <1>5, <2>1, <2>2, <2>5 DEF SameBuilding
  <2> QED
    BY <2>2, <2>3, <2>5, <2>6, <2>7, <2>9, <2>10, <2>11, EntersOrdered
<1>6. ASSUME NEW j \in DOMAIN E, Receives(E, i, j, s),
             ent' = WithStock(G, j, [G[j].stock EXCEPT ![s] = @ + 1])
      PROVE  Ordered(ent', "systems", ts, way, r)
  <2>1. E[i].stock[s] > 0
    BY <1>6 DEF Receives
  <2>2. /\ Sound(G, nextItemID) /\ Kept(E, G) /\ Ordered(G, "systems", ts, way, r) /\ DOMAIN G = DOMAIN E
    BY <1>2, <2>1 DEF Kept
  <2>3. Lines(G, way, r)
    BY <2>2, LinesStay
  <2>4. Kept(G, ent') /\ \A k \in DOMAIN G : ent'[k].belt = G[k].belt
    BY <1>6, <2>2, StockPut
  <2> QED
    BY <2>2, <2>3, <2>4, SameBeltsOrdered
<1>7. ASSUME NEW j \in DOMAIN E, Receives(E, i, j, s), ent' = G
      PROVE  Ordered(ent', "systems", ts, way, r)
  BY <1>2, <1>7 DEF Receives
<1> QED
  BY <1>1, <1>4, <1>5, <1>6, <1>7

\* Who is visited as a machine works.
LEMMA VisitedWorks ==
    ASSUME GoodsInv, NEW i, Visiting("systems", i)
    PROVE  /\ phase = "systems" /\ phase' = "systems" /\ i \in DOMAIN ent /\ Works(ent[i])
           /\ RecipeOf(i) = Buildings[ent[i].kind].recipe
  BY DEF GoodsInv, FactoryInv, VisitsKept, Visiting, Machines, Works, RecipeOf

\* Pulling takes items off a belt into which only machines push.
LEMMA PullOrders ==
    ASSUME GoodsInv, NEW i, Produces(i), NEW way, NEW r, Lines(ent, way, r),
           NEW td, Ordered(ent, "systems", td, way, r), NEW ts, NEW E, E = Pull(i).ent
    PROVE  Ordered(E, "systems", ts, way, r) /\ Lines(E, way, r) /\ Kept(ent, E) /\ Sound(E, nextItemID)
<1>1. /\ Visiting("systems", i) /\ ~RecipeOf(i).extraction /\ Sound(ent, nextItemID)
      /\ Sound(E, nextItemID) /\ Kept(ent, E)
  BY PullGoods DEF Produces, GoodsInv, Goods
<1>2. Lines(E, way, r)
  BY <1>1, LinesStay
<1>3. CASE E = ent
  BY <1>1, <1>3, SameBeltsOrdered
<1>4. CASE E # ent
  <2> DEFINE j == CHOOSE j \in At(ent, Behind(ent[i])) : TRUE
  <2>1. E = Taken(i, j) /\ ~NothingBehind(i)
    BY <1>4 DEF Pull
  <2>2. j \in At(ent, Behind(ent[i]))
    BY <2>1 DEF NothingBehind
  <2> HIDE DEF j
  <2>3. j \in DOMAIN ent /\ ent[j].at = Behind(ent[i]) /\ i \in DOMAIN ent
    BY <1>1, <2>2, VisitedWorks DEF At
  <2>4. way[ent[j].at] <= 1
    <3>1. Crafts(ent[i])
      BY <1>1, VisitedWorks DEF Crafts
    <3> QED
      BY <2>3, <3>1 DEF Lines
  <2>5. PICK take : take = PulledFrom(i, j)
    OBVIOUS
  <2>6. PICK b : b = RemoveItems(ent[j].belt, take)
    OBVIOUS
  <2>7. ent[j].belt \in Seq(Items)
    BY <1>1, <2>3, SoundBelts
  <2>8. Thinned(b, ent[j].belt) /\ b \in Seq(Items)
    <3> DEFINE q == ent[j].belt
               S == {n \in 1..Len(q) : CountOf(SubSeq(q, 1, n), q[n].res) > take[q[n].res]}
    <3>1. S \in SUBSET (1..Len(q)) /\ b = Picked(q, S) /\ q \in Seq(Items)
      BY <2>6, <2>7 DEF RemoveItems
    <3> HIDE DEF q, S
    <3>2. Thinned(b, q)
      BY <3>1, PickedThinned
    <3>3. b \in Seq(Items)
      BY <3>1, PickedInOrder
    <3> QED
      BY <3>2, <3>3 DEF q
  <2>9. /\ E[j].belt = b
        /\ \A k \in DOMAIN ent \ {j} : E[k].belt = ent[k].belt
    <3>1. PICK s, t : E = [ent EXCEPT ![i].stock = s, ![j].belt = b, ![j].stock = t]
      BY <2>1, <2>5, <2>6 DEF Taken
    <3>2. ent = [k \in DOMAIN ent |-> ent[k]] /\ ent[i] \in Entities /\ ent[j] \in Entities
      BY <1>1, <2>3, SoundBelts DEF Sound
    <3>3. i # j
      <4>1. ent[i].at \in Int \X Int /\ ent[i].dir \in Directions
        BY <3>2, FiniteGame, EntityFields DEF GoodsInv, FactoryInv
      <4>2. Behind(ent[i]) # ent[i].at
        BY <4>1, BesideElsewhere DEF Behind, Directions
      <4> QED
        BY <2>3, <4>2
    <3>4. PICK e, f : /\ e = [ent[i] EXCEPT !.stock = s]
                      /\ f = [[ent[j] EXCEPT !.belt = b] EXCEPT !.stock = t]
      OBVIOUS
    <3>5. e.belt = ent[i].belt /\ f.belt = b
      BY <3>2, <3>4 DEF Entities
    <3>6. E = [ent EXCEPT ![i] = e, ![j] = f]
      BY <2>3, <3>1, <3>2, <3>3, <3>4
    <3>7. E[i] = e /\ E[j] = f /\ \A k \in DOMAIN ent \ {i, j} : E[k] = ent[k]
      BY <2>3, <3>2, <3>3, <3>6
    <3> QED
      BY <3>5, <3>7
  <2>10. \A k \in DOMAIN E :
            /\ k \in DOMAIN ent /\ SameBuilding(E[k], ent[k])
            /\ \/ E[k].belt = ent[k].belt
               \/ /\ E[k].belt \in Seq(Items) /\ Thinned(E[k].belt, ent[k].belt)
                  /\ way[ent[k].at] <= 1
    BY <1>1, <2>4, <2>8, <2>9 DEF Kept
  <2>11. \A k \in DOMAIN ent : ent[k].belt \in Seq(Items)
    BY <1>1, SoundBelts
  <2>12. Ordered(E, "systems", ts, way, r)
    BY <2>10, <2>11, ThinsOrdered
  <2> QED
    BY <1>1, <1>2, <2>12
<1> QED
  BY <1>1, <1>2, <1>3, <1>4

\* A step that only sets the progress of a machine.
LEMMA ProgressOrders ==
    ASSUME NEW E, NEW n, Sound(E, n), NEW i \in DOMAIN E, NEW v \in Nat, NEW F,
           F = WithProgress(E, i, v), NEW ph, NEW td, NEW way, NEW r, Lines(E, way, r),
           Ordered(E, ph, td, way, r), NEW ts
    PROVE  Ordered(F, "systems", ts, way, r)
<1>1. Kept(E, F) /\ F[i].belt = E[i].belt /\ \A k \in DOMAIN E \ {i} : F[k] = E[k]
  BY ProgressOne
<1>2. \A k \in DOMAIN E : F[k].belt = E[k].belt
  BY <1>1
<1> QED
  BY <1>1, <1>2, SameBeltsOrdered

LEMMA IdleOrders ==
    ASSUME GoodsInv, NEW i, NoDeposit(i) \/ StorageFull(i) \/ Dig(i), NEW way, NEW r,
           Lines(ent, way, r), Ordered(ent, phase, todo, way, r)
    PROVE  Ordered(ent', phase', todo', way, r)
<1>1. Visiting("systems", i)
  BY DEF NoDeposit, StorageFull, Dig, Digs, Extracts
<1>2. /\ phase = "systems" /\ phase' = "systems" /\ i \in DOMAIN ent /\ ent[i].progress \in Nat
      /\ Sound(ent, nextItemID)
  BY <1>1, VisitedWorks, MachineGoods
<1>3. \E v \in Nat : ent' = WithProgress(ent, i, v)
  <2>1. CASE NoDeposit(i) \/ StorageFull(i)
    BY <2>1 DEF NoDeposit, StorageFull, Rests, WithProgress
  <2>2. CASE Dig(i)
    <3>1. ent' = WithProgress(ent, i, ent[i].progress + 1)
      BY <2>2 DEF Dig, Rests, WithProgress
    <3>2. ent[i].progress + 1 \in Nat
      BY <1>2
    <3> QED
      BY <3>1, <3>2
  <2> QED
    BY <2>1, <2>2
<1> QED
  BY <1>2, <1>3, ProgressOrders

LEMMA WorkOrders ==
    ASSUME GoodsInv, NEW i, Work(i), NEW way, NEW r,
           Lines(ent, way, r), Ordered(ent, phase, todo, way, r)
    PROVE  Ordered(ent', phase', todo', way, r)
<1>1. PICK E : E = Pull(i).ent
  OBVIOUS
<1>2. Produces(i) /\ Visiting("systems", i)
  BY DEF Work, Produces
<1>3. phase = "systems" /\ phase' = "systems" /\ i \in DOMAIN ent
  BY <1>2, VisitedWorks
<1>4. Ordered(E, "systems", todo, way, r) /\ Lines(E, way, r) /\ Kept(ent, E) /\ Sound(E, nextItemID)
  BY <1>1, <1>2, <1>3, PullOrders
<1>5. i \in DOMAIN E /\ E[i].progress \in Nat /\ RecipeOf(i).ticks \in Nat
  <2>1. i \in DOMAIN E
    BY <1>3, <1>4 DEF Kept
  <2>2. E[i].progress \in Nat
    BY <1>4, <2>1, FineEntity DEF Sound
  <2> QED
    BY <1>2, <2>1, <2>2, MachineGoods DEF Recipes
<1>6. PICK v : v = IF E[i].progress + 1 < RecipeOf(i).ticks THEN E[i].progress + 1 ELSE RecipeOf(i).ticks
  OBVIOUS
<1>7. v \in Nat /\ ent' = WithProgress(E, i, v)
  BY <1>1, <1>5, <1>6 DEF Work, Rests, WithProgress
<1> QED
  BY <1>3, <1>4, <1>5, <1>7, ProgressOrders

\* What there is to dig is what there was at first, or nothing.
OreStays == \A p \in Tiles : deposit[p].res \in {game.ore[p].res, NoRes}

LEMMA MineOrders ==
    ASSUME GoodsInv, OreStays, NEW i, Mine(i), NEW way, NEW r,
           Lines(ent, way, r), Ordered(ent, phase, todo, way, r)
    PROVE  Ordered(ent', phase', todo', way, r)
<1>1. PICK s, E, A : /\ s = deposit[ent[i].at].res /\ E = Mined(i, s)
                     /\ A = WithStock(ent, i, [ent[i].stock EXCEPT ![s] = @ + 1])
  OBVIOUS
<1>2. /\ Visiting("systems", i) /\ s # NoRes /\ RecipeOf(i).extraction
      /\ \E m : ReceiveInto(E, m, i, s)
  BY <1>1 DEF Mine, Digs, Extracts
<1>3. /\ phase = "systems" /\ phase' = "systems" /\ i \in DOMAIN ent /\ Works(ent[i])
      /\ RecipeOf(i) = Buildings[ent[i].kind].recipe
      /\ Sound(ent, nextItemID) /\ ent[i].at \in Tiles
  BY <1>2, VisitedWorks, MachineGoods
<1>4. s \in Resources /\ s = game.ore[ent[i].at].res
  BY <1>1, <1>2, <1>3 DEF OreStays, GoodsInv, FactoryInv, LandKept, Deposits
<1>5. Kept(ent, A) /\ (\A k \in DOMAIN ent : A[k].belt = ent[k].belt) /\ Sound(A, nextItemID)
  BY <1>1, <1>3, <1>4, StockPut, OneMore
<1>6. i \in DOMAIN A
  BY <1>3, <1>5 DEF Kept
<1>7. E = WithProgress(A, i, 0)
  BY <1>1 DEF Mined, WithProgress, WithStock
<1>8. Lines(A, way, r) /\ Ordered(A, "systems", todo, way, r)
  BY <1>3, <1>5, LinesStay, SameBeltsOrdered
<1>9. Sound(E, nextItemID) /\ Kept(A, E)
  BY <1>5, <1>6, <1>7, ProgressOne
<1>10. /\ Ordered(E, "systems", todo, way, r) /\ Lines(E, way, r) /\ i \in DOMAIN E
       /\ SameBuilding(E[i], A[i]) /\ SameBuilding(A[i], ent[i])
  <2>1. Ordered(E, "systems", todo, way, r)
    BY <1>5, <1>6, <1>7, <1>8, ProgressOrders
  <2>2. Lines(E, way, r)
    BY <1>8, <1>9, LinesStay
  <2> QED
    BY <1>3, <1>5, <1>6, <1>9, <2>1, <2>2 DEF Kept
<1>11. s = r => Makes(game.ore, E[i], r)
  <2>1. s = r => Makes(game.ore, ent[i], r)
    BY <1>2, <1>3, <1>4 DEF Makes, Crafts
  <2>2. SameBuilding(E[i], ent[i])
    BY <1>10 DEF SameBuilding
  <2> QED
    BY <2>1, <2>2, SameFeeds
<1>12. PICK m : ReceiveInto(E, m, i, s)
  BY <1>2
<1> QED
  BY <1>3, <1>4, <1>9, <1>10, <1>11, <1>12, ReceiveOrders

LEMMA CraftOrders ==
    ASSUME GoodsInv, NEW i, Craft(i), NEW way, NEW r,
           Lines(ent, way, r), Ordered(ent, phase, todo, way, r)
    PROVE  Ordered(ent', phase', todo', way, r)
<1>1. PICK E, rec : E = Pull(i).ent /\ rec = RecipeOf(i)
  OBVIOUS
<1>2. PICK s : s = [u \in Resources |-> E[i].stock[u] - rec.input[u]
                                        + (IF u = rec.output THEN rec.qty ELSE 0)]
  OBVIOUS
<1>3. PICK A : A = WithProgress(E, i, 0)
  OBVIOUS
<1>4. PICK G : G = WithStock(A, i, s)
  OBVIOUS
<1>5. Produces(i) /\ Visiting("systems", i) /\ ~rec.extraction
  BY <1>1 DEF Craft, Produces
<1>6. /\ phase = "systems" /\ phase' = "systems" /\ i \in DOMAIN ent /\ Works(ent[i])
      /\ rec = Buildings[ent[i].kind].recipe /\ rec \in Recipes /\ ent[i].kind \in DOMAIN Buildings
      /\ rec # NoRecipe
  BY <1>1, <1>5, VisitedWorks, MachineGoods
<1>7. Ordered(E, "systems", todo, way, r) /\ Lines(E, way, r) /\ Kept(ent, E) /\ Sound(E, nextItemID)
  BY <1>1, <1>5, <1>6, PullOrders
<1>8. i \in DOMAIN E
  BY <1>6, <1>7 DEF Kept
<1>9. E[i].stock \in [Resources -> Nat] /\ \A u \in Resources : E[i].stock[u] >= rec.input[u]
  BY <1>1, <1>7, <1>8, FineEntity DEF Craft, HasInputs, Sound
<1>10. s \in [Resources -> Nat]
  BY <1>2, <1>5, <1>6, <1>9, CraftedWorth
<1>11. /\ Sound(A, nextItemID) /\ Kept(E, A) /\ A[i].stock = E[i].stock
       /\ Ordered(A, "systems", todo, way, r)
  BY <1>3, <1>7, <1>8, ProgressOne, ProgressOrders
<1>12. Lines(A, way, r) /\ i \in DOMAIN A
  BY <1>7, <1>8, <1>11, LinesStay DEF Kept
<1>13. /\ Sound(G, nextItemID) /\ Kept(A, G)
       /\ \A k \in DOMAIN A : G[k].belt = A[k].belt
  <2>1. /\ Sound(G, nextItemID) /\ Kept(A, G) /\ G[i].belt = A[i].belt
        /\ \A k \in DOMAIN A \ {i} : G[k] = A[k]
    BY <1>4, <1>10, <1>11, <1>12, StockOne
  <2> QED
    BY <2>1
<1>14. Ordered(G, "systems", todo, way, r) /\ Lines(G, way, r)
  BY <1>11, <1>12, <1>13, SameBeltsOrdered, LinesStay
<1>15. /\ i \in DOMAIN G /\ SameBuilding(G[i], A[i]) /\ SameBuilding(A[i], E[i])
       /\ SameBuilding(E[i], ent[i])
  BY <1>6, <1>7, <1>8, <1>11, <1>12, <1>13 DEF Kept
<1>16. rec.output \in Resources /\ (rec.output = r => Makes(game.ore, G[i], r))
  <2>1. rec.output \in Resources /\ (rec.output = r => Makes(game.ore, ent[i], r))
    BY <1>5, <1>6 DEF Recipes, Makes, Crafts
  <2>2. SameBuilding(G[i], ent[i])
    BY <1>15 DEF SameBuilding
  <2> QED
    BY <2>1, <2>2, SameFeeds
<1>17. \E m : ReceiveInto(G, m, i, rec.output)
  <2>1. \E m : ReceiveInto([E EXCEPT ![i].progress = 0,
                                    ![i].stock = [u \in Resources |->
                                       @[u] - rec.input[u] + (IF u = rec.output THEN rec.qty ELSE 0)]],
                           m, i, rec.output)
    BY <1>1 DEF Craft
  <2>2. G = [E EXCEPT ![i].progress = 0, ![i].stock = s]
    BY <1>3, <1>4 DEF WithProgress, WithStock
  <2> QED
    BY <1>2, <2>1, <2>2
<1>18. PICK m : ReceiveInto(G, m, i, rec.output)
  BY <1>17
<1> QED
  BY <1>6, <1>13, <1>14, <1>15, <1>16, <1>18, ReceiveOrders

-----------------------------------------------------------------------------
(* The belts *)

\* Passing over an empty belt.
LEMMA SkipOrders ==
    ASSUME GoodsInv, NEW i, SkipEmptyBelt(i), NEW way, NEW r, Ordered(ent, phase, todo, way, r)
    PROVE  Ordered(ent', phase', todo', way, r)
<1>1. /\ phase = "logistics" /\ phase' = "logistics" /\ todo' = todo \ {i} /\ ent' = ent
      /\ ent[i].belt = <<>>
  BY DEF SkipEmptyBelt, Carries, Visiting
<1>2. ~Fresh(ent[i].belt, r)
  BY <1>1 DEF Fresh
<1>3. Stalled(ent, "logistics", todo \ {i}, r)
  BY <1>1, <1>2 DEF Ordered, Stalled
<1> QED
  BY <1>1, <1>3 DEF Ordered

\* A belt that hands on nothing, or everything.
LEMMA VisitNoneOrAll ==
    ASSUME BeltSpeed \in Nat \ {0}, NEW q \in Seq(Items), Distinct(q), NEW c, c = Completed(q)
    PROVE  /\ Visited(q, c, 0, <<>>, Staying(q) \o Held(c))
           /\ \E w : Visited(q, c, Len(c), w, Staying(q))
<1>1. c \in Seq(Loads) /\ Len(c) \in Nat /\ Staying(q) \in Seq(Items)
  BY BeltParts
<1>2. SubSeq(c, 1, Len(c)) = c
  BY <1>1
<1>3. \A x \in Seq(Loads) : Len(x) = 0 => Held(x) = <<>> /\ Entering(x) = <<>>
  BY DEF Held, Entering
<1>4. Entering(SubSeq(c, 1, 0)) = <<>>
  <2>1. SubSeq(c, 1, 0) \in Seq(Loads) /\ Len(SubSeq(c, 1, 0)) = 0
    BY <1>1, Halves
  <2> QED
    BY <1>3, <2>1
<1>5. Held(SubSeq(c, Len(c) + 1, Len(c))) = <<>>
  <2>1. PICK v : v = SubSeq(c, Len(c) + 1, Len(c))
    OBVIOUS
  <2>2. v \in Seq(Loads) /\ Len(v) = Len(c) - Len(c)
    <3>1. Len(c) \in 0..Len(c)
      BY <1>1
    <3> QED
      BY <1>1, <2>1, <3>1, Halves
  <2>3. Len(v) = 0
    BY <1>1, <2>2
  <2>4. Held(v) = <<>>
    BY <1>3, <2>2, <2>3
  <2> QED
    BY <2>1, <2>4
<1>6. Staying(q) \o <<>> = Staying(q)
  BY <1>1
<1>7. Visited(q, c, 0, <<>>, Staying(q) \o Held(c))
  <2>1. SubSeq(c, 0 + 1, Len(c)) = c /\ 0 \in 0..Len(c)
    BY <1>1, <1>2
  <2> QED
    BY <1>4, <2>1 DEF Visited
<1>8. Visited(q, c, Len(c), Entering(SubSeq(c, 1, Len(c))), Staying(q))
  BY <1>1, <1>5, <1>6 DEF Visited
<1> QED
  BY <1>7, <1>8

\* A belt fills the next, or hands on all.
LEMMA PassingFills ==
    ASSUME NEW i, NEW j, NEW c, Len(c) \in Nat, Len(ent[j].belt) \in Nat, MaxBelt \in Nat,
           Len(ent[j].belt) <= MaxBelt, NEW n, n = Passing(i, j, c)
    PROVE  /\ CornerAcceptsFrom(ent[i], ent[j]) /\ n < Len(c) => Len(ent[j].belt) + n = MaxBelt
           /\ n > 0 => Len(ent[j].belt) < MaxBelt
           /\ ~CornerAcceptsFrom(ent[i], ent[j]) => n = 0
<1> DEFINE k == Len(ent[j].belt)
           m == Len(c)
           open == CornerAcceptsFrom(ent[i], ent[j])
           shut == ~open \/ MaxBelt - k < 0
<1>1. k \in Nat /\ m \in Nat /\ k <= MaxBelt
  OBVIOUS
<1>2. n = IF shut THEN 0 ELSE IF MaxBelt - k < m THEN MaxBelt - k ELSE m
  BY Zenon DEF Passing
<1>3. shut <=> ~open
  BY <1>1
<1> HIDE DEF k, m, open, shut
<1>4. /\ open /\ n < m => k + n = MaxBelt
      /\ n > 0 => k < MaxBelt
      /\ ~open => n = 0
  BY <1>1, <1>2, <1>3
<1> QED
  BY <1>4 DEF k, m, open

\* The next belt takes over as many as go on.
LEMMA VisitTakes ==
    ASSUME BeltSpeed \in Nat \ {0}, NEW q \in Seq(Items), Distinct(q),
           NEW c, NEW n, NEW w, NEW b, Visited(q, c, n, w, b)
    PROVE  w \in Seq(Items) /\ Len(w) = n
<1>1. c = Completed(q) /\ n \in 0..Len(c) /\ w = Entering(SubSeq(c, 1, n))
  BY DEF Visited
<1>2. /\ c \in Seq(Loads)
      /\ \A k \in 1..Len(c) : c[k].progress \in BeltSpeed..(BeltSpeed + 1)
  BY <1>1, BeltParts
<1> QED
  BY <1>1, <1>2, StartItems DEF Starts

\* What MoveBelt(i) makes of the belts, where q lies on belt i and c leaves it.
Moving(i, q, c) ==
    \/ /\ c = <<>> \/ At(ent, Ahead(ent[i])) = {}
       /\ ent' = [ent EXCEPT ![i].belt = Staying(q) \o Held(c)]
    \/ \E j \in DOMAIN ent :
          /\ ent[j].at = Ahead(ent[i])
          /\ \/ ent[j].kind = "hub" /\ ent' = [ent EXCEPT ![i].belt = Staying(q)]
             \/ /\ ent[j].kind \in Belts
                /\ ent' = [ent EXCEPT
                      ![i].belt = Staying(q) \o Held(SubSeq(c, Passing(i, j, c) + 1, Len(c))),
                      ![j].belt = @ \o Entering(SubSeq(c, 1, Passing(i, j, c)))]
             \/ /\ ent[j].kind \notin Belts
                /\ ent' = [ent EXCEPT ![i].belt = Staying(q),
                                      ![j].stock = [u \in Resources |-> @[u] + CountOf(c, u)]]

\* A belt that moves keeps the order on it and on the next.
LEMMA MoveOrders ==
    ASSUME GoodsInv, BeltSpeed > 1, NEW i, MoveBelt(i), NEW way, NEW r,
           Lines(ent, way, r), Ordered(ent, phase, todo, way, r)
    PROVE  Ordered(ent', phase', todo', way, r)
<1>1. PICK q, c : q = ent[i].belt /\ c = Completed(q)
  OBVIOUS
<1>2. Carries(i) /\ phase = "logistics" /\ phase' = "logistics" /\ todo' = todo \ {i}
  BY DEF MoveBelt, Carries, Visiting
<1>3. /\ i \in DOMAIN ent /\ ent[i].kind \in Belts /\ Sound(ent, nextItemID)
      /\ BeltSpeed \in Nat \ {0} /\ MaxBelt \in Nat
      /\ q \in Seq(Items) /\ Distinct(q) /\ Len(c) \in Nat /\ Staying(q) \in Seq(Items)
  BY <1>1, <1>2, BeltGoods
<1>4. /\ \A k, l \in DOMAIN ent : ent[k].at = ent[l].at => k = l
      /\ \A k \in DOMAIN ent : /\ ent[k].belt \in Seq(Items) /\ Distinct(ent[k].belt)
                               /\ ent[k] \in Entities /\ Len(ent[k].belt) \in Nat
                               /\ Len(ent[k].belt) <= MaxBelt
      /\ ent = [k \in DOMAIN ent |-> ent[k]]
  <2>1. \A k \in DOMAIN ent : Fine(ent[k], nextItemID)
    BY <1>3 DEF Sound
  <2> QED
    BY <1>3, <2>1, SoundBelts DEF GoodsInv, FactoryInv, OnePerTile, Sound, Fine
<1>5. Ahead(ent[i]) # ent[i].at
  <2>1. ent[i].at \in Int \X Int /\ ent[i].dir \in Directions
    BY <1>3, <1>4, FiniteGame, EntityFields DEF GoodsInv, FactoryInv
  <2> QED
    BY <2>1, BesideElsewhere DEF Ahead
<1>6. ~Feeds(ent[i], ent[i])
  BY <1>5 DEF Feeds
<1>7. Kept(ent, ent')
  BY BeltMoves DEF GoodsMove
<1>8. ASSUME NEW n, NEW w, NEW b, Visited(q, c, n, w, b), ent'[i].belt = b,
             HandedOn(ent, ent', i, c, n, w)
      PROVE  Ordered(ent', phase', todo', way, r)
  <2>1. Ordered(ent', "logistics", todo \ {i}, way, r)
    <3>1. Ordered(ent, "logistics", todo, way, r) /\ Visited(ent[i].belt, c, n, w, b) /\ BeltSpeed \in Nat
      BY <1>1, <1>2, <1>3, <1>8
    <3> QED
      BY <1>3, <1>4, <1>6, <1>7, <1>8, <3>1, CarriedOrdered
  <2> QED
    BY <1>2, <2>1
<1>9. /\ Visited(q, c, 0, <<>>, Staying(q) \o Held(c))
      /\ \E w : Visited(q, c, Len(c), w, Staying(q))
  BY <1>1, <1>3, VisitNoneOrAll
<1>10. CASE /\ c = <<>> \/ At(ent, Ahead(ent[i])) = {}
            /\ ent' = [ent EXCEPT ![i].belt = Staying(q) \o Held(c)]
  <2>1. PICK b : b = Staying(q) \o Held(c)
    OBVIOUS
  <2>2. ent'[i].belt = b /\ \A k \in DOMAIN ent \ {i} : ent'[k].belt = ent[k].belt
    <3>1. ent' = [ent EXCEPT ![i].belt = b]
      BY <1>10, <2>1
    <3> QED
      BY <1>3, <1>4, <3>1 DEF Entities
  <2>3. \A k \in DOMAIN ent : ent[k].belt \o <<>> = ent[k].belt
    BY <1>4
  <2>4. \A k \in DOMAIN ent : Feeds(ent[i], ent[k]) => Len(c) = 0
    BY <1>10 DEF Feeds, At
  <2>5. Visited(q, c, 0, <<>>, b)
    BY <1>9, <2>1
  <2>6. HandedOn(ent, ent', i, c, 0, <<>>)
    BY <2>2, <2>3, <2>4 DEF HandedOn
  <2> QED
    BY <1>8, <2>2, <2>5, <2>6
<1>11. ASSUME NEW j \in DOMAIN ent, ent[j].at = Ahead(ent[i]), ent[j].kind \notin Belts,
              ent'[i].belt = Staying(q), \A k \in DOMAIN ent \ {i} : ent'[k].belt = ent[k].belt
       PROVE  Ordered(ent', phase', todo', way, r)
  <2>1. \A k \in DOMAIN ent : ~Feeds(ent[i], ent[k])
    BY <1>4, <1>11 DEF Feeds
  <2>2. PICK w, b : Visited(q, c, Len(c), w, b) /\ b = Staying(q)
    BY <1>9
  <2>3. HandedOn(ent, ent', i, c, Len(c), w)
    BY <1>11, <2>1 DEF HandedOn
  <2> QED
    BY <1>8, <1>11, <2>2, <2>3
<1>12. ASSUME NEW j \in DOMAIN ent, ent[j].at = Ahead(ent[i]), ent[j].kind \in Belts,
              ent' = [ent EXCEPT
                 ![i].belt = Staying(q) \o Held(SubSeq(c, Passing(i, j, c) + 1, Len(c))),
                 ![j].belt = @ \o Entering(SubSeq(c, 1, Passing(i, j, c)))]
       PROVE  Ordered(ent', phase', todo', way, r)
  <2>0. PICK n, b, w : /\ n = Passing(i, j, c)
                       /\ b = Staying(q) \o Held(SubSeq(c, n + 1, Len(c)))
                       /\ w = Entering(SubSeq(c, 1, n))
    OBVIOUS
  <2>1. /\ n \in 0..Len(c) /\ Len(ent[j].belt) + n <= MaxBelt
    BY <1>3, <1>4, <2>0, PassingBounds
  <2>2. /\ CornerAcceptsFrom(ent[i], ent[j]) /\ n < Len(c) => Len(ent[j].belt) + n = MaxBelt
        /\ n > 0 => Len(ent[j].belt) < MaxBelt
        /\ ~CornerAcceptsFrom(ent[i], ent[j]) => n = 0
    BY <1>3, <1>4, <2>0, PassingFills
  <2>3. Visited(q, c, n, w, b)
    BY <1>1, <2>0, <2>1 DEF Visited
  <2>4. w \in Seq(Items) /\ Len(w) = n
    BY <1>3, <2>1, <2>3, VisitTakes
  <2>5. j # i
    BY <1>5, <1>12
  <2>6. PICK d : d = ent[j].belt \o w
    OBVIOUS
  <2>7. /\ ent'[i].belt = b /\ ent'[j].belt = d
        /\ \A k \in DOMAIN ent \ {i, j} : ent'[k].belt = ent[k].belt
    <3>1. PICK e, f : e = [ent[i] EXCEPT !.belt = b] /\ f = [ent[j] EXCEPT !.belt = d]
      OBVIOUS
    <3>2. e.belt = b /\ f.belt = d
      BY <1>3, <1>4, <3>1 DEF Entities
    <3>3. ent' = [ent EXCEPT ![i] = e, ![j] = f]
      BY <1>3, <1>4, <1>12, <2>0, <2>5, <2>6, <3>1
    <3> QED
      BY <1>3, <1>4, <2>5, <3>2, <3>3
  <2>8. Len(d) = Len(ent[j].belt) + n
    BY <1>4, <2>4, <2>6, Joined
  <2>9. n = 0 => d = ent[j].belt
    BY <1>4, <2>4, <2>6
  <2>10. ASSUME NEW k \in DOMAIN ent \ {i}
         PROVE  IF Feeds(ent[i], ent[k])
                THEN /\ ent'[k].belt = ent[k].belt \o w
                     /\ n < Len(c) => Len(ent'[k].belt) = MaxBelt
                     /\ n > 0 => Len(ent[k].belt) < MaxBelt
                ELSE ent'[k].belt = ent[k].belt
    <3>1. CASE k = j
      <4>1. Feeds(ent[i], ent[j]) <=> CornerAcceptsFrom(ent[i], ent[j])
        BY <1>12 DEF Feeds
      <4> QED
        BY <2>2, <2>6, <2>7, <2>8, <2>9, <3>1, <4>1
    <3>2. CASE k # j
      <4>1. ~Feeds(ent[i], ent[k])
        BY <1>4, <1>12, <3>2 DEF Feeds
      <4> QED
        BY <2>7, <3>2, <4>1
    <3> QED
      BY <3>1, <3>2
  <2>11. HandedOn(ent, ent', i, c, n, w)
    BY <2>10 DEF HandedOn
  <2> QED
    BY <1>8, <2>3, <2>7, <2>11
<1>13. Moving(i, q, c)
  <2>1. Moving(i, ent[i].belt, Completed(ent[i].belt))
    BY DEF MoveBelt, At, Moving
  <2> QED
    BY <1>1, <2>1
<1>14. ASSUME NEW j \in DOMAIN ent, ent[j].kind = "hub", ent' = [ent EXCEPT ![i].belt = Staying(q)]
       PROVE  /\ ent[j].kind \notin Belts /\ ent'[i].belt = Staying(q)
              /\ \A k \in DOMAIN ent \ {i} : ent'[k].belt = ent[k].belt
  BY <1>3, <1>4, <1>14 DEF Belts, Entities
<1>15. ASSUME NEW j \in DOMAIN ent, ent[j].kind \notin Belts,
              ent' = [ent EXCEPT ![i].belt = Staying(q),
                                 ![j].stock = [u \in Resources |-> @[u] + CountOf(c, u)]]
       PROVE  /\ ent'[i].belt = Staying(q)
              /\ \A k \in DOMAIN ent \ {i} : ent'[k].belt = ent[k].belt
  <2>1. i # j
    BY <1>3, <1>15
  <2> QED
    BY <1>3, <1>4, <1>15, <2>1 DEF Entities
<1>16. ASSUME NEW j \in DOMAIN ent, ent[j].at = Ahead(ent[i]), ent[j].kind = "hub",
              ent' = [ent EXCEPT ![i].belt = Staying(q)]
       PROVE  Ordered(ent', phase', todo', way, r)
  BY <1>11, <1>14, <1>16
<1>17. ASSUME NEW j \in DOMAIN ent, ent[j].at = Ahead(ent[i]), ent[j].kind \notin Belts,
              ent' = [ent EXCEPT ![i].belt = Staying(q),
                                 ![j].stock = [u \in Resources |-> @[u] + CountOf(c, u)]]
       PROVE  Ordered(ent', phase', todo', way, r)
  BY <1>11, <1>15, <1>17
<1> QED
  BY <1>10, <1>12, <1>13, <1>16, <1>17 DEF Moving


\* A step of the tick moves goods and no buildings.
LEMMA TickMoves ==
    ASSUME GoodsInv, Tick
    PROVE  GoodsMove
<1>1. CASE BeginTick \/ BeginLogistics \/ TakeChanges
  BY <1>1, StillMoves DEF BeginTick, BeginLogistics, TakeChanges, World
<1>2. ASSUME NEW i \in todo, TickSystem(i) PROVE GoodsMove
  BY <1>2, IdleMoves, MineMoves, WorkMoves, CraftMoves DEF TickSystem
<1>3. ASSUME NEW i \in todo, TickBelt(i) PROVE GoodsMove
  BY <1>3, SkipMoves, BeltMoves DEF TickBelt
<1> QED
  BY <1>1, <1>2, <1>3 DEF Tick

\* A command builds with empty belts, and takes away.
LEMMA CommandBuilds ==
    ASSUME GoodsInv, Command
    PROVE  /\ phase = "rest" /\ phase' = "rest"
           /\ \A k \in DOMAIN ent' :
                 \/ k \in DOMAIN ent /\ ent'[k] = ent[k]
                 \/ ent'[k].belt = <<>> /\ Plan(ent'[k]) \in game.offers
           /\ \A p \in Tiles : deposit'[p] = deposit[p] \/ deposit'[p] = game.ore[p]
<1>1. ASSUME NEW p \in Players, NEW o \in game.offers, PlaceBuilding(p, o)
      PROVE  /\ \A k \in DOMAIN ent' :
                   \/ k \in DOMAIN ent /\ ent'[k] = ent[k]
                   \/ ent'[k].belt = <<>> /\ Plan(ent'[k]) \in game.offers
             /\ deposit' = deposit
  <2>1. o \in Offers(Tiles)
    BY GamesAssumption DEF GoodsInv, FactoryInv, Tiles
  <2>2. Plan(NewEntity(o, p)) = o /\ NewEntity(o, p).belt = <<>>
    BY <2>1 DEF Plan, NewEntity, Offers
  <2>3. ent' = [i \in DOMAIN ent \cup {nextID} |-> IF i = nextID THEN NewEntity(o, p) ELSE ent[i]]
    BY <1>1 DEF PlaceBuilding
  <2>4. \A k \in DOMAIN ent' : ent'[k] = NewEntity(o, p) \/ (k \in DOMAIN ent /\ ent'[k] = ent[k])
    BY <2>3
  <2> QED
    BY <1>1, <2>2, <2>4 DEF PlaceBuilding
<1>2. ASSUME NEW p \in Players, NEW i \in DOMAIN ent, RemoveBuilding(p, i)
      PROVE  (\A k \in DOMAIN ent' : k \in DOMAIN ent /\ ent'[k] = ent[k]) /\ deposit' = deposit
  BY <1>2 DEF RemoveBuilding
<1>3. ASSUME NEW p \in Players, NEW r \in Resources, NEW n \in {-1, 1}, SetResource(p, r, n)
      PROVE  ent' = ent /\ deposit' = deposit
  BY <1>3 DEF SetResource
<1>4. ASSUME ClearAllEntities
      PROVE  (\A k \in DOMAIN ent' : k \in DOMAIN ent /\ ent'[k] = ent[k]) /\ deposit' = deposit
  <2>1. DOMAIN ent' = {}
    BY <1>4 DEF ClearAllEntities
  <2> QED
    BY <1>4, <2>1 DEF ClearAllEntities
<1>5. ASSUME Generate
      PROVE  ent' = ent /\ deposit' = game.ore
  BY <1>5 DEF Generate
<1>6. phase = "rest" /\ phase' = "rest"
  BY DEF Command, PlaceBuilding, RemoveBuilding, SetResource, ClearAllEntities, Generate, Asked
<1> QED
  BY <1>1, <1>2, <1>3, <1>4, <1>5, <1>6 DEF Command

\* Every step of the world leaves the items in order.
LEMMA NextOrders ==
    ASSUME GoodsInv, OreStays, BeltSpeed > 1, [Next]_vars, NEW way, NEW r,
           Lines(ent, way, r), Ordered(ent, phase, todo, way, r)
    PROVE  Ordered(ent', phase', todo', way, r)
<1>1. Sound(ent, nextItemID)
  BY DEF GoodsInv, Goods
<1>2. CASE UNCHANGED vars
  BY <1>2 DEF vars
<1>3. CASE Tick
  <2>1. CASE BeginLogistics
    <3>1. ent' = ent /\ phase' = "logistics" /\ todo' = BeltIDs
      BY <2>1 DEF BeginLogistics, World
    <3> QED
      BY <3>1, AllBeltsOrdered
  <2>2. CASE BeginTick \/ TakeChanges
    <3>1. ent' = ent /\ phase' # "logistics"
      BY <2>2 DEF BeginTick, TakeChanges, World
    <3>2. Kept(ent, ent)
      BY DEF Kept, SameBuilding
    <3> QED
      BY <1>1, <3>1, <3>2, SameBeltsOrdered
  <2>3. ASSUME NEW i \in todo, TickSystem(i)
        PROVE  Ordered(ent', phase', todo', way, r)
    BY <2>3, IdleOrders, MineOrders, WorkOrders, CraftOrders DEF TickSystem
  <2>4. ASSUME NEW i \in todo, TickBelt(i)
        PROVE  Ordered(ent', phase', todo', way, r)
    BY <2>4, SkipOrders, MoveOrders DEF TickBelt
  <2> QED
    BY <1>3, <2>1, <2>2, <2>3, <2>4 DEF Tick
<1>4. CASE Command
  <2>1. \A k \in DOMAIN ent : ent[k].belt \in Seq(Items)
    BY <1>1, SoundBelts
  <2>2. \A k \in DOMAIN ent' :
           ent'[k].belt = <<>> \/ (k \in DOMAIN ent /\ SameBuilding(ent'[k], ent[k])
                                   /\ ent'[k].belt = ent[k].belt)
    BY <1>4, CommandBuilds DEF SameBuilding
  <2>3. phase' = "rest"
    BY <1>4, CommandBuilds
  <2> QED
    BY <2>1, <2>2, <2>3, ThinsOrdered
<1> QED
  BY <1>2, <1>3, <1>4 DEF Next

-----------------------------------------------------------------------------
(* What is built *)

\* Nothing is built but what was there at first and what is offered.
Planned == \A k \in DOMAIN ent : Plan(ent[k]) \in Plans(game)

\* What a Route says of the plans holds of the entities.
LEMMA RouteLines ==
    ASSUME GoodsInv, Planned, NEW r, NEW way \in [Tiles -> Nat],
           Route(Plans(game), game.ore, r, way)
    PROVE  Lines(ent, way, r)
<1>1. \A k \in DOMAIN ent : ent[k].at \in Tiles
  BY DEF GoodsInv, FactoryInv, EntitiesKept
<1>2. \A k, l \in DOMAIN ent : ent[k].at = ent[l].at => k = l
  BY DEF GoodsInv, FactoryInv, OnePerTile
<1>3. \A k, l \in DOMAIN ent : way[ent[k].at] = way[ent[l].at] /\ way[ent[k].at] > 0 => k = l
  BY <1>1, <1>2 DEF Route, Tiles
<1>4. \A e : /\ Plan(e).at = e.at /\ (Plan(e).kind \in Belts <=> e.kind \in Belts)
             /\ Makes(game.ore, Plan(e), r) <=> Makes(game.ore, e, r)
             /\ Crafts(Plan(e)) <=> Crafts(e)
             /\ Behind(Plan(e)) = Behind(e)
  BY DEF Plan, Makes, Crafts, Works, Behind
<1>5. \A e, f : Feeds(Plan(e), Plan(f)) <=> Feeds(e, f)
  BY DEF Plan, Feeds, Ahead, CornerAcceptsFrom, BeltTurnInputDir
<1>6. ASSUME NEW k \in DOMAIN ent, NEW l \in DOMAIN ent, Feeds(ent[k], ent[l])
      PROVE  /\ Makes(game.ore, ent[k], r) => way[ent[l].at] = 1
             /\ ent[k].kind \in Belts /\ way[ent[k].at] > 0 =>
                   way[ent[l].at] = way[ent[k].at] + 1
  <2>1. Plan(ent[k]) \in Plans(game) /\ Plan(ent[l]) \in Plans(game)
    BY DEF Planned
  <2>2. Feeds(Plan(ent[k]), Plan(ent[l]))
    BY <1>5, <1>6
  <2> QED
    BY <1>4, <2>1, <2>2 DEF Route
<1>7. ASSUME NEW k \in DOMAIN ent, NEW l \in DOMAIN ent, Crafts(ent[k]), ent[l].at = Behind(ent[k])
      PROVE  way[ent[l].at] <= 1
  <2>1. Plan(ent[k]) \in Plans(game) /\ Crafts(Plan(ent[k]))
    BY <1>4, <1>7 DEF Planned
  <2>2. Behind(Plan(ent[k])) = ent[l].at /\ ent[l].at \in DOMAIN game.ore
    BY <1>1, <1>4, <1>7 DEF Tiles
  <2> QED
    BY <2>1, <2>2 DEF Route
<1> QED
  BY <1>1, <1>3, <1>6, <1>7 DEF Lines

\* Deposits give what was there at first, or nothing any more.
LEMMA OreStaysNext ==
    ASSUME GoodsInv, OreStays, [Next]_vars
    PROVE  OreStays'
<1>1. game' = game /\ Tiles' = Tiles
  BY DEF Next, vars, Tiles
<1>2. SUFFICES ASSUME NEW p \in Tiles
               PROVE  deposit'[p].res \in {game.ore[p].res, NoRes}
  BY <1>1 DEF OreStays
<1>3. deposit \in [Tiles -> Deposits] /\ deposit[p].res \in {game.ore[p].res, NoRes}
  BY DEF OreStays, GoodsInv, FactoryInv, LandKept
<1>4. CASE deposit' = deposit
  BY <1>3, <1>4
<1>5. ASSUME NEW i, Mine(i)
      PROVE  deposit'[p].res \in {game.ore[p].res, NoRes}
  <2>1. PICK q, d : /\ d = deposit[q]
                    /\ deposit' = [deposit EXCEPT ![q] =
                           [res |-> IF d.yield <= 1 THEN NoRes ELSE d.res, yield |-> d.yield - 1]]
    BY <1>5 DEF Mine
  <2> QED
    BY <1>3, <2>1
<1>6. CASE Command
  BY <1>3, <1>6, CommandBuilds
<1>7. CASE UNCHANGED vars
  BY <1>4, <1>7 DEF vars
<1>8. CASE Tick
  <2>1. CASE BeginTick \/ BeginLogistics \/ TakeChanges
    BY <1>4, <2>1 DEF BeginTick, BeginLogistics, TakeChanges, World
  <2>2. ASSUME NEW i, TickSystem(i)
        PROVE  deposit' = deposit \/ Mine(i)
    BY <2>2 DEF TickSystem, NoDeposit, StorageFull, Dig, Work, Craft, Rests, Produces
  <2>3. ASSUME NEW i, TickBelt(i)
        PROVE  deposit' = deposit
    BY <2>3 DEF TickBelt, SkipEmptyBelt, MoveBelt, Carries
  <2> QED
    BY <1>4, <1>5, <1>8, <2>1, <2>2, <2>3 DEF Tick
<1> QED
  BY <1>6, <1>7, <1>8 DEF Next

LEMMA PlannedNext ==
    ASSUME GoodsInv, Planned, [Next]_vars
    PROVE  Planned'
<1>1. game' = game
  BY DEF Next, vars
<1>2. Plans(game') = Plans(game) /\ game.offers \subseteq Plans(game)
  BY <1>1 DEF Plans
<1>3. SUFFICES ASSUME NEW k \in DOMAIN ent'
               PROVE  Plan(ent'[k]) \in Plans(game)
  BY <1>2 DEF Planned
<1>4. CASE UNCHANGED vars
  BY <1>4 DEF vars, Planned
<1>5. CASE Tick
  <2>1. k \in DOMAIN ent /\ SameBuilding(ent'[k], ent[k])
    BY <1>5, TickMoves DEF GoodsMove, Kept
  <2>2. Plan(ent'[k]) = Plan(ent[k])
    BY <2>1 DEF SameBuilding, Plan
  <2> QED
    BY <2>1, <2>2 DEF Planned
<1>6. CASE Command
  BY <1>2, <1>6, CommandBuilds DEF Planned
<1> QED
  BY <1>4, <1>5, <1>6 DEF Next

-----------------------------------------------------------------------------
(* The whole *)

\* In a one-way game the items of every resource lie in order along some way.
InLine(r) ==
    \E way \in [Tiles -> 0..Cardinality(Tiles)] :
        /\ Route(Plans(game), game.ore, r, way)
        /\ Ordered(ent, phase, todo, way, r)
OrderInv ==
    /\ GoodsInv
    /\ Planned
    /\ OreStays
    /\ OneWay(game) => \A r \in Resources : InLine(r)

LEMMA FinitelyManyTiles ==
    ASSUME GoodsInv
    PROVE  Cardinality(Tiles) \in Nat
  BY GamesAssumption, FS_CardinalityType DEF GoodsInv, FactoryInv, Tiles

\* At first the belts are empty.
LEMMA OrderAtFirst ==
    ASSUME Init
    PROVE  OrderInv
<1>1. GoodsInv
  BY GoodsAtFirst
<1>2. /\ game \in Games /\ game.layout \in Seq(BuiltAtFirst(game)) /\ deposit = game.ore
      /\ ent = [n \in 0..(Len(game.layout) - 1) |->
                   NewEntity(game.layout[n + 1], game.layout[n + 1].owner)]
  BY GamesAssumption DEF Init
<1>3. Len(game.layout) \in Nat
  BY <1>2, LenProperties
<1>4. ASSUME NEW k \in DOMAIN ent
      PROVE  ent[k].belt = <<>> /\ Plan(ent[k]) \in Plans(game)
  <2>1. k + 1 \in 1..Len(game.layout)
    BY <1>2, <1>3
  <2>2. ent[k] = NewEntity(game.layout[k + 1], game.layout[k + 1].owner)
    BY <1>2
  <2>3. ent[k].belt = <<>> /\ Plan(ent[k]) = Plan(game.layout[k + 1])
    BY <2>2 DEF NewEntity, Plan
  <2> QED
    BY <2>1, <2>3 DEF Plans
<1>5. ASSUME NEW r, NEW way
      PROVE  Ordered(ent, phase, todo, way, r)
  <2>1. \A q : Sorted(<<>>, r) /\ ~Has(<<>>, r) /\ ~Waits(<<>>, r) /\ Older(<<>>, q, r)
    BY DEF Sorted, Has, Waits, Older
  <2> QED
    BY <1>4, <2>1 DEF Ordered, Located, Ranked, Stalled
<1>6. Planned /\ OreStays
  BY <1>2, <1>4 DEF Planned, OreStays
<1>7. OneWay(game) => \A r \in Resources : InLine(r)
  BY <1>5 DEF OneWay, InLine, Tiles
<1> QED
  BY <1>1, <1>6, <1>7 DEF OrderInv

LEMMA OrderKept ==
    ASSUME OrderInv, [Next]_vars
    PROVE  OrderInv'
<1>1. GoodsInv /\ Planned /\ OreStays
  BY DEF OrderInv
<1>2. game' = game /\ Tiles' = Tiles
  BY DEF Next, vars, Tiles
<1>3. GoodsInv' /\ Planned' /\ OreStays'
  BY <1>1, GoodsKept, PlannedNext, OreStaysNext
<1>4. ASSUME OneWay(game), NEW r \in Resources
      PROVE  InLine(r)'
  <2>1. BeltSpeed > 1
    BY <1>4 DEF OneWay
  <2>2. InLine(r)
    BY <1>4 DEF OrderInv
  <2>3. PICK way \in [Tiles -> 0..Cardinality(Tiles)] :
           Route(Plans(game), game.ore, r, way) /\ Ordered(ent, phase, todo, way, r)
    BY <2>2 DEF InLine
  <2>4. way \in [Tiles -> Nat]
    BY <1>1, FinitelyManyTiles
  <2>5. Lines(ent, way, r)
    BY <1>1, <2>3, <2>4, RouteLines
  <2>6. Ordered(ent', phase', todo', way, r)
    BY <1>1, <2>1, <2>3, <2>5, NextOrders
  <2> QED
    BY <1>2, <2>3, <2>6 DEF InLine
<1> QED
  BY <1>2, <1>3, <1>4 DEF OrderInv

LEMMA LinesInOrder ==
    ASSUME OrderInv, OneWay(game)
    PROVE  InOrder
<1> SUFFICES ASSUME NEW s \in Spots, NEW t \in Spots, s[1] = t[1], Item(s).res = Item(t).res,
                    Item(s).id < Item(t).id
             PROVE  Item(s).progress >= Item(t).progress
  BY DEF InOrder
<1>1. Sound(ent, nextItemID) /\ MaxBelt \in Nat
  BY FactoryAssumption DEF OrderInv, GoodsInv, Goods
<1>2. PICK k, q : k = s[1] /\ q = ent[k].belt
  OBVIOUS
<1>3. k \in DOMAIN ent /\ q \in Seq(Items)
  BY <1>1, <1>2, SoundBelts DEF Spots
<1>4. PICK m, n : m = s[2] /\ n = t[2]
  OBVIOUS
<1>5. /\ m \in 1..Len(q) /\ n \in 1..Len(q)
      /\ Item(s) = q[m] /\ Item(t) = q[n]
  <2>1. m \in 1..MaxBelt /\ n \in 1..MaxBelt /\ m <= Len(q) /\ n <= Len(q)
    BY <1>2, <1>4 DEF Spots
  <2>2. Len(q) \in Nat
    BY <1>3
  <2> QED
    BY <1>1, <1>2, <1>4, <2>1, <2>2 DEF Item
<1>6. q[m] \in Items /\ q[n] \in Items
  BY <1>3, <1>5, ElementOfSeq
<1>7. /\ q[m].res \in Resources
      /\ q[m].progress \in Nat /\ q[n].progress \in Nat /\ q[m].id \in Nat /\ q[n].id \in Nat
  BY <1>6, ItemsAreLoads DEF Items
<1>8. InLine(q[m].res)
  BY <1>7 DEF OrderInv
<1>9. Sorted(q, q[m].res)
  BY <1>2, <1>3, <1>8 DEF InLine, Ordered
<1>10. CASE q[n].progress > q[m].progress
  <2>1. Before(q, n, m) /\ q[n].res = q[m].res
    BY <1>5, <1>10 DEF Before
  <2>2. q[n].id < q[m].id
    BY <1>5, <1>9, <2>1 DEF Sorted
  <2> QED
    BY <1>5, <1>7, <2>2
<1> QED
  BY <1>5, <1>7, <1>10

(***************************************************************************)
(* In a one-way game of any size, with any content, belts of any length and   *)
(* any speed above one, whatever is built, removed, pulled off and held back, *)
(* and in whatever order every tick visits the belts, the older of two items  *)
(* of a resource is never behind the younger on a belt (tickLogistics,        *)
(* addBeltItem, pullInputs, removeBeltItems).                                 *)
(***************************************************************************)
THEOREM LinesKeepOrder == Spec => [](OneWay(game) => InOrder)
<1>1. Init => OrderInv
  BY OrderAtFirst
<1>2. OrderInv /\ [Next]_vars => OrderInv'
  BY OrderKept
<1>3. OrderInv => (OneWay(game) => InOrder)
  BY LinesInOrder
<1> QED
  BY <1>1, <1>2, <1>3, PTL DEF Spec

=============================================================================
