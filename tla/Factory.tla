------------------------------- MODULE Factory -------------------------------
(***************************************************************************)
(* The simulated world (package world): players place and remove           *)
(* buildings, and every tick the machines dig, craft and push what they    *)
(* make, and the belts carry it on.  The world runs on the tick loop alone *)
(* and a tick visits the entities in the order of a Go map, that is, in    *)
(* any order.  Whatever changes is marked, and TakeChanges turns the marks *)
(* into the diff from which the clients' copy, `seen', is kept.            *)
(***************************************************************************)
EXTENDS Integers, Sequences, FiniteSets, Functions

CONSTANTS
    Resources,    \* ids of resources
    Buildings,    \* Registry.Buildings: a function from building ids
    MaxBelt,      \* MaxBeltBuffer
    BeltSpeed,    \* ticks an item takes to cross a belt
    Games,        \* the worlds there may be at first, and what is asked of them
    Value,        \* what a resource is worth, so that no recipe changes the sum
    MaxID,        \* bound of the model: entities ever placed
    NoRes,        \* model value: no deposit
    NoRecipe      \* model value: a building without recipe

\* Building ids the code knows by name.
Belts == {"belt", "belt_turn"}
Directions == 0..3   \* north, east, south, west

Recipes == [extraction : BOOLEAN, input : [Resources -> Nat], output : Resources,
            qty : Nat, ticks : Nat \ {0}]

ASSUME FactoryAssumption ==
    /\ IsFiniteSet(Resources)
    /\ MaxBelt \in Nat
    /\ BeltSpeed \in Nat \ {0}
    /\ MaxID \in Nat
    /\ NoRes \notin Resources
    /\ Value \in [Resources -> Nat]
    /\ \A k \in DOMAIN Buildings :
          /\ Buildings[k].logistics \in BOOLEAN
          /\ Buildings[k].cost \in [Resources -> Nat]
          /\ Buildings[k].storage \in [DOMAIN Buildings[k].storage -> Nat]
          /\ Buildings[k].recipe \in Recipes \cup {NoRecipe}

\* A game is [layout, ore, funds, offers, requests]: the entities there are at
\* first in the order of their ids, the deposits the generator makes, what the
\* players own at first, what they ask to be built, [kind, at, dir, flipped],
\* and the commands the clients give.
Deposits == [res : Resources \cup {NoRes}, yield : Int]
Offers(tiles) == [kind : DOMAIN Buildings, at : tiles, dir : Directions, flipped : BOOLEAN]
BuiltAtFirst(g) == [kind : DOMAIN Buildings, owner : DOMAIN g.funds, at : DOMAIN g.ore,
                    dir : Directions, flipped : BOOLEAN]

ASSUME GamesAssumption ==
    \A g \in Games :
        /\ IsFiniteSet(DOMAIN g.ore) /\ IsFiniteSet(DOMAIN g.funds)
        /\ DOMAIN g.ore \subseteq Int \X Int
        /\ g.ore \in [DOMAIN g.ore -> Deposits]
        /\ \A p \in DOMAIN g.ore : g.ore[p].res # NoRes => g.ore[p].yield > 0
        /\ g.funds \in [DOMAIN g.funds -> [Resources -> Int]]
        /\ g.offers \subseteq Offers(DOMAIN g.ore)
        /\ g.layout \in Seq(BuiltAtFirst(g))
        /\ \A m, n \in 1..Len(g.layout) : g.layout[m].at = g.layout[n].at => m = n

VARIABLES
    game,        \* the member of Games this behaviour plays; never changes
    ent,         \* World.entities: a function from the ids in use
    deposit,     \* World.tiles: the deposit of every tile
    bank,        \* Player.Resources of every player
    nextID,      \* World.nextID
    nextItemID,  \* World.nextItemID
    marks,       \* addedIDs, changedIDs, removedIDs, changedPlayers, changedTiles
    seen,        \* what a client that was sent every diff holds
    phase,       \* what the tick loop is doing
    todo         \* entities this pass of the tick has yet to visit

vars == <<game, ent, deposit, bank, nextID, nextItemID, marks, seen, phase, todo>>
World == <<ent, deposit, bank>>

Tiles == DOMAIN game.ore
Players == DOMAIN game.funds

-----------------------------------------------------------------------------
(* Places *)

Offset == [d \in Directions |->
              CASE d = 0 -> <<0, -1>> [] d = 1 -> <<1, 0>> [] d = 2 -> <<0, 1>> [] d = 3 -> <<-1, 0>>]

Beside(p, d) == <<p[1] + Offset[d][1], p[2] + Offset[d][2]>>
Ahead(e) == Beside(e.at, e.dir)
Behind(e) == Beside(e.at, (e.dir + 2) % 4)

\* EntityAt: the entities on tile p, of which there is one at most.
At(E, p) == {i \in DOMAIN E : E[i].at = p}

\* Mistaken: the bend is mirrored.
BeltTurnMirrored(e) == IF e.flipped THEN (e.dir + 1) % 4 ELSE (e.dir + 3) % 4

\* cornerAcceptsFrom: a corner takes items from its input side only.
BeltTurnInputDir(e) == IF e.flipped THEN (e.dir + 3) % 4 ELSE (e.dir + 1) % 4
CornerAcceptsFrom(src, e) ==
    e.kind = "belt_turn" => src.at = Beside(e.at, BeltTurnInputDir(e))

(* Stocks and belts *)

Empty == [r \in Resources |-> 0]
CountOf(q, r) == Cardinality({n \in 1..Len(q) : q[n].res = r})

\* Mistaken: one of the inputs will do.
HasSomeInput(e, rec) == \E r \in Resources : rec.input[r] > 0 /\ e.stock[r] > 0

HasInputs(e, rec) == \A r \in Resources : e.stock[r] >= rec.input[r]

\* The items of q at the places S, in their order.
Nth(S, m) == CHOOSE n \in S : Cardinality({k \in S : k <= n}) = m
Picked(q, S) == [m \in 1..Cardinality(S) |-> q[Nth(S, m)]]

\* Mistaken: all the items of a resource that is taken go.
RemoveAllItems(q, take) == Picked(q, {n \in 1..Len(q) : take[q[n].res] = 0})

\* removeBeltItems: q without its first take[r] items of each resource r.
RemoveItems(q, take) ==
    Picked(q, {n \in 1..Len(q) : CountOf(SubSeq(q, 1, n), q[n].res) > take[q[n].res]})

\* stockCap > 0: a building takes a resource up to its storage; one it has no
\* storage for it takes only if it already holds some.
RoomFor(e, r) ==
    LET storage == Buildings[e.kind].storage
    IN  IF r \in DOMAIN storage THEN e.stock[r] < storage[r] ELSE e.stock[r] > 0

(* Marks *)

NoMarks == [added |-> {}, changed |-> {}, removed |-> {}, players |-> {}, tiles |-> {}]
MarkAdded(m, i) == [m EXCEPT !.added = @ \cup {i}, !.changed = @ \ {i}]
MarkChanged(m, I) == [m EXCEPT !.changed = @ \cup (I \ m.added)]
MarkRemoved(m, I) == [m EXCEPT !.added = @ \ I, !.changed = @ \ I, !.removed = @ \cup I]
MarkPlayers(m, P) == [m EXCEPT !.players = @ \cup P]
MarkTiles(m, T) == [m EXCEPT !.tiles = @ \cup T]

-----------------------------------------------------------------------------

NewEntity(o, p) ==
    [kind |-> o.kind, owner |-> p, at |-> o.at, dir |-> o.dir, flipped |-> o.flipped,
     progress |-> 0, stock |-> Empty, belt |-> <<>>]

Init ==
    /\ game \in Games
    /\ ent = [n \in 0..(Len(game.layout) - 1) |->
                 NewEntity(game.layout[n + 1], game.layout[n + 1].owner)]
    /\ deposit = game.ore
    /\ bank = game.funds
    /\ nextID = Len(game.layout)
    /\ nextItemID = 0
    /\ marks = NoMarks
    /\ seen = [ent |-> ent, deposit |-> deposit, bank |-> bank]
    /\ phase = "rest"
    /\ todo = {}

(* ------------------------- what the players ask for -------------------- *)

\* Between two ticks the server applies the messages of the clients.
Asked(c) == phase = "rest" /\ c \in game.requests /\ UNCHANGED <<seen, phase, todo, nextItemID>>

\* Only what the cost lists is compared: a balance a dev command made negative does
\* not matter for a building that does not need it.
Affords(p, k) == \A r \in Resources : Buildings[k].cost[r] > 0 => bank[p][r] >= Buildings[k].cost[r]

PlaceBuilding(p, o) ==
    /\ Asked("place")
    /\ nextID < MaxID
    /\ At(ent, o.at) = {}
    /\ o.at \in Tiles
    /\ Affords(p, o.kind)
    /\ bank' = [bank EXCEPT ![p] = [r \in Resources |-> @[r] - Buildings[o.kind].cost[r]]]
    /\ ent' = [i \in DOMAIN ent \cup {nextID} |->
                 IF i = nextID THEN NewEntity(o, p) ELSE ent[i]]
    /\ marks' = MarkAdded(MarkPlayers(marks, {p}), nextID)
    /\ nextID' = nextID + 1
    /\ UNCHANGED deposit

RemoveBuilding(p, i) ==
    /\ Asked("remove")
    /\ ent[i].owner = p
    /\ bank' = [bank EXCEPT ![p] = [r \in Resources |-> @[r] + Buildings[ent[i].kind].cost[r]]]
    /\ ent' = [j \in DOMAIN ent \ {i} |-> ent[j]]
    /\ marks' = MarkRemoved(MarkPlayers(marks, {p}), {i})
    /\ UNCHANGED <<deposit, nextID>>

\* Mistaken: the entities are dropped and not marked.
ClearQuietly ==
    /\ Asked("clear")
    /\ ent' = <<>>
    /\ marks' = MarkPlayers(marks, IF ent = <<>> THEN {} ELSE Players)
    /\ UNCHANGED <<deposit, bank, nextID>>

\* /clear of a dev server.
ClearAllEntities ==
    /\ Asked("clear")
    /\ ent' = <<>>
    /\ marks' = MarkRemoved(MarkPlayers(marks, IF ent = <<>> THEN {} ELSE Players), DOMAIN ent)
    /\ UNCHANGED <<deposit, bank, nextID>>

\* /set, and /give as a /set of the sum: the quantity is any number.
SetResource(p, r, n) ==
    /\ Asked("set")
    /\ bank' = [bank EXCEPT ![p][r] = n]
    /\ marks' = MarkPlayers(marks, {p})
    /\ UNCHANGED <<ent, deposit, nextID>>

\* Mistaken: the new tiles are not marked.
GenerateQuietly ==
    /\ Asked("regen")
    /\ deposit' = game.ore
    /\ UNCHANGED <<ent, bank, nextID, marks>>

\* /regen: the generator makes the same map again, and marks every tile.
Generate ==
    /\ Asked("regen")
    /\ deposit' = game.ore
    /\ marks' = [marks EXCEPT !.tiles = Tiles]
    /\ UNCHANGED <<ent, bank, nextID>>

(* -------------------------------- the tick ----------------------------- *)

Machines == {i \in DOMAIN ent : ~Buildings[ent[i].kind].logistics
                                /\ Buildings[ent[i].kind].recipe # NoRecipe}
BeltIDs == {i \in DOMAIN ent : ent[i].kind \in Belts}

BeginTick ==
    /\ phase = "rest"
    /\ phase' = "systems"
    /\ todo' = Machines
    /\ UNCHANGED <<World, nextID, nextItemID, marks, seen>>

BeginLogistics ==
    /\ phase = "systems" /\ todo = {}
    /\ phase' = "logistics"
    /\ todo' = BeltIDs
    /\ UNCHANGED <<World, nextID, nextItemID, marks, seen>>

\* The loop over the entities comes to i.
Visiting(ph, i) ==
    /\ phase = ph
    /\ i \in todo
    /\ todo' = todo \ {i}
    /\ UNCHANGED <<nextID, seen, phase>>

RecipeOf(i) == Buildings[ent[i].kind].recipe

\* The resource entity i of E could push is taken by entity j ahead of it.
Receives(E, i, j, r) ==
    /\ E[i].stock[r] > 0
    /\ \/ E[j].kind = "hub"
       \/ /\ E[j].kind \in Belts
          /\ CornerAcceptsFrom(E[i], E[j])
          /\ Len(E[j].belt) < MaxBelt
       \/ /\ E[j].kind \notin Belts \cup {"hub"}
          /\ RoomFor(E[j], r)

\* Mistaken: the counter is read before it is advanced.
LateItem(r) == [id |-> nextItemID, res |-> r, progress |-> 0]

\* addBeltItem: the item that enters a belt.
NewItem(r) == [id |-> nextItemID + 1, res |-> r, progress |-> 0]

\* receiveInto, from the entities E and the marks m that the caller has made:
\* i pushes one r into whatever it faces.
ReceiveInto(E, m, i, r) ==
    LET from == [E EXCEPT ![i].stock[r] = @ - 1]
        Takers == {j \in At(E, Ahead(E[i])) : Receives(E, i, j, r)}
    IN  \/ /\ Takers = {}
           /\ ent' = E
           /\ marks' = m
           /\ UNCHANGED <<bank, nextItemID>>
        \/ \E j \in Takers :
              \/ /\ E[j].kind = "hub"
                 /\ ent' = from
                 /\ bank' = [bank EXCEPT ![E[j].owner][r] = @ + 1]
                 /\ marks' = MarkChanged(MarkPlayers(m, {E[j].owner}), {i})
                 /\ UNCHANGED nextItemID
              \/ /\ E[j].kind \in Belts
                 /\ ent' = [from EXCEPT ![j].belt = Append(@, NewItem(r))]
                 /\ nextItemID' = nextItemID + 1
                 /\ marks' = MarkChanged(m, {i, j})
                 /\ UNCHANGED bank
              \/ /\ E[j].kind \notin Belts \cup {"hub"}
                 /\ ent' = [from EXCEPT ![j].stock[r] = @ + 1]
                 /\ marks' = MarkChanged(m, {i, j})
                 /\ UNCHANGED <<bank, nextItemID>>

Rests(E, m) == ent' = E /\ marks' = m /\ UNCHANGED <<deposit, bank, nextItemID>>

(* tickExtraction *)

Extracts(i) ==
    /\ Visiting("systems", i)
    /\ RecipeOf(i).extraction

Full(i, r) ==
    LET storage == Buildings[ent[i].kind].storage
    IN  r \in DOMAIN storage /\ ent[i].stock[r] >= storage[r]

\* Nothing to mine here; the reset is not marked.
NoDeposit(i) ==
    /\ Extracts(i)
    /\ deposit[ent[i].at].res = NoRes
    /\ Rests([ent EXCEPT ![i].progress = 0], marks)

\* The storage is full: the miner stops, and does not push either.
StorageFull(i) ==
    /\ Extracts(i)
    /\ deposit[ent[i].at].res # NoRes
    /\ Full(i, deposit[ent[i].at].res)
    /\ Rests([ent EXCEPT ![i].progress = 0],
             IF ent[i].progress = 0 THEN marks ELSE MarkChanged(marks, {i}))

Digs(i) ==
    /\ Extracts(i)
    /\ deposit[ent[i].at].res # NoRes
    /\ ~Full(i, deposit[ent[i].at].res)

Dig(i) ==
    /\ Digs(i)
    /\ ent[i].progress + 1 < RecipeOf(i).ticks
    /\ Rests([ent EXCEPT ![i].progress = @ + 1], MarkChanged(marks, {i}))

\* Mistaken: the progress is not reset.
MinedOn(i, r) == [ent EXCEPT ![i].stock[r] = @ + 1]

Mined(i, r) == [ent EXCEPT ![i].stock[r] = @ + 1, ![i].progress = 0]

Mine(i) ==
    /\ Digs(i)
    /\ ent[i].progress + 1 >= RecipeOf(i).ticks
    /\ LET p == ent[i].at
           d == deposit[p]
       IN  /\ deposit' = [deposit EXCEPT ![p] =
                             [res |-> IF d.yield <= 1 THEN NoRes ELSE d.res, yield |-> d.yield - 1]]
           /\ ReceiveInto(Mined(i, d.res),
                          MarkTiles(MarkChanged(marks, {i}), {p}), i, d.res)

(* tickProduction *)

\* What pullInputs takes from the entity j behind i, for a craft i cannot do yet.
PulledFrom(i, j) ==
    [r \in Resources |->
        LET missing == RecipeOf(i).input[r] - ent[i].stock[r]
            has == IF ent[j].kind \in Belts THEN CountOf(ent[j].belt, r) ELSE ent[j].stock[r]
        IN  IF missing <= 0 \/ has <= 0 THEN 0 ELSE IF has > missing THEN missing ELSE has]

NothingBehind(i) == \A j \in At(ent, Behind(ent[i])) : PulledFrom(i, j) = Empty

\* What i was missing goes from j to i.
Taken(i, j) ==
    LET take == PulledFrom(i, j)
    IN  [ent EXCEPT ![i].stock = [r \in Resources |-> @[r] + take[r]],
                    ![j].belt = RemoveItems(@, take),
                    ![j].stock = [r \in Resources |->
                                     IF ent[j].kind \in Belts THEN @[r] ELSE @[r] - take[r]]]

\* Mistaken: the source of what is pulled is not marked.
PullUnmarked(i) ==
    IF HasInputs(ent[i], RecipeOf(i)) \/ NothingBehind(i)
    THEN [ent |-> ent, changed |-> {}]
    ELSE LET j == CHOOSE j \in At(ent, Behind(ent[i])) : TRUE
         IN  [ent |-> Taken(i, j), changed |-> {i}]

\* The entities after pullInputs, and those it has changed.
Pull(i) ==
    IF HasInputs(ent[i], RecipeOf(i)) \/ NothingBehind(i)
    THEN [ent |-> ent, changed |-> {}]
    ELSE LET j == CHOOSE j \in At(ent, Behind(ent[i])) : TRUE
         IN  [ent |-> Taken(i, j), changed |-> {i, j}]

Produces(i) ==
    /\ Visiting("systems", i)
    /\ ~RecipeOf(i).extraction
    /\ UNCHANGED deposit

\* The work takes its time whether or not the inputs are there, and then waits
\* for them.
Work(i) ==
    /\ Produces(i)
    /\ LET E == Pull(i).ent
           rec == RecipeOf(i)
       IN  /\ E[i].progress + 1 < rec.ticks \/ ~HasInputs(E[i], rec)
           /\ Rests([E EXCEPT ![i].progress = IF @ + 1 < rec.ticks THEN @ + 1 ELSE rec.ticks],
                    MarkChanged(marks, Pull(i).changed \cup {i}))

Craft(i) ==
    /\ Produces(i)
    /\ LET E == Pull(i).ent
           rec == RecipeOf(i)
       IN  /\ E[i].progress + 1 >= rec.ticks
           /\ HasInputs(E[i], rec)
           /\ ReceiveInto([E EXCEPT ![i].progress = 0,
                                    ![i].stock = [r \in Resources |->
                                       @[r] - rec.input[r] + (IF r = rec.output THEN rec.qty ELSE 0)]],
                          MarkChanged(marks, Pull(i).changed \cup {i}), i, rec.output)

(* tickLogistics *)

Advanced(q) == [n \in 1..Len(q) |-> [q[n] EXCEPT !.progress = @ + 1]]
Staying(q) == Picked(Advanced(q), {n \in 1..Len(q) : q[n].progress + 1 < BeltSpeed})

\* Mistaken: not sorted.
CompletedUnsorted(q) ==
    Picked(Advanced(q), {n \in 1..Len(q) : q[n].progress + 1 >= BeltSpeed})

\* Those at the end, the furthest along first: they have waited there, or have
\* just come.
Completed(q) ==
    Picked(Advanced(q), {n \in 1..Len(q) : q[n].progress + 1 > BeltSpeed})
    \o Picked(Advanced(q), {n \in 1..Len(q) : q[n].progress + 1 = BeltSpeed})

Held(q) == [n \in 1..Len(q) |-> [q[n] EXCEPT !.progress = BeltSpeed]]

\* The leftover progress goes with the item.
Entering(q) == [n \in 1..Len(q) |-> [q[n] EXCEPT !.progress = @ - BeltSpeed]]

\* Mistaken: the room is not looked at.
PassingAll(i, j, c) == IF CornerAcceptsFrom(ent[i], ent[j]) THEN Len(c) ELSE 0

\* How many items of c belt j takes from belt i.
Passing(i, j, c) ==
    LET room == MaxBelt - Len(ent[j].belt)
    IN  IF ~CornerAcceptsFrom(ent[i], ent[j]) \/ room < 0 THEN 0
        ELSE IF room < Len(c) THEN room ELSE Len(c)

Carries(i) == Visiting("logistics", i) /\ UNCHANGED <<deposit, nextItemID>>

SkipEmptyBelt(i) ==
    /\ Carries(i)
    /\ ent[i].belt = <<>>
    /\ UNCHANGED <<ent, bank, marks>>

MoveBelt(i) ==
    /\ Carries(i)
    /\ ent[i].belt # <<>>
    /\ LET stay == Staying(ent[i].belt)
           done == Completed(ent[i].belt)
           m == MarkChanged(marks, {i})
           Targets == At(ent, Ahead(ent[i]))
       IN  \/ /\ done = <<>> \/ Targets = {}
              /\ ent' = [ent EXCEPT ![i].belt = stay \o Held(done)]
              /\ marks' = m
              /\ UNCHANGED bank
           \/ /\ done # <<>>
              /\ \E j \in Targets :
                 \/ /\ ent[j].kind = "hub"
                    /\ ent' = [ent EXCEPT ![i].belt = stay]
                    /\ bank' = [bank EXCEPT ![ent[j].owner] =
                                   [r \in Resources |-> @[r] + CountOf(done, r)]]
                    /\ marks' = MarkChanged(MarkPlayers(m, {ent[j].owner}), {j})
                 \/ /\ ent[j].kind \in Belts
                    /\ LET n == Passing(i, j, done)
                       IN  ent' = [ent EXCEPT
                              ![i].belt = stay \o Held(SubSeq(done, n + 1, Len(done))),
                              ![j].belt = @ \o Entering(SubSeq(done, 1, n))]
                    /\ marks' = MarkChanged(m, {j})
                    /\ UNCHANGED bank
                 \/ /\ ent[j].kind \notin Belts \cup {"hub"}
                    /\ ent' = [ent EXCEPT
                          ![i].belt = stay,
                          ![j].stock = [r \in Resources |-> @[r] + CountOf(done, r)]]
                    /\ marks' = MarkChanged(m, {j})
                    /\ UNCHANGED bank

\* Mistaken: what was added is left out.
ShownChanged == marks.changed \cap DOMAIN ent

\* The entities a diff carries.
Shown == (marks.added \cup marks.changed) \cap DOMAIN ent

\* TakeChanges and BuildDiff, and the client's apply_diff.
TakeChanges ==
    /\ phase = "logistics" /\ todo = {}
    /\ phase' = "rest"
    /\ seen' = [ent |-> [i \in (DOMAIN seen.ent \cup Shown) \ marks.removed |->
                            IF i \in Shown THEN ent[i] ELSE seen.ent[i]],
                 deposit |-> [p \in Tiles |->
                            IF p \in marks.tiles THEN deposit[p] ELSE seen.deposit[p]],
                 bank |-> [p \in Players |->
                            IF p \in marks.players THEN bank[p] ELSE seen.bank[p]]]
    /\ marks' = NoMarks
    /\ UNCHANGED <<World, nextID, nextItemID, todo>>

-----------------------------------------------------------------------------

TickSystem(i) ==
    NoDeposit(i) \/ StorageFull(i) \/ Dig(i) \/ Mine(i) \/ Work(i) \/ Craft(i)

TickBelt(i) == SkipEmptyBelt(i) \/ MoveBelt(i)

Tick ==
    \/ BeginTick
    \/ BeginLogistics
    \/ TakeChanges
    \/ \E i \in todo : TickSystem(i) \/ TickBelt(i)

Command ==
    \/ \E p \in Players :
          \/ \E o \in game.offers : PlaceBuilding(p, o)
          \/ \E i \in DOMAIN ent : RemoveBuilding(p, i)
          \/ \E r \in Resources, n \in {-1, 1} : SetResource(p, r, n)
    \/ ClearAllEntities
    \/ Generate

Next == (Tick \/ Command) /\ UNCHANGED game

Spec == Init /\ [][Next]_vars

\* The ticker fires for ever; players owe nothing.
FairSpec == Spec /\ WF_vars(Tick /\ UNCHANGED game)

-----------------------------------------------------------------------------
(* What is promised *)

Items == [id : Nat \ {0}, res : Resources, progress : 0..BeltSpeed]
Entities == [kind : DOMAIN Buildings, owner : Players, at : Tiles, dir : Directions,
             flipped : BOOLEAN, progress : Nat, stock : [Resources -> Nat], belt : Seq(Items)]

TypeOK ==
    /\ DOMAIN ent \subseteq 0..(nextID - 1)
    /\ \A i \in DOMAIN ent : ent[i] \in Entities
    /\ deposit \in [Tiles -> Deposits]
    /\ bank \in [Players -> [Resources -> Int]]
    /\ nextID \in Nat
    /\ nextItemID \in Nat
    /\ marks \in [added : SUBSET Nat, changed : SUBSET Nat, removed : SUBSET Nat,
                  players : SUBSET Players, tiles : SUBSET Tiles]
    /\ phase \in {"rest", "systems", "logistics"}
    /\ todo \subseteq DOMAIN ent

\* Where the items are: all pairs of a belt and a place on it.
Spots == {s \in (DOMAIN ent) \X (1..MaxBelt) : s[2] <= Len(ent[s[1]].belt)}
Item(s) == ent[s[1]].belt[s[2]]

(***************************************************************************)
(* A tile holds one building at most, a belt at most MaxBelt items (the      *)
(* limit is read in receiveInto and in tickLogistics, and a belt takes back   *)
(* what it cannot pass on), and no two items share an id, however they are    *)
(* pushed, carried, held back and pulled.                                    *)
(***************************************************************************)
OnePerTile == \A i, j \in DOMAIN ent : ent[i].at = ent[j].at => i = j
BeltBounded == \A i \in DOMAIN ent : Len(ent[i].belt) <= MaxBelt
UniqueItems ==
    /\ \A s \in Spots : Item(s).id <= nextItemID
    /\ \A s, t \in Spots : Item(s).id = Item(t).id => s = t
Consistent == OnePerTile /\ BeltBounded /\ UniqueItems

(***************************************************************************)
(* Every change is marked: whatever is not marked is, in the copy of a        *)
(* client that has applied every diff, just what it is in the world           *)
(* (markAdded, markChanged, markRemoved, and every handler that must call     *)
(* them; BuildDiff names nothing else).                                       *)
(***************************************************************************)
MarksComplete ==
    /\ \A i \in (DOMAIN ent \cup DOMAIN seen.ent)
                \ (marks.added \cup marks.changed \cup marks.removed) :
          /\ i \in DOMAIN ent
          /\ i \in DOMAIN seen.ent
          /\ ent[i] = seen.ent[i]
    /\ \A p \in Players \ marks.players : bank[p] = seen.bank[p]
    /\ \A p \in Tiles \ marks.tiles : deposit[p] = seen.deposit[p]

(***************************************************************************)
(* What MarksComplete rests on, step by step.  Ids are not used again, so     *)
(* what is removed stays removed and what is added or changed is still        *)
(* there; and a miner without a deposit has no progress, or the reset that    *)
(* tickExtraction does not mark (systems.go:105) would be a change that no    *)
(* diff tells.  That needs one miner to a tile, and a /regen that brings back *)
(* no more and no other deposits than there were.                             *)
(***************************************************************************)
Shaped(e) ==
    e = [kind |-> e.kind, owner |-> e.owner, at |-> e.at, dir |-> e.dir, flipped |-> e.flipped,
         progress |-> e.progress, stock |-> e.stock, belt |-> e.belt]
EntitiesKept ==
    /\ nextID \in Nat
    /\ DOMAIN ent \subseteq 0..(nextID - 1)
    /\ ent = [i \in DOMAIN ent |-> ent[i]]
    /\ \A i \in DOMAIN ent :
          /\ Shaped(ent[i])
          /\ ent[i].kind \in DOMAIN Buildings
          /\ ent[i].owner \in Players
          /\ ent[i].at \in Tiles

OreKept ==
    \A p \in Tiles :
        /\ game.ore[p].res = NoRes => deposit[p].res = NoRes
        /\ deposit[p].res # NoRes => deposit[p].yield > 0

LandKept ==
    /\ deposit \in [Tiles -> Deposits]
    /\ OreKept
    /\ bank = [p \in Players |-> bank[p]]

MarksKept ==
    /\ marks \in [added : SUBSET DOMAIN ent, changed : SUBSET DOMAIN ent, removed : SUBSET Nat,
                  players : SUBSET Players, tiles : SUBSET Tiles]
    /\ marks.removed \cap DOMAIN ent = {}
    /\ marks.removed \cup DOMAIN seen.ent \subseteq 0..(nextID - 1)

VisitsKept ==
    /\ phase \in {"rest", "systems", "logistics"}
    /\ phase = "rest" => todo = {}
    /\ phase = "systems" => todo \subseteq Machines
    /\ phase = "logistics" => todo \subseteq BeltIDs

Mines(k) == Buildings[k].recipe # NoRecipe /\ Buildings[k].recipe.extraction
IdleWithoutDeposit ==
    \A i \in DOMAIN ent :
        Mines(ent[i].kind) /\ deposit[ent[i].at].res = NoRes => ent[i].progress = 0

FactoryInv ==
    /\ game \in Games
    /\ EntitiesKept
    /\ OnePerTile
    /\ LandKept
    /\ MarksKept
    /\ VisitsKept
    /\ IdleWithoutDeposit
    /\ MarksComplete

(***************************************************************************)
(* The diff repairs all that is marked: between two ticks a client that has   *)
(* applied it holds the world, removed and replaced buildings included        *)
(* (the order in which apply_diff adds, changes and removes).                 *)
(***************************************************************************)
DiffExact == [][TakeChanges => seen' = [ent |-> ent, deposit |-> deposit, bank |-> bank]]_vars

(* What things are worth *)

WorthOf(stock) == SumFunction([r \in Resources |-> Value[r] * stock[r]])
Contents(e) == WorthOf(e.stock) + WorthOf([r \in Resources |-> CountOf(e.belt, r)])
Price(e) == WorthOf(Buildings[e.kind].cost)
InGround == SumFunction([p \in Tiles |-> IF deposit[p].res = NoRes THEN 0
                                         ELSE deposit[p].yield * Value[deposit[p].res]])
InBanks == SumFunction([p \in Players |-> WorthOf(bank[p])])
InBuildings == SumFunction([i \in DOMAIN ent |-> Contents(ent[i]) + Price(ent[i])])
Worth == InGround + InBanks + InBuildings

\* What goes with the buildings that a step removes.
LostContents == SumFunction([i \in DOMAIN ent \ DOMAIN ent' |-> Contents(ent[i])])

\* What is crafted is worth what it is made from.
ASSUME ValueAssumption ==
    \A k \in DOMAIN Buildings :
        LET rec == Buildings[k].recipe IN
        rec # NoRecipe /\ ~rec.extraction => WorthOf(rec.input) = Value[rec.output] * rec.qty

(***************************************************************************)
(* Nothing is made from nothing and nothing vanishes: digging, pulling,      *)
(* crafting, pushing, carrying and delivering keep the sum of what is in the  *)
(* ground, in the buildings, on the belts and in the banks; a building is     *)
(* worth its cost, paid in full and refunded in full; only what a removed     *)
(* building held is lost (PlaceBuilding, RemoveBuilding, systems.go,          *)
(* logistics.go).                                                             *)
(***************************************************************************)
Conserved ==
    [][game.requests \subseteq {"place", "remove"} => Worth' = Worth - LostContents]_vars

(***************************************************************************)
(* An item on a belt keeps its identity: it stays what it is, it stays on its *)
(* belt, goes on to the belt this one faces, or leaves the belts for good,    *)
(* and no id is used again ("a stable, monotonically increasing ID so the     *)
(* client can track it across ticks and across belt-to-belt transfers").      *)
(***************************************************************************)
ItemsTracked ==
    [][\A t \in Spots' : LET x == Item(t)' IN
          \/ x.id > nextItemID /\ x.id <= nextItemID'
          \/ \E s \in Spots :
                /\ Item(s).id = x.id
                /\ Item(s).res = x.res
                /\ t[1] = s[1] \/ ent[t[1]].at = Ahead(ent[s[1]])]_vars

(***************************************************************************)
(* A line that is fed works to the end: all the ore is dug, smelted and       *)
(* delivered, whatever the order in which each tick visits the entities.      *)
(***************************************************************************)
AllDelivered ==
    game.requests = {} =>
        <>[](InGround = 0 /\ \A i \in DOMAIN ent : Contents(ent[i]) = 0)

(***************************************************************************)
(* A full miner goes on once what it faces takes its ore again.               *)
(***************************************************************************)
FullMiner(i) ==
    /\ i \in Machines
    /\ RecipeOf(i).extraction
    /\ \E r \in Resources, j \in At(ent, Ahead(ent[i])) : Full(i, r) /\ Receives(ent, i, j, r)
FullMinerResumes == \A i \in 0..MaxID : ~<>[]FullMiner(i)

(***************************************************************************)
(* Items stay in order although the belts are visited in any order, share    *)
(* their room and hold items back: of two items of one resource the older is *)
(* never behind the other on a belt ("Hand further-along items off first so   *)
(* that when several finish in the same tick they stay ordered on the         *)
(* receiving belt").                                                          *)
(***************************************************************************)
InOrder ==
    \A s, t \in Spots :
        s[1] = t[1] /\ Item(s).res = Item(t).res /\ Item(s).id < Item(t).id =>
            Item(s).progress >= Item(t).progress

(***************************************************************************)
(* InOrder does not hold in every game.  Items of one resource from two       *)
(* machines that feed one line have ids that are not in the order in which    *)
(* they lie; and an item that was held back enters the next belt a step ahead *)
(* of those it arrived with, which shows when something pulls from that belt  *)
(* just then (MCFactory!Tapped).  In a one-way game neither comes about,      *)
(* whatever is built of what is offered: `way' numbers the tiles that a       *)
(* resource can pass in the order in which it passes them, machines give to   *)
(* the first tile of the way only, and what crafts takes from none but it.    *)
(***************************************************************************)
Plan(e) == [kind |-> e.kind, at |-> e.at, dir |-> e.dir, flipped |-> e.flipped]
Plans(g) == {Plan(g.layout[n]) : n \in 1..Len(g.layout)} \cup g.offers

Works(a) == ~Buildings[a.kind].logistics /\ Buildings[a.kind].recipe # NoRecipe
Crafts(a) == Works(a) /\ ~Buildings[a.kind].recipe.extraction
Makes(ore, a, r) ==
    Works(a) /\ (IF Crafts(a) THEN Buildings[a.kind].recipe.output ELSE ore[a.at].res) = r
Feeds(a, b) == b.kind \in Belts /\ b.at = Ahead(a) /\ CornerAcceptsFrom(a, b)

Route(P, ore, r, way) ==
    /\ \A p, q \in DOMAIN ore : way[p] = way[q] /\ way[p] > 0 => p = q
    /\ \A a, b \in P : Feeds(a, b) =>
          /\ Makes(ore, a, r) => way[b.at] = 1
          /\ a.kind \in Belts /\ way[a.at] > 0 => way[b.at] = way[a.at] + 1
    /\ \A a \in P : Crafts(a) /\ Behind(a) \in DOMAIN ore => way[Behind(a)] <= 1

OneWay(g) ==
    /\ BeltSpeed > 1
    /\ \A r \in Resources :
          \E way \in [DOMAIN g.ore -> 0..Cardinality(DOMAIN g.ore)] : Route(Plans(g), g.ore, r, way)

=============================================================================
