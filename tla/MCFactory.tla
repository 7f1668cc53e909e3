------------------------------ MODULE MCFactory ------------------------------
(* Factory on small maps: the buildings of content/buildings.yaml, with short *)
(* times and low prices or with their own, and the layouts the runs start     *)
(* from.                                                                     *)
EXTENDS Factory, TLC

MCResources == {"copper", "copper_bar", "iron"}
MCValue == [r \in MCResources |-> IF r = "copper_bar" THEN 2 ELSE 1]

Of(S) == [r \in MCResources |-> IF r \in DOMAIN S THEN S[r] ELSE 0]
NoStorage == [r \in {} |-> 0]

MineOre(ticks) ==
    [extraction |-> TRUE, input |-> Empty, output |-> "copper", qty |-> 0, ticks |-> ticks]
SmeltCopper(ticks) ==
    [extraction |-> FALSE, input |-> Of([copper |-> 2]), output |-> "copper_bar", qty |-> 1,
     ticks |-> ticks]

Store(S, cap) == [r \in S |-> cap]
Plain(cost, logistics) ==
    [logistics |-> logistics, cost |-> Of(cost), recipe |-> NoRecipe, storage |-> NoStorage]

\* A miner takes `mine' ticks, a smelter `smelt', and each stores `cap'.
Content(mine, smelt, cap) ==
    [miner |-> [logistics |-> FALSE, cost |-> Of([copper |-> 1]), recipe |-> MineOre(mine),
                storage |-> Store({"copper", "iron"}, cap)],
     smelter |-> [logistics |-> FALSE, cost |-> Of([copper_bar |-> 1, iron |-> 1]),
                  recipe |-> SmeltCopper(smelt), storage |-> Store(MCResources, cap)],
     wall |-> Plain([iron |-> 1], FALSE),
     belt |-> Plain([iron |-> 1], TRUE),
     belt_turn |-> Plain([iron |-> 1], TRUE),
     hub |-> Plain([iron |-> 0], TRUE)]

\* The request for building k on tile p, facing d; the building of p's owner.
O(k, p, d, f) == [kind |-> k, at |-> p, dir |-> d, flipped |-> f]
Built(k, p, d, f) == [kind |-> k, owner |-> "ann", at |-> p, dir |-> d, flipped |-> f]
B(k, p, d) == Built(k, p, d, FALSE)

OreAt(T, D) == [q \in T |-> IF q \in DOMAIN D THEN D[q] ELSE [res |-> NoRes, yield |-> 0]]
Vein(r, n) == [res |-> r, yield |-> n]
Row(n) == {<<x, 0>> : x \in 0..(n - 1)}
Own(S) == [ann |-> Of(S)]

Game(layout, ore, funds, offers, requests) ==
    [layout |-> layout, ore |-> ore, funds |-> funds, offers |-> offers, requests |-> requests]

-----------------------------------------------------------------------------
\* A line that works: miner, belt, corner, belt, smelter, belt, hub, around a
\* corner to the south.  The corner takes from the west and gives to the south.
LineTiles == {<<0, 0>>, <<1, 0>>, <<2, 0>>, <<2, 1>>, <<2, 2>>, <<2, 3>>}
Line == Game(<<B("miner", <<0, 0>>, 1), B("belt", <<1, 0>>, 1),
               Built("belt_turn", <<2, 0>>, 2, FALSE), B("smelter", <<2, 1>>, 2),
               B("belt", <<2, 2>>, 2), B("hub", <<2, 3>>, 2)>>,
             OreAt(LineTiles, <<0, 0>> :> Vein("copper", 10)), Own(<<>>), {}, {})

\* Two lines of different ores that meet, and a hub still to be built.
MergeTiles == {<<0, 0>>, <<1, 0>>, <<2, 0>>, <<3, 0>>, <<2, 1>>, <<2, 2>>}
Merge == Game(<<B("miner", <<0, 0>>, 1), B("belt", <<1, 0>>, 1), B("belt", <<2, 0>>, 1),
                B("belt", <<2, 1>>, 0), B("miner", <<2, 2>>, 0)>>,
              OreAt(MergeTiles, (<<0, 0>> :> Vein("copper", 7)) @@ (<<2, 2>> :> Vein("iron", 5))),
              Own(<<>>), {O("hub", <<3, 0>>, 1, FALSE)}, {"place"})

\* A miner, a smelter right behind a belt, and all that can be built between.
Yard == Game(<<B("miner", <<0, 0>>, 1)>>, OreAt(Row(3), <<0, 0>> :> Vein("copper", 3)),
             Own([copper |-> 1, copper_bar |-> 1, iron |-> 2]),
             {O("belt", <<1, 0>>, 1, FALSE), O("belt_turn", <<1, 0>>, 1, TRUE),
              O("smelter", <<1, 0>>, 1, FALSE), O("wall", <<2, 0>>, 1, FALSE),
              O("smelter", <<2, 0>>, 1, FALSE), O("hub", <<2, 0>>, 1, FALSE)},
             {"place", "remove"})

\* A dev server: two players, a miner that digs for bob's hub, and a map that
\* is made anew again and again.
Dev == Game(<<B("miner", <<0, 0>>, 1), [B("hub", <<1, 0>>, 1) EXCEPT !.owner = "bob"]>>,
            OreAt(Row(3), <<0, 0>> :> Vein("copper", 1)),
            [p \in {"ann", "bob"} |-> Of([iron |-> 1])],
            {O("miner", <<0, 0>>, 1, FALSE), O("hub", <<2, 0>>, 3, FALSE)},
            {"place", "remove", "clear", "set", "regen"})

\* A miner that fills up while its belt leads nowhere.
Stuck == Game(<<B("miner", <<0, 0>>, 1), B("belt", <<1, 0>>, 1)>>,
              OreAt(Row(3), <<0, 0>> :> Vein("copper", 6)), Own(<<>>),
              {O("hub", <<2, 0>>, 1, FALSE)}, {"place"})

\* Two belts full of ore in front of a gap, beside it a smelter that waits for
\* ore; the player has what the belt in the gap and a second smelter cost.
Gap == <<3, 0>>
Tapped == Game(<<B("miner", <<0, 0>>, 1), B("belt", <<1, 0>>, 1), B("belt", <<2, 0>>, 1),
                 B("smelter", <<3, 1>>, 2)>>,
               OreAt(Row(4) \cup {<<3, 1>>, <<3, -1>>}, <<0, 0>> :> Vein("copper", 500)),
               Own([copper_bar |-> 20, iron |-> 15]),
               {O("belt", Gap, 1, FALSE), O("smelter", <<3, -1>>, 0, FALSE)}, {"place"})

MCGames == {Line, Merge, Yard, Dev}
StuckGames == {Stuck}
TappedGames == {Tapped}
MCBuildings == Content(2, 3, 2)

\* The games in which the order is kept by theorem, and one in which it is not:
\* there a smelter pulls from the third belt of a line.
ASSUME OneWayGames == (\A g \in {Merge, Yard, Dev, Stuck} : OneWay(g)) /\ ~OneWay(Tapped)

\* The times, caps and prices of content/buildings.yaml and content/recipes.yaml.
RealBuildings == [Content(25, 20, 100) EXCEPT
                     !.miner.cost = Of([copper |-> 30]),
                     !.belt.cost = Of([iron |-> 5]), !.belt_turn.cost = Of([iron |-> 5]),
                     !.wall.cost = Of([iron |-> 20]),
                     !.smelter.cost = Of([copper_bar |-> 20, iron |-> 10])]

\* Bounds of the model: buildings placed in each game, and on the dev server a
\* single item and few goods.
FewGoods ==
    /\ nextID <= Len(game.layout) + (IF game = Yard THEN 3 ELSE 1)
    /\ "set" \in game.requests =>
          /\ nextItemID <= 1
          /\ \A p \in Players :
                bank[p]["copper"] <= 1 /\ bank[p]["iron"] >= 0 /\ bank[p]["copper_bar"] = 0

\* Bounds of the line with the gap: ten items wait before anything is built.
TenWait == nextItemID <= 11 /\ (nextID = Len(game.layout) \/ nextItemID >= 10)

=============================================================================
