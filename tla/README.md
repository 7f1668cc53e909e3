# Foundry Protocol: a verification development

TLA+ specifications of Foundry Protocol - the world server, the gateway and the
client's way to a joined world - with the TLC runs that check them and the TLAPS
proofs about them. Paths are relative to the
repository (`src/...`).

- [The system](#the-system)
- [Modules, and how they correspond to the code](#modules-and-how-they-correspond-to-the-code)
- [Runs, bounds and what they show](#runs-bounds-and-what-they-show)
- [Fairness](#fairness)
- [Proofs](#proofs)
- [Disagreements found](#disagreements-found)
- [What is not modelled](#what-is-not-modelled)

## The system

A **world server** (`cmd/world`, `server/`, `world/`) simulates one map of
factories. Players connect with a **client** (`client/`, Godot) over a
websocket. A **gateway** (`gateway/`, `cmd/gateway`) keeps the list of world
servers that a client browses. Content (`content/*.yaml`) is loaded once.

| Component | State | Operations | What makes it correct |
|---|---|---|---|
| Tick loop (`server.go` `runLoop`, `step`, `applyMessage`) | none of its own; it alone touches the world | drain inboxes, apply messages, tick, take changes, store the snapshot, queue the diff | never waits for a client; every client is told of every change |
| Session (`session.go`) | `inbox`, `out` (128 messages each), `resync`, `closed`, `playerID` | reader, writer, `enqueue`, `flushOut`, close | what is dropped is made good by a snapshot; a closed session leaves |
| World simulation (`world/`) | entities, deposits, banks, id counters, change marks | tick of machines and belts, place, remove, dev commands, `TakeChanges` | goods are conserved, belts do not overfill, every change is marked, lines keep working |
| Client replica (`entity_layer.gd`) | entities, players, tiles | `apply_snapshot`, `apply_diff` | comes to equal the world |
| Accounts (`handleHello`, `EnsureHub`) | players, `nextPlayerID`, hubs | hello | one account per name, kept across restarts; a hub for each |
| Persistence (`storage.go`, `data.go`) | the save and its temporary file | autosave, save at shutdown, load, catch up | the save is a whole world at any time; a crash costs one autosave interval at most; no time is simulated twice |
| Lifecycle (`Serve`) | goroutines, HTTP server | start, stop, failure | stops when told to, having saved, whatever fails meanwhile |
| Gateway registry (`gateway/registry.go`) | map of servers under a `RWMutex`, one temporary file, the list's file | register (`Add`, `persist`), list, load | concurrent registrations lose nothing and do not block one another |
| Client connection (`network_manager.gd`, `settings.gd`, the scenes) | autoloads, current scene, HTTP requests, polled socket | browse, join, poll, show the state | one hello under the right name; the welcome finds the main scene; no foreign list is shown; the debug line does not go on about a connection that is gone |
| Terrain generation, content, codec | none after start | pure functions | |

**Interaction.** Readers push decoded messages into their session's inbox; the
step drains every inbox under `Server.mu`, applies the messages, ticks the
world, and pushes one diff into every joined session's `out`. Writers send from
`out`. Sends never block: a message that meets a full queue is dropped and
`resync` is set, and the writer answers the flag by emptying its queue and
sending the stored snapshot `lastSnap` (an atomic pointer). `mu` protects the
set of sessions only; the world belongs to the tick loop; `out`, `inbox`,
`resync` and `closed` are channels and atomics.

**Hard behaviours.** The three goroutines meet in unlocked steps (`enqueue`
fails, then sets the flag; the writer swaps the flag, flushes, then reads the
snapshot; the step stores the snapshot, then queues the diff), so the order of a
snapshot and a diff at the client is not fixed. The world is visited in the
random order of a Go map. Change tracking is by hand: a handler that forgets a
mark leaves clients stale. `Serve`, `runLoop` and the sessions end side by side,
and a process may die in the middle of a save. The gateway's handlers write one
temporary file under a *read* lock. The client polls: sockets, scenes and late
HTTP answers meet between frames. `hazards` in `PROJECT.json` lists each at its line.

## Modules, and how they correspond to the code

| Module | Models | Extends |
|---|---|---|
| `SessionSync` | tick step, sessions, resync, replica | |
| `MCSessionSync` | symmetry and a constraint for its runs | `SessionSync` |
| `SessionSyncProofs` | theorems about `SessionSync` | `SessionSync`, TLAPS |
| `Factory` | machines, belts, building and dev commands, change marks, diff | |
| `MCFactory` | content, maps and layouts of its runs | `Factory` |
| `FactoryProofs` | theorems about what is built, marked and sent; what sums, counts and picks from a belt compute | `Factory`, TLAPS |
| `GoodsProofs` | theorems about what is held: belts, items, goods | `FactoryProofs` |
| `OrderProofs` | that items stay in order in one-way games | `GoodsProofs` |
| `Accounts` | hello, player ids, hubs, owners of buildings, save and restart | |
| `MCAccounts` | a meadow for the hubs of its runs | `Accounts` |
| `AccountsProofs` | theorems about `Accounts` | `Accounts`, TLAPS |
| `DurableWorld` | abstract: what is promised of a world across saves and restarts | |
| `WorldServer` | start, tick loop, saves, stop, failure and crash of a server; implements `DurableWorld` | (`INSTANCE DurableWorld`) |
| `MCWorldServer` | module of its run | `WorldServer` |
| `WorldServerProofs` | theorems about `WorldServer`, the refinement among them | `WorldServer`, TLAPS |
| `DurableList` | abstract: what is promised of the gateway's list across registrations and restarts | |
| `GatewayRegistry` | concurrent registrations, lock, files, restarts; implements `DurableList` | (`INSTANCE DurableList`) |
| `MCGatewayRegistry` | module of its run | `GatewayRegistry` |
| `GatewayRegistryProofs` | theorems about `GatewayRegistry` | `GatewayRegistry`, TLAPS |
| `ClientConnection` | start, scenes, browser, socket | |
| `MCClientConnection` | module of its run | `ClientConnection` |
| `ClientConnectionProofs` | theorems about `ClientConnection` | `ClientConnection`, TLAPS |

The modules meet where one abstracts another: the version per key of
`SessionSync` is what `Factory` marks; the world of `WorldServer`, a tick and the
number of its last live step, stands for the worlds of `Factory` and `Accounts`;
`ClientConnection` ends where the reader of `SessionSync` begins, with the hello.

Definitions named *Mistaken* in a comment are not part of any specification:
each is a plausible bug in the definition that follows it, and the property it
is paired with in `PROJECT.json` (`mutants`) is violated when it takes that
definition's place.

### SessionSync

One action per atomic step of a goroutine. `rpc` and `wpc` are the program
counters of a session's reader and writer, `tpc` that of the tick loop:
`enqueue` is two steps (`Enqueue`/`EnqueueFlag` in the tick loop,
`RefuseMessage`/`ReaderFlag` in the reader), `writerLoop` is `WriterTop`
(swap of `resync`), `WriterFlush`* and `WriterFlushed` (`flushOut`, a message at
a time), `WriterLoad` (load and write the snapshot), `WriterSend`,
`WriterTimeout`, `WriterEnds`; `step` is `BeginStep`, `DrainInbox` per session,
one handler per message followed by the `Enqueue`s it makes, `Tick`,
`StoreSnapshot`, `Enqueue` per joined session, `Queued`. `MuHeld` says where the
tick loop holds `mu`.

Abstractions:
- The world is a version per key (an entity, a player, a tile); removal is a
  version too. A message states a version for the keys it names. `dirty` stands
  for the marks. That every change is marked is what `Factory` checks.
- `view` is what the bytes written so far make of the client: TCP keeps order,
  and `apply_diff` overwrites per key.
- `Live` keys: `Entity.View` shares the stock and resource maps with the world,
  so an encoder may read newer values than those the message was built with
  (`Read`). That Go may abort on such a concurrent access is not modelled.
- Setting `closed`, closing `done` and closing the socket are one step; from
  then on writes fail. The inbox of one session is drained in one step: a
  message that arrives meanwhile counts as before or after.
- `IgnoreMessage` is a message that changes nothing and is not answered: any but a
  hello before the hello, a blank chat, and, in the guise of the latter, a type
  that `applyMessage` does not know.
- Before the first step no snapshot is stored (`WarmStart = FALSE`): a writer
  asked to resync then has nothing to send, and the code goes on without.

### Factory

The tick loop is one goroutine, so an action is the visit of one entity
(`TickSystem(i)`, `TickBelt(i)`); `todo` holds those a pass has not visited yet
and any of them may be next, which is the map's random order. Between two ticks
(`phase = "rest"`) come the commands. `tickExtraction` is `NoDeposit`,
`StorageFull`, `Dig` and `Mine` by its early returns, `tickProduction` is `Work`
and `Craft` (with `pullInputs` as `Pull`), `receiveInto` is `ReceiveInto`,
`tickLogistics` is `MoveBelt`. `marks` holds the five sets of marks, each handler
leaves those the code leaves, and `seen` is the copy of a client that has applied
every diff (`TakeChanges` is also `BuildDiff` and `apply_diff`).

Abstractions:
- Buildings and recipes are data (`Buildings`), as in the code; a recipe has one
  output (all in `content/recipes.yaml` do). Only the ids the code names are
  known to the module: `belt`, `belt_turn`, `hub`.
- The progress of a belt item is counted in steps of 1/`BeltSpeed`, which is
  exact in the code as well (1/8 in binary). Items are sorted by progress with
  `sort.Slice`, stable for the at most five items of a belt; only two values
  occur, at the end since before and just arrived.
- `Tiles` are the buildable tiles (`BuildableAt`); health, names and the tick
  number are left out. A refused request changes nothing and is not an action.
- `Ore` is the generator's map: `/regen` uses the seed of the first generation.
- `game` is the member of `Games` a behaviour plays; it never changes. A game is a
  layout, a map, what the players own, what may be built and which requests come,
  so that one run covers several worlds.
- Saves, offline catch-up and new players are not in this module.

### Accounts

`HandleHello` is `handleHello` whole: the lookup by name, the id counter, the
player, the hub, the session's player id. `EnsureHub` keeps the code's two ways
to do nothing: the player has a hub, or `PlaceBuilding` refuses the tile that
`findSpawn` gives. `PlaceBuilding` and `RemoveBuilding` are here for who owns
what only (a client may place a hub like any other; a hub costs nothing, and what others cost is in `Factory`). `Save`
writes players and buildings; `Restart` is a crash or a shutdown followed by
`New`, which loads the save and starts `nextPlayerID` at 1. `said` is a ghost:
the name of a session's last hello, kept to state `Identity`.

Abstractions: a name is a member of a small set, trimmed; a session closes by
`Disconnect`, and the next connection in its place has no player; the map is
the set `Dry` of tiles the generator left buildable; the save is atomic.
`Restarts` bounds the restarts.

### WorldServer and DurableWorld

`pc` is the main goroutine (`Load`/`LoadFails` for `New`, `Serve`/`ListenFails`,
`NoticeStop` and `NoticeFailure` for the cases of `Serve`'s select,
`CloseAllSessions` and `CloseSession`, `Exit`, `ExitFailed`), `loop` the goroutine
of `runLoop` (`Step`, `StopLoop`, and `DiskStore.Save` as `SaveCreate`,
`SaveEncode`, `SaveRename`, each of which may fail: `CreateFails`, `WriteFails`).
`Crash` ends the process between any two of these and `Launch` starts it again.
`Clock` is the wall clock, `due` the one tick a `time.Ticker` keeps.
`DurableWorld` is what this amounts to, without goroutines, files or failures:
time passes, a server starts from the save, steps, saves and is lost.

Abstractions: the world is a tick and the number of its last live step, which
tells any two worlds of one history apart; `SavedAt` is counted in ticks;
catching up is one step with its cap, `MaxCatchUpTicks`. The process dies, not the
machine: written data stays. `steps`, `born`, `failed` and `ended` are history
variables.

### GatewayRegistry and DurableList

`Add` is `Announce` (the writer waits: no new reader is let in), `Enter` (the last
reader has gone) and `persist`: `ReadList` under the read lock, `OpenTmp`
(`os.WriteFile` opens and truncates), `WriteTmp`, `RenameTmp` or, where another
handler has renamed the one temporary file already, `RenameMissing`. A file is an
inode: a handler goes on writing the file it opened, whatever name it has by then.
`Restart` is a crash followed by `LoadRegistry`.

Abstractions: a list is a function from ids; a write is one step after the
truncation; `List` and the health page change nothing and are left out.

`DurableList` is what is left without lock, handlers and inodes: a list, what is
saved of it and whether somebody saves. A `Save` leaves the saved list as it is,
replaces it by the present one or tears it, and the last of those who save leaves
the present one, unless the disk has failed. `saved` is what `LoadRegistry` would
make of the file, `saving` that some handler is in `persist`.

### ClientConnection

The client is one thread. The autoloads become ready in the order of
`project.godot` (`NetworkReady`, then `SettingsReady`), then a frame is input
(`SetName`, `Play`, `Browse`, `Join`, ...), then `NetworkManager._process`
(`Connecting`, `Open`, `Closing`, `Closed`, `NoSocketYet` by the state it finds),
then the change of scene that was asked for (`MenuReady`, `BrowserReady`,
`MainReady`). `hud` is the text of the main scene's `hud_label` and `debug` whether
it is seen: not before the player presses F12 (`ToggleDebug`), whatever the text says
by then, and while it is seen `main._process` writes it anew every fifteenth frame
(`ShowState`). `Answer` ends an HTTP request at any time and in any order, with a list or an
error, on whatever page the player is by then.

Abstractions: an address is a gateway and whether it has a scheme; a list is the
gateway it came from and its cards; of a socket's messages only the hello and the
welcome are kept. The list of saved gateways is any. What a poll makes of a socket is
the engine's: any later state, `STATE_CLOSING` included, in which
`NetworkManager` leaves it alone for ever. The gateways are the repository's, whose
answer always has an array of servers (`List` makes an empty slice); of an answer whose
`servers` is something else, the typed assignment at `network_manager.gd:181` would
end the handler without a signal, and the browser would go on waiting.

## Runs, bounds and what they show

| Run | Bounds | Shows |
|---|---|---|
| `sync_session` | 1 session, 1 live key, 3 versions, `out` of 2, inbox of 1, a server that has run a while, every message kind | `TypeOK`, the proof's inductive invariant `SyncInv`, `NeverWaits`, `Converges` and `ClosedLeaves`, in every interleaving of tick loop, reader and writer |
| `sync_pair` | 2 sessions, 1 key, queues of 1, a server just started, one session in trouble at a time (`OneInTrouble`) | `NeverStale`: sessions of one step do not cost each other a diff |
| `sync_welcome` | 1 session, 1 key, `out` of 2, hello and chat | finding 1 |
| `factory_games` | four worlds, belts of 3 items and 3 ticks: a line of six buildings around a corner (`Line`); two lines of different ore that meet, the hub built at any time (`Merge`); 3 tiles, 6 offers, 3 buildings placed at any time (`Yard`); a dev server of 2 players with clear, set, regen (`Dev`) | `TypeOK`, `Consistent`, `InOrder`, `MarksComplete`, the proof's `FactoryInv`, `AllDelivered`, `ItemsTracked`, `DiffExact`, `Conserved` |
| `factory_full` | miner and belt, a hub built at any time | finding 2 |
| `factory_overtake` | the code's own belt length, speed, recipe times, caps and prices; two belts that fill up, a gap, a smelter beside it (`Tapped`) | finding 5 |
| `accounts_life` | 2 sessions, 3 names of which 2 are one account, 1 restart, columns of 2 tiles, 2 plots | `TypeOK`, `Identity`, `OwnersKnown`, `OwnersDecide` and the proof's `AccountsInv` |
| `accounts_persist` | 1 session, 2 restarts | finding 3 |
| `accounts_hub` | 1 session, a map of size 7 | finding 4 |
| `server_lives` | 1 session, autosave every 2 ticks, catch-up of 1 tick at most, 4 ticks of time, 2 lives | `TypeOK`, `BoundedLoss`, `OrderlyStop`, the proof's `ServerInv`, `KeepsWorld` (the refinement of `DurableWorld`), `NeverBack`, `StopsWhenAsked` |
| `gateway_add` | 3 requests side by side, 2 ids, 1 info, 3 inodes, 1 crash | `TypeOK`, `Persisted`, `AckedInFile`, the proof's `RegistryInv`, `KeepsList` (the refinement of `DurableList`), `Answered` |
| `client_join` | 2 gateways, 2 servers, 2 names, 2 requests to one gateway at a time | `TypeOK`, `Introduced`, `ShowsActive`, `WelcomeHeard`, the proof's `ClientInv`, `Settles`, `LossShown` |

**Why small queues are enough.** The code's queues hold 128; what matters is a
queue that is empty, has room, or is full, and two messages whose order counts.
The proof of `NeverLeftBehind` covers every capacity and number of sessions.
Versions: a stale copy needs two; a third shows that none is skipped. One
session suffices for most runs because sessions share only the tick loop and
`mu`; `sync_pair` checks the sharing. For `accounts_hub` a map of size 7 has
room for the columns of one player and not of the next; in the code's map of 40
it is the thirteenth that meets the water.

**Why small layouts are enough.** Entities act on the tiles next to them only,
so a defect of a hand-over shows with the giver, the taker and one more entity on
either side. Recipe times and caps are shortened so that full, empty and blocked
all occur. `FewGoods` bounds the buildings placed and, on the dev server, the goods.
`InOrder` compares items of one resource because each comes from one
miner there; ids of two miners are not ordered along a belt. `Merge`, `Yard` and
`Dev` are one-way games, in which it is a theorem (below). `Line` is not, since its
smelter pulls from the second belt: there that it holds is TLC's word, for these
times and this length. `factory_overtake` shows that it need not hold.

**Why the other bounds are enough.** `server_lives`: an interval of 2 has a step
that saves and one that does not; 4 ticks hold two saves and a stop's, in one life
or with a crash between them; catch-up of 1 is both short of and beyond the time a
server can be down. `gateway_add`: two handlers share the temporary file while the
third waits for the lock, and 3 inodes are the list, its temporary file and one
renamed under a writer's hands. `client_join`: two gateways give late answers of
the wrong one, two requests those of the right one.

**What the properties say.** `NeverStale`: unless a resync is due, whatever is
unmarked is at the client in its current version or on its way in order, so no
client is left behind unnoticed. `Converges`: once the world is quiet, a client
that stays connected holds it for good. `MarksComplete`: what is not marked is
unchanged since the last diff, for entities, banks and deposits, after every
step. `Conserved`: the worth of ground, stocks, belts, banks and buildings only
shrinks by what a removed building held. `AllDelivered`: a fed line works to the
end. `NeverWaits`: in every state the tick loop can take a step, full queues
included. `Identity`: before a restart a session acts for the name it gave, and
for nobody else; `OwnersKnown`: world and save agree on who exists, whatever is
lost in a crash. `FactoryInv`: one building per tile, ids never reused, and a
miner without a deposit stands idle, which makes the one unmarked reset of
`tickExtraction` harmless. `BoundedLoss`: unless a save failed, a crash at this
moment takes back `AutoSaveEveryTicks` live steps at most. `OrderlyStop`: once
sessions are closed, and after an end without failure, the save is the last world.
`KeepsWorld`: the save changes from one whole world to another in one step, a
server resumes nothing else, and live ticks and caught-up ticks together never
exceed the time gone by. `NeverBack`: the save never returns to an earlier world.
`StopsWhenAsked`: ticks, failed saves and a failed HTTP server do not hold a stop
up. `Persisted`: once no registration is under way the file lists exactly the
servers in memory. `AckedInFile`: an answered registration survives a crash,
except while a handler writes a file that another has renamed under its hands.
`KeepsList`: however many write and rename one file, it never goes back to an earlier
list, is torn only while somebody saves, and ends with the present one.
`Answered`: no registration blocks another for good. `Introduced`: one hello per
connection, under the player's name. `ShowsActive`: no list of another gateway is
ever shown. `WelcomeHeard`: no welcome is read before the scene that needs it.
`Settles`: a request comes to an end on the page that waits for it. `LossShown`: a
player who keeps the debug display on is told "offline" once the connection is gone,
even one that stays in its closing and that `NetworkManager` never notices. Nothing
is said of a player who does not press F12, and nothing could be: see below.

Deadlock is checked for `SessionSync`, `Factory` and `Accounts`, which go on for
ever. It is not for `WorldServer` (the clock and the lives of the model end), for
`GatewayRegistry` (each handler serves one request) and for `ClientConnection` (a
client in the main scene with a lost connection may do nothing more).

## Fairness

`SessionSync!FairSpec` assumes, and the code justifies:
- weak fairness of the tick loop: the ticker fires for ever and
  `step` has no blocking operation but `mu`, which others hold for one map
  operation;
- weak fairness of each writer and of `ReaderFlag`: goroutines the runtime
  schedules; a write that hangs ends at its deadline, `WriterEnds`;
- weak fairness of `ReaderEnds` once closed: reading a closed socket returns;
- strong fairness of `RemoveSession`: `mu` is free again and again and Go's mutex
  hands it to who has waited for a millisecond;
- `flushOut` returns (`[]<>(wpc # "flush")`): it takes microseconds and the tick
  loop refills the queue every 50 to 100 ms. Without it nothing in the code
  bounds the loop.

Clients owe nothing: no fairness on connecting, sending or failing.
`NeverWaits` needs none. `Factory!FairSpec` has weak
fairness of `Tick` only; players owe nothing.

`WorldServer!FairSpec`: weak fairness of the main goroutine and of `runLoop`, and
strong fairness of `StopLoop`: Go's select picks at random among the cases that
are ready, so the end of the context is taken though a tick is always due. Nobody
owes a signal, a start or a crash. `GatewayRegistry!FairSpec`: weak fairness of
each handler's next step; that the waiting writer keeps new readers out, which
`sync.RWMutex` documents, is in the actions, not in the fairness.
`ClientConnection!FairSpec`: weak fairness of frames, of scenes and of the debug line's
turn in every fifteenth frame (the engine), and of the answer of each gateway, since `HTTPRequest.timeout` is eight seconds.

## Proofs

Every proof is of `Spec`, without fairness, and rests on the named `ASSUME`s of the
module it is about and on nothing else; TLC evaluates those in the runs.

`SessionSyncProofs` proves, from `SyncAssumption` alone (capacities at least 1,
`Live` within `Keys`, `Keys` not empty) and so for any number of sessions and
keys, any capacities and any bound on versions:

- `TypeCorrect`: `Spec => []TypeOK`;
- `SyncInvariant`: `Spec => []SyncInv`, the inductive invariant;
- `NeverLeftBehind`: `Spec => []NeverStale`.

`NeverStale` is not inductive: a resync replaces a client's whole copy by the
snapshot, so the invariant must know the snapshot is current where nothing is
marked (`SnapFresh`), save for the moment between `Tick` and `StoreSnapshot`,
when the diff in hand (`CurFresh`) is ahead of it; that the queue of a session
from which nothing was lost ends with the current version (`OutFresh`); that
only registered or closed sessions have a player (`Registered`), or a joined
session would be missed by the step; and what a client can know while no
snapshot exists (`ColdFresh`). `SyncInv` is their conjunction, checked by TLC in
`sync_session` and proved inductive action by action. Lemmas on queues
(`AppendSays`, `HeadSays`, `KeepsToIt`, `EmptySays`) say what a queue states of a
key after a message is appended, taken or thrown away; the step of each action
uses them for the sessions it touches and a frame lemma for the others.

`AccountsProofs` proves, from `AccountsAssumption` alone (sizes are naturals and
`NoPlayer` is no id), for any number of sessions, names and restarts and any
map: `AccountsInvariant`, `AccountsTypes` (`TypeOK`), `NobodyElse` (`Identity`), `NoOrphans`
(`OwnersKnown`) and `OwnersHand` (the action property `OwnersDecide`). `Identity`
needs `FreshID`, that the counter is past every id in use, or a new account
would take another's place; that is what a restart breaks, hence the
condition `starts = Restarts` and finding 3. `OwnersKnown` needs `WhoKnown`: a
restart that takes the players back also forgets every session.

`FactoryProofs` proves, from `FactoryAssumption` (the content is well formed: costs,
storages and recipes are amounts of resources, of which there are finitely many) and
`GamesAssumption` (maps and players are finite, a deposit that is shown is not empty,
a layout has one building per tile), and so for any content, map, layout, number of
players and belt length:

- `FactoryInvariant`: `Spec => []FactoryInv`;
- `EveryChangeMarked` (`MarksComplete`) and `OneBuildingPerTile`;
- `DiffsSuffice`: `Spec => DiffExact`, what `TakeChanges` sends is enough.

The argument is a frame: `Changes(I, P, T)` says that a step touches only the
entities `I`, players `P` and tiles `T`, and marks at least those. One lemma shows
that whatever is a `Changes` keeps `MarksComplete`; the others show it of each
handler, of machines, belts and pushes. It fails in one place: the reset of
`progress` in `tickExtraction` (`systems.go:105`) is not marked. What saves it is
`IdleWithoutDeposit`, that a miner whose deposit is gone has no progress to lose,
which in turn needs one building per tile (nobody else digs there) and that
`/regen` brings back only deposits that were there. `DiffExact` needs besides that
ids are never reused (`MarksKept`).

`GoodsProofs` proves, from these and `ValueAssumption`, of what the buildings hold:

- `GoodsInvariant`: `Spec => []GoodsInv`;
- `FactoryTypes` (`TypeOK`) and `BeltsConsistent` (`Consistent`);
- `ItemsKeepIdentity`: `Spec => ItemsTracked`;
- `GoodsConserved`: `Spec => Conserved`.

`ValueAssumption` says that what a recipe makes has the `Value` of what it uses.
`Value` is no part of the code: it is any pricing of the resources under which the
recipes are fair, and the theorem says that goods are conserved under each.
`Consistent` is not inductive: that a belt does not overfill needs that only belts
have items and that a hand-over takes no more than fits (`Passing`), and that two
belts never share an item needs that ids in use are at most `nextItemID`. `Sound`
says this of any entities, so that it can be followed through the intermediate ones
of a handler: a machine pulls, then crafts, then pushes, each of which leads from
Sound entities to Sound ones (`PullGoods`, `CraftMoves` and the like). Along the way
`Kept` says that the buildings are the same, `Stays` that no item changes its belt,
`Flows` that it goes to a belt this one faces, or is new, and `Stuff` what all is
worth; `GoodsMove` puts these together for a visit of the tick, `GoodsStep` for any
step. A purchase turns money into a building of the same worth, a removal turns it
back and loses the contents (`LostContents`).

The counting is in the second part of `FactoryProofs`: a sum over a finite set does not depend on the
order in which it is taken, changes by what one term changes, and adds up
(`SumOneMore`, `SumPlus`, ...); the items picked from a belt (`Picked`, which is how
the model takes items out, as `removeBeltItems` and `tickLogistics` do) come in order,
no item twice, and those left and those taken are together what was there
(`PickedServes`, `PickedParts`). These are inductions. The library's induction
theorems are of no use, as they take an operator for a parameter; instead a lemma
says that a set of naturals has a least element (`LeastNatural`, from
`NatLessThanWellFounded`), and the smallest counterexample is led to a
contradiction. The sums of the community modules are recursive functions over
`CHOOSE`: `SumTableExists` builds the table of all partial sums by such an induction,
and `SumFromTable` shows that the fold returns what it says.

`OrderProofs` proves, from `FactoryAssumption` and `GamesAssumption`,
`LinesKeepOrder`: `Spec => [](OneWay(game) => InOrder)`, for any content, map,
belts of any length and any speed above one. It cannot be proved of every game:
the younger item of two miners that feed one line may lie ahead of an older one, and
finding 5 is a game in which even the items of one miner overtake one another. A
one-way game (`Factory!OneWay`) excludes just these, by what may be built in it and
not by what happens: for each resource the tiles can be numbered so that

- a belt with a number feeds only the belt of the next number, so the ways of one
  resource neither meet nor close, though those of different resources may;
- what makes the resource feeds only the belt with number 1;
- what crafts pulls only from behind where there is no number, or number 1.

Players may build and remove all that is offered at any time, the belts of a way in
any order. TLC evaluates, as the assumption `OneWayGames` of `MCFactory`, that
`Merge`, `Yard`, `Dev` and `Stuck` are such games and `Tapped` is not.
The last condition is needed, at the end of a line too: with three straight belts of 2
items, 3 ticks each, between a miner and a smelter that uses one ore in 3 ticks, TLC
finds `InOrder` violated.

`InOrder` is far from inductive. `Sorted` adds the order among items that are equally
far along: these lie in the order in which they came, or the next hand-over would turn
them round. `Located` and `Ranked` relate different belts: items of the resource lie on
the way only, and all on a tile further down are older than all on a tile before it.
`Stalled` is about the head start of finding 5: an item that waits enters the next belt
a step ahead, which is harmless only if nobody is at the start of that belt any more.
While somebody is, that belt is full, so that nothing enters, and if the waiting belt
has yet to be visited in this tick, so has that one, which moves them first. A craft
that takes from the full belt would break this, hence the condition on what crafts.
The proof follows a visit of a belt by what stays (`LeftInOrder`), what waits
(`HeldWait`), what goes on (`TakenInOrder`) and what room there is (`PassingFills`),
whether or not the next belt has had its visit (`CarriedOrdered`); a machine puts
an item at the start of a way, younger than all there are (`EntersOrdered`); pulling and removing only
thin out a belt (`ThinsOrdered`).

`WorldServerProofs`, from `ServerAssumption` and for any interval, catch-up cap,
number of sessions and lives: `ServerInvariant`, `ServerTypeCorrect`,
`LossIsBounded`, `StopsInOrder`, `SaveNeverGoesBack`, and `ImplementsDurableWorld`
(`KeepsWorld`): the initial states map to those of `DurableWorld`, and each step to
one of its or to a stutter. The save's three steps map to a stutter, a stutter and
`Save`, which needs that the temporary file still is the world of the moment
(`Disk`: the tick loop itself writes it) and that no world is ahead of the clock
(`Times`). `BoundedLoss` needs how many live steps the save is behind (`Loss`),
`OrderlyStop` that the loop's last save is its last deed (`LastSave`).

`GatewayRegistryProofs`, from `GatewayAssumption` and for any number of requests:
`RegistryInvariant`, `RegistryTypes` (`TypeOK`), `FileCatchesUp` (`Persisted`),
`AckedIsKept` (`AckedInFile`), and `ImplementsDurableList` (`KeepsList`).
The reason the read lock suffices is `Locked`, that all who persist at one time
write the same list, and `Renamable`, that whoever has written finds that list
under one of the two names, or another is about to write it there. The refinement
needs `Replaced` besides: whoever renames has cut the temporary file first, so that
what takes the place of the list is torn at worst and never the rest of a save of
another day.

`ClientConnectionProofs`, from `ClientAssumption` and for any gateways, servers and
names: `ClientInvariant`, `ClientTypes` (`TypeOK`), `AlwaysIntroduced`
(`Introduced`), `PageIsRight` (`ShowsActive`), `WorldIsRight` (`WelcomeHeard`). `Wired` and `Greeting` say which
scene a socket's state allows: none is open outside the main scene but in the
frame before it, and none of those has said hello.

Model-checked only: liveness (`Converges`, `ClosedLeaves`, `AllDelivered`,
`StopsWhenAsked`, `Answered`, `Settles`, `LossShown`) and
`NeverWaits` (an `ENABLED`), which the prover does not do; and `InOrder` in games
that are not one-way, such as `Line`.

## Disagreements found

1. **The welcome can be lost** (`sync_welcome`): a resync flushes the queued
   welcome and sends only the snapshot, so a joined client may never get the
   content definitions that README.md promises "every client".
2. **A full miner never ships again** (`factory_full`): the early return of
   `tickExtraction` comes before the only push.
3. **Accounts are overwritten after a restart** (`accounts_persist`):
   `nextPlayerID` starts at 1 again over the ids of the save, so the first new
   name takes the place, the hub and the buildings of the saved `p1`.
4. **Later players get no hub** (`accounts_hub`): `findSpawn` moves three columns
   east per player, past the edge of the map, and `EnsureHub` drops the error,
   though the call is commented "Give every player a material hub".
5. **Items overtake one another** (`factory_overtake`): one that finds no room is
   set to 1.0 (`logistics.go:270`), advances once more all the same, and enters the
   next belt an eighth ahead (`progress - 1.0`, `logistics.go:274`), while those it
   finished with, handed over after that belt's visit, are still at 0; a smelter that
   pulls from the next belt between makes the room. `logistics.go:227` says that
   items that finish in the same tick "stay ordered on the receiving belt". No item
   is lost by it (`Conserved`), and none of another resource is held up.

`tickLogistics` also adds what a belt brings to a machine's stock without
`stockCap`, which `receiveInto` asks; the model keeps that (`MoveBelt`), and no
property tells the difference.

Smaller ones, met while reading and without a run of their own:

- `main.gd:370` says "retrying in 2s..." of a lost connection, but
  `network_manager.gd` retries only under `auto_connect`, which is never true, for
  the reason that comes next (`ClientInv` has `~autoConnect`).
- That text hardly reaches anybody: `hud_label` is hidden from the start
  (`_set_debug(false)`, `main.gd:62`) until F12 is pressed, and while it is seen
  `main._process` (`main.gd:85-96`) overwrites it within fifteen frames with "state:
  offline". A player without the debug display is told of a loss by nothing but a
  world that stands still.
- A socket that a poll leaves in `STATE_CLOSING` is neither polled nor reported
  afterwards (`network_manager.gd:58-75`): `_connected` stays true and `disconnected`
  is not emitted. The debug line is right all the same, for it reads the socket
  (`LossShown`).
- `project.godot:20` makes `NetworkManager` ready before `Settings` has read the
  arguments, and `NetworkManager._ready` asks for them: `--ws` (`README.md:100`) is
  never used, and a `--dev` client greets as "Dev" whatever `--user`
  (`README.md:101`) says. `--dev` connects all the same, because the menu goes on to
  the main scene, which connects; a player who comes through the menu has the name
  of `Settings`.
- `Settings._load_cmdline` reads `--key=value` only; with the space form README.md
  shows, the value of `--user Melon` is "true".
- `Settings._normalize` strips `https://`, and a gateway without a scheme is asked
  over `http://`.
- When the HTTP server fails, `Serve` waits for the tick loop, which nobody stops
  until a signal comes (`StopsWhenAsked` is about a server that is asked to stop).
- A handler that renames the temporary file another has just truncated puts an empty
  file in the list's place until the other has written it: a crash in between loses
  the list, and a file cut short keeps the gateway from starting (`AckedInFile` and
  `KeepsList` except this moment).
- `/set` and `/give` take negative quantities, so a player may own less than nothing;
  it can still build what does not cost that resource (`Affords`).
- A registration that finds its temporary file renamed by another answers 400,
  though the server is listed and in the file (`RenameMissing`).
- `DefaultTerrain` takes the first base terrain of a Go map: with two in the
  content, another one at each start.

## What is not modelled

- **Persistence**: a power loss, after which an unsynced file may be empty or old
  (`DiskStore.Save` renames without a sync; what is left then is the file system's
  doing); two processes on one save, which the deployment does not start; a wall
  clock set back; what `FromData` makes of saves of older versions; the dev server,
  which neither loads nor saves.
- **Terrain generation**: floating-point noise, out of TLC's reach. The tiles it
  yields are parameters of `Factory` and `Accounts`.
- **Content loading and validation**, `LoadConfig`: sequential lookups before
  anything runs; what `Factory` needs of the content is `FactoryAssumption`.
- **Wire protocol codec**: `encoding/json` over plain structs.
- **Client scenes, drawing and belt dragging**: a preview on the client; the server
  checks each placement (`PlaceBuilding`). Client messages other than the hello and
  the list of saved gateways are any.
- **Chat, names, health, logging, TLS and HTTP plumbing**.

What is left could be carried further: the world of `WorldServer` replaced by that of
`Accounts`, to state of one module what a crash does to accounts and to time; and an
abstract specification of a client's copy that `SessionSync` implements.
