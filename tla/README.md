# Verification of the Labyrinth server

TLA+ models of the server of the multiplayer game Labyrinth (a master server
that registers players and hands out game servers, and the game servers that
run the lobby and the game world), the TLC configurations that check them, and
machine-checked proofs about them.  Paths below are relative to `src/src/`.

## 1. The system

The program is one process.  `main.cpp` starts the `MasterServer`, whose single
dispatcher thread reads UDP packets and gives each request to a worker thread.
Registrations and logins become queries of the `DatabaseAccessor`, which has
workers of its own.  A "find game" request asks the `GameServersController` for
the port of a game server whose lobby is forming; the controller starts one if
there is none.  Each `GameServer` is a task on a thread of its own with its own
UDP socket.  It goes through four stages (lobby, hero pick, world generation,
running game) and in the last one feeds client messages to its `GameWorld`,
which it updates about every 10 ms and whose output events it multicasts.

| component | state | operations | hard behaviour | what makes it correct |
|---|---|---|---|---|
| `GameWorld` tick loop (`gameserver/gamelogic/gameworld.*`) | the list of stored objects, queue of messages, respawn queue, spawner's clock | `ApplyInputEvents`, `update`, `GetRandomPosition`, `InitialSpawn` | objects are removed and added while the list is walked; unbounded search for a free cell | every tick ends; the game can be won |
| Labyrinth (`gameobject`, `item`, `construction`, `units/unit`, `units/mage`) | positions, the key, inventories, PASSABLE | move, take, drop, die, teleport, spawn, respawn | three handlers move the key by hand between storage and inventory | the key is never lost; walls and the door hold |
| Combat (`units/*`, `effect`, `Respawner`) | unit state, attributes, duel targets, health, effects, timers, attack sequence | duel, spells, damage, death, effects, respawn, `Monster::update` | a duel is two weak pointers that must agree; death in the middle of a tick; timers that run in parallel | duels are symmetric, death is consistent, no dereference of nothing |
| Chase (`units/monster.cpp`) | prey, path, cooldown of a step | `Monster::update` while it walks | the path is kept between updates while everybody moves, and is used up by steps that were refused | what is left of a path leads on; a prey that stands still is met |
| Path search (`toolkit/AStar.hpp`) | none (pure) | `AStar` | costs that improve leave stale entries in the set; the first look at the target ends the search | a path is found if there is one, and a shortest one |
| Map generation (`gameserver/gamelogic/gamemap.*`) | none (pure but for the random numbers) | `GenerateMap` | cells are listed several times and drawn in any order; only every second room is opened | a room is a perfect maze; all rooms can be reached |
| `GameServersController` + Poco `TaskManager`, `ThreadPool` | free ports, list of tasks, busy workers | `GetServerAddress`, `onFinished` | called by several tasks at once; the port comes back before the socket is closed | a port is used by one server; a returned address has a server behind it |
| `GameServer` (`gameserver/gameserver.cpp`) | stage, connections, flags per player, timeouts | the four stages, `Ping` | lost and repeated packets, silent clients, `_state` read by other threads | stages follow each other only when every player is through |
| Protocol of the game server (`GameMessage.*`) | names of objects: local uids, the world's sequence | the events and commands, `FindObject` | fields of different widths; late commands about what is gone | all messages name an object alike; a command reaches what it meant |
| `MasterServer` (`masterserver.cpp`) | pool of workers | `run`, the three tasks | tasks wait for workers of another pool; promises nobody keeps | answers are true; no worker waits for ever |
| `DatabaseAccessor` (`services/`) | pool of sessions, the table of users | `Query` (register, login) | SELECT and INSERT are two statements, each of which may fail | an e-mail is registered once |
| Protocol of the master server (`MasterMessage.*`) | none | requests and answers | fields with default values are not sent | what is written is read |
| `SystemMonitor`, `NamedLogger`, `SafePacketGetter`, `date.h`, `optional.hpp` | | | | not modelled, see section 7 |

How they interact: `main` → `MasterServer::run` → (worker) `RegisterTask`,
`LoginTask` → `DatabaseAccessor::Query` → (worker of the accessor) statement →
promise; (worker) `FindGameTask` → `GameServersController::GetServerAddress` →
(worker) `GameServer::runTask` → `GameWorld::update`.  The master server's tasks
and the game servers share the controller's deque of ports (a mutex), Poco's
task list (a mutex) and pool of workers (a mutex), and read a game server's
`_state` without one.  A game server and its world are used by one thread.
Clients reach the master server and each game server by UDP: any packet may be
lost, repeated or late.

## 2. Modules

| module | models | role |
|---|---|---|
| `WorldLoop` | `GameWorld::update`: the phases of a tick, which units are stored, PASSABLE, still to be updated | the state that `Labyrinth` and `Combat` share; both extend it |
| `Labyrinth` | positions, moves, teleports, free cells, the key, inventories, spawning, the win check | detailed specification |
| `KeyCustody` | the one key lies on the floor or has one keeper, and changes hands only by way of the floor | abstract specification that `Labyrinth` implements (`keeper` is the refinement mapping) |
| `Combat` | duels, damage, death, effects, spells, `Monster::update`, `Respawner`, fountain | detailed specification |
| `Duels` | a duel starts between two free units and ends for both | abstract specification that `Combat` implements (`opponent` is `duelTarget`) |
| `PathSearch` | `AStar`, and what a shortest path is | pure algorithm and reference definitions |
| `MapGen` | `GameMapGenerator::GenerateMap`, one draw at a time | algorithm with free choices; extends `PathSearch` |
| `Chase` | a monster that hunts heroes on a generated map | composes `MapGen`, `PathSearch` and the walking part of `Monster::update` |
| `ServerPool` | `GameServersController` with Poco's `TaskManager` and `ThreadPool`, find-game tasks, the life of a game server | concurrent protocol over ports |
| `Session` | one `GameServer`: connections, the four stages, timeouts, an unreliable network, the clients as far as the server depends on them | protocol |
| `Wire` | FlatBuffers: default values are left out, integers are cut | conversion both protocols are built on |
| `GameMessage`, `MasterMessage` | the tables, unions and enumerations of the two protocols | data |
| `Naming` | the numbers objects go by in the world, in events, in clients and in commands | composes `GameMessage` with the storage and the network |
| `Master` | `MasterServer` and `DatabaseAccessor` | concurrent protocol over `MasterMessage` |
| `MCLabyrinth`, `MCCombat`, `MCChase`, `MCNaming`, `MCServerPool`, `MCMaster` | maps, statistics, numbers, symmetries and views for TLC | model checking (`Session` needs none) |
| `LabyrinthProofs`, `CombatProofs`, `PoolProofs`, `SessionProofs`, `MasterProofs`, `NamingProofs` | theorems and proofs | proofs |
| `SearchProofs`, `ChaseProofs` | theorems about `PathSearch`, and about `MapGen` and `Chase` | proofs; the second extends the first |

### Correspondence with the code

**WorldLoop.** `phase` is the place in `GameWorld::update`: "input"
(`ApplyInputEvents`), "objects" (the loop that calls `update` on each object,
followed by `Respawner::update`), "spawner" (`MonsterSpawner::update`),
"wincheck" (the last loop).  `stored` is the set of units `_objectsStorage`
lists; `turn` those the pass has not reached.  The order of the list is not
kept: it changes whenever a hero dies and is pushed back, so every order of
turns is allowed.  A hero that dies in the middle of the pass leaves `stored`
and `turn` at once.  "hung" stands for a `GetRandomPosition` or teleport loop
that cannot find a cell, "crashed" for the end of the process (a null
dereference, `pop_back` on an empty deque, a failed assertion).

**Labyrinth.** `ClientMove`, `ClientTake`, `ClientDrop`, `ClientTeleport` and
`ClientKills` are the cases of `ApplyInputEvents`, each with all it calls:
`ClientDrop` is `Unit::DropItem`, which pushes the item into the storage, and
the handler's own push after it, so `keyCopies` grows by two.  `Impassable` is
the test of `Unit::Move`, `Occupied` the one of `GetRandomPosition` (a stricter
one: a corpse or the key takes a cell too).  Who can hurt whom, how long
respawn and spawn take, and which way A* leads are free choices here.

**Combat.** A timer is the number of updates it has left.  Positions are a
free choice: any duel, any strike and any step that the code allows at *some*
position is allowed.  A duel message may name any number (`Name`): of a stored
unit, of a hero that waits for its respawn, or none of a unit (`NoUnit`: an item,
a construction, nothing).  Four lines may kill the process: the handler of a duel
(`ClientDuelCrashes`), `EndDuel` in a duel with oneself (`ClientKillCrashes`,
`StrikeCrashes`), the end of the fountain's effect (`HealCrash`) and `back()` of
the path of a chasing monster (`PathCrashes`; when the path is empty is told by
`Chase`); `Press` would be a fifth if the sequence were ever empty.  The history
variable `fault` keeps the line and the unit it was run for.  `effects` is what each `EffectsManager` keeps;
`Effect::start` has no caller, so there is no action for it.  `Die` is
`Unit::Die` or `Monster::Die` and both `EndDuel` calls.  The first spells (dash,
teleport) are left out: dash only changes `_moveSpeed`, which nothing reads,
teleport is in `Labyrinth`.

**PathSearch.** `Look` is one of the four equal blocks of the loop (`Meet` and
`Label` are what it does to the search), `Expand` a turn of the loop, `Search`
the state it ends in, `Trail` the walk back along the parents.  The turns are a
recursive function over the natural numbers; `Turns` bounds where the first
state is looked for at which the loop has ended, and that there is one is part
of what `AStarShortest` proves.  `open` is a set of pairs in the order of
`std::set<std::pair<double, Point>>`; a cell whose cost improves is inserted
again and its old entry stays.  Costs are whole numbers, which doubles hold
exactly.

**MapGen.** `Seed`, `Carve` and `FinishRoom` are the parts of the loop over the
rooms; every random number is a free choice.  `list` counts how often the
vector holds a cell.  A room is copied with its coordinates swapped (`Place`),
as the code does.  `carved` is a history variable.

**Chase.** `GiveUp`, `Engage`, `Follow` and `Linger` are the ends of
`Monster::update` in the state WALKING.  `Planned` is the check whether the prey
still is at the end of the path and the search that follows; `Follow` takes the
first cell off the path whether or not `Unit::Move` refuses it (`Blocked`).  An
update that reads an empty path is `Undefined` and ends the run.  `ClientMoves` is
the message CLActionMove, which moves whatever stored unit it names, the monster
and its corpse included.  Fights, deaths and returns of heroes take any time;
`Combat` has their details.  Of the duels only those between a hero and the
monster are kept, and teleports are left out.  `astray` is a history variable:
since the search of the path a step was refused, a later search failed, or a
client moved the monster.

**ServerPool.** `GetServerAddress` is split where another thread can come
between: the copy of the task list, each look at a server's stage, the look at
the idle workers, the pop under the mutex, the constructor of `GameServer` with
its `bind`, `TaskManager::start`.  The end of a task is split like Poco's:
`runTask` returns, the observers are notified (`onFinished` pushes the port),
the task is dropped from the list, the worker becomes idle.  A server exists as
long as anybody points to it, the list copied by another finder included; while
it exists its socket is bound.  Of the stages only "lobby forming" matters here.
`overlapped` is a history variable.

**Session.** One action per packet (`Hear...`) and one per look at the stage
after the socket was drained (`LobbyPass`, `Timeout`, `PickPass`,
`GenerationPass`, `Abandoned`).  A packet a client sent stays deliverable for
ever and any number of times (`sent`, `told`), or is never delivered.
`FallsSilent` is the 180 s limit of `PlayerConnection`.  `Leaves` is a client
that stops for good, after its last packet.  Clients stand for their uuid and
local uid.  A report and a hero pick are assumed to name their sender: the code
finds the connection by the uuid of the message, flags the player by the
`player_uid` of the payload (`gameserver.cpp:401-460`, `583-603`) and compares
the two nowhere.

**Wire, GameMessage, MasterMessage.** A schema maps the fields of a table to
their types.  `Create` leaves out what equals the default and cuts integers to
their width; `Field` reads.  `Messages`, `MessagesTraits`, `Spells` and
`SpellsTraits` are the unions.

**Naming.** An object is its kind, its number and, for a hero, its player.
Every event is made with `Create` from numbers, next to a note (`about`) of the
object each number stands for; the note is what the server meant, and properties
compare it with what a reader of the message finds.  Clients put into their
commands what they read.  The network keeps, loses or repeats packets (`Carried`).

**Master.** `Dispatch` is the loop of `run` and the start of a task on an idle
worker; a request that finds none is not modelled as a step, since nothing
happens.  `Query` hands the promise to a worker of the accessor, `QuerySkipped`
is the query that finds none: the promise dies with its task and the future
throws.  `RegisterSelect` and `Insert` are the two statements; `InsertThrows`
may have stored its row.  `unique` says whether the table, which is not in the
repository, refuses a second row.  `confirmed` and `raced` are history
variables.

## 3. What the runs show

| run | instance | properties |
|---|---|---|
| `labyrinth` | 2 heroes (one a mage), 1 monster, a 5×5 map with 6 open cells, constructions fixed, key and heroes anywhere | types; the key is never lost, doubled or unreachable (`KeyInOnePlace`, `KeyOnOpenFloor`, `KeyCustodySpec`); living units share only the graveyard's cell (`SharedCellIsGrave`); no game ends (`NeverFinished`); with a free cell always left, every tick runs to its end (`TicksGoOn`) |
| `labyrinth_door` | 2 heroes, 1 monster, 7 open cells | `DoorOpensForKey` fails, see section 6 |
| `combat` | a warrior, a mage, a monster, the fountain for the monster only | types; `DuelsConsistent`, `DeathIsFinal`, `SequenceNeverEmpty`; the process dies at four lines, all of them reached, and at each only for a unit that excuses it (`KnownCrashesOnly`); `Duels` is implemented (`DuelsSpec`) |
| `combat_live` | a hero, a monster, the fountain in use | dead heroes return (`HeroesReturn`), a duel with a monster ends without the hero's doing (`MonsterDuelsEnd`), unless the process crashes |
| `combat_freeze` | as `combat` | `FrozenTakesNoInput` fails, see section 6 |
| `chase` | maps of 1, 4 and 9 rooms in every shape the random numbers allow; a hunt for two heroes on the maps with at most 5 cells of floor | a room is a tree at every moment and complete at its end, and BORDER is on the map's border only (`MazeIsTree`, `MazeIsFull`); what mazes and red rooms opened stays open, all of it can be reached and every row of every room has a cell of it (`RoomsConnected`); `AStar` finds a shortest path between any two cells, or none if there is none (`SearchShortest`); the path leads on (`PathLeadsOn`), an empty one is read only after a refused step, a failed search or a client's move of the monster (`EmptyOnlyAstray`); a prey that stands still is met in a hunt without these (`StillPreyMet`) |
| `pool` | 2 find-game tasks at a time, 2 workers, 5 server objects | no port is handed out twice (`PortOwnedOnce`); until two requests overlap no port is lost, none is taken from an empty deque, one lobby forms at a time (`PortsConserved`, `NeverCrashes`, `OneLobby`) |
| `pool_listens` | 1 task, 2 workers | `StartedServerListens` fails, see section 6 |
| `session` | 3 clients, a lobby of 2 | `FullHouse`, `StartedTogether`; an abandoned server stops (`AbandonedServerStops`) |
| `session_hero` | 2 clients, a lobby of 1 (as the controller configures it) | `HeroesKnown` fails, see section 6 |
| `naming` | 2 players, monsters until the numbers reach those of the heroes and then outgrow the 16-bit field | every message names an object by the same number (`OneName`); a command reaches what it meant or nothing, however late (`CommandsMeanIt`) |
| `master` | 2 workers of the master server, 2 of the accessor, one e-mail, two passwords | what clients are told is true (`AnswersTrue`); an e-mail has one row, and who registered is not refused, unless two registrations were between their statements on a table without a unique key (`OneOwner`, `RegisteredCanLogIn`); no worker waits for ever (`WorkersFree`) |

### Bounds, and why they are enough

* *Labyrinth.*  A map of one room with six open cells, which the units,
  corpses, constructions and the key can fill, so that units block each other,
  meet on the graveyard and run out of free cells, all within a few steps.  The
  labyrinth starts full; a monster finds a cell once somebody has taken the
  key.  One placement of the constructions is checked; the proofs cover all of
  them, all maps and any number of units.
* *Combat.*  Each timer has one or two updates, in the order of the source's
  durations; damage, armor and resistance are those of the source and health is
  scaled so that one or two blows kill.  Three units are the least with which
  a duel can be disturbed by a third.  In the run with three units `Dry` lets
  only the monster use the fountain, and only while no spell lasts, so that the
  line that ends its effect is reached; the run with two units has it in free use.  The attack
  sequence has two inputs, so that a duel can end half way.
* *Chase.*  `Configurations` has one room of 3×3 blocks, 2×2 rooms (an even
  number, where the colour is flipped at the start of a row) and 3×3 rooms of
  2×2 blocks.  `Seeds` lets each maze start in one corner.  `MaxHoles` punches one wall per
  room, none with nine rooms.  `SearchCells` and `PlayCells` bound the floor of
  the maps all searches are tried on and the hunt goes on in; with five cells
  a second hero, the graveyard or a corner can be in the way.  The proofs need
  none of these bounds but `PlayCells` and `SearchCells`, which only guard the
  start of the game and what `SearchShortest` looks at, and may be any number.  `Graves` fixes
  the graveyard.
* *ServerPool.*  Two finders are the least that can overtake each other; two
  workers the least with which one server ends while another starts.  Five
  server objects are enough for all that can exist at a time (two on workers,
  those kept alive by a finder's copy and one per finder being made): in the run
  `FreeSlots` is never empty when an object is made.
* *Session.*  One client more than the lobby takes, to overfill it.  No counter
  is bounded: the state is finite.
* *Naming.*  A byte has 32 values (more than there are messages), a ushort 39,
  and the heroes have the numbers 38 and 39.  The sequence starts at 37 after
  the blocks and constructions: the second monster, 38, gets the number of a
  hero, and the third, 39, the other one and the first number that a ushort
  cannot hold.  `MaxObjects`, 40, ends it there.  Players are symmetric: they
  differ in nothing but the order in which they join.  `InFlight` allows one packet each way; a packet that stays is read
  late, after any number of steps.  A world that has crashed, or has made all
  objects and lost all packets, may stop: `CHECK_DEADLOCK FALSE`.
* *Master.*  Two workers on each side are the least that race for an e-mail and
  the least that wait for each other; everybody wants the same e-mail.

## 4. Fairness

`Labyrinth!TickSpec` and `Combat!TickSpec` assume `WF_vars(Tick)`: the loop of a
game server runs on.  The queue of messages is finite in each tick (messages
are pushed only between updates) and the rest is straight-line code over a
finite list.  Nothing is assumed of clients.  `Chase!HuntSpec` assumes that the
monster is updated and that a cooldown passes, both consequences of the same
loop; of an update that finds no path it asks nothing.  `Session!LoopSpec`
assumes weak fairness of the looks at the stage (the loop comes round every
10 ms) and that a client that left for good is silent in the end (180 s pass).
A client may stay and ping for ever, and a server it stays with may run for
ever.  `AbandonedServerStops` takes each update of the world to end, which is
what `TicksGoOn` is about.  `Master!Spec` assumes that threads run on and that
the database answers each statement or fails it.

## 5. What is proved

All theorems hold for every value of the constants that satisfies the named
assumptions (`UnitAssumption`: finite, disjoint sets of heroes and monsters;
`MapAssumption`: a map with borders and any walls inside; `NameAssumption`:
the strings that name constructions are not units; `CombatAssumption`: natural
statistics, positive health and durations, `None` and `NoUnit` no units; `PoolAssumption`: finite sets of
requests and objects, at least one worker; `SessionAssumption`: a finite set of
clients, a positive lobby; `WidthAssumption`, `MasterAssumption`: positive
widths of integers, a byte that can number the messages, a null that is no
record; `GeneratorAssumption`: at least one room of at least one block;
`ChaseAssumption`: a finite set of heroes; `NamingAssumption`: finitely many players, one draw for each, all above
the numbers of the blocks and constructions, as 5000 to 30000 are above those of
any map the configuration asks for, and numbers of objects that fit in 32 bits).

| theorem | module | statement |
|---|---|---|
| `TypeCorrect`, `ChaseTypes` | six, `ChaseProofs` | `Spec => []TypeOK`, `Spec => []ChaseTypeOK` |
| `DoorShut` | `LabyrinthProofs` | nobody ever stands on the door |
| `NoGameWon` | `LabyrinthProofs` | so no game is ever won, on any map |
| `CellsExclusive` | `LabyrinthProofs` | living units share only the graveyard's cell |
| `KeySafe`, `KeyReachable` | `LabyrinthProofs` | the key is in exactly one place, and on an open cell when it lies |
| `ImplementsKeyCustody` | `LabyrinthProofs` | `Labyrinth` implements `KeyCustody` |
| `DuelsHold`, `DeathHolds`, `SequenceHolds` | `CombatProofs` | the three invariants of the run `combat` |
| `CrashesKnown` | `CombatProofs` | the process dies at four lines only, and at each for a unit that excuses it |
| `ImplementsDuels` | `CombatProofs` | `Combat` implements `Duels` |
| `PortOwned` | `PoolProofs` | no port is handed out twice, whatever overtakes what |
| `PortsKept`, `NoCrash`, `OneLobbyForms` | `PoolProofs` | until two requests overlap no port is lost, the empty deque is not popped, one lobby forms at a time |
| `HouseFull`, `StartSynchronised` | `SessionProofs` | `FullHouse`, `StartedTogether` |
| `ReadsBack` | `MasterProofs` | what is read from a table is what was put into it, cut to its field |
| `AnswersAreTrue` | `MasterProofs` | no client is told anything false |
| `OneOwnerHolds`, `RegisteredMayLogIn` | `MasterProofs` | `OneOwner`, `RegisteredCanLogIn` |
| `NamesAgree` | `NamingProofs` | an object has one name in all messages while the numbers fit in 16 bits |
| `CommandsHit` | `NamingProofs` | if the lobby drew different numbers, a command reaches what it means or nothing |
| `AStarShortest` | `SearchProofs` | on any finite area `AStar` comes to an end and returns a shortest way, or nothing where there is none |
| `MazesAreTrees`, `MazesAreFull` | `ChaseProofs` | a room of any size is a tree at every moment and complete at its end |
| `MapsAreConnected` | `ChaseProofs` | on maps of any number of rooms of any size all that mazes and red rooms opened is open and connected, and every row of every room has a cell of it |
| `MapsHaveRoom` | `ChaseProofs` | a map of k * k rooms of side m has at least k * m * k open cells: 90 for the 3 * 3 rooms of side 10 that `GameServer` asks for |
| `SearchesAreShortest` | `ChaseProofs` | so the search is right on every finished map |
| `PathsLeadOn`, `EmptyPathsAreAstray` | `ChaseProofs` | the path of the monster leads on until, and is empty only after, a refused step, a failed search or a client's move of the monster |

*Labyrinth.*  None of the invariants is inductive alone.  That nobody is on the
door needs that spawns and teleports choose cells without constructions, which
needs the constructions on open cells; that a step stays on the map needs every
unit on an open cell (inside the borders); that a death leaves the key in one
place needs that who carries it is stored.  `Inv` is the conjunction of these
with `Lists` (who is stored, living, waiting for a turn) and is preserved by
three kinds of step: a loop step, a relocation to an unblocked cell, a death.

*Combat.*  `TypeOK` is inductive (`fault` names a line exactly when the process
has crashed).  `Core` adds `Lists` (a hero was spawned, a
monster was iff it is stored, only stored units wait for a turn) to the three
invariants, which need each other: `EndDuel` is safe because the targets are
symmetric; they stay symmetric because only walking units start a duel; the prey
of a monster is stored because it walks and `DeathIsFinal` ties the state to the
storage; `SequenceNeverEmpty` holds because a unit in a duel has a target, so
the last input is an attack and refreshes the sequence.  `CrashesKnown` follows
step by step: what goes on leaves `fault` alone, and of the lines that fail the
sequence is ruled out and each other one brings its excuse.  One lemma for each way
a step can treat units (nothing, blow, start, death, spawn) carries the actions.

*ServerPool.*  `Always` holds whatever overlaps: the deque lists no port twice
and none that has an owner (`Deque`), no two own the same port (`Owners`), what
a finder has in hand between two steps (`Hands`), and that a task that runs is
on the list (`Listed`).  `Serial` holds until two requests overlap.  Then one
finder at most is inside (`Alone`), so the workers it saw idle stay idle until
it takes one (`Spare`: fewer busy servers, more idle workers), `start` does not
throw, and each port is in the deque, in its hand or in use.  That the deque is
not empty then is the pigeonhole principle (`PortLeft`): if it were, every port
would be in use by a busy worker of its own, and none would be idle.  One lobby
forms because the finder's copy of the list has every forming lobby that it has
not passed by, and while it is inside no other is made.

*Session.*  `FlagsEarned` says which reports the flags of each stage stand for,
`StartsLate` that nobody is told to start earlier.

*Master.*  The invariant says what the outcome of a query stands for (a task
that holds "success" has its row, one that holds "failure" has a reason), that
every waiting task has one query and every query one task, and that an e-mail
nobody raced for has one task about to insert it at most, and none once it has
a row.  Rows are never removed, so what was true stays true.  That an answer is
read as it was written is `ReadsBack`, although success, being 0, is not sent.

*Naming.*  `Objects` is all that was ever named; it only grows, and so does the
sequence, which is why a late packet stays true (`StaysGood`).  The events are
good one type of message at a time (`EventsGood`, `AttackGood`), from the width
of the field and the numbers that go into it: a ushort only ever holds what the
world numbered itself, and heroes, whose numbers may be wider, are only named in
uints.  A client knows his own number from `Welcome`; so his commands say what
he means (`Clear`), and two objects of one number are one object until the
sequence reaches the numbers of the heroes (`UidsDiffer`).  `CommandsHit` needs
that no number was drawn twice (`Distinct`), which nothing in the code assures.

*PathSearch.*  `Between` is the invariant of the search between two turns of the
loop.  `Labels`: a cell with a cost can be reached in as many steps, its parent is
closed and costs one less, and a closed cell cannot be reached in fewer steps.
`Queue`: a cell that has a cost and is not closed has an entry with its F, and no
entry is below the F of its cell.  `Relaxed`: the free neighbours of a closed cell
have a cost, one more than the cell's at most.  The heart is `Frontier`: a cell
that can be reached in k steps is closed with a cost of at most k, or some cell
that is not closed has a cost that, with the estimate from there, is at most k.
Hence the cheapest entry has the right cost when it is
taken out (`CheapestKnows`; that the estimate is consistent is `EstimateFacts`),
and the first neighbour that is dst is met from a cell whose cost is right, which
is why the early return loses nothing.  The start is listed with F = 0 instead of
its estimate; it is taken out first anyway.  The loop ends because 5 * (cells not
closed) + (entries) gets smaller in every turn: a cell is closed once and lists
four entries at most, and an entry whose cell is closed already lists none.

*MapGen.*  `Growing` is the invariant of a room: an open neighbour has put a cell
into the list once at most (so an open cell, which has drawn its entry with one
open neighbour, is not listed and is never drawn and closed again), and a wall
that is marked, or touches exactly one open cell, is still listed.  So an opened
cell is a new leaf of the tree, and when the list is empty the maze is complete.
Connectedness is `Cut`: however a set is cut in two, some cells of the two parts
touch; unlike `Connected` it needs no induction to be kept.  That a maze touches
all four sides of its room (`MazeTouchesSides`) follows from completeness alone:
the cell of the maze nearest to a side would otherwise leave a wall that touches
it and nothing else.  `Rooms` says of all rooms made so far how they can be
entered from the right and from below; of two rooms side by side one is red
(`RedNext`, for an even and an odd number of rooms in a row) and open along the
whole side, so wherever the other one's opening is, they touch.  `Behind` and
`PutOnce` say that no room is copied over another one, `PutOffRim` that the border
is not drawn over any.  So every finished map is what `Labyrinth` assumes of its
map (`MapAssumption`): a border all round, and any walls inside.  In every row of a
room's blocks something is open (`OpenCrosses`), because what is open is connected
and reaches the first and the last row; over all rooms made so
far this is `Passed`, over all rooms of a finished map `AllRows`.  The cells so
found are different ones (`SameRoom`), and the pigeonhole principle gives their
number (`RowsCount`).

*Chase.*  `ChaseInv` adds to this: units stand on open cells once the game has
begun; a path that can be relied on is a way from the monster to its end; the
empty path cannot be relied on.  A new path is a way by `AStarShortest`, for any
set of cells that are free at the moment of the search.  A step takes the first
cell off: `Towards` leads there because that cell touches the monster's
(`TowardsTouching`), so what is left is a way again (`WayTail`); and it is not
empty, because then the cell stepped on would be the prey's, and the monster,
next to it, would not have taken a step (`TouchingIsNext`).

Every invariant and every refinement that a passing run checks is stated by a
theorem.  Only model-checked: the liveness properties (`TicksGoOn`,
`HeroesReturn`, `MonsterDuelsEnd`, `StillPreyMet`, `AbandonedServerStops`,
`WorkersFree`; the prover has no support for reasoning from fairness).
The library's induction theorems cannot be used with the provers at hand, so the
proofs about recursive functions go by the least number that is a counterexample
(`LeastOf`, `Induct` in `SearchProofs`), from the library's fact that the order
of the natural numbers is well-founded.

## 6. Disagreements between the code and what it says

| run | what the code does |
|---|---|
| `labyrinth_door` | The win condition is a unit with the key on the door (`gameworld.cpp:314-329`), but `Door` never gets PASSABLE (`construction.cpp:23`), so no unit can step on it: no game can be won.  `NoGameWon` proves it. |
| `combat_freeze` | `Effect::start` is never called (`unit.cpp:39-44`): a freeze does not take INPUT.  For the same reason `WarriorArmorUp` only ever takes armor away. |
| `pool_listens` | A port is free again before the server that used it is destroyed (`GameServersController.hpp:42`).  The next server may fail to bind; its constructor logs that, `shutdown()` is undone by the line after the handler (`gameserver.cpp:110-116`), and the server stays in its lobby for ever, with its port the answer to all later requests. |
| `session_hero` | `GameWorld` asserts that every hero is a warrior or a mage (`gameworld.cpp:77`); the hero-pick stage stores any type of the protocol (`gameserver.cpp:417`). |

Met while modelling and without a run of its own: `PushObject` is to be used
only for an object that was removed from the storage (`gameworld.hpp:76-77`),
and the DROP message pushes the item twice (`unit.cpp:156`,
`gameworld.cpp:238`).  The models push it twice too; `DeleteObject` removes both
entries, so nothing else follows (`KeySafe`).

Known and not contradicted by anything the repository says: a duel message with
a number that is no stored unit's (an item, a construction, nothing, a hero that
has just died) dereferences null (`gameworld.cpp:262-270`), so do the death of a
unit in a duel with itself (`unit.cpp:305-315`) and the end of the fountain's
effect (`effect.cpp:268-272`); and a monster may read `back()` of an empty path
(`monster.cpp:96`) after a refused step, a failed search or a client's move of
the monster.  `KnownCrashesOnly` names these four lines.  With two find-game tasks at a
time both see the last idle worker, and then the deque may be empty for the
second, or `start` throws and the port is lost.  On a table
without a unique key two registrations at once leave an e-mail with two
passwords.  A monster with a number over 65535 is announced under another one
(`GameMessage.fbs`, a `ushort`).

## 7. Not modelled

* `SystemMonitor`, `NamedLogger`: they read the machine's load and write logs.
* `SafePacketGetter`: a packet that fails verification is a lost packet.
  `date.h`, `optional.hpp` are vendored; the layout of FlatBuffers is left out.
* `Rogue`, `Priest`, `RogueInvisibility`, `RespawnInvulnerability`: never created.
* Equal local uids: the lobby compares no draw with those before it
  (`gameserver.cpp:232`).  `Session` gives every player its own, the run of
  `Naming` draws different ones, and `CommandsHit` names this as its condition.
* The static buffer builder of `GameServer::Ping`, shared between threads.
* Reports that name another player than their sender: see *Session*.
* In `Chase`, duels between heroes and teleports: they change where a prey is and
  whether it walks, as moves and duels with the monster do.
* The endless searches for a cell are in `Labyrinth` and reached there, but
  `TicksGoOn` speaks of worlds with a free cell left; the crashes of a tick are
  in `Combat`.
* Coordinates, health and spell numbers inside events: they change no state of
  the server.

## 8. What is left

1. `World`: `Labyrinth`, `Combat` and `Chase` as one specification over the
   shared variables of `WorldLoop`, with positions deciding who can fight.
2. `ServerPool` and `Session` as one: what "lobby forming" is there becomes the
   stages here.
