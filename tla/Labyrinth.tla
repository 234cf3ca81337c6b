----------------------------- MODULE Labyrinth -----------------------------
(***************************************************************************)
(* Where everything is: the positions of units, constructions and the key, *)
(* the inventories, the spawning of units and the winning condition        *)
(* (GameWorld, GameObject, Unit::Move/TakeItem/DropItem/Die, Mage's        *)
(* teleport).                                                              *)
(*                                                                         *)
(* Abstracted: who may hurt whom (Combat says it), so any living unit may  *)
(* be killed by a message or by a monster's turn; the respawn and spawn    *)
(* timers, which may expire at any tick; A*, so that a monster steps in    *)
(* any direction.  Client messages may name any unit: the handlers check   *)
(* only that the uid is stored.  InitialSpawn creates one item, the key,   *)
(* and nothing else ever creates one.                                      *)
(***************************************************************************)
EXTENDS WorldLoop, Integers

CONSTANTS
    Mage,       \* the heroes that can teleport
    Size,       \* MapSize * RoomSize + 2: the side of the map, borders included
    Wall,       \* the wall blocks inside the borders
    Reach       \* the greatest distance of a teleport

Cells == (0 .. Size - 1) \X (0 .. Size - 1)
Border == {c \in Cells : \E i \in {1, 2} : c[i] \in {0, Size - 1}}
Open == Cells \ (Border \cup Wall)
Origin == <<0, 0>>      \* where an object stands until it is spawned

ASSUME MapAssumption ==
    /\ Mage \subseteq Hero
    /\ Size \in Nat \ {0, 1, 2}
    /\ Wall \subseteq Cells \ Border
    /\ Reach \in Nat

\* The strings that stand for things other than units are not units.
ASSUME NameAssumption ==
    Unit \cap {"key", "door", "grave", "fountain", "floor"} = {}

VARIABLES
    pos,        \* unit -> its _pos
    site,       \* the positions of the door, the graveyard and the fountain
    keyPos,     \* the _pos of the key
    keyCopies,  \* how many entries of _objectsStorage point to the key
    held        \* unit -> how many entries of its _inventory point to the key

labVars == <<pos, site, keyPos, keyCopies, held>>
vars == <<loopVars, labVars>>

TypeOK ==
    /\ LoopTypeOK
    /\ pos \in [Unit -> Cells]
    /\ site \in [{"door", "grave", "fountain"} -> Cells]
    /\ keyPos \in Cells
    /\ keyCopies \in 0 .. 2
    /\ held \in [Unit -> 0 .. 1]

-----------------------------------------------------------------------------
(* Geometry.                                                               *)

Directions == {"UP", "DOWN", "LEFT", "RIGHT"}

Step(c, d) ==
    CASE d = "UP"    -> <<c[1], c[2] + 1>>
      [] d = "DOWN"  -> <<c[1], c[2] - 1>>
      [] d = "LEFT"  -> <<c[1] - 1, c[2]>>
      [] d = "RIGHT" -> <<c[1] + 1, c[2]>>

WithinReach(c, e) ==
    (c[1] - e[1]) * (c[1] - e[1]) + (c[2] - e[2]) * (c[2] - e[2]) <= Reach * Reach

\* Mutants of Impassable: a door with PASSABLE; the units forgotten.
ImpassableButDoor(c) ==
    c \in Border \cup Wall \cup {site["grave"]} \cup {pos[u] : u \in Living}
ImpassableBlocks(c) == c \in Border \cup Wall \cup {site["door"], site["grave"]}

\* Some stored object at c lacks PASSABLE: a block, the door, the graveyard
\* or a living unit.  The fountain, the key and corpses let units through.
Impassable(c) ==
    \/ c \in Border \cup Wall
    \/ c \in {site["door"], site["grave"]}
    \/ \E u \in Living : pos[u] = c

\* Mutants of Occupied: constructions forgotten; floor blocks count as well.
OccupiedNoConstructions(c) ==
    \/ c \in Border \cup Wall \cup {pos[u] : u \in stored}
    \/ keyCopies > 0 /\ keyPos = c
OccupiedByFloor(c) == c \in Cells

\* GetRandomPosition takes a cell only if all it holds is passable blocks:
\* any unit, item or construction there makes it look for another one.
Occupied(c) ==
    \/ c \in Border \cup Wall
    \/ \E s \in DOMAIN site : site[s] = c
    \/ \E u \in stored : pos[u] = c
    \/ keyCopies > 0 /\ keyPos = c

FreeCells == {c \in Cells : ~Occupied(c)}

-----------------------------------------------------------------------------
(* InitialSpawn: heroes, key, door, graveyard and fountain in that order,  *)
(* each on a cell that nothing occupies yet.                               *)

Placed == Hero \cup {"key", "door", "grave", "fountain"}

Distinct(place) ==
    \A a, b \in Placed : place[a] = place[b] => a = b

Init ==
    /\ LoopInit
    /\ \E place \in [Placed -> Open] :
         /\ Distinct(place)
         /\ pos = [u \in Unit |-> IF u \in Hero THEN place[u] ELSE Origin]
         /\ site = [s \in {"door", "grave", "fountain"} |-> place[s]]
         /\ keyPos = place["key"]
    /\ keyCopies = 1
    /\ held = [u \in Unit |-> 0]

-----------------------------------------------------------------------------
(* What the handlers do to positions and items.                            *)

\* Unit::Move: nothing happens when the target cell is blocked.  No state
\* is consulted, so a unit in a duel and even a corpse can be moved.
Move(u, d) ==
    /\ ~Impassable(Step(pos[u], d))
    /\ pos' = [pos EXCEPT ![u] = Step(pos[u], d)]
    /\ UNCHANGED <<site, keyPos, keyCopies, held>>

\* Mutants of TakeItem: the item stays in the storage; it need not be there.
TakeItemListed(u) ==
    /\ keyCopies > 0
    /\ held' = [held EXCEPT ![u] = @ + 1]
    /\ UNCHANGED <<pos, site, keyPos, keyCopies>>
TakeItemAnywhere(u) ==
    /\ held' = [held EXCEPT ![u] = 1]
    /\ keyCopies' = 0
    /\ UNCHANGED <<pos, site, keyPos>>

\* Unit::TakeItem, then DeleteObject removes every entry of the item.
\* Neither looks at the distance.
TakeItem(u) ==
    /\ keyCopies > 0
    /\ held' = [held EXCEPT ![u] = @ + 1]
    /\ keyCopies' = 0
    /\ UNCHANGED <<pos, site, keyPos>>

\* Unit::DropItem pushes the item to the storage, and so does the handler
\* of the message after it: the key ends up listed twice.
DropItem(u) ==
    /\ held[u] > 0
    /\ held' = [held EXCEPT ![u] = @ - 1]
    /\ keyPos' = pos[u]
    /\ keyCopies' = keyCopies + 2
    /\ UNCHANGED <<pos, site>>

\* Mutant of DropAll: the inventory is kept until the respawn.
DropNothing(u) == u \in Unit /\ UNCHANGED labVars

\* The part of Unit::Die and Monster::Die that concerns items: everything
\* in the inventory is dropped where the unit died.
DropAll(u) ==
    /\ held' = [held EXCEPT ![u] = 0]
    /\ keyPos' = IF held[u] > 0 THEN pos[u] ELSE keyPos
    /\ keyCopies' = keyCopies + held[u]
    /\ UNCHANGED <<pos, site>>

\* The landing cell of Mage::SpellCast(0): a free cell within Reach.
Landing(h) == {c \in FreeCells : WithinReach(pos[h], c)}

Jump(h) ==
    /\ \E c \in Landing(h) : pos' = [pos EXCEPT ![h] = c]
    /\ UNCHANGED <<site, keyPos, keyCopies, held>>

Appear(units, where) ==
    /\ pos' = [u \in Unit |-> IF u \in units THEN where ELSE pos[u]]
    /\ UNCHANGED <<site, keyPos, keyCopies, held>>

\* The unit stands on the door and carries the key.
Escaped(u) == held[u] > 0 /\ pos[u] = site["door"]
-----------------------------------------------------------------------------
(* ApplyInputEvents.                                                       *)

ClientMove(u, d) == Message /\ u \in stored /\ Move(u, d)

ClientTake(u) == Message /\ u \in stored /\ TakeItem(u)

ClientDrop(u) == Message /\ u \in stored /\ DropItem(u)

ClientTeleport(h) == Message /\ h \in stored \cap Mage /\ Jump(h)

\* No cell within Reach is free: the search never ends.
TeleportHangs(h) ==
    /\ phase = "input"
    /\ h \in stored \cap Mage
    /\ Landing(h) = {}
    /\ Stop("hung")
    /\ UNCHANGED labVars

\* An attack spell kills u.
ClientKills(u) == u \in Living /\ KillingMessage(u) /\ DropAll(u)

InputDone == EndInput /\ UNCHANGED labVars

(* The pass over the objects.                                              *)

IdleTurn(u) == TakeTurn(u) /\ UNCHANGED labVars

WalkingTurn(m, d) == m \in Living /\ TakeTurn(m) /\ Move(m, d)

FightingTurn(m, u) ==
    /\ m # u
    /\ {m, u} \subseteq Living
    /\ KillingTurn(m, u)
    /\ DropAll(u)

(* Respawner, spawner and the win check.                                   *)

Respawn(due) ==
    /\ due \subseteq (Hero \ stored)
    /\ RespawnPass(due)
    /\ Appear(due, site["grave"])

SpawnMonster(m) ==
    /\ m \in Monster \ stored
    /\ SpawnStored(m)
    /\ \E c \in FreeCells : Appear({m}, c)

\* The spawner's GetRandomPosition finds the labyrinth full.
SpawnHangs ==
    /\ phase = "spawner"
    /\ Monster \ stored # {}
    /\ FreeCells = {}
    /\ Stop("hung")
    /\ UNCHANGED labVars

NoSpawn == SpawnNothing /\ UNCHANGED labVars

WinCheck ==
    /\ EndTick(\E u \in stored : Escaped(u))
    /\ UNCHANGED labVars

Halted == phase \in Stopped /\ UNCHANGED vars

Tick ==
    \/ InputDone
    \/ \E u \in Unit : IdleTurn(u)
    \/ \E m \in Monster, d \in Directions : WalkingTurn(m, d)
    \/ \E m \in Monster, u \in Unit : FightingTurn(m, u)
    \/ \E due \in SUBSET Hero : Respawn(due)
    \/ \E m \in Monster : SpawnMonster(m)
    \/ SpawnHangs
    \/ NoSpawn
    \/ WinCheck

Client ==
    \/ \E u \in Unit, d \in Directions : ClientMove(u, d)
    \/ \E u \in Unit : ClientTake(u) \/ ClientDrop(u) \/ ClientKills(u)
    \/ \E h \in Hero : ClientTeleport(h) \/ TeleportHangs(h)

Next == Tick \/ Client \/ Halted

Spec == Init /\ [][Next]_vars

\* The queue of messages is finite and the rest of a tick is straight-line
\* code, so every tick runs on.
TickSpec == Spec /\ WF_vars(Tick)
-----------------------------------------------------------------------------
(* Properties.                                                             *)

\* The key is never lost or duplicated: either the storage lists it and no
\* inventory does, or exactly one unit carries it, once, and that unit is
\* itself stored (a dead hero waiting for respawn never keeps it), although
\* taking, dropping and dying are three handlers that each move it by hand.
KeyInOnePlace ==
    LET holders == {u \in Unit : held[u] > 0} IN
    \/ keyCopies > 0 /\ holders = {}
    \/ /\ keyCopies = 0
       /\ \E u \in stored : holders = {u} /\ held[u] = 1

\* A key on the floor lies on an open cell and never under the door, where
\* no unit could be sent to fetch it.
KeyOnOpenFloor == keyCopies > 0 => keyPos \in Open \ {site["door"]}

\* Two living units share a cell only on the graveyard, where every dead
\* hero is put back whether or not somebody is standing there already.
SharedCellIsGrave ==
    \A u, v \in Living : u # v /\ pos[u] = pos[v] => pos[u] = site["grave"]

\* No unit, alive or dead, ever stands on the door: it is spawned on a free
\* cell and has no PASSABLE attribute, so Move refuses every step onto it.
DoorNeverEntered == \A u \in Unit : pos[u] # site["door"]

\* What follows for the loop: the win check never ends a game.
NeverFinished == phase # "finished"

\* The key changes hands only by way of the floor.
keeper ==
    IF \E u \in Unit : held[u] > 0
    THEN CHOOSE u \in Unit : held[u] > 0
    ELSE "floor"

Custody == INSTANCE KeyCustody WITH Floor <- "floor"

KeyCustodySpec == Custody!Spec

\* There is room: each mage has an open cell with nothing on it in reach.
RoomLeft ==
    \A h \in Mage : \E c \in Open \ {keyPos, site["door"], site["grave"], site["fountain"]} :
        WithinReach(pos[h], c) /\ \A u \in stored : pos[u] # c

\* As long as there is room for every spawn and every teleport, the world
\* never stops taking messages: each tick runs to its end.
TicksGoOn == <>[]RoomLeft => []<>(phase = "input")

\* The win condition of GameWorld::update (a unit with the key at the
\* door's position) presumes that a unit with the key can step on the door.
DoorOpensForKey ==
    \A u \in Living, d \in Directions :
        held[u] > 0 /\ Step(pos[u], d) = site["door"] => ~Impassable(site["door"])
=============================================================================
