-------------------------- MODULE LabyrinthProofs --------------------------
(***************************************************************************)
(* Proofs about Labyrinth for any number of heroes and monsters and any    *)
(* map.  One inductive invariant, Inv, carries all of them.                *)
(***************************************************************************)
EXTENDS Labyrinth, TLAPS

Sites == {"door", "grave", "fountain"}

\* The constructions stand on open cells, no two of those that block on one.
SitesOpen ==
    /\ \A s \in Sites : site[s] \in Open
    /\ site["door"] # site["grave"]

\* A unit that was ever spawned stands on an open cell other than the
\* door's; a monster not created yet is at the origin.
UnitsOpen ==
    \A u \in Unit :
        IF u \in Hero \cup stored
        THEN pos[u] \in Open /\ pos[u] # site["door"]
        ELSE pos[u] = Origin

\* Who is where: a hero is stored exactly while it is alive, only created
\* monsters can be dead, and only stored units wait for their turn.
Lists ==
    /\ turn \subseteq stored
    /\ phase \in Running => phase = "objects" \/ turn = {}
    /\ \A h \in Hero : h \in stored <=> h \notin passable
    /\ \A m \in Monster : m \in passable => m \in stored

Inv ==
    /\ TypeOK
    /\ Lists
    /\ SitesOpen
    /\ UnitsOpen
    /\ KeyOnOpenFloor
    /\ KeyInOnePlace
    /\ SharedCellIsGrave
    /\ NeverFinished

-----------------------------------------------------------------------------
\* A step from an open cell stays on the map: the border cannot be jumped.
LEMMA StepStaysOnMap ==
    ASSUME NEW c \in Open, NEW d \in Directions
    PROVE  Step(c, d) \in Cells
  <1>1. PICK x \in 0 .. Size - 1, y \in 0 .. Size - 1 : c = <<x, y>>
    BY DEF Open, Cells
  <1>2. x \notin {0, Size - 1} /\ y \notin {0, Size - 1}
    <2>1. c \notin Border /\ c \in Cells
      BY DEF Open
    <2>2. \A i \in {1, 2} : c[i] \notin {0, Size - 1}
      BY <2>1 DEF Border
    <2> QED
      BY <1>1, <2>2
  <1>3. Size \in Nat
    BY MapAssumption
  <1>4. /\ x + 1 \in 0 .. Size - 1 /\ x - 1 \in 0 .. Size - 1
        /\ y + 1 \in 0 .. Size - 1 /\ y - 1 \in 0 .. Size - 1
    BY <1>2, <1>3
  <1>5. Step(c, d) \in {<<x, y + 1>>, <<x, y - 1>>, <<x - 1, y>>, <<x + 1, y>>}
    BY <1>1 DEF Step, Directions
  <1> QED
    BY <1>4, <1>5 DEF Cells

\* The origin lies on the border.
LEMMA OriginNotOpen == Origin \in Cells /\ Origin \notin Open
  <1>1. Size \in Nat /\ Size > 2
    BY MapAssumption
  <1>2. Origin \in Cells
    BY <1>1 DEF Origin, Cells
  <1>3. Origin \in Border
    BY <1>2 DEF Border, Origin
  <1> QED
    BY <1>2, <1>3 DEF Open

-----------------------------------------------------------------------------
\* InitialSpawn establishes the invariant.
LEMMA InitInv == Init => Inv
  <1> SUFFICES ASSUME Init PROVE Inv
    OBVIOUS
  <1>1. PICK place \in [Placed -> Open] :
          /\ Distinct(place)
          /\ pos = [u \in Unit |-> IF u \in Hero THEN place[u] ELSE Origin]
          /\ site = [s \in Sites |-> place[s]]
          /\ keyPos = place["key"]
    BY DEF Init, Sites
  <1>2. Open \subseteq Cells
    BY DEF Open
  <1>3. Hero \cap {"key", "door", "grave", "fountain"} = {}
    BY NameAssumption DEF Unit
  <1>4. TypeOK
    BY <1>1, <1>2, OriginNotOpen
    DEF Init, LoopInit, TypeOK, LoopTypeOK, Placed, Unit, Running, Sites
  <1>5. Lists
    BY DEF Init, LoopInit, Lists
  <1>6. SitesOpen
    BY <1>1 DEF SitesOpen, Sites, Placed, Distinct
  <1>7. UnitsOpen
    BY <1>1, <1>3, OriginNotOpen, UnitAssumption
    DEF UnitsOpen, Init, LoopInit, Unit, Placed, Distinct, Sites
  <1>8. KeyOnOpenFloor
    BY <1>1 DEF KeyOnOpenFloor, Placed, Distinct, Sites
  <1>9. KeyInOnePlace
    BY DEF Init, KeyInOnePlace
  <1>10. SharedCellIsGrave
    BY <1>1 DEF SharedCellIsGrave, Living, Init, LoopInit, Placed, Distinct, Unit
  <1>11. NeverFinished
    BY DEF Init, LoopInit, NeverFinished
  <1> QED
    BY <1>4, <1>5, <1>6, <1>7, <1>8, <1>9, <1>10, <1>11 DEF Inv

\* No living or dead unit stands on the door, so the win check lets the
\* game go on.
LEMMA NobodyEscapes == Inv => DoorNeverEntered
  BY OriginNotOpen DEF Inv, DoorNeverEntered, SitesOpen, Sites, UnitsOpen

\* A loop step that moves nothing and stores or removes no unit.
LEMMA LoopStepInv ==
    ASSUME Inv, UNCHANGED labVars, stored' = stored, passable' = passable,
           turn' \subseteq stored, phase' \in Running \cup {"hung"},
           phase' \in {"objects", "hung"} \/ turn' = {}
    PROVE  Inv'
  <1>1. TypeOK'
    BY DEF Inv, TypeOK, LoopTypeOK, labVars, Running, Stopped
  <1>2. Lists' /\ NeverFinished'
    BY DEF Inv, Lists, NeverFinished, Running
  <1>3. SitesOpen' /\ UnitsOpen' /\ KeyOnOpenFloor' /\ KeyInOnePlace'
    BY DEF Inv, SitesOpen, UnitsOpen, KeyOnOpenFloor, KeyInOnePlace, labVars
  <1>4. SharedCellIsGrave'
    BY DEF Inv, SharedCellIsGrave, Living, labVars
  <1> QED
    BY <1>1, <1>2, <1>3, <1>4 DEF Inv

\* One stored unit goes to a cell that no living unit blocks: Move and the
\* teleport.  The loop may advance meanwhile (a monster's turn).
LEMMA RelocateInv ==
    ASSUME Inv, NEW u \in stored, NEW c \in Open,
           c # site["door"],
           \A v \in Living : pos[v] # c,
           pos' = [pos EXCEPT ![u] = c],
           UNCHANGED <<site, keyPos, keyCopies, held>>,
           stored' = stored, passable' = passable,
           turn' \subseteq stored, phase' \in Running,
           phase' = "objects" \/ turn' = {}
    PROVE  Inv'
  <1>0. u \in Unit /\ c \in Cells
    BY DEF Inv, TypeOK, LoopTypeOK, Open
  <1>1. TypeOK'
    BY <1>0 DEF Inv, TypeOK, LoopTypeOK, Running, Stopped
  <1>2. Lists' /\ NeverFinished'
    BY DEF Inv, Lists, NeverFinished, Running
  <1>3. SitesOpen' /\ KeyOnOpenFloor' /\ KeyInOnePlace'
    BY DEF Inv, SitesOpen, KeyOnOpenFloor, KeyInOnePlace
  <1>4. UnitsOpen'
    BY <1>0 DEF Inv, TypeOK, UnitsOpen
  <1>5. SharedCellIsGrave'
    BY <1>0 DEF Inv, TypeOK, LoopTypeOK, SharedCellIsGrave, Living
  <1> QED
    BY <1>1, <1>2, <1>3, <1>4, <1>5 DEF Inv

\* Move leads a stored unit to such a cell.
LEMMA MoveTarget ==
    ASSUME Inv, NEW u \in stored, NEW d \in Directions,
           ~Impassable(Step(pos[u], d))
    PROVE  /\ Step(pos[u], d) \in Open
           /\ Step(pos[u], d) # site["door"]
           /\ \A v \in Living : pos[v] # Step(pos[u], d)
  <1>1. pos[u] \in Open
    BY DEF Inv, TypeOK, LoopTypeOK, UnitsOpen
  <1>2. Step(pos[u], d) \in Cells
    BY <1>1, StepStaysOnMap
  <1> QED
    BY <1>2 DEF Impassable, Open

\* So does GetRandomPosition.
LEMMA FreeCellTarget ==
    ASSUME Inv, NEW c \in FreeCells
    PROVE  /\ c \in Open
           /\ c # site["door"]
           /\ \A v \in Living : pos[v] # c
  BY DEF FreeCells, Occupied, Open, Living, Inv, TypeOK

\* A unit dies and drops what it carries.
LEMMA DeathInv ==
    ASSUME Inv, NEW u \in Living, DropAll(u),
           stored' = stored \ ({u} \cap Hero),
           passable' = passable \cup {u},
           turn' \subseteq stored', phase' \in Running,
           phase' = "objects" \/ turn' = {}
    PROVE  Inv'
  <1>0. u \in Unit /\ u \in stored
    BY DEF Inv, TypeOK, LoopTypeOK, Living
  <1>1. TypeOK'
    BY <1>0 DEF Inv, TypeOK, LoopTypeOK, KeyInOnePlace, DropAll, Running, Stopped
  <1>2. Lists' /\ NeverFinished'
    BY <1>0, UnitAssumption DEF Inv, Lists, NeverFinished, Running
  <1>3. SitesOpen' /\ UnitsOpen'
    BY <1>0 DEF Inv, SitesOpen, UnitsOpen, DropAll
  <1>4. KeyInOnePlace'
    BY <1>0 DEF Inv, TypeOK, KeyInOnePlace, DropAll
  <1>5. KeyOnOpenFloor'
    BY <1>0 DEF Inv, TypeOK, KeyInOnePlace, KeyOnOpenFloor, UnitsOpen, DropAll
  <1>6. SharedCellIsGrave'
    BY DEF Inv, SharedCellIsGrave, Living, DropAll
  <1> QED
    BY <1>1, <1>2, <1>3, <1>4, <1>5, <1>6 DEF Inv

-----------------------------------------------------------------------------
\* Every step keeps the invariant: one case per action.
LEMMA NextInv == Inv /\ [Next]_vars => Inv'
  <1> SUFFICES ASSUME Inv, [Next]_vars PROVE Inv'
    OBVIOUS
  <1>0. LoopTypeOK /\ Lists /\ NeverFinished
    BY DEF Inv, TypeOK
  <1> USE DEF Running
  <1>1. CASE InputDone
    BY <1>1, LoopStepInv DEF InputDone, EndInput
  <1>2. ASSUME NEW u \in Unit, IdleTurn(u) PROVE Inv'
    BY <1>0, <1>2, LoopStepInv DEF IdleTurn, TakeTurn, Lists
  <1>3. ASSUME NEW m \in Monster, NEW d \in Directions, WalkingTurn(m, d)
        PROVE  Inv'
    <2>1. m \in stored /\ turn' \subseteq stored /\ phase' \in Running
      BY <1>0, <1>3 DEF WalkingTurn, TakeTurn, Lists
    <2>2. /\ Step(pos[m], d) \in Open
          /\ Step(pos[m], d) # site["door"]
          /\ \A v \in Living : pos[v] # Step(pos[m], d)
      BY <1>3, <2>1, MoveTarget DEF WalkingTurn, Move
    <2> QED
      BY <1>3, <2>1, <2>2, RelocateInv DEF WalkingTurn, TakeTurn, Move
  <1>4. ASSUME NEW m \in Monster, NEW u \in Unit, FightingTurn(m, u)
        PROVE  Inv'
    BY <1>0, <1>4, DeathInv DEF FightingTurn, KillingTurn, Lists
  <1>5. ASSUME NEW due \in SUBSET Hero, Respawn(due) PROVE Inv'
    <2>1. due \subseteq Hero \ stored /\ due \subseteq passable /\ turn = {}
      BY <1>0, <1>5 DEF Respawn, RespawnPass, Lists
    <2>2. site["grave"] \in Open \cap Cells /\ site["grave"] # site["door"]
      BY DEF Inv, SitesOpen, Sites, Open
    <2>3. TypeOK'
      BY <1>5, <2>1, <2>2
      DEF Inv, TypeOK, LoopTypeOK, Respawn, RespawnPass, Appear, Unit
    <2>4. Lists' /\ NeverFinished'
      BY <1>0, <1>5, <2>1, UnitAssumption
      DEF Lists, NeverFinished, Respawn, RespawnPass
    <2>5. SitesOpen' /\ UnitsOpen'
      BY <1>5, <2>1, <2>2
      DEF Inv, SitesOpen, UnitsOpen, Respawn, RespawnPass, Appear
    <2>6. KeyOnOpenFloor' /\ KeyInOnePlace'
      BY <1>5
      DEF Inv, KeyOnOpenFloor, KeyInOnePlace, Respawn, RespawnPass, Appear
    <2>7. SharedCellIsGrave'
      BY <1>0, <1>5, <2>1
      DEF Inv, LoopTypeOK, SharedCellIsGrave, Living, Respawn, RespawnPass, Appear, Unit
    <2> QED
      BY <2>3, <2>4, <2>5, <2>6, <2>7 DEF Inv
  <1>6. ASSUME NEW m \in Monster, SpawnMonster(m) PROVE Inv'
    <2>1. PICK c \in FreeCells : Appear({m}, c)
      BY <1>6 DEF SpawnMonster
    <2>2. c \in Open /\ c # site["door"] /\ \A v \in Living : pos[v] # c
      BY FreeCellTarget
    <2>3. m \in Unit /\ m \notin stored /\ m \notin passable /\ m \notin Hero
      BY <1>0, <1>6, UnitAssumption DEF SpawnMonster, Lists, Unit
    <2>4. /\ phase = "spawner" /\ phase' = "wincheck" /\ stored' = stored \cup {m}
          /\ UNCHANGED <<turn, passable>>
      BY <1>6 DEF SpawnMonster, SpawnStored
    <2>5. TypeOK'
      BY <2>1, <2>2, <2>3, <2>4 DEF Inv, TypeOK, LoopTypeOK, Appear, Open
    <2>6. Lists' /\ NeverFinished'
      BY <1>0, <2>3, <2>4 DEF Lists, NeverFinished
    <2>7. SitesOpen' /\ UnitsOpen'
      BY <2>1, <2>2, <2>3, <2>4 DEF Inv, SitesOpen, UnitsOpen, Appear
    <2>8. KeyOnOpenFloor' /\ KeyInOnePlace'
      BY <2>1, <2>4 DEF Inv, KeyOnOpenFloor, KeyInOnePlace, Appear
    <2>9. SharedCellIsGrave'
      BY <1>0, <2>1, <2>2, <2>3, <2>4
      DEF Inv, LoopTypeOK, SharedCellIsGrave, Living, Appear
    <2> QED
      BY <2>5, <2>6, <2>7, <2>8, <2>9 DEF Inv
  <1>7. CASE SpawnHangs
    BY <1>0, <1>7, LoopStepInv DEF SpawnHangs, Stop, Lists
  <1>8. CASE NoSpawn
    BY <1>0, <1>8, LoopStepInv DEF NoSpawn, SpawnNothing, Lists
  <1>9. CASE WinCheck
    <2>1. \A u \in stored : ~Escaped(u)
      BY <1>0, NobodyEscapes DEF DoorNeverEntered, Escaped, LoopTypeOK
    <2> QED
      BY <1>0, <1>9, <2>1, LoopStepInv DEF WinCheck, EndTick, Lists
  <1>10. ASSUME NEW u \in Unit, NEW d \in Directions, ClientMove(u, d)
         PROVE  Inv'
    <2>1. u \in stored /\ UNCHANGED loopVars /\ phase = "input"
      BY <1>10 DEF ClientMove, Message
    <2>2. /\ Step(pos[u], d) \in Open
          /\ Step(pos[u], d) # site["door"]
          /\ \A v \in Living : pos[v] # Step(pos[u], d)
      BY <1>10, <2>1, MoveTarget DEF ClientMove, Move
    <2> QED
      BY <1>0, <1>10, <2>1, <2>2, RelocateInv DEF ClientMove, Move, loopVars, Lists
  <1>11. ASSUME NEW u \in Unit, ClientTake(u) PROVE Inv'
    <2>1. u \in stored /\ UNCHANGED loopVars
      BY <1>11 DEF ClientTake, Message
    <2>2. TypeOK' /\ KeyOnOpenFloor' /\ KeyInOnePlace'
      BY <1>11, <2>1
      DEF Inv, TypeOK, LoopTypeOK, KeyOnOpenFloor, KeyInOnePlace, ClientTake, TakeItem, loopVars
    <2>3. Lists' /\ SitesOpen' /\ UnitsOpen' /\ SharedCellIsGrave' /\ NeverFinished'
      BY <1>11, <2>1
      DEF Inv, Lists, SitesOpen, UnitsOpen, SharedCellIsGrave, Living, NeverFinished,
          ClientTake, TakeItem, loopVars
    <2> QED
      BY <2>2, <2>3 DEF Inv
  <1>12. ASSUME NEW u \in Unit, ClientDrop(u) PROVE Inv'
    <2>1. u \in stored /\ UNCHANGED loopVars
      BY <1>12 DEF ClientDrop, Message
    <2>2. TypeOK' /\ KeyOnOpenFloor' /\ KeyInOnePlace'
      BY <1>12, <2>1
      DEF Inv, TypeOK, LoopTypeOK, KeyOnOpenFloor, KeyInOnePlace, UnitsOpen,
          ClientDrop, DropItem, loopVars
    <2>3. Lists' /\ SitesOpen' /\ UnitsOpen' /\ SharedCellIsGrave' /\ NeverFinished'
      BY <1>12, <2>1
      DEF Inv, Lists, SitesOpen, UnitsOpen, SharedCellIsGrave, Living, NeverFinished,
          ClientDrop, DropItem, loopVars
    <2> QED
      BY <2>2, <2>3 DEF Inv
  <1>13. ASSUME NEW u \in Unit, ClientKills(u) PROVE Inv'
    <2>1. stored' = stored \ ({u} \cap Hero)
      BY <1>13 DEF ClientKills, KillingMessage
    <2>2. turn = {} /\ phase = "input" /\ UNCHANGED <<phase, turn>>
      BY <1>0, <1>13 DEF ClientKills, KillingMessage, Lists
    <2> QED
      BY <1>0, <1>13, <2>1, <2>2, DeathInv DEF ClientKills, KillingMessage
  <1>14. ASSUME NEW h \in Hero, ClientTeleport(h) PROVE Inv'
    <2>1. PICK c \in Landing(h) : pos' = [pos EXCEPT ![h] = c]
      BY <1>14 DEF ClientTeleport, Jump
    <2>2. c \in Open /\ c # site["door"] /\ \A v \in Living : pos[v] # c
      BY FreeCellTarget DEF Landing
    <2> QED
      BY <1>0, <1>14, <2>1, <2>2, RelocateInv
      DEF ClientTeleport, Message, Jump, loopVars, Lists
  <1>15. ASSUME NEW h \in Hero, TeleportHangs(h) PROVE Inv'
    BY <1>0, <1>15, LoopStepInv DEF TeleportHangs, Stop, Lists
  <1>16. CASE UNCHANGED vars
    BY <1>0, <1>16
    DEF Inv, TypeOK, LoopTypeOK, Lists, SitesOpen, UnitsOpen, KeyOnOpenFloor,
        KeyInOnePlace, SharedCellIsGrave, Living, NeverFinished, vars, loopVars, labVars
  <1> QED
    BY <1>1, <1>2, <1>3, <1>4, <1>5, <1>6, <1>7, <1>8, <1>9, <1>10, <1>11,
       <1>12, <1>13, <1>14, <1>15, <1>16 DEF Next, Tick, Client, Halted

-----------------------------------------------------------------------------
\* The state keeps its type, whatever the map and the number of units: the
\* key is listed at most twice and nobody carries it more than once.
THEOREM TypeCorrect == Spec => []TypeOK
  <1>1. Init => Inv
    BY InitInv
  <1>2. Inv /\ [Next]_vars => Inv'
    BY NextInv
  <1>3. Inv => TypeOK
    BY DEF Inv
  <1> QED
    BY <1>1, <1>2, <1>3, PTL DEF Spec

\* The door is unreachable: Door has no PASSABLE attribute and is spawned on
\* a free cell.
THEOREM DoorShut == Spec => []DoorNeverEntered
  <1>1. Init => Inv
    BY InitInv
  <1>2. Inv /\ [Next]_vars => Inv'
    BY NextInv
  <1>3. Inv => DoorNeverEntered
    BY NobodyEscapes DEF Inv
  <1> QED
    BY <1>1, <1>2, <1>3, PTL DEF Spec

\* Hence GameWorld::update never sets FINISHED.
THEOREM NoGameWon == Spec => []NeverFinished
  <1>1. Init => Inv
    BY InitInv
  <1>2. Inv /\ [Next]_vars => Inv'
    BY NextInv
  <1>3. Inv => NeverFinished
    BY DEF Inv
  <1> QED
    BY <1>1, <1>2, <1>3, PTL DEF Spec

\* Living units share no cell but the graveyard.
THEOREM CellsExclusive == Spec => []SharedCellIsGrave
  <1>1. Init => Inv
    BY InitInv
  <1>2. Inv /\ [Next]_vars => Inv'
    BY NextInv
  <1>3. Inv => SharedCellIsGrave
    BY DEF Inv
  <1> QED
    BY <1>1, <1>2, <1>3, PTL DEF Spec

\* The key is never lost or duplicated.
THEOREM KeySafe == Spec => []KeyInOnePlace
  <1>1. Init => Inv
    BY InitInv
  <1>2. Inv /\ [Next]_vars => Inv'
    BY NextInv
  <1>3. Inv => KeyInOnePlace
    BY DEF Inv
  <1> QED
    BY <1>1, <1>2, <1>3, PTL DEF Spec

\* It is never left where nobody can go, inside a wall or under the door.
THEOREM KeyReachable == Spec => []KeyOnOpenFloor
  <1>1. Init => Inv
    BY InitInv
  <1>2. Inv /\ [Next]_vars => Inv'
    BY NextInv
  <1>3. Inv => KeyOnOpenFloor
    BY DEF Inv
  <1> QED
    BY <1>1, <1>2, <1>3, PTL DEF Spec

-----------------------------------------------------------------------------
\* When exactly one unit carries the key, it is the keeper.
LEMMA KeeperIsHolder ==
    ASSUME NEW u \in Unit, {v \in Unit : held[v] > 0} = {u}
    PROVE  keeper = u
  BY DEF keeper

LEMMA KeeperIsFloor ==
    ASSUME \A v \in Unit : ~(held[v] > 0)
    PROVE  keeper = "floor"
  BY DEF keeper

\* Labyrinth implements KeyCustody: a unit that takes the key took it from
\* the floor, and dropping it or dying with it puts it there.
THEOREM ImplementsKeyCustody == Spec => KeyCustodySpec
  <1>1. Init => Inv
    BY InitInv
  <1>2. Inv /\ [Next]_vars => Inv'
    BY NextInv
  <1>3. Init => Custody!Init
    BY KeeperIsFloor DEF Init, Custody!Init
  <1>4. Inv /\ Inv' /\ [Next]_vars => [Custody!Next]_keeper
    <2> SUFFICES ASSUME Inv, Inv', [Next]_vars
                 PROVE  Custody!Next \/ keeper' = keeper
      OBVIOUS
    <2>1. CASE held' = held
      BY <2>1 DEF keeper
    <2>2. ASSUME NEW u \in Unit, TakeItem(u) PROVE Custody!Next
      <3>1. \A v \in Unit : held[v] = 0
        BY <2>2 DEF Inv, TypeOK, KeyInOnePlace, TakeItem
      <3>2. {v \in Unit : held'[v] > 0} = {u}
        BY <2>2, <3>1 DEF Inv, TypeOK, TakeItem
      <3>3. keeper = "floor"
        BY <3>1, KeeperIsFloor
      <3>4. keeper' = u
        BY <3>2 DEF keeper
      <3> QED
        BY <3>3, <3>4 DEF Custody!Next, Custody!PickUp
    <2>3. ASSUME NEW u \in Unit, held[u] > 0, \A v \in Unit : held'[v] = 0
          PROVE  Custody!Next
      <3>1. {v \in Unit : held[v] > 0} = {u}
        BY <2>3 DEF Inv, TypeOK, KeyInOnePlace
      <3>2. keeper = u
        BY <3>1, KeeperIsHolder
      <3>3. keeper' = "floor"
        BY <2>3 DEF keeper
      <3> QED
        BY <3>2, <3>3 DEF Custody!Next, Custody!PutDown
    <2>4. ASSUME NEW u \in Unit, DropItem(u) PROVE Custody!Next
      <3>1. held[u] > 0 /\ \A v \in Unit : held'[v] = 0
        BY <2>4 DEF Inv, TypeOK, KeyInOnePlace, DropItem
      <3> QED
        BY <2>3, <3>1
    <2>5. ASSUME NEW u \in Unit, DropAll(u)
          PROVE  Custody!Next \/ keeper' = keeper
      <3>1. CASE held[u] > 0
        <4>1. \A v \in Unit : held'[v] = 0
          BY <2>5, <3>1 DEF Inv, TypeOK, KeyInOnePlace, DropAll
        <4> QED
          BY <2>3, <3>1, <4>1
      <3>2. CASE ~(held[u] > 0)
        <4>1. held' = held
          BY <2>5, <3>2 DEF Inv, TypeOK, DropAll
        <4> QED
          BY <2>1, <4>1
      <3> QED
        BY <3>1, <3>2
    <2>6. \/ held' = held
          \/ \E u \in Unit : TakeItem(u) \/ DropItem(u) \/ DropAll(u)
      BY DEF Next, Tick, Client, Halted, InputDone, IdleTurn, WalkingTurn,
         FightingTurn, Respawn, SpawnMonster, SpawnHangs, NoSpawn, WinCheck,
         ClientMove, ClientTake, ClientDrop, ClientKills, ClientTeleport,
         TeleportHangs, Move, Jump, Appear, labVars, vars
    <2> QED
      BY <2>1, <2>2, <2>4, <2>5, <2>6
  <1> QED
    BY <1>1, <1>2, <1>3, <1>4, PTL DEF Spec, KeyCustodySpec, Custody!Spec
=============================================================================
