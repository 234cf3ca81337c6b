----------------------------- MODULE WorldLoop -----------------------------
(***************************************************************************)
(* The tick of GameWorld::update: the single-threaded loop that every part *)
(* of the game logic runs inside.  One tick is                             *)
(*                                                                         *)
(*   "input"      ApplyInputEvents drains the queued client messages;      *)
(*   "objects"    every object of _objectsStorage gets update(delta), then *)
(*                the dead heroes whose time has come are stored again;    *)
(*   "spawner"    the monster spawner may create one monster;              *)
(*   "wincheck"   the loop over the stored units that can end the game.    *)
(*                                                                         *)
(* The module holds the state that Labyrinth (positions and items) and     *)
(* Combat (duels, damage, effects) both read: which units the storage      *)
(* lists, which of them carry the PASSABLE attribute, and who is still to  *)
(* be updated in this pass.  Blocks, items and constructions have an empty *)
(* update, so only units take turns.  The order of the list is abstracted: *)
(* units take their turns in any order.                                    *)
(***************************************************************************)
EXTENDS Naturals, FiniteSets

CONSTANTS
    Hero,       \* the players' units
    Monster     \* the monsters the spawner creates during one game

ASSUME UnitAssumption ==
    /\ IsFiniteSet(Hero) /\ IsFiniteSet(Monster)
    /\ Hero \cap Monster = {}

Unit == Hero \cup Monster

VARIABLES
    phase,      \* where the tick stands, or how the world stopped
    turn,       \* the units not updated yet in this pass
    stored,     \* the units _objectsStorage lists
    passable    \* the units whose _objAttributes contain PASSABLE

loopVars == <<phase, turn, stored, passable>>

Running == {"input", "objects", "spawner", "wincheck"}
\* "hung": GetRandomPosition searches forever; "crashed": the process died.
Stopped == {"finished", "hung", "crashed"}

LoopTypeOK ==
    /\ phase \in Running \cup Stopped
    /\ turn \subseteq Unit
    /\ stored \subseteq Unit
    /\ passable \subseteq Unit

LoopInit ==
    /\ phase = "input"
    /\ turn = {}
    /\ stored = Hero
    /\ passable = {}

Living == stored \ passable

\* The last queued message is applied; the pass over the storage starts.
EndInput ==
    /\ phase = "input"
    /\ phase' = "objects"
    /\ turn' = stored
    /\ UNCHANGED <<stored, passable>>

\* Unit u gets its update and nothing it does removes a unit.
TakeTurn(u) ==
    /\ phase = "objects"
    /\ u \in turn
    /\ phase' = "objects"
    /\ turn' = turn \ {u}
    /\ UNCHANGED <<stored, passable>>

\* Monster m's update kills unit u.  A hero leaves the storage at once, so
\* its own turn is lost; a monster stays in the storage as a corpse.
KillingTurn(m, u) ==
    /\ phase = "objects"
    /\ m \in turn
    /\ phase' = "objects"
    /\ turn' = turn \ ({m} \cup ({u} \cap Hero))
    /\ stored' = stored \ ({u} \cap Hero)
    /\ passable' = passable \cup {u}

\* A client message kills unit u.
KillingMessage(u) ==
    /\ phase = "input"
    /\ stored' = stored \ ({u} \cap Hero)
    /\ passable' = passable \cup {u}
    /\ UNCHANGED <<phase, turn>>

\* The queue of dead heroes is scanned once; those in due come back.
RespawnPass(due) ==
    /\ phase = "objects"
    /\ turn = {}
    /\ phase' = "spawner"
    /\ stored' = stored \cup due
    /\ passable' = passable \ due
    /\ UNCHANGED turn

SpawnStored(m) ==
    /\ phase = "spawner"
    /\ phase' = "wincheck"
    /\ stored' = stored \cup {m}
    /\ UNCHANGED <<turn, passable>>

SpawnNothing ==
    /\ phase = "spawner"
    /\ phase' = "wincheck"
    /\ UNCHANGED <<turn, stored, passable>>

Stop(how) ==
    /\ phase \in Running
    /\ phase' = how
    /\ UNCHANGED <<turn, stored, passable>>

\* A client message that changes only the state of the module at hand.
Message ==
    /\ phase = "input"
    /\ UNCHANGED loopVars

EndTick(won) ==
    /\ phase = "wincheck"
    /\ phase' = IF won THEN "finished" ELSE "input"
    /\ UNCHANGED <<turn, stored, passable>>
=============================================================================
