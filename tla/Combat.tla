------------------------------- MODULE Combat -------------------------------
(***************************************************************************)
(* Duels, damage, death, respawn, spells, effects and the monsters' fights *)
(* (Unit, Monster, Mage, Warrior, Effect, GameWorld::Respawner, Fountain). *)
(*                                                                         *)
(* Abstracted: positions.  Whether two units are near enough is a free     *)
(* choice at each test, and so are the path of a chasing monster and the   *)
(* step that lands on the fountain.  Time passes in ticks: every timer is  *)
(* a number of updates.  The first spells (dash and teleport) and the      *)
(* _moveSpeed the dash works on, which nothing reads, are left out.        *)
(*                                                                         *)
(* Undefined behaviour (a null dereference, back() or pop_back() on an     *)
(* empty container) is taken to kill the process.  The history variable    *)
(* fault records which line did it and for which unit.                     *)
(***************************************************************************)
EXTENDS WorldLoop, Integers

CONSTANTS
    Mage,               \* the heroes that are mages; the others are warriors
    None,               \* no duel target, nobody to chase
    NoUnit,             \* a number that no unit has: an item's, a door's, no object's
    MaxHealth, Damage, Armor, Resistance,   \* unit -> its statistics
    ArmorBonus,         \* what WarriorArmorUp is to add
    SpellCooldown,      \* of the third spell of a hero (10s)
    FreezeTime,         \* MageFreeze (3s)
    ArmorTime,          \* WarriorArmorUp (5s)
    HealTime,           \* FountainHeal (5s)
    FountainTime,       \* between two uses of the fountain (30s)
    RespawnTime,        \* a dead hero waits for so long (3s)
    MoveTime,           \* the cooldown of a monster's step (1s)
    CastTime,           \* one input of a monster's attack sequence (600ms)
    SequenceLength      \* the inputs of one attack

Durations == {SpellCooldown, FreezeTime, ArmorTime, HealTime, FountainTime,
              RespawnTime, MoveTime, CastTime, SequenceLength}

ASSUME CombatAssumption ==
    /\ Mage \subseteq Hero
    /\ None \notin Unit /\ NoUnit \notin Unit
    /\ \A stat \in {MaxHealth, Damage, Armor, Resistance} : stat \in [Unit -> Nat]
    /\ \A u \in Unit : MaxHealth[u] > 0
    /\ ArmorBonus \in Nat
    /\ Durations \subseteq Nat \ {0}

Warrior == Hero \ Mage

\* What the uid in a client's message may name.
Name == Unit \cup {NoUnit}

VARIABLES
    state,          \* unit -> its _state
    duelable,       \* the units whose _unitAttributes contain DUELABLE
    input,          \* ... contain INPUT
    duelTarget,     \* unit -> its _duelTarget
    health,         \* unit -> its _health
    armor,          \* unit -> its _armor
    effects,        \* unit -> the effects its _effectsManager keeps
    cooldown,       \* hero -> updates until its third spell is ready
    respawnIn,      \* hero -> updates until its respawn, 0 when not queued
    chasing,        \* monster -> its _chasingUnit
    moveWait,       \* monster -> updates until it may step or engage
    castWait,       \* monster -> its _castATime
    castLeft,       \* monster -> the inputs left in its attack sequence
    fountainWait,   \* ticks until the fountain works again
    fault           \* history: the line that crashed the process, and for whom

duelVars == <<state, duelable, duelTarget>>
bodyVars == <<health, armor, effects, input>>
heroVars == <<cooldown, respawnIn>>
monsterVars == <<chasing, moveWait, castWait, castLeft>>
combatVars == <<duelVars, bodyVars, heroVars, monsterVars, fountainWait>>
vars == <<loopVars, combatVars, fault>>

States == {"undefined", "walking", "duel", "dead"}

Effect ==
    [kind : {"freeze"}, left : 0 .. FreezeTime]
        \cup [kind : {"armor"}, left : 0 .. ArmorTime]
        \cup [kind : {"heal"}, left : 0 .. HealTime]

NoFault == [at |-> "nowhere", of |-> NoUnit]
Fault == [at : {"message", "EndDuel", "sequence", "path", "FountainHeal"}, of : Name]

StateTypeOK ==
    /\ LoopTypeOK
    /\ state \in [Unit -> States]
    /\ duelable \subseteq Unit
    /\ input \subseteq Unit
    /\ duelTarget \in [Unit -> Unit \cup {None}]
    /\ health \in [Unit -> Nat]
    /\ armor \in [Unit -> Nat]
    /\ effects \in [Unit -> SUBSET Effect]
    /\ cooldown \in [Hero -> 0 .. SpellCooldown]
    /\ respawnIn \in [Hero -> 0 .. RespawnTime]
    /\ chasing \in [Monster -> Hero \cup {None}]
    /\ moveWait \in [Monster -> 0 .. MoveTime]
    /\ castWait \in [Monster -> 0 .. CastTime]
    /\ castLeft \in [Monster -> 0 .. SequenceLength]
    /\ fountainWait \in 0 .. FountainTime

TypeOK ==
    /\ StateTypeOK
    /\ fault \in Fault \cup {NoFault}
    /\ phase = "crashed" <=> fault # NoFault

\* The heroes are constructed and spawned; a monster gets its values when
\* the spawner creates it.
Init ==
    /\ LoopInit
    /\ state = [u \in Unit |-> IF u \in Hero THEN "walking" ELSE "undefined"]
    /\ duelable = Hero
    /\ input = Hero
    /\ duelTarget = [u \in Unit |-> None]
    /\ health = MaxHealth
    /\ armor = Armor
    /\ effects = [u \in Unit |-> {}]
    /\ cooldown = [h \in Hero |-> 0]
    /\ respawnIn = [h \in Hero |-> 0]
    /\ chasing = [m \in Monster |-> None]
    /\ moveWait = [m \in Monster |-> 0]
    /\ castWait = [m \in Monster |-> 0]
    /\ castLeft = [m \in Monster |-> SequenceLength]
    /\ fountainWait = FountainTime
    /\ fault = NoFault

\* The process dies at a line that dereferences or pops for of.
Fails(at, of) ==
    /\ Stop("crashed")
    /\ fault' = [at |-> at, of |-> of]

-----------------------------------------------------------------------------
(* Duels and damage.                                                       *)

\* A timer loses one update; below zero it makes no further difference.
Tock(n) == IF n = 0 THEN 0 ELSE n - 1

\* Mutants of StartDuel: v does not accept; DUELABLE stays set.
StartDuelUnanswered(u, v) ==
    /\ state' = [state EXCEPT ![u] = "duel"]
    /\ duelable' = duelable \ {u}
    /\ duelTarget' = [duelTarget EXCEPT ![u] = v]
StartDuelDuelable(u, v) ==
    /\ state' = [x \in Unit |-> IF x \in {u, v} THEN "duel" ELSE state[x]]
    /\ duelTarget' = [duelTarget EXCEPT ![u] = v, ![v] = u]
    /\ UNCHANGED duelable

\* Unit::StartDuel: v accepts, then u turns to v.  Neither looks at what the
\* other was doing.
StartDuel(u, v) ==
    /\ state' = [x \in Unit |-> IF x \in {u, v} THEN "duel" ELSE state[x]]
    /\ duelable' = duelable \ {u, v}
    /\ duelTarget' = [duelTarget EXCEPT ![u] = v, ![v] = u]

\* Unit::TakeDamage: what armor or resistance does not absorb.
Net(u, v) == Damage[u] - (IF u \in Mage THEN Resistance[v] ELSE armor[v])

\* The health after it: SimpleProperty stops at zero but not at the maximum.
HealthLeft(u, v) ==
    IF health[v] - Net(u, v) < 0 THEN 0 ELSE health[v] - Net(u, v)

\* v takes damage from u and stays alive.
Wound(u, v) ==
    /\ HealthLeft(u, v) > 0
    /\ health' = [health EXCEPT ![v] = HealthLeft(u, v)]
    /\ UNCHANGED <<duelVars, respawnIn>>

\* Die ends the duel of the opponent first and its own next.  EndDuel names
\* the target it loses in the log: without one it dereferences null.
DeathCrashes(v) ==
    /\ duelTarget[v] # None
    /\ \/ duelTarget[v] = v
       \/ duelTarget[duelTarget[v]] = None

\* Mutants of Die: the opponent's duel goes on; the hero is not enqueued.
DieAlone(v) ==
    /\ state' = [state EXCEPT ![v] = "dead"]
    /\ duelable' = duelable \ {v}
    /\ duelTarget' = [duelTarget EXCEPT ![v] = None]
    /\ health' = [health EXCEPT ![v] = 0]
    /\ respawnIn' = [h \in Hero |-> IF h = v THEN RespawnTime ELSE respawnIn[h]]
DieUnqueued(v) ==
    LET winner == {duelTarget[v]} \ {None} IN
    /\ state' = [x \in Unit |-> IF x = v THEN "dead"
                                ELSE IF x \in winner THEN "walking" ELSE state[x]]
    /\ duelable' = (duelable \cup winner) \ {v}
    /\ duelTarget' = [x \in Unit |-> IF x \in winner \cup {v} THEN None ELSE duelTarget[x]]
    /\ health' = [health EXCEPT ![v] = 0]
    /\ UNCHANGED respawnIn

\* Unit::Die and Monster::Die, as far as this module goes.  The attributes
\* of the opponent are restored, those of v cleared; a hero is enqueued.
Die(v) ==
    LET winner == {duelTarget[v]} \ {None} IN
    /\ state' = [x \in Unit |-> IF x = v THEN "dead"
                                ELSE IF x \in winner THEN "walking" ELSE state[x]]
    /\ duelable' = (duelable \cup winner) \ {v}
    /\ duelTarget' = [x \in Unit |-> IF x \in winner \cup {v} THEN None ELSE duelTarget[x]]
    /\ health' = [health EXCEPT ![v] = 0]
    /\ respawnIn' = [h \in Hero |-> IF h = v THEN RespawnTime ELSE respawnIn[h]]

InputAfterDeath(v) == (input \cup ({duelTarget[v]} \ {None})) \ {v}

-----------------------------------------------------------------------------
(* Effects.  ApplyEffect only stores the effect: Effect::start is never    *)
(* called.  EffectsManager::Update calls stop on those whose timer runs    *)
(* below zero.                                                             *)

ApplyEffect(u, kind, duration) ==
    effects' = [effects EXCEPT ![u] = @ \cup {[kind |-> kind, left |-> duration]}]

\* The kinds of the effects of u that end in this update.
Ending(u) == {e.kind : e \in {f \in effects[u] : f.left = 0}}

EffectsLeft(u) == {[kind |-> e.kind, left |-> e.left - 1] : e \in {f \in effects[u] : f.left > 0}}

\* Mutant of ArmorLeft: a property without a minimum.
ArmorLeftUnclamped(u) ==
    IF "armor" \in Ending(u) THEN [armor EXCEPT ![u] = @ - ArmorBonus] ELSE armor

\* WarriorArmorUp::stop takes away the bonus that start never gave.
ArmorLeft(u) ==
    IF "armor" \in Ending(u)
    THEN [armor EXCEPT ![u] = IF @ > ArmorBonus THEN @ - ArmorBonus ELSE 0]
    ELSE armor

\* MageFreeze::stop sets the INPUT that start never cleared.
InputLeft(u) == IF "freeze" \in Ending(u) THEN input \cup {u} ELSE input

\* FountainHeal::stop uses the unit the effect targets; the fountain never
\* sets it.
HealEnds(u) == "heal" \in Ending(u)
-----------------------------------------------------------------------------
(* ApplyInputEvents.                                                       *)

\* A duel message between two stored units; how near they are is open.  The
\* two uids may be equal: nothing compares them.
ClientDuel(u, v) ==
    /\ Message
    /\ {u, v} \subseteq stored \cap duelable
    /\ StartDuel(u, v)
    /\ UNCHANGED <<bodyVars, heroVars, monsterVars, fountainWait>>

\* FindObject returns null unless the number is that of a stored unit: the
\* number of an item, of a block, of nothing, of a hero that waits for its
\* respawn.  The handler of a duel dereferences both results.
ClientDuelCrashes(a) ==
    /\ phase = "input"
    /\ a \notin stored
    /\ Fails("message", a)
    /\ UNCHANGED combatVars

\* The second spell, the attack; its cooldown is zero.
Attacks(h, v) == h \in stored \cap Hero /\ v = duelTarget[h] /\ v # None

ClientWounds(h, v) ==
    /\ Attacks(h, v)
    /\ Message
    /\ Wound(h, v)
    /\ UNCHANGED <<armor, effects, input, cooldown, monsterVars, fountainWait>>

ClientKills(h, v) ==
    /\ Attacks(h, v)
    /\ HealthLeft(h, v) = 0
    /\ ~DeathCrashes(v)
    /\ KillingMessage(v)
    /\ Die(v)
    /\ input' = InputAfterDeath(v)
    /\ UNCHANGED <<armor, effects, cooldown, monsterVars, fountainWait>>

ClientKillCrashes(h, v) ==
    /\ Attacks(h, v)
    /\ HealthLeft(h, v) = 0
    /\ DeathCrashes(v)
    /\ phase = "input"
    /\ Fails("EndDuel", v)
    /\ UNCHANGED combatVars

\* The third spell: a mage freezes its opponent, a warrior arms itself.
ThirdSpell(h) ==
    /\ h \in stored
    /\ duelTarget[h] # None
    /\ cooldown[h] = 0
    /\ Message
    /\ cooldown' = [cooldown EXCEPT ![h] = SpellCooldown]
    /\ UNCHANGED <<duelVars, health, armor, input, respawnIn, monsterVars, fountainWait>>

ClientFreezes(h) ==
    h \in Mage /\ ThirdSpell(h) /\ ApplyEffect(duelTarget[h], "freeze", FreezeTime)

ClientArmsUp(h) ==
    h \in Warrior /\ ThirdSpell(h) /\ ApplyEffect(h, "armor", ArmorTime)

\* A move lands on the fountain, Fountain::OnCollision applies its effect.
Drink(u) ==
    /\ fountainWait = 0
    /\ ApplyEffect(u, "heal", HealTime)
    /\ fountainWait' = FountainTime

ClientDrinks(u) ==
    /\ u \in stored
    /\ Message
    /\ Drink(u)
    /\ UNCHANGED <<duelVars, health, armor, input, heroVars, monsterVars>>

InputDone == EndInput /\ UNCHANGED combatVars

-----------------------------------------------------------------------------
(* The updates of the units.                                               *)

\* Unit::update: the effects of u age.
AgeEffects(u) ==
    /\ ~HealEnds(u)
    /\ effects' = [effects EXCEPT ![u] = EffectsLeft(u)]
    /\ armor' = ArmorLeft(u)

HeroTurn(h) ==
    /\ TakeTurn(h)
    /\ AgeEffects(h)
    /\ input' = InputLeft(h)
    /\ cooldown' = [cooldown EXCEPT ![h] = Tock(@)]
    /\ UNCHANGED <<duelVars, health, respawnIn, monsterVars, fountainWait>>

\* The end of the fountain's effect dereferences null.
HealCrash(u) ==
    /\ phase = "objects"
    /\ u \in turn
    /\ HealEnds(u)
    /\ Fails("FountainHeal", u)
    /\ UNCHANGED combatVars

\* Monster::update goes past its first return, with m in the given state.
Acts(m, what) == m \in InputLeft(m) /\ state[m] = what

\* The heroes m may be after: the one it chases, or any that walks in sight.
Prey(m) ==
    {h \in Hero : /\ state[h] = "walking"
                  /\ IF chasing[m] = None THEN h \in stored ELSE h = chasing[m]}

StepReady(m) == Tock(moveWait[m]) = 0
CastReady(m) == Tock(castWait[m]) = 0

\* Both timers of a monster run on in each of its turns.
Wait(m) ==
    /\ moveWait' = [moveWait EXCEPT ![m] = Tock(@)]
    /\ castWait' = [castWait EXCEPT ![m] = Tock(@)]

\* A turn in which m goes on chasing target, or nobody, and stays put.
Stay(m, target) ==
    /\ TakeTurn(m)
    /\ AgeEffects(m)
    /\ input' = InputLeft(m)
    /\ Wait(m)
    /\ chasing' = [chasing EXCEPT ![m] = target]
    /\ UNCHANGED <<duelVars, health, heroVars, castLeft, fountainWait>>

\* m is dead, waits for its next input in a duel, or sees nobody to chase.
Idle(m) ==
    /\ Acts(m, "walking") => chasing[m] = None
    /\ Acts(m, "duel") => ~CastReady(m)
    /\ Stay(m, chasing[m])

\* The prey got too far away, or it does not walk any more.
GiveUp(m) == Acts(m, "walking") /\ chasing[m] # None /\ Stay(m, None)

\* No path to the prey is found, or the cooldown of the step is not over.
Follow(m, h) == Acts(m, "walking") /\ h \in Prey(m) /\ Stay(m, h)

\* The path kept to the prey is used up, and its back() is read.  When that
\* can be is told by Chase; here it is a free choice of a turn in the chase.
PathCrashes(m, h) ==
    /\ Acts(m, "walking") /\ h \in Prey(m) /\ chasing[m] = h
    /\ phase = "objects" /\ m \in turn
    /\ ~HealEnds(m)
    /\ Fails("path", m)
    /\ UNCHANGED combatVars

\* m takes a step of its path, perhaps onto the fountain.
StepTowards(m, h) ==
    /\ Acts(m, "walking") /\ h \in Prey(m) /\ StepReady(m)
    /\ TakeTurn(m)
    /\ ~HealEnds(m)
    /\ armor' = ArmorLeft(m)
    /\ input' = InputLeft(m)
    /\ \E drinks \in BOOLEAN :
         /\ drinks => fountainWait = 0
         /\ fountainWait' = IF drinks THEN FountainTime ELSE fountainWait
         /\ effects' = [effects EXCEPT ![m] = EffectsLeft(m) \cup
                (IF drinks THEN {[kind |-> "heal", left |-> HealTime]} ELSE {})]
    /\ chasing' = [chasing EXCEPT ![m] = h]
    /\ moveWait' = [moveWait EXCEPT ![m] = MoveTime]
    /\ castWait' = [castWait EXCEPT ![m] = Tock(@)]
    /\ UNCHANGED <<duelVars, health, heroVars, castLeft>>

\* The prey stands next to m: the duel starts, whatever the prey's DUELABLE.
Engage(m, h) ==
    /\ Acts(m, "walking") /\ h \in Prey(m) /\ StepReady(m)
    /\ TakeTurn(m)
    /\ AgeEffects(m)
    /\ StartDuel(m, h)
    /\ input' = InputLeft(m)
    /\ Wait(m)
    /\ chasing' = [chasing EXCEPT ![m] = None]
    /\ UNCHANGED <<health, heroVars, castLeft, fountainWait>>

\* Mutant of Press: the sequence is refreshed after each input.
PressRefreshing(m) ==
    /\ Acts(m, "duel") /\ CastReady(m)
    /\ castLeft[m] # 1 \/ duelTarget[m] = None
    /\ TakeTurn(m)
    /\ AgeEffects(m)
    /\ input' = InputLeft(m)
    /\ castWait' = [castWait EXCEPT ![m] = CastTime]
    /\ moveWait' = [moveWait EXCEPT ![m] = Tock(@)]
    /\ UNCHANGED <<duelVars, health, heroVars, chasing, castLeft, fountainWait, fault>>

\* One input of the attack sequence is removed.  pop_back on an empty
\* sequence is undefined.
Press(m) ==
    /\ Acts(m, "duel") /\ CastReady(m)
    /\ castLeft[m] # 1 \/ duelTarget[m] = None
    /\ phase = "objects" /\ m \in turn
    /\ IF castLeft[m] = 0 THEN Fails("sequence", m)
                          ELSE TakeTurn(m) /\ UNCHANGED fault
    /\ AgeEffects(m)
    /\ input' = InputLeft(m)
    /\ castLeft' = [castLeft EXCEPT ![m] = Tock(@)]
    /\ castWait' = [castWait EXCEPT ![m] = CastTime]
    /\ moveWait' = [moveWait EXCEPT ![m] = Tock(@)]
    /\ UNCHANGED <<duelVars, health, heroVars, chasing, fountainWait>>

\* The last input is made: m attacks its opponent v.
Strikes(m, v) ==
    /\ Acts(m, "duel") /\ CastReady(m) /\ castLeft[m] = 1
    /\ v = duelTarget[m] /\ v # None

\* Mutant of Recover: the sequence is left empty.
RecoverEmpty(m) ==
    /\ AgeEffects(m)
    /\ castLeft' = [castLeft EXCEPT ![m] = 0]
    /\ castWait' = [castWait EXCEPT ![m] = CastTime]
    /\ moveWait' = [moveWait EXCEPT ![m] = MoveTime]
    /\ UNCHANGED <<cooldown, chasing, fountainWait>>

\* The sequence starts over and the step's cooldown with it.
Recover(m) ==
    /\ AgeEffects(m)
    /\ castLeft' = [castLeft EXCEPT ![m] = SequenceLength]
    /\ castWait' = [castWait EXCEPT ![m] = CastTime]
    /\ moveWait' = [moveWait EXCEPT ![m] = MoveTime]
    /\ UNCHANGED <<cooldown, chasing, fountainWait>>

StrikeWounds(m, v) ==
    /\ Strikes(m, v)
    /\ TakeTurn(m)
    /\ Wound(m, v)
    /\ Recover(m)
    /\ input' = InputLeft(m)

StrikeKills(m, v) ==
    /\ Strikes(m, v)
    /\ HealthLeft(m, v) = 0
    /\ ~DeathCrashes(v)
    /\ KillingTurn(m, v)
    /\ Die(v)
    /\ Recover(m)
    /\ input' = (InputLeft(m) \cup ({duelTarget[v]} \ {None})) \ {v}

StrikeCrashes(m, v) ==
    /\ Strikes(m, v)
    /\ HealthLeft(m, v) = 0
    /\ DeathCrashes(v)
    /\ phase = "objects" /\ m \in turn
    /\ ~HealEnds(m)
    /\ Fails("EndDuel", v)
    /\ UNCHANGED combatVars

-----------------------------------------------------------------------------
(* Respawner, spawner and the end of the tick.                             *)

\* Mutant of Spawn: the health is not restored.
SpawnUnhealed(units) ==
    /\ state' = [u \in Unit |-> IF u \in units THEN "walking" ELSE state[u]]
    /\ duelable' = duelable \cup units
    /\ input' = input \cup units
    /\ UNCHANGED <<health, duelTarget, armor, effects, cooldown, monsterVars, fountainWait>>

\* Unit::Spawn.  Effects, armor and cooldowns stay as they were.
Spawn(units) ==
    /\ state' = [u \in Unit |-> IF u \in units THEN "walking" ELSE state[u]]
    /\ duelable' = duelable \cup units
    /\ input' = input \cup units
    /\ health' = [u \in Unit |-> IF u \in units THEN MaxHealth[u] ELSE health[u]]
    /\ UNCHANGED <<duelTarget, armor, effects, cooldown, monsterVars, fountainWait>>

Due == {h \in Hero : respawnIn[h] = 1}

Respawn ==
    /\ RespawnPass(Due)
    /\ respawnIn' = [h \in Hero |-> Tock(respawnIn[h])]
    /\ Spawn(Due)

SpawnMonster(m) ==
    /\ m \in Monster \ stored
    /\ SpawnStored(m)
    /\ Spawn({m})
    /\ UNCHANGED respawnIn

NoSpawn == SpawnNothing /\ UNCHANGED combatVars

TickDone ==
    /\ EndTick(FALSE)
    /\ fountainWait' = Tock(fountainWait)
    /\ UNCHANGED <<duelVars, bodyVars, heroVars, monsterVars>>

Halted == phase \in Stopped /\ UNCHANGED vars

\* What the steps of a tick and of the clients do when no line fails.
MonsterGoesOn(m) ==
    \/ Idle(m) \/ GiveUp(m)
    \/ \E h \in Hero : Follow(m, h) \/ StepTowards(m, h) \/ Engage(m, h)
    \/ \E v \in Unit : StrikeWounds(m, v) \/ StrikeKills(m, v)

TickGoesOn ==
    \/ InputDone
    \/ \E h \in Hero : HeroTurn(h)
    \/ \E m \in Monster : MonsterGoesOn(m) \/ SpawnMonster(m)
    \/ Respawn
    \/ NoSpawn
    \/ TickDone

ClientGoesOn ==
    \/ \E u, v \in Unit : ClientDuel(u, v) \/ ClientWounds(u, v) \/ ClientKills(u, v)
    \/ \E h \in Hero : ClientFreezes(h) \/ ClientArmsUp(h)
    \/ \E u \in Unit : ClientDrinks(u)

\* The lines that fail; Press does both, by the sequence it finds.
MonsterFails(m) ==
    \/ \E h \in Hero : PathCrashes(m, h)
    \/ \E v \in Unit : StrikeCrashes(m, v)

Tick ==
    \/ TickGoesOn /\ UNCHANGED fault
    \/ \E m \in Monster : Press(m) \/ MonsterFails(m)
    \/ \E u \in Unit : HealCrash(u)

Client ==
    \/ ClientGoesOn /\ UNCHANGED fault
    \/ \E a \in Name : ClientDuelCrashes(a)
    \/ \E u, v \in Unit : ClientKillCrashes(u, v)

Next == Tick \/ Client \/ Halted

Spec == Init /\ [][Next]_vars

\* The queue of messages is finite and the rest of a tick is straight-line
\* code, so every tick runs on.
TickSpec == Spec /\ WF_vars(Tick)
-----------------------------------------------------------------------------
(* Properties.                                                             *)

\* Duels are symmetric and agree with everything else a unit records about
\* itself: the state is DUEL exactly while there is a target, the target
\* targets the unit back, nobody in a duel is DUELABLE, and both opponents
\* are stored.  EndDuel and the monsters' attacks rely on all of it unchecked.
DuelsConsistent ==
    \A u \in Unit :
        /\ state[u] = "duel" <=> duelTarget[u] # None
        /\ u \in duelable => state[u] = "walking"
        /\ duelTarget[u] # None =>
             /\ duelTarget[duelTarget[u]] = u
             /\ u \in stored

\* The line that fails in this step, and the unit it fails for, are known.
Excused ==
    LET u == fault'.of IN
    \/ fault'.at = "message" /\ u \notin stored
    \/ fault'.at = "EndDuel" /\ duelTarget[u] = u
    \/ fault'.at = "FountainHeal" /\ HealEnds(u)
    \/ fault'.at = "path" /\ state[u] = "walking" /\ chasing[u] # None

\* The game logic kills the process at four lines only: the handler of a
\* duel about a number that is no stored unit's; EndDuel when a unit dies in
\* a duel with itself; the end of a fountain effect; and back() of the path
\* of a monster in a chase.  Each is excused for its own unit alone: no death
\* finds an opponent that is not in the duel, no monster strikes from an
\* empty sequence, whatever the order of duels, deaths and respawns.
KnownCrashesOnly == [][phase' = "crashed" => Excused]_vars

\* A unit of the game is dead exactly when its health is zero, whatever the
\* damage, the armor and the order of hits; a dead hero is out of the
\* storage and in the respawn queue, a dead monster stays as a corpse.
DeathIsFinal ==
    /\ \A u \in stored : health[u] = 0 <=> state[u] = "dead"
    /\ \A h \in Hero : /\ h \notin stored <=> respawnIn[h] > 0
                       /\ h \notin stored <=> state[h] = "dead"
    /\ \A u \in Unit : u \in passable <=> state[u] = "dead"

\* A monster in a duel always has an input left to remove: pop_back is
\* never called on an empty sequence, across any number of duels.
SequenceNeverEmpty == \A m \in Monster : castLeft[m] > 0

\* Duels start only between free units and end for both at once.
Pairing == INSTANCE Duels WITH opponent <- duelTarget

DuelsSpec == Pairing!Spec

\* A dead hero comes back as long as the process lives.
HeroesReturn ==
    \A h \in Hero : h \notin stored ~> (h \in stored \/ phase = "crashed")

\* A duel with a monster ends even if the hero never strikes: the monster
\* wears down whoever it fights.
MonsterDuelsEnd ==
    \A m \in Monster : state[m] = "duel" ~> (state[m] # "duel" \/ phase = "crashed")

\* The frostbolt of a mage applies a freeze: while it lasts its target takes
\* no INPUT.
FrozenTakesNoInput ==
    \A u \in Living : (\E e \in effects[u] : e.kind = "freeze") => u \notin input
=============================================================================
