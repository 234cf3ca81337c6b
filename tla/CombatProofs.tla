---------------------------- MODULE CombatProofs ----------------------------
(***************************************************************************)
(* Proofs about Combat for any heroes and monsters, any statistics and any *)
(* durations.  Types first, then one inductive invariant, Core, that the   *)
(* theorems about duels and death share.                                   *)
(***************************************************************************)
EXTENDS Combat, TLAPS

\* A hero has been spawned from the start, a monster once it is stored; only
\* stored units wait for their turn, and only while the objects are updated.
Lists ==
    /\ turn \subseteq stored
    /\ phase \in Running => phase = "objects" \/ turn = {}
    /\ \A h \in Hero : state[h] # "undefined"
    /\ \A m \in Monster : m \in stored <=> state[m] # "undefined"

Core ==
    /\ Lists
    /\ DuelsConsistent
    /\ DeathIsFinal
    /\ SequenceNeverEmpty

-----------------------------------------------------------------------------
(* Types.                                                                  *)

\* Every duration is a positive number.
LEMMA DurationsPositive ==
    /\ SpellCooldown \in Nat \ {0} /\ FreezeTime \in Nat \ {0} /\ ArmorTime \in Nat \ {0}
    /\ HealTime \in Nat \ {0} /\ FountainTime \in Nat \ {0} /\ RespawnTime \in Nat \ {0}
    /\ MoveTime \in Nat \ {0} /\ CastTime \in Nat \ {0} /\ SequenceLength \in Nat \ {0}
  BY CombatAssumption DEF Durations

\* A timer stays within its range.
LEMMA TockTyped ==
    ASSUME NEW n \in Nat, NEW k \in 0 .. n
    PROVE  Tock(k) \in 0 .. n
  BY DEF Tock

\* Effects that age, and those that are applied, are effects.
LEMMA EffectsTyped ==
    ASSUME StateTypeOK, NEW u \in Unit
    PROVE  /\ EffectsLeft(u) \subseteq Effect
           /\ [kind |-> "freeze", left |-> FreezeTime] \in Effect
           /\ [kind |-> "armor", left |-> ArmorTime] \in Effect
           /\ [kind |-> "heal", left |-> HealTime] \in Effect
  <1>1. ASSUME NEW e \in Effect, e.left > 0
        PROVE  [kind |-> e.kind, left |-> e.left - 1] \in Effect
    <2>1. CASE e \in [kind : {"freeze"}, left : 0 .. FreezeTime]
      BY <1>1, <2>1, DurationsPositive DEF Effect
    <2>2. CASE e \in [kind : {"armor"}, left : 0 .. ArmorTime]
      BY <1>1, <2>2, DurationsPositive DEF Effect
    <2>3. CASE e \in [kind : {"heal"}, left : 0 .. HealTime]
      BY <1>1, <2>3, DurationsPositive DEF Effect
    <2> QED
      BY <2>1, <2>2, <2>3 DEF Effect
  <1>2. effects[u] \subseteq Effect
    BY DEF StateTypeOK
  <1>3. EffectsLeft(u) \subseteq Effect
    BY <1>1, <1>2 DEF EffectsLeft
  <1> QED
    BY <1>3, DurationsPositive DEF Effect

\* What the effects of a unit do to it in one update.
LEMMA AgeTyped ==
    ASSUME StateTypeOK, NEW u \in Unit
    PROVE  /\ ArmorLeft(u) \in [Unit -> Nat]
           /\ InputLeft(u) \subseteq Unit
           /\ AgeEffects(u) => effects' \in [Unit -> SUBSET Effect]
  <1>1. ArmorLeft(u) \in [Unit -> Nat]
    BY CombatAssumption DEF StateTypeOK, ArmorLeft
  <1>2. InputLeft(u) \subseteq Unit
    BY DEF StateTypeOK, InputLeft
  <1>3. AgeEffects(u) => effects' \in [Unit -> SUBSET Effect]
    BY EffectsTyped DEF StateTypeOK, AgeEffects
  <1> QED
    BY <1>1, <1>2, <1>3

LEMMA ApplyTyped ==
    ASSUME StateTypeOK, NEW u \in Unit, NEW kind, NEW duration,
           [kind |-> kind, left |-> duration] \in Effect,
           ApplyEffect(u, kind, duration)
    PROVE  effects' \in [Unit -> SUBSET Effect]
  BY DEF StateTypeOK, ApplyEffect

\* Damage leaves a natural number of health.
LEMMA HealthTyped ==
    ASSUME StateTypeOK, NEW u \in Unit, NEW v \in Unit
    PROVE  HealthLeft(u, v) \in Nat
  <1>1. Net(u, v) \in Int
    BY CombatAssumption DEF StateTypeOK, Net
  <1> QED
    BY <1>1 DEF StateTypeOK, HealthLeft

\* The timers of a monster run within their ranges.
LEMMA WaitTyped ==
    ASSUME StateTypeOK, NEW m \in Monster
    PROVE  /\ Tock(moveWait[m]) \in 0 .. MoveTime
           /\ Tock(castWait[m]) \in 0 .. CastTime
           /\ Tock(castLeft[m]) \in 0 .. SequenceLength
           /\ MoveTime \in 0 .. MoveTime /\ CastTime \in 0 .. CastTime
           /\ SequenceLength \in 0 .. SequenceLength
  <1>1. /\ moveWait[m] \in 0 .. MoveTime /\ castWait[m] \in 0 .. CastTime
        /\ castLeft[m] \in 0 .. SequenceLength
    BY DEF StateTypeOK
  <1> QED
    BY <1>1, DurationsPositive, TockTyped

\* What the duels make of the units keeps its types.
LEMMA DuelTyped ==
    ASSUME StateTypeOK, NEW u \in Unit, NEW v \in Unit
    PROVE  /\ StartDuel(u, v) => /\ state' \in [Unit -> States]
                                 /\ duelable' \subseteq Unit
                                 /\ duelTarget' \in [Unit -> Unit \cup {None}]
           /\ Die(v) => /\ state' \in [Unit -> States]
                        /\ duelable' \subseteq Unit
                        /\ duelTarget' \in [Unit -> Unit \cup {None}]
                        /\ health' \in [Unit -> Nat]
                        /\ respawnIn' \in [Hero -> 0 .. RespawnTime]
  <1>1. StartDuel(u, v) => /\ state' \in [Unit -> States]
                           /\ duelable' \subseteq Unit
                           /\ duelTarget' \in [Unit -> Unit \cup {None}]
    BY DEF StateTypeOK, StartDuel, States
  <1>2. Die(v) => /\ state' \in [Unit -> States]
                  /\ duelable' \subseteq Unit
                  /\ duelTarget' \in [Unit -> Unit \cup {None}]
                  /\ health' \in [Unit -> Nat]
    BY DEF StateTypeOK, Die, States
  <1>3. Die(v) => respawnIn' \in [Hero -> 0 .. RespawnTime]
    BY DurationsPositive DEF StateTypeOK, Die
  <1> QED
    BY <1>1, <1>2, <1>3

\* The parts of the state that steps change together.
LoopT == LoopTypeOK
DuelT == /\ state \in [Unit -> States]
         /\ duelable \subseteq Unit
         /\ duelTarget \in [Unit -> Unit \cup {None}]
BodyT == /\ input \subseteq Unit
         /\ health \in [Unit -> Nat]
         /\ armor \in [Unit -> Nat]
         /\ effects \in [Unit -> SUBSET Effect]
HeroT == /\ cooldown \in [Hero -> 0 .. SpellCooldown]
         /\ respawnIn \in [Hero -> 0 .. RespawnTime]
MonsterT == /\ chasing \in [Monster -> Hero \cup {None}]
            /\ moveWait \in [Monster -> 0 .. MoveTime]
            /\ castWait \in [Monster -> 0 .. CastTime]
            /\ castLeft \in [Monster -> 0 .. SequenceLength]
FountainT == fountainWait \in 0 .. FountainTime

LEMMA TypeParts ==
    /\ StateTypeOK <=> LoopT /\ DuelT /\ BodyT /\ HeroT /\ MonsterT /\ FountainT
    /\ StateTypeOK' <=> LoopT' /\ DuelT' /\ BodyT' /\ HeroT' /\ MonsterT' /\ FountainT'
  BY DEF StateTypeOK, LoopT, DuelT, BodyT, HeroT, MonsterT, FountainT

\* The steps of the loop keep its types.
LEMMA LoopTyped ==
    ASSUME StateTypeOK, NEW u \in Unit, NEW m, NEW due \in SUBSET Unit
    PROVE  /\ EndInput \/ TakeTurn(u) \/ KillingTurn(m, u) \/ KillingMessage(u) => LoopT'
           /\ RespawnPass(due) \/ SpawnStored(u) \/ SpawnNothing => LoopT'
           /\ Stop("crashed") \/ Message \/ EndTick(FALSE) => LoopT'
  <1>1. EndInput \/ TakeTurn(u) \/ KillingTurn(m, u) \/ KillingMessage(u) => LoopT'
    BY DEF StateTypeOK, LoopT, LoopTypeOK, EndInput, TakeTurn, KillingTurn, KillingMessage,
           Running, Stopped
  <1>2. RespawnPass(due) \/ SpawnStored(u) \/ SpawnNothing => LoopT'
    BY DEF StateTypeOK, LoopT, LoopTypeOK, RespawnPass, SpawnStored, SpawnNothing, Running
  <1>3. Stop("crashed") \/ Message \/ EndTick(FALSE) => LoopT'
    BY DEF StateTypeOK, LoopT, LoopTypeOK, Stop, Message, EndTick, loopVars, Running, Stopped
  <1> QED
    BY <1>1, <1>2, <1>3

\* A crash changes nothing but the phase.
LEMMA CrashTyped == StateTypeOK /\ Stop("crashed") /\ UNCHANGED combatVars => StateTypeOK'
  <1> SUFFICES ASSUME StateTypeOK, Stop("crashed"), UNCHANGED combatVars
               PROVE  StateTypeOK'
    OBVIOUS
  <1>1. LoopT'
    BY DEF StateTypeOK, LoopT, LoopTypeOK, Stop, Stopped
  <1>2. DuelT' /\ BodyT' /\ HeroT' /\ MonsterT' /\ FountainT'
    BY DEF StateTypeOK, DuelT, BodyT, HeroT, MonsterT, FountainT, combatVars, duelVars, bodyVars,
           heroVars, monsterVars
  <1> QED
    BY <1>1, <1>2, TypeParts

\* The client messages keep the types.
LEMMA ClientTyped == StateTypeOK /\ Client => StateTypeOK'
  <1> SUFFICES ASSUME StateTypeOK, Client PROVE StateTypeOK'
    OBVIOUS
  <1> USE TypeParts
  <1>1. ASSUME NEW a \in Name, ClientDuelCrashes(a)
        PROVE  StateTypeOK'
    BY <1>1, CrashTyped DEF ClientDuelCrashes, Fails
  <1>2. ASSUME NEW u \in Unit, NEW v \in Unit, ClientDuel(u, v)
        PROVE  StateTypeOK'
    <2>1. LoopT'
      BY <1>2, LoopTyped DEF ClientDuel
    <2>2. DuelT'
      BY <1>2, DuelTyped DEF ClientDuel, DuelT
    <2>3. BodyT' /\ HeroT' /\ MonsterT' /\ FountainT'
      BY <1>2 DEF ClientDuel, BodyT, HeroT, MonsterT, FountainT, bodyVars, heroVars, monsterVars
    <2> QED
      BY <2>1, <2>2, <2>3
  <1>3. ASSUME NEW u \in Unit, NEW v \in Unit, ClientWounds(u, v)
        PROVE  StateTypeOK'
    <2>1. LoopT'
      BY <1>3, LoopTyped DEF ClientWounds
    <2>2. HealthLeft(u, v) \in Nat
      BY HealthTyped
    <2>3. BodyT'
      BY <1>3, <2>2 DEF ClientWounds, Wound, BodyT
    <2>4. DuelT' /\ HeroT' /\ MonsterT' /\ FountainT'
      BY <1>3 DEF ClientWounds, Wound, DuelT, HeroT, MonsterT, FountainT, duelVars, monsterVars
    <2> QED
      BY <2>1, <2>3, <2>4
  <1>4. ASSUME NEW u \in Unit, NEW v \in Unit, ClientKills(u, v)
        PROVE  StateTypeOK'
    <2>1. LoopT'
      BY <1>4, LoopTyped DEF ClientKills
    <2>2. DuelT'
      BY <1>4, DuelTyped DEF ClientKills, DuelT
    <2>3. BodyT'
      <3>1. input' \subseteq Unit
        BY <1>4 DEF ClientKills, InputAfterDeath, StateTypeOK
      <3> QED
        BY <1>4, <3>1, DuelTyped DEF ClientKills, BodyT
    <2>4. HeroT' /\ MonsterT' /\ FountainT'
      BY <1>4, DuelTyped DEF ClientKills, HeroT, MonsterT, FountainT, monsterVars
    <2> QED
      BY <2>1, <2>2, <2>3, <2>4
  <1>5. ASSUME NEW u \in Unit, NEW v \in Unit, ClientKillCrashes(u, v)
        PROVE  StateTypeOK'
    BY <1>5, CrashTyped DEF ClientKillCrashes, Fails
  <1>6. ASSUME NEW h \in Hero, ThirdSpell(h), effects' \in [Unit -> SUBSET Effect]
        PROVE  StateTypeOK'
    <2>1. LoopT'
      BY <1>6 DEF ThirdSpell, Message, loopVars, LoopT, LoopTypeOK
    <2>2. HeroT'
      BY <1>6, DurationsPositive DEF ThirdSpell, HeroT
    <2>3. DuelT' /\ BodyT' /\ MonsterT' /\ FountainT'
      BY <1>6 DEF ThirdSpell, DuelT, BodyT, MonsterT, FountainT, duelVars, monsterVars
    <2> QED
      BY <2>1, <2>2, <2>3
  <1>7. ASSUME NEW h \in Hero, ClientFreezes(h)
        PROVE  StateTypeOK'
    <2>1. duelTarget[h] \in Unit
      BY <1>7 DEF ClientFreezes, ThirdSpell, StateTypeOK, Unit
    <2>2. effects' \in [Unit -> SUBSET Effect]
      BY <1>7, <2>1, ApplyTyped, EffectsTyped DEF ClientFreezes
    <2> QED
      BY <1>6, <1>7, <2>2 DEF ClientFreezes
  <1>8. ASSUME NEW h \in Hero, ClientArmsUp(h)
        PROVE  StateTypeOK'
    <2>1. h \in Unit
      BY DEF Unit
    <2>2. effects' \in [Unit -> SUBSET Effect]
      BY <1>8, <2>1, ApplyTyped, EffectsTyped DEF ClientArmsUp
    <2> QED
      BY <1>6, <1>8, <2>2 DEF ClientArmsUp
  <1>9. ASSUME NEW u \in Unit, ClientDrinks(u)
        PROVE  StateTypeOK'
    <2>1. LoopT'
      BY <1>9 DEF ClientDrinks, Message, loopVars, LoopT, LoopTypeOK
    <2>2. effects' \in [Unit -> SUBSET Effect]
      BY <1>9, ApplyTyped, EffectsTyped DEF ClientDrinks, Drink
    <2>3. FountainT'
      BY <1>9, DurationsPositive DEF ClientDrinks, Drink, FountainT
    <2>4. DuelT' /\ BodyT' /\ HeroT' /\ MonsterT'
      BY <1>9, <2>2 DEF ClientDrinks, DuelT, BodyT, HeroT, MonsterT, duelVars, heroVars, monsterVars
    <2> QED
      BY <2>1, <2>3, <2>4
  <1> QED
    BY <1>1, <1>2, <1>3, <1>4, <1>5, <1>7, <1>8, <1>9 DEF Client, ClientGoesOn

\* The duel attack of a monster, up to the damage it does.
LEMMA RecoverTyped ==
    ASSUME StateTypeOK, NEW m \in Monster, Recover(m)
    PROVE  /\ MonsterT' /\ FountainT'
           /\ effects' \in [Unit -> SUBSET Effect]
           /\ armor' \in [Unit -> Nat]
           /\ cooldown' \in [Hero -> 0 .. SpellCooldown]
  <1>1. m \in Unit
    BY DEF Unit
  <1>2. effects' \in [Unit -> SUBSET Effect] /\ armor' \in [Unit -> Nat]
    BY <1>1, AgeTyped DEF Recover, AgeEffects
  <1>3. MonsterT'
    BY WaitTyped, TypeParts DEF Recover, MonsterT
  <1> QED
    BY <1>2, <1>3, TypeParts DEF Recover, FountainT, HeroT

\* A turn of a monster that hurts nobody.
LEMMA QuietTurnTyped ==
    ASSUME StateTypeOK, NEW m \in Monster, LoopT', DuelT', MonsterT',
           armor' = ArmorLeft(m), input' = InputLeft(m),
           effects' \in [Unit -> SUBSET Effect],
           UNCHANGED <<health, heroVars>>, FountainT'
    PROVE  StateTypeOK'
  <1>1. m \in Unit
    BY DEF Unit
  <1>2. BodyT'
    BY <1>1, AgeTyped, TypeParts DEF BodyT
  <1>3. HeroT'
    BY TypeParts DEF HeroT, heroVars
  <1> QED
    BY <1>2, <1>3, TypeParts

\* All that the turn of a monster may do.
MonsterActs(m) == MonsterGoesOn(m) \/ Press(m) \/ MonsterFails(m)

\* The turns of monsters keep the types.
LEMMA MonsterActsTyped ==
    ASSUME StateTypeOK, NEW m \in Monster, MonsterActs(m)
    PROVE  StateTypeOK'
  <1> USE TypeParts
  <1>0. m \in Unit /\ Hero \subseteq Unit
    BY DEF Unit
  <1>1. ASSUME NEW target \in Hero \cup {None}, Stay(m, target)
        PROVE  StateTypeOK'
    <2>1. LoopT'
      BY <1>0, <1>1, LoopTyped DEF Stay
    <2>2. effects' \in [Unit -> SUBSET Effect]
      BY <1>0, <1>1, AgeTyped DEF Stay
    <2>3. MonsterT'
      BY <1>1, WaitTyped DEF Stay, Wait, MonsterT
    <2>4. DuelT' /\ FountainT'
      BY <1>1 DEF Stay, DuelT, FountainT, duelVars
    <2> QED
      BY <1>1, <2>1, <2>2, <2>3, <2>4, QuietTurnTyped DEF Stay, AgeEffects
  <1>2. CASE Idle(m)
    <2>1. chasing[m] \in Hero \cup {None}
      BY DEF StateTypeOK
    <2> QED
      BY <1>1, <1>2, <2>1 DEF Idle
  <1>3. CASE GiveUp(m)
    BY <1>1, <1>3 DEF GiveUp
  <1>4. ASSUME NEW h \in Hero, Follow(m, h)
        PROVE  StateTypeOK'
    BY <1>1, <1>4 DEF Follow
  <1>5. ASSUME NEW h \in Hero, StepTowards(m, h)
        PROVE  StateTypeOK'
    <2>1. LoopT'
      BY <1>0, <1>5, LoopTyped DEF StepTowards
    <2>2. effects' \in [Unit -> SUBSET Effect] /\ FountainT'
      <3>1. PICK drinks \in BOOLEAN :
              /\ fountainWait' = IF drinks THEN FountainTime ELSE fountainWait
              /\ effects' = [effects EXCEPT ![m] = EffectsLeft(m) \cup
                    (IF drinks THEN {[kind |-> "heal", left |-> HealTime]} ELSE {})]
        BY <1>5 DEF StepTowards
      <3>2. EffectsLeft(m) \cup
              (IF drinks THEN {[kind |-> "heal", left |-> HealTime]} ELSE {}) \subseteq Effect
        BY <1>0, EffectsTyped
      <3>3. effects' \in [Unit -> SUBSET Effect]
        BY <3>1, <3>2 DEF BodyT
      <3> QED
        BY <3>1, <3>3, DurationsPositive DEF FountainT
    <2>3. MonsterT'
      BY <1>5, WaitTyped DEF StepTowards, MonsterT
    <2>4. DuelT'
      BY <1>5 DEF StepTowards, DuelT, duelVars
    <2> QED
      BY <1>5, <2>1, <2>2, <2>3, <2>4, QuietTurnTyped DEF StepTowards
  <1>6. ASSUME NEW h \in Hero, Engage(m, h)
        PROVE  StateTypeOK'
    <2>1. LoopT'
      BY <1>0, <1>6, LoopTyped DEF Engage
    <2>2. effects' \in [Unit -> SUBSET Effect]
      BY <1>0, <1>6, AgeTyped DEF Engage
    <2>3. MonsterT'
      BY <1>6, WaitTyped DEF Engage, Wait, MonsterT
    <2>4. DuelT' /\ FountainT'
      BY <1>0, <1>6, DuelTyped DEF Engage, DuelT, FountainT
    <2> QED
      BY <1>6, <2>1, <2>2, <2>3, <2>4, QuietTurnTyped DEF Engage, AgeEffects
  <1>7. CASE Press(m)
    <2>1. LoopT'
      BY <1>0, <1>7, LoopTyped DEF Press, Fails
    <2>2. effects' \in [Unit -> SUBSET Effect]
      BY <1>0, <1>7, AgeTyped DEF Press
    <2>3. MonsterT'
      BY <1>7, WaitTyped DEF Press, MonsterT
    <2>4. DuelT' /\ FountainT'
      BY <1>7 DEF Press, DuelT, FountainT, duelVars
    <2> QED
      BY <1>7, <2>1, <2>2, <2>3, <2>4, QuietTurnTyped DEF Press, AgeEffects
  <1>8. ASSUME NEW v \in Unit, StrikeWounds(m, v)
        PROVE  StateTypeOK'
    <2>1. LoopT'
      BY <1>0, <1>8, LoopTyped DEF StrikeWounds
    <2>2. HealthLeft(m, v) \in Nat /\ InputLeft(m) \subseteq Unit
      BY <1>0, HealthTyped, AgeTyped
    <2>3. BodyT'
      BY <1>8, <2>2, RecoverTyped DEF StrikeWounds, Wound, BodyT
    <2>4. DuelT' /\ HeroT'
      BY <1>8, RecoverTyped DEF StrikeWounds, Wound, DuelT, HeroT, duelVars
    <2> QED
      BY <1>8, <2>1, <2>3, <2>4, RecoverTyped DEF StrikeWounds
  <1>9. ASSUME NEW v \in Unit, StrikeKills(m, v)
        PROVE  StateTypeOK'
    <2>1. LoopT'
      BY <1>9, LoopTyped DEF StrikeKills
    <2>2. input' \subseteq Unit
      BY <1>0, <1>9, AgeTyped DEF StrikeKills, DuelT
    <2>3. BodyT'
      BY <1>9, <2>2, DuelTyped, RecoverTyped DEF StrikeKills, BodyT
    <2>4. DuelT' /\ HeroT'
      BY <1>9, DuelTyped, RecoverTyped DEF StrikeKills, DuelT, HeroT
    <2> QED
      BY <1>9, <2>1, <2>3, <2>4, RecoverTyped DEF StrikeKills
  <1>10. ASSUME NEW v \in Unit, StrikeCrashes(m, v)
         PROVE  StateTypeOK'
    BY <1>10, CrashTyped DEF StrikeCrashes, Fails
  <1>11. ASSUME NEW h \in Hero, PathCrashes(m, h)
         PROVE  StateTypeOK'
    BY <1>11, CrashTyped DEF PathCrashes, Fails
  <1> QED
    BY <1>2, <1>3, <1>4, <1>5, <1>6, <1>7, <1>8, <1>9, <1>10, <1>11
    DEF MonsterActs, MonsterGoesOn, MonsterFails

\* Spawning heroes or a monster keeps the types of the units.
LEMMA SpawnTyped ==
    ASSUME StateTypeOK, NEW units \in SUBSET Unit, Spawn(units)
    PROVE  /\ DuelT' /\ BodyT' /\ MonsterT' /\ FountainT'
           /\ cooldown' = cooldown
  <1>1. DuelT'
    BY TypeParts DEF Spawn, DuelT, States
  <1>2. BodyT'
    BY TypeParts, CombatAssumption DEF Spawn, BodyT
  <1> QED
    BY <1>1, <1>2, TypeParts DEF Spawn, MonsterT, FountainT, monsterVars

\* So does the rest of a tick.
LEMMA TickTyped == StateTypeOK /\ Tick => StateTypeOK'
  <1> SUFFICES ASSUME StateTypeOK, Tick PROVE StateTypeOK'
    OBVIOUS
  <1> USE TypeParts
  <1>1. CASE InputDone
    BY <1>1 DEF InputDone, EndInput, combatVars, duelVars, bodyVars, heroVars, monsterVars,
                LoopT, LoopTypeOK, DuelT, BodyT, HeroT, MonsterT, FountainT, Running, Stopped
  <1>2. ASSUME NEW h \in Hero, HeroTurn(h)
        PROVE  StateTypeOK'
    <2>0. h \in Unit
      BY DEF Unit
    <2>1. LoopT'
      BY <1>2, <2>0, LoopTyped DEF HeroTurn
    <2>2. BodyT'
      BY <1>2, <2>0, AgeTyped DEF HeroTurn, AgeEffects, BodyT
    <2>3. HeroT'
      <3>1. Tock(cooldown[h]) \in 0 .. SpellCooldown
        BY DurationsPositive, TockTyped DEF HeroT
      <3> QED
        BY <1>2, <3>1 DEF HeroTurn, HeroT
    <2>4. DuelT' /\ MonsterT' /\ FountainT'
      BY <1>2 DEF HeroTurn, DuelT, MonsterT, FountainT, duelVars, monsterVars
    <2> QED
      BY <2>1, <2>2, <2>3, <2>4
  <1>3. ASSUME NEW u \in Unit, HealCrash(u)
        PROVE  StateTypeOK'
    BY <1>3, CrashTyped DEF HealCrash, Fails
  <1>4. ASSUME NEW m \in Monster, SpawnMonster(m)
        PROVE  StateTypeOK'
    <2>0. m \in Unit
      BY DEF Unit
    <2>1. LoopT'
      BY <1>4, <2>0 DEF SpawnMonster, SpawnStored, LoopT, LoopTypeOK, Running
    <2> QED
      BY <1>4, <2>0, <2>1, SpawnTyped DEF SpawnMonster, HeroT
  <1>5. CASE Respawn
    <2>0. Due \in SUBSET Unit
      BY DEF Due, Unit
    <2>1. LoopT'
      BY <1>5, <2>0 DEF Respawn, RespawnPass, LoopT, LoopTypeOK, Running
    <2>2. respawnIn' \in [Hero -> 0 .. RespawnTime]
      BY <1>5, DurationsPositive, TockTyped DEF Respawn, HeroT
    <2> QED
      BY <1>5, <2>0, <2>1, <2>2, SpawnTyped DEF Respawn, HeroT
  <1>6. CASE NoSpawn
    BY <1>6 DEF NoSpawn, SpawnNothing, combatVars, duelVars, bodyVars, heroVars, monsterVars,
                LoopT, LoopTypeOK, DuelT, BodyT, HeroT, MonsterT, FountainT, Running
  <1>7. CASE TickDone
    <2>1. FountainT'
      BY <1>7, DurationsPositive, TockTyped DEF TickDone, FountainT
    <2>2. LoopT'
      BY <1>7 DEF TickDone, EndTick, LoopT, LoopTypeOK, Running
    <2>3. DuelT' /\ BodyT' /\ HeroT' /\ MonsterT'
      BY <1>7 DEF TickDone, duelVars, bodyVars, heroVars, monsterVars,
                  DuelT, BodyT, HeroT, MonsterT
    <2> QED
      BY <2>1, <2>2, <2>3
  <1> QED
    BY <1>1, <1>2, <1>3, <1>4, <1>5, <1>6, <1>7, MonsterActsTyped DEF Tick, TickGoesOn, MonsterActs

LEMMA InitTyped == Init => StateTypeOK
  <1> SUFFICES ASSUME Init PROVE StateTypeOK
    OBVIOUS
  <1>1. LoopT
    BY DEF Init, LoopInit, LoopT, LoopTypeOK, Running, Unit
  <1>2. DuelT /\ BodyT
    BY CombatAssumption DEF Init, DuelT, BodyT, States, Unit
  <1>3. HeroT /\ MonsterT /\ FountainT
    BY DurationsPositive DEF Init, HeroT, MonsterT, FountainT
  <1> QED
    BY <1>1, <1>2, <1>3, TypeParts

LEMMA TypeStep == StateTypeOK /\ [Next]_vars => StateTypeOK'
  <1>1. StateTypeOK /\ UNCHANGED vars => StateTypeOK'
    BY DEF vars, loopVars, combatVars, duelVars, bodyVars, heroVars, monsterVars,
           StateTypeOK, LoopTypeOK
  <1> QED
    BY <1>1, ClientTyped, TickTyped DEF Next, Halted

\* A step in which no line fails starts and ends in a process that lives.
LEMMA GoesOn ==
    ASSUME TickGoesOn \/ ClientGoesOn
    PROVE  phase \in Running /\ phase' # "crashed"
  <1>1. ASSUME NEW u, TakeTurn(u)
        PROVE  phase \in Running /\ phase' # "crashed"
    BY <1>1 DEF TakeTurn, Running
  <1>2. ASSUME NEW m, NEW v, KillingTurn(m, v)
        PROVE  phase \in Running /\ phase' # "crashed"
    BY <1>2 DEF KillingTurn, Running
  <1>3. ASSUME Message
        PROVE  phase \in Running /\ phase' # "crashed"
    BY <1>3 DEF Message, loopVars, Running
  <1>4. CASE ClientGoesOn
    <2>1. ASSUME NEW v, KillingMessage(v)
          PROVE  phase \in Running /\ phase' # "crashed"
      BY <2>1 DEF KillingMessage, Running
    <2> QED
      BY <1>3, <1>4, <2>1
      DEF ClientGoesOn, ClientDuel, ClientWounds, ClientKills, ClientFreezes, ClientArmsUp,
          ThirdSpell, ClientDrinks
  <1>5. ASSUME NEW m \in Monster, MonsterGoesOn(m)
        PROVE  phase \in Running /\ phase' # "crashed"
    BY <1>1, <1>2, <1>5
    DEF MonsterGoesOn, Idle, GiveUp, Stay, Follow, StepTowards, Engage, StrikeWounds, StrikeKills
  <1>6. CASE TickGoesOn
    <2>1. ASSUME InputDone \/ NoSpawn \/ TickDone \/ Respawn
          PROVE  phase \in Running /\ phase' # "crashed"
      BY <2>1 DEF InputDone, EndInput, NoSpawn, SpawnNothing, TickDone, EndTick, Respawn,
                  RespawnPass, Running
    <2>2. ASSUME NEW m, SpawnMonster(m)
          PROVE  phase \in Running /\ phase' # "crashed"
      BY <2>2 DEF SpawnMonster, SpawnStored, Running
    <2>3. ASSUME NEW h, HeroTurn(h)
          PROVE  phase \in Running /\ phase' # "crashed"
      BY <1>1, <2>3 DEF HeroTurn
    <2> QED
      BY <1>5, <1>6, <2>1, <2>2, <2>3 DEF TickGoesOn
  <1> QED
    BY <1>4, <1>6

\* A line that fails is one of the five that could, for something named.
LEMMA FailsTyped ==
    ASSUME NEW at \in {"message", "EndDuel", "sequence", "path", "FountainHeal"},
           NEW of \in Name, Fails(at, of)
    PROVE  /\ phase \in Running /\ phase' = "crashed"
           /\ fault' \in Fault /\ fault'.at = at /\ fault'.of = of
           /\ fault' # NoFault
  BY DEF Fails, Stop, Fault, NoFault

\* The fault is recorded exactly when the process crashes.
LEMMA FaultTyped ==
    TypeOK /\ Next => /\ fault' \in Fault \cup {NoFault}
                     /\ phase' = "crashed" <=> fault' # NoFault
  <1> DEFINE Recorded == /\ fault' \in Fault \cup {NoFault}
                         /\ phase' = "crashed" <=> fault' # NoFault
  <1> SUFFICES ASSUME TypeOK, Next PROVE Recorded
    OBVIOUS
  <1>1. ASSUME TickGoesOn \/ ClientGoesOn, UNCHANGED fault
        PROVE  Recorded
    BY <1>1, GoesOn DEF TypeOK, Running
  <1>2. ASSUME NEW at \in {"message", "EndDuel", "sequence", "path", "FountainHeal"},
               NEW of \in Name, Fails(at, of)
        PROVE  Recorded
    BY <1>2, FailsTyped
  <1>3. ASSUME NEW m \in Monster, Press(m)
        PROVE  Recorded
    <2>1. m \in Name
      BY DEF Name, Unit
    <2>2. CASE castLeft[m] = 0
      BY <1>2, <1>3, <2>1, <2>2 DEF Press
    <2>3. CASE castLeft[m] # 0
      <3>1. phase = "objects" /\ phase' = "objects" /\ UNCHANGED fault
        BY <1>3, <2>3 DEF Press, TakeTurn
      <3> QED
        BY <3>1 DEF TypeOK
    <2> QED
      BY <2>2, <2>3
  <1>4. ASSUME NEW m \in Monster, MonsterFails(m)
        PROVE  Recorded
    <2>1. m \in Name /\ Unit \subseteq Name
      BY DEF Name, Unit
    <2> QED
      BY <1>2, <1>4, <2>1 DEF MonsterFails, PathCrashes, StrikeCrashes
  <1>5. ASSUME NEW u \in Unit, HealCrash(u)
        PROVE  Recorded
    BY <1>2, <1>5 DEF HealCrash, Name
  <1>6. CASE Client
    <2>1. ASSUME NEW a \in Name, ClientDuelCrashes(a)
          PROVE  Recorded
      BY <1>2, <2>1 DEF ClientDuelCrashes
    <2>2. ASSUME NEW u \in Unit, NEW v \in Unit, ClientKillCrashes(u, v)
          PROVE  Recorded
      BY <1>2, <2>2 DEF ClientKillCrashes, Name
    <2> QED
      BY <1>1, <1>6, <2>1, <2>2 DEF Client
  <1>7. CASE Halted
    BY <1>7 DEF Halted, vars, loopVars, TypeOK
  <1> QED
    BY <1>1, <1>3, <1>4, <1>5, <1>6, <1>7 DEF Next, Tick

\* Every variable keeps its type: statistics, armor and health stay natural
\* numbers and every timer within its range, whatever the statistics are; a
\* fault is recorded exactly when the process has crashed.
THEOREM TypeCorrect == Spec => []TypeOK
  <1>1. Init => TypeOK
    <2>1. ASSUME Init
          PROVE  fault = NoFault /\ phase # "crashed"
      BY <2>1 DEF Init, LoopInit
    <2> QED
      BY <2>1, InitTyped DEF TypeOK
  <1>2. TypeOK /\ [Next]_vars => TypeOK'
    <2>1. TypeOK /\ UNCHANGED vars => UNCHANGED <<fault, phase>>
      BY DEF vars, loopVars
    <2> QED
      BY <2>1, TypeStep, FaultTyped DEF TypeOK
  <1> QED
    BY <1>1, <1>2, PTL DEF Spec

-----------------------------------------------------------------------------
(* Duels and death.  Each lemma is one way a step treats the units; the    *)
(* loop may advance in it.                                                 *)

\* The loop after a step: who waits for a turn is stored, and nobody waits
\* outside the pass over the objects.
LoopFine == turn \subseteq stored /\ (phase \in Running => phase = "objects" \/ turn = {})

SequencesLeft == \A m \in Monster : castLeft[m] > 0

\* Nobody starts or ends a duel, is hurt, dies or returns.
LEMMA QuietCore ==
    ASSUME StateTypeOK, Core, LoopFine', SequencesLeft',
           UNCHANGED <<duelVars, health, respawnIn, stored, passable>>
    PROVE  Core'
  <1>1. Lists'
    BY DEF Core, Lists, LoopFine, duelVars
  <1>2. DuelsConsistent'
    BY DEF Core, DuelsConsistent, duelVars
  <1>3. DeathIsFinal'
    BY DEF Core, DeathIsFinal, duelVars
  <1> QED
    BY <1>1, <1>2, <1>3 DEF Core, SequenceNeverEmpty, SequencesLeft

\* Who is in a duel is stored and alive, and so is the opponent.
LEMMA OpponentAlive ==
    ASSUME StateTypeOK, Core, NEW u \in Unit, duelTarget[u] # None
    PROVE  /\ duelTarget[u] \in Unit /\ duelTarget[duelTarget[u]] = u
           /\ u \in stored /\ state[u] = "duel" /\ health[u] # 0
           /\ duelTarget[u] \in stored /\ state[duelTarget[u]] = "duel"
           /\ duelTarget[u] # None
  <1>1. duelTarget[u] \in Unit /\ None \notin Unit
    BY CombatAssumption DEF StateTypeOK
  <1>2. duelTarget[duelTarget[u]] = u /\ u \in stored /\ state[u] = "duel"
    BY DEF Core, DuelsConsistent
  <1>3. duelTarget[u] \in stored /\ state[duelTarget[u]] = "duel"
    BY <1>1, <1>2 DEF Core, DuelsConsistent
  <1>4. health[u] # 0
    BY <1>2 DEF Core, DeathIsFinal
  <1> QED
    BY <1>1, <1>2, <1>3, <1>4

\* A blow that its target survives.
LEMMA WoundCore ==
    ASSUME StateTypeOK, Core, LoopFine', SequencesLeft',
           NEW u \in Unit, NEW v \in Unit, duelTarget[v] # None,
           Wound(u, v), stored' = stored, passable' = passable
    PROVE  Core'
  <1>1. HealthLeft(u, v) \in Nat /\ HealthLeft(u, v) # 0
    BY HealthTyped DEF Wound
  <1>2. \A x \in Unit : health'[x] = 0 <=> health[x] = 0
    BY <1>1, OpponentAlive DEF Wound, StateTypeOK
  <1>3. Lists'
    BY DEF Core, Lists, LoopFine, duelVars, Wound
  <1>4. DuelsConsistent'
    BY DEF Core, DuelsConsistent, duelVars, Wound
  <1>5. DeathIsFinal'
    BY <1>2 DEF Core, DeathIsFinal, duelVars, Wound, StateTypeOK, LoopTypeOK
  <1> QED
    BY <1>3, <1>4, <1>5 DEF Core, SequenceNeverEmpty, SequencesLeft

\* Two walking units (or one with itself) start a duel.
LEMMA StartCore ==
    ASSUME StateTypeOK, Core, LoopFine', SequencesLeft',
           NEW u \in stored, NEW v \in stored,
           state[u] = "walking", state[v] = "walking", StartDuel(u, v),
           UNCHANGED <<health, respawnIn, stored, passable>>
    PROVE  /\ Core'
           /\ duelTarget[u] = None /\ duelTarget[v] = None
  <1>0. u \in Unit /\ v \in Unit /\ None \notin Unit
    BY CombatAssumption DEF StateTypeOK, LoopTypeOK
  <1>1. duelTarget[u] = None /\ duelTarget[v] = None
    BY <1>0 DEF Core, DuelsConsistent
  <1>2. \A x \in Unit : duelTarget'[x] = IF x = v THEN u ELSE IF x = u THEN v ELSE duelTarget[x]
    BY <1>0 DEF StartDuel, StateTypeOK
  <1>3. \A x \in Unit : state'[x] = IF x \in {u, v} THEN "duel" ELSE state[x]
    BY DEF StartDuel
  <1>4. Lists'
    <2>1. \A h \in Hero : state'[h] # "undefined"
      BY <1>3 DEF Core, Lists, Unit
    <2>2. \A m \in Monster : m \in stored' <=> state'[m] # "undefined"
      BY <1>3 DEF Core, Lists, Unit
    <2> QED
      BY <2>1, <2>2 DEF Lists, LoopFine
  <1>5. DuelsConsistent'
    <2> SUFFICES ASSUME NEW x \in Unit
                 PROVE  /\ state'[x] = "duel" <=> duelTarget'[x] # None
                        /\ x \in duelable' => state'[x] = "walking"
                        /\ duelTarget'[x] # None => /\ duelTarget'[duelTarget'[x]] = x
                                                    /\ x \in stored'
      BY DEF DuelsConsistent
    <2>1. CASE x \in {u, v}
      BY <1>0, <1>2, <1>3, <2>1 DEF StartDuel
    <2>2. CASE x \notin {u, v}
      <3>1. duelTarget[x] # None => /\ duelTarget[x] \in Unit \ {u, v}
                                    /\ duelTarget[duelTarget[x]] = x
                                    /\ x \in stored
        BY <1>0, <1>1, <2>2, OpponentAlive
      <3>2. state'[x] = state[x] /\ duelTarget'[x] = duelTarget[x]
        BY <1>2, <1>3, <2>2
      <3>3. duelTarget[x] # None => duelTarget'[duelTarget[x]] = x
        BY <1>2, <3>1
      <3>4. x \in duelable' => x \in duelable
        BY DEF StartDuel
      <3>5. /\ state[x] = "duel" <=> duelTarget[x] # None
            /\ x \in duelable => state[x] = "walking"
        BY DEF Core, DuelsConsistent
      <3> QED
        BY <3>1, <3>2, <3>3, <3>4, <3>5
    <2> QED
      BY <2>1, <2>2
  <1>6. DeathIsFinal'
    <2>1. \A x \in Unit : state'[x] = "dead" <=> state[x] = "dead"
      BY <1>3
    <2>2. Hero \subseteq Unit /\ stored \subseteq Unit
      BY DEF Unit, StateTypeOK, LoopTypeOK
    <2> QED
      BY <2>1, <2>2 DEF Core, DeathIsFinal
  <1> QED
    BY <1>1, <1>4, <1>5, <1>6 DEF Core, SequenceNeverEmpty, SequencesLeft

\* A unit in a duel with another one dies and frees its opponent.
LEMMA DeathCore ==
    ASSUME StateTypeOK, Core, LoopFine', SequencesLeft',
           NEW v \in Unit, duelTarget[v] \notin {None, v}, Die(v),
           stored' = stored \ ({v} \cap Hero), passable' = passable \cup {v}
    PROVE  Core'
  <1> DEFINE w == duelTarget[v]
  <1>1. /\ w \in Unit /\ w # v /\ duelTarget[w] = v
        /\ v \in stored /\ w \in stored /\ state[v] = "duel" /\ state[w] = "duel"
    BY OpponentAlive
  <1>2. \A x \in Unit : state'[x] = IF x = v THEN "dead" ELSE IF x = w THEN "walking" ELSE state[x]
    BY <1>1, CombatAssumption DEF Die
  <1>3. \A x \in Unit : duelTarget'[x] = IF x \in {v, w} THEN None ELSE duelTarget[x]
    BY <1>1 DEF Die
  <1>4. duelable' = (duelable \cup {w}) \ {v}
    BY DEF Die
  <1>5. \A x \in Unit : health'[x] = IF x = v THEN 0 ELSE health[x]
    BY DEF Die, StateTypeOK
  <1>6. \A h \in Hero : respawnIn'[h] = IF h = v THEN RespawnTime ELSE respawnIn[h]
    BY DEF Die
  <1>7. /\ Hero \subseteq Unit /\ Monster \subseteq Unit /\ stored \subseteq Unit
        /\ Hero \cap Monster = {}
    BY UnitAssumption DEF Unit, StateTypeOK, LoopTypeOK
  <1> HIDE DEF w
  <1>8. Lists'
    <2>1. \A h \in Hero : state'[h] # "undefined"
      BY <1>2, <1>7 DEF Core, Lists
    <2>2. \A m \in Monster : m \in stored' <=> state'[m] # "undefined"
      BY <1>1, <1>2, <1>7 DEF Core, Lists
    <2> QED
      BY <2>1, <2>2 DEF Lists, LoopFine
  <1>9. DuelsConsistent'
    <2> SUFFICES ASSUME NEW x \in Unit
                 PROVE  /\ state'[x] = "duel" <=> duelTarget'[x] # None
                        /\ x \in duelable' => state'[x] = "walking"
                        /\ duelTarget'[x] # None => /\ duelTarget'[duelTarget'[x]] = x
                                                    /\ x \in stored'
      BY DEF DuelsConsistent
    <2>1. CASE x \in {v, w}
      BY <1>1, <1>2, <1>3, <1>4, <2>1
    <2>2. CASE x \notin {v, w}
      <3>1. duelTarget[x] # None => duelTarget[x] \in Unit \ {v, w} /\ x \in stored
        BY <1>1, <2>2, OpponentAlive
      <3> QED
        BY <1>2, <1>3, <1>4, <2>2, <3>1 DEF Core, DuelsConsistent
    <2> QED
      BY <2>1, <2>2
  <1>10. DeathIsFinal'
    <2>1. \A x \in stored' : health'[x] = 0 <=> state'[x] = "dead"
      BY <1>1, <1>2, <1>5, <1>7 DEF Core, DeathIsFinal
    <2>2. \A h \in Hero : h \notin stored' <=> respawnIn'[h] > 0
      BY <1>1, <1>6, <1>7, DurationsPositive DEF Core, DeathIsFinal
    <2>3. \A h \in Hero : h \notin stored' <=> state'[h] = "dead"
      BY <1>1, <1>2, <1>7 DEF Core, DeathIsFinal
    <2>4. \A x \in Unit : x \in passable' <=> state'[x] = "dead"
      BY <1>1, <1>2 DEF Core, DeathIsFinal
    <2> QED
      BY <2>1, <2>2, <2>3, <2>4 DEF DeathIsFinal
  <1> QED
    BY <1>8, <1>9, <1>10 DEF Core, SequenceNeverEmpty, SequencesLeft

\* Units that are in no duel are spawned.
LEMMA SpawnCore ==
    ASSUME StateTypeOK, Core, LoopFine', SequencesLeft',
           NEW units \in SUBSET Unit, \A u \in units : state[u] # "duel",
           Spawn(units), stored' = stored \cup units, passable' = passable \ units,
           \A h \in Hero : h \notin stored' <=> respawnIn'[h] > 0
    PROVE  Core'
  <1>1. \A x \in Unit : state'[x] = IF x \in units THEN "walking" ELSE state[x]
    BY DEF Spawn
  <1>2. \A x \in Unit : health'[x] = IF x \in units THEN MaxHealth[x] ELSE health[x]
    BY DEF Spawn
  <1>3. Hero \subseteq Unit /\ Monster \subseteq Unit /\ stored \subseteq Unit
    BY DEF Unit, StateTypeOK, LoopTypeOK
  <1>4. Lists'
    <2>1. \A h \in Hero : state'[h] # "undefined"
      BY <1>1, <1>3 DEF Core, Lists
    <2>2. \A m \in Monster : m \in stored' <=> state'[m] # "undefined"
      BY <1>1, <1>3 DEF Core, Lists
    <2> QED
      BY <2>1, <2>2 DEF Lists, LoopFine
  <1>5. DuelsConsistent'
    BY <1>1, <1>3 DEF Core, DuelsConsistent, Spawn
  <1>6. DeathIsFinal'
    <2>1. \A x \in stored' : health'[x] = 0 <=> state'[x] = "dead"
      BY <1>1, <1>2, <1>3, CombatAssumption DEF Core, DeathIsFinal
    <2>2. \A h \in Hero : h \notin stored' <=> state'[h] = "dead"
      BY <1>1, <1>3 DEF Core, DeathIsFinal
    <2>3. \A x \in Unit : x \in passable' <=> state'[x] = "dead"
      BY <1>1 DEF Core, DeathIsFinal
    <2> QED
      BY <2>1, <2>2, <2>3 DEF DeathIsFinal
  <1> QED
    BY <1>4, <1>5, <1>6 DEF Core, SequenceNeverEmpty, SequencesLeft

\* Whoever is attacked fights its attacker; EndDuel can only fail when the
\* two are one.
LEMMA AttackedFights ==
    ASSUME StateTypeOK, Core, NEW u \in Unit, NEW v, v = duelTarget[u], v # None
    PROVE  /\ v \in Unit /\ duelTarget[v] # None
           /\ ~DeathCrashes(v) => duelTarget[v] \notin {None, v}
           /\ DeathCrashes(v) => duelTarget[v] = v
  <1>1. v \in Unit /\ duelTarget[v] = u /\ u # None /\ duelTarget[u] = v
    BY OpponentAlive, CombatAssumption
  <1> QED
    BY <1>1 DEF DeathCrashes

\* Two DUELABLE units that are stored walk, and so does the prey of a
\* monster that acts; all of them are stored.
LEMMA PreyWalks ==
    ASSUME StateTypeOK, Core, NEW m \in Monster, NEW h \in Hero, Engage(m, h)
    PROVE  m \in stored /\ h \in stored /\ state[m] = "walking" /\ state[h] = "walking"
  <1>1. state[m] = "walking" /\ state[h] = "walking" /\ m \in turn
    BY DEF Engage, Acts, Prey, TakeTurn
  <1> QED
    BY <1>1 DEF Core, Lists, DeathIsFinal

\* What TakeTurn leaves behind.
LEMMA TurnFine ==
    ASSUME Core, NEW u, TakeTurn(u)
    PROVE  LoopFine' /\ stored' = stored /\ passable' = passable
  BY DEF Core, Lists, TakeTurn, LoopFine

\* A message changes nothing of the loop.
LEMMA MessageFine ==
    ASSUME Core, Message
    PROVE  LoopFine' /\ stored' = stored /\ passable' = passable
  BY DEF Core, Lists, Message, loopVars, LoopFine

\* A crash stops the loop where it is.
LEMMA CrashCore == StateTypeOK /\ Core /\ Stop("crashed") /\ UNCHANGED combatVars => Core'
  <1> SUFFICES ASSUME StateTypeOK, Core, Stop("crashed"), UNCHANGED combatVars
               PROVE  Core'
    OBVIOUS
  <1>1. LoopFine'
    BY DEF Core, Lists, Stop, LoopFine, Running
  <1>2. SequencesLeft'
    BY DEF Core, SequenceNeverEmpty, SequencesLeft, combatVars, monsterVars
  <1> QED
    BY <1>1, <1>2, QuietCore DEF Stop, combatVars, heroVars, bodyVars

\* The client messages keep duels and deaths consistent.
LEMMA ClientCore == StateTypeOK /\ Core /\ Client => Core'
  <1> SUFFICES ASSUME StateTypeOK, Core, Client PROVE Core'
    OBVIOUS
  <1>0. (UNCHANGED castLeft => SequencesLeft') /\ Hero \subseteq Unit
    BY DEF Core, SequenceNeverEmpty, SequencesLeft, Unit
  <1>1. ASSUME NEW a \in Name, ClientDuelCrashes(a)
        PROVE  Core'
    BY <1>1, CrashCore DEF ClientDuelCrashes, Fails
  <1>2. ASSUME NEW u \in Unit, NEW v \in Unit, ClientDuel(u, v)
        PROVE  Core'
    <2>1. u \in stored /\ v \in stored /\ state[u] = "walking" /\ state[v] = "walking"
      BY <1>2 DEF ClientDuel, Core, DuelsConsistent
    <2>2. LoopFine' /\ stored' = stored /\ passable' = passable
      BY <1>2, MessageFine DEF ClientDuel
    <2>3. StartDuel(u, v) /\ UNCHANGED <<health, respawnIn, castLeft>>
      BY <1>2 DEF ClientDuel, bodyVars, heroVars, monsterVars
    <2> QED
      BY <1>0, <2>1, <2>2, <2>3, StartCore
  <1>3. ASSUME NEW u \in Unit, NEW v \in Unit, ClientWounds(u, v)
        PROVE  Core'
    <2>1. duelTarget[v] # None
      BY <1>3, AttackedFights DEF ClientWounds, Attacks
    <2>2. LoopFine' /\ stored' = stored /\ passable' = passable
      BY <1>3, MessageFine DEF ClientWounds
    <2>3. Wound(u, v) /\ UNCHANGED castLeft
      BY <1>3 DEF ClientWounds, monsterVars
    <2> QED
      BY <1>0, <2>1, <2>2, <2>3, WoundCore
  <1>4. ASSUME NEW u \in Unit, NEW v \in Unit, ClientKills(u, v)
        PROVE  Core'
    <2>1. duelTarget[v] \notin {None, v}
      BY <1>4, AttackedFights DEF ClientKills, Attacks
    <2>2. /\ LoopFine'
          /\ stored' = stored \ ({v} \cap Hero) /\ passable' = passable \cup {v}
      BY <1>4 DEF ClientKills, KillingMessage, Core, Lists, LoopFine, Running
    <2>3. Die(v) /\ UNCHANGED castLeft
      BY <1>4 DEF ClientKills, monsterVars
    <2> QED
      BY <1>0, <2>1, <2>2, <2>3, DeathCore
  <1>5. ASSUME NEW u \in Unit, NEW v \in Unit, ClientKillCrashes(u, v)
        PROVE  Core'
    BY <1>5, CrashCore DEF ClientKillCrashes, Fails
  <1>6. ASSUME NEW h \in Hero, ThirdSpell(h)
        PROVE  Core'
    <2>1. LoopFine' /\ stored' = stored /\ passable' = passable
      BY <1>6, MessageFine DEF ThirdSpell
    <2> QED
      BY <1>0, <1>6, <2>1, QuietCore DEF ThirdSpell, monsterVars
  <1>7. ASSUME NEW u \in Unit, ClientDrinks(u)
        PROVE  Core'
    <2>1. LoopFine' /\ stored' = stored /\ passable' = passable
      BY <1>7, MessageFine DEF ClientDrinks
    <2> QED
      BY <1>0, <1>7, <2>1, QuietCore DEF ClientDrinks, heroVars, monsterVars
  <1> QED
    BY <1>1, <1>2, <1>3, <1>4, <1>5, <1>6, <1>7
    DEF Client, ClientGoesOn, ClientFreezes, ClientArmsUp

\* So do the turns of monsters.
LEMMA MonsterActsCore ==
    ASSUME StateTypeOK, Core, NEW m \in Monster, MonsterActs(m)
    PROVE  Core'
  <1>0. /\ UNCHANGED castLeft => SequencesLeft'
        /\ m \in Unit
        /\ (\E n \in Nat \ {0} : castLeft' = [castLeft EXCEPT ![m] = n]) => SequencesLeft'
    BY DEF Core, SequenceNeverEmpty, SequencesLeft, Unit, StateTypeOK
  <1>1. ASSUME NEW target, Stay(m, target)
        PROVE  Core'
    <2>1. LoopFine' /\ stored' = stored /\ passable' = passable
      BY <1>1, TurnFine DEF Stay
    <2> QED
      BY <1>0, <1>1, <2>1, QuietCore DEF Stay, heroVars
  <1>2. ASSUME NEW h \in Hero, StepTowards(m, h)
        PROVE  Core'
    <2>1. LoopFine' /\ stored' = stored /\ passable' = passable
      BY <1>2, TurnFine DEF StepTowards
    <2> QED
      BY <1>0, <1>2, <2>1, QuietCore DEF StepTowards, heroVars
  <1>3. ASSUME NEW h \in Hero, Engage(m, h)
        PROVE  Core'
    <2>1. LoopFine' /\ stored' = stored /\ passable' = passable
      BY <1>3, TurnFine DEF Engage
    <2>2. StartDuel(m, h) /\ UNCHANGED <<health, respawnIn, castLeft>>
      BY <1>3 DEF Engage, heroVars
    <2> QED
      BY <1>0, <1>3, <2>1, <2>2, PreyWalks, StartCore
  <1>4. CASE Press(m)
    <2>1. castLeft[m] \in Nat /\ castLeft[m] > 1
      <3>1. castLeft[m] \in 0 .. SequenceLength /\ castLeft[m] > 0
        BY DEF StateTypeOK, Core, SequenceNeverEmpty
      <3>2. duelTarget[m] # None
        BY <1>0, <1>4 DEF Press, Acts, Core, DuelsConsistent
      <3> QED
        BY <1>4, <3>1, <3>2, DurationsPositive DEF Press
    <2>2. LoopFine' /\ stored' = stored /\ passable' = passable
      BY <1>4, <2>1, TurnFine DEF Press
    <2>3. SequencesLeft'
      <3>1. Tock(castLeft[m]) \in Nat \ {0}
        BY <2>1 DEF Tock
      <3>2. castLeft' = [castLeft EXCEPT ![m] = Tock(castLeft[m])]
        BY <1>4 DEF Press
      <3> QED
        BY <1>0, <3>1, <3>2
    <2> QED
      BY <1>4, <2>2, <2>3, QuietCore DEF Press, heroVars
  <1>5. ASSUME Recover(m)
        PROVE  SequencesLeft'
    BY <1>0, <1>5, DurationsPositive DEF Recover
  <1>6. ASSUME NEW v \in Unit, StrikeWounds(m, v)
        PROVE  Core'
    <2>1. duelTarget[v] # None
      BY <1>0, <1>6, AttackedFights DEF StrikeWounds, Strikes
    <2>2. LoopFine' /\ stored' = stored /\ passable' = passable
      BY <1>6, TurnFine DEF StrikeWounds
    <2> QED
      BY <1>0, <1>5, <1>6, <2>1, <2>2, WoundCore DEF StrikeWounds
  <1>7. ASSUME NEW v \in Unit, StrikeKills(m, v)
        PROVE  Core'
    <2>1. duelTarget[v] \notin {None, v}
      BY <1>0, <1>7, AttackedFights DEF StrikeKills, Strikes
    <2>2. /\ LoopFine'
          /\ stored' = stored \ ({v} \cap Hero) /\ passable' = passable \cup {v}
      BY <1>7 DEF StrikeKills, KillingTurn, Core, Lists, LoopFine
    <2> QED
      BY <1>5, <1>7, <2>1, <2>2, DeathCore DEF StrikeKills
  <1>8. ASSUME NEW v \in Unit, StrikeCrashes(m, v)
        PROVE  Core'
    BY <1>8, CrashCore DEF StrikeCrashes, Fails
  <1>9. ASSUME NEW h \in Hero, PathCrashes(m, h)
        PROVE  Core'
    BY <1>9, CrashCore DEF PathCrashes, Fails
  <1> QED
    BY <1>1, <1>2, <1>3, <1>4, <1>6, <1>7, <1>8, <1>9
    DEF MonsterActs, MonsterGoesOn, MonsterFails, Idle, GiveUp, Follow

\* So does the rest of a tick.
LEMMA TickCore == StateTypeOK /\ Core /\ Tick => Core'
  <1> SUFFICES ASSUME StateTypeOK, Core, Tick PROVE Core'
    OBVIOUS
  <1>0. /\ UNCHANGED castLeft => SequencesLeft'
        /\ Hero \subseteq Unit /\ Monster \subseteq Unit /\ Hero \cap Monster = {}
    BY UnitAssumption DEF Core, SequenceNeverEmpty, SequencesLeft, Unit
  <1>1. CASE InputDone
    <2>1. LoopFine' /\ stored' = stored /\ passable' = passable
      BY <1>1 DEF InputDone, EndInput, LoopFine
    <2> QED
      BY <1>0, <1>1, <2>1, QuietCore DEF InputDone, combatVars, bodyVars, heroVars, monsterVars
  <1>2. ASSUME NEW h \in Hero, HeroTurn(h)
        PROVE  Core'
    <2>1. LoopFine' /\ stored' = stored /\ passable' = passable
      BY <1>2, TurnFine DEF HeroTurn
    <2> QED
      BY <1>0, <1>2, <2>1, QuietCore DEF HeroTurn, monsterVars
  <1>3. ASSUME NEW u \in Unit, HealCrash(u)
        PROVE  Core'
    BY <1>3, CrashCore DEF HealCrash, Fails
  <1>4. ASSUME NEW m \in Monster, SpawnMonster(m)
        PROVE  Core'
    <2>1. state[m] = "undefined" /\ m \notin passable
      BY <1>0, <1>4 DEF SpawnMonster, Core, Lists, DeathIsFinal
    <2>2. /\ LoopFine'
          /\ stored' = stored \cup {m} /\ passable' = passable \ {m}
      BY <1>4, <2>1 DEF SpawnMonster, SpawnStored, Core, Lists, LoopFine, Running
    <2>3. \A h \in Hero : h \notin stored' <=> respawnIn'[h] > 0
      BY <1>0, <1>4, <2>2 DEF SpawnMonster, Core, DeathIsFinal
    <2>4. Spawn({m}) /\ UNCHANGED castLeft
      BY <1>4 DEF SpawnMonster, Spawn, monsterVars
    <2> QED
      BY <1>0, <2>1, <2>2, <2>3, <2>4, SpawnCore
  <1>5. CASE Respawn
    <2>1. \A h \in Due : state[h] = "dead"
      BY DEF Due, Core, DeathIsFinal
    <2>2. /\ LoopFine'
          /\ stored' = stored \cup Due /\ passable' = passable \ Due
      BY <1>5 DEF Respawn, RespawnPass, Core, Lists, LoopFine
    <2>3. ASSUME NEW h \in Hero
          PROVE  h \notin stored' <=> respawnIn'[h] > 0
      <3>1. respawnIn[h] \in Nat /\ respawnIn'[h] = Tock(respawnIn[h])
        BY <1>5, DurationsPositive DEF StateTypeOK, Respawn
      <3>2. h \in Due <=> respawnIn[h] = 1
        BY DEF Due
      <3>3. h \notin stored <=> respawnIn[h] > 0
        BY DEF Core, DeathIsFinal
      <3> QED
        BY <2>2, <3>1, <3>2, <3>3 DEF Tock
    <2>4. Spawn(Due) /\ UNCHANGED castLeft
      BY <1>5 DEF Respawn, Spawn, monsterVars
    <2>5. Due \in SUBSET Unit
      BY <1>0 DEF Due
    <2> QED
      BY <1>0, <2>1, <2>2, <2>3, <2>4, <2>5, SpawnCore
  <1>6. CASE NoSpawn
    <2>1. LoopFine' /\ stored' = stored /\ passable' = passable
      BY <1>6 DEF NoSpawn, SpawnNothing, Core, Lists, LoopFine, Running
    <2> QED
      BY <1>0, <1>6, <2>1, QuietCore DEF NoSpawn, combatVars, bodyVars, heroVars, monsterVars
  <1>7. CASE TickDone
    <2>1. LoopFine' /\ stored' = stored /\ passable' = passable
      BY <1>7 DEF TickDone, EndTick, Core, Lists, LoopFine, Running
    <2> QED
      BY <1>0, <1>7, <2>1, QuietCore DEF TickDone, bodyVars, heroVars, monsterVars
  <1> QED
    BY <1>1, <1>2, <1>3, <1>4, <1>5, <1>6, <1>7, MonsterActsCore DEF Tick, TickGoesOn, MonsterActs

LEMMA InitCore == Init => Core
  <1> SUFFICES ASSUME Init PROVE Core
    OBVIOUS
  <1>1. Lists
    BY UnitAssumption DEF Init, LoopInit, Lists, Unit
  <1>2. DuelsConsistent
    BY DEF Init, LoopInit, DuelsConsistent
  <1>3. DeathIsFinal
    BY CombatAssumption DEF Init, LoopInit, DeathIsFinal, Unit
  <1>4. SequenceNeverEmpty
    BY DurationsPositive DEF Init, SequenceNeverEmpty
  <1> QED
    BY <1>1, <1>2, <1>3, <1>4 DEF Core

LEMMA CoreStep == StateTypeOK /\ Core /\ [Next]_vars => Core'
  <1>1. StateTypeOK /\ Core /\ UNCHANGED vars => Core'
    BY DEF vars, loopVars, combatVars, duelVars, bodyVars, heroVars, monsterVars,
           Core, Lists, DuelsConsistent, DeathIsFinal, SequenceNeverEmpty
  <1> QED
    BY <1>1, ClientCore, TickCore DEF Next, Halted

LEMMA CoreAlways == Spec => [](StateTypeOK /\ Core)
  BY InitTyped, InitCore, TypeStep, CoreStep, PTL DEF Spec

-----------------------------------------------------------------------------
(* What follows.                                                           *)

\* Duels are symmetric and agree with the state and the attributes of both
\* opponents, which are stored.
THEOREM DuelsHold == Spec => []DuelsConsistent
  <1>1. Core => DuelsConsistent
    BY DEF Core
  <1> QED
    BY <1>1, CoreAlways, PTL

\* Dead, without health, out of the storage (a hero) and in the respawn
\* queue go together, whatever the statistics of the units are.
THEOREM DeathHolds == Spec => []DeathIsFinal
  <1>1. Core => DeathIsFinal
    BY DEF Core
  <1> QED
    BY <1>1, CoreAlways, PTL

\* A monster never removes an input from an empty attack sequence.
THEOREM SequenceHolds == Spec => []SequenceNeverEmpty
  <1>1. Core => SequenceNeverEmpty
    BY DEF Core
  <1> QED
    BY <1>1, CoreAlways, PTL

\* Which lines fail, and for which units.
LEMMA CrashStep ==
    ASSUME StateTypeOK, Core, Next, phase' = "crashed", phase # "crashed"
    PROVE  Excused
  <1>1. ASSUME NEW u \in Unit, NEW v \in Unit,
               v = duelTarget[u], v # None, DeathCrashes(v), Fails("EndDuel", v)
        PROVE  Excused
    <2>1. duelTarget[v] = v
      BY <1>1, AttackedFights
    <2>2. fault'.at = "EndDuel" /\ fault'.of = v
      BY <1>1 DEF Fails
    <2> QED
      BY <2>1, <2>2 DEF Excused
  <1>2. CASE Client
    <2>1. ASSUME NEW a \in Name, ClientDuelCrashes(a)
          PROVE  Excused
      BY <2>1 DEF ClientDuelCrashes, Fails, Excused
    <2>2. ASSUME NEW u \in Unit, NEW v \in Unit, ClientKillCrashes(u, v)
          PROVE  Excused
      BY <1>1, <2>2 DEF ClientKillCrashes, Attacks
    <2> QED
      BY <1>2, <2>1, <2>2, GoesOn DEF Client
  <1>3. ASSUME NEW m \in Monster, Press(m)
        PROVE  FALSE
    <2>1. castLeft[m] # 0
      BY DEF StateTypeOK, Core, SequenceNeverEmpty
    <2> QED
      BY <1>3, <2>1 DEF Press, TakeTurn
  <1>4. ASSUME NEW m \in Monster, MonsterFails(m)
        PROVE  Excused
    <2>0. m \in Unit
      BY DEF Unit
    <2>1. ASSUME NEW h \in Hero, PathCrashes(m, h)
          PROVE  Excused
      <3>1. h # None
        BY CombatAssumption DEF Unit
      <3> QED
        BY <2>1, <3>1 DEF PathCrashes, Acts, Fails, Excused
    <2>2. ASSUME NEW v \in Unit, StrikeCrashes(m, v)
          PROVE  Excused
      BY <1>1, <2>0, <2>2 DEF StrikeCrashes, Strikes
    <2> QED
      BY <1>4, <2>1, <2>2 DEF MonsterFails
  <1>5. ASSUME NEW u \in Unit, HealCrash(u)
        PROVE  Excused
    BY <1>5 DEF HealCrash, Fails, Excused
  <1>6. CASE Tick
    BY <1>3, <1>4, <1>5, <1>6, GoesOn DEF Tick
  <1>7. ~Halted
    BY DEF Halted, vars, loopVars
  <1> QED
    BY <1>2, <1>6, <1>7 DEF Next

\* The process dies at no line but the four known ones, and there only for
\* the unit that excuses it.
THEOREM CrashesKnown == Spec => KnownCrashesOnly
  <1>1. StateTypeOK /\ Core /\ [Next]_vars => [phase' = "crashed" => Excused]_vars
    <2> SUFFICES ASSUME StateTypeOK, Core, Next, phase' = "crashed", vars' # vars
                 PROVE  Excused
      OBVIOUS
    <2>1. phase # "crashed"
      <3>1. ASSUME NEW at, NEW of, Fails(at, of)
            PROVE  phase # "crashed"
        BY <3>1 DEF Fails, Stop, Running
      <3>2. phase = "objects" => phase # "crashed"
        OBVIOUS
      <3> QED
        BY <3>1, <3>2, GoesOn
        DEF Next, Halted, Client, ClientDuelCrashes, ClientKillCrashes, Tick, Press,
            MonsterFails, PathCrashes, StrikeCrashes, HealCrash, Running
    <2> QED
      BY <2>1, CrashStep
  <1> QED
    BY <1>1, CoreAlways, PTL DEF Spec, KnownCrashesOnly

\* The duel mechanics implement Duels: a duel starts only between two units
\* that are free and ends for both at once.
THEOREM ImplementsDuels == Spec => DuelsSpec
  <1>1. Init => Pairing!Init
    BY DEF Init, Pairing!Init
  <1>2. ASSUME StateTypeOK, Core, NEW u \in stored, NEW v \in stored,
               duelTarget[u] = None, duelTarget[v] = None, StartDuel(u, v)
        PROVE  Pairing!Next
    <2>1. u \in Unit /\ v \in Unit
      BY <1>2 DEF StateTypeOK, LoopTypeOK
    <2>2. Pairing!Start(u, v)
      BY <1>2 DEF StartDuel, Pairing!Start
    <2> QED
      BY <2>1, <2>2 DEF Pairing!Next
  <1>3. ASSUME NEW v \in Unit, duelTarget[v] # None, Die(v)
        PROVE  Pairing!Next
    <2>1. Pairing!End(v)
      BY <1>3 DEF Die, Pairing!End
    <2> QED
      BY <2>1 DEF Pairing!Next
  <1>4. StateTypeOK /\ Core /\ Client => Pairing!Next \/ UNCHANGED duelTarget
    <2> SUFFICES ASSUME StateTypeOK, Core, Client, duelTarget' # duelTarget
                 PROVE  Pairing!Next
      OBVIOUS
    <2>1. ASSUME NEW u \in Unit, NEW v \in Unit, ClientDuel(u, v)
          PROVE  Pairing!Next
      <3>1. /\ u \in stored /\ v \in stored /\ StartDuel(u, v)
            /\ duelTarget[u] = None /\ duelTarget[v] = None
        BY <2>1 DEF ClientDuel, Core, DuelsConsistent
      <3> QED
        BY <1>2, <3>1
    <2>2. ASSUME NEW u \in Unit, NEW v \in Unit, ClientKills(u, v)
          PROVE  Pairing!Next
      BY <1>3, <2>2, AttackedFights DEF ClientKills, Attacks
    <2> QED
      BY <2>1, <2>2
      DEF Client, ClientGoesOn, ClientDuelCrashes, ClientWounds, Wound, ClientKillCrashes,
          ClientFreezes, ClientArmsUp, ThirdSpell, ClientDrinks, combatVars, duelVars
  <1>5. ASSUME NEW m \in Monster
        PROVE  StateTypeOK /\ Core /\ MonsterActs(m) => Pairing!Next \/ UNCHANGED duelTarget
    <2> SUFFICES ASSUME StateTypeOK, Core, MonsterActs(m), duelTarget' # duelTarget
                 PROVE  Pairing!Next
      OBVIOUS
    <2>0. m \in Unit
      BY DEF Unit
    <2>1. ASSUME NEW h \in Hero, Engage(m, h)
          PROVE  Pairing!Next
      <3>1. m \in stored /\ h \in stored /\ state[m] = "walking" /\ state[h] = "walking"
        BY <2>1, PreyWalks
      <3>2. m \in Unit /\ h \in Unit
        BY DEF Unit
      <3>3. duelTarget[m] = None /\ duelTarget[h] = None
        BY <3>1, <3>2 DEF Core, DuelsConsistent
      <3> QED
        BY <1>2, <2>1, <3>1, <3>3 DEF Engage
    <2>2. ASSUME NEW v \in Unit, StrikeKills(m, v)
          PROVE  Pairing!Next
      BY <1>3, <2>0, <2>2, AttackedFights DEF StrikeKills, Strikes
    <2> QED
      BY <2>1, <2>2
      DEF MonsterActs, MonsterGoesOn, MonsterFails, Idle, GiveUp, Stay, Follow, StepTowards,
          Press, StrikeWounds, Wound, PathCrashes, StrikeCrashes, combatVars, duelVars
  <1>6. StateTypeOK /\ Core /\ Tick => Pairing!Next \/ UNCHANGED duelTarget
    BY <1>5 DEF Tick, TickGoesOn, MonsterActs, InputDone, HeroTurn, HealCrash,
         SpawnMonster, Respawn, Spawn, NoSpawn, TickDone, combatVars, duelVars
  <1>7. StateTypeOK /\ Core /\ [Next]_vars => [Pairing!Next]_duelTarget
    BY <1>4, <1>6 DEF Next, Halted, vars, combatVars, duelVars
  <1> QED
    BY <1>1, <1>7, CoreAlways, PTL DEF Spec, DuelsSpec, Pairing!Spec

=============================================================================
