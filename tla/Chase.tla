------------------------------- MODULE Chase -------------------------------
(***************************************************************************)
(* A monster hunts heroes through a generated map (Monster::update): it    *)
(* picks a prey in sight, searches a path with A*, follows it step by step *)
(* and starts a duel next to the prey.  The path is kept between updates:  *)
(* it is searched again only when the prey is not at its end, one cell of  *)
(* it is used up by every step, whether or not Unit::Move refuses the      *)
(* step, and it stays as it is when the search fails.                      *)
(*                                                                         *)
(* Combat has the monster's fights and timers and lets it step anywhere;   *)
(* here positions and the path are kept and a fight may end at any time.   *)
(* A client's move names any stored unit, the monster or its corpse        *)
(* included.  Of the duels those between a hero and the monster are kept,  *)
(* of the constructions one that blocks, the graveyard; teleports are left *)
(* out.                                                                    *)
(***************************************************************************)
EXTENDS MapGen

CONSTANTS
    Hero,
    Monster,    \* the monster
    None,       \* no prey, no opponent
    Sight,      \* 6.0
    PlayCells,  \* bound: the cells of floor of the largest map that is played on
    Graves      \* bound: the cells the graveyard may be put on

ASSUME ChaseAssumption ==
    /\ IsFiniteSet(Hero) /\ Monster \notin Hero /\ None \notin Hero \cup {Monster}
    /\ Sight \in Nat /\ PlayCells \in Nat
    /\ Graves \subseteq Nat \X Nat

VARIABLES
    pos,        \* unit -> _pos
    state,      \* unit -> _state; "off": not created yet
    grave,      \* the position of the graveyard
    foe,        \* the hero in a duel with the monster
    chasing,    \* _chasingUnit
    path,       \* _pathToUnit
    ready,      \* SpellReady(0): the cooldown of a step is over
    astray      \* history: since the search of path a step was refused, a later
                \* search failed, or a client moved the monster

chaseVars == <<pos, state, grave, foe, chasing, path, ready, astray>>
vars == <<genVars, chaseVars>>

Units == Hero \cup {Monster}
Area == Square(Size)

ChaseTypeOK ==
    /\ settings \in Configurations
    /\ stage \in {"seed", "carve", "mapped", "play", "undefined"}
    /\ cells \in [Square(n) -> BlockTypes] /\ blocks \in [Area -> BlockTypes]
    /\ list \in [Square(n) -> 0 .. 4]
    /\ pos \in [Units -> Area] /\ grave \in Area
    /\ state \in [Units -> {"off", "walking", "duel", "dead"}]
    /\ foe \in Hero \cup {None} /\ chasing \in Hero \cup {None}
    /\ path = NoPath \/ path \in Seq(Floor)
    /\ ready \in BOOLEAN /\ astray \in BOOLEAN

Init ==
    /\ GenInit
    /\ pos = [u \in Units |-> <<0, 0>>]
    /\ state = [u \in Units |-> "off"]
    /\ grave = <<0, 0>>
    /\ foe = None /\ chasing = None
    /\ path = NoPath
    /\ ready = TRUE
    /\ astray = FALSE

Generate == GenNext /\ UNCHANGED chaseVars

\* Everything is put on cells of its own.
Spawn ==
    /\ stage = "mapped" /\ Cardinality(Floor) <= PlayCells
    /\ stage' = "play"
    /\ \E place \in [Units \cup {"grave"} -> Floor] :
         /\ IsInjective(place) /\ place["grave"] \in Graves
         /\ pos' = [u \in Units |-> place[u]]
         /\ grave' = place["grave"]
    /\ state' = [u \in Units |-> "walking"]
    /\ UNCHANGED <<settings, room, red, cells, list, blocks, carved,
                   foe, chasing, path, ready, astray>>

Living == {u \in Units : state[u] # "dead"}

\* Something at c lacks PASSABLE.
Blocked(c) == c \notin Floor \/ c = grave \/ \E u \in Living : pos[u] = c

SquaredDistance(a, b) == (a[1] - b[1]) * (a[1] - b[1]) + (a[2] - b[2]) * (a[2] - b[2])
InSight(h) == SquaredDistance(pos[h], pos[Monster]) <= Sight * Sight
NextTo(h) == SquaredDistance(pos[h], pos[Monster]) = 1

-----------------------------------------------------------------------------
(* The others.                                                             *)

Playing == stage = "play" /\ UNCHANGED genVars

\* The units the storage lists: a dead hero is not, a monster's corpse is.
Stored == {u \in Units : u = Monster \/ state[u] # "dead"}

\* Whoever sends CLActionMove moves the unit it names by one cell, whatever
\* the unit is doing.
ClientMoves(u) ==
    /\ Playing
    /\ u \in Stored
    /\ \E c \in Area : /\ Adjacent(c, pos[u]) /\ ~Blocked(c)
                       /\ pos' = [pos EXCEPT ![u] = c]
    /\ astray' = (astray \/ (u = Monster /\ path # NoPath))
    /\ UNCHANGED <<state, grave, foe, chasing, path, ready>>

\* A hero starts the duel.  The monster keeps its prey and its path.
HeroAttacks(h) ==
    /\ Playing
    /\ state[h] = "walking" /\ state[Monster] = "walking" /\ NextTo(h)
    /\ state' = [state EXCEPT ![h] = "duel", ![Monster] = "duel"]
    /\ foe' = h
    /\ UNCHANGED <<pos, grave, chasing, path, ready, astray>>

\* The duel ends with the death of the hero.
HeroDies ==
    /\ Playing
    /\ foe # None
    /\ state' = [state EXCEPT ![foe] = "dead", ![Monster] = "walking"]
    /\ foe' = None
    /\ UNCHANGED <<pos, grave, chasing, path, ready, astray>>

\* Or with the death of the monster: a corpse has no further updates.
MonsterDies ==
    /\ Playing
    /\ foe # None
    /\ state' = [state EXCEPT ![foe] = "walking", ![Monster] = "dead"]
    /\ foe' = None
    /\ UNCHANGED <<pos, grave, chasing, path, ready, astray>>

HeroReturns(h) ==
    /\ Playing
    /\ state[h] = "dead"
    /\ state' = [state EXCEPT ![h] = "walking"]
    /\ pos' = [pos EXCEPT ![h] = grave]
    /\ UNCHANGED <<grave, foe, chasing, path, ready, astray>>

\* A second without a step has passed.
CoolsDown ==
    /\ Playing
    /\ ~ready
    /\ ready' = TRUE
    /\ UNCHANGED <<pos, state, grave, foe, chasing, path, astray>>

-----------------------------------------------------------------------------
(* Monster::update, in the state WALKING.                                  *)

\* The heroes it may look at in this update: its prey, or any in sight.
Targets ==
    IF chasing # None THEN {chasing}
    ELSE {h \in Hero : state[h] = "walking" /\ InSight(h)}

\* Mutant of FreeFor: walls do not count.
FreeForAll(h) == Area

\* binary_world: what blocks is 0, except for both ends of the path.
FreeFor(h) == {c \in Area : ~Blocked(c)} \cup {pos[h], pos[Monster]}

\* Mutant of Outdated: a path that was found once is followed to its end.
OutdatedNever(h) == path = NoPath

\* The prey is not where the path ends.
Outdated(h) == path = NoPath \/ pos[h] # Last(path)

\* The path after the check, and whether it can be relied on.
Planned(h) ==
    IF ~Outdated(h) THEN [path |-> path, astray |-> astray]
    ELSE LET found == AStar(Area, FreeFor(h), pos[Monster], pos[h])
         IN IF found # NoPath THEN [path |-> found, astray |-> FALSE]
            ELSE [path |-> path, astray |-> path # NoPath]

\* An empty path is read: back() and front() of an empty deque.
ReadsNothing(h) == path = <<>>

Walks == Playing /\ state[Monster] = "walking"

GiveUp(h) ==
    /\ Walks
    /\ chasing = h /\ h # None
    /\ state[h] # "walking" \/ ~InSight(h)
    /\ chasing' = None
    /\ path' = NoPath
    /\ astray' = FALSE
    /\ UNCHANGED <<pos, state, grave, foe, ready>>

Hunts(h) ==
    /\ Walks
    /\ h \in Targets
    /\ state[h] = "walking" /\ InSight(h)
    /\ ~ReadsNothing(h)

\* The next update goes wrong: what it reads is not there.
Undefined(h) ==
    /\ stage = "play" /\ state[Monster] = "walking"
    /\ h \in Targets /\ state[h] = "walking" /\ InSight(h)
    /\ ReadsNothing(h)
    /\ stage' = "undefined"
    /\ UNCHANGED <<settings, room, red, cells, list, blocks, carved, chaseVars>>

\* Next to the prey, and the step has cooled down: the duel starts.
Engage(h) ==
    /\ Hunts(h) /\ NextTo(h) /\ ready
    /\ state' = [state EXCEPT ![h] = "duel", ![Monster] = "duel"]
    /\ foe' = h
    /\ chasing' = None
    /\ path' = NoPath
    /\ astray' = FALSE
    /\ UNCHANGED <<pos, grave, ready>>

\* The cell on the way to next: first the x, then the y coordinate counts.
Towards(next) ==
    LET p == pos[Monster]
    IN CASE next[1] > p[1] -> <<p[1] + 1, p[2]>>
         [] next[1] < p[1] -> <<p[1] - 1, p[2]>>
         [] next[1] = p[1] /\ next[2] > p[2] -> <<p[1], p[2] + 1>>
         [] next[1] = p[1] /\ next[2] < p[2] -> <<p[1], p[2] - 1>>
         [] OTHER -> p

\* Mutant of Follow: the step is not taken off the path.
FollowUnpopped(h, plan) ==
    /\ ~NextTo(h) /\ ready /\ plan.path # NoPath
    /\ LET step == Towards(Head(plan.path))
           refused == step # pos[Monster] /\ Blocked(step)
       IN /\ pos' = IF refused THEN pos ELSE [pos EXCEPT ![Monster] = step]
          /\ path' = plan.path
          /\ astray' = (plan.astray \/ refused)
    /\ chasing' = h
    /\ ready' = FALSE
    /\ UNCHANGED <<state, grave, foe>>

\* A step is tried, and the path gets shorter although Move may refuse it.
Follow(h, plan) ==
    /\ ~NextTo(h) /\ ready /\ plan.path # NoPath
    /\ LET step == Towards(Head(plan.path))
           refused == step # pos[Monster] /\ Blocked(step)
       IN /\ pos' = IF refused THEN pos ELSE [pos EXCEPT ![Monster] = step]
          /\ path' = Tail(plan.path)
          /\ astray' = (plan.astray \/ refused)
    /\ chasing' = h
    /\ ready' = FALSE
    /\ UNCHANGED <<state, grave, foe>>

\* The step has to wait, or there is no path.
Linger(h, plan) ==
    /\ ~ready \/ (~NextTo(h) /\ plan.path = NoPath)
    /\ chasing' = h
    /\ path' = plan.path
    /\ astray' = plan.astray
    /\ UNCHANGED <<pos, state, grave, foe, ready>>

Update(h) ==
    \/ GiveUp(h)
    \/ Engage(h)
    \/ Hunts(h) /\ LET plan == Planned(h) IN Follow(h, plan) \/ Linger(h, plan)

Others(h) == HeroAttacks(h) \/ HeroReturns(h)

\* The map is not played on, or the monster read what is not there.
Done == stage \in {"mapped", "undefined"} /\ UNCHANGED vars

\* Nobody is in sight, or the monster is dead or fights.
Rest == Playing /\ UNCHANGED chaseVars

Next ==
    \/ Generate
    \/ Spawn
    \/ \E h \in Hero : Update(h) \/ Undefined(h) \/ Others(h)
    \/ \E u \in Units : ClientMoves(u)
    \/ HeroDies \/ MonsterDies \/ CoolsDown
    \/ Rest
    \/ Done

Spec == Init /\ [][Next]_vars

\* With a path and the step cooled down, an update gives up, engages or
\* tries a step.
CanProceed ==
    /\ stage = "play" /\ state[Monster] = "walking"
    /\ path \notin {NoPath, <<>>} /\ ready

\* The loop of the world updates the monster for ever and time passes;
\* heroes do as they like.  The second conjunct is weak fairness of the
\* updates, with CanProceed for their being enabled: it asks nothing of an
\* update that finds no path.
HuntSpec ==
    /\ Spec
    /\ []<>~CanProceed \/ []<><<\E h \in Hero : Update(h)>>_vars
    /\ WF_vars(CoolsDown)

-----------------------------------------------------------------------------
(* Properties.                                                             *)

OnTrack == state[Monster] = "walking" /\ path \notin {NoPath, <<>>} /\ ~astray

\* As long as no step was refused, no search failed and no client moved the
\* monster, what is left of the path leads from it to the end, one
\* neighbouring cell after the other and without blocks in between, through
\* changes of prey, moves of the prey, duels and deaths.
PathLeadsOn ==
    stage = "play" /\ OnTrack => IsWay(Floor, pos[Monster], Last(path), path)

\* Only a refused step, a failed search or a client that moved the monster
\* lets it read the end of an empty path: without them it has met its prey
\* before, or has searched a new path.
EmptyOnlyAstray == path = <<>> => astray

\* The monster is on its way to h, on a path that led there.
OnTheWayTo(h) ==
    /\ stage = "play" /\ state[Monster] = "walking" /\ state[h] = "walking"
    /\ chasing = h /\ path # NoPath /\ ~astray

\* A prey that stands still is met in the end: the monster can be on its way
\* for ever, neither refused nor moved by a client, only to a hero that never
\* stops moving.
StillPreyMet ==
    \A h \in Hero : <>[]OnTheWayTo(h) => []<><<pos'[h] # pos[h]>>_vars
=============================================================================
