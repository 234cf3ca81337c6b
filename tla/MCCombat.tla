------------------------------ MODULE MCCombat ------------------------------
(***************************************************************************)
(* Combat with a warrior, a mage and one monster.  Damage, armor and       *)
(* resistance are those of the source; health is scaled down so that one   *)
(* or two blows kill.  Durations are one or two updates, in the order of   *)
(* the source's.                                                           *)
(***************************************************************************)
EXTENDS Combat

CONSTANTS w, g, m       \* a warrior, a mage, a monster

Stat(ofWarrior, ofMage, ofMonster) ==
    [u \in Unit |-> CASE u \in Warrior -> ofWarrior
                      [] u \in Mage    -> ofMage
                      [] u \in Monster -> ofMonster]

MCMaxHealth == Stat(8, 8, 16)
MCDamage == Stat(10, 18, 10)
MCArmor == Stat(6, 2, 2)
MCResistance == Stat(2, 6, 2)

Healed == {u \in Unit : \E e \in effects[u] : e.kind = "heal"}

\* With three units only the monster uses the fountain, and only while no spell
\* lasts, which keeps the states few; with two units it is used freely.
Dry ==
    Healed # {} =>
        /\ Healed = {m}
        /\ \A u \in Unit : \A e \in effects[u] : e.kind = "heal"

\* Crashed worlds need not be told apart.
MCView == IF phase = "crashed" THEN <<>> ELSE vars
=============================================================================
