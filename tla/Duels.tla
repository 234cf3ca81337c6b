------------------------------- MODULE Duels -------------------------------
(***************************************************************************)
(* What the duel mechanics promise: a unit duels at most one opponent, its *)
(* opponent duels it, a duel starts only between units that are both free, *)
(* and ends for both at once.                                              *)
(***************************************************************************)
CONSTANTS
    Unit,
    None        \* the opponent of a unit that is in no duel

VARIABLE opponent

Init == opponent = [u \in Unit |-> None]

Start(u, v) ==
    /\ opponent[u] = None
    /\ opponent[v] = None
    /\ opponent' = [opponent EXCEPT ![u] = v, ![v] = u]

End(u) ==
    /\ opponent[u] # None
    /\ opponent' = [x \in Unit |-> IF x \in {u, opponent[u]} THEN None ELSE opponent[x]]

Next == \E u \in Unit : End(u) \/ \E v \in Unit : Start(u, v)

Spec == Init /\ [][Next]_opponent
=============================================================================
