---------------------------- MODULE KeyCustody ----------------------------
(***************************************************************************)
(* What the item mechanics promise about the one key of a game: at any     *)
(* time it lies on the floor or is carried by one unit, and it changes     *)
(* hands only by way of the floor.                                         *)
(***************************************************************************)
CONSTANTS
    Unit,
    Floor       \* the keeper of a key that lies on the floor: not a unit

VARIABLE keeper

Init == keeper = Floor

PickUp(u) == keeper = Floor /\ keeper' = u

PutDown(u) == keeper = u /\ keeper' = Floor

Next == \E u \in Unit : PickUp(u) \/ PutDown(u)

Spec == Init /\ [][Next]_keeper
=============================================================================
