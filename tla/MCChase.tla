------------------------------ MODULE MCChase ------------------------------
(***************************************************************************)
(* Maps of one room of 3 x 3, of 2 x 2 rooms and of 3 x 3 rooms of 2 x 2;  *)
(* the hunt goes on in the first kind.                                     *)
(***************************************************************************)
EXTENDS Chase

MCConfigurations ==
    {[MapSize |-> 1, RoomSize |-> 3], [MapSize |-> 2, RoomSize |-> 2],
     [MapSize |-> 3, RoomSize |-> 2]}

MCMaxHoles == [s \in MCConfigurations |-> IF s.MapSize = 3 THEN 0 ELSE 1]

MCSeeds == {<<0, 0>>}

MCGraves == {<<1, 1>>}
=============================================================================
