---------------------------- MODULE MCLabyrinth ----------------------------
(***************************************************************************)
(* Labyrinth on a 5 x 5 map: seven open cells around two walls, so that    *)
(* units meet, block each other and fill the place.                        *)
(*                                                                         *)
(*        # # # # #          D door    G graveyard    F fountain           *)
(*        # . G . #                                                        *)
(*        # W F W #          column 1 is on the left, row 1 at the bottom  *)
(*        # . . D #                                                        *)
(*        # # # # #                                                        *)
(***************************************************************************)
EXTENDS Labyrinth

MCWall == {<<1, 2>>, <<3, 2>>}

\* One wall more: the labyrinth starts full, and a monster finds no cell
\* until somebody has taken the key.
MCTightWall == MCWall \cup {<<3, 3>>}

MCLayout == [door |-> <<3, 1>>, grave |-> <<2, 3>>, fountain |-> <<2, 2>>]

MCInit == Init /\ site = MCLayout

MCSpec == MCInit /\ [][Next]_vars

MCTickSpec == MCSpec /\ WF_vars(Tick)
=============================================================================
