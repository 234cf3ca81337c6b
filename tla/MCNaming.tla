------------------------------ MODULE MCNaming ------------------------------
(***************************************************************************)
(* Integers are narrower than in C++: 5 bits for a byte, 39 values for a   *)
(* ushort.  Monsters are numbered from 37; the heroes have 38 and 39.  The *)
(* second monster gets the number of a hero, the third, 39, is the first   *)
(* one that a ushort cannot hold.                                          *)
(***************************************************************************)
EXTENDS Naming, TLC

MCDraws == <<39, 38>>
MCSettings == [map_w |-> 3, room_w |-> 10, seed |-> 50]

\* The players differ in nothing but the order in which they join.
MCSymmetry == Permutations(Player)
=============================================================================
