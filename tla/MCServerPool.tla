---------------------------- MODULE MCServerPool ----------------------------
(***************************************************************************)
(* ServerPool with two workers.  Finders are interchangeable, and what a   *)
(* destroyed server was like does not matter.                              *)
(***************************************************************************)
EXTENDS ServerPool

MCSymmetry == Permutations(Finder)

Existing == {s \in Server : Exists(s)}

MCView ==
    <<freePorts, listed, life, lobby \cap Existing, bound \cap Existing,
      [s \in Existing |-> port[s]], finderVars, crashed, overlapped>>
=============================================================================
