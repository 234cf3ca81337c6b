------------------------------ MODULE MCMaster ------------------------------
(***************************************************************************)
(* Two workers on each side and one e-mail that everybody wants.           *)
(***************************************************************************)
EXTENDS Master
=============================================================================
