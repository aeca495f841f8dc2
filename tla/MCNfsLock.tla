------------------------------ MODULE MCNfsLock ------------------------------
(***************************************************************************)
(* Instances of NfsLock for TLC.                                           *)
(***************************************************************************)
EXTENDS NfsLock, TLC

Symmetry == Permutations(Conn) \union Permutations(ClientId)
=============================================================================
