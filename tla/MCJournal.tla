------------------------------ MODULE MCJournal ------------------------------
(***************************************************************************)
(* Instances of Journal for TLC.                                           *)
(***************************************************************************)
EXTENDS Journal, TLC

Symmetry == Permutations(Conn) \union Permutations(Page)
=============================================================================
