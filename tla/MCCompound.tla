------------------------------ MODULE MCCompound ------------------------------
(***************************************************************************)
(* An instance of Compound for TLC: two names, one with an empty directory *)
(* and a divider at its end, buffers that have to grow for most requests.  *)
(***************************************************************************)
EXTENDS Compound

MCPath    == {<<1, 3, 2, 1, 2, 1, 2>>, <<1, 3, 3, 2, 1, 1, 1, 3, 2, 3>>}
MCData    == {<<1>>, <<2, 1, 1, 2>>}
MCSetting == {<<1, 6>>}
=============================================================================
