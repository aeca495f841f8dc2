------------------------------- MODULE MCFileIo -------------------------------
(***************************************************************************)
(* Instances of FileIo for TLC.                                            *)
(***************************************************************************)
EXTENDS FileIo, TLC

Symmetry == Permutations(Conn)
=============================================================================
