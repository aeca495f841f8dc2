------------------------------- MODULE MCBench -------------------------------
(***************************************************************************)
(* Bench for TLC: one thread, two or three threads with a client each, and *)
(* two threads that share ad->c.                                           *)
(***************************************************************************)
EXTENDS Bench

Of(n, ops, random, perFile, some) ==
    [threads |-> n, blocks |-> ops, random |-> random, perFile |-> perFile, some |-> some]

MCConfig ==
    {Of(1, 2, random, FALSE, some) : random \in BOOLEAN, some \in BOOLEAN}
    \union {Of(2, 2, FALSE, TRUE, TRUE), Of(2, 1, TRUE, TRUE, FALSE), Of(3, 1, FALSE, TRUE, TRUE),
            Of(2, 0, FALSE, FALSE, TRUE)}
=============================================================================
