----------------------------- MODULE SqliteLock -----------------------------
(***************************************************************************)
(* What SQLite asks of a VFS: the lock levels of one database file, seen   *)
(* from the connections that use it.  A level is raised only when no other *)
(* connection stands in the way, and may be lowered at any time: by its    *)
(* holder, or because the file server has dropped the holder's state.      *)
(* NfsLock implements this with byte-range locks on an NFS server.         *)
(***************************************************************************)
EXTENDS Naturals

CONSTANT Conn    \* connections to one database file

VARIABLE level   \* the lock each connection really holds

NO_LOCK        == 0
SHARED_LOCK    == 1
RESERVED_LOCK  == 2
EXCLUSIVE_LOCK == 4

\* PENDING is on the way to EXCLUSIVE, nobody asks for it.
Level == {NO_LOCK, SHARED_LOCK, RESERVED_LOCK, EXCLUSIVE_LOCK}

TypeOK == level \in [Conn -> Level]

Init == level = [c \in Conn |-> NO_LOCK]

\* A reader enters unless a writer is writing the file.
Share(c) ==
    /\ level[c] = NO_LOCK
    /\ \A d \in Conn : level[d] # EXCLUSIVE_LOCK
    /\ level' = [level EXCEPT ![c] = SHARED_LOCK]

\* One reader at a time announces that it is going to write.
Reserve(c) ==
    /\ level[c] = SHARED_LOCK
    /\ \A d \in Conn \ {c} : level[d] <= SHARED_LOCK
    /\ level' = [level EXCEPT ![c] = RESERVED_LOCK]

\* A connection writes the file only when nobody else uses it at all.
Exclude(c) ==
    /\ level[c] \in {SHARED_LOCK, RESERVED_LOCK}
    /\ \A d \in Conn \ {c} : level[d] = NO_LOCK
    /\ level' = [level EXCEPT ![c] = EXCLUSIVE_LOCK]

Lower(c, l) ==
    /\ l < level[c]
    /\ level' = [level EXCEPT ![c] = l]

Next == \E c \in Conn :
    \/ Share(c)
    \/ Reserve(c)
    \/ Exclude(c)
    \/ \E l \in Level : Lower(c, l)

Spec == Init /\ [][Next]_level

-----------------------------------------------------------------------------

\* An EXCLUSIVE lock excludes every other lock on the file, and of the locks
\* above SHARED there is only one.
Exclusion ==
    \A c, d \in Conn : c # d =>
        /\ level[c] = EXCLUSIVE_LOCK => level[d] = NO_LOCK
        /\ level[c] > SHARED_LOCK => level[d] <= SHARED_LOCK
=============================================================================
