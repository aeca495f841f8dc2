------------------------------- MODULE NfsLock -------------------------------
(***************************************************************************)
(* Locking of one database file over NFS (nfsv4/nfs4.c, nfs4Lock and       *)
(* nfs4Unlock).  SQLite's five lock levels are byte-range locks on three   *)
(* ranges of the file.  A call of xLock or xUnlock makes up to three LOCK  *)
(* or LOCKU requests, each of them one atomic step of the server; other    *)
(* connections run between them, and any request may fail.                 *)
(*                                                                         *)
(* A connection stands for one process with one open database file.  Its   *)
(* requests are executed under its session, and the server keeps all the   *)
(* locks of the file on account of a client id.                            *)
(***************************************************************************)
EXTENDS Naturals

CONSTANTS
    Conn,      \* connections: a process, its NFS client and its sqlfile
    ClientId,  \* client ids the server hands out, one per EXCHANGE_ID
    NoId,      \* no client id
    Fault      \* what may go wrong in a run, see FaultKind

FaultKind ==
    { "refuse_lock",    \* LOCK answered with an error though nobody is in the way
      "refuse_unlock",  \* LOCKU answered with an error
      "untyped_unlock", \* the LOCKU that gives a SHARED lock up, whose l_type nobody has
                        \*   assigned, answered with an error: no such lock type
      "sever",          \* a request fails in transport and transact() reconnects
      "lost_reply",     \* executed, reply lost, reconnecting stops before
                        \*   CREATE_SESSION: the old session stays in use
      "crash",          \* a process dies
      "expire" }        \* the server drops a client's state, e.g. its lease ran out

ASSUME NoIdAssumption == NoId \notin ClientId
ASSUME FaultAssumption == Fault \subseteq FaultKind

NO_LOCK        == 0
SHARED_LOCK    == 1
RESERVED_LOCK  == 2
PENDING_LOCK   == 3
EXCLUSIVE_LOCK == 4

Level == {NO_LOCK, SHARED_LOCK, RESERVED_LOCK, EXCLUSIVE_LOCK}

\* PENDING_BYTE, RESERVED_BYTE = PENDING_BYTE + 1, and the SHARED_SIZE bytes
\* from SHARED_FIRST, which are only ever locked together.
Region == {"PENDING", "RESERVED", "SHARED"}
Mode   == {"none", "read", "write"}

VARIABLES
    pager,      \* pager[c]: the level SQLite believes it holds
    eFileLock,  \* eFileLock[c]: the level the VFS has recorded in the sqlfile
    pc,         \* pc[c]: the request the running xLock or xUnlock makes next
    want,       \* want[c]: the level that call was asked for
    fileid,     \* fileid[c]: the client id under which the file was opened
    session,    \* session[c]: the client id of the session requests are sent in
    latest,     \* latest[c]: what f->latest_sid is worth to the server
    live,       \* client ids the server knows
    held        \* held[i][r]: the lock of client id i on region r

vars == <<pager, eFileLock, pc, want, fileid, session, latest, live, held>>

LockPc   == {"lock_pending", "lock_shared", "drop_pending", "lock_upper"}
UnlockPc == {"downgrade", "unlock_bytes", "unlock_range"}

NoLocks == [r \in Region |-> "none"]

TypeOK ==
    /\ pager \in [Conn -> Level]
    /\ eFileLock \in [Conn -> Level]
    /\ pc \in [Conn -> {"idle"} \union LockPc \union UnlockPc]
    /\ want \in [Conn -> Level]
    /\ fileid \in [Conn -> ClientId \union {NoId}]
    /\ session \in [Conn -> ClientId \union {NoId}]
    /\ latest \in [Conn -> {"open", "current", "stale"}]
    /\ live \in SUBSET ClientId
    /\ held \in [ClientId -> [Region -> Mode]]

Init ==
    /\ pager = [c \in Conn |-> NO_LOCK]
    /\ eFileLock = [c \in Conn |-> NO_LOCK]
    /\ pc = [c \in Conn |-> "idle"]
    /\ want = [c \in Conn |-> NO_LOCK]
    /\ fileid = [c \in Conn |-> NoId]
    /\ session = [c \in Conn |-> NoId]
    /\ latest = [c \in Conn |-> "open"]
    /\ live = {}
    /\ held = [i \in ClientId |-> NoLocks]

-----------------------------------------------------------------------------
\* The server.

\* The stateids of c's file belong to a client the server still knows, and c's
\* requests arrive in a session of that client.
Attached(c) ==
    /\ fileid[c] # NoId
    /\ session[c] = fileid[c]
    /\ fileid[c] \in live

Fresh(i) ==
    /\ i \notin live
    /\ \A c \in Conn : fileid[c] # i /\ session[c] # i

Incompatible(m, n) == "write" \in {m, n} /\ "none" \notin {m, n}

\* Some other client holds a lock that denies client i mode m on region r.
Denied(i, r, m) == \E j \in ClientId \ {i} : Incompatible(m, held[j][r])

-----------------------------------------------------------------------------
\* How a call ends and how it goes on.  SQLite takes a level when xLock says
\* SQLITE_OK, and gives a level up whatever xUnlock says.

\* MUTANT the level is recorded though a request failed
ReturnAnyway(c, ok) ==
    /\ pc' = [pc EXCEPT ![c] = "idle"]
    /\ eFileLock' = [eFileLock EXCEPT ![c] = want[c]]
    /\ pager' = [pager EXCEPT ![c] = IF ok \/ pc[c] \in UnlockPc THEN want[c] ELSE @]

\* MUTANT a failed nfs4Unlock has cleared eFileLock before its requests
ReturnCleared(c, ok) ==
    /\ pc' = [pc EXCEPT ![c] = "idle"]
    /\ eFileLock' = [eFileLock EXCEPT ![c] =
                        IF ok THEN want[c] ELSE IF pc[c] \in UnlockPc THEN NO_LOCK ELSE @]
    /\ pager' = [pager EXCEPT ![c] = IF ok \/ pc[c] \in UnlockPc THEN want[c] ELSE @]

Return(c, ok) ==
    /\ pc' = [pc EXCEPT ![c] = "idle"]
    /\ eFileLock' = [eFileLock EXCEPT ![c] = IF ok THEN want[c] ELSE @]
    /\ pager' = [pager EXCEPT ![c] =
                    IF ok \/ pc[c] \in UnlockPc THEN want[c] ELSE @]

Continue(c, step) ==
    /\ pc' = [pc EXCEPT ![c] = step]
    /\ UNCHANGED <<eFileLock, pager>>

\* MUTANT PENDING is dropped before the SHARED range is locked
NextRequestSwapped(c) ==
    CASE pc[c] = "lock_pending" ->
            IF want[c] = SHARED_LOCK THEN "drop_pending" ELSE "lock_upper"
      [] pc[c] = "drop_pending" -> "lock_shared"
      [] pc[c] = "downgrade" -> "unlock_bytes"
      [] pc[c] = "unlock_bytes" ->
            IF want[c] = NO_LOCK THEN "unlock_range" ELSE "idle"
      [] OTHER -> "idle"

\* MUTANT unlocking a writer stops after PENDING and RESERVED
NextRequestShort(c) ==
    CASE pc[c] = "lock_pending" ->
            IF want[c] = SHARED_LOCK THEN "lock_shared" ELSE "lock_upper"
      [] pc[c] = "lock_shared" -> "drop_pending"
      [] pc[c] = "downgrade" -> "unlock_bytes"
      [] OTHER -> "idle"

\* The requests of nfs4Lock, in order: PENDING then SHARED then drop PENDING
\* for a SHARED lock, PENDING then the SHARED range for an EXCLUSIVE lock, the
\* RESERVED byte alone for a RESERVED lock.  nfs4Unlock: back to a read lock
\* when SHARED is kept, then PENDING and RESERVED, then the SHARED range.
NextRequest(c) ==
    CASE pc[c] = "lock_pending" ->
            IF want[c] = SHARED_LOCK THEN "lock_shared" ELSE "lock_upper"
      [] pc[c] = "lock_shared" -> "drop_pending"
      [] pc[c] = "downgrade" -> "unlock_bytes"
      [] pc[c] = "unlock_bytes" ->
            IF want[c] = NO_LOCK THEN "unlock_range" ELSE "idle"
      [] OTHER -> "idle"

Succeed(c) ==
    IF NextRequest(c) = "idle" THEN Return(c, TRUE) ELSE Continue(c, NextRequest(c))

Fail(c) == Return(c, FALSE)

\* MUTANT an EXCLUSIVE lock is taken on the RESERVED byte
RegionsReservedOnly(c) ==
    CASE pc[c] \in {"lock_pending", "drop_pending"} -> {"PENDING"}
      [] pc[c] = "lock_upper" -> {"RESERVED"}
      [] pc[c] = "unlock_bytes" -> {"PENDING", "RESERVED"}
      [] OTHER -> {"SHARED"}

\* MUTANT l_len stays 1 when PENDING and RESERVED are released together
RegionsOneByte(c) ==
    CASE pc[c] \in {"lock_pending", "drop_pending", "unlock_bytes"} -> {"PENDING"}
      [] pc[c] = "lock_upper" /\ want[c] = RESERVED_LOCK -> {"RESERVED"}
      [] OTHER -> {"SHARED"}

\* What the request at pc[c] asks of the server: regions and mode.
Regions(c) ==
    CASE pc[c] \in {"lock_pending", "drop_pending"} -> {"PENDING"}
      [] pc[c] = "lock_upper" /\ want[c] = RESERVED_LOCK -> {"RESERVED"}
      [] pc[c] = "unlock_bytes" -> {"PENDING", "RESERVED"}
      [] OTHER -> {"SHARED"}

\* MUTANT l_type is not set for a RESERVED lock
LockModeUnset(c) ==
    IF want[c] = SHARED_LOCK THEN "read"
    ELSE IF want[c] = RESERVED_LOCK THEN "unset" ELSE "write"

\* MUTANT a RESERVED lock is taken for reading
LockModeRead(c) ==
    IF want[c] \in {SHARED_LOCK, RESERVED_LOCK} THEN "read" ELSE "write"

LockMode(c) ==
    IF want[c] = SHARED_LOCK THEN "read" ELSE "write"

IsLock(c)   == pc[c] \in {"lock_pending", "lock_shared", "lock_upper", "downgrade"}
IsUnlock(c) == pc[c] \in {"drop_pending", "unlock_bytes", "unlock_range"}

Mark(c) ==
    held' = [held EXCEPT ![fileid[c]] =
                [r \in Region |-> IF r \in Regions(c)
                                  THEN IF IsLock(c) THEN LockMode(c) ELSE "none"
                                  ELSE @[r]]]

\* The server can execute the request.  LOCK names the open stateid and a new
\* lock owner, LOCKU the last lock stateid.
Executable(c) ==
    /\ Attached(c)
    /\ IsLock(c) => \A r \in Regions(c) : ~Denied(fileid[c], r, LockMode(c))
    /\ IsUnlock(c) => latest[c] = "current"

-----------------------------------------------------------------------------
\* A request and its outcomes.

\* nfs4Unlock assigns l_type only above SHARED: from SHARED to NO_LOCK the LOCKU carries
\* what the local variable holds.
Untyped(c) == pc[c] = "unlock_range" /\ eFileLock[c] = SHARED_LOCK

\* The server executes the request and the reply arrives: latest_sid is the
\* stateid of that reply.
Executed(c) ==
    /\ pc[c] # "idle"
    /\ Executable(c)
    /\ Mark(c)
    /\ latest' = [latest EXCEPT ![c] = "current"]
    /\ Succeed(c)
    /\ UNCHANGED <<want, fileid, session, live>>

\* The server answers with an error: the call returns it at once, and whatever
\* the call has locked before stays locked.
Refused(c) ==
    /\ pc[c] # "idle"
    /\ \/ ~Executable(c)
       \/ IsLock(c) /\ "refuse_lock" \in Fault
       \/ IsUnlock(c) /\ "refuse_unlock" \in Fault
       \/ Untyped(c) /\ "untyped_unlock" \in Fault
    /\ Fail(c)
    /\ UNCHANGED <<want, fileid, session, latest, live, held>>

\* The request is executed, or not, and no reply arrives.  transact() makes a
\* new client id and session and replays the request, whose stateids are those
\* of the old client.  (The new client id stays out of the model until a file
\* is opened under it.)
Severed(c) ==
    /\ pc[c] # "idle"
    /\ "sever" \in Fault \/ session[c] \notin live
    /\ \/ Executable(c) /\ Mark(c)
       \/ UNCHANGED held
    /\ session' = [session EXCEPT ![c] = NoId]
    /\ Fail(c)
    /\ UNCHANGED <<want, fileid, latest, live>>

\* The request is executed and no reply arrives, and transact() connects but
\* gets no further than EXCHANGE_ID: later requests go on in the old session,
\* without the lock stateid the server has moved to.
ReplyLost(c) ==
    /\ pc[c] # "idle"
    /\ "lost_reply" \in Fault
    /\ Executable(c)
    /\ Mark(c)
    /\ latest' = [latest EXCEPT ![c] = IF @ = "open" THEN @ ELSE "stale"]
    /\ Fail(c)
    /\ UNCHANGED <<want, fileid, session, live>>

-----------------------------------------------------------------------------
\* The calls SQLite makes.

\* The pager asks for SHARED first, then for RESERVED and EXCLUSIVE; it asks
\* for EXCLUSIVE right after SHARED to roll back a hot journal.  It asks the
\* VFS for a level it does not hold itself.
Requests(c) ==
    CASE pager[c] = NO_LOCK -> {SHARED_LOCK}
      [] pager[c] = SHARED_LOCK -> {RESERVED_LOCK, EXCLUSIVE_LOCK}
      [] pager[c] = RESERVED_LOCK -> {EXCLUSIVE_LOCK}
      [] OTHER -> {}

Lock(c, l) ==
    /\ pc[c] = "idle"
    /\ fileid[c] # NoId
    /\ l \in Requests(c)
    /\ IF eFileLock[c] >= l
       THEN /\ pager' = [pager EXCEPT ![c] = l]
            /\ UNCHANGED <<pc, want>>
       ELSE /\ want' = [want EXCEPT ![c] = l]
            /\ pc' = [pc EXCEPT ![c] =
                  IF l = SHARED_LOCK \/ (l = EXCLUSIVE_LOCK /\ eFileLock[c] < PENDING_LOCK)
                  THEN "lock_pending" ELSE "lock_upper"]
            /\ UNCHANGED pager
    /\ UNCHANGED <<eFileLock, fileid, session, latest, live, held>>

\* The pager lowers its level after a transaction, and calls for NO_LOCK also
\* when it holds nothing, e.g. after a SHARED lock was refused.
Unlock(c, l) ==
    /\ pc[c] = "idle"
    /\ fileid[c] # NoId
    /\ l = NO_LOCK \/ (l = SHARED_LOCK /\ pager[c] > SHARED_LOCK)
    /\ IF eFileLock[c] <= l
       THEN /\ pager' = [pager EXCEPT ![c] = l]
            /\ UNCHANGED <<pc, want>>
       ELSE /\ want' = [want EXCEPT ![c] = l]
            /\ pc' = [pc EXCEPT ![c] =
                  IF eFileLock[c] <= SHARED_LOCK THEN "unlock_range"
                  ELSE IF l = SHARED_LOCK THEN "downgrade" ELSE "unlock_bytes"]
            /\ UNCHANGED pager
    /\ UNCHANGED <<eFileLock, fileid, session, latest, live, held>>

\* nfs4Open.  The first OPEN of a process, or the one after its client was
\* lost, runs under a client id of its own.
Open(c) ==
    /\ fileid[c] = NoId
    /\ \/ /\ session[c] = NoId
          /\ \E i \in ClientId :
                /\ Fresh(i)
                /\ session' = [session EXCEPT ![c] = i]
                /\ fileid' = [fileid EXCEPT ![c] = i]
                /\ live' = live \union {i}
       \/ /\ session[c] \in live
          /\ fileid' = [fileid EXCEPT ![c] = session[c]]
          /\ UNCHANGED <<session, live>>
    /\ latest' = [latest EXCEPT ![c] = "open"]
    /\ eFileLock' = [eFileLock EXCEPT ![c] = NO_LOCK]
    /\ UNCHANGED <<pager, pc, want, held>>

\* nfs4Close, after the pager has let go of its lock: file_close() sends
\* nothing, the server keeps the open and its locks.
Close(c) ==
    /\ pc[c] = "idle"
    /\ fileid[c] # NoId
    /\ pager[c] = NO_LOCK
    /\ fileid' = [fileid EXCEPT ![c] = NoId]
    /\ UNCHANGED <<pager, eFileLock, pc, want, session, latest, live, held>>

\* Any other request of the process (READ, WRITE, GETATTR, OPEN ...) loses its
\* connection, or is told that the session is gone.
Reconnect(c) ==
    /\ pc[c] = "idle"
    /\ session[c] # NoId
    /\ "sever" \in Fault \/ session[c] \notin live
    /\ session' = [session EXCEPT ![c] = NoId]
    /\ UNCHANGED <<pager, eFileLock, pc, want, fileid, latest, live, held>>

Crash(c) ==
    /\ "crash" \in Fault
    /\ pager' = [pager EXCEPT ![c] = NO_LOCK]
    /\ eFileLock' = [eFileLock EXCEPT ![c] = NO_LOCK]
    /\ pc' = [pc EXCEPT ![c] = "idle"]
    /\ fileid' = [fileid EXCEPT ![c] = NoId]
    /\ session' = [session EXCEPT ![c] = NoId]
    /\ UNCHANGED <<want, latest, live, held>>

\* The server forgets a client: its lease ran out, as nothing renews it between
\* calls, or a process with the same co_ownerid and another verifier came along.
Expire(i) ==
    /\ "expire" \in Fault
    /\ i \in live
    /\ live' = live \ {i}
    /\ held' = [held EXCEPT ![i] = NoLocks]
    /\ UNCHANGED <<pager, eFileLock, pc, want, fileid, session, latest>>

Next ==
    \/ \E c \in Conn :
          \/ Executed(c) \/ Refused(c) \/ Severed(c) \/ ReplyLost(c)
          \/ Open(c) \/ Close(c) \/ Reconnect(c) \/ Crash(c)
          \/ \E l \in Level : Lock(c, l) \/ Unlock(c, l)
    \/ \E i \in ClientId : Expire(i)

Spec == Init /\ [][Next]_vars

-----------------------------------------------------------------------------
\* Properties.

\* c can read or write the file now: its stateid is accepted and no call of it
\* is under way.
CanUse(c) == pc[c] = "idle" /\ Attached(c) /\ latest[c] # "stale"

\* The level the server really keeps for c.
Granted(c) ==
    LET has == held[fileid[c]] IN
    IF ~Attached(c) \/ has["SHARED"] = "none" THEN NO_LOCK
    ELSE IF has["SHARED"] = "write" THEN EXCLUSIVE_LOCK
    ELSE IF has["RESERVED"] = "write" THEN RESERVED_LOCK
    ELSE SHARED_LOCK

\* While a connection may write the database, no other one may read it.  Two
\* processes have to interleave several requests of nfs4Lock and nfs4Unlock to
\* break this.
MutualExclusion ==
    \A c, d \in Conn : c # d /\ CanUse(c) /\ CanUse(d) =>
        (pager[c] = EXCLUSIVE_LOCK => pager[d] = NO_LOCK)

\* Two connections never prepare a write transaction at the same time.
SingleWriter ==
    \A c, d \in Conn : c # d /\ CanUse(c) /\ CanUse(d) =>
        ~(pager[c] > SHARED_LOCK /\ pager[d] > SHARED_LOCK)

\* What SQLite believes it holds, the server has granted, as long as the server
\* accepts the file's stateids at all; the early return of nfs4Lock relies on it.
Honest ==
    \A c \in Conn : pc[c] = "idle" /\ Attached(c) => pager[c] <= Granted(c)

\* After any call, also one that failed half way, the server keeps no lock
\* above the recorded level on RESERVED and SHARED: nobody is shut out by a
\* lock its owner has forgotten and will never release.
NoOrphanLock ==
    \A c \in Conn : pc[c] = "idle" /\ Attached(c) =>
        /\ eFileLock[c] = NO_LOCK => held[fileid[c]]["SHARED"] = "none"
        /\ eFileLock[c] < RESERVED_LOCK => held[fileid[c]]["RESERVED"] = "none"

\* The three assertions at the head of nfs4Lock hold for every request the
\* pager can make, even after calls that failed and left eFileLock behind.
AssertionsHold ==
    \A c \in Conn : pc[c] = "idle" /\ fileid[c] # NoId =>
        \A l \in Requests(c) : eFileLock[c] < l =>
            /\ eFileLock[c] # NO_LOCK \/ l = SHARED_LOCK
            /\ l # PENDING_LOCK
            /\ l # RESERVED_LOCK \/ eFileLock[c] = SHARED_LOCK

\* A writer that holds PENDING is not starved: while it does, no other client
\* gets a first lock on the SHARED range.
PendingBarsReaders ==
    [][\A i, j \in ClientId :
          (i # j /\ held[i]["PENDING"] = "write" /\ held[j]["SHARED"] = "none")
             => held'[j]["SHARED"] = "none"]_vars

\* The levels the server really keeps behave as SQLite's lock model asks,
\* whatever fails.
Abstract == INSTANCE SqliteLock WITH level <- [c \in Conn |-> Granted(c)]
Implements == Abstract!Spec

-----------------------------------------------------------------------------
\* Why they hold while no LOCKU with a lock type is refused and no reply is lost in
\* a session that goes on: the inductive invariant.

Reliable == "refuse_unlock" \notin Fault /\ "lost_reply" \notin Fault

\* What l_type happens to hold is a lock type.
Typed == "untyped_unlock" \notin Fault

\* No two processes share a client id.
IdsDistinct ==
    \A c, d \in Conn : \A i \in ClientId :
        i \in {fileid[c], session[c]} /\ i \in {fileid[d], session[d]} => c = d

HeldCompatible ==
    \A i, j \in ClientId : i # j =>
        \A r \in Region : ~Incompatible(held[i][r], held[j][r])

DeadHoldNothing == \A i \in ClientId \ live : held[i] = NoLocks

\* The states of the call interface, with or without a usable server: the
\* request a call has come to fits what it was asked for and eFileLock.
CallOK(c) ==
    /\ fileid[c] = NoId => pc[c] = "idle" /\ pager[c] = NO_LOCK
    /\ fileid[c] # NoId =>
          /\ session[c] \in {NoId, fileid[c]}
          /\ pager[c] <= eFileLock[c]
    /\ pc[c] = "lock_pending" =>
          \/ want[c] = SHARED_LOCK /\ eFileLock[c] = NO_LOCK
          \/ want[c] = EXCLUSIVE_LOCK /\ eFileLock[c] \in {SHARED_LOCK, RESERVED_LOCK}
    /\ pc[c] \in {"lock_shared", "drop_pending"} =>
          want[c] = SHARED_LOCK /\ eFileLock[c] = NO_LOCK
    /\ pc[c] = "lock_upper" =>
          \/ want[c] = RESERVED_LOCK /\ eFileLock[c] = SHARED_LOCK
          \/ want[c] = EXCLUSIVE_LOCK /\ eFileLock[c] \in {SHARED_LOCK, RESERVED_LOCK}
    /\ pc[c] = "downgrade" =>
          want[c] = SHARED_LOCK /\ eFileLock[c] \in {RESERVED_LOCK, EXCLUSIVE_LOCK}
    /\ pc[c] = "unlock_bytes" =>
          /\ want[c] \in {NO_LOCK, SHARED_LOCK}
          /\ eFileLock[c] \in {RESERVED_LOCK, EXCLUSIVE_LOCK}
    /\ pc[c] = "unlock_range" =>
          want[c] = NO_LOCK /\ eFileLock[c] # NO_LOCK

\* The locks of client i are those of level l.  A file closed after an untyped LOCKU
\* was refused has left its read lock.
Holds(i, l) ==
    /\ l = NO_LOCK => held[i]["SHARED"] = "none" \/ (~Typed /\ held[i]["SHARED"] = "read")
    /\ l \in {SHARED_LOCK, RESERVED_LOCK} => held[i]["SHARED"] = "read"
    /\ l = EXCLUSIVE_LOCK => held[i]["SHARED"] = "write"
    /\ l \in {NO_LOCK, SHARED_LOCK} => held[i]["RESERVED"] = "none"
    /\ l = RESERVED_LOCK => held[i]["RESERVED"] = "write"

\* The server's table between the requests of a call.
ServerOK(c) ==
    /\ Attached(c) =>
          /\ pager[c] = NO_LOCK =>
                eFileLock[c] = NO_LOCK \/ (~Typed /\ eFileLock[c] = SHARED_LOCK)
          /\ eFileLock[c] # NO_LOCK \/ pc[c] = "drop_pending" => latest[c] = "current"
          /\ \/ pc[c] \in {"idle", "lock_pending", "lock_shared", "lock_upper", "downgrade"}
             \/ pc[c] = "unlock_bytes" /\ want[c] = NO_LOCK
             \/ Untyped(c)
             => Holds(fileid[c], eFileLock[c])
          /\ pc[c] = "lock_shared" => held[fileid[c]]["PENDING"] # "none"
          /\ pc[c] = "drop_pending" => Holds(fileid[c], SHARED_LOCK)
          /\ pc[c] = "unlock_bytes" /\ want[c] = SHARED_LOCK =>
                held[fileid[c]]["SHARED"] = "read"
          /\ pc[c] = "unlock_range" => held[fileid[c]]["RESERVED"] = "none"
    /\ fileid[c] = NoId /\ session[c] \in live => Holds(session[c], NO_LOCK)

IInv ==
    /\ TypeOK
    /\ IdsDistinct
    /\ HeldCompatible
    /\ DeadHoldNothing
    /\ \A c \in Conn : CallOK(c) /\ ServerOK(c)

-----------------------------------------------------------------------------
\* What the comments of nfs4.c promise and the code does not keep.

\* nfs4.c:172 "A PENDING lock is needed before acquiring a SHARED lock [...].
\* For the SHARED lock, the PENDING will be released."
PendingReleased ==
    \A c \in Conn : pc[c] = "idle" /\ Attached(c) =>
        held[fileid[c]]["PENDING"] # "read"

\* nfs4.c:155 "If there is already a lock of this type or more restrictive on the
\* unixFile, do nothing": a recorded lock is on the file.
RecordedHeld ==
    \A c \in Conn : pc[c] = "idle" /\ Attached(c) => eFileLock[c] <= Granted(c)
=============================================================================
