---------------------------- MODULE JournalProofs ----------------------------
(***************************************************************************)
(* The theorems about Journal, for any number of connections, of pages and *)
(* of transactions, under every fault.                                     *)
(***************************************************************************)
EXTENDS Journal, TLAPS

-----------------------------------------------------------------------------
\* A database is a function from some pages to transactions.
LEMMA DatabaseHas ==
    ASSUME NEW d \in Database
    PROVE  /\ DOMAIN d \subseteq Page
           /\ d \in [DOMAIN d -> Tx]
           /\ \A p \in DOMAIN d : d[p] \in Tx
BY DEF Database

LEMMA DatabaseIs ==
    ASSUME NEW s \in SUBSET Page, NEW d \in [s -> Tx]
    PROVE  d \in Database
BY DEF Database

LEMMA NoJournalType == NoJournal \in JournalFile /\ NoJournal.saved \subseteq DOMAIN NoJournal.orig
<1>1. <<>> \in [{} -> Tx]
  OBVIOUS
<1>2. <<>> \in Database
  BY <1>1, DatabaseIs
<1>. QED
  BY <1>2 DEF NoJournal, JournalFile

\* Giving up a lock, a transaction, a client.
LEMMA LeaveType ==
    ASSUME TypeOK, NEW c \in Conn, Leave(c)
    PROVE  /\ level' \in [Conn -> Lk!Level]
           /\ phase' \in [Conn -> {"idle", "crashed"} \union ReadPhase \union WritePhase]
           /\ todo' \in [Conn -> SUBSET Page]
           /\ tx' \in [Conn -> [id : Tx, pages : SUBSET Page]]
BY BoundAssumption DEF TypeOK, Leave, GoTo, Forget, NoTx, Tx, Lk!Level, Lk!NO_LOCK

LEMMA ReconnectedType ==
    ASSUME TypeOK, NEW c \in Conn, Reconnected(c)
    PROVE  client' \in [Conn -> {"ok", "dead", "stale"}]
BY DEF TypeOK, Reconnected

LEMMA AccessType ==
    ASSUME TypeOK, NEW c \in Conn, NEW answer \in BOOLEAN, Access(c, answer)
    PROVE  /\ client' \in [Conn -> {"ok", "dead", "stale"}]
           /\ swallowed' \subseteq {"access", "remove", "late"}
BY ReconnectedType DEF TypeOK, Access

LEMMA DeleteType ==
    ASSUME TypeOK, NEW c \in Conn, Delete(c)
    PROVE  /\ client' \in [Conn -> {"ok", "dead", "stale"}]
           /\ swallowed' \subseteq {"access", "remove", "late"}
           /\ jrnl' \in JournalFile /\ jrnl'.saved \subseteq DOMAIN jrnl'.orig
           /\ late' \subseteq Conn
BY ReconnectedType, NoJournalType DEF TypeOK, Delete, Remove

LEMMA GiveUpType ==
    ASSUME TypeOK, NEW c \in Conn, GiveUp(c)
    PROVE  TypeOK'
BY LeaveType, ReconnectedType DEF TypeOK, GiveUp, files

\* Each action keeps the types.  Save and Restore need to know whose journal it is.
LEMMA TypeStep ==
    ASSUME TypeOK, FilesOK, [Next]_vars
    PROVE  TypeOK'
<1>. USE DEF ReadPhase, WritePhase, Lk!Level, Lk!NO_LOCK, Lk!SHARED_LOCK, Lk!RESERVED_LOCK,
            Lk!EXCLUSIVE_LOCK, files
<1>1. ASSUME NEW c \in Conn, Begin(c) PROVE TypeOK'
  BY <1>1 DEF TypeOK, Begin, Lk!Share, GoTo
<1>2. ASSUME NEW c \in Conn, Check(c) PROVE TypeOK'
  BY <1>2, AccessType DEF TypeOK, Check, GoTo
<1>3. ASSUME NEW c \in Conn, Peek(c) PROVE TypeOK'
  BY <1>3 DEF TypeOK, Peek, GoTo
<1>4. ASSUME NEW c \in Conn, GiveUp(c) PROVE TypeOK'
  BY <1>4, GiveUpType
<1>5. ASSUME NEW c \in Conn, Exclude(c) PROVE TypeOK'
  <2>1. todo' \in [Conn -> SUBSET Page]
    BY <1>5 DEF TypeOK, Exclude
  <2>2. phase' \in [Conn -> {"idle", "crashed"} \union ReadPhase \union WritePhase]
    BY <1>5 DEF TypeOK, Exclude, GoTo
  <2>. QED
    BY <1>5, <2>1, <2>2 DEF TypeOK, Exclude, Lk!Exclude
<1>6. ASSUME NEW c \in Conn, Recheck(c) PROVE TypeOK'
  <2>1. PICK answer \in BOOLEAN : Access(c, answer)
    BY <1>6 DEF Recheck
  <2>2. todo' \in [Conn -> SUBSET Page]
    BY <1>6, DatabaseHas DEF TypeOK, Recheck, JournalFile
  <2>3. level' \in [Conn -> Lk!Level]
    BY <1>6 DEF TypeOK, Recheck
  <2>4. phase' \in [Conn -> {"idle", "crashed"} \union ReadPhase \union WritePhase]
    BY <1>6 DEF TypeOK, Recheck, GoTo
  <2>. QED
    BY <1>6, <2>1, <2>2, <2>3, <2>4, AccessType DEF TypeOK, Recheck
<1>7. ASSUME NEW c \in Conn, Truncate(c) PROVE TypeOK'
  BY <1>7 DEF TypeOK, Truncate, GoTo
<1>8. ASSUME NEW c \in Conn, Restore(c) PROVE TypeOK'
  <2>1. PICK p \in todo[c] : /\ db' = [db EXCEPT ![p] = jrnl.orig[p]]
                             /\ todo' = [todo EXCEPT ![c] = @ \ {p}]
    BY <1>8 DEF Restore
  <2>2. p \in DOMAIN jrnl.orig
    BY <1>8, <2>1 DEF Restore, FileRequestOK, FilesOK, AtWork, Restoring, TypeOK
  <2>3. jrnl.orig[p] \in Tx
    BY <2>2, DatabaseHas DEF TypeOK, JournalFile
  <2>4. db' \in [DOMAIN db -> Tx] /\ DOMAIN db \in SUBSET Page
    BY <2>1, <2>3, DatabaseHas DEF TypeOK
  <2>5. db' \in Database
    BY <2>4, DatabaseIs
  <2>. QED
    BY <1>8, <2>1, <2>5 DEF TypeOK, Restore
<1>9. ASSUME NEW c \in Conn, Restored(c) PROVE TypeOK'
  BY <1>9 DEF TypeOK, Restored, GoTo
<1>10. ASSUME NEW c \in Conn, Drop(c) PROVE TypeOK'
  <2>1. level' \in [Conn -> Lk!Level]
    BY <1>10 DEF TypeOK, Drop
  <2>2. phase' \in [Conn -> {"idle", "crashed"} \union ReadPhase \union WritePhase]
    BY <1>10 DEF TypeOK, Drop, GoTo
  <2>. QED
    BY <1>10, <2>1, <2>2, DeleteType DEF TypeOK, Drop
<1>11. ASSUME NEW c \in Conn, BeginWrite(c) PROVE TypeOK'
  <2>1. begun' \in Tx
    BY <1>11, BoundAssumption DEF TypeOK, BeginWrite, Tx
  <2>2. tx' \in [Conn -> [id : Tx, pages : SUBSET Page]]
    BY <1>11, <2>1, DatabaseHas DEF TypeOK, BeginWrite
  <2>. QED
    BY <1>11, <2>1, <2>2 DEF TypeOK, BeginWrite, Lk!Reserve, GoTo
<1>12. ASSUME NEW c \in Conn, OpenJournal(c) PROVE TypeOK'
  <2>1. jrnl' \in JournalFile /\ jrnl'.saved \subseteq DOMAIN jrnl'.orig
    BY <1>12, NoJournalType DEF TypeOK, OpenJournal, JournalFile
  <2>. QED
    BY <1>12, <2>1 DEF TypeOK, OpenJournal, GoTo
<1>13. ASSUME NEW c \in Conn, Header(c) PROVE TypeOK'
  <2>1. jrnl' \in JournalFile /\ jrnl'.saved \subseteq DOMAIN jrnl'.orig
    BY <1>13 DEF TypeOK, Header, JournalFile
  <2>2. todo' \in [Conn -> SUBSET Page]
    BY <1>13 DEF TypeOK, Header, PagesToSave
  <2>. QED
    BY <1>13, <2>1, <2>2 DEF TypeOK, Header, GoTo
<1>14. ASSUME NEW c \in Conn, Save(c) PROVE TypeOK'
  <2>1. CASE todo[c] = {}
    BY <1>14, <2>1 DEF TypeOK, Save, GoTo
  <2>2. CASE todo[c] # {}
    <3>1. PICK p \in todo[c] : /\ jrnl' = [jrnl EXCEPT !.saved = @ \union {p}]
                               /\ todo' = [todo EXCEPT ![c] = @ \ {p}]
                               /\ UNCHANGED phase
      BY <1>14, <2>2 DEF Save
    <3>2. p \in DOMAIN jrnl.orig /\ p \in Page
      BY <1>14, <3>1 DEF Save, FileRequestOK, FilesOK, AtWork, Saving, OldPages, TypeOK
    <3>3. jrnl' \in JournalFile /\ jrnl'.saved \subseteq DOMAIN jrnl'.orig
      BY <3>1, <3>2 DEF TypeOK, JournalFile
    <3>. QED
      BY <1>14, <3>1, <3>3 DEF TypeOK, Save
  <2>. QED
    BY <2>1, <2>2
<1>15. ASSUME NEW c \in Conn, Sync(c) PROVE TypeOK'
  BY <1>15 DEF TypeOK, Sync, JournalFile, GoTo
<1>16. ASSUME NEW c \in Conn, CallOff(c) PROVE TypeOK'
  BY <1>16 DEF TypeOK, CallOff, GoTo
<1>17. ASSUME NEW c \in Conn, Abort(c) \/ Commit(c) PROVE TypeOK'
  BY <1>17, DeleteType, LeaveType DEF TypeOK, Abort, Commit
<1>18. ASSUME NEW c \in Conn, Write(c) PROVE TypeOK'
  <2>1. CASE todo[c] = {}
    BY <1>18, <2>1 DEF TypeOK, Write, GoTo
  <2>2. CASE todo[c] # {}
    <3>1. PICK p \in todo[c] :
             /\ db' = [q \in DOMAIN db \union {p} |-> IF q = p THEN tx[c].id ELSE db[q]]
             /\ todo' = [todo EXCEPT ![c] = @ \ {p}]
             /\ UNCHANGED phase
      BY <1>18, <2>2 DEF Write
    <3>2. p \in Page /\ tx[c].id \in Tx
      BY <3>1 DEF TypeOK
    <3>3. db' \in [DOMAIN db \union {p} -> Tx] /\ DOMAIN db \union {p} \in SUBSET Page
      BY <3>1, <3>2, DatabaseHas DEF TypeOK
    <3>4. db' \in Database
      BY <3>3, DatabaseIs
    <3>. QED
      BY <1>18, <3>1, <3>4 DEF TypeOK, Write
  <2>. QED
    BY <2>1, <2>2
<1>19. ASSUME NEW c \in Conn, WriteFails(c) PROVE TypeOK'
  <2>1. jrnl.saved \in SUBSET Page
    BY DEF TypeOK, JournalFile
  <2>. QED
    BY <1>19, <2>1, ReconnectedType DEF TypeOK, WriteFails, GoTo
<1>20. ASSUME NEW c \in Conn, Expire(c) PROVE TypeOK'
  BY <1>20 DEF TypeOK, Expire
<1>21. ASSUME NEW c \in Conn, Crash(c) PROVE TypeOK'
  BY <1>21, BoundAssumption DEF TypeOK, Crash, GoTo, Forget, NoTx, Tx
<1>22. ASSUME NEW c \in Conn, Reopen(c) PROVE TypeOK'
  BY <1>22 DEF TypeOK, Reopen, GoTo
<1>23. CASE RemoveLate
  BY <1>23 DEF TypeOK, RemoveLate, JournalFile
<1>24. CASE UNCHANGED vars
  BY <1>24 DEF TypeOK, vars
<1>. QED
  BY <1>1, <1>2, <1>3, <1>4, <1>5, <1>6, <1>7, <1>8, <1>9, <1>10, <1>11, <1>12, <1>13, <1>14,
     <1>15, <1>16, <1>17, <1>18, <1>19, <1>20, <1>21, <1>22, <1>23, <1>24
     DEF Next, PeekFails, UpgradeFails, TruncateFails, RestoreFails, EndRead, JournalFails

-----------------------------------------------------------------------------
\* Locks.  A client the server does not know any more has none, so a request that is
\* refused or a name that cannot be resolved comes from one without a lock.

LEMMA KeepsExclusion ==
    ASSUME TypeOK, Lk!Exclusion, NEW c \in Conn,
           \/ level' = level
           \/ Lk!Share(c)
           \/ Lk!Reserve(c)
           \/ Lk!Exclude(c)
           \/ \E l \in Lk!Level : l <= level[c] /\ level' = [level EXCEPT ![c] = l]
    PROVE  Lk!Exclusion'
<1>. USE DEF TypeOK, Lk!Exclusion, Lk!Level, Lk!NO_LOCK, Lk!SHARED_LOCK, Lk!RESERVED_LOCK,
            Lk!EXCLUSIVE_LOCK
<1>1. CASE level' = level
  BY <1>1
<1>2. CASE Lk!Share(c)
  BY <1>2 DEF Lk!Share
<1>3. CASE Lk!Reserve(c)
  BY <1>3 DEF Lk!Reserve
<1>4. CASE Lk!Exclude(c)
  BY <1>4 DEF Lk!Exclude
<1>5. ASSUME NEW l \in Lk!Level, l <= level[c], level' = [level EXCEPT ![c] = l]
      PROVE  Lk!Exclusion'
  BY <1>5
<1>. QED
  BY <1>1, <1>2, <1>3, <1>4, <1>5

\* The lock of one connection fits its phase.
LockFits(c) ==
    /\ level[c] \in IF client[c] = "ok" THEN PhaseLevel(phase[c]) ELSE {Lk!NO_LOCK}
    /\ client[c] = "stale" =>
           phase[c] \in {"idle", "crashed", "peek", "reading", "truncate"}

\* A step of one connection leaves the others as they are.
OthersStay(c) ==
    \A d \in Conn \ {c} :
        /\ level'[d] = level[d] /\ phase'[d] = phase[d] /\ client'[d] = client[d]
        /\ todo'[d] = todo[d] /\ tx'[d] = tx[d]

LEMMA LocksStep ==
    ASSUME TypeOK, LocksOK, NEW c \in Conn, OthersStay(c), LockFits(c)',
           \/ level' = level
           \/ Lk!Share(c)
           \/ Lk!Reserve(c)
           \/ Lk!Exclude(c)
           \/ \E l \in Lk!Level : l <= level[c] /\ level' = [level EXCEPT ![c] = l]
    PROVE  LocksOK'
<1>1. Lk!Exclusion'
  BY KeepsExclusion DEF LocksOK
<1>2. ASSUME NEW d \in Conn \ {c} PROVE LockFits(d)'
  <2>1. LockFits(d)
    BY DEF LocksOK, LockFits
  <2>2. level'[d] = level[d] /\ phase'[d] = phase[d] /\ client'[d] = client[d]
    BY DEF OthersStay
  <2>. QED
    BY <2>1, <2>2 DEF LockFits, PhaseLevel
<1>3. \A d \in Conn : LockFits(d)'
  BY <1>2
<1>. QED
  BY <1>1, <1>3 DEF LocksOK, LockFits

LEMMA LevelsAre ==
    /\ Lk!Level = {0, 1, 2, 4}
    /\ Lk!NO_LOCK = 0 /\ Lk!SHARED_LOCK = 1 /\ Lk!RESERVED_LOCK = 2 /\ Lk!EXCLUSIVE_LOCK = 4
BY DEF Lk!Level, Lk!NO_LOCK, Lk!SHARED_LOCK, Lk!RESERVED_LOCK, Lk!EXCLUSIVE_LOCK

\* Dropping a lock, or one level, is going down.
LEMMA Lowers ==
    ASSUME TypeOK, NEW c \in Conn
    PROVE  /\ 0 \in Lk!Level /\ 0 <= level[c]
           /\ level[c] # 0 => 1 \in Lk!Level /\ 1 <= level[c]
           /\ level[c] \in Lk!Level
BY LevelsAre DEF TypeOK

LEMMA GiveUpLocks ==
    ASSUME TypeOK, LocksOK, NEW c \in Conn, GiveUp(c)
    PROVE  LocksOK' /\ OthersStay(c)
<1>1. level' = [level EXCEPT ![c] = 0] /\ phase' = [phase EXCEPT ![c] = "idle"]
  BY LevelsAre DEF GiveUp, Leave, GoTo
<1>2. OthersStay(c)
  BY <1>1 DEF TypeOK, OthersStay, GiveUp, Leave, Forget, Reconnected
<1>3. LockFits(c)'
  BY <1>1, LevelsAre DEF TypeOK, LockFits, PhaseLevel
<1>. QED
  BY <1>1, <1>2, <1>3, LocksStep, Lowers

\* Everything a connection does.
Acts(c) ==
    \/ Begin(c) \/ Check(c) \/ Peek(c) \/ PeekFails(c)
    \/ Exclude(c) \/ UpgradeFails(c) \/ Recheck(c)
    \/ Truncate(c) \/ TruncateFails(c)
    \/ Restore(c) \/ Restored(c) \/ RestoreFails(c) \/ Drop(c)
    \/ EndRead(c)
    \/ BeginWrite(c) \/ OpenJournal(c) \/ Header(c) \/ Save(c) \/ Sync(c)
    \/ JournalFails(c) \/ CallOff(c) \/ Abort(c)
    \/ Write(c) \/ WriteFails(c) \/ Commit(c)
    \/ Expire(c) \/ Crash(c) \/ Reopen(c)

\* Each action changes its own connection only.
LEMMA ActsAlone ==
    ASSUME TypeOK, NEW c \in Conn, Acts(c)
    PROVE  OthersStay(c)
<1>. USE DEF TypeOK, OthersStay, GoTo
<1>1. CASE Begin(c) \/ Check(c) \/ Peek(c)
  BY <1>1 DEF Begin, Lk!Share, Check, Peek, Access, Reconnected
<1>2. CASE GiveUp(c)
  BY <1>2 DEF GiveUp, Leave, Forget, Reconnected
<1>3. CASE Exclude(c)
  BY <1>3 DEF Exclude, Lk!Exclude
<1>4. CASE Recheck(c)
  BY <1>4 DEF Recheck, Access, Reconnected
<1>5. CASE Truncate(c) \/ Restore(c) \/ Restored(c)
  BY <1>5 DEF Truncate, Restore, Restored
<1>6. CASE Drop(c)
  BY <1>6 DEF Drop, Delete, Reconnected
<1>7. CASE BeginWrite(c) \/ OpenJournal(c) \/ Header(c) \/ Sync(c) \/ CallOff(c)
  BY <1>7 DEF BeginWrite, Lk!Reserve, OpenJournal, Header, Sync, CallOff
<1>8. CASE Save(c) \/ Write(c)
  BY <1>8 DEF Save, Write
<1>9. CASE Abort(c) \/ Commit(c)
  BY <1>9 DEF Abort, Commit, Leave, Forget, Delete, Reconnected
<1>10. CASE WriteFails(c)
  BY <1>10 DEF WriteFails, Reconnected
<1>11. CASE Expire(c) \/ Crash(c) \/ Reopen(c)
  BY <1>11 DEF Expire, Crash, Reopen, Forget
<1>. QED
  BY <1>1, <1>2, <1>3, <1>4, <1>5, <1>6, <1>7, <1>8, <1>9, <1>10, <1>11
     DEF Acts, PeekFails, UpgradeFails, TruncateFails, RestoreFails, EndRead, JournalFails

LEMMA ActsLocks ==
    ASSUME TypeOK, LocksOK, NEW c \in Conn, Acts(c)
    PROVE  LocksOK'
<1>a. LockFits(c)
  BY DEF LocksOK, LockFits
<1>b. OthersStay(c)
  BY ActsAlone
<1>. USE <1>a, LevelsAre DEF TypeOK, LockFits, PhaseLevel, GoTo
<1>1. CASE Begin(c)
  <2>1. LockFits(c)' /\ Lk!Share(c)
    BY <1>1 DEF Begin, Lk!Share
  <2>. QED
    BY <1>b, <2>1, LocksStep, Lowers
<1>2. CASE Check(c)
  <2>1. LockFits(c)' /\ level' = level
    BY <1>2 DEF Check, Access, Reconnected
  <2>. QED
    BY <1>b, <2>1, LocksStep, Lowers
<1>3. CASE Peek(c)
  <2>1. LockFits(c)' /\ level' = level
    BY <1>3 DEF Peek, FileRequestOK
  <2>. QED
    BY <1>b, <2>1, LocksStep, Lowers
<1>4. CASE GiveUp(c)
  BY <1>4, GiveUpLocks
<1>5. CASE Exclude(c)
  <2>1. LockFits(c)' /\ Lk!Exclude(c)
    BY <1>5 DEF Exclude, FileRequestOK, Lk!Exclude
  <2>. QED
    BY <1>b, <2>1, LocksStep, Lowers
<1>6. CASE Recheck(c)
  <2>1. LockFits(c)' /\ (level' = level \/ (level[c] # 0 /\ level' = [level EXCEPT ![c] = 1]))
    BY <1>6 DEF Recheck, Access, Reconnected
  <2>. QED
    BY <1>b, <2>1, LocksStep, Lowers
<1>7. CASE Truncate(c) \/ Restore(c) \/ Restored(c)
  <2>1. LockFits(c)' /\ level' = level
    BY <1>7 DEF Truncate, Restore, Restored, FileRequestOK
  <2>. QED
    BY <1>b, <2>1, LocksStep, Lowers
<1>8. CASE Drop(c)
  <2>1. LockFits(c)' /\ (level' = level \/ (level[c] # 0 /\ level' = [level EXCEPT ![c] = 1]))
    <3>1. client' = [client EXCEPT ![c] = IF @ = "dead" THEN "stale" ELSE @]
      BY <1>8 DEF Drop, Delete, Reconnected
    <3>2. /\ phase[c] = "drop" /\ phase' = [phase EXCEPT ![c] = "reading"]
          /\ level' = [level EXCEPT ![c] = IF @ = 0 THEN @ ELSE 1]
      BY <1>8 DEF Drop
    <3>3. LockFits(c)'
      BY <3>1, <3>2
    <3>4. CASE level[c] = 0
      BY <3>2, <3>3, <3>4
    <3>5. CASE level[c] # 0
      BY <3>2, <3>3, <3>5
    <3>. QED
      BY <3>4, <3>5
  <2>. QED
    BY <1>b, <2>1, LocksStep, Lowers
<1>9. CASE BeginWrite(c)
  <2>1. LockFits(c)' /\ Lk!Reserve(c)
    BY <1>9 DEF BeginWrite, FileRequestOK, Lk!Reserve
  <2>. QED
    BY <1>b, <2>1, LocksStep, Lowers
<1>10. CASE OpenJournal(c) \/ Header(c) \/ Sync(c) \/ CallOff(c)
  <2>1. LockFits(c)' /\ level' = level
    BY <1>10 DEF OpenJournal, Header, Sync, CallOff, FileRequestOK
  <2>. QED
    BY <1>b, <2>1, LocksStep, Lowers
<1>11. CASE Save(c) \/ Write(c)
  <2>1. LockFits(c)' /\ level' = level
    BY <1>11 DEF Save, Write, FileRequestOK
  <2>. QED
    BY <1>b, <2>1, LocksStep, Lowers
<1>12. CASE Abort(c) \/ Commit(c)
  <2>1. LockFits(c)' /\ level' = [level EXCEPT ![c] = 0]
    BY <1>12 DEF Abort, Commit, Leave, Delete, Reconnected
  <2>. QED
    BY <1>b, <2>1, LocksStep, Lowers
<1>13. CASE WriteFails(c)
  <2>1. LockFits(c)' /\ level' = level
    BY <1>13 DEF WriteFails, Reconnected
  <2>. QED
    BY <1>b, <2>1, LocksStep, Lowers
<1>14. CASE Expire(c)
  <2>1. LockFits(c)' /\ level' = [level EXCEPT ![c] = 0]
    BY <1>14 DEF Expire
  <2>. QED
    BY <1>b, <2>1, LocksStep, Lowers
<1>15. CASE Crash(c) \/ Reopen(c)
  <2>1. LockFits(c)' /\ level' = level
    BY <1>15 DEF Crash, Reopen
  <2>. QED
    BY <1>b, <2>1, LocksStep, Lowers
<1>. QED
  BY <1>1, <1>2, <1>3, <1>4, <1>5, <1>6, <1>7, <1>8, <1>9, <1>10, <1>11, <1>12, <1>13, <1>14,
     <1>15
     DEF Acts, PeekFails, UpgradeFails, TruncateFails, RestoreFails, EndRead, JournalFails

-----------------------------------------------------------------------------
\* Files.  Only one connection can be at work with them.

\* A connection that works at the files is the only one that does, and when it writes
\* the database nobody else reads.
LEMMA AtWorkAlone ==
    ASSUME TypeOK, LocksOK, NEW c \in Conn, level[c] > Lk!SHARED_LOCK,
           NEW d \in Conn \ {c}, client[d] = "ok"
    PROVE  /\ phase[d] \in {"idle", "crashed", "check", "peek", "upgrade", "reading"}
           /\ level[c] = Lk!EXCLUSIVE_LOCK => phase[d] # "reading"
<1>1. level[d] \in PhaseLevel(phase[d]) /\ level[c] \in {0, 1, 2, 4}
  BY LevelsAre DEF TypeOK, LocksOK
<1>2. level[d] \in {0, 1} /\ (level[c] = 4 => level[d] = 0)
  BY LevelsAre DEF TypeOK, LocksOK, Lk!Exclusion
<1>. QED
  BY <1>1, <1>2, LevelsAre DEF TypeOK, PhaseLevel, ReadPhase, WritePhase

\* The level of one that works at the files.
LEMMA WorkerLevel ==
    ASSUME TypeOK, LocksOK, NEW c \in Conn, client[c] # "dead"
    PROVE  /\ phase[c] \in {"open", "header", "save", "sync", "escalate", "abort"}
                  => client[c] = "ok" /\ level[c] = Lk!RESERVED_LOCK
           /\ phase[c] \in {"playback", "drop", "write", "commit"}
                  => client[c] = "ok" /\ level[c] = Lk!EXCLUSIVE_LOCK
BY LevelsAre DEF TypeOK, LocksOK, PhaseLevel

LEMMA FilesKept ==
    ASSUME TypeOK, FilesOK, NEW c \in Conn, OthersStay(c), UNCHANGED files,
           client'[c] = "ok" => AtWork(c)'
    PROVE  FilesOK'
<1>1. ASSUME NEW d \in Conn \ {c}, client'[d] = "ok" PROVE AtWork(d)'
  <2>1. AtWork(d)
    BY <1>1 DEF OthersStay, FilesOK
  <2>2. /\ phase'[d] = phase[d] /\ todo'[d] = todo[d] /\ tx'[d] = tx[d]
        /\ db' = db /\ jrnl' = jrnl
    BY DEF OthersStay, files
  <2>. QED
    BY <2>1, <2>2
       DEF AtWork, Saving, Saved, Writing, Restoring, OldPages, HalfWritten
<1>. QED
  BY <1>1 DEF FilesOK, files

LEMMA FilesChanged ==
    ASSUME TypeOK, LocksOK, NEW c \in Conn, OthersStay(c), level[c] > Lk!SHARED_LOCK,
           client'[c] = "ok" => AtWork(c)',
           DOMAIN jrnl'.orig \subseteq DOMAIN db'
    PROVE  FilesOK'
<1>1. ASSUME NEW d \in Conn \ {c}, client'[d] = "ok" PROVE AtWork(d)'
  <2>1. phase'[d] \in {"idle", "crashed", "check", "peek", "upgrade", "reading"}
    BY <1>1, AtWorkAlone DEF OthersStay
  <2>. QED
    BY <2>1 DEF AtWork
<1>. QED
  BY <1>1 DEF FilesOK

\* Most phases ask nothing of the files.
LEMMA Bystander ==
    ASSUME NEW c \in Conn,
           phase'[c] \in {"idle", "crashed", "check", "peek", "upgrade", "recheck", "reading",
                          "open", "header"}
    PROVE  AtWork(c)'
BY DEF AtWork

\* nfs4Delete: the journal is gone, and its connection held a lock for it, or nothing
\* has changed.
LEMMA DeleteEffect ==
    ASSUME TypeOK, LocksOK, NEW c \in Conn, Delete(c), phase[c] \in {"drop", "abort", "commit"}
    PROVE  \/ /\ jrnl' = NoJournal /\ client[c] = "ok" /\ level[c] > Lk!SHARED_LOCK
              /\ swallowed' = swallowed
           \/ jrnl' = jrnl /\ swallowed' = swallowed \union {"remove"}
BY WorkerLevel, LevelsAre DEF Delete, Remove, NameRequestOK

LEMMA DeleteFiles ==
    ASSUME TypeOK, LocksOK, FilesOK, NEW c \in Conn, Delete(c), db' = db, OthersStay(c),
           phase[c] \in {"drop", "abort", "commit"}, phase'[c] \in {"reading", "idle"}
    PROVE  FilesOK'
<1>1. AtWork(c)'
  BY Bystander
<1>2. CASE jrnl' = jrnl
  BY <1>1, <1>2, FilesKept DEF files
<1>3. CASE jrnl' = NoJournal /\ level[c] > Lk!SHARED_LOCK
  <2>1. DOMAIN jrnl'.orig \subseteq DOMAIN db'
    BY <1>3 DEF NoJournal
  <2>. QED
    BY <1>1, <1>3, <2>1, FilesChanged
<1>. QED
  BY <1>2, <1>3, DeleteEffect

\* The writer starts on a database that is not written at all...
LEMMA StartsWriting ==
    ASSUME TypeOK, NEW c \in Conn, phase[c] = "escalate", client[c] = "ok", AtWork(c),
           Exclude(c)
    PROVE  AtWork(c)'
<1>1. /\ phase'[c] = "write" /\ todo'[c] = tx[c].pages /\ tx' = tx /\ db' = db /\ jrnl' = jrnl
  BY DEF TypeOK, Exclude, GoTo, files
<1>2. jrnl.valid /\ jrnl.orig = db /\ jrnl.saved = OldPages(c)
  BY DEF AtWork, Saved
<1>3. tx[c].pages \ todo'[c] = {}
  BY <1>1
<1>4. HalfWritten(c)' = [p \in DOMAIN jrnl.orig |-> jrnl.orig[p]]
  BY <1>1, <1>3 DEF HalfWritten
<1>5. HalfWritten(c)' = db'
  BY <1>1, <1>2, <1>4, DatabaseHas DEF TypeOK
<1>6. Writing(c)'
  BY <1>1, <1>2, <1>5 DEF Writing, OldPages
<1>. QED
  BY <1>1, <1>6 DEF AtWork

\* ... and goes on page by page.
LEMMA GoesOnWriting ==
    ASSUME TypeOK, FilesOK, NEW c \in Conn, Writing(c), Write(c)
    PROVE  AtWork(c)' /\ DOMAIN jrnl'.orig \subseteq DOMAIN db'
<1>1. CASE todo[c] = {}
  <2>1. /\ phase'[c] = "commit" /\ todo' = todo /\ tx' = tx /\ db' = db /\ jrnl' = jrnl
    BY <1>1 DEF TypeOK, Write, GoTo
  <2>2. Writing(c)'
    BY <2>1 DEF Writing, OldPages, HalfWritten
  <2>. QED
    BY <1>1, <2>1, <2>2 DEF AtWork, FilesOK
<1>2. CASE todo[c] # {}
  <2>1. PICK p \in todo[c] :
           /\ db' = [q \in DOMAIN db \union {p} |-> IF q = p THEN tx[c].id ELSE db[q]]
           /\ todo' = [todo EXCEPT ![c] = @ \ {p}]
           /\ UNCHANGED phase
    BY <1>2 DEF Write
  <2>2. phase[c] = "write" /\ phase' = phase /\ tx' = tx /\ jrnl' = jrnl
    BY <2>1 DEF Write
  <2>3. todo'[c] = todo[c] \ {p} /\ todo[c] \subseteq tx[c].pages /\ p \in tx[c].pages
    BY <2>1 DEF TypeOK, Writing
  <2>4. tx[c].pages \ todo'[c] = (tx[c].pages \ todo[c]) \union {p}
    BY <2>3
  <2>5. db = HalfWritten(c)
    BY DEF Writing
  <2>6. db' = HalfWritten(c)'
    BY <2>1, <2>2, <2>4, <2>5 DEF HalfWritten
  <2>7. Writing(c)'
    BY <2>2, <2>3, <2>6 DEF Writing, OldPages
  <2>8. DOMAIN jrnl'.orig \subseteq DOMAIN db'
    BY <2>1, <2>2 DEF FilesOK
  <2>. QED
    BY <2>2, <2>7, <2>8 DEF AtWork
<1>. QED
  BY <1>1, <1>2

\* Playing back goes on page by page too.
LEMMA GoesOnRestoring ==
    ASSUME TypeOK, FilesOK, NEW c \in Conn, phase[c] = "playback", Restoring(c), Restore(c)
    PROVE  /\ AtWork(c)' /\ DOMAIN jrnl'.orig \subseteq DOMAIN db'
           /\ jrnl.valid /\ DOMAIN db' = DOMAIN db
           /\ \A q \in DOMAIN jrnl.orig \ jrnl.saved : db'[q] = db[q]
<1>1. PICK p \in todo[c] : /\ db' = [db EXCEPT ![p] = jrnl.orig[p]]
                           /\ todo' = [todo EXCEPT ![c] = @ \ {p}]
  BY DEF Restore
<1>2. phase' = phase /\ jrnl' = jrnl /\ todo'[c] = todo[c] \ {p} /\ DOMAIN db' = DOMAIN db
  BY <1>1 DEF TypeOK, Restore
<1>3. /\ jrnl.valid /\ p \in jrnl.saved /\ todo[c] \subseteq jrnl.saved
      /\ DOMAIN db = DOMAIN jrnl.orig /\ jrnl.saved \subseteq DOMAIN db
  BY <1>1 DEF Restoring, TypeOK
<1>4. \A q \in jrnl.saved \ todo'[c] : db'[q] = jrnl.orig[q]
  BY <1>1, <1>2, <1>3 DEF Restoring
<1>5. Restoring(c)'
  BY <1>2, <1>3, <1>4 DEF Restoring
<1>. QED
  BY <1>1, <1>2, <1>3, <1>5 DEF AtWork

LEMMA ActsFiles ==
    ASSUME TypeOK, LocksOK, FilesOK, NEW c \in Conn, Acts(c)
    PROVE  FilesOK'
<1>0. OthersStay(c)
  BY ActsAlone
<1>a. client[c] = "ok" => AtWork(c)
  BY DEF FilesOK
<1>1. CASE Begin(c) \/ Check(c) \/ Peek(c) \/ BeginWrite(c)
  <2>1. /\ phase'[c] \in {"check", "peek", "upgrade", "reading", "open"}
        /\ UNCHANGED files
    BY <1>1 DEF Begin, Check, Peek, BeginWrite, GoTo, TypeOK, files
  <2>. QED
    BY <1>0, <2>1, Bystander, FilesKept
<1>2. CASE GiveUp(c)
  <2>1. phase'[c] = "idle" /\ UNCHANGED files
    BY <1>2 DEF GiveUp, Leave, GoTo, TypeOK
  <2>. QED
    BY <1>0, <2>1, Bystander, FilesKept
<1>3. CASE Exclude(c)
  <2>1. UNCHANGED files /\ client[c] = "ok"
    BY <1>3 DEF Exclude, FileRequestOK
  <2>2. CASE phase[c] = "upgrade"
    <3>1. phase'[c] = "recheck"
      BY <1>3, <2>2 DEF Exclude, GoTo, TypeOK
    <3>. QED
      BY <1>0, <2>1, <3>1, Bystander, FilesKept
  <2>3. CASE phase[c] = "escalate"
    BY <1>0, <1>a, <1>3, <2>1, <2>3, StartsWriting, FilesKept
  <2>. QED
    BY <1>3, <2>2, <2>3 DEF Exclude
<1>4. CASE Recheck(c)
  <2>1. \/ phase'[c] = "reading"
        \/ /\ phase'[c] = "truncate"
           /\ todo'[c] = IF jrnl.valid THEN jrnl.saved ELSE {}
    BY <1>4 DEF Recheck, GoTo, TypeOK
  <2>2. UNCHANGED files
    BY <1>4 DEF Recheck
  <2>3. AtWork(c)'
    BY <2>1, <2>2 DEF AtWork, files
  <2>. QED
    BY <1>0, <2>2, <2>3, FilesKept
<1>5. CASE Truncate(c)
  <2>1. /\ phase[c] = "truncate" /\ client[c] = "ok" /\ phase'[c] = "playback" /\ todo' = todo
        /\ jrnl.valid => DOMAIN db \ DOMAIN jrnl.orig = {}
        /\ UNCHANGED files
    BY <1>5 DEF Truncate, FileRequestOK, HasGrown, TruncateOK, GoTo, TypeOK
  <2>2. todo[c] = IF jrnl.valid THEN jrnl.saved ELSE {}
    BY <1>a, <2>1 DEF AtWork
  <2>3. jrnl.valid => DOMAIN db = DOMAIN jrnl.orig
    BY <2>1 DEF FilesOK
  <2>4. Restoring(c)'
    BY <2>1, <2>2, <2>3 DEF Restoring, files
  <2>5. AtWork(c)'
    BY <2>1, <2>4 DEF AtWork
  <2>. QED
    BY <1>0, <2>1, <2>5, FilesKept
<1>6. CASE Restore(c)
  <2>1. phase[c] = "playback" /\ client[c] = "ok"
    BY <1>6 DEF Restore, FileRequestOK
  <2>2. Restoring(c) /\ level[c] > Lk!SHARED_LOCK
    BY <1>a, <2>1, WorkerLevel, LevelsAre DEF AtWork
  <2>. QED
    BY <1>0, <1>6, <2>1, <2>2, GoesOnRestoring, FilesChanged
<1>7. CASE Restored(c)
  <2>1. /\ phase[c] = "playback" /\ todo[c] = {} /\ phase'[c] = "drop" /\ todo' = todo
        /\ client' = client /\ UNCHANGED files
    BY <1>7 DEF Restored, GoTo, TypeOK
  <2>2. client'[c] = "ok" => AtWork(c)'
    BY <1>a, <2>1 DEF AtWork, Restoring, files
  <2>. QED
    BY <1>0, <2>1, <2>2, FilesKept
<1>8. CASE Drop(c) \/ Abort(c) \/ Commit(c)
  <2>1. /\ Delete(c) /\ db' = db /\ phase[c] \in {"drop", "abort", "commit"}
        /\ phase'[c] \in {"reading", "idle"}
    BY <1>8 DEF Drop, Abort, Commit, Leave, GoTo, TypeOK
  <2>. QED
    BY <1>0, <2>1, DeleteFiles
<1>9. CASE OpenJournal(c)
  <2>1. /\ phase[c] = "open" /\ client[c] = "ok" /\ phase'[c] = "header" /\ db' = db
        /\ jrnl'.orig \in {jrnl.orig, NoJournal.orig}
    BY <1>9 DEF OpenJournal, FileRequestOK, GoTo, TypeOK, NoJournal, JournalFile
  <2>2. DOMAIN jrnl'.orig \subseteq DOMAIN db'
    BY <2>1 DEF FilesOK, NoJournal
  <2>3. level[c] > Lk!SHARED_LOCK
    BY <2>1, WorkerLevel, LevelsAre
  <2>. QED
    BY <1>0, <2>1, <2>2, <2>3, Bystander, FilesChanged
<1>10. CASE Header(c)
  <2>1. /\ phase[c] = "header" /\ client[c] = "ok" /\ phase'[c] = "save" /\ db' = db /\ tx' = tx
        /\ jrnl'.orig = db /\ jrnl'.saved = {} /\ ~jrnl'.valid
        /\ todo'[c] = tx[c].pages \intersect DOMAIN db
    BY <1>10 DEF Header, FileRequestOK, GoTo, TypeOK, PagesToSave
  <2>2. AtWork(c)'
    BY <2>1 DEF AtWork, Saving, OldPages
  <2>3. level[c] > Lk!SHARED_LOCK
    BY <2>1, WorkerLevel, LevelsAre
  <2>. QED
    BY <1>0, <2>1, <2>2, <2>3, FilesChanged
<1>11. CASE Save(c)
  <2>1. phase[c] = "save" /\ client[c] = "ok" /\ db' = db /\ tx' = tx
    BY <1>11 DEF Save, FileRequestOK
  <2>2. Saving(c) /\ level[c] > Lk!SHARED_LOCK
    BY <1>a, <2>1, WorkerLevel, LevelsAre DEF AtWork
  <2>3. CASE todo[c] = {}
    <3>1. phase'[c] = "sync" /\ todo' = todo /\ jrnl' = jrnl
      BY <1>11, <2>3 DEF Save, GoTo, TypeOK
    <3>2. AtWork(c)'
      BY <2>1, <2>2, <2>3, <3>1 DEF AtWork, Saving, Saved, OldPages, TypeOK, JournalFile
    <3>. QED
      BY <1>0, <2>1, <3>1, <3>2, FilesKept DEF files
  <2>4. CASE todo[c] # {}
    <3>1. PICK p \in todo[c] : /\ jrnl' = [jrnl EXCEPT !.saved = @ \union {p}]
                               /\ todo' = [todo EXCEPT ![c] = @ \ {p}]
                               /\ UNCHANGED phase
      BY <1>11, <2>4 DEF Save
    <3>2. /\ jrnl'.orig = jrnl.orig /\ jrnl'.valid = jrnl.valid
          /\ jrnl'.saved = jrnl.saved \union {p} /\ todo'[c] = todo[c] \ {p}
      BY <3>1 DEF TypeOK, JournalFile
    <3>3. Saving(c)'
      BY <2>1, <2>2, <3>2 DEF Saving, OldPages
    <3>4. AtWork(c)' /\ DOMAIN jrnl'.orig \subseteq DOMAIN db'
      BY <2>1, <3>1, <3>2, <3>3 DEF AtWork, FilesOK
    <3>. QED
      BY <1>0, <2>2, <3>4, FilesChanged
  <2>. QED
    BY <2>3, <2>4
<1>12. CASE Sync(c)
  <2>1. /\ phase[c] = "sync" /\ client[c] = "ok" /\ db' = db /\ tx' = tx
        /\ phase'[c] = "escalate"
        /\ jrnl'.valid = TRUE /\ jrnl'.orig = jrnl.orig /\ jrnl'.saved = jrnl.saved
    BY <1>12 DEF Sync, FileRequestOK, GoTo, TypeOK, JournalFile
  <2>2. Saved(c, FALSE) /\ level[c] > Lk!SHARED_LOCK
    BY <1>a, <2>1, WorkerLevel, LevelsAre DEF AtWork, Saved
  <2>3. AtWork(c)' /\ DOMAIN jrnl'.orig \subseteq DOMAIN db'
    BY <2>1, <2>2 DEF AtWork, Saved, OldPages, FilesOK
  <2>. QED
    BY <1>0, <2>2, <2>3, FilesChanged
<1>13. CASE CallOff(c)
  <2>1. /\ phase[c] \in {"save", "sync", "escalate"} /\ client[c] = "ok"
        /\ phase'[c] = "abort" /\ UNCHANGED files
    BY <1>13 DEF CallOff, FileRequestOK, GoTo, TypeOK
  <2>2. AtWork(c)'
    BY <1>a, <2>1 DEF AtWork, Saving, Saved, files
  <2>. QED
    BY <1>0, <2>1, <2>2, FilesKept
<1>14. CASE Write(c)
  <2>1. phase[c] = "write" /\ client[c] = "ok"
    BY <1>14 DEF Write, FileRequestOK
  <2>2. Writing(c) /\ level[c] > Lk!SHARED_LOCK
    BY <1>a, <2>1, WorkerLevel, LevelsAre DEF AtWork
  <2>. QED
    BY <1>0, <1>14, <2>2, GoesOnWriting, FilesChanged
<1>15. CASE WriteFails(c)
  <2>1. /\ phase[c] = "write" /\ phase'[c] = "truncate" /\ todo'[c] = jrnl.saved
        /\ client'[c] = "ok" => client[c] = "ok"
        /\ UNCHANGED files
    BY <1>15 DEF WriteFails, Reconnected, GoTo, TypeOK
  <2>2. client'[c] = "ok" => AtWork(c)'
    BY <1>a, <2>1 DEF AtWork, Writing, files
  <2>. QED
    BY <1>0, <2>1, <2>2, FilesKept
<1>16. CASE Expire(c)
  <2>1. client'[c] = "dead" /\ UNCHANGED files
    BY <1>16 DEF Expire, TypeOK
  <2>. QED
    BY <1>0, <2>1, FilesKept
<1>17. CASE Crash(c) \/ Reopen(c)
  <2>1. phase'[c] \in {"idle", "crashed"} /\ UNCHANGED files
    BY <1>17 DEF Crash, Reopen, GoTo, TypeOK
  <2>. QED
    BY <1>0, <2>1, Bystander, FilesKept
<1>. QED
  BY <1>1, <1>2, <1>3, <1>4, <1>5, <1>6, <1>7, <1>8, <1>9, <1>10, <1>11, <1>12, <1>13, <1>14,
     <1>15, <1>16, <1>17
     DEF Acts, PeekFails, UpgradeFails, TruncateFails, RestoreFails, EndRead, JournalFails

-----------------------------------------------------------------------------
\* What the next reader will see of a database d with a journal j.
View(d, j) ==
    IF j.exists /\ j.valid
    THEN [p \in DOMAIN j.orig |-> IF p \in j.saved THEN j.orig[p] ELSE d[p]]
    ELSE d

LEMMA ViewIsVisible == Visible = View(db, jrnl) /\ Visible' = View(db', jrnl')
BY DEF Visible, View

\* Without a journal, with one of the database as it is, or when all of it has been
\* played back, the reader sees the database.
LEMMA ViewOfDatabase ==
    ASSUME NEW d \in Database, NEW j \in JournalFile,
           \/ ~j.exists
           \/ ~j.valid
           \/ DOMAIN d = DOMAIN j.orig /\ \A p \in j.saved : d[p] = j.orig[p]
    PROVE  View(d, j) = d
<1>1. CASE ~j.exists \/ ~j.valid
  BY <1>1 DEF View
<1>2. CASE /\ j.exists /\ j.valid
           /\ DOMAIN d = DOMAIN j.orig /\ \A p \in j.saved : d[p] = j.orig[p]
  <2>1. View(d, j) = [p \in DOMAIN d |-> d[p]]
    BY <1>2 DEF View
  <2>. QED
    BY <2>1, DatabaseHas
<1>. QED
  BY <1>1, <1>2

\* With one that holds all that was changed, the reader sees what was before.
LEMMA ViewOfJournal ==
    ASSUME NEW d \in Database, NEW j \in JournalFile, j.exists, j.valid,
           \A p \in DOMAIN j.orig \ j.saved : d[p] = j.orig[p]
    PROVE  View(d, j) = j.orig
<1>1. View(d, j) = [p \in DOMAIN j.orig |-> j.orig[p]]
  BY DEF View
<1>2. j.orig \in Database
  BY DEF JournalFile
<1>. QED
  BY <1>1, <1>2, DatabaseHas

\* The errors the VFS has kept to itself are not taken back.
LEMMA SwallowedGrows ==
    ASSUME TypeOK, [Next]_vars
    PROVE  swallowed \subseteq swallowed' /\ (Clean' => Clean)
<1>1. ASSUME NEW c \in Conn, Acts(c) PROVE swallowed \subseteq swallowed'
  <2>1. CASE Check(c) \/ Recheck(c)
    BY <2>1 DEF Check, Recheck, Access
  <2>2. CASE Drop(c) \/ Abort(c) \/ Commit(c)
    BY <2>2 DEF Drop, Abort, Commit, Delete
  <2>3. CASE GiveUp(c)
    BY <2>3 DEF GiveUp
  <2>4. CASE \/ Begin(c) \/ Peek(c) \/ Exclude(c) \/ Truncate(c) \/ Restore(c) \/ Restored(c)
             \/ BeginWrite(c) \/ OpenJournal(c) \/ Header(c) \/ Save(c) \/ Sync(c)
             \/ CallOff(c) \/ Write(c) \/ WriteFails(c) \/ Expire(c) \/ Crash(c) \/ Reopen(c)
    BY <2>4 DEF Begin, Peek, Exclude, Truncate, Restore, Restored, BeginWrite, OpenJournal,
                Header, Save, Sync, CallOff, Write, WriteFails, Expire, Crash, Reopen
  <2>. QED
    BY <1>1, <2>1, <2>2, <2>3, <2>4
       DEF Acts, PeekFails, UpgradeFails, TruncateFails, RestoreFails, EndRead, JournalFails
<1>2. ASSUME RemoveLate PROVE swallowed \subseteq swallowed'
  BY <1>2 DEF RemoveLate
<1>3. ASSUME UNCHANGED vars PROVE swallowed \subseteq swallowed'
  BY <1>3 DEF vars
<1>4. swallowed \subseteq swallowed'
  BY <1>1, <1>2, <1>3 DEF Next, Acts
<1>. QED
  BY <1>4 DEF Clean

\* nfs4Access: without a wrong answer, the answer is whether the journal is there.
LEMMA AccessAnswer ==
    ASSUME TypeOK, NEW c \in Conn, NEW answer \in BOOLEAN, Access(c, answer), Clean'
    PROVE  answer = jrnl.exists
BY DEF Access, Clean

LEMMA FoundKept ==
    ASSUME TypeOK, FoundOK, NEW c \in Conn, OthersStay(c), UNCHANGED files, Clean' => Clean,
           Clean' /\ client'[c] = "ok" => Finds(c)'
    PROVE  FoundOK'
<1>1. ASSUME Clean', NEW d \in Conn \ {c}, client'[d] = "ok" PROVE Finds(d)'
  <2>1. Finds(d)
    BY <1>1 DEF OthersStay, FoundOK
  <2>. QED
    BY <2>1 DEF Finds, OthersStay, Visible, files
<1>. QED
  BY <1>1 DEF FoundOK

\* A change of the files is seen by readers, if there are any, as one of both.
LEMMA FoundChanged ==
    ASSUME TypeOK, LocksOK, NEW c \in Conn, OthersStay(c), level[c] > Lk!SHARED_LOCK,
           Clean' /\ client'[c] = "ok" => Finds(c)',
           level[c] = Lk!EXCLUSIVE_LOCK \/ (Clean' => db' = Visible')
    PROVE  FoundOK'
<1>1. ASSUME Clean', NEW d \in Conn \ {c}, client'[d] = "ok" PROVE Finds(d)'
  <2>1. /\ phase'[d] \in {"idle", "crashed", "check", "peek", "upgrade", "reading"}
        /\ level[c] = Lk!EXCLUSIVE_LOCK => phase'[d] # "reading"
    BY <1>1, AtWorkAlone DEF OthersStay
  <2>. QED
    BY <1>1, <2>1 DEF Finds
<1>. QED
  BY <1>1 DEF FoundOK

\* What nfs4Delete takes away was of no use any more, or it was the commit.
LEMMA DeleteView ==
    ASSUME TypeOK, LocksOK, FilesOK, NEW c \in Conn, Delete(c), db' = db,
           phase[c] \in {"drop", "abort", "commit"}, jrnl' # jrnl
    PROVE  /\ client[c] = "ok" /\ level[c] > Lk!SHARED_LOCK
           /\ Visible' = db /\ swallowed' = swallowed
           /\ phase[c] # "commit" => Visible = db
<1>1. jrnl' = NoJournal /\ client[c] = "ok" /\ level[c] > Lk!SHARED_LOCK /\ swallowed' = swallowed
  BY DeleteEffect
<1>2. Visible' = db
  BY <1>1 DEF Visible, NoJournal
<1>3. ASSUME phase[c] # "commit" PROVE Visible = db
  <2>1. AtWork(c) /\ db \in Database /\ jrnl \in JournalFile
    BY <1>1 DEF FilesOK, TypeOK
  <2>2. CASE phase[c] = "abort"
    <3>1. jrnl.orig = db
      BY <2>1, <2>2 DEF AtWork
    <3>2. \A p \in jrnl.saved : db[p] = jrnl.orig[p]
      BY <3>1
    <3>. QED
      BY <2>1, <3>1, <3>2, ViewOfDatabase, ViewIsVisible
  <2>3. CASE phase[c] = "drop"
    <3>1. Restoring(c) /\ todo[c] = {}
      BY <2>1, <2>3 DEF AtWork
    <3>2. \/ ~jrnl.valid
          \/ DOMAIN db = DOMAIN jrnl.orig /\ \A p \in jrnl.saved : db[p] = jrnl.orig[p]
      BY <3>1 DEF Restoring
    <3>. QED
      BY <2>1, <3>2, ViewOfDatabase, ViewIsVisible
  <2>. QED
    BY <1>3, <2>2, <2>3
<1>. QED
  BY <1>1, <1>2, <1>3

\* A writer, before and after a page: the reader would see the original.
LEMMA WritingView ==
    ASSUME TypeOK, NEW c \in Conn, Writing(c), jrnl.exists
    PROVE  Visible = jrnl.orig
<1>1. \A p \in DOMAIN jrnl.orig \ jrnl.saved : db[p] = jrnl.orig[p]
  <2>1. ASSUME NEW p \in DOMAIN jrnl.orig, p \notin jrnl.saved PROVE db[p] = jrnl.orig[p]
    <3>1. p \notin tx[c].pages
      BY <2>1 DEF Writing, OldPages
    <3>2. db[p] = HalfWritten(c)[p]
      BY DEF Writing
    <3>. QED
      BY <2>1, <3>1, <3>2 DEF HalfWritten
  <2>. QED
    BY <2>1
<1>2. db \in Database /\ jrnl \in JournalFile /\ jrnl.valid
  BY DEF TypeOK, Writing
<1>. QED
  BY <1>1, <1>2, ViewOfJournal, ViewIsVisible

\* Pages that are saved may change.
LEMMA ViewSame ==
    ASSUME NEW d, NEW e, NEW j \in JournalFile, j.exists, j.valid,
           \A p \in DOMAIN j.orig \ j.saved : d[p] = e[p]
    PROVE  View(d, j) = View(e, j)
BY DEF View

\* Preparing the journal changes nothing for a reader.
LEMMA PreparingView ==
    ASSUME TypeOK, TypeOK', FilesOK, FoundOK, Clean, NEW c \in Conn,
           OpenJournal(c) \/ Header(c) \/ Save(c) \/ Sync(c)
    PROVE  /\ client[c] = "ok" /\ phase[c] \in {"open", "header", "save", "sync"}
           /\ db' = db /\ Visible = db /\ Visible' = db /\ jrnl'.exists
<1>1. /\ client[c] = "ok" /\ db' = db
      /\ phase[c] \in {"open", "header", "save", "sync"}
  BY DEF OpenJournal, Header, Save, Sync, FileRequestOK
<1>2. AtWork(c) /\ Finds(c)
  BY <1>1 DEF FilesOK, FoundOK
<1>3. db \in Database /\ jrnl \in JournalFile /\ jrnl' \in JournalFile
  BY DEF TypeOK
<1>4. CASE OpenJournal(c)
  <2>1. phase[c] = "open" /\ Visible = db
    BY <1>2, <1>4 DEF OpenJournal, Finds
  <2>2. CASE jrnl.exists
    <3>1. jrnl' = jrnl
      BY <1>3, <1>4, <2>2 DEF OpenJournal, JournalFile
    <3>. QED
      BY <1>1, <2>1, <2>2, <3>1 DEF Visible
  <2>3. CASE ~jrnl.exists
    <3>1. jrnl'.exists /\ ~jrnl'.valid
      BY <1>4, <2>3 DEF OpenJournal, NoJournal
    <3>. QED
      BY <1>1, <2>1, <3>1 DEF Visible
  <2>. QED
    BY <2>2, <2>3
<1>5. CASE Header(c)
  <2>1. phase[c] = "header" /\ Visible = db /\ jrnl.exists
    BY <1>2, <1>5 DEF Header, Finds
  <2>2. jrnl'.exists /\ ~jrnl'.valid
    BY <1>5, <2>1 DEF Header
  <2>. QED
    BY <1>1, <2>1, <2>2 DEF Visible
<1>6. CASE Save(c)
  <2>1. jrnl.exists /\ ~jrnl.valid
    BY <1>2, <1>6 DEF Save, Finds, AtWork, Saving
  <2>2. jrnl'.exists /\ ~jrnl'.valid
    BY <1>3, <1>6, <2>1 DEF Save, JournalFile
  <2>. QED
    BY <1>1, <2>1, <2>2 DEF Visible
<1>7. CASE Sync(c)
  <2>1. phase[c] = "sync" /\ jrnl.exists
    BY <1>2, <1>7 DEF Sync, Finds
  <2>2. ~jrnl.valid /\ jrnl.orig = db
    BY <1>2, <2>1 DEF AtWork, Saved
  <2>3. jrnl'.exists /\ jrnl'.orig = db
    BY <1>3, <1>7, <2>1, <2>2 DEF Sync, JournalFile
  <2>4. Visible = db
    BY <2>2 DEF Visible
  <2>5. View(db, jrnl') = db
    BY <1>3, <2>3, ViewOfDatabase DEF JournalFile
  <2>. QED
    BY <1>1, <2>3, <2>4, <2>5, ViewIsVisible
<1>. QED
  BY <1>4, <1>5, <1>6, <1>7

\* Writing the database under a journal changes nothing either, and neither does
\* playing one back.
LEMMA CoveredView ==
    ASSUME TypeOK, FilesOK, FoundOK, Clean, NEW c \in Conn, Write(c) \/ Restore(c)
    PROVE  /\ client[c] = "ok" /\ phase[c] \in {"write", "playback"}
           /\ Visible' = Visible /\ jrnl' = jrnl /\ jrnl.exists
<1>1. /\ client[c] = "ok" /\ phase[c] \in {"write", "playback"} /\ jrnl' = jrnl
  BY DEF Write, Restore, FileRequestOK
<1>2. AtWork(c) /\ jrnl.exists /\ jrnl \in JournalFile
  BY <1>1 DEF FilesOK, FoundOK, Finds, TypeOK
<1>3. CASE Write(c)
  <2>1. Writing(c)
    BY <1>2, <1>3 DEF Write, AtWork
  <2>2. \A p \in DOMAIN jrnl.orig \ jrnl.saved : db'[p] = db[p]
    <3>1. ASSUME NEW p \in DOMAIN jrnl.orig, p \notin jrnl.saved PROVE db'[p] = db[p]
      <4>1. p \notin tx[c].pages /\ p \in DOMAIN db
        BY <2>1, <3>1 DEF Writing, OldPages, FilesOK
      <4>2. CASE todo[c] = {}
        BY <1>3, <4>2 DEF Write
      <4>3. CASE todo[c] # {}
        <5>1. PICK q \in todo[c] : db' = [r \in DOMAIN db \union {q} |->
                                             IF r = q THEN tx[c].id ELSE db[r]]
          BY <1>3, <4>3 DEF Write
        <5>2. q # p
          BY <2>1, <4>1 DEF Writing
        <5>. QED
          BY <4>1, <5>1, <5>2
      <4>. QED
        BY <4>2, <4>3
    <3>. QED
      BY <3>1
  <2>3. jrnl.valid
    BY <2>1 DEF Writing
  <2>. QED
    BY <1>1, <1>2, <2>2, <2>3, ViewSame, ViewIsVisible
<1>4. CASE Restore(c)
  <2>1. phase[c] = "playback" /\ Restoring(c)
    BY <1>2, <1>4 DEF Restore, AtWork
  <2>2. jrnl.valid /\ \A p \in DOMAIN jrnl.orig \ jrnl.saved : db'[p] = db[p]
    BY <1>4, <2>1, GoesOnRestoring
  <2>. QED
    BY <1>1, <1>2, <2>2, ViewSame, ViewIsVisible
<1>. QED
  BY <1>3, <1>4

\* A connection finds the journal it is at work with, and starts from what it sees.
LEMMA ActsFound ==
    ASSUME TypeOK, TypeOK', LocksOK, FilesOK, FoundOK, NEW c \in Conn, Acts(c)
    PROVE  FoundOK'
<1>. SUFFICES ASSUME Clean' PROVE FoundOK'
  BY DEF FoundOK
<1>1. OthersStay(c) /\ Clean
  BY ActsAlone, SwallowedGrows DEF Next, Acts
<1>2. client[c] = "ok" => Finds(c) /\ AtWork(c)
  BY <1>1 DEF FoundOK, FilesOK
<1>3. CASE UNCHANGED files /\ (client'[c] = "ok" => Finds(c)')
  BY <1>1, <1>3, FoundKept
<1>4. CASE Begin(c) \/ GiveUp(c) \/ Crash(c) \/ Reopen(c)
  <2>1. phase'[c] \in {"check", "idle", "crashed"} /\ UNCHANGED files
    BY <1>4 DEF Begin, GiveUp, Leave, Crash, Reopen, GoTo, TypeOK
  <2>. QED
    BY <1>3, <2>1 DEF Finds
<1>5. CASE Check(c)
  <2>1. PICK answer \in BOOLEAN :
           Access(c, answer) /\ GoTo(c, IF answer /\ ~CheckReservedLock THEN "peek" ELSE "reading")
    BY <1>5 DEF Check
  <2>2. phase'[c] = "peek" \/ (phase'[c] = "reading" /\ ~jrnl.exists)
    BY <2>1, AccessAnswer DEF CheckReservedLock, GoTo, TypeOK
  <2>3. UNCHANGED files
    BY <1>5 DEF Check
  <2>. QED
    BY <1>3, <2>2, <2>3 DEF Finds, Visible, files
<1>6. CASE Peek(c)
  <2>1. /\ phase'[c] = "upgrade" \/ (phase'[c] = "reading" /\ ~jrnl.valid)
        /\ UNCHANGED files
    BY <1>6 DEF Peek, GoTo, TypeOK
  <2>. QED
    BY <1>3, <2>1 DEF Finds, Visible, files
<1>7. CASE Exclude(c)
  <2>1. /\ client[c] = "ok" /\ UNCHANGED files
        /\ \/ phase'[c] = "recheck"
           \/ phase[c] = "escalate" /\ phase'[c] = "write"
    BY <1>7 DEF Exclude, FileRequestOK, GoTo, TypeOK
  <2>. QED
    BY <1>2, <1>3, <2>1 DEF Finds, files
<1>8. CASE Recheck(c)
  <2>1. PICK answer \in BOOLEAN :
           /\ Access(c, answer)
           /\ GoTo(c, IF answer THEN "truncate" ELSE "reading")
    BY <1>8 DEF Recheck
  <2>2. (phase'[c] = "truncate" /\ jrnl.exists) \/ (phase'[c] = "reading" /\ ~jrnl.exists)
    BY <2>1, AccessAnswer DEF GoTo, TypeOK
  <2>3. UNCHANGED files
    BY <1>8 DEF Recheck
  <2>. QED
    BY <1>3, <2>2, <2>3 DEF Finds, Visible, files
<1>9. CASE Truncate(c) \/ Restored(c) \/ CallOff(c) \/ WriteFails(c)
  <2>1. /\ client'[c] = "ok" => client[c] = "ok"
        /\ phase[c] \in {"truncate", "playback", "save", "sync", "escalate", "write"}
        /\ phase'[c] \in {"playback", "drop", "abort", "truncate"}
        /\ UNCHANGED files
    BY <1>9 DEF Truncate, Restored, CallOff, WriteFails, Reconnected, GoTo, TypeOK
  <2>. QED
    BY <1>2, <1>3, <2>1 DEF Finds, files
<1>10. CASE BeginWrite(c)
  <2>1. /\ client[c] = "ok" /\ UNCHANGED files
        /\ phase[c] = "reading" /\ phase'[c] = "open"
    BY <1>10 DEF BeginWrite, FileRequestOK, GoTo, TypeOK
  <2>. QED
    BY <1>2, <1>3, <2>1 DEF Finds, Visible, files
<1>11. CASE OpenJournal(c) \/ Header(c) \/ Save(c) \/ Sync(c)
  <2>1. /\ client[c] = "ok" /\ phase[c] \in {"open", "header", "save", "sync"}
        /\ db' = Visible' /\ jrnl'.exists
    BY <1>1, <1>11, PreparingView
  <2>2. level[c] > Lk!SHARED_LOCK
    BY <2>1, WorkerLevel, LevelsAre
  <2>3. Finds(c)'
    BY <2>1 DEF Finds
  <2>. QED
    BY <1>1, <2>1, <2>2, <2>3, FoundChanged
<1>12. CASE Write(c) \/ Restore(c)
  <2>1. /\ client[c] = "ok" /\ phase[c] \in {"write", "playback"}
        /\ jrnl' = jrnl /\ jrnl.exists
    BY <1>1, <1>12, CoveredView
  <2>2. level[c] > Lk!SHARED_LOCK /\ level[c] = Lk!EXCLUSIVE_LOCK
    BY <2>1, WorkerLevel, LevelsAre
  <2>3. phase'[c] \in {"write", "commit", "playback"}
    BY <1>12, <2>1 DEF Write, Restore, GoTo, TypeOK
  <2>4. Finds(c)'
    BY <2>1, <2>3 DEF Finds
  <2>. QED
    BY <1>1, <2>2, <2>4, FoundChanged
<1>13. CASE Drop(c) \/ Abort(c) \/ Commit(c)
  <2>1. /\ Delete(c) /\ db' = db /\ phase[c] \in {"drop", "abort", "commit"}
        /\ phase'[c] = IF phase[c] = "drop" THEN "reading" ELSE "idle"
        /\ client'[c] = "ok" => client[c] = "ok"
    BY <1>13 DEF Drop, Abort, Commit, Leave, GoTo, Delete, Reconnected, TypeOK
  <2>2. CASE jrnl' = jrnl
    <3>1. ASSUME client[c] = "ok", phase[c] = "drop" PROVE db = Visible
      <4>1. Restoring(c) /\ todo[c] = {} /\ db \in Database /\ jrnl \in JournalFile
        BY <1>2, <3>1 DEF AtWork, TypeOK
      <4>2. \/ ~jrnl.valid
            \/ DOMAIN db = DOMAIN jrnl.orig /\ \A p \in jrnl.saved : db[p] = jrnl.orig[p]
        BY <4>1 DEF Restoring
      <4>. QED
        BY <4>1, <4>2, ViewOfDatabase, ViewIsVisible
    <3>2. client'[c] = "ok" => Finds(c)'
      BY <2>1, <2>2, <3>1 DEF Finds, Visible
    <3>. QED
      BY <1>3, <2>1, <2>2, <3>2 DEF files
  <2>3. CASE jrnl' # jrnl
    <3>1. level[c] > Lk!SHARED_LOCK /\ db' = Visible'
      BY <2>1, <2>3, DeleteView
    <3>2. Finds(c)'
      BY <2>1, <3>1 DEF Finds
    <3>. QED
      BY <1>1, <3>1, <3>2, FoundChanged
  <2>. QED
    BY <2>2, <2>3
<1>14. CASE Expire(c)
  <2>1. client'[c] = "dead" /\ UNCHANGED files
    BY <1>14 DEF Expire, TypeOK
  <2>. QED
    BY <1>3, <2>1
<1>. QED
  BY <1>4, <1>5, <1>6, <1>7, <1>8, <1>9, <1>10, <1>11, <1>12, <1>13, <1>14
     DEF Acts, PeekFails, UpgradeFails, TruncateFails, RestoreFails, EndRead, JournalFails

\* A late REMOVE takes away the journal's name, and with it the promise if it was there.
LEMMA LateStep ==
    ASSUME IInv, RemoveLate
    PROVE  LocksOK' /\ FilesOK' /\ FoundOK'
<1>1. /\ UNCHANGED <<level, phase, todo, tx, client, db>>
      /\ jrnl' = [jrnl EXCEPT !.exists = FALSE]
      /\ Clean' => ~jrnl.exists /\ swallowed' = swallowed
  BY DEF RemoveLate, Clean
<1>2. /\ jrnl'.valid = jrnl.valid /\ jrnl'.orig = jrnl.orig /\ jrnl'.saved = jrnl.saved
      /\ Clean' => jrnl' = jrnl
  BY <1>1 DEF IInv, TypeOK, JournalFile
<1>3. LocksOK'
  BY <1>1 DEF IInv, LocksOK, Lk!Exclusion, PhaseLevel
<1>4. FilesOK'
  BY <1>1, <1>2 DEF IInv, FilesOK, AtWork, Saving, Saved, Writing, Restoring, OldPages, HalfWritten
<1>5. FoundOK'
  <2>1. ASSUME Clean', NEW c \in Conn, client'[c] = "ok" PROVE Finds(c)'
    <3>1. Finds(c) /\ jrnl' = jrnl
      BY <1>1, <1>2, <2>1 DEF IInv, FoundOK, Clean
    <3>. QED
      BY <1>1, <3>1 DEF Finds, Visible
  <2>. QED
    BY <2>1 DEF FoundOK
<1>. QED
  BY <1>3, <1>4, <1>5

LEMMA StutterStep ==
    ASSUME IInv, UNCHANGED vars
    PROVE  IInv'
<1>. USE DEF vars
<1>1. TypeOK'
  BY DEF IInv, TypeOK
<1>2. LocksOK'
  BY DEF IInv, LocksOK, Lk!Exclusion, PhaseLevel
<1>3. FilesOK'
  BY DEF IInv, FilesOK, AtWork, Saving, Saved, Writing, Restoring, OldPages, HalfWritten
<1>4. FoundOK'
  BY DEF IInv, FoundOK, Clean, Finds, Visible
<1>. QED
  BY <1>1, <1>2, <1>3, <1>4 DEF IInv

LEMMA InvInit == Init => IInv
<1>. SUFFICES ASSUME Init PROVE IInv
  OBVIOUS
<1>1. PICK s \in SUBSET Page : db = [p \in s |-> 0]
  <2>1. CASE "grow" \in Fault
    <3>1. PICK new \in Page : db = [p \in Page \ {new} |-> 0]
      BY <2>1 DEF Init
    <3>. QED
      BY <3>1
  <2>2. CASE "grow" \notin Fault
    BY <2>2 DEF Init
  <2>. QED
    BY <2>1, <2>2
<1>2. db \in Database /\ 0 \in Tx
  <2>1. 0 \in Tx
    BY BoundAssumption DEF Tx
  <2>. QED
    BY <1>1, <2>1, DatabaseIs
<1>3. level = [c \in Conn |-> 0] /\ client = [c \in Conn |-> "ok"] /\ phase = [c \in Conn |-> "idle"]
  BY LevelsAre DEF Init, Lk!Init
<1>4. TypeOK
  BY <1>2, <1>3, LevelsAre, NoJournalType DEF Init, TypeOK, NoTx
<1>5. LocksOK
  BY <1>3, LevelsAre DEF LocksOK, Lk!Exclusion, PhaseLevel
<1>6. FilesOK
  BY <1>3 DEF Init, FilesOK, AtWork, NoJournal
<1>7. FoundOK
  BY <1>3 DEF FoundOK, Finds
<1>. QED
  BY <1>4, <1>5, <1>6, <1>7 DEF IInv

LEMMA InvStep == IInv /\ [Next]_vars => IInv'
<1>. SUFFICES ASSUME IInv, [Next]_vars PROVE IInv'
  OBVIOUS
<1>1. TypeOK'
  BY TypeStep DEF IInv
<1>2. ASSUME NEW c \in Conn, Acts(c) PROVE IInv'
  BY <1>1, <1>2, ActsLocks, ActsFiles, ActsFound DEF IInv
<1>3. CASE RemoveLate
  BY <1>1, <1>3, LateStep DEF IInv
<1>4. CASE UNCHANGED vars
  BY <1>4, StutterStep
<1>. QED
  BY <1>2, <1>3, <1>4 DEF Next, Acts

\* The journal, the database and the locks fit what each connection does in every
\* reachable state: with every fault of a request, of a process and of the server.
THEOREM Inductive == Spec => []IInv
BY InvInit, InvStep, PTL DEF Spec

\* The variables keep their types; pages are saved in a journal that knows them.
THEOREM TypeCorrect == Spec => []TypeOK
<1>1. IInv => TypeOK
  BY DEF IInv
<1>. QED
  BY <1>1, Inductive, PTL

-----------------------------------------------------------------------------
\* What the next reader sees.

\* nfs4Access: one that has found no journal, or that has played one back, reads a
\* database with nothing to be played back, as long as its stateids are accepted.
THEOREM ReadsWholeHolds == Spec => []ReadsWhole
<1>1. IInv => ReadsWhole
  BY DEF IInv, FoundOK, Finds, ReadsWhole
<1>. QED
  BY <1>1, Inductive, PTL

\* The writer that removes its journal shows all of its transaction.
LEMMA CommitView ==
    ASSUME IInv, Clean, NEW c \in Conn, Commit(c), jrnl' # jrnl
    PROVE  /\ phase[c] = "commit" /\ Visible' = Applied(Visible, tx[c])
           /\ committed' = Visible'
<1>1. phase[c] = "commit" /\ Delete(c) /\ db' = db /\ committed' = db
  BY DEF Commit
<1>2. client[c] = "ok" /\ Visible' = db
  BY <1>1, DeleteView DEF IInv
<1>3. Writing(c) /\ todo[c] = {} /\ jrnl.exists
  BY <1>1, <1>2 DEF IInv, FilesOK, AtWork, FoundOK, Finds
<1>4. Visible = jrnl.orig
  BY <1>3, WritingView DEF IInv
<1>5. tx[c].pages \ todo[c] = tx[c].pages
  BY <1>3
<1>6. db = Applied(jrnl.orig, tx[c])
  BY <1>3, <1>5 DEF Writing, HalfWritten, Applied
<1>. QED
  BY <1>1, <1>2, <1>4, <1>6

\* A step changes what a reader sees, or what has been reported, by such a commit
\* only; one whose REMOVE fails is reported, and the error swallowed.
LEMMA VisibleStep ==
    ASSUME IInv, [Next]_vars, Clean'
    PROVE  \/ Visible' = Visible /\ (committed' = committed \/ swallowed' # {})
           \/ \E c \in Conn : /\ phase[c] = "commit" /\ Visible' = Applied(Visible, tx[c])
                              /\ committed' = Visible'
<1>0. Clean /\ TypeOK /\ TypeOK' /\ LocksOK /\ FilesOK /\ FoundOK
  BY SwallowedGrows, InvStep DEF IInv
<1>1. CASE UNCHANGED <<db, jrnl, committed>>
  BY <1>1 DEF Visible
<1>2. ASSUME NEW c \in Conn,
             \/ Begin(c) \/ Check(c) \/ Peek(c) \/ Exclude(c) \/ Recheck(c) \/ Truncate(c)
             \/ Restored(c) \/ BeginWrite(c) \/ CallOff(c) \/ WriteFails(c) \/ GiveUp(c)
             \/ Expire(c) \/ Crash(c) \/ Reopen(c)
      PROVE  UNCHANGED <<db, jrnl, committed>>
  BY <1>2 DEF Begin, Check, Peek, Exclude, Recheck, Truncate, Restored, BeginWrite, CallOff,
              WriteFails, GiveUp, Expire, Crash, Reopen, files
<1>3. ASSUME NEW c \in Conn, OpenJournal(c) \/ Header(c) \/ Save(c) \/ Sync(c)
      PROVE  Visible' = Visible /\ committed' = committed
  <2>1. committed' = committed
    BY <1>3 DEF OpenJournal, Header, Save, Sync
  <2>. QED
    BY <1>0, <1>3, <2>1, PreparingView
<1>4. ASSUME NEW c \in Conn, Write(c) \/ Restore(c)
      PROVE  Visible' = Visible /\ committed' = committed
  <2>1. committed' = committed
    BY <1>4 DEF Write, Restore
  <2>. QED
    BY <1>0, <1>4, <2>1, CoveredView
<1>5. ASSUME NEW c \in Conn, Drop(c) \/ Abort(c)
      PROVE  Visible' = Visible /\ committed' = committed
  <2>1. Delete(c) /\ db' = db /\ committed' = committed /\ phase[c] \in {"drop", "abort"}
    BY <1>5 DEF Drop, Abort
  <2>2. CASE jrnl' = jrnl
    BY <2>1, <2>2 DEF Visible
  <2>3. CASE jrnl' # jrnl
    BY <1>0, <2>1, <2>3, DeleteView
  <2>. QED
    BY <2>1, <2>2, <2>3
<1>6. ASSUME NEW c \in Conn, Commit(c), jrnl' = jrnl
      PROVE  Visible' = Visible /\ swallowed' # {}
  <2>1. Delete(c) /\ db' = db /\ phase[c] = "commit"
    BY <1>6 DEF Commit
  <2>2. jrnl # NoJournal \/ swallowed' = swallowed \union {"remove"}
    <3>1. CASE jrnl' = NoJournal /\ client[c] = "ok"
      BY <1>0, <1>6, <2>1, <3>1 DEF FoundOK, Finds, NoJournal
    <3>. QED
      BY <1>0, <2>1, <3>1, DeleteEffect
  <2>3. swallowed' = swallowed \union {"remove"}
    BY <1>0, <1>6, <2>1, <2>2, DeleteEffect
  <2>. QED
    BY <1>6, <2>1, <2>3 DEF Visible
<1>7. ASSUME NEW c \in Conn, Commit(c), jrnl' # jrnl
      PROVE  /\ phase[c] = "commit" /\ Visible' = Applied(Visible, tx[c])
             /\ committed' = Visible'
  BY <1>0, <1>7, CommitView
<1>8. CASE RemoveLate
  <2>1. ~jrnl.exists /\ jrnl' = [jrnl EXCEPT !.exists = FALSE] /\ UNCHANGED <<db, committed>>
    BY <1>8 DEF RemoveLate, Clean
  <2>2. jrnl' = jrnl
    BY <1>0, <2>1 DEF TypeOK, JournalFile
  <2>. QED
    BY <1>1, <2>1, <2>2
<1>9. CASE UNCHANGED vars
  BY <1>1, <1>9 DEF vars
<1>. QED
  BY <1>1, <1>2, <1>3, <1>4, <1>5, <1>6, <1>7, <1>8, <1>9
     DEF Next, PeekFails, UpgradeFails, TruncateFails, RestoreFails, EndRead, JournalFails

\* What a reader sees changes by whole transactions, when a writer removes its journal,
\* whatever fails, crashes or loses its lock; except after a wrong answer of nfs4Access
\* or a REMOVE that came too late.
THEOREM AtomicHolds == Spec => Atomic
<1>1. IInv /\ [Next]_vars =>
          [Clean' /\ Visible' # Visible =>
               \E c \in Conn : phase[c] = "commit" /\ Visible' = Applied(Visible, tx[c])]_vars
  BY VisibleStep
<1>. QED
  BY <1>1, Inductive, PTL DEF Spec, Atomic

\* A transaction that was reported as committed is what the next reader sees until the
\* next one, unless nfs4Delete or nfs4Access has kept an error to itself.
THEOREM DurableHolds == Spec => []Durable
<1>1. Init => Durable
  BY DEF Init, Durable, Visible, NoJournal
<1>2. Durable /\ IInv /\ [Next]_vars => Durable'
  <2>. SUFFICES ASSUME Durable, IInv, [Next]_vars, swallowed' = {} PROVE Visible' = committed'
    BY DEF Durable
  <2>1. swallowed = {} /\ Clean'
    BY SwallowedGrows DEF IInv, Clean
  <2>2. Visible = committed
    BY <2>1 DEF Durable
  <2>. QED
    BY <2>1, <2>2, VisibleStep
<1>. QED
  BY <1>1, <1>2, Inductive, PTL DEF Spec

-----------------------------------------------------------------------------
\* Who changes the journal.

LEMMA JournalStep ==
    ASSUME IInv, [Next]_vars, jrnl' # jrnl, "late" \notin swallowed'
    PROVE  \E c \in Conn : level[c] > Lk!SHARED_LOCK
                           /\ (phase[c] # phase'[c] \/ todo[c] # todo'[c])
<1>0. TypeOK /\ LocksOK
  BY DEF IInv
<1>1. ASSUME NEW c \in Conn, OpenJournal(c) \/ Header(c) \/ Sync(c)
      PROVE  level[c] > Lk!SHARED_LOCK /\ phase[c] # phase'[c]
  <2>1. client[c] = "ok" /\ phase[c] \in {"open", "header", "sync"} /\ phase[c] # phase'[c]
    BY <1>0, <1>1 DEF OpenJournal, Header, Sync, FileRequestOK, GoTo, TypeOK
  <2>. QED
    BY <1>0, <2>1, WorkerLevel, LevelsAre
<1>2. ASSUME NEW c \in Conn, Save(c)
      PROVE  level[c] > Lk!SHARED_LOCK /\ todo[c] # todo'[c]
  <2>1. client[c] = "ok" /\ phase[c] = "save"
    BY <1>2 DEF Save, FileRequestOK
  <2>2. PICK p \in todo[c] : todo' = [todo EXCEPT ![c] = @ \ {p}]
    BY <1>2 DEF Save
  <2>3. p \notin todo'[c]
    BY <1>0, <2>2 DEF TypeOK
  <2>. QED
    BY <1>0, <2>1, <2>3, WorkerLevel, LevelsAre
<1>3. ASSUME NEW c \in Conn, Drop(c) \/ Abort(c) \/ Commit(c)
      PROVE  level[c] > Lk!SHARED_LOCK /\ phase[c] # phase'[c]
  <2>1. Delete(c) /\ phase[c] \in {"drop", "abort", "commit"} /\ phase[c] # phase'[c]
    BY <1>0, <1>3 DEF Drop, Abort, Commit, Leave, GoTo, TypeOK
  <2>. QED
    BY <1>0, <2>1, DeleteEffect
<1>4. ASSUME NEW c \in Conn,
             \/ Begin(c) \/ Check(c) \/ Peek(c) \/ Exclude(c) \/ Recheck(c) \/ Truncate(c)
             \/ Restore(c) \/ Restored(c) \/ BeginWrite(c) \/ CallOff(c) \/ Write(c)
             \/ WriteFails(c) \/ GiveUp(c) \/ Expire(c) \/ Crash(c) \/ Reopen(c)
      PROVE  FALSE
  BY <1>4 DEF Begin, Check, Peek, Exclude, Recheck, Truncate, Restore, Restored, BeginWrite,
              CallOff, Write, WriteFails, GiveUp, Expire, Crash, Reopen, files
<1>5. ASSUME RemoveLate PROVE FALSE
  BY <1>0, <1>5 DEF RemoveLate, TypeOK, JournalFile
<1>6. ASSUME UNCHANGED vars PROVE FALSE
  BY <1>6 DEF vars
<1>. QED
  BY <1>1, <1>2, <1>3, <1>4, <1>5, <1>6
     DEF Next, PeekFails, UpgradeFails, TruncateFails, RestoreFails, EndRead, JournalFails

\* Nobody but a connection with a lock above SHARED changes the journal, although OPEN
\* and REMOVE ask for no lock, except for a REMOVE that comes too late.
THEOREM JournalUnderLockHolds == Spec => JournalUnderLock
<1>1. IInv /\ [Next]_vars =>
          [jrnl' # jrnl /\ "late" \notin swallowed' =>
               \E c \in Conn : level[c] > Lk!SHARED_LOCK
                               /\ (phase[c] # phase'[c] \/ todo[c] # todo'[c])]_vars
  BY JournalStep
<1>. QED
  BY <1>1, Inductive, PTL DEF Spec, JournalUnderLock

=============================================================================
