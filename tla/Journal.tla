-------------------------------- MODULE Journal --------------------------------
(***************************************************************************)
(* Transactions over the nfs4 VFS: SQLite's pager with a rollback journal  *)
(* (journal_mode=delete) and what nfs4Access, nfs4Delete, nfs4Truncate,    *)
(* nfs4Sync and nfs4CheckReservedLock make of its calls (nfsv4/nfs4.c).    *)
(*                                                                         *)
(* A transaction saves the pages it is going to change in the journal,     *)
(* marks the journal as valid, changes the database, and is committed when *)
(* the journal is removed.  Whoever finds a valid journal that nobody is   *)
(* at work with plays it back.                                             *)
(*                                                                         *)
(* The locks are those of SqliteLock, which NfsLock implements; a write of *)
(* a page is one step, as FileIo justifies for a reader under a lock.      *)
(***************************************************************************)
EXTENDS Naturals

CONSTANTS
    Conn,    \* connections, each a process of its own
    Page,    \* pages of the database
    MaxTx,   \* bound: write transactions
    Fault    \* what may go wrong, see FaultKind

FaultKind ==
    { "io",      \* a request on the database or the journal fails
      "access",  \* the LOOKUP of nfs4Access fails
      "remove",  \* the REMOVE of nfs4Delete fails
      "late",    \* and is executed when nfs4Delete has returned
      "crash",   \* a process dies
      "expire",  \* the server drops a client's state
      "grow" }   \* not a fault: transactions add pages at the end of the file

ASSUME BoundAssumption == MaxTx \in Nat
ASSUME FaultAssumption == Fault \subseteq FaultKind

VARIABLES
    level,      \* level[c]: the lock the server has granted, as in SqliteLock
    phase,      \* phase[c]: what the pager does next
    todo,       \* todo[c]: pages it still has to save, write or restore
    tx,         \* tx[c]: number and pages of its write transaction
    client,     \* client[c]: "ok", "dead" when the server has dropped it and the
                \*   process does not know, "stale" when it has a new session
                \*   but the stateids of its files are void
    db,         \* the database: from its pages to the transaction that wrote them
    jrnl,       \* the journal
    late,       \* connections whose REMOVE is still under way
    committed,  \* the database after the last transaction reported as committed
    swallowed,  \* errors that nfs4Access and nfs4Delete have kept to themselves
    begun       \* write transactions begun

vars == <<level, phase, todo, tx, client, db, jrnl, late, committed, swallowed, begun>>
files == <<db, jrnl>>

Lk == INSTANCE SqliteLock

Tx == 0 .. MaxTx
Database == UNION {[s -> Tx] : s \in SUBSET Page}

\* The file the writer has open.  "exists": it has a name; after a REMOVE the writer
\* goes on with a file nobody else can find.  "valid": its header has been written,
\* so that its first byte is not 0.  Only the pages in "saved" are in it; the
\* database had the pages in DOMAIN orig.
JournalFile == [exists : BOOLEAN, valid : BOOLEAN, orig : Database, saved : SUBSET Page]

ReadPhase  == {"check", "peek", "upgrade", "recheck", "truncate", "playback", "drop", "reading"}
WritePhase == {"open", "header", "save", "sync", "escalate", "write", "commit", "abort"}

\* Types of the variables; the journal never holds a page the database did not have.
TypeOK ==
    /\ level \in [Conn -> Lk!Level]
    /\ phase \in [Conn -> {"idle", "crashed"} \union ReadPhase \union WritePhase]
    /\ todo \in [Conn -> SUBSET Page]
    /\ tx \in [Conn -> [id : Tx, pages : SUBSET Page]]
    /\ client \in [Conn -> {"ok", "dead", "stale"}]
    /\ db \in Database
    /\ jrnl \in JournalFile
    /\ jrnl.saved \subseteq DOMAIN jrnl.orig
    /\ late \subseteq Conn
    /\ committed \in Database
    /\ swallowed \subseteq {"access", "remove", "late"}
    /\ begun \in Tx

NoJournal == [exists |-> FALSE, valid |-> FALSE, orig |-> <<>>, saved |-> {}]

NoTx == [id |-> 0, pages |-> {}]

\* All pages are there, or all but one when transactions may add to the file.
Init ==
    /\ Lk!Init
    /\ phase = [c \in Conn |-> "idle"]
    /\ todo = [c \in Conn |-> {}]
    /\ tx = [c \in Conn |-> NoTx]
    /\ client = [c \in Conn |-> "ok"]
    /\ IF "grow" \in Fault
       THEN \E new \in Page : db = [p \in Page \ {new} |-> 0]
       ELSE db = [p \in Page |-> 0]
    /\ jrnl = NoJournal
    /\ late = {}
    /\ committed = db
    /\ swallowed = {}
    /\ begun = 0

-----------------------------------------------------------------------------
\* Requests.

\* A request that names a file by its stateid.
FileRequestOK(c) == client[c] = "ok"

FileRequestFails(c) == client[c] # "ok" \/ "io" \in Fault

\* Mutant: a replay that works, in the new session.
NameRequestReplayed(c) == TRUE

\* LOOKUP and REMOVE name a file by its path and need a session only.  One whose
\* session is gone fails, see ReplayInSession of RpcSession.
NameRequestOK(c) == client[c] # "dead"

\* A request that finds its session gone makes the process connect again.
Reconnected(c) == client' = [client EXCEPT ![c] = IF @ = "dead" THEN "stale" ELSE @]

GoTo(c, p) == phase' = [phase EXCEPT ![c] = p]

Forget(c) ==
    /\ todo' = [todo EXCEPT ![c] = {}]
    /\ tx' = [tx EXCEPT ![c] = NoTx]

\* The pager gives up its lock and leaves the journal where it is.
Leave(c) ==
    /\ GoTo(c, "idle")
    /\ Forget(c)
    /\ level' = [level EXCEPT ![c] = Lk!NO_LOCK]

\* A call has failed and the pager returns the error.
GiveUp(c) ==
    /\ Leave(c)
    /\ Reconnected(c)
    /\ UNCHANGED <<files, late, committed, swallowed, begun>>

\* The status of exists() on the journal.
Exists(c) ==
    (IF NameRequestOK(c) /\ jrnl.exists THEN {"ok"} ELSE {"error"})
        \union (IF "access" \in Fault THEN {"error"} ELSE {})

\* nfs4Access: the journal is not there if exists() has failed, for whatever reason.
Access(c, answer) ==
    /\ \E st \in Exists(c) : answer = (st = "ok")
    /\ swallowed' = IF answer = jrnl.exists THEN swallowed ELSE swallowed \union {"access"}
    /\ Reconnected(c)

\* Mutant: somebody always does.
ReservedAlways == TRUE

\* nfs4CheckReservedLock: nobody holds a RESERVED lock.
CheckReservedLock == FALSE

\* nfs4FileSize: the database has pages that the journal does not know.
HasGrown == DOMAIN db \ DOMAIN jrnl.orig # {}

\* Mutant: SQLITE_OK, as from nfs4Sync.
TruncateIgnored == TRUE

\* nfs4Truncate: SQLITE_ERROR.
TruncateOK == FALSE

\* delete(): the journal is removed, or nothing is, or not yet.
Remove(c, st) ==
    \/ /\ st = "ok"
       /\ NameRequestOK(c) /\ jrnl.exists
       /\ jrnl' = NoJournal
       /\ UNCHANGED late
    \/ /\ st = "error"
       /\ ~NameRequestOK(c) \/ ~jrnl.exists \/ "remove" \in Fault
       /\ late' \in {late} \union (IF "late" \in Fault THEN {late \union {c}} ELSE {})
       /\ UNCHANGED jrnl

\* Mutant: nfs4Delete returns before the answer to its REMOVE.
DeleteAsync(c) ==
    /\ late' = late \union {c}
    /\ UNCHANGED <<client, jrnl, swallowed>>

\* nfs4Delete on the journal: SQLITE_OK, whatever became of the REMOVE.
Delete(c) ==
    /\ Reconnected(c)
    /\ \E st \in {"ok", "error"} :
          /\ Remove(c, st)
          /\ swallowed' = IF st = "ok" THEN swallowed ELSE swallowed \union {"remove"}

-----------------------------------------------------------------------------
\* Reading: SHARED, then look for a journal that has to be played back.

Begin(c) ==
    /\ phase[c] = "idle" /\ client[c] = "ok"
    /\ Lk!Share(c)
    /\ GoTo(c, "check")
    /\ UNCHANGED <<todo, tx, client, files, late, committed, swallowed, begun>>

Check(c) ==
    /\ phase[c] = "check"
    /\ \E answer \in BOOLEAN :
          /\ Access(c, answer)
          /\ GoTo(c, IF answer /\ ~CheckReservedLock THEN "peek" ELSE "reading")
    /\ UNCHANGED <<level, todo, tx, files, late, committed, begun>>

\* The first byte of the journal.
Peek(c) ==
    /\ phase[c] = "peek"
    /\ FileRequestOK(c) /\ jrnl.exists
    /\ GoTo(c, IF jrnl.valid THEN "upgrade" ELSE "reading")
    /\ UNCHANGED <<level, todo, tx, client, files, late, committed, swallowed, begun>>

PeekFails(c) ==
    /\ phase[c] = "peek"
    /\ FileRequestFails(c) \/ ~jrnl.exists
    /\ GiveUp(c)

\* An EXCLUSIVE lock, to play the journal back or to write the database.
Exclude(c) ==
    /\ FileRequestOK(c)
    /\ Lk!Exclude(c)
    /\ \/ phase[c] = "upgrade" /\ GoTo(c, "recheck") /\ UNCHANGED todo
       \/ /\ phase[c] = "escalate" /\ GoTo(c, "write")
          /\ todo' = [todo EXCEPT ![c] = tx[c].pages]
    /\ UNCHANGED <<tx, client, files, late, committed, swallowed, begun>>

UpgradeFails(c) == phase[c] = "upgrade" /\ GiveUp(c)

\* With the lock the pager asks again: somebody else may have been faster.
Recheck(c) ==
    /\ phase[c] = "recheck"
    /\ \E answer \in BOOLEAN :
          /\ Access(c, answer)
          /\ IF answer
             THEN /\ GoTo(c, "truncate")
                  /\ todo' = [todo EXCEPT ![c] = IF jrnl.valid THEN jrnl.saved ELSE {}]
                  /\ UNCHANGED level
             ELSE /\ GoTo(c, "reading")
                  /\ level' = [level EXCEPT ![c] = IF @ = Lk!NO_LOCK THEN @ ELSE Lk!SHARED_LOCK]
                  /\ UNCHANGED todo
    /\ UNCHANGED <<tx, files, late, committed, begun>>

\* The database is cut back to its old size before its pages are restored.
Truncate(c) ==
    /\ phase[c] = "truncate"
    /\ FileRequestOK(c)
    /\ jrnl.valid /\ HasGrown => TruncateOK
    /\ GoTo(c, "playback")
    /\ UNCHANGED <<level, todo, tx, client, files, late, committed, swallowed, begun>>

TruncateFails(c) ==
    /\ phase[c] = "truncate"
    /\ FileRequestFails(c) \/ (jrnl.valid /\ HasGrown /\ ~TruncateOK)
    /\ GiveUp(c)

Restore(c) ==
    /\ phase[c] = "playback" /\ todo[c] # {}
    /\ FileRequestOK(c)
    /\ \E p \in todo[c] :
          /\ db' = [db EXCEPT ![p] = jrnl.orig[p]]
          /\ todo' = [todo EXCEPT ![c] = @ \ {p}]
    /\ UNCHANGED <<level, phase, tx, client, jrnl, late, committed, swallowed, begun>>

Restored(c) ==
    /\ phase[c] = "playback" /\ todo[c] = {}
    /\ GoTo(c, "drop")
    /\ UNCHANGED <<level, todo, tx, client, files, late, committed, swallowed, begun>>

RestoreFails(c) ==
    /\ phase[c] = "playback" /\ todo[c] # {}
    /\ FileRequestFails(c)
    /\ GiveUp(c)

\* The journal that was played back goes, and reading starts.
Drop(c) ==
    /\ phase[c] = "drop"
    /\ Delete(c)
    /\ GoTo(c, "reading")
    /\ level' = [level EXCEPT ![c] = IF @ = Lk!NO_LOCK THEN @ ELSE Lk!SHARED_LOCK]
    /\ UNCHANGED <<todo, tx, db, committed, begun>>

EndRead(c) == phase[c] = "reading" /\ GiveUp(c)

-----------------------------------------------------------------------------
\* Writing.

BeginWrite(c) ==
    /\ phase[c] = "reading"
    /\ begun < MaxTx          \* bound
    /\ FileRequestOK(c)
    /\ Lk!Reserve(c)
    /\ begun' = begun + 1
    /\ \E pages \in SUBSET (IF "grow" \in Fault THEN Page ELSE DOMAIN db) \ {{}} :
          tx' = [tx EXCEPT ![c] = [id |-> begun', pages |-> pages]]
    /\ GoTo(c, "open")
    /\ UNCHANGED <<todo, client, files, late, committed, swallowed>>

\* nfs4Open with SQLITE_OPEN_CREATE: OPEN4_CREATE, UNCHECKED4 and only the mode as
\* an attribute, so that a journal that is there keeps its contents.
OpenJournal(c) ==
    /\ phase[c] = "open"
    /\ FileRequestOK(c)
    /\ jrnl' = [(IF jrnl.exists THEN jrnl ELSE NoJournal) EXCEPT !.exists = TRUE]
    /\ GoTo(c, "header")
    /\ UNCHANGED <<level, todo, tx, client, db, late, committed, swallowed, begun>>

\* Mutant: new pages too.
PagesOfTx(c) == tx[c].pages

PagesToSave(c) == tx[c].pages \intersect DOMAIN db

\* A header of zeroes, over whatever was there.
Header(c) ==
    /\ phase[c] = "header"
    /\ FileRequestOK(c)
    /\ jrnl' = [exists |-> jrnl.exists, valid |-> FALSE, orig |-> db, saved |-> {}]
    /\ todo' = [todo EXCEPT ![c] = PagesToSave(c)]
    /\ GoTo(c, "save")
    /\ UNCHANGED <<level, tx, client, db, late, committed, swallowed, begun>>

Save(c) ==
    /\ phase[c] = "save"
    /\ FileRequestOK(c)
    /\ IF todo[c] = {}
       THEN GoTo(c, "sync") /\ UNCHANGED <<todo, jrnl>>
       ELSE \E p \in todo[c] :
               /\ jrnl' = [jrnl EXCEPT !.saved = @ \union {p}]
               /\ todo' = [todo EXCEPT ![c] = @ \ {p}]
               /\ UNCHANGED phase
    /\ UNCHANGED <<level, tx, client, db, late, committed, swallowed, begun>>

\* nfs4Sync does nothing and need not: each WRITE asked for FILE_SYNC4.  The pager
\* writes the header.
Sync(c) ==
    /\ phase[c] = "sync"
    /\ FileRequestOK(c)
    /\ jrnl' = [jrnl EXCEPT !.valid = TRUE]
    /\ GoTo(c, "escalate")
    /\ UNCHANGED <<level, todo, tx, client, db, late, committed, swallowed, begun>>

\* The journal stays where it is.
JournalFails(c) ==
    /\ phase[c] \in {"open", "header", "save", "sync", "escalate"}
    /\ FileRequestFails(c)
    /\ GiveUp(c)

\* Nothing is written to the database yet: the pager only removes its journal.
CallOff(c) ==
    /\ phase[c] \in {"save", "sync", "escalate"}
    /\ FileRequestOK(c)
    /\ GoTo(c, "abort")
    /\ UNCHANGED <<level, todo, tx, client, files, late, committed, swallowed, begun>>

Abort(c) ==
    /\ phase[c] = "abort"
    /\ Delete(c)
    /\ Leave(c)
    /\ UNCHANGED <<db, committed, begun>>

Write(c) ==
    /\ phase[c] = "write"
    /\ FileRequestOK(c)
    /\ IF todo[c] = {}
       THEN GoTo(c, "commit") /\ UNCHANGED <<todo, db>>
       ELSE \E p \in todo[c] :
               /\ db' = [q \in DOMAIN db \union {p} |-> IF q = p THEN tx[c].id ELSE db[q]]
               /\ todo' = [todo EXCEPT ![c] = @ \ {p}]
               /\ UNCHANGED phase
    /\ UNCHANGED <<level, tx, client, jrnl, late, committed, swallowed, begun>>

\* The pager rolls back what it has written, as for the journal of another.
WriteFails(c) ==
    /\ phase[c] = "write"
    /\ FileRequestFails(c)
    /\ Reconnected(c)
    /\ GoTo(c, "truncate")
    /\ todo' = [todo EXCEPT ![c] = jrnl.saved]
    /\ UNCHANGED <<level, tx, files, late, committed, swallowed, begun>>

Commit(c) ==
    /\ phase[c] = "commit"
    /\ Delete(c)
    /\ Leave(c)
    /\ committed' = db
    /\ UNCHANGED <<db, begun>>

-----------------------------------------------------------------------------
\* Around the pager.

\* The server gets to a REMOVE that nfs4Delete has given up.
RemoveLate ==
    /\ \E c \in late : late' = late \ {c}
    /\ jrnl' = [jrnl EXCEPT !.exists = FALSE]
    /\ swallowed' = IF jrnl.exists THEN swallowed \union {"late"} ELSE swallowed
    /\ UNCHANGED <<level, phase, todo, tx, client, db, committed, begun>>

\* The server forgets a client: its locks, and what it still had to do for it.
Expire(c) ==
    /\ client[c] = "ok"
    /\ "expire" \in Fault \/ phase[c] = "crashed"
    /\ client' = [client EXCEPT ![c] = "dead"]
    /\ level' = [level EXCEPT ![c] = Lk!NO_LOCK]
    /\ late' = late \ {c}
    /\ UNCHANGED <<phase, todo, tx, files, committed, swallowed, begun>>

Crash(c) ==
    /\ "crash" \in Fault
    /\ phase[c] # "crashed"
    /\ GoTo(c, "crashed")
    /\ Forget(c)
    /\ UNCHANGED <<level, client, files, late, committed, swallowed, begun>>

\* A new process, or the database is opened again.
Reopen(c) ==
    /\ phase[c] \in {"idle", "crashed"} /\ client[c] # "ok"
    /\ GoTo(c, "idle")
    /\ client' = [client EXCEPT ![c] = "ok"]
    /\ UNCHANGED <<level, todo, tx, files, late, committed, swallowed, begun>>

Next ==
    \/ \E c \in Conn :
          \/ Begin(c) \/ Check(c) \/ Peek(c) \/ PeekFails(c)
          \/ Exclude(c) \/ UpgradeFails(c) \/ Recheck(c)
          \/ Truncate(c) \/ TruncateFails(c)
          \/ Restore(c) \/ Restored(c) \/ RestoreFails(c) \/ Drop(c)
          \/ EndRead(c)
          \/ BeginWrite(c) \/ OpenJournal(c) \/ Header(c) \/ Save(c) \/ Sync(c)
          \/ JournalFails(c) \/ CallOff(c) \/ Abort(c)
          \/ Write(c) \/ WriteFails(c) \/ Commit(c)
          \/ Expire(c) \/ Crash(c) \/ Reopen(c)
    \/ RemoveLate

Spec == Init /\ [][Next]_vars

-----------------------------------------------------------------------------
\* Properties.

\* The database the next reader will see, once it has played back the journal.
Visible ==
    IF jrnl.exists /\ jrnl.valid
    THEN [p \in DOMAIN jrnl.orig |-> IF p \in jrnl.saved THEN jrnl.orig[p] ELSE db[p]]
    ELSE db

\* No wrong answer of nfs4Access, and no REMOVE that took away a later journal.
Clean == {"access", "late"} \intersect swallowed = {}

Applied(d, t) == [p \in DOMAIN d \union t.pages |-> IF p \in t.pages THEN t.id ELSE d[p]]

\* nfs4Delete, nfs4Truncate: what the next reader will see changes by whole
\* transactions, when a writer removes its journal, whoever fails, crashes or loses
\* its lock on the way.
Atomic ==
    [][Clean' /\ Visible' # Visible =>
          \E c \in Conn : phase[c] = "commit" /\ Visible' = Applied(Visible, tx[c])]_vars

\* nfs4Access, nfs4CheckReservedLock: a reader whose stateids are accepted never
\* looks at a database with a journal still to be played back.
ReadsWhole ==
    \A c \in Conn :
        phase[c] = "reading" /\ client[c] = "ok" /\ Clean => db = Visible

\* nfs4Delete: a transaction that was reported as committed stays, unless nfs4Delete
\* or nfs4Access has swallowed an error.
Durable == swallowed = {} => Visible = committed

\* nfs4Delete, nfs4Open: nobody but a connection with a lock above SHARED changes
\* the journal, although REMOVE asks for no lock and xCheckReservedLock sees none.
JournalUnderLock ==
    [][jrnl' # jrnl /\ "late" \notin swallowed' =>
          \E c \in Conn : level[c] > Lk!SHARED_LOCK
                          /\ (phase[c] # phase'[c] \/ todo[c] # todo'[c])]_vars

-----------------------------------------------------------------------------
\* Why they hold: the inductive invariant.

\* The lock of a pager in each phase, as long as the server knows its client.
PhaseLevel(p) ==
    CASE p = "idle"                                                   -> {Lk!NO_LOCK}
      [] p = "crashed"                                                -> Lk!Level
      [] p \in {"check", "peek", "upgrade", "reading"}                -> {Lk!SHARED_LOCK}
      [] p \in {"open", "header", "save", "sync", "escalate", "abort"} -> {Lk!RESERVED_LOCK}
      [] OTHER                                                        -> {Lk!EXCLUSIVE_LOCK}

\* One that has connected again without a lock is on its way to "idle".
LocksOK ==
    /\ Lk!Exclusion
    /\ \A c \in Conn :
         /\ level[c] \in IF client[c] = "ok" THEN PhaseLevel(phase[c]) ELSE {Lk!NO_LOCK}
         /\ client[c] = "stale" =>
                phase[c] \in {"idle", "crashed", "peek", "reading", "truncate"}

\* The pages of a transaction that the database has had before.
OldPages(c) == tx[c].pages \intersect DOMAIN jrnl.orig

\* The database as the writer has left it on its way.
HalfWritten(c) ==
    [p \in DOMAIN jrnl.orig \union (tx[c].pages \ todo[c]) |->
        IF p \in tx[c].pages \ todo[c] THEN tx[c].id ELSE jrnl.orig[p]]

\* What journal and database hold for the writer, and for one that plays back.
Saving(c) ==
    /\ ~jrnl.valid /\ jrnl.orig = db
    /\ todo[c] \subseteq OldPages(c) /\ jrnl.saved = OldPages(c) \ todo[c]

Saved(c, valid) == jrnl.valid = valid /\ jrnl.orig = db /\ jrnl.saved = OldPages(c)

Writing(c) ==
    /\ jrnl.valid /\ jrnl.saved = OldPages(c)
    /\ todo[c] \subseteq tx[c].pages /\ db = HalfWritten(c)

Restoring(c) ==
    /\ todo[c] \subseteq IF jrnl.valid THEN jrnl.saved ELSE {}
    /\ jrnl.valid => /\ DOMAIN db = DOMAIN jrnl.orig
                     /\ \A p \in jrnl.saved \ todo[c] : db[p] = jrnl.orig[p]

AtWork(c) ==
    /\ phase[c] = "save" => Saving(c)
    /\ phase[c] = "sync" => Saved(c, FALSE)
    /\ phase[c] = "escalate" => Saved(c, TRUE)
    /\ phase[c] = "abort" => jrnl.orig = db
    /\ phase[c] \in {"write", "commit"} => Writing(c)
    /\ phase[c] = "truncate" => todo[c] = IF jrnl.valid THEN jrnl.saved ELSE {}
    /\ phase[c] \in {"playback", "drop"} => Restoring(c)
    /\ phase[c] \in {"commit", "drop"} => todo[c] = {}

FilesOK ==
    /\ DOMAIN jrnl.orig \subseteq DOMAIN db
    /\ \A c \in Conn : client[c] = "ok" => AtWork(c)

\* A journal at work is found, and who may start to write sees what a reader would
\* see.
Finds(c) ==
    /\ phase[c] \in {"header", "save", "sync", "escalate", "abort", "write", "commit",
                     "truncate", "playback", "drop"} => jrnl.exists
    /\ phase[c] \in {"reading", "open", "header"} => db = Visible

FoundOK == Clean => \A c \in Conn : client[c] = "ok" => Finds(c)

IInv == TypeOK /\ LocksOK /\ FilesOK /\ FoundOK
================================================================================
