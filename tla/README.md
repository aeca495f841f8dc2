# ssqlite in TLA+

ssqlite is an SQLite VFS, `nfs4`, that keeps databases on an NFSv4.1 server
and talks to it from user space: processes without a kernel mount (AWS Lambda
functions) open the same database file over TCP. This directory models that VFS
and its client, checks the models with TLC and proves theorems about them with
TLAPS.

## The system

| Part | Source | State | Operations |
|---|---|---|---|
| VFS | `nfsv4/nfs4.c` | `appd` (one client per process), `sqlfile` (`eFileLock`, `file`) | the `sqlite3_vfs` and `sqlite3_io_methods` tables |
| File locking | `nfs4Lock`, `nfs4Unlock`, `lock_range`, `unlock_range` | `eFileLock`, `latest_sid`; at the server, byte-range locks | xLock, xUnlock |
| File data | `client.c`, `segment`, `read_chunk`, `write_chunk` | none between calls | xRead, xWrite, xFetch |
| Open, close | `client.c`, `push_open`, `parse_open` | `file` (file handle, `open_sid`, `latest_sid`) | xOpen, xClose |
| What the journal needs | `nfs4.c`, `delete`, `exists`, `file_size` | none; at the server, the journal | xDelete, xAccess, xTruncate, xSync, xFileSize, xCheckReservedLock |
| RPC and sessions | `rpc.c` | `client`: fd, xid, client id, session, sequence ids, two buffers | `transact`, `replay_rpc`, `rpc_connection` |
| Encoding | `xdr.c`, `nfs4_internal.h` | a buffer | `push_*`, `parse_*` |
| Runtime | `buffer.h`, `vector.h`, `runtime.h`, `config.h`, `codepoint.h` | buffers, environment | append, split, join, numbers |
| Benchmark | `pyvfsbench/vfsbench.c` | `test_config`, `TestResult` of each thread | create threads, open, operate, join, save |
| Other tests | `test`, `nfsv4/test` | | drive the VFS, draw results |
| Deployment | `dist`, `tools`, `lambda-efs.json` | | start it in Lambda |

SQLite calls the VFS; each VFS call that needs the server builds one compound
request in the buffer `forward` and hands it to `transact()`, which sends it,
waits for the reply in the buffer `reverse`, and, when the connection or the
session turns out to be gone, runs `rpc_connection()` and sends the request
again. All connections of a process go through one client, or through one each
when the VFS is built with `NFS4_CLIENT_PER_FILEHANDLE`. Different processes meet
only at the server. The benchmark drives the VFS from several threads of a process.

What is hard about it:

* a VFS call is several requests, and other processes run between them;
* any of the requests may fail, and the call then stops half way;
* a request may be lost, executed without a reply, or executed late, and
  `transact()` repeats it from inside a client that reconnects recursively;
* the server forgets clients: leases end (nothing renews them), processes die;
* what the client has recorded (level, stateid, session, sequence id) may no
  longer be what the server has;
* a request and its reply are put together and taken apart by hand, in two buffers
  that are used again and again, and the reply may report an error at any place;
* threads that share a client share these buffers, and nothing locks them.

`PROJECT.json` lists these as hazards, each at its line.

What makes each part correct:

* locking: one writer and no reader beside it; what SQLite believes to hold,
  the server has granted; no lock is left behind; writers are not starved;
* sessions: a call is executed at most once, and exactly once when it returns
  OK; every call returns;
* transactions: seen as a whole or not at all, and for good once committed;
* encoding: the server reads what was meant, the client keeps what the server said,
  whatever was in the buffers before;
* threads: each takes the answer to its own request, and the results are those of
  threads that have ended;
* data: what was read under a lock is what the file holds; only the holder of
  the EXCLUSIVE lock changes it; a write covers its range.

## The modules

| Module | Models | Kind |
|---|---|---|
| `SqliteLock` | what SQLite asks of xLock and xUnlock | abstract specification |
| `NfsLock` | `nfs4Lock`, `nfs4Unlock`, open and close, the server's lock table | detailed, implements `SqliteLock` |
| `RpcSession` | `transact`, `replay_rpc`, `rpc_connection`, `create_session`, `create_client` | detailed |
| `FileIo` | `readfile`, `writefile`, `segment`, the stateids they use | detailed, composed on what the two above show |
| `Journal` | SQLite's rollback journal over `nfs4Access`, `nfs4Delete`, `nfs4Truncate`, `nfs4Sync`, `nfs4CheckReservedLock` | composes `SqliteLock` with the files |
| `Compound` | requests and replies in their buffers: `allocate_rpc`, `push_*`, `rpc_send`, `read_response`, `read_until`, `parse_*`, `buffer.h`, `split`, `config_u64` | detailed |
| `Bench` | the threads of `benchmark_vfs`, `nfs4Open` and `create_client` between them, calls on a client that may be shared | detailed |
| `MCNfsLock`, `MCRpcSession`, `MCFileIo`, `MCJournal`, `MCCompound`, `MCBench` | instances for TLC | |
| `NfsLockProofs`, `FileIoProofs`, `RpcSessionProofs`, `JournalProofs`, `BenchProofs`, `CompoundProofs`, `ReplyProofs`, `RequestProofs` | theorems | |

**NfsLock.** `pager[c]` is the level SQLite believes in, `eFileLock[c]` the one
in the `sqlfile`, `held` the server's table. A call is started by `Lock` or
`Unlock`, which contain the early returns and choose the first request; then each
request is one of `Executed`, `Refused`, `Severed`, `ReplyLost`, and
`NextRequest`, `Regions` and `LockMode` say which request comes next and what it
asks for. The three byte ranges are the regions PENDING, RESERVED and SHARED; the
510 bytes of SHARED are always locked together. The server keeps locks by client
id, since every LOCK of a client names the same lock owner; a new client id comes
with each EXCHANGE_ID (`Open`), and `transact()` in a new session cannot use the
stateids of the old one, so `Severed` ends the call. `Fault` chooses what may go
wrong; each kind is explained where it is declared. Two of them are the price of
the code's own shortcuts: `refuse_unlock` and `lost_reply` break the agreement of
`eFileLock` with the server, see below. A third is `untyped_unlock`: from SHARED to NONE
`nfs4Unlock` sends its LOCKU with an `l_type` nobody has assigned (nfs4.c:239, 271-274),
so that a server may find no lock type in it and refuse (`Untyped`). The read lock
stays then, and stays recorded until the file is closed; after that nobody knows of it
and it keeps writers out. It breaks nothing else: `lock_three` has it, and every theorem
but `NoOrphanLockHolds` allows for it, `Refinement` among them, on which `FileIo` and
`Journal` rest.

**RpcSession.** `pc` is the place in `transact()` or in the `rpc_connection()` it
calls; `tries` is the stack of the `tries` counters of nested transacts. `req` is
the request as its buffer holds it: `replay_rpc()` patches the wrong bytes
(`PatchOffset` against `SessionOffset`), which the model derives from the layout
`allocate_rpc()` writes, and marks the request as damaged. `Verdict` is the
server's SEQUENCE. Requests of a connection that was given up stay in `delayed`
and may be executed at any later time. `CreateAgain` is the replay of
CREATE_SESSION, which sends a request of length 0 and waits for its answer.

**FileIo.** One action per round of `segment()` with the outcomes of its request.
Locks are taken and dropped in one step, which `NfsLock` justifies: its theorem
`Refinement` says that the levels the server grants change like that. That a
request is executed at most once is `AtMostOnce` of `RpcSession`; that one which
failed may be executed later is its `delayed`, here `late`. The file holds, for
each byte, the write call that put it there.

**Journal.** What the calls above are for: one action per call of SQLite's pager
in a transaction with `journal_mode=delete`, each with what the VFS makes of it.
The pager is external and no more than the calls it makes; the VFS's part is in
`Access` (`nfs4Access` says "no" on any error), `Delete` (`nfs4Delete` says
OK on any error, and its REMOVE may come late), `TruncateOK` (`nfs4Truncate` only
fails; the pager calls it only when the file `HasGrown`), `CheckReservedLock`
(`nfs4CheckReservedLock` says "nobody"), `OpenJournal` (a journal that exists is not
emptied), and in the difference between requests that need a stateid and requests
that need a session only. Locks are those of `SqliteLock`, through an INSTANCE; a
page is written in one step, because `FileIo` shows that a reader under a lock sees
whole chunks. `swallowed` records which errors the VFS has kept to itself.

**Compound.** A word stands for four bytes. `Request` lists the operations of a call
as the `push_*` functions write them, one sequence for each `buffer_extend()`;
`Begin` pushes them into the buffer (`Build`), `Send` fills in the number of
operations and the length. The server reads the words by the grammar of RFC 5661
(`Understand`), and `Meant` says what it should find, in terms of what the server
itself has handed out. It answers with success or with an error at any operation;
the reply arrives in pieces (`Arrive`) and is collected by `ReadFrame` and `ReadBody`
in a buffer that still holds the last one. `Outcomes` is the client's parser, with the
places it takes values from: `read_until` skips a fixed number of words of each
operation, `parse_open` finds its way through seven forms of delegation. The
connection does not break here, that is `RpcSession`. Abstracted: words are not
split by TCP, `push_fixed_string` makes room for one more word than it writes,
`NFS_USE_FILEHANDLE` is on (`config_boolean` cannot turn it off).

**Bench.** `main` and `t` are `benchmark_vfs` with its two loops, `pc[i]` a thread in
`run_test` or in a call. A call is `Allocate`, `Fill`, `Send`, two times `ReadPiece`, and
`Parse`, with the threads interleaved in between, and a thread that calls on a client
another one is still connecting fails or is `lost`; `xid`, `forward`, `reverse` and the
connection belong to a client, `file[i]` names the one of the thread. `nfs4Open` is four
steps: `Open` tests `*c == 0` (nfs4.c:496), `MakeClient` is `create_client()` as far as
`*dest = c` (client.c:177), `Connect` its `rpc_connection()`, and `Take` reads `*c` again for
`file_create()` and its kin. Between any two of them other threads run: two may both find
`ad->c` empty and make a client each, of which the later one replaces the other; one may
take a client that is still connecting, or another than it has made itself. `ClientOf`
is `*c`, the local variable or `ad->c`. A thread that reads a piece
of a reply it did not begin is `lost`. `Return` is what a result means for the
thread: `exit(1)` for the process, a broken loop, a division by zero.

## The runs

| Run | Question | Result |
|---|---|---|
| `lock_three` | three processes, refused locks, the untyped LOCKU refused: `MutualExclusion`, `SingleWriter`, `PendingBarsReaders` | hold |
| `lock_faults` | two processes, three client ids, refused locks, reconnects, crashes, ended leases: `IInv`, `Honest`, `NoOrphanLock`, refinement of `SqliteLock` | hold |
| `lock_all` | every fault: types, and the assertions at the head of `nfs4Lock` | hold |
| `pending_leak` | nfs4.c:172 "For the SHARED lock, the PENDING will be released" | violated: the returns at 193 and 200 keep it |
| `early_return` | nfs4.c:155 "If there is already a lock of this type or more restrictive on the unixFile, do nothing" | violated: after a failed unlock `eFileLock` names a lock that is gone |
| `rpc_session` | three calls, four faults: `IInv`, at most once, OK means executed, nothing late succeeds, every call returns | hold |
| `rpc_replay` | rpc.c:392, the layout `replay_rpc` patches | violated: offset 60 is the uid, the session id is at 96 |
| `io_locked` | two connections, a file of three bytes, chunks of two, late and failed WRITEs, ended leases: `IInv`, `ReadsCurrent`, `WritesUnderLock` | hold |
| `io_segments` | one connection, every range of five bytes in chunks of two: `WrittenPrefix`, `CallsReturn` | hold |
| `journal` | two connections, two pages, two write transactions, every fault: `IInv`, `Atomic`, `ReadsWhole`, `Durable`, `JournalUnderLock` | hold, with the exceptions below |
| `compound` | a connection and three calls, buffers that grow, every delegation, an error at any operation: `IInv`, `Understood`, `NoOverrun`, `InStep`, `Answered`, `ReplyTaken`, `CallsReturn` | hold |
| `bench` | one to three threads, each with its client, or two that race for `ad->c`: `OwnAnswer`, `CountsOwn`, `BenchEnds` when no client has two threads, `IInv`, `OwnClientsAnswer` and `ResultsAfterJoin` always | hold |

A remark on `bench`. Without the condition `Alone` two threads violate each of
`OwnAnswer`, `CountsOwn` and `BenchEnds` in the default build: both allocate in
`forward`, and what one sends is the other's request, or both; or one reads the length of
the reply and the other what should follow. `NFS_REQUESTS_LIMIT` (32 by default)
promises nothing about threads. Two threads that both find `ad->c` empty make two
clients; they go on with the later one, or the first with its own if it has taken it
before the other replaced it. What is left to say then is `OwnClientsAnswer`: buffers and
connection are those of the file's client from `allocate_rpc()` to `parse_rpc()`, so no
answer crosses from one client to the other (the mutant `FillShared` uses those of
`ad->c`); and `ResultsAfterJoin`, which depends on no client.

A remark on `compound`. `Understood` needs root handles of `NFS4_FHSIZE` bytes, as
`push_resolution_rfh` sends that many. `Answered` excepts OPEN: `parse_open` refuses
WRITE delegations and has no return value when it succeeds, so an OPEN that the
server has carried out may fail. A READ delegation whose ace has a name that does not
fill its words ends in an error too (`AfterDelegation`). None of these makes the client take a wrong
value: what is read next does not look like the GETFH that must follow.

A remark on `journal`. `Atomic` and `ReadsWhole` except behaviours in which
`nfs4Access` has denied a journal that exists, and those in which a REMOVE that
`nfs4Delete` reported as done has taken away a later journal; `Durable` also those
in which the REMOVE failed, so that a transaction reported as committed is rolled
back by the next reader. These errors are lost in the VFS (nfs4.c:533, 556) and
SQLite cannot react. All else is safe. That `nfs4CheckReservedLock` answers
"nobody" does no harm: the SHARED lock of a writer keeps others from playing back
its journal, whereas "somebody" would hide a hot one (`ReservedAlways`). A
`nfs4Truncate` that fails rather than pretends (`TruncateIgnored`) leaves the journal
in place, though recovery never gets further. As with sessions, the broken replay
helps: a REMOVE repeated in a new session would be one without a lock
(`NameRequestReplayed`).

A remark on `rpc_session`: calls are executed at most once *because* the replay is
broken. With the session id patched where it belongs (the mutant
`PatchOffsetRight`) a request whose first copy was executed, or is still under way,
is executed again in the new session; the client has no way to know. The defect
turns a lost reply into an error, which SQLite can handle. `OkMeansExecuted`
needs a server that does not answer repeated sequence ids from a reply cache
(`ServerCaches = FALSE`; the client asks for no caching, `sa_cachethis = 0`): with
one, a CREATE_SESSION that fails leaves the old session with sequence ids that
start again at 1, and calls are answered that never ran.

Bounds. Locks: two processes show every pair of interleaved calls, the third is
there for two readers against a writer; three client ids let a process come back
twice while another holds its own. `Fault` is a constant so that each run says
what it assumes. Sessions: three calls, so that a request of the first can arrive
during the third; four faults break the call, the reconnect, its CREATE_SESSION
and the retry. Data: with chunks of two, three bytes give a full and a short
chunk, five give two full and a short one; `MaxSeqid = 3` gives a read lock, its
upgrade and one more step of the server. The bounds `MaxCalls`, `MaxFaults`,
`MaxWrites`, `MaxSeqid` are guards named in the modules; `TypeOK` of `RpcSession`
does not depend on them.

Transactions: two, so that a late REMOVE of the first can meet the journal of the
second; two pages, so that a transaction can be half written and can add a page
(`MaxTx` is the guard in `BeginWrite`).

Requests: three calls are an OPEN, a LOCK and what needs its stateid; a call by name
is never the third, and is not made while a file is open. `Capacity = 24` words
(4096 in the code) makes every longer request grow its buffer, `Burst = 13` words
cuts a reply into up to five pieces, and since a piece may wait for the next the
larger ones occur as well; a limit of 40 lies between the client's (70 and 32).
Threads: two with two blocks each show every pair of steps, the third joins for one
block; two in the default build open the file and ask for its size, which is two calls of
each on what the race for `ad->c` has left. One fault breaks a connect, an OPEN, a
GETATTR or an operation (`MaxFaults`).

Deadlock is checked in the lock runs and in `journal`. The others end when their bounds are used
up, and say `CHECK_DEADLOCK FALSE`.

Fairness. `RpcSession`: `WF_vars(Step)`, that is, a thread inside a call runs, and
each request that was sent is answered or reported lost. The code has no
timeouts, so this is the server's and TCP's part; left out are `CreateAgain`, to
which nobody will ever answer, and a `read_fully()` that spins at end of file
(rpc.c:157), taken as an error here. New calls and faults are not fair. `FileIo`:
`WF_vars(Answered(c))`, because `transact()` returns, as `rpc_session` shows. `Compound`:
the same for one connection that does not break, each part of a call by itself; that
of `Send` and `Return`, which every state at their place enables, is written as
`[]<>(pc # "send")` and `[]<>(pc # "parse")`. `Bench`:
`WF_vars` of each thread, of the server for each client and of the main thread: the
operating system schedules threads, the server answers what it was sent.

## What is proved

For any number of connections, client ids, calls, faults, pages, transactions, threads,
any size of file and chunk:

* `NfsLockProofs`: `TypeCorrect` and `AssertionsCorrect` under every fault. Under
  `Reliable` (no LOCKU is refused but the untyped one, no reply is lost in a session that
  goes on): `Inductive`, and from it `MutualExclusionHolds`, `SingleWriterHolds`,
  `HonestHolds`, `PendingBarsReadersHolds`, `Refinement`; with `Typed` as well (nor is the
  untyped one refused) `NoOrphanLockHolds`. The abstract lock excludes (`AbstractExcludes`),
  hence so do the locks the server has granted (`ExclusionHolds`).
* `FileIoProofs`: `TypeCorrect`, `WritesUnderLockHolds`, `Inductive` under every
  fault; `ReadsCurrentHolds` under `Exact` (reads are not short, and the status of
  `readfile()` is what xRead returns); `WrittenPrefixHolds` under `Exact` and `Prompt`
  (no WRITE is executed late).
* `RpcSessionProofs`: `TypeCorrect`, `Inductive`, `AtMostOnceHolds`,
  `DelayedNotReportedHolds`, and `OkMeansExecutedHolds` for a server without a reply
  cache.
* `JournalProofs`: `TypeCorrect`, `Inductive`, `AtomicHolds`, `ReadsWholeHolds`,
  `DurableHolds`, `JournalUnderLockHolds`, all under every fault.
* `BenchProofs`: `TypeCorrect`, `Inductive`, `OwnAnswerHolds`, `CountsOwnHolds`, and
  with the race for `ad->c` `OwnClientsAnswerHolds` and `ResultsAfterJoinHolds`.
* `CompoundProofs`, for any buffer size, handle size, set of paths (with one name at
  least), of data and of pieces: `TypeCorrect` (the invariant `IInv`), `NoOverrunHolds`,
  `ReplyTakenHolds`, and about the functions of the code `SplitDivides` and `BuildIs`.
* `ReplyProofs`, for the same: `InStepHolds`, `AnsweredHolds`, and about the parsers
  `CarriedOutTells`.
* `RequestProofs`, for the same, and any digits of `NFS_OPS_LIMIT`: `UnderstoodHolds`,
  and about requests `RequestReads` and `FramedIsRead`.

**NfsLock.** `MutualExclusion` alone is not inductive: it speaks of what SQLite believes. The
invariant `IInv` of `NfsLock` has four parts. `IdsDistinct` and `HeldCompatible`
are the server's side: no two processes share a client id, and locks of different
clients never conflict. `CallOK` says which request can be next at which
`eFileLock`. `ServerOK` ties the two together: between the requests of a call the
table holds exactly what `eFileLock` and the place in the call imply. Each action
changes one region of one client, so that the proof goes by action and, in it, by
process. Mutual exclusion then follows from the table. For the refinement,
`Granted` reads a level out of the table; requests that change PENDING only are
stutters. `Reliable` is needed: `early_return` is a counterexample without it. Without
`Typed` a SHARED level may still be recorded when SQLite believes in none, and a client
without a file may have a read lock (`Holds`).

**FileIo.** A stateid that is up to date stands for the lock SQLite
believes in (`StateidOK`), so a request the server accepts is covered by a lock;
a late WRITE it still accepts was sent under a lock still held (`LateOK`); what a
read has counted as done is current (`ReadSoFar`). For `WrittenPrefix`, `WriteSoFar`
says the same of a write, byte by byte: in front of the place the bytes are those of
the call, behind it they are not. `Exact` is needed: a short read leaves old memory in
the page, and without a return statement an error may look like success. `Prompt` is
needed as well: a WRITE of an earlier call of the same connection, given up and
executed late, does put old bytes where the call has already been.

**RpcSession.** Why at most once: a copy of a request is whole or damaged (`req.intact`),
and `replay_rpc()` damages what it touches. `FirstCopy` says that as long as a whole
copy is in the buffer or under way no other copy of its call was executed, and that
there is one whole copy of a call at most; `OwnRequest` ties the buffer to the call, and
says that calls yet to come have left no trace. An answer counts only for the copy just
sent, and that one has been executed when a server without reply cache answers OK.

**Journal.** `PhaseLevel` gives the lock of each phase of the pager, as long as the server
knows its client; with `SqliteLock`'s exclusion (`LocksOK`) a phase that changes a
file runs alone. `AtWork` (`FilesOK`) says how far it has come: `Saving` and `Saved` what the
journal holds of the transaction's pages, `Writing` which pages the database has
already taken over, `Restoring` which of them are back. `Finds` (`FoundOK`) says that
a journal at work is there to be found, and that who reads, or may start to write, has
the database a reader would see; it alone needs `Clean`. A client the server has forgotten is
exempt: its requests with a stateid are refused. `Atomic` follows step by step, from what each
action makes of the view (`Visible`).

**Bench.** `CallOK(i)` gives, for each place of a thread in a call, what its client holds: whose
request is in `forward`, what is on the connection, how far the server is, which reply is
in `reverse`. With one thread to a client (`Alone`) no other thread changes any of it.
With several, `ClientOK` remains: whatever is in the buffers and on the connection of a
client was asked by threads whose file has that client, and a file keeps its client; so
`OwnClientsAnswer` follows.
`OrderOK` and `ProgressOK` are about `main`: it has joined the first `t` threads, and those have ended.

**Compound.** `NoOverrun` alone is not inductive: that a push stays inside the memory
depends on the room `buffer_extend()` has made, that `read_fully()` does depends on how
many words are still to come. `IInv` has four parts. `CallAllowed` says which call is in
progress at which stage of the connection, so that what it needs (the file, the root) is
there. `BuffersHold`: both buffers are `Sound`, their memory is as long as they say, and
before a request is sent the number of operations has its place. `OneReply`: the first
word of the reply is the number of the others, and what is in the buffer, in the socket
and on the wire adds up to it. `BuildIs` is where the buffer is used: by induction over
the sequences pushed, the contents are those sequences, whatever the buffer held before
and however often it grew. `SplitDivides` does the same for `split()`.

**Replies.** Neither `InStep` nor `Answered` is inductive: both speak of the end of a call,
and what the client will find depends on the reply on its way. `Faithful`, inductive
together with `IInv`, adds what is true before. `InTransit`: what is in the buffer, in the
socket and on the wire, in this order, is one reply, either `Granted`, the words of every
operation in terms of what the server knows by now, or `Denied`, an error in the seventh
word. `Knows`: from each stage of the connection on the client has what the server handed
out then, and the stateid in `f` is the server's except while the reply that brings the
next one is under way (`Current`). So each step either moves words along or, in `Return`,
is `CarriedOutTells`: of the operations carried out the skipped ones come first
(`Leads`), `read_until()` finds the one the call is about (`ReachIs`), and the parser
takes each value from its place (`ExchangeLeaves` to `OpenLeaves`). A string comes back as
it was pushed (`StringAt`), and GETFH is found behind each delegation that `parse_open`
gets through (`DelegationIs`). The invariant was checked on the instances of `MCCompound`
before it was proved.

**Requests.** `Understood` compares what was sent with what it should mean, so what has to be
carried to `Send` is that the words in the buffer are those of a request whose every
field says what the server knows. `Prepared`, inductive together with `IInv` and
`Faithful`, does so: from `Begin` to `Send` there is a client that `Agrees` with the
server (client id, session and next sequence id, sequence id and limits of
CREATE_SESSION, a root handle that fills its array, handle and stateids of the file), and
the buffer holds the words of its request (`Pending`); after EXCHANGE_ID the client has the
server's sequence id (`Numbered`); handles are short enough for their length (`Sized`).
`Begin` establishes it by `BuildIs` and by what `Knows` says of an idle client. `Send` uses it
by two theorems. `FramedIsRead`: where each field of an operation is as wide as the
grammar takes it to be and says what it should, the server's places are those where the
fields were pushed, so that it reads the request whole, to the last word. `RequestReads`:
the twelve requests of the code are made of such operations, each with its fields pushed in
the order of the grammar (`SequenceReads` to `LockuReads`, `PathReads`, `OnFileReads`). How a
string is cut into words and put together again is `StringPart`; that a request has as
many operations when it is sent as when it was begun is `LengthSame`. `RootLength = FhSize` is needed where
the root handle is sent (`push_resolution_rfh`): `RootHandleIs`.

Induction. A theorem over an operator cannot be used, but one over a set can: `Induction`
in `CompoundProofs` says that a set of places with the first and, with each, the next
has them all, and `Recursion` that a function defined by steps exists. Both come from the
least place that is missing (`WFMin` of the library). So the functions `FlattenSeq`, `Split`
and `Build` of the models, written as recursive functions and folds, can be proved about.

## Only model-checked

Liveness (`CallsReturn`, three times, and `BenchEnds`), which is beyond the prover, and the
three violations. Every other property of a run is stated by a theorem.

## Not modelled

`PROJECT.json` gives the reason for each part. Abstracted everywhere: tracing, error
texts, memory that is never freed, times. Two connections of one process on one
client: they share the lock owner, so the server sees no conflict between them;
`NfsLock` gives each connection a client of its own, and its theorems say nothing
of this case. The server is modelled from how the client
uses it (RFC 5661 as the code cites it): it is assumed correct. SQLite's pager is
modelled as the set of calls it may make.

## Plan

1. Two files of one process on the same server file in `NfsLock`: the lock owner is
   shared, a second OPEN steps the stateid.
2. `join`, `print_u64` and the quantile summary of `gk.c` against reference
   definitions.
