-------------------------------- MODULE FileIo --------------------------------
(***************************************************************************)
(* xRead and xWrite: readfile() and writefile() move a range in chunks of  *)
(* at most ChunkSize bytes, one READ or WRITE each (client.c, and segment, *)
(* read_chunk and write_chunk in rpc.c).                                   *)
(*                                                                         *)
(* Nothing in the client keeps two connections apart while they do so; that*)
(* is left to SQLite, which reads under a SHARED and writes under an       *)
(* EXCLUSIVE lock, and to the server, which refuses a request with a       *)
(* stateid that is out of date.  NfsLock shows how the locks come about;   *)
(* here they are taken and dropped in one step.  As RpcSession shows, a    *)
(* request is executed at most once, but a request that failed may be      *)
(* executed after its call has returned.                                   *)
(*                                                                         *)
(* A byte of the file is the write call that put it there.                 *)
(***************************************************************************)
EXTENDS Naturals

CONSTANTS
    Conn,        \* connections to one database file, each with its own client
    Size,        \* bytes in the file
    ChunkSize,   \* c->maxresp and c->maxreq
    MaxWrites,   \* bound: write calls per connection
    MaxSeqid,    \* bound: lock and unlock requests per connection
    Fault        \* what may go wrong, see below

FaultKind ==
    {"fail",       \* a request fails, executed or not
     "late",       \* a WRITE that failed is executed later
     "expire",     \* the lease of a connection ends and the server drops its state
     "short",      \* the server returns fewer bytes than asked for, at end of file say
     "no_return"}  \* nfs4Read and nfs4Write have no return statement: a compiler
                   \*   that makes use of it leaves the return code undefined

ASSUME SizeAssumption == Size \in Nat \ {0}
ASSUME ChunkAssumption == ChunkSize \in Nat \ {0}
ASSUME BoundAssumption == MaxWrites \in Nat /\ MaxSeqid \in Nat
ASSUME FaultAssumption == Fault \subseteq FaultKind

Byte == 0 .. Size - 1

\* The n-th write call of c; the 0-th stands for what was there before.
Tag == Conn \X (0 .. MaxWrites)

VARIABLES
    file,     \* the file on the server
    granted,  \* granted[c]: the lock the server has granted
    seqid,    \* seqid[c]: the sequence number of the stateid that goes with it
    held,     \* held[c]: the lock SQLite believes to hold
    latest,   \* latest[c]: f->latest_sid
    call,     \* call[c]: the last call of xRead or xWrite
    mem,      \* mem[c]: the caller's memory, by the offset in the file
    writes,   \* writes[c]: write calls made
    late      \* WRITEs that failed and may still be executed

locks == <<granted, seqid, held, latest>>
vars  == <<file, locks, call, mem, writes, late>>

LockLevel == {"none", "shared", "exclusive"}
Stale     == <<"stale">>   \* memory that no read has filled

CallRecord ==
    {r \in [op     : {"read", "write"},
            offset : Byte,
            length : 1 .. Size,
            done   : 0 .. Size,
            status : {"none", "running", "ok", "error"}] :
        r.offset + r.length <= Size /\ r.done <= r.length}

TypeOK ==
    /\ file \in [Byte -> Tag]
    /\ granted \in [Conn -> LockLevel]
    /\ seqid \in [Conn -> Nat]
    /\ held \in [Conn -> LockLevel]
    /\ latest \in [Conn -> Nat]
    /\ call \in [Conn -> CallRecord]
    /\ mem \in [Conn -> [Byte -> Tag \union {Stale}]]
    /\ writes \in [Conn -> 0 .. MaxWrites]
    /\ late \subseteq [conn : Conn, seqid : Nat, bytes : SUBSET Byte, tag : Tag]

NoCall == [op |-> "read", offset |-> 0, length |-> 1, done |-> 0, status |-> "none"]

Init ==
    /\ \E c \in Conn : file = [b \in Byte |-> <<c, 0>>]
    /\ granted = [c \in Conn |-> "none"] /\ seqid = [c \in Conn |-> 0]
    /\ held = [c \in Conn |-> "none"] /\ latest = [c \in Conn |-> 0]
    /\ call = [c \in Conn |-> NoCall]
    /\ mem = [c \in Conn |-> [b \in Byte |-> Stale]]
    /\ writes = [c \in Conn |-> 0]
    /\ late = {}

Running(c) == call[c].status = "running"

\* The server knows the stateid the client sends.
Valid(c) == latest[c] = seqid[c]

-----------------------------------------------------------------------------
\* Locks, taken and dropped between calls.  Each LOCK and LOCKU moves the
\* sequence number of the stateid on.

\* MUTANT the stateid stays the same
BumpNothing(c) == UNCHANGED <<seqid, latest>>

\* parse_stateid() stores what the server answers.
Bump(c) ==
    /\ seqid' = [seqid EXCEPT ![c] = @ + 1]
    /\ latest' = [latest EXCEPT ![c] = seqid'[c]]

Acquire(c, level) ==
    /\ ~Running(c) /\ Valid(c)
    /\ seqid[c] < MaxSeqid      \* bound
    /\ \/ level = "shared" /\ held[c] = "none"
          /\ \A d \in Conn \ {c} : granted[d] # "exclusive"
       \/ level = "exclusive" /\ held[c] = "shared"
          /\ \A d \in Conn \ {c} : granted[d] = "none"
    /\ granted' = [granted EXCEPT ![c] = level]
    /\ held' = [held EXCEPT ![c] = level]
    /\ Bump(c)
    /\ UNCHANGED <<file, call, mem, writes, late>>

\* What has been read counts until then.
Forget(c) ==
    /\ call' = [call EXCEPT ![c] = NoCall]
    /\ mem' = [mem EXCEPT ![c] = [b \in Byte |-> Stale]]

Release(c) ==
    /\ ~Running(c) /\ Valid(c)
    /\ held[c] # "none"
    /\ granted' = [granted EXCEPT ![c] = "none"]
    /\ held' = [held EXCEPT ![c] = "none"]
    /\ Bump(c)
    /\ Forget(c)
    /\ UNCHANGED <<file, writes, late>>

\* The server forgets what it granted; the client does not know.
Expire(c) ==
    /\ "expire" \in Fault
    /\ granted[c] # "none"
    /\ granted' = [granted EXCEPT ![c] = "none"]
    /\ seqid' = [seqid EXCEPT ![c] = @ + 1]
    /\ UNCHANGED <<file, held, latest, call, mem, writes, late>>

\* The connection is closed and opened: a new stateid.
Reopen(c) ==
    /\ ~Running(c) /\ ~Valid(c)
    /\ held' = [held EXCEPT ![c] = "none"]
    /\ latest' = [latest EXCEPT ![c] = seqid[c]]
    /\ Forget(c)
    /\ UNCHANGED <<file, granted, seqid, writes, late>>

-----------------------------------------------------------------------------
\* Calls.

Start(c, op) ==
    \E offset \in Byte : \E length \in 1 .. Size - offset :
        call' = [call EXCEPT ![c] = [op |-> op, offset |-> offset,
                                     length |-> length, done |-> 0,
                                     status |-> "running"]]

\* xRead, with memory SQLite has not filled.
Read(c) ==
    /\ ~Running(c)
    /\ held[c] # "none"
    /\ Start(c, "read")
    /\ mem' = [mem EXCEPT ![c] = [b \in Byte |-> Stale]]
    /\ UNCHANGED <<file, locks, writes, late>>

\* xWrite
Write(c) ==
    /\ ~Running(c)
    /\ held[c] = "exclusive"
    /\ writes[c] < MaxWrites    \* bound
    /\ writes' = [writes EXCEPT ![c] = @ + 1]
    /\ Start(c, "write")
    /\ UNCHANGED <<file, locks, mem, late>>

-----------------------------------------------------------------------------
\* One round of segment().

\* MUTANT no MIN
TransferWhole(c) == ChunkSize

\* MIN(length - done, chunksize)
Transfer(c) ==
    LET rest == call[c].length - call[c].done
    IN  IF rest < ChunkSize THEN rest ELSE ChunkSize

\* MUTANT each chunk is taken from the start of the range
PositionStuck(c) == call[c].offset

\* offset + done
Position(c) == call[c].offset + call[c].done

Chunk(c, n) == {b \in Byte : Position(c) <= b /\ b < Position(c) + n}

\* The status of readfile() and writefile() as xRead and xWrite return it.
ReturnCode(status) == IF "no_return" \in Fault THEN {"ok", "error"} ELSE {status}

\* MUTANT done is never moved on
NextSegmentStuck(c) ==
    IF call[c].done + Transfer(c) < call[c].length
    THEN UNCHANGED call
    ELSE \E code \in ReturnCode("ok") : call' = [call EXCEPT ![c].status = code]

\* MUTANT the last chunk is left out when it is a short one
NextSegmentShort(c) ==
    IF call[c].done + Transfer(c) + ChunkSize <= call[c].length
    THEN call' = [call EXCEPT ![c].done = @ + Transfer(c)]
    ELSE \E code \in ReturnCode("ok") :
             call' = [call EXCEPT ![c].done = @ + Transfer(c), ![c].status = code]

\* done += xfer, whatever the server made of it
NextSegment(c) ==
    IF call[c].done + Transfer(c) < call[c].length
    THEN call' = [call EXCEPT ![c].done = @ + Transfer(c)]
    ELSE \E code \in ReturnCode("ok") :
             call' = [call EXCEPT ![c].done = @ + Transfer(c), ![c].status = code]

EndCall(c) == \E code \in ReturnCode("error") : call' = [call EXCEPT ![c].status = code]

\* How many of n bytes the server moves.
Moved(n) == IF "short" \in Fault THEN 0 .. n ELSE {n}

\* read_chunk(): memcpy() of the bytes that came.
ReadChunk(c) ==
    /\ Running(c) /\ call[c].op = "read" /\ Valid(c)
    /\ \E n \in Moved(Transfer(c)) :
           mem' = [mem EXCEPT ![c] =
                       [b \in Byte |-> IF b \in Chunk(c, n) THEN file[b] ELSE @[b]]]
    /\ NextSegment(c)
    /\ UNCHANGED <<file, locks, writes, late>>

Put(bytes, tag) == file' = [b \in Byte |-> IF b \in bytes THEN tag ELSE file[b]]

\* write_chunk(): the count in the reply is not read.
WriteChunk(c) ==
    /\ Running(c) /\ call[c].op = "write" /\ Valid(c)
    /\ \E n \in Moved(Transfer(c)) : Put(Chunk(c, n), <<c, writes[c]>>)
    /\ NextSegment(c)
    /\ UNCHANGED <<locks, mem, writes, late>>

\* The server refuses the stateid.
Refused(c) ==
    /\ Running(c) /\ ~Valid(c)
    /\ EndCall(c)
    /\ UNCHANGED <<file, locks, mem, writes, late>>

\* The request fails in another way: segment() returns at once.
Failed(c) ==
    /\ "fail" \in Fault
    /\ Running(c)
    /\ LET bytes == Chunk(c, Transfer(c))
           tag   == <<c, writes[c]>>
       IN  \/ UNCHANGED <<file, late>>
           \/ /\ call[c].op = "write" /\ Valid(c)
              /\ Put(bytes, tag)
              /\ UNCHANGED late
           \/ /\ call[c].op = "write"
              /\ "late" \in Fault
              /\ late' = late \union {[conn  |-> c,     seqid |-> latest[c],
                                       bytes |-> bytes, tag   |-> tag]}
              /\ UNCHANGED file
    /\ EndCall(c)
    /\ UNCHANGED <<locks, mem, writes>>

\* The server gets to a WRITE whose call has failed.
ExecuteLate ==
    /\ \E r \in late :
           /\ IF r.seqid = seqid[r.conn] THEN Put(r.bytes, r.tag) ELSE UNCHANGED file
           /\ late' = late \ {r}
    /\ UNCHANGED <<locks, call, mem, writes>>

Answered(c) == ReadChunk(c) \/ WriteChunk(c) \/ Refused(c)

Segment(c) == Answered(c) \/ Failed(c)

Next ==
    \/ \E c \in Conn :
           \/ \E level \in {"shared", "exclusive"} : Acquire(c, level)
           \/ Release(c) \/ Expire(c) \/ Reopen(c)
           \/ Read(c) \/ Write(c)
           \/ Segment(c)
    \/ ExecuteLate

Spec == Init /\ [][Next]_vars

\* A thread in xRead or xWrite runs on and transact() returns (RpcSession); no
\* request has to fail for that.
FairSpec == Spec /\ \A c \in Conn : WF_vars(Answered(c))

-----------------------------------------------------------------------------
\* Properties.

Range(c) == {b \in Byte : call[c].offset <= b /\ b < call[c].offset + call[c].length}

\* What xRead has read under a lock that is still held is what the file holds: the
\* chunks of one call fit together, and no other connection changes the file
\* meanwhile, not even by a WRITE that is executed late.  Only its own late WRITE
\* may, under the EXCLUSIVE lock it was sent under.
ReadsCurrent ==
    \A c \in Conn :
        /\ call[c].op = "read" /\ call[c].status = "ok"
        /\ granted[c] # "none" /\ Valid(c)
        => \A b \in Range(c) :
               mem[c][b] = file[b] \/ (granted[c] = "exclusive" /\ file[b][1] = c)

\* A byte changes only while the connection that wrote it has the EXCLUSIVE lock:
\* a connection that lost its lock without knowing, or whose request is late,
\* changes nothing.
WritesUnderLock ==
    [][\A b \in Byte : file'[b] # file[b] => granted[file'[b][1]] = "exclusive"]_vars

\* What a write call has put into the file is the front part of its range, at least
\* what it has counted as done, and all of it when it returns OK.
WrittenPrefix ==
    \A c \in Conn :
        /\ call[c].op = "write" /\ call[c].status # "none"
        /\ granted[c] = "exclusive" /\ Valid(c)
        => /\ \E n \in call[c].done .. call[c].length :
                  {b \in Byte : file[b] = <<c, writes[c]>>}
                    = {b \in Byte : call[c].offset <= b /\ b < call[c].offset + n}
           /\ call[c].status = "ok" => call[c].done = call[c].length

\* Every xRead and every xWrite returns.
CallsReturn == \A c \in Conn : Running(c) ~> ~Running(c)

-----------------------------------------------------------------------------
\* Why the first three hold: the inductive invariant.

\* No short reads, and xRead returns what readfile() returned.
Exact == "short" \notin Fault /\ "no_return" \notin Fault

\* A stateid that is up to date stands for the lock SQLite believes to hold, one
\* that is not for none.
StateidOK ==
    \A c \in Conn :
        /\ latest[c] <= seqid[c]
        /\ granted[c] = IF Valid(c) THEN held[c] ELSE "none"

Exclusion ==
    \A c, d \in Conn : c # d /\ granted[c] = "exclusive" => granted[d] = "none"

\* Calls are made under a lock, and forgotten with it.
CallOK ==
    \A c \in Conn : call[c].status # "none" =>
        /\ held[c] # "none"
        /\ call[c].op = "write" => held[c] = "exclusive"

\* A late WRITE that is still accepted was sent under a lock that is still held.
LateOK ==
    \A r \in late :
        /\ r.tag[1] = r.conn
        /\ r.seqid <= seqid[r.conn]
        /\ r.seqid = seqid[r.conn] => granted[r.conn] = "exclusive"

Current(c, b) ==
    \/ mem[c][b] = file[b]
    \/ granted[c] = "exclusive" /\ file[b][1] = c

\* What a read has counted as done is current, and all of it is when it returns OK.
SoFar(c) ==
    /\ call[c].status = "ok" => call[c].done = call[c].length
    /\ granted[c] # "none" /\ Valid(c)
       => \A b \in Byte :
              call[c].offset <= b /\ b < call[c].offset + call[c].done => Current(c, b)

ReadSoFar ==
    \A c \in Conn :
        call[c].op = "read" /\ call[c].status \in {"running", "ok"} => SoFar(c)

\* A write call is counted before it puts anything into the file.
Counted == \A b \in Byte : file[b][2] <= writes[file[b][1]]

\* The bytes of the current write call of c in the file, and the first n of its range.
Own(c) == {b \in Byte : file[b] = <<c, writes[c]>>}
Front(c, n) == {b \in Byte : call[c].offset <= b /\ b < call[c].offset + n}

\* A write that runs has put into the file what it has counted; one that failed may
\* have put more, and one that returned OK has put all.
WroteSoFar(c) ==
    \E n \in call[c].done .. call[c].length :
        /\ Own(c) = Front(c, n)
        /\ Running(c) => n = call[c].done
        /\ call[c].status = "ok" => call[c].done = call[c].length

\* A connection that writes, with its lock still in place.
Writing(c) ==
    /\ call[c].op = "write" /\ call[c].status # "none"
    /\ granted[c] = "exclusive" /\ Valid(c)

WriteSoFar ==
    /\ late = {} /\ Counted
    /\ \A c \in Conn : Writing(c) => WroteSoFar(c)

\* No WRITE that failed is executed later: it could change a byte under the next call.
Prompt == "late" \notin Fault

IInv ==
    /\ TypeOK /\ StateidOK /\ Exclusion /\ CallOK /\ LateOK
    /\ Exact => ReadSoFar
    /\ Exact /\ Prompt => WriteSoFar
=============================================================================
