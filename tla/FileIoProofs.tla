----------------------------- MODULE FileIoProofs -----------------------------
(***************************************************************************)
(* The theorems about FileIo, for any number of connections, any size of   *)
(* the file and of the chunks, and any number of calls.                    *)
(***************************************************************************)
EXTENDS FileIo, TLAPS

-----------------------------------------------------------------------------
\* A chunk stays in its range, and the rest is what is left to do.
LEMMA TransferFits ==
    ASSUME TypeOK, NEW c \in Conn
    PROVE  /\ Transfer(c) \in Nat
           /\ call[c].done + Transfer(c) <= call[c].length
           /\ call[c].done + Transfer(c) \in 0 .. Size
BY SizeAssumption, ChunkAssumption DEF TypeOK, Transfer, Byte, CallRecord

\* A round of segment() keeps the type of the call.
LEMMA NextSegmentType ==
    ASSUME TypeOK, NEW c \in Conn, NextSegment(c)
    PROVE  call' \in [Conn -> CallRecord]
<1>1. ReturnCode("ok") \subseteq {"ok", "error"}
  BY DEF ReturnCode
<1>2. ASSUME NEW code \in {"running", "ok", "error"}
      PROVE  [call[c] EXCEPT !.done = call[c].done + Transfer(c), !.status = code]
                 \in CallRecord
  BY TransferFits DEF TypeOK, CallRecord
<1>3. [call[c] EXCEPT !.done = call[c].done + Transfer(c)] \in CallRecord
  BY TransferFits DEF TypeOK, CallRecord
<1>4. CASE call' = [call EXCEPT ![c].done = @ + Transfer(c)]
  BY <1>3, <1>4 DEF TypeOK
<1>5. ASSUME NEW code \in ReturnCode("ok"),
             call' = [call EXCEPT ![c].done = @ + Transfer(c), ![c].status = code]
      PROVE  call' \in [Conn -> CallRecord]
  BY <1>1, <1>2, <1>5 DEF TypeOK
<1>. QED
  BY <1>4, <1>5 DEF NextSegment

\* What it does to the call.
LEMMA NextSegmentEffect ==
    ASSUME TypeOK, NEW c \in Conn, NextSegment(c)
    PROVE  /\ \A d \in Conn \ {c} : call'[d] = call[d]
           /\ call'[c].op = call[c].op
           /\ call'[c].offset = call[c].offset
           /\ call'[c].length = call[c].length
           /\ call'[c].done = call[c].done + Transfer(c)
           /\ \/ call'[c].status = call[c].status
              \/ call'[c].done = call[c].length /\ call'[c].status \in {"ok", "error"}
<1>1. CASE call' = [call EXCEPT ![c].done = @ + Transfer(c)]
  BY <1>1 DEF TypeOK, CallRecord
<1>2. ASSUME NEW code \in ReturnCode("ok"),
             ~ (call[c].done + Transfer(c) < call[c].length),
             call' = [call EXCEPT ![c].done = @ + Transfer(c), ![c].status = code]
      PROVE  /\ \A d \in Conn \ {c} : call'[d] = call[d]
             /\ call'[c].op = call[c].op
             /\ call'[c].offset = call[c].offset
             /\ call'[c].length = call[c].length
             /\ call'[c].done = call[c].done + Transfer(c)
             /\ call'[c].done = call[c].length
             /\ call'[c].status \in {"ok", "error"}
  <2>1. call[c].done + Transfer(c) = call[c].length
    <3>1. call[c].length \in 1 .. Size
      BY DEF TypeOK, CallRecord
    <3>2. /\ call[c].done + Transfer(c) <= call[c].length
          /\ call[c].done + Transfer(c) \in 0 .. Size
      BY TransferFits
    <3>. QED
      BY <1>2, <3>1, <3>2
  <2>2. code \in {"ok", "error"}
    BY <1>2 DEF ReturnCode
  <2>. QED
    BY <1>2, <2>1, <2>2 DEF TypeOK, CallRecord
<1>. QED
  BY <1>1, <1>2 DEF NextSegment

LEMMA EndCallType ==
    ASSUME TypeOK, NEW c \in Conn, EndCall(c)
    PROVE  call' \in [Conn -> CallRecord]
<1>1. ReturnCode("error") \subseteq {"ok", "error"}
  BY DEF ReturnCode
<1>2. ASSUME NEW code \in {"ok", "error"}
      PROVE  [call[c] EXCEPT !.status = code] \in CallRecord
  BY DEF TypeOK, CallRecord
<1>. QED
  BY <1>1, <1>2, ZenonT(80) DEF TypeOK, EndCall

LEMMA StartType ==
    ASSUME TypeOK, NEW c \in Conn, NEW op \in {"read", "write"}, Start(c, op)
    PROVE  call' \in [Conn -> CallRecord]
BY SizeAssumption DEF TypeOK, Start, Byte, CallRecord

LEMMA ForgetType ==
    ASSUME TypeOK, NEW c \in Conn, Forget(c)
    PROVE  /\ call' \in [Conn -> CallRecord]
           /\ mem' \in [Conn -> [Byte -> Tag \union {Stale}]]
BY SizeAssumption DEF TypeOK, Forget, NoCall, Byte, CallRecord

\* The server and the caller move whole tags.
LEMMA PutType ==
    ASSUME TypeOK, NEW c \in Conn, NEW bytes, Put(bytes, <<c, writes[c]>>)
    PROVE  file' \in [Byte -> Tag]
<1>1. <<c, writes[c]>> \in Tag
  BY DEF TypeOK, Tag
<1>. QED
  BY <1>1 DEF TypeOK, Put

LEMMA TypeStep == TypeOK /\ [Next]_vars => TypeOK'
<1>. SUFFICES ASSUME TypeOK, [Next]_vars PROVE TypeOK'
  OBVIOUS
<1>1. ASSUME NEW c \in Conn, NEW level \in {"shared", "exclusive"}, Acquire(c, level)
      PROVE  TypeOK'
  BY <1>1 DEF TypeOK, Acquire, Bump, LockLevel
<1>2. ASSUME NEW c \in Conn, Release(c) PROVE TypeOK'
  BY <1>2, ForgetType DEF TypeOK, Release, Bump, LockLevel
<1>3. ASSUME NEW c \in Conn, Expire(c) PROVE TypeOK'
  BY <1>3 DEF TypeOK, Expire, LockLevel
<1>4. ASSUME NEW c \in Conn, Reopen(c) PROVE TypeOK'
  BY <1>4, ForgetType DEF TypeOK, Reopen, LockLevel
<1>5. ASSUME NEW c \in Conn, Read(c) PROVE TypeOK'
  BY <1>5, StartType DEF TypeOK, Read, locks
<1>6. ASSUME NEW c \in Conn, Write(c) PROVE TypeOK'
  <2>1. writes' \in [Conn -> 0 .. MaxWrites]
    BY <1>6, BoundAssumption DEF TypeOK, Write
  <2>. QED
    BY <1>6, <2>1, StartType DEF TypeOK, Write, locks
<1>7. ASSUME NEW c \in Conn, ReadChunk(c) PROVE TypeOK'
  <2>1. mem' \in [Conn -> [Byte -> Tag \union {Stale}]]
    BY <1>7 DEF TypeOK, ReadChunk
  <2>. QED
    BY <1>7, <2>1, NextSegmentType DEF TypeOK, ReadChunk, locks
<1>8. ASSUME NEW c \in Conn, WriteChunk(c) PROVE TypeOK'
  BY <1>8, NextSegmentType, PutType DEF TypeOK, WriteChunk, locks
<1>9. ASSUME NEW c \in Conn, Refused(c) PROVE TypeOK'
  BY <1>9, EndCallType DEF TypeOK, Refused, locks
<1>10. ASSUME NEW c \in Conn, Failed(c) PROVE TypeOK'
  <2>1. file' \in [Byte -> Tag]
    BY <1>10, PutType DEF TypeOK, Failed
  <2>2. late' \subseteq [conn : Conn, seqid : Nat, bytes : SUBSET Byte, tag : Tag]
    <3>1. [conn |-> c, seqid |-> latest[c], bytes |-> Chunk(c, Transfer(c)),
           tag |-> <<c, writes[c]>>]
              \in [conn : Conn, seqid : Nat, bytes : SUBSET Byte, tag : Tag]
      BY DEF Chunk, TypeOK, Tag
    <3>2. \/ UNCHANGED late
          \/ late' = late \union {[conn |-> c, seqid |-> latest[c],
                                   bytes |-> Chunk(c, Transfer(c)),
                                   tag |-> <<c, writes[c]>>]}
      BY <1>10 DEF Failed
    <3>. QED
      BY <3>1, <3>2 DEF TypeOK
  <2>. QED
    BY <1>10, <2>1, <2>2, EndCallType DEF TypeOK, Failed, locks
<1>11. ASSUME ExecuteLate PROVE TypeOK'
  BY <1>11 DEF TypeOK, ExecuteLate, Put, locks
<1>12. CASE UNCHANGED vars
  BY <1>12 DEF TypeOK, vars, locks
<1>. QED
  BY <1>1, <1>2, <1>3, <1>4, <1>5, <1>6, <1>7, <1>8, <1>9, <1>10, <1>11, <1>12
     DEF Next, Segment, Answered

\* Every variable keeps its type, whatever fails.
THEOREM TypeCorrect == Spec => []TypeOK
<1>1. Init => TypeOK
  BY SizeAssumption, BoundAssumption DEF Init, TypeOK, Byte, Tag, LockLevel, NoCall, CallRecord
<1>. QED
  BY <1>1, TypeStep, PTL DEF Spec

-----------------------------------------------------------------------------
\* The parts of the invariant that hold whatever fails.
Core == TypeOK /\ StateidOK /\ Exclusion /\ CallOK /\ LateOK

\* The actions that leave every lock and stateid alone.
LEMMA LocksKept ==
    ASSUME \/ \E c \in Conn : Read(c) \/ Write(c) \/ Segment(c)
           \/ ExecuteLate
    PROVE  UNCHANGED locks
BY DEF Read, Write, Segment, Answered, ReadChunk, WriteChunk, Refused, Failed, ExecuteLate

LEMMA StateidKept ==
    ASSUME TypeOK, StateidOK, Exclusion, Next
    PROVE  StateidOK' /\ Exclusion'
<1>1. ASSUME NEW c \in Conn, NEW level \in {"shared", "exclusive"}, Acquire(c, level)
      PROVE  StateidOK' /\ Exclusion'
  <2>1. StateidOK'
    BY <1>1 DEF TypeOK, StateidOK, Acquire, Bump, Valid
  <2>2. Exclusion'
    BY <1>1 DEF TypeOK, StateidOK, Exclusion, Acquire, Valid
  <2>. QED
    BY <2>1, <2>2
<1>2. ASSUME NEW c \in Conn, Release(c) PROVE StateidOK' /\ Exclusion'
  BY <1>2 DEF TypeOK, StateidOK, Exclusion, Release, Bump, Valid
<1>3. ASSUME NEW c \in Conn, Expire(c) PROVE StateidOK' /\ Exclusion'
  BY <1>3 DEF TypeOK, StateidOK, Exclusion, Expire, Valid
<1>4. ASSUME NEW c \in Conn, Reopen(c) PROVE StateidOK' /\ Exclusion'
  BY <1>4 DEF TypeOK, StateidOK, Exclusion, Reopen, Valid
<1>5. CASE UNCHANGED locks
  BY <1>5 DEF StateidOK, Exclusion, Valid, locks
<1>6. ASSUME NEW c \in Conn, Read(c) \/ Write(c) \/ Segment(c)
      PROVE  StateidOK' /\ Exclusion'
  BY <1>5, <1>6, LocksKept
<1>7. CASE ExecuteLate
  BY <1>5, <1>7, LocksKept
<1>. QED
  BY <1>1, <1>2, <1>3, <1>4, <1>6, <1>7 DEF Next

LEMMA CallKept ==
    ASSUME TypeOK, StateidOK, CallOK, Next
    PROVE  CallOK'
<1>1. ASSUME NEW c \in Conn, NEW level \in {"shared", "exclusive"}, Acquire(c, level)
      PROVE  CallOK'
  BY <1>1 DEF TypeOK, CallOK, Acquire, Running
<1>2. ASSUME NEW c \in Conn, Release(c) PROVE CallOK'
  BY <1>2 DEF TypeOK, CallOK, Release, Forget, NoCall, Running
<1>3. ASSUME NEW c \in Conn, Expire(c) PROVE CallOK'
  BY <1>3 DEF CallOK, Expire, Running
<1>4. ASSUME NEW c \in Conn, Reopen(c) PROVE CallOK'
  BY <1>4 DEF TypeOK, CallOK, Reopen, Forget, NoCall, Running
<1>5. ASSUME NEW c \in Conn, NEW op \in {"read", "write"}, Start(c, op), UNCHANGED held,
             held[c] # "none", op = "write" => held[c] = "exclusive"
      PROVE  CallOK'
  BY <1>5 DEF TypeOK, CallOK, Start, Running
<1>6. ASSUME NEW c \in Conn, Running(c), NextSegment(c), UNCHANGED held PROVE CallOK'
  BY <1>6, NextSegmentEffect DEF CallOK, Running
<1>7. ASSUME NEW c \in Conn, Running(c), EndCall(c), UNCHANGED held PROVE CallOK'
  BY <1>7 DEF TypeOK, CallRecord, CallOK, EndCall, Running
<1>8. CASE ExecuteLate
  BY <1>8 DEF CallOK, ExecuteLate, Running, locks
<1>9. ASSUME NEW c \in Conn, Read(c) \/ Write(c) PROVE CallOK'
  BY <1>5, <1>9 DEF Read, Write, locks
<1>10. ASSUME NEW c \in Conn, Segment(c) PROVE CallOK'
  BY <1>6, <1>7, <1>10
     DEF Segment, Answered, ReadChunk, WriteChunk, Refused, Failed, locks
<1>. QED
  BY <1>1, <1>2, <1>3, <1>4, <1>8, <1>9, <1>10 DEF Next

\* A late WRITE loses its stateid when the lock it was sent under goes.
LEMMA LateKept ==
    ASSUME Core, Next
    PROVE  LateOK'
<1>1. ASSUME NEW c \in Conn,
             \/ \E level \in {"shared", "exclusive"} : Acquire(c, level)
             \/ Release(c) \/ Expire(c)
      PROVE  LateOK'
  <2>1. /\ late' = late
        /\ seqid' = [seqid EXCEPT ![c] = @ + 1]
        /\ \A d \in Conn \ {c} : granted'[d] = granted[d]
    BY <1>1 DEF Core, TypeOK, Acquire, Release, Expire, Bump
  <2>2. ASSUME NEW r \in late
        PROVE  /\ r.tag[1] = r.conn
               /\ r.seqid <= seqid'[r.conn]
               /\ r.seqid = seqid'[r.conn] => granted'[r.conn] = "exclusive"
    <3>1. r.conn \in Conn /\ r.seqid \in Nat /\ r.seqid <= seqid[r.conn]
      BY DEF Core, TypeOK, LateOK
    <3>. QED
      BY <2>1, <3>1 DEF Core, TypeOK, LateOK
  <2>. QED
    BY <2>1, <2>2 DEF LateOK
<1>2. ASSUME NEW c \in Conn, Failed(c) PROVE LateOK'
  <2>1. ASSUME NEW r \in late' \ late
        PROVE  /\ r.conn = c /\ r.tag = <<c, writes[c]>> /\ r.seqid = latest[c]
               /\ call[c].op = "write"
    BY <1>2 DEF Failed
  <2>2. UNCHANGED locks /\ Running(c)
    BY <1>2 DEF Failed
  <2>3. latest[c] <= seqid[c] /\ (latest[c] = seqid[c] => granted[c] = held[c])
    BY DEF Core, StateidOK, Valid
  <2>4. call[c].op = "write" => held[c] = "exclusive"
    BY <2>2 DEF Core, CallOK, Running
  <2>. QED
    BY <2>1, <2>2, <2>3, <2>4 DEF Core, LateOK, locks
<1>3. CASE UNCHANGED <<granted, seqid>> /\ late' \subseteq late
  BY <1>3 DEF Core, LateOK
<1>4. ASSUME NEW c \in Conn, Reopen(c) PROVE LateOK'
  BY <1>3, <1>4 DEF Reopen
<1>5. ASSUME NEW c \in Conn,
             Read(c) \/ Write(c) \/ ReadChunk(c) \/ WriteChunk(c) \/ Refused(c)
      PROVE  LateOK'
  BY <1>3, <1>5 DEF Read, Write, ReadChunk, WriteChunk, Refused, locks
<1>6. CASE ExecuteLate
  BY <1>3, <1>6 DEF ExecuteLate, locks
<1>. QED
  BY <1>1, <1>2, <1>4, <1>5, <1>6 DEF Next, Segment, Answered

-----------------------------------------------------------------------------
\* Whoever changes a byte has the EXCLUSIVE lock.
LEMMA Writer ==
    ASSUME Core, Next, NEW b \in Byte, file'[b] # file[b]
    PROVE  granted[file'[b][1]] = "exclusive" /\ UNCHANGED locks
<1>1. ASSUME NEW c \in Conn, NEW bytes, Running(c), call[c].op = "write", Valid(c),
             Put(bytes, <<c, writes[c]>>)
      PROVE  granted[file'[b][1]] = "exclusive"
  <2>1. held[c] = "exclusive" /\ granted[c] = held[c]
    BY <1>1 DEF Core, CallOK, StateidOK, Running
  <2>2. file'[b] = <<c, writes[c]>>
    BY <1>1 DEF Put
  <2>. QED
    BY <2>1, <2>2
<1>2. ASSUME NEW c \in Conn, WriteChunk(c)
      PROVE  granted[file'[b][1]] = "exclusive" /\ UNCHANGED locks
  BY <1>1, <1>2 DEF WriteChunk
<1>3. ASSUME NEW c \in Conn, Failed(c)
      PROVE  granted[file'[b][1]] = "exclusive" /\ UNCHANGED locks
  BY <1>1, <1>3 DEF Failed
<1>4. CASE ExecuteLate
  <2>1. PICK r \in late : r.seqid = seqid[r.conn] /\ Put(r.bytes, r.tag)
    BY <1>4 DEF ExecuteLate
  <2>2. file'[b] = r.tag
    BY <2>1 DEF Put
  <2>. QED
    BY <1>4, <2>1, <2>2 DEF Core, LateOK, ExecuteLate
<1>. QED
  BY <1>2, <1>3, <1>4
     DEF Next, Segment, Answered, Acquire, Release, Expire, Reopen, Read, Write, ReadChunk, Refused

\* The parts of the invariant together.
LEMMA CoreHolds == Spec => []Core
<1>1. Init => Core
  <2>1. ASSUME Init PROVE TypeOK
    BY <2>1, SizeAssumption, BoundAssumption
       DEF Init, TypeOK, Byte, Tag, LockLevel, NoCall, CallRecord
  <2>2. ASSUME Init PROVE StateidOK /\ Exclusion /\ CallOK /\ LateOK
    BY <2>2 DEF Init, StateidOK, Exclusion, CallOK, LateOK, NoCall, Running
  <2>. QED
    BY <2>1, <2>2 DEF Core
<1>2. Core /\ TypeOK' /\ [Next]_vars => Core'
  <2>1. CASE UNCHANGED vars
    BY <2>1 DEF Core, StateidOK, Exclusion, CallOK, LateOK, Running, Valid, vars, locks
  <2>. QED
    BY <2>1, StateidKept, CallKept, LateKept DEF Core
<1>. QED
  BY <1>1, <1>2, TypeCorrect, PTL DEF Spec

\* A byte changes only under the EXCLUSIVE lock of the connection that wrote it,
\* whatever fails.
THEOREM WritesUnderLockHolds == Spec => WritesUnderLock
<1>1. Core /\ [Next]_vars =>
          [\A b \in Byte : file'[b] # file[b] => granted[file'[b][1]] = "exclusive"]_vars
  BY Writer
<1>. QED
  BY <1>1, CoreHolds, PTL DEF Spec, WritesUnderLock

-----------------------------------------------------------------------------
\* What a connection has read stays current.
Reading(c) == call[c].op = "read" /\ call[c].status \in {"running", "ok"}

\* Nothing another connection does, and no late WRITE, harms it.
LEMMA Untouched ==
    ASSUME Core, [Next]_vars, NEW c \in Conn, SoFar(c),
           call'[c] = call[c], mem'[c] = mem[c],
           granted'[c] = granted[c], seqid'[c] = seqid[c], latest'[c] = latest[c]
    PROVE  SoFar(c)'
<1>1. ASSUME granted'[c] # "none", Valid(c)', NEW b \in Byte,
             call'[c].offset <= b, b < call'[c].offset + call'[c].done
      PROVE  Current(c, b)'
  <2>1. Current(c, b) /\ granted[c] # "none"
    BY <1>1 DEF SoFar, Valid
  <2>2. CASE file'[b] = file[b]
    BY <2>1, <2>2 DEF Current
  <2>3. CASE file'[b] # file[b]
    <3>1. granted[file'[b][1]] = "exclusive" /\ UNCHANGED locks
      BY <2>3, Writer DEF vars
    <3>2. file'[b][1] \in Conn
      <4>1. TypeOK'
        BY TypeStep DEF Core
      <4>. QED
        BY <4>1 DEF TypeOK, Tag
    <3>3. file'[b][1] = c
      BY <2>1, <3>1, <3>2 DEF Core, Exclusion
    <3>. QED
      BY <3>1, <3>3 DEF Current, locks
  <2>. QED
    BY <2>2, <2>3
<1>. QED
  BY <1>1 DEF SoFar

\* A chunk of its own adds to it.
LEMMA ChunkRead ==
    ASSUME Exact, Core, NEW c \in Conn, ReadChunk(c), SoFar(c)
    PROVE  SoFar(c)'
<1>1. mem' = [mem EXCEPT ![c] = [b \in Byte |-> IF b \in Chunk(c, Transfer(c))
                                               THEN file[b] ELSE mem[c][b]]]
  BY DEF ReadChunk, Moved, Exact, Core, TypeOK
<1>2. UNCHANGED <<file, locks>>
  BY DEF ReadChunk
<1>3. /\ call'[c].offset = call[c].offset
      /\ call'[c].length = call[c].length
      /\ call'[c].done = call[c].done + Transfer(c)
      /\ call'[c].status # "ok" \/ call'[c].done = call[c].length
  <2>1. call[c].status # "ok"
    BY DEF ReadChunk, Running
  <2>. QED
    BY <2>1, NextSegmentEffect DEF ReadChunk, Core
<1>4. ASSUME granted'[c] # "none", Valid(c)', NEW b \in Byte,
             call'[c].offset <= b, b < call'[c].offset + call'[c].done
      PROVE  Current(c, b)'
  <2>1. mem'[c][b] = IF b \in Chunk(c, Transfer(c)) THEN file[b] ELSE mem[c][b]
    BY <1>1 DEF Core, TypeOK
  <2>2. CASE b < call[c].offset + call[c].done
    <3>1. Current(c, b)
      BY <1>2, <1>3, <1>4, <2>2 DEF SoFar, Valid, locks
    <3>. QED
      BY <1>2, <2>1, <3>1 DEF Current, locks
  <2>3. CASE ~ (b < call[c].offset + call[c].done)
    <3>1. /\ call[c].offset \in Nat /\ call[c].done \in Nat /\ b \in Nat
          /\ Transfer(c) \in Nat
      BY SizeAssumption, TransferFits DEF Core, TypeOK, CallRecord, Byte
    <3>2. call[c].offset + call[c].done <= b /\ b < call[c].offset + call[c].done + Transfer(c)
      BY <1>3, <1>4, <2>3, <3>1
    <3>3. b \in Chunk(c, Transfer(c))
      BY <3>2 DEF Chunk, Position
    <3>. QED
      BY <1>2, <2>1, <3>3 DEF Current
  <2>. QED
    BY <2>2, <2>3
<1>. QED
  BY <1>3, <1>4 DEF SoFar

LEMMA ReadKept ==
    ASSUME Exact, Core, ReadSoFar, Next
    PROVE  ReadSoFar'
<1>. SUFFICES ASSUME NEW c \in Conn, Reading(c)' PROVE SoFar(c)'
  BY DEF ReadSoFar, Reading
<1>0. Reading(c) => SoFar(c)
  BY DEF ReadSoFar, Reading
<1>1. ASSUME call'[c] = call[c], mem'[c] = mem[c], granted'[c] = granted[c],
             seqid'[c] = seqid[c], latest'[c] = latest[c]
      PROVE  SoFar(c)'
  BY <1>0, <1>1, Untouched DEF Reading
<1>2. ASSUME NEW d \in Conn, NEW level \in {"shared", "exclusive"}, Acquire(d, level)
      PROVE  SoFar(c)'
  <2>1. CASE d = c
    <3>1. /\ UNCHANGED <<file, call, mem>> /\ Valid(c)
          /\ held[c] = "none" \/ held[c] = "shared"
      BY <1>2, <2>1 DEF Acquire
    <3>2. Reading(c) /\ SoFar(c)
      BY <1>0, <3>1 DEF Reading
    <3>3. granted[c] = "shared"
      BY <3>1, <3>2 DEF Core, CallOK, StateidOK, Reading
    <3>. QED
      BY <3>1, <3>2, <3>3 DEF SoFar, Current
  <2>2. CASE d # c
    BY <1>1, <1>2, <2>2 DEF Acquire, Bump, Core, TypeOK
  <2>. QED
    BY <2>1, <2>2
<1>3. ASSUME NEW d \in Conn, Release(d) \/ Reopen(d) PROVE SoFar(c)'
  <2>1. CASE d = c
    <3>1. call'[c].status = "none"
      BY <1>3, <2>1 DEF Release, Reopen, Forget, NoCall, Core, TypeOK
    <3>. QED
      BY <3>1 DEF Reading
  <2>2. CASE d # c
    BY <1>1, <1>3, <2>2 DEF Release, Reopen, Forget, Bump, Core, TypeOK
  <2>. QED
    BY <2>1, <2>2
<1>4. ASSUME NEW d \in Conn, Expire(d) PROVE SoFar(c)'
  <2>1. CASE d = c
    <3>1. granted'[c] = "none" /\ UNCHANGED call
      BY <1>4, <2>1 DEF Expire, Core, TypeOK
    <3>. QED
      BY <1>0, <3>1 DEF SoFar, Reading
  <2>2. CASE d # c
    BY <1>1, <1>4, <2>2 DEF Expire, Core, TypeOK
  <2>. QED
    BY <2>1, <2>2
<1>5. ASSUME NEW d \in Conn, Read(d) PROVE SoFar(c)'
  <2>1. CASE d = c
    <3>1. call'[c].done = 0 /\ call'[c].status = "running" /\ call'[c].offset \in Nat
      BY <1>5, <2>1, SizeAssumption DEF Read, Start, Core, TypeOK, Byte
    <3>. QED
      BY <3>1, SizeAssumption DEF SoFar, Byte
  <2>2. CASE d # c
    BY <1>1, <1>5, <2>2 DEF Read, Start, Core, TypeOK, locks
  <2>. QED
    BY <2>1, <2>2
<1>6. ASSUME NEW d \in Conn, Write(d) PROVE SoFar(c)'
  <2>1. CASE d = c
    <3>1. call'[c].op = "write"
      BY <1>6, <2>1 DEF Write, Start, Core, TypeOK
    <3>. QED
      BY <3>1 DEF Reading
  <2>2. CASE d # c
    BY <1>1, <1>6, <2>2 DEF Write, Start, Core, TypeOK, locks
  <2>. QED
    BY <2>1, <2>2
<1>7. ASSUME NEW d \in Conn, ReadChunk(d) PROVE SoFar(c)'
  <2>1. CASE d = c
    BY <1>0, <1>7, <2>1, ChunkRead DEF ReadChunk, Running, Reading
  <2>2. CASE d # c
    BY <1>1, <1>7, <2>2, NextSegmentEffect DEF ReadChunk, Core, TypeOK, locks
  <2>. QED
    BY <2>1, <2>2
<1>8. ASSUME NEW d \in Conn, WriteChunk(d) PROVE SoFar(c)'
  <2>1. CASE d = c
    BY <1>8, <2>1, NextSegmentEffect DEF WriteChunk, Reading, Core
  <2>2. CASE d # c
    BY <1>1, <1>8, <2>2, NextSegmentEffect DEF WriteChunk, Core, locks
  <2>. QED
    BY <2>1, <2>2
<1>9. ASSUME NEW d \in Conn, Refused(d) \/ Failed(d) PROVE SoFar(c)'
  <2>1. EndCall(d) /\ UNCHANGED <<locks, mem>>
    BY <1>9 DEF Refused, Failed
  <2>2. CASE d = c
    <3>1. call'[c].status = "error"
      BY <2>1, <2>2 DEF EndCall, ReturnCode, Exact, Core, TypeOK, CallRecord
    <3>. QED
      BY <3>1 DEF Reading
  <2>3. CASE d # c
    BY <1>1, <2>1, <2>3 DEF EndCall, Core, TypeOK, locks
  <2>. QED
    BY <2>2, <2>3
<1>10. CASE ExecuteLate
  BY <1>1, <1>10 DEF ExecuteLate, locks
<1>. QED
  BY <1>2, <1>3, <1>4, <1>5, <1>6, <1>7, <1>8, <1>9, <1>10 DEF Next, Segment, Answered

-----------------------------------------------------------------------------
\* What a connection has written stays where it is, as long as none of its failed
\* WRITEs is still to come.
LEMMA FrontGrows ==
    ASSUME TypeOK, NEW c \in Conn
    PROVE  /\ Front(c, call[c].done) \union Chunk(c, Transfer(c))
                  = Front(c, call[c].done + Transfer(c))
           /\ call[c].done \in Nat /\ call[c].length \in Nat /\ Transfer(c) \in Nat
           /\ call[c].done + Transfer(c) \in call[c].done .. call[c].length
           /\ call[c].done \in call[c].done .. call[c].length
<1>1. /\ call[c].offset \in Nat /\ call[c].done \in Nat /\ call[c].length \in Nat
      /\ call[c].done <= call[c].length
      /\ \A b \in Byte : b \in Nat
  BY SizeAssumption DEF TypeOK, CallRecord, Byte
<1>2. Transfer(c) \in Nat /\ call[c].done + Transfer(c) <= call[c].length
  BY TransferFits
<1>3. ASSUME NEW b \in Byte
      PROVE  b \in Front(c, call[c].done + Transfer(c))
                 <=> b \in Front(c, call[c].done) \/ b \in Chunk(c, Transfer(c))
  BY <1>1, <1>2 DEF Front, Chunk, Position
<1>4. /\ Front(c, call[c].done + Transfer(c)) \subseteq Byte
      /\ Front(c, call[c].done) \subseteq Byte /\ Chunk(c, Transfer(c)) \subseteq Byte
  BY DEF Front, Chunk
<1>. QED
  BY <1>1, <1>2, <1>3, <1>4

\* The bytes of a call after one more chunk of it.
LEMMA OwnGrows ==
    ASSUME TypeOK, NEW c \in Conn, Put(Chunk(c, Transfer(c)), <<c, writes[c]>>),
           writes'[c] = writes[c]
    PROVE  Own(c)' = Own(c) \union Chunk(c, Transfer(c))
BY DEF Own, Put, Chunk

\* A connection that writes is the only one that changes the file.
LEMMA OthersWriteNothing ==
    ASSUME Core, late = {}, NEW c \in Conn, granted[c] = "exclusive",
           NEW d \in Conn \ {c}, Segment(d)
    PROVE  \A b \in Byte : file'[b] = file[b]
<1>1. granted[d] = "none"
  BY DEF Core, Exclusion
<1>2. ~ (Running(d) /\ call[d].op = "write" /\ Valid(d))
  BY <1>1 DEF Core, CallOK, StateidOK, Running
<1>. QED
  BY <1>2 DEF Segment, Answered, ReadChunk, WriteChunk, Refused, Failed

LEMMA CountKept ==
    ASSUME Core, Prompt, late = {}, Counted, Next
    PROVE  late' = {} /\ Counted'
<1>1. late' = {} /\ ~ExecuteLate
  BY DEF Next, Acquire, Release, Expire, Reopen, Read, Write, Segment, Answered, ReadChunk,
         WriteChunk, Refused, Failed, ExecuteLate, Prompt
<1>2. ASSUME NEW c \in Conn, NEW bytes, Put(bytes, <<c, writes[c]>>), UNCHANGED writes
      PROVE  Counted'
  <2>1. writes[c] <= writes[c]
    BY BoundAssumption DEF Core, TypeOK
  <2>. QED
    BY <1>2, <2>1 DEF Counted, Put
<1>3. ASSUME UNCHANGED <<file, writes>> PROVE Counted'
  BY <1>3 DEF Counted
<1>4. ASSUME NEW c \in Conn, Write(c) PROVE Counted'
  <2>1. /\ file' = file /\ writes' = [writes EXCEPT ![c] = @ + 1]
        /\ \A d \in Conn : writes[d] \in Nat
        /\ \A b \in Byte : file[b][1] \in Conn /\ file[b][2] \in Nat
    BY <1>4, BoundAssumption DEF Write, Core, TypeOK, Tag
  <2>. QED
    BY <2>1 DEF Counted, Core, TypeOK
<1>5. ASSUME NEW c \in Conn, Segment(c) PROVE Counted'
  BY <1>2, <1>3, <1>5 DEF Segment, Answered, ReadChunk, WriteChunk, Refused, Failed
<1>6. ASSUME NEW c \in Conn,
             \/ \E level \in {"shared", "exclusive"} : Acquire(c, level)
             \/ Release(c) \/ Expire(c) \/ Reopen(c) \/ Read(c)
      PROVE  Counted'
  BY <1>3, <1>6 DEF Acquire, Release, Expire, Reopen, Read
<1>. QED
  BY <1>1, <1>4, <1>5, <1>6 DEF Next

\* The first call of xWrite finds none of its bytes in the file.
LEMMA WriteStarts ==
    ASSUME Core, Counted, NEW c \in Conn, Write(c)
    PROVE  WroteSoFar(c)'
<1>1. /\ file' = file /\ writes'[c] = writes[c] + 1 /\ writes[c] \in Nat
      /\ call'[c].done = 0 /\ call'[c].status = "running"
      /\ call'[c].offset \in Nat /\ call'[c].length \in Nat
  BY SizeAssumption, BoundAssumption DEF Core, TypeOK, Write, Start, Byte
<1>2. \A b \in Byte : b \in Nat /\ file[b] # <<c, writes'[c]>>
  <2>1. ASSUME NEW b \in Byte, file[b] = <<c, writes'[c]>> PROVE FALSE
    <3>1. file[b][2] = writes[c] + 1 /\ file[b][1] = c
      BY <1>1, <2>1
    <3>. QED
      BY <1>1, <3>1 DEF Counted
  <2>. QED
    BY <2>1, SizeAssumption DEF Byte
<1>3. Own(c)' = {} /\ Front(c, 0)' = {}
  BY <1>1, <1>2 DEF Own, Front
<1>. QED
  BY <1>1, <1>3 DEF WroteSoFar

LEMMA WriteKept ==
    ASSUME Exact, Prompt, Core, WriteSoFar, Next
    PROVE  WriteSoFar'
<1>0. late' = {} /\ Counted'
  BY CountKept DEF WriteSoFar
<1>. SUFFICES ASSUME NEW c \in Conn, Writing(c)' PROVE WroteSoFar(c)'
  BY <1>0 DEF WriteSoFar
<1>a. Writing(c) => WroteSoFar(c)
  BY DEF WriteSoFar
<1>1. ASSUME call'[c] = call[c], writes'[c] = writes[c], \A b \in Byte : file'[b] = file[b],
             granted'[c] = granted[c], seqid'[c] = seqid[c], latest'[c] = latest[c]
      PROVE  WroteSoFar(c)'
  <2>1. Writing(c) /\ WroteSoFar(c)
    BY <1>a, <1>1 DEF Writing, Valid
  <2>2. Own(c)' = Own(c) /\ \A n : Front(c, n)' = Front(c, n)
    BY <1>1 DEF Own, Front
  <2>. QED
    BY <1>1, <2>1, <2>2 DEF WroteSoFar, Running
<1>2. ASSUME NEW d \in Conn, NEW level \in {"shared", "exclusive"}, Acquire(d, level)
      PROVE  WroteSoFar(c)'
  <2>1. CASE d = c
    <3>1. call[c].op = "write" /\ call[c].status # "none" /\ held[c] # "exclusive"
      BY <1>2, <2>1 DEF Acquire, Writing
    <3>. QED
      BY <3>1 DEF Core, CallOK
  <2>2. CASE d # c
    BY <1>1, <1>2, <2>2 DEF Acquire, Bump, Core, TypeOK
  <2>. QED
    BY <2>1, <2>2
<1>3. ASSUME NEW d \in Conn, Release(d) \/ Reopen(d) PROVE WroteSoFar(c)'
  <2>1. CASE d = c
    <3>1. call'[c].status = "none"
      BY <1>3, <2>1 DEF Release, Reopen, Forget, NoCall, Core, TypeOK
    <3>. QED
      BY <3>1 DEF Writing
  <2>2. CASE d # c
    BY <1>1, <1>3, <2>2 DEF Release, Reopen, Forget, Bump, Core, TypeOK
  <2>. QED
    BY <2>1, <2>2
<1>4. ASSUME NEW d \in Conn, Expire(d) PROVE WroteSoFar(c)'
  <2>1. CASE d = c
    <3>1. granted'[c] = "none"
      BY <1>4, <2>1 DEF Expire, Core, TypeOK
    <3>. QED
      BY <3>1 DEF Writing
  <2>2. CASE d # c
    BY <1>1, <1>4, <2>2 DEF Expire, Core, TypeOK
  <2>. QED
    BY <2>1, <2>2
<1>5. ASSUME NEW d \in Conn, Read(d) PROVE WroteSoFar(c)'
  <2>1. CASE d = c
    <3>1. call'[c].op = "read"
      BY <1>5, <2>1 DEF Read, Start, Core, TypeOK
    <3>. QED
      BY <3>1 DEF Writing
  <2>2. CASE d # c
    BY <1>1, <1>5, <2>2 DEF Read, Start, Core, TypeOK, locks
  <2>. QED
    BY <2>1, <2>2
<1>6. ASSUME NEW d \in Conn, Write(d) PROVE WroteSoFar(c)'
  <2>1. CASE d = c
    BY <1>6, <2>1, WriteStarts DEF WriteSoFar
  <2>2. CASE d # c
    BY <1>1, <1>6, <2>2 DEF Write, Start, Core, TypeOK, locks
  <2>. QED
    BY <2>1, <2>2
<1>7. ASSUME Segment(c) PROVE WroteSoFar(c)'
  <2>0. Running(c) /\ UNCHANGED <<locks, writes>>
    BY <1>7 DEF Segment, Answered, ReadChunk, WriteChunk, Refused, Failed
  <2>1. CASE ReadChunk(c)
    BY <2>1, NextSegmentEffect DEF ReadChunk, Writing, Core
  <2>2. CASE Refused(c)
    BY <2>0, <2>2 DEF Refused, Writing, Valid, locks
  <2>3. CASE WriteChunk(c)
    <3>1. Writing(c) /\ WroteSoFar(c)
      BY <1>a, <2>0, <2>3 DEF WriteChunk, Writing, Valid, Running, locks
    <3>2. Put(Chunk(c, Transfer(c)), <<c, writes[c]>>)
      BY <2>3 DEF WriteChunk, Moved, Exact
    <3>3. Own(c) = Front(c, call[c].done)
      BY <2>0, <3>1 DEF WroteSoFar
    <3>4. Own(c)' = Front(c, call[c].done + Transfer(c))
      BY <2>0, <3>2, <3>3, OwnGrows, FrontGrows DEF Core
    <3>5. /\ call'[c].offset = call[c].offset /\ call'[c].length = call[c].length
          /\ call'[c].done = call[c].done + Transfer(c)
          /\ call'[c].status = "ok" => call'[c].done = call'[c].length
      BY <2>0, <2>3, NextSegmentEffect DEF WriteChunk, Core, Running
    <3>6. call'[c].done \in call'[c].done .. call'[c].length
      BY <3>5, FrontGrows DEF Core
    <3>7. \A n : Front(c, n)' = Front(c, n)
      BY <3>5 DEF Front
    <3>8. Own(c)' = Front(c, call'[c].done)
      BY <3>4, <3>5
    <3>. QED
      BY <3>5, <3>6, <3>7, <3>8 DEF WroteSoFar
  <2>4. CASE Failed(c)
    <3>1. /\ call'[c].op = call[c].op /\ call'[c].offset = call[c].offset
          /\ call'[c].length = call[c].length /\ call'[c].done = call[c].done
          /\ call'[c].status = "error"
      BY <2>4 DEF Failed, EndCall, ReturnCode, Exact, Core, TypeOK, CallRecord
    <3>2. Writing(c) /\ WroteSoFar(c)
      BY <1>a, <2>0, <3>1 DEF Writing, Valid, Running, locks
    <3>3. Own(c) = Front(c, call[c].done)
      BY <2>0, <3>2 DEF WroteSoFar
    <3>4. \E n \in call[c].done .. call[c].length : Own(c)' = Front(c, n)
      <4>1. CASE UNCHANGED file
        <5>1. Own(c)' = Own(c)
          BY <2>0, <4>1 DEF Own
        <5>. QED
          BY <3>3, <5>1, FrontGrows DEF Core
      <4>2. CASE Put(Chunk(c, Transfer(c)), <<c, writes[c]>>)
        <5>1. Own(c)' = Front(c, call[c].done + Transfer(c))
          BY <2>0, <3>3, <4>2, OwnGrows, FrontGrows DEF Core
        <5>. QED
          BY <5>1, FrontGrows DEF Core
      <4>. QED
        BY <2>4, <4>1, <4>2 DEF Failed
    <3>5. \A n : Front(c, n)' = Front(c, n)
      BY <3>1 DEF Front
    <3>. QED
      BY <3>1, <3>4, <3>5 DEF WroteSoFar, Running
  <2>. QED
    BY <1>7, <2>1, <2>2, <2>3, <2>4 DEF Segment, Answered
<1>8. ASSUME NEW d \in Conn \ {c}, Segment(d) PROVE WroteSoFar(c)'
  <2>1. UNCHANGED <<locks, writes>>
    BY <1>8 DEF Segment, Answered, ReadChunk, WriteChunk, Refused, Failed
  <2>2. call'[c] = call[c]
    BY <1>8, NextSegmentEffect
       DEF Segment, Answered, ReadChunk, WriteChunk, Refused, Failed, EndCall, Core, TypeOK
  <2>3. granted[c] = "exclusive"
    BY <2>1 DEF Writing, locks
  <2>4. \A b \in Byte : file'[b] = file[b]
    BY <1>8, <2>3, OthersWriteNothing DEF WriteSoFar
  <2>. QED
    BY <1>1, <2>1, <2>2, <2>4 DEF locks
<1>9. CASE ExecuteLate
  BY <1>9 DEF ExecuteLate, WriteSoFar
<1>. QED
  BY <1>2, <1>3, <1>4, <1>5, <1>6, <1>7, <1>8, <1>9 DEF Next

\* The inductive invariant, whatever fails; what it says of reads needs an honest
\* count of bytes, what it says of writes that nothing is executed late as well.
THEOREM Inductive == Spec => []IInv
<1>1. Init => (Exact => ReadSoFar) /\ (Exact /\ Prompt => WriteSoFar)
  <2>1. ASSUME Init PROVE WriteSoFar
    BY <2>1 DEF Init, WriteSoFar, Counted, Writing, NoCall
  <2>. QED
    BY <2>1 DEF Init, ReadSoFar, NoCall
<1>2. Core /\ (Exact => ReadSoFar) /\ [Next]_vars => (Exact => ReadSoFar)'
  <2>. SUFFICES ASSUME Core, Exact, ReadSoFar, [Next]_vars PROVE ReadSoFar'
    BY DEF Exact
  <2>1. CASE UNCHANGED vars
    BY <2>1 DEF ReadSoFar, SoFar, Current, Valid, vars, locks
  <2>. QED
    BY <2>1, ReadKept
<1>3. Core /\ (Exact /\ Prompt => WriteSoFar) /\ [Next]_vars
          => (Exact /\ Prompt => WriteSoFar)'
  <2>. SUFFICES ASSUME Core, Exact, Prompt, WriteSoFar, [Next]_vars PROVE WriteSoFar'
    BY DEF Exact, Prompt
  <2>1. CASE UNCHANGED vars
    BY <2>1 DEF WriteSoFar, Counted, Writing, WroteSoFar, Own, Front, Running, Valid, vars, locks
  <2>. QED
    BY <2>1, WriteKept
<1>4. Core /\ (Exact => ReadSoFar) /\ (Exact /\ Prompt => WriteSoFar) => IInv
  BY DEF Core, IInv
<1>. QED
  BY <1>1, <1>2, <1>3, <1>4, CoreHolds, PTL DEF Spec

\* What xRead has read under a lock that is still held is what the file holds.
THEOREM ReadsCurrentHolds == ASSUME Exact PROVE Spec => []ReadsCurrent
<1>1. IInv => ReadsCurrent
  <2>. SUFFICES ASSUME IInv, NEW c \in Conn,
                       call[c].op = "read", call[c].status = "ok",
                       granted[c] # "none", Valid(c), NEW b \in Range(c)
                PROVE  mem[c][b] = file[b] \/ (granted[c] = "exclusive" /\ file[b][1] = c)
    BY DEF ReadsCurrent
  <2>1. SoFar(c)
    BY DEF IInv, ReadSoFar
  <2>. QED
    BY <2>1 DEF SoFar, Current, Range
<1>. QED
  BY <1>1, Inductive, PTL

\* What a write call has put into the file is the front part of its range, at least
\* what it has counted as done, and all of it when it returns OK.
THEOREM WrittenPrefixHolds == ASSUME Exact, Prompt PROVE Spec => []WrittenPrefix
<1>1. IInv => WrittenPrefix
  <2>. SUFFICES ASSUME IInv, NEW c \in Conn,
                       call[c].op = "write", call[c].status # "none",
                       granted[c] = "exclusive", Valid(c)
                PROVE  /\ \E n \in call[c].done .. call[c].length :
                              {b \in Byte : file[b] = <<c, writes[c]>>}
                                = {b \in Byte : call[c].offset <= b /\ b < call[c].offset + n}
                       /\ call[c].status = "ok" => call[c].done = call[c].length
    BY DEF WrittenPrefix
  <2>1. WroteSoFar(c)
    BY DEF IInv, WriteSoFar, Writing
  <2>. QED
    BY <2>1 DEF WroteSoFar, Own, Front
<1>. QED
  BY <1>1, Inductive, PTL
=============================================================================
