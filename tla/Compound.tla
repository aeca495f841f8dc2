------------------------------- MODULE Compound -------------------------------
(***************************************************************************)
(* A request from the buffer it is built in to the values its answer       *)
(* leaves in the client: allocate_rpc and push_* write a compound into a   *)
(* growing buffer, rpc_send frames it, read_response collects the reply as *)
(* it arrives, read_until and parse_* take it apart (rpc.c, xdr.c,         *)
(* client.c, buffer.h).                                                    *)
(*                                                                         *)
(* One thread, one connection that does not break; what happens when it    *)
(* does is RpcSession.  A word stands for four bytes, a letter for a byte  *)
(* of a name, a handle or data.  The server reads a request by the grammar *)
(* of RFC 5661 and answers it.                                             *)
(***************************************************************************)
EXTENDS Integers, SequencesExt

CONSTANTS
    W,            \* words count modulo W, 2^32 in the code
    Capacity,     \* words in a new buffer, 4096 in the code
    FhSize,       \* NFS4_FHSIZE
    RootLength,   \* letters in the server's root file handle
    Path,         \* the names xOpen, xDelete and xAccess are called with
    Data,         \* what may be written or read
    Setting,      \* NFS_OPS_LIMIT: digits, <<>> when it is not set
    ServerLimit,  \* what the server may grant of each limit
    Burst,        \* bound: words that arrive at once
    MaxCalls      \* bound: calls after the connection is made

Letter == 0 .. 3
Slash  == 3          \* the letter that divides a path
Junk   == W - 1      \* memory nobody has written

ASSUME WordAssumption == W \in Nat /\ W > 2000000 /\ W % 4 = 0
ASSUME SizeAssumption ==
    /\ Capacity \in Nat /\ Capacity >= 24     \* allocate_rpc() writes 23 words
    /\ FhSize \in 1 .. W - 4 /\ RootLength \in 1 .. FhSize
    /\ Burst \subseteq Nat \ {0} /\ MaxCalls \in Nat
ASSUME InputAssumption ==
    /\ Path \subseteq Seq(Letter) /\ Data \subseteq Seq(Letter)
    /\ \A z \in Path \union Data : Len(z) < W - 3      \* mxPathname, and a page
    /\ Setting \subseteq Seq(0 .. 9) /\ ServerLimit \subseteq 1 .. W - 1

VARIABLES
    pc,       \* place in transact()
    call,     \* the call in progress, or the last one
    calls,    \* calls begun since the connection was made
    up,       \* requests of rpc_connection() that have succeeded
    c, f,     \* struct client; struct file, or NoFile
    forward, reverse,   \* c->forward, c->reverse
    frame, got,         \* read_fully(): words wanted, words read
    wire, socket,       \* words of the reply under way, and arrived
    result,   \* what the last call returned
    srv,      \* what the server knows
    sent, meant         \* the last request: as it was sent; as it should be read

client  == <<c, f, result, up>>
network == <<frame, got, wire, socket>>
server  == <<srv, sent, meant>>
vars    == <<pc, call, calls, client, forward, reverse, network, server>>

-----------------------------------------------------------------------------
\* Numbers and words.

Max2(a, b) == IF a > b THEN a ELSE b
Min2(a, b) == IF a < b THEN a ELSE b

\* MUTANT one word more when the length is a multiple of four
PadOver(n) == (n \div 4 + 1) * 4

\* a - 1 wraps around for 0, and the product wraps back.
Pad(n) == ((((n - 1) % W) \div 4 + 1) * 4) % W

\* Adds ten times each digit.
ConfigU64(digits, default) ==
    LET after[i \in 0 .. Len(digits)] == IF i = 0 THEN 0 ELSE after[i - 1] + 10 * digits[i]
    IN  IF digits = <<>> THEN default ELSE after[Len(digits)]

\* Four letters in a word; the last word of a string is filled with zeroes.
Word(s, i) ==
    LET letter(k) == IF k <= Len(s) THEN s[k] ELSE 0
    IN  letter(4*i - 3) + 4 * letter(4*i - 2) + 16 * letter(4*i - 1) + 64 * letter(4*i)
Words(s)   == [i \in 1 .. Pad(Len(s)) \div 4 |-> Word(s, i)]
Weight     == <<1, 4, 16, 64>>
Letters(w, n) == [k \in 1 .. n |-> (w[(k-1) \div 4 + 1] \div Weight[((k-1) % 4) + 1]) % 4]

Be32(n)   == <<n>>
Be64(n)   == <<n \div W, n % W>>
String(s) == <<Len(s)>> \o Words(s)

-----------------------------------------------------------------------------
\* struct buffer.  over records that something was written past the end.

NewBuffer ==
    [start |-> 0, end |-> 0, capacity |-> Capacity, over |-> FALSE,
     contents |-> [i \in 1 .. Capacity |-> Junk]]

Length(b) == b.end - b.start

\* MUTANT start stays where parsing has left it
ResetEnd(b) == [b EXCEPT !.end = 0]

Reset(b) == [b EXCEPT !.start = 0, !.end = 0]

Fresh(n) == [i \in 1 .. n |-> Junk]

\* MUTANT grows one word late
ExtendLate(b, n) ==
    LET capacity == Max2(2 * b.capacity, b.capacity + n)
    IN  IF b.capacity + 1 >= b.end + n THEN b
        ELSE [b EXCEPT !.start = 0, !.end = Length(b), !.capacity = capacity,
                       !.contents = SubSeq(@, 1, Length(b)) \o Fresh(capacity - Length(b))]

\* Copies as many words as are in use, but from the front of the old memory.
Extend(b, n) ==
    LET capacity == Max2(2 * b.capacity, b.capacity + n)
    IN  IF b.capacity >= b.end + n THEN b
        ELSE [b EXCEPT !.start = 0, !.end = Length(b), !.capacity = capacity,
                       !.contents = SubSeq(@, 1, Length(b)) \o Fresh(capacity - Length(b))]

\* memcpy to the n-th word on.
Store(b, n, w) ==
    [b EXCEPT !.over = @ \/ n + Len(w) > b.capacity,
              !.contents = SubSeq(@, 1, n) \o w \o SubSeq(@, n + Len(w) + 1, Len(@))]

Push(b, w)     == LET e == Extend(b, Len(w))
                  IN  [Store(e, e.end, w) EXCEPT !.end = e.end + Len(w)]

\* FoldLeft(Push, b, ws), which takes TLC cubic time.
PushAll(b, ws) ==
    LET after[i \in 0 .. Len(ws)] == IF i = 0 THEN b ELSE Push(after[i - 1], ws[i])
    IN  after[Len(ws)]
Contents(b)    == SubSeq(b.contents, b.start + 1, b.end)

\* split(): a name between two dividers may be empty, the last one is dropped then.
Split(z) ==
    LET after[i \in 0 .. Len(z)] ==
            IF i = 0 THEN [parts |-> <<>>, each |-> <<>>]
            ELSE IF z[i] = Slash
                 THEN [parts |-> Append(after[i - 1].parts, after[i - 1].each), each |-> <<>>]
                 ELSE [after[i - 1] EXCEPT !.each = Append(@, z[i])]
        all == after[Len(z)]
    IN  IF all.each = <<>> THEN all.parts ELSE Append(all.parts, all.each)

\* The first name is that of the server: vector_pop().
PathOf(z) == Tail(Split(z))

\* xOpen, xDelete and xAccess are called with the names of a server and a file.
ASSUME PathAssumption == \A z \in Path : Len(Split(z)) > 1

-----------------------------------------------------------------------------
\* Requests.  An operation is its number and what is pushed after it, one
\* sequence for each call of buffer_extend().

Op == [GETATTR |-> 9, GETFH |-> 10, LOCK |-> 12, LOCKU |-> 14, LOOKUP |-> 15,
       OPEN |-> 18, PUTFH |-> 22, PUTROOTFH |-> 24, READ |-> 25, REMOVE |-> 28,
       WRITE |-> 38, EXCHANGE_ID |-> 42, CREATE_SESSION |-> 43, SEQUENCE |-> 53,
       RECLAIM_COMPLETE |-> 58]

CoOwner  == [i \in 1 .. 16 |-> 1]
Verifier == <<7, 8>>
OwnOwner == [i \in 1 .. 22 |-> 2]      \* "open id:%lx" of the verifier, less a digit
Program  == 100003
NoFile   == [fh |-> <<>>, open |-> <<>>, latest |-> <<>>]

\* uid, gid, auxiliary gids, verifier; then tag and minor version
Header(xid) ==
    <<Be32(0), Be32(xid), Be32(0), Be32(2), Be32(Program), Be32(4), Be32(1), Be32(1),
      Be32(36), Be32(5), String([i \in 1 .. 15 |-> 1]),
      Be32(0), Be32(0), Be32(0), Be32(0), Be32(0), Be32(0), Be32(1)>>

OpCountLoc == 23

ExchangeId ==
    <<Op.EXCHANGE_ID, <<Verifier, String(CoOwner), Be32(0), Be32(0), Be32(1),
      String([i \in 1 .. 12 |-> 1]), String([i \in 1 .. 34 |-> 1]), Be64(0), Be32(0)>>>>

ChannelAttrs(k) ==
    <<Be32(0), Be32(k.maxreq), Be32(k.maxresp), Be32(1048576), Be32(k.maxops),
      Be32(k.maxreqs), Be32(0)>>

CreateSession(k) ==
    <<Op.CREATE_SESSION, <<k.clientid, Be32(k.serverSequence), Be32(1)>>
      \o ChannelAttrs(k) \o ChannelAttrs(k) \o <<Be32(123), Be32(1), Be32(0)>>>>

Sequence(k) ==
    <<Op.SEQUENCE, <<k.session, Be32(k.sequence), Be32(0), Be32(0), Be32(0)>>>>

Lookups(path) == [i \in DOMAIN path |-> <<Op.LOOKUP, <<String(path[i])>>>>]

\* The whole array is sent, whatever the length of the handle in it.
RootHandle(k) == [i \in 1 .. FhSize |-> IF i <= Len(k.root) THEN k.root[i] ELSE 0]

\* push_resolution() starts at the root, push_resolution_rfh() at its handle.
Resolution(path)       == <<<<Op.PUTROOTFH, <<>>>>>> \o Lookups(path)
ResolutionRfh(k, path) == <<<<Op.PUTFH, <<String(RootHandle(k))>>>>>> \o Lookups(path)
InitialPath(k, path)   == ResolutionRfh(k, Front(path))

Stateid(s) == <<Be32(s[1]), Tail(s)>>

Owner(k) == <<k.clientid, String(OwnOwner)>>
OpenArgs(k, name, access, create) ==
    <<Be32(0), Be32(access), Be32(0)>> \o Owner(k)
    \o (IF create THEN <<Be32(1), Be32(0), Be32(2), Be32(0), Be32(2), Be32(4), Be32(420)>>
        ELSE <<Be32(0)>>)
    \o <<Be32(0), String(name)>>

\* On an open file: the file handle is cached (NFS_USE_FILEHANDLE cannot be turned off).
OnFile(k, op, args) == <<Sequence(k), <<Op.PUTFH, <<String(f.fh)>>>>, <<op, args>>>>

\* The operations of a call.
Request(k, x) ==
    CASE x.kind = "exchange_id"    -> <<ExchangeId>>
      [] x.kind = "create_session" -> <<CreateSession(k)>>
      [] x.kind = "root_fh"  -> <<Sequence(k), <<Op.PUTROOTFH, <<>>>>, <<Op.GETFH, <<>>>>>>
      [] x.kind = "reclaim"  -> <<Sequence(k), <<Op.RECLAIM_COMPLETE, <<Be32(0)>>>>>>
      [] x.kind = "open"     -> <<Sequence(k)>> \o InitialPath(k, PathOf(x.path))
                                \o <<<<Op.OPEN, OpenArgs(k, Last(PathOf(x.path)), x.access,
                                                         x.create)>>, <<Op.GETFH, <<>>>>>>
      [] x.kind = "exists"   -> <<Sequence(k)>> \o Resolution(PathOf(x.path))
                                \o <<<<Op.GETFH, <<>>>>>>
      [] x.kind = "delete"   -> <<Sequence(k)>> \o InitialPath(k, PathOf(x.path))
                                \o <<<<Op.REMOVE, <<String(Last(PathOf(x.path)))>>>>>>
      [] x.kind = "size"     -> OnFile(k, Op.GETATTR, <<Be32(1), Be32(16)>>)
      [] x.kind = "read"     -> OnFile(k, Op.READ, Stateid(f.latest)
                                       \o <<Be64(x.offset), Be32(x.length)>>)
      [] x.kind = "write"    -> OnFile(k, Op.WRITE, Stateid(f.latest)
                                       \o <<Be64(x.offset), Be32(2), String(x.data)>>)
      [] x.kind = "lock"     -> OnFile(k, Op.LOCK,
                                    <<Be32(x.type), Be32(0), Be64(x.offset), Be64(x.length),
                                      Be32(1), Be32(0)>> \o Stateid(f.open)
                                    \o <<Be32(0)>> \o Owner(k))
      [] x.kind = "unlock"   -> OnFile(k, Op.LOCKU,
                                    <<Be32(x.type), Be32(0)>> \o Stateid(f.latest)
                                    \o <<Be64(x.offset), Be64(x.length)>>)

InSession(x) == x.kind \notin {"exchange_id", "create_session"}

\* allocate_rpc() empties the buffer; it makes room for the number of
\* operations without buffer_extend().  rpc_send() fills in that number and the
\* length of the frame.
Build(b, xid, ops) ==
    LET header == PushAll(Reset(b), Header(xid))
        opened == [header EXCEPT !.end = @ + 1, !.over = @ \/ header.end >= header.capacity]
    IN  PushAll(opened, FlattenSeq([i \in DOMAIN ops |-> <<Be32(ops[i][1])>> \o ops[i][2]]))

Framed(b, opcount) == [Contents(b) EXCEPT ![1] = 4 * (Length(b) - 1), ![OpCountLoc] = opcount]

-----------------------------------------------------------------------------
\* The server, external: how it reads a request.

StateidFields == <<"u32", "other">>
OwnerFields   == <<"u64", "string">>
ChannelFields == [k \in 1 .. 7 |-> "u32"]

Grammar(op) ==
    CASE op = Op.SEQUENCE  -> <<"session", "u32", "u32", "u32", "u32">>
      [] op \in {Op.PUTFH, Op.LOOKUP, Op.REMOVE} -> <<"string">>
      [] op = Op.RECLAIM_COMPLETE -> <<"u32">>
      [] op = Op.EXCHANGE_ID -> <<"u64", "string", "u32", "u32", "u32", "string", "string",
                                  "u64", "u32">>
      [] op = Op.CREATE_SESSION -> <<"u64", "u32", "u32">> \o ChannelFields \o ChannelFields
                                   \o <<"u32", "u32", "u32">>
      [] op = Op.OPEN      -> <<"u32", "u32", "u32">> \o OwnerFields \o <<"how", "u32", "string">>
      [] op = Op.GETATTR   -> <<"u32", "u32">>
      [] op = Op.READ      -> StateidFields \o <<"u64", "u32">>
      [] op = Op.WRITE     -> StateidFields \o <<"u64", "u32", "string">>
      [] op = Op.LOCK      -> <<"u32", "u32", "u64", "u64", "u32", "u32">> \o StateidFields
                              \o <<"u32">> \o OwnerFields
      [] op = Op.LOCKU     -> <<"u32", "u32">> \o StateidFields \o <<"u64", "u64">>
      [] OTHER             -> <<>>

WordAt(w, i)   == IF i \in DOMAIN w THEN w[i] ELSE 0
Span(w, at, n) == [i \in 1 .. Min2(n, Len(w)) |-> WordAt(w, at + i - 1)]

\* Words of a field at a place, and what it says.  Who creates a file says how in
\* seven words.
Fixed == [u32 |-> 1, u64 |-> 2, other |-> 3, session |-> 4]
Width(kind, w, at) ==
    CASE kind = "string" -> 1 + (WordAt(w, at) + 3) \div 4
      [] kind = "how"    -> IF WordAt(w, at) = 1 THEN 7 ELSE 1
      [] OTHER           -> Fixed[kind]
Field(kind, w, at) ==
    IF kind = "string"
    THEN LET n == Min2(WordAt(w, at), 4 * Len(w))
         IN  Letters(Span(w, at + 1, (n + 3) \div 4), n)
    ELSE Span(w, at, Width(kind, w, at))

\* Where the fields behind a place begin, and where the last one ends.
After(kind, w, at) == at + Width(kind, w, at)
Places(kinds, w, at) ==
    LET place[k \in 0 .. Len(kinds)] ==
            IF k = 0 THEN at ELSE After(kinds[k], w, place[k - 1])
    IN  place

\* One operation: its number and what its fields say.
FieldsAt(w, at) == Places(Grammar(WordAt(w, at)), w, at + 1)
ReadOp(w, at) ==
    LET kinds == Grammar(WordAt(w, at))
    IN  <<WordAt(w, at), [k \in 1 .. Len(kinds) |-> Field(kinds[k], w, FieldsAt(w, at)[k - 1])]>>
AfterOp(w, at) == FieldsAt(w, at)[Len(Grammar(WordAt(w, at)))]

\* The credential says how long it is; the request must end with its last operation.
Understand(w) ==
    LET tag   == 10 + WordAt(w, 9) \div 4 + 2
        count == Min2(WordAt(w, tag + 2), Len(w))
        place[i \in 0 .. count] == IF i = 0 THEN tag + 3 ELSE AfterOp(w, place[i - 1])
    IN  [frame |-> w[1] = 4 * (Len(w) - 1), whole |-> place[count] = Len(w) + 1, xid |-> w[2],
         ops |-> [i \in 1 .. count |-> ReadOp(w, place[i - 1])]]

\* What a call means, said by what the server knows and not by what the client
\* has stored.
\* The names of a path by the places of the dividers.
Names(z) ==
    LET cuts   == {0, Len(z) + 1} \union {i \in DOMAIN z : z[i] = Slash}
        cut(k) == CHOOSE i \in cuts : Cardinality({j \in cuts : j < i}) = k
        parts  == [k \in 1 .. Cardinality(cuts) - 1 |-> SubSeq(z, cut(k - 1) + 1, cut(k) - 1)]
    IN  Tail(IF Last(parts) = <<>> THEN Front(parts) ELSE parts)

PutSession   == <<Op.SEQUENCE, <<srv.session, <<srv.slot + 1>>, <<0>>, <<0>>, <<0>>>>>>
PutRoot      == <<Op.PUTROOTFH, <<>>>>
PutHandle(h) == <<Op.PUTFH, <<h>>>>
Walk(path)   == [i \in DOMAIN path |-> <<Op.LOOKUP, <<path[i]>>>>]

SaidId(s)    == <<<<s[1]>>, Tail(s)>>
SaidOwner    == <<srv.clientid, OwnOwner>>
SaidRange(x) == <<Be64(x.offset), Be64(x.length)>>
SaidClient   == <<Verifier, CoOwner, <<0>>, <<0>>, <<1>>, [i \in 1 .. 12 |-> 1],
                  [i \in 1 .. 34 |-> 1], <<0, 0>>, <<0>>>>
SaidSession  ==
    LET channel == <<<<0>>, <<c.maxreq>>, <<c.maxresp>>, <<1048576>>, <<c.maxops>>,
                     <<c.maxreqs>>, <<0>>>>
    IN  <<srv.clientid, <<srv.seqid>>, <<1>>>> \o channel \o channel \o <<<<123>>, <<1>>, <<0>>>>
SaidOpen(x)  ==
    <<<<0>>, <<x.access>>, <<0>>>> \o SaidOwner
    \o <<IF x.create THEN <<1, 0, 2, 0, 2, 4, 420>> ELSE <<0>>, <<0>>, Last(Names(x.path))>>
SaidLock(x)  ==
    <<<<x.type>>, <<0>>>> \o SaidRange(x) \o <<<<1>>, <<0>>>> \o SaidId(srv.open)
    \o <<<<0>>>> \o SaidOwner

\* On an open file.
Asked(op, says) == <<PutSession, PutHandle(srv.fh), <<op, says>>>>

Meant(x) ==
    CASE x.kind = "exchange_id"    -> <<<<Op.EXCHANGE_ID, SaidClient>>>>
      [] x.kind = "create_session" -> <<<<Op.CREATE_SESSION, SaidSession>>>>
      [] x.kind = "root_fh" -> <<PutSession, PutRoot, <<Op.GETFH, <<>>>>>>
      [] x.kind = "reclaim" -> <<PutSession, <<Op.RECLAIM_COMPLETE, <<<<0>>>>>>>>
      [] x.kind = "open"    -> <<PutSession, PutHandle(srv.root)>> \o Walk(Front(Names(x.path)))
                               \o <<<<Op.OPEN, SaidOpen(x)>>, <<Op.GETFH, <<>>>>>>
      [] x.kind = "exists"  -> <<PutSession, PutRoot>> \o Walk(Names(x.path))
                               \o <<<<Op.GETFH, <<>>>>>>
      [] x.kind = "delete"  -> <<PutSession, PutHandle(srv.root)>> \o Walk(Front(Names(x.path)))
                               \o <<<<Op.REMOVE, <<Last(Names(x.path))>>>>>>
      [] x.kind = "size"    -> Asked(Op.GETATTR, <<<<1>>, <<16>>>>)
      [] x.kind = "read"    -> Asked(Op.READ, SaidId(srv.latest) \o <<Be64(x.offset), <<x.length>>>>)
      [] x.kind = "write"   -> Asked(Op.WRITE, SaidId(srv.latest)
                                               \o <<Be64(x.offset), <<2>>, x.data>>)
      [] x.kind = "lock"    -> Asked(Op.LOCK, SaidLock(x))
      [] x.kind = "unlock"  -> Asked(Op.LOCKU, <<<<x.type>>, <<0>>>> \o SaidId(srv.latest)
                                               \o SaidRange(x))

\* How the server answers: what it knows then, and the words for each operation.
Handle      == {<<1, 2, 1>>, [i \in 1 .. FhSize |-> 2]}
ChangeInfo  == <<1, 0, 1, 0, 2>>
Ace(name)   == <<0, 0, 0>> \o String(name)
Delegations ==
    {<<0>>,                                              \* none
     <<1, 1, 91, 92, 93, 0>> \o Ace(<<1, 1, 1, 1>>),     \* read
     <<1, 1, 91, 92, 93, 0>> \o Ace(<<1, 1, 1, 1, 1>>),
     <<2, 1, 91, 92, 93, 0, 1, 0, 4096>> \o Ace(<<1>>),  \* write
     <<3, 0>>, <<3, 1, 0>>, <<3, 2, 1>>}                 \* none, and why

Knowing(x) ==
    CASE x.kind = "exchange_id" -> {[srv EXCEPT !.clientid = <<5, 6>>, !.seqid = 3]}
      [] x.kind = "create_session" ->
           {[srv EXCEPT !.session = <<11, 12, 13, 14>>, !.slot = 0, !.limit = n] :
              n \in ServerLimit}
      [] x.kind = "open" ->
           {[srv EXCEPT !.fh = h, !.open = <<srv.open[1] + 1, 71, 72, 73>>,
                        !.latest = <<srv.open[1] + 1, 71, 72, 73>>] : h \in Handle}
      [] x.kind = "size" -> {[srv EXCEPT !.value = Be64(W + 9)]}
      [] x.kind = "read" -> {[srv EXCEPT !.value = d] : d \in {e \in Data : Len(e) <= x.length}}
      [] x.kind \in {"lock", "unlock"} ->
           {[srv EXCEPT !.latest = <<srv.latest[1] + 1, 81, 82, 83>>]}
      [] OTHER -> {srv}

Answer(op, s, delegation) ==
    CASE op = Op.SEQUENCE       -> s.session \o <<s.slot, 0, 0, 0, 0>>
      [] op = Op.GETFH          -> String(IF s.fh = <<>> THEN s.root ELSE s.fh)
      [] op = Op.EXCHANGE_ID    -> s.clientid \o <<s.seqid, 0, 0, 0>>
      [] op = Op.CREATE_SESSION ->
           LET channel == <<0, s.limit, s.limit, 1048576, s.limit, s.limit, 0>>
           IN  s.session \o <<s.seqid, 1>> \o channel \o channel
      [] op = Op.OPEN           -> s.open \o ChangeInfo \o <<0, 2, 0, 0>> \o delegation
      [] op = Op.REMOVE         -> ChangeInfo
      [] op = Op.GETATTR        -> <<1, 16, 8>> \o s.value
      [] op = Op.READ           -> <<1>> \o String(s.value)
      [] op = Op.WRITE          -> <<1, 2, 7, 7>>
      [] op \in {Op.LOCK, Op.LOCKU} -> s.latest
      [] OTHER -> <<>>

\* The operations up to the first that fails, with its status; the status of the
\* whole comes first.
Reply(xid, ops, status, s, delegation) ==
    LET body == <<xid, 1, 0, 0, 0, 0, status, 0, Len(ops)>>
                \o FlattenSeq([i \in DOMAIN ops |->
                      IF status # 0 /\ i = Len(ops) THEN <<ops[i], status>>
                      ELSE <<ops[i], 0>> \o Answer(ops[i], s, delegation)])
    IN  <<4 * Len(body)>> \o body

-----------------------------------------------------------------------------
\* Replies, as the client takes them apart.  A read past the end is an error, as
\* is every value that is not the one expected; Junk stands for it.

Get(r, i) == IF i \in DOMAIN r THEN r[i] ELSE Junk
Take(r, i, n) == [j \in 1 .. n |-> Get(r, i + j - 1)]

\* xid, reply, accepted, verifier, status, no tag
ParseRpc(r) == Take(r, 1, 8) = <<c.xid, 1, 0, 0, 0, 0, 0, 0>>

\* MUTANT SEQUENCE has one word less
SkipShort(op) ==
    CASE op = Op.SEQUENCE -> 8 [] op \in {Op.PUTROOTFH, Op.PUTFH, Op.LOOKUP} -> 0

Skip(op) ==
    CASE op = Op.SEQUENCE -> 9 [] op \in {Op.PUTROOTFH, Op.PUTFH, Op.LOOKUP} -> 0

\* The place after the number of the operation looked for, 0 when something
\* before it has failed or is not known.
ReadUntil(r, which) ==
    LET Scan[at \in Nat] ==
            IF Get(r, at) = which THEN at + 1
            ELSE IF \/ Get(r, at + 1) # 0
                    \/ Get(r, at) \notin {Op.SEQUENCE, Op.PUTROOTFH, Op.PUTFH, Op.LOOKUP}
                 THEN 0
            ELSE Scan[at + 2 + Skip(Get(r, at))]
    IN  Scan[10]

\* Where GETFH is expected in a reply to OPEN; 0 when parse_open() gives up.  The
\* name of an ace is skipped without its padding, which leaves no word in place.
AfterDelegation(r, at) ==
    LET type == Get(r, at) IN
    CASE type = 0 -> at + 1
      [] type = 1 -> IF Get(r, at + 9) % 4 = 0 THEN at + 10 + Get(r, at + 9) \div 4 ELSE 0
      [] type = 3 -> at + 2 + (CASE Get(r, at + 1) = 1 -> 2
                                 [] Get(r, at + 1) = 2 -> 1
                                 [] OTHER -> 0)
      [] OTHER -> 0

ParseOpen(r, at) == AfterDelegation(r, at + 4 + 6 + Get(r, at + 10) + 1)

\* MUTANT takes what comes for the handle
FileHandleTrusting(r, at) == Letters(Take(r, at + 3, FhSize), Min2(Get(r, at + 2), FhSize))

\* <<>> when this is not the answer to a GETFH
FileHandle(r, at) ==
    IF Get(r, at) = Op.GETFH /\ Get(r, at + 1) = 0 /\ Get(r, at + 2) <= FhSize
    THEN Letters(Take(r, at + 3, FhSize), Get(r, at + 2))
    ELSE <<>>

Which(x) ==
    CASE x.kind = "exchange_id" -> Op.EXCHANGE_ID [] x.kind = "create_session" -> Op.CREATE_SESSION
      [] x.kind \in {"root_fh", "exists"} -> Op.GETFH [] x.kind = "reclaim" -> Op.RECLAIM_COMPLETE
      [] x.kind = "open" -> Op.OPEN [] x.kind = "delete" -> Op.REMOVE
      [] x.kind = "size" -> Op.GETATTR [] x.kind = "read" -> Op.READ
      [] x.kind = "write" -> Op.WRITE [] x.kind = "lock" -> Op.LOCK
      [] x.kind = "unlock" -> Op.LOCKU

Outcome(ok, k, file, value) == [ok |-> ok, c |-> k, f |-> file, value |-> value]
Failed == Outcome(FALSE, c, f, <<>>)

\* normalize
AtMost(k, n) ==
    [k EXCEPT !.maxreq = Min2(@, n[1]), !.maxresp = Min2(@, n[2]), !.maxops = Min2(@, n[4]),
              !.maxreqs = Min2(@, n[5])]

\* The values behind the status of the operation.  parse_open() ends without a
\* return statement: what file_open_internal() takes for its status is undefined.
Parse(x, r, at) ==
    CASE x.kind = "exchange_id" ->
           {Outcome(TRUE, [c EXCEPT !.clientid = Take(r, at, 2),
                                    !.serverSequence = Get(r, at + 2)], f, <<>>)}
      [] x.kind = "create_session" ->
           {Outcome(TRUE, AtMost([c EXCEPT !.session = Take(r, at, 4)], Take(r, at + 7, 5)),
                    f, <<>>)}
      [] x.kind = "root_fh" ->
           IF Get(r, at) > FhSize THEN {Failed}
           ELSE {Outcome(TRUE, [c EXCEPT !.root = Letters(Take(r, at + 1, FhSize), Get(r, at))],
                         f, <<>>)}
      [] x.kind = "open" ->
           LET fh == FileHandle(r, ParseOpen(r, at))
           IN  {Failed} \union
               (IF ParseOpen(r, at) = 0 \/ fh = <<>> THEN {}
                ELSE {Outcome(TRUE, c, [fh |-> fh, open |-> Take(r, at, 4),
                                        latest |-> Take(r, at, 4)], <<>>)})
      [] x.kind = "size" -> {Outcome(TRUE, c, f, Take(r, Len(r) - 1, 2))}
      [] x.kind = "read" ->
           {Outcome(TRUE, c, f, Letters(Take(r, at + 2, Len(r)), Get(r, at + 1)))}
      [] x.kind \in {"lock", "unlock"} ->
           {Outcome(TRUE, c, [f EXCEPT !.latest = Take(r, at, 4)], <<>>)}
      [] OTHER -> {Outcome(TRUE, c, f, <<>>)}

\* base_transact()
Outcomes(x, r) ==
    LET at == ReadUntil(r, Which(x))
    IN  IF ~ParseRpc(r) \/ at = 0 \/ Get(r, at) # 0 THEN {Failed} ELSE Parse(x, r, at + 1)

-----------------------------------------------------------------------------
Startup == <<"exchange_id", "create_session", "root_fh", "reclaim">>

\* What the VFS asks for.  Bound: a call by name only while no file is
\* open, and not as the last call.
NameCalls == [kind : {"exists", "delete"}, path : Path]
OpenCalls == {[kind |-> "open", path |-> z, access |-> mode[1], create |-> mode[2]] :
                z \in Path, mode \in {<<1, FALSE>>, <<3, TRUE>>}}
FileCalls ==
    {[kind |-> "size"], [kind |-> "read", offset |-> W + 5, length |-> 6]}
    \union {[kind |-> "write", offset |-> W + 5, data |-> d] : d \in Data}
    \union [kind : {"lock", "unlock"}, type : {2}, offset : {1073741826}, length : {510}]

Init ==
    /\ pc = "idle" /\ call = [kind |-> "none"] /\ calls = 0 /\ up = 0
    /\ \E digits \in Setting :
         c = [xid |-> 100, clientid |-> <<0, 0>>, session |-> <<0, 0, 0, 0>>, sequence |-> 0,
              serverSequence |-> 0, root |-> <<>>, maxreq |-> 1048576, maxresp |-> 1048576,
              maxops |-> ConfigU64(digits, 16), maxreqs |-> 32]
    /\ f = NoFile /\ result = [ok |-> TRUE, value |-> <<>>]
    /\ forward = NewBuffer /\ reverse = NewBuffer
    /\ frame = 0 /\ got = 0 /\ wire = <<>> /\ socket = <<>>
    /\ srv = [clientid |-> <<0, 0>>, seqid |-> 0, session |-> <<0, 0, 0, 0>>, slot |-> 0,
              root |-> [i \in 1 .. RootLength |-> 1], fh |-> <<>>, open |-> <<0, 0, 0, 0>>,
              latest |-> <<0, 0, 0, 0>>, limit |-> 0, value |-> <<>>]
    /\ sent = <<>> /\ meant = <<>>

\* allocate_rpc(), push_sequence() and the rest of the request; the requests of
\* rpc_connection() use the buffer of the replies.
Begin(x) ==
    LET k == [c EXCEPT !.xid = @ + 1, !.sequence = IF x.kind = "create_session" THEN 1 ELSE @]
        b == Build(IF up < 4 THEN reverse ELSE forward, k.xid, Request(k, x))
    IN  /\ pc = "idle"
        /\ pc' = "send" /\ call' = x
        /\ c' = [k EXCEPT !.sequence = IF InSession(x) THEN @ + 1 ELSE @,
                          !.serverSequence = IF x.kind = "create_session" THEN @ + 1 ELSE @]
        /\ IF up < 4 THEN reverse' = b /\ UNCHANGED forward
                     ELSE forward' = b /\ UNCHANGED reverse
        /\ UNCHANGED <<f, result, up, network, server>>

Connect == up < 4 /\ Begin([kind |-> Startup[up + 1]]) /\ UNCHANGED calls

Use ==
    /\ up = 4
    /\ calls < (IF f = NoFile THEN MaxCalls - 1 ELSE MaxCalls)      \* bound
    /\ \E x \in IF f = NoFile THEN NameCalls \union OpenCalls ELSE FileCalls : Begin(x)
    /\ calls' = calls + 1

\* file_close() tells the server nothing.
Close ==
    /\ pc = "idle" /\ f # NoFile
    /\ f' = NoFile
    /\ UNCHANGED <<pc, call, calls, c, result, up, forward, reverse, network, server>>

\* rpc_send(), and the server: it does what it is asked, or one of the operations
\* fails, an OPEN in front of it excepted.
Send ==
    LET b == IF up < 4 THEN reverse ELSE forward
        ops == Meant(call)
        named == [i \in DOMAIN ops |-> ops[i][1]]
        Done(s) == IF InSession(call) THEN [s EXCEPT !.slot = srv.slot + 1] ELSE s
        Opened(n) == call.kind = "open" /\ n = Len(ops)
    IN  /\ pc = "send"
        /\ pc' = "frame"
        /\ sent' = Framed(b, Len(Request(c, call)))
        /\ meant' = [frame |-> TRUE, whole |-> TRUE, xid |-> c.xid, ops |-> ops]
        /\ \E d \in IF call.kind = "open" THEN Delegations ELSE {<<>>} :
             \/ \E s \in Knowing(call) :
                  srv' = Done(s) /\ wire' = Reply(c.xid, named, 0, srv', d)
             \/ \E n \in 1 .. Len(ops) : \E s \in IF Opened(n) THEN Knowing(call) ELSE {srv} :
                  /\ n > 1 \/ ~InSession(call)
                  /\ srv' = Done(s) /\ wire' = Reply(c.xid, SubSeq(named, 1, n), 2, srv', d)
        /\ UNCHANGED <<call, calls, client, forward, reverse, frame, got, socket>>

\* TCP delivers the reply in pieces.
Arrive ==
    \E n \in Burst :
        /\ wire # <<>>
        /\ socket' = socket \o SubSeq(wire, 1, Min2(n, Len(wire)))
        /\ wire' = SubSeq(wire, Min2(n, Len(wire)) + 1, Len(wire))
        /\ UNCHANGED <<pc, call, calls, client, forward, reverse, frame, got, server>>

\* MUTANT the length counts itself
FrameWordsLess(h) == h \div 4 - 1

\* MUTANT the length does not count itself
FrameWordsMore(h) == h \div 4 + 1

FrameWords(h) == h \div 4

ReadFrame ==
    /\ pc = "frame" /\ socket # <<>>
    /\ frame' = FrameWords(Head(socket)) /\ got' = 0
    /\ socket' = Tail(socket)
    /\ reverse' = Extend(Reset(reverse), frame')
    /\ pc' = "body"
    /\ UNCHANGED <<call, calls, client, forward, wire, server>>

Place == reverse.start + got

\* read_fully() asks for as many words as the whole frame has, each time.
ReadBody ==
    LET n == Min2(Len(socket), frame) IN
    /\ pc = "body" /\ n > 0
    /\ got' = got + n
    /\ reverse' = [Store(reverse, Place, SubSeq(socket, 1, n)) EXCEPT
                      !.end = IF got' = frame THEN frame ELSE 0]
    /\ socket' = SubSeq(socket, n + 1, Len(socket))
    /\ pc' = IF got' >= frame THEN "parse" ELSE "body"
    /\ UNCHANGED <<call, calls, client, forward, frame, wire, server>>

\* An error in rpc_connection() is the end of it; every other call may be followed
\* by the next.  Parsing moves start along the reply; where it stops makes no
\* difference, the model says at the end.
Return ==
    /\ pc = "parse"
    /\ \E o \in (IF got = frame THEN Outcomes(call, Contents(reverse)) ELSE {Failed}) :
         /\ c' = o.c /\ f' = o.f /\ result' = [ok |-> o.ok, value |-> o.value]
         /\ up' = IF up < 4 /\ o.ok THEN up + 1 ELSE up
         /\ pc' = IF up < 4 /\ ~o.ok THEN "closed" ELSE "idle"
    /\ reverse' = [reverse EXCEPT !.start = reverse.end]
    /\ UNCHANGED <<call, calls, forward, network, server>>

Next == Connect \/ Use \/ Close \/ Send \/ Arrive \/ ReadFrame \/ ReadBody \/ Return

\* The server and TCP deliver, and a thread in a call runs.  The last line stands for
\* the weak fairness of Send and Return, which pc enables, and whose ENABLED
\* TLC evaluates slowly.
Fairness ==
    /\ WF_vars(Arrive) /\ WF_vars(ReadFrame) /\ WF_vars(ReadBody)
    /\ []<>(pc # "send") /\ []<>(pc # "parse")

Spec == Init /\ [][Next]_vars /\ Fairness

-----------------------------------------------------------------------------
\* Types: the place, the counters, what client and server know, and the buffers.
Buffer ==
    [start : Nat, end : Nat, capacity : Nat, over : BOOLEAN, contents : Seq(Nat)]
Four == [1 .. 4 -> Nat]
Name == Seq(Letter)
Call ==
    [kind : {"none", "exchange_id", "create_session", "root_fh", "reclaim"}]
    \union NameCalls \union OpenCalls \union FileCalls
Client ==
    [xid : Nat, clientid : [1 .. 2 -> Nat], session : Four, sequence : Nat,
     serverSequence : Nat, root : Name, maxreq : Nat, maxresp : Nat, maxops : Nat,
     maxreqs : Nat]
File == [fh : Name, open : Four, latest : Four]
Server ==
    [clientid : [1 .. 2 -> Nat], seqid : Nat, session : Four, slot : Nat, root : Name,
     fh : Name, open : Four, latest : Four, limit : Nat, value : Seq(Nat)]

TypeOK ==
    /\ pc \in {"idle", "send", "frame", "body", "parse", "closed"}
    /\ call \in Call /\ calls \in 0 .. MaxCalls /\ up \in 0 .. 4
    /\ c \in Client /\ f \in File \union {NoFile} /\ srv \in Server
    /\ {forward, reverse} \subseteq Buffer
    /\ \A b \in {forward, reverse} : b.start <= b.end /\ Len(b.contents) = b.capacity
    /\ frame \in Nat /\ got \in Nat
    /\ wire \in Seq(Nat) /\ socket \in Seq(Nat) /\ sent \in Seq(Nat)
    /\ DOMAIN result = {"ok", "value"} /\ result.ok \in BOOLEAN

\* The call in progress is one the state allows: requests of rpc_connection() in
\* their order, then calls by name, and calls on a file while one is open.
CallAllowed ==
    /\ up < 4 => f = NoFile
    /\ pc \in {"send", "frame", "body", "parse"} =>
         call \in IF up < 4 THEN {[kind |-> Startup[up + 1]]}
                 ELSE IF f = NoFile THEN NameCalls \union OpenCalls ELSE FileCalls

\* Both buffers are within their memory; a request is in its buffer from the front.
BuffersHold ==
    /\ \A b \in {forward, reverse} : b.end <= b.capacity /\ b.capacity >= 24 /\ ~b.over
    /\ pc = "send" => LET b == IF up < 4 THEN reverse ELSE forward
                      IN  b.start = 0 /\ b.end >= OpCountLoc

\* What is under way, has arrived and has been read is one reply, as long as its
\* first word says, and the buffer has room for it.
OneReply ==
    /\ pc \in {"idle", "send", "parse", "closed"} =>
         wire = <<>> /\ socket = <<>> /\ got = frame
    /\ pc = "frame" => /\ Len(socket) + Len(wire) > 1
                       /\ (socket \o wire)[1] = 4 * (Len(socket) + Len(wire) - 1)
    /\ pc = "body" => /\ got + Len(socket) + Len(wire) = frame /\ got < frame
                      /\ frame <= reverse.capacity /\ reverse.start = 0

\* Inductive: types, and the call, the buffers and the reply belong together.
IInv == TypeOK /\ CallAllowed /\ BuffersHold /\ OneReply

\* What the server reads is what the call means: the frame and the credential are
\* as long as they say, the number of operations is right, the names are those of
\* the path, and the session, the sequence id, the file handle and the stateid are
\* the ones the server has handed out last.  push_resolution_rfh() sends the root
\* handle at its full size, so it must have it.
Understood ==
    sent # <<>> /\ RootLength = FhSize => Understand(sent) = meant

\* Nothing is written past the end of a buffer, however often it had to grow.
NoOverrun == ~forward.over /\ ~reverse.over

\* Between calls the client knows what the server has told it: nothing is taken
\* from the wrong place of a reply, from an earlier reply in the same buffer, or
\* from one that reports an error; no limit is above the server's.
InStep ==
    pc = "idle" =>
        /\ up >= 1 => c.clientid = srv.clientid
        /\ up >= 2 => /\ c.session = srv.session /\ c.sequence = srv.slot + 1
                      /\ \A n \in {c.maxreq, c.maxresp, c.maxops, c.maxreqs} : n <= srv.limit
        /\ up >= 3 => c.root = srv.root
        /\ f # NoFile => f = [fh |-> srv.fh, open |-> srv.open, latest |-> srv.latest]
        /\ result.ok /\ call.kind \in {"size", "read"} => result.value = srv.value

\* A call the server has carried out succeeds, an OPEN excepted; one it has
\* refused fails.
Answered ==
    pc \in {"idle", "closed"} /\ sent # <<>> =>
        IF WordAt(reverse.contents, 7) = 0 THEN result.ok \/ call.kind = "open" ELSE ~result.ok

\* read_fully() takes the reply and no more: nothing is left in the socket when a
\* call returns, and nothing of another reply is in the buffer.
ReplyTaken ==
    pc \in {"idle", "closed"} => wire = <<>> /\ socket = <<>> /\ got = frame

\* Every call returns: read_fully() waits for no more than the server sends, however
\* the reply is cut into pieces.
CallsReturn == pc = "send" ~> pc \in {"idle", "closed"}
=============================================================================
