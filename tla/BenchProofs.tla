----------------------------- MODULE BenchProofs -----------------------------
(***************************************************************************)
(* The theorems about Bench, for any number of threads and of operations.  *)
(***************************************************************************)
EXTENDS Bench, TLAPS

USE DEF Opening

-----------------------------------------------------------------------------
\* Constants.
LEMMA Bounds ==
    ASSUME config \in Config
    PROVE  /\ config.threads \in 1 .. MaxThreads /\ config.blocks \in Nat
           /\ config.threads \in Nat /\ MaxThreads \in Nat /\ 1 \in Thread
           /\ config.random \in BOOLEAN /\ config.perFile \in BOOLEAN /\ config.some \in BOOLEAN
BY BenchAssumption DEF Thread

LEMMA ThreadIsNat == \A i \in Thread : i \in Nat /\ i # None /\ i # Unset
BY BenchAssumption DEF Thread, None, Unset

\* The threads a step leaves alone.
ThreadSame(i) ==
    /\ pc'[i] = pc[i] /\ job'[i] = job[i] /\ ct'[i] = ct[i]
    /\ results'[i] = results[i] /\ file'[i] = file[i] /\ taken'[i] = taken[i]

ThreadTypes ==
    /\ pc \in [Thread -> Place] /\ job \in [Thread -> Job]
    /\ ct \in [Thread -> 0 .. config.blocks] /\ limit \in [Thread -> BOOLEAN]
    /\ results \in [Thread -> 0 .. config.blocks \union {Unset}]

-----------------------------------------------------------------------------
\* What a call that has returned makes of a thread: it ends the process, the loop, or
\* starts the next call.
Returned(i, ok) ==
    /\ ct'[i] = IF job[i] = "op" THEN Count(ct[i], ok) ELSE ct[i]
    /\ \/ main' = "killed" /\ pc' = pc /\ job' = job /\ results' = results
             /\ (job[i] = "op" => ct'[i] < config.blocks)
       \/ main' = main /\ pc'[i] = "ended" /\ job' = job /\ results'[i] = ct'[i]
       \/ main' = main /\ pc'[i] = "allocate" /\ results' = results
             /\ job'[i] \in {"size", "op"}
             /\ (job'[i] = "op" => ct'[i] < config.blocks)
             /\ (job'[i] = "size" => ct'[i] = 0)

\* The end of a loop, the next round, or of the process.
Looped(i, n) ==
    /\ pc' \in [Thread -> Place] /\ job' \in [Thread -> Job]
    /\ results' \in [Thread -> 0 .. config.blocks \union {Unset}]
    /\ \A j \in Thread \ {i} : pc'[j] = pc[j] /\ job'[j] = job[j] /\ results'[j] = results[j]
    /\ \/ main' = "killed" /\ pc' = pc /\ job' = job /\ results' = results
             /\ n < config.blocks
       \/ main' = main /\ pc'[i] = "ended" /\ job' = job /\ results'[i] = n
       \/ main' = main /\ pc'[i] = "allocate" /\ results' = results /\ job'[i] = "op"
             /\ n < config.blocks

LEMMA LoopEffect ==
    ASSUME TypeOK, NEW i \in Thread, NEW n \in 0 .. config.blocks, NEW stop \in BOOLEAN,
           NEW some \in BOOLEAN, Loop(i, n, stop, some)
    PROVE  Looped(i, n)
<1>0. config.blocks \in Nat /\ (~Enough(n) => n < config.blocks)
  BY Bounds, SMTT(40) DEF TypeOK, Enough
<1>1. CASE stop \/ Enough(n)
  <2>1. /\ results' = [results EXCEPT ![i] = n] /\ pc' = [pc EXCEPT ![i] = "ended"]
        /\ main' = main /\ job' = job
    BY <1>1 DEF Loop
  <2>. QED
    BY <2>1 DEF TypeOK, Place, Looped
<1>2. CASE ~stop /\ ~Enough(n) /\ config.random /\ ~some
  <2>1. main' = "killed" /\ UNCHANGED <<results, pc, job>>
    BY <1>2 DEF Loop, Die
  <2>. QED
    BY <1>0, <1>2, <2>1 DEF TypeOK, Looped
<1>3. CASE ~stop /\ ~Enough(n) /\ ~(config.random /\ ~some)
  <2>1. /\ job' = [job EXCEPT ![i] = "op"] /\ pc' = [pc EXCEPT ![i] = "allocate"]
        /\ main' = main /\ results' = results
    BY <1>3 DEF Loop
  <2>. QED
    BY <1>0, <1>3, <2>1 DEF TypeOK, Place, Job, Looped
<1>. QED
  BY <1>1, <1>2, <1>3

LEMMA ReturnEffect ==
    ASSUME TypeOK, ProgressOK, NEW i \in Thread, NEW ok \in BOOLEAN, Return(i, ok),
           pc[i] \in {"send", "parse"}, config' = config
    PROVE  /\ ThreadTypes' /\ Returned(i, ok)
           /\ \A j \in Thread \ {i} : /\ pc'[j] = pc[j] /\ job'[j] = job[j]
                                      /\ ct'[j] = ct[j] /\ results'[j] = results[j]
<1>1. CASE job[i] = "open"
  <2>1. ct[i] = 0 /\ UNCHANGED <<ct, limit, results>>
    BY <1>1 DEF ProgressOK, Return
  <2>2. CASE ok
    <3>1. /\ job' = [job EXCEPT ![i] = "size"] /\ pc' = [pc EXCEPT ![i] = "allocate"]
          /\ main' = main
      BY <1>1, <2>2 DEF Return
    <3>. QED
      BY <1>1, <2>1, <3>1 DEF TypeOK, ThreadTypes, Returned, Place, Job
  <2>3. CASE ~ok
    <3>1. main' = "killed" /\ UNCHANGED <<job, pc>>
      BY <1>1, <2>3 DEF Return, Die
    <3>. QED
      BY <1>1, <2>1, <3>1 DEF TypeOK, ThreadTypes, Returned
  <2>. QED
    BY <2>2, <2>3
<1>2. CASE job[i] = "size"
  <2>1. PICK some \in BOOLEAN : limit' = [limit EXCEPT ![i] = some] /\ Loop(i, 0, FALSE, some)
    BY <1>2, Bounds DEF Return, TypeOK
  <2>2. ct[i] = 0 /\ ct' = ct /\ config.blocks \in Nat
    BY <1>2, Bounds DEF ProgressOK, Return, TypeOK
  <2>3. Looped(i, 0)
    <3>1. 0 \in 0 .. config.blocks
      BY <2>2
    <3>2. FALSE \in BOOLEAN
      OBVIOUS
    <3>. QED
      BY <2>1, <3>1, <3>2, LoopEffect
  <2>. QED
    BY <1>2, <2>1, <2>2, <2>3 DEF TypeOK, ThreadTypes, Returned, Looped
<1>3. CASE job[i] = "op"
  <2>1. ct' = [ct EXCEPT ![i] = Count(@, ok)] /\ Loop(i, ct'[i], ~ok, limit[i]) /\ limit' = limit
    BY <1>3 DEF Return
  <2>2. ct[i] < config.blocks /\ ct[i] \in 0 .. config.blocks /\ config.blocks \in Nat
    BY <1>3, Bounds DEF ProgressOK, TypeOK
  <2>3. ct'[i] = Count(ct[i], ok) /\ ct'[i] \in 0 .. config.blocks
    BY <2>1, <2>2 DEF TypeOK, Count
  <2>4. ct' \in [Thread -> 0 .. config.blocks] /\ \A j \in Thread \ {i} : ct'[j] = ct[j]
    BY <2>1, <2>3 DEF TypeOK
  <2>5. limit[i] \in BOOLEAN /\ (~ok) \in BOOLEAN
    BY DEF TypeOK
  <2>6. Looped(i, ct'[i])
    BY <2>1, <2>3, <2>5, LoopEffect
  <2>. QED
    BY <1>3, <2>1, <2>3, <2>4, <2>6 DEF TypeOK, ThreadTypes, Returned, Looped
<1>. QED
  BY <1>1, <1>2, <1>3 DEF TypeOK, Job

-----------------------------------------------------------------------------
\* Types.
LEMMA HeadTail ==
    ASSUME NEW S, NEW s \in Seq(S), s # <<>>
    PROVE  Head(s) \in S /\ Tail(s) \in Seq(S) /\ s[1] = Head(s) /\ s[1] \in S
OBVIOUS

LEMMA AskedType ==
    ASSUME TypeOK, NEW i \in Thread
    PROVE  Asked(i) \in Thread \X Job
BY DEF Asked, TypeOK

\* A thread with an open file has a client.
LEMMA HasClient ==
    ASSUME TypeOK, NEW i \in Thread, pc[i] \notin Opening
    PROVE  file[i] \in Thread
BY DEF TypeOK

LEMMA FaultType ==
    ASSUME TypeOK, Fault \/ UNCHANGED faults
    PROVE  faults' \in 0 .. MaxFaults
<1>1. MaxFaults \in Nat /\ faults \in 0 .. MaxFaults
  BY BenchAssumption DEF TypeOK
<1>. QED
  BY <1>1 DEF Fault

\* The thread that is created next has not been created yet.
LEMMA NextThread ==
    ASSUME TypeOK, OrderOK, Create
    PROVE  t \in Thread /\ pc[t] = "none"
BY Bounds DEF Create, OrderOK, Thread, TypeOK

LEMMA MainType ==
    ASSUME TypeOK, OrderOK, Main
    PROVE  TypeOK'
<1>0. config.threads \in 1 .. MaxThreads /\ config.threads \in Nat /\ MaxThreads \in Nat
      /\ t \in Nat /\ t >= 1
  BY Bounds DEF TypeOK
<1>1. CASE Create
  <2>1. t \in Thread /\ pc[t] = "none" /\ t <= config.threads
    BY <1>0, <1>1 DEF Create, OrderOK, Thread
  <2>2. pc' = pc \/ pc' = [pc EXCEPT ![t] = "open"]
    BY <1>1 DEF Create
  <2>3. main' \in {"create", "join", "killed"} /\ t' \in 1 .. config.threads + 1
    BY <1>0, <1>1, <2>1 DEF Create, Die
  <2>5. faults' \in 0 .. MaxFaults
    BY <1>1, FaultType DEF Create
  <2>4. /\ pc' \in [Thread -> Place]
        /\ \A i \in Thread : pc'[i] \in Opening <=> file[i] = None
    BY <2>1, <2>2 DEF TypeOK, Place
  <2>. QED
    BY <1>1, <2>3, <2>4, <2>5 DEF Create, TypeOK, clients, network
<1>2. CASE Join
  <2>1. t' \in 1 .. config.threads + 1
    BY <1>0, <1>2 DEF Join, Joined
  <2>. QED
    BY <1>2, <2>1 DEF Join, TypeOK, threads, clients, network
<1>3. CASE Save
  BY <1>3 DEF Save, TypeOK, threads, clients, network
<1>. QED
  BY <1>1, <1>2, <1>3 DEF Main

\* Opening a file.
LEMMA OpenType ==
    ASSUME TypeOK, ProgressOK, NEW i \in Thread,
           Open(i) \/ MakeClient(i) \/ Connect(i) \/ Take(i)
    PROVE  TypeOK'
<1>0. /\ pc \in [Thread -> Place] /\ c \in Thread \union {None} /\ connected \subseteq Thread
      /\ file \in [Thread -> Thread \union {None}]
      /\ main \in {"create", "join", "saved", "killed"}
      /\ \A j \in Thread : pc[j] \in Opening <=> file[j] = None
  BY DEF TypeOK
<1>1. CASE Open(i)
  <2>1. pc' = [pc EXCEPT ![i] = "create"] \/ pc' = [pc EXCEPT ![i] = "take"]
    BY <1>1 DEF Open
  <2>2. pc' \in [Thread -> Place] /\ \A j \in Thread : pc'[j] \in Opening <=> file[j] = None
    BY <1>0, <1>1, <2>1 DEF Open, Place
  <2>. QED
    BY <1>1, <2>2 DEF Open, TypeOK, clients, network
<1>2. CASE MakeClient(i)
  <2>1. pc' \in [Thread -> Place] /\ \A j \in Thread : pc'[j] \in Opening <=> file[j] = None
    BY <1>0, <1>2 DEF MakeClient, Place
  <2>2. c' \in Thread \union {None}
    BY <1>0, <1>2 DEF MakeClient
  <2>. QED
    BY <1>2, <2>1, <2>2 DEF MakeClient, TypeOK, network
<1>3. CASE Connect(i)
  <2>1. pc' = pc \/ pc' = [pc EXCEPT ![i] = "take"]
    BY <1>3 DEF Connect
  <2>2. pc' \in [Thread -> Place] /\ \A j \in Thread : pc'[j] \in Opening <=> file[j] = None
    BY <1>0, <1>3, <2>1 DEF Connect, Place
  <2>3. connected' \subseteq Thread
    BY <1>0, <1>3 DEF Connect
  <2>4. main' \in {"create", "join", "saved", "killed"}
    BY <1>0, <1>3 DEF Connect, Die
  <2>5. faults' \in 0 .. MaxFaults
    BY <1>3, FaultType DEF Connect
  <2>. QED
    BY <1>3, <2>2, <2>3, <2>4, <2>5 DEF Connect, TypeOK, network
<1>4. CASE Take(i)
  <2>1. ClientOf(i) \in Thread /\ ClientOf(i) # None
    BY <1>4, <1>0, ThreadIsNat DEF Take, ProgressOK, ClientOf
  <2>2. pc' \in [Thread -> Place] /\ file' \in [Thread -> Thread \union {None}]
    BY <1>0, <1>4, <2>1 DEF Take, Place
  <2>3. \A j \in Thread : pc'[j] \in Opening <=> file'[j] = None
    BY <1>0, <1>4, <2>1 DEF Take
  <2>. QED
    BY <1>4, <2>2, <2>3 DEF Take, TypeOK, clients, network
<1>. QED
  BY <1>1, <1>2, <1>3, <1>4

\* What the two parts of a call that may return do to a thread.
OthersSame(i) ==
    \A j \in Thread \ {i} :
        pc'[j] = pc[j] /\ job'[j] = job[j] /\ ct'[j] = ct[j] /\ results'[j] = results[j]

LEMMA SendEffect ==
    ASSUME TypeOK, ProgressOK, NEW i \in Thread, Send(i)
    PROVE  /\ ThreadTypes' /\ OthersSame(i)
           /\ \/ /\ file[i] \in connected
                 /\ requests' = [requests EXCEPT ![file[i]] = Append(@, forward[file[i]])]
                 /\ reverse' = [reverse EXCEPT ![file[i]] = <<>>]
                 /\ pc' = [pc EXCEPT ![i] = "frame"] /\ UNCHANGED <<main, job, ct, results>>
              \/ /\ Returned(i, FALSE) \/ (/\ pc' = [pc EXCEPT ![i] = "lost"]
                                           /\ UNCHANGED <<main, job, ct, results>>)
                 /\ UNCHANGED <<requests, reverse>>
<1>0. config' = config /\ pc[i] = "send"
  BY DEF Send
<1>1. CASE file[i] \in connected
  BY <1>0, <1>1 DEF Send, TypeOK, ThreadTypes, OthersSame, Place
<1>2. CASE file[i] \notin connected /\ Return(i, FALSE)
  <2>1. FALSE \in BOOLEAN
    OBVIOUS
  <2>2. ThreadTypes' /\ Returned(i, FALSE) /\ OthersSame(i)
    BY <1>0, <1>2, <2>1, ReturnEffect DEF OthersSame
  <2>. QED
    BY <1>2, <2>2 DEF Send
<1>3. CASE file[i] \notin connected /\ ~Return(i, FALSE)
  BY <1>0, <1>3 DEF Send, TypeOK, ThreadTypes, OthersSame, Place
<1>. QED
  BY <1>1, <1>2, <1>3

LEMMA ParseEffect ==
    ASSUME TypeOK, ProgressOK, NEW i \in Thread, Parse(i)
    PROVE  /\ ThreadTypes' /\ OthersSame(i) /\ Returned(i, ParseRpc(file[i]))
           /\ ParseRpc(file[i]) \in BOOLEAN
           /\ ParseRpc(file[i]) => reverse[file[i]][1].about \in Asks
<1>0. config' = config /\ pc[i] = "parse" /\ file[i] \in Thread
  BY HasClient DEF Parse
<1>1. reverse[file[i]] # <<>> => reverse[file[i]][1] \in Body
  BY <1>0, HeadTail DEF TypeOK
<1>2. ParseRpc(file[i]) \in BOOLEAN
  BY <1>1 DEF ParseRpc, Body
<1>3. Return(i, ParseRpc(file[i]))
  BY DEF Parse
<1>4. ThreadTypes' /\ OthersSame(i) /\ Returned(i, ParseRpc(file[i]))
  BY <1>0, <1>2, <1>3, ReturnEffect DEF OthersSame
<1>5. ParseRpc(file[i]) => reverse[file[i]][1].about \in Asks
  BY <1>1 DEF ParseRpc, Body
<1>. QED
  BY <1>2, <1>4, <1>5

\* The parts of a call.
LEMMA CallType ==
    ASSUME TypeOK, ProgressOK, NEW i \in Thread,
           Allocate(i) \/ Fill(i) \/ Send(i) \/ ReadPiece(i) \/ Parse(i)
    PROVE  TypeOK'
<1>0. file[i] \in Thread /\ pc[i] \in {"allocate", "fill", "send", "frame", "body", "parse"}
  BY HasClient DEF Allocate, Fill, Send, ReadPiece, Parse
<1>1. CASE Allocate(i)
  <2>0. xid \in [Thread -> Nat] /\ pc \in [Thread -> Place]
    BY DEF TypeOK
  <2>1. xid' \in [Thread -> Nat] /\ pc' \in [Thread -> Place]
    <3>1. xid' \in [Thread -> Nat]
      BY <1>0, <1>1, <2>0 DEF Allocate
    <3>2. pc' \in [Thread -> Place]
      BY <1>1, <2>0 DEF Allocate, Place
    <3>. QED
      BY <3>1, <3>2
  <2>2. [xid |-> xid'[file[i]], asks |-> <<>>] \in Request
    BY <1>0, <2>1 DEF Request, Asks
  <2>3. forward' \in [Thread -> Request]
    BY <1>0, <1>1, <2>2 DEF Allocate, TypeOK
  <2>4. \A j \in Thread : pc'[j] \in Opening <=> file[j] = None
    BY <1>0, <1>1 DEF Allocate, TypeOK
  <2>. QED
    BY <1>1, <2>1, <2>3, <2>4 DEF Allocate, TypeOK, network
<1>2. CASE Fill(i)
  <2>1. forward[file[i]].asks \in Asks /\ forward[file[i]].xid \in Nat
    BY <1>0 DEF TypeOK, Request
  <2>2. Append(forward[file[i]].asks, Asked(i)) \in Asks
    BY <2>1, AskedType DEF Asks
  <2>5. [forward[file[i]] EXCEPT !.asks = Append(@, Asked(i))] \in Request
    <3> DEFINE q == forward[file[i]]
               a == Append(forward[file[i]].asks, Asked(i))
    <3>1. q \in Request
      BY <1>0 DEF TypeOK
    <3>2. a \in Asks
      BY <2>2
    <3>3. [q EXCEPT !.asks = Append(@, Asked(i))] = [q EXCEPT !.asks = a]
      BY <3>1 DEF Request
    <3> HIDE DEF q, a
    <3>4. [q EXCEPT !.asks = a] \in Request
      BY <3>1, <3>2 DEF Request
    <3> QED BY <3>3, <3>4 DEF q
  <2>3. forward' \in [Thread -> Request]
    BY <1>0, <1>2, <2>5 DEF Fill, TypeOK
  <2>4. pc' \in [Thread -> Place]
        /\ \A j \in Thread : pc'[j] \in Opening <=> file[j] = None
    BY <1>0, <1>2 DEF Fill, TypeOK, Place
  <2>. QED
    BY <1>2, <2>3, <2>4 DEF Fill, TypeOK, network
<1>3. CASE Send(i)
  <2>0. config' = config /\ UNCHANGED <<t, file, taken, c, connected, xid, forward, socket,
                                       done, faults>>
    BY <1>3 DEF Send
  <2>1. ThreadTypes' /\ OthersSame(i)
    BY <1>3, SendEffect
  <2>2. requests' \in [Thread -> Seq(Request)] /\ reverse' \in [Thread -> Seq(Body)]
    <3>1. Append(requests[file[i]], forward[file[i]]) \in Seq(Request) /\ <<>> \in Seq(Body)
      BY <1>0 DEF TypeOK
    <3>2. \/ requests' = requests /\ reverse' = reverse
          \/ /\ requests' = [requests EXCEPT ![file[i]] = Append(@, forward[file[i]])]
             /\ reverse' = [reverse EXCEPT ![file[i]] = <<>>]
      BY <1>3, SendEffect
    <3>3. requests \in [Thread -> Seq(Request)] /\ reverse \in [Thread -> Seq(Body)]
      BY DEF TypeOK
    <3>. QED
      BY <1>0, <3>1, <3>2, <3>3
  <2>3. /\ main' \in {"create", "join", "saved", "killed"}
        /\ pc'[i] \in {pc[i], "frame", "lost", "ended", "allocate"}
    BY <1>3, SendEffect DEF TypeOK, Returned
  <2>4. \A j \in Thread : pc'[j] \in Opening <=> file[j] = None
    BY <1>0, <2>1, <2>3 DEF TypeOK, OthersSame
  <2>. QED
    BY <2>0, <2>1, <2>2, <2>3, <2>4 DEF TypeOK, ThreadTypes
<1>4. CASE ReadPiece(i)
  <2>1. /\ Head(socket[file[i]]) \in Frame \union Body
        /\ Tail(socket[file[i]]) \in Seq(Frame \union Body)
    BY <1>0, <1>4, HeadTail DEF ReadPiece, TypeOK
  <2>2. /\ socket' \in [Thread -> Seq(Frame \union Body)]
        /\ pc'[i] \in {"lost", "body", "parse"} /\ pc' \in [Thread -> Place]
        /\ \A j \in Thread \ {i} : pc'[j] = pc[j]
    BY <1>0, <1>4, <2>1 DEF ReadPiece, TypeOK, Place
  <2>3. \A j \in Thread : pc'[j] \in Opening <=> file[j] = None
    BY <1>0, <2>2 DEF TypeOK
  <2>4. reverse' \in [Thread -> Seq(Body)]
    <3>1. ASSUME pc'[i] = "parse" PROVE Head(socket[file[i]]) \in Body
      BY <1>0, <1>4, <2>1, <3>1 DEF ReadPiece, TypeOK, Frame, Body
    <3>2. pc'[i] = "parse" => <<Head(socket[file[i]])>> \in Seq(Body)
      BY <3>1
    <3>. QED
      BY <1>0, <1>4, <3>2 DEF ReadPiece, TypeOK
  <2>. QED
    BY <1>4, <2>2, <2>3, <2>4 DEF ReadPiece, TypeOK
<1>5. CASE Parse(i)
  <2>0. /\ config' = config /\ pc[i] = "parse"
        /\ UNCHANGED <<t, file, c, connected, xid, forward, reverse, requests, socket, done, faults>>
    BY <1>5 DEF Parse, clients, network
  <2>1. ThreadTypes' /\ OthersSame(i) /\ Returned(i, ParseRpc(file[i]))
        /\ (ParseRpc(file[i]) => reverse[file[i]][1].about \in Asks)
    BY <1>5, ParseEffect
  <2>2. taken' \in [Thread -> ((Thread \X Job) \X Asks) \union {<<>>}]
    BY <1>5, <2>1, AskedType DEF Parse, TypeOK
  <2>3. main' \in {"create", "join", "saved", "killed"}
        /\ \A j \in Thread : pc'[j] \in Opening <=> file[j] = None
    BY <1>0, <2>1 DEF TypeOK, Returned, OthersSame
  <2>. QED
    BY <2>0, <2>1, <2>2, <2>3 DEF TypeOK, ThreadTypes
<1>. QED
  BY <1>1, <1>2, <1>3, <1>4, <1>5

\* The server.
LEMMA ServeType ==
    ASSUME TypeOK, NEW k \in Thread, Serve(k)
    PROVE  TypeOK'
<1>1. Head(requests[k]) \in Request /\ Tail(requests[k]) \in Seq(Request)
  BY HeadTail DEF Serve, TypeOK
<1>2. ASSUME NEW ok \in BOOLEAN
      PROVE  socket[k] \o <<[piece |-> "frame"],
                            [piece |-> "body", xid |-> Head(requests[k]).xid, ok |-> ok,
                             about |-> Head(requests[k]).asks]>> \in Seq(Frame \union Body)
  <2>1. /\ [piece |-> "frame"] \in Frame \union Body
        /\ [piece |-> "body", xid |-> Head(requests[k]).xid, ok |-> ok,
            about |-> Head(requests[k]).asks] \in Frame \union Body
    BY <1>1 DEF Frame, Body, Request
  <2>2. socket[k] \in Seq(Frame \union Body)
    BY DEF TypeOK
  <2>. QED
    BY <2>1, <2>2
<1>3. socket' \in [Thread -> Seq(Frame \union Body)] /\ requests' \in [Thread -> Seq(Request)]
  <2>1. TRUE \in BOOLEAN /\ FALSE \in BOOLEAN
    OBVIOUS
  <2>2. PICK ok \in BOOLEAN :
           socket' = [socket EXCEPT ![k] =
               @ \o <<[piece |-> "frame"],
                      [piece |-> "body", xid |-> Head(requests[k]).xid, ok |-> ok,
                       about |-> Head(requests[k]).asks]>>]
    BY <2>1 DEF Serve
  <2>. QED
    BY <1>1, <1>2, <2>2 DEF Serve, TypeOK
<1>4. done' \in [Thread -> Nat]
  <2>1. CASE Head(requests[k]).asks # <<>>
    <3>1. Head(requests[k]).asks[1] \in Thread \X Job
      BY <1>1, <2>1, HeadTail DEF Request, Asks
    <3>2. Head(requests[k]).asks[1][1] \in Thread
      BY <3>1
    <3>3. done' = done \/ done' = [done EXCEPT ![Head(requests[k]).asks[1][1]] = @ + 1]
      BY DEF Serve
    <3>4. PICK j \in Thread : done' = done \/ done' = [done EXCEPT ![j] = @ + 1]
      BY <3>2, <3>3
    <3>5. done \in [Thread -> Nat]
      BY DEF TypeOK
    <3>. QED
      BY <3>4, <3>5
  <2>2. CASE Head(requests[k]).asks = <<>>
    BY <2>2 DEF Serve, TypeOK
  <2>. QED
    BY <2>1, <2>2
<1>5. faults' \in 0 .. MaxFaults
  BY FaultType DEF Serve
<1>. QED
  BY <1>3, <1>4, <1>5 DEF Serve, TypeOK, threads, clients

LEMMA TypeStep ==
    ASSUME TypeOK, OrderOK, ProgressOK, [Next]_vars
    PROVE  TypeOK'
<1>1. CASE UNCHANGED vars
  BY <1>1 DEF TypeOK, vars, threads, clients, network
<1>. QED
  BY <1>1, MainType, OpenType, CallType, ServeType DEF Next, Run

-----------------------------------------------------------------------------
\* What a step of a thread leaves as it is.
LEMMA RunEffect ==
    ASSUME TypeOK, ProgressOK, NEW i \in Thread, Run(i)
    PROVE  /\ config' = config /\ t' = t /\ main' \in {main, "killed"} /\ c' \in {c, i}
           /\ pc[i] \notin {"none", "lost", "ended"} /\ pc'[i] # "none"
           /\ \A j \in Thread \ {i} : ThreadSame(j)
<1>0. CASE Open(i) \/ MakeClient(i) \/ Connect(i) \/ Take(i)
  BY <1>0 DEF Open, MakeClient, Connect, Take, Die, clients, TypeOK, ThreadSame
<1>1. CASE Allocate(i) \/ Fill(i) \/ ReadPiece(i)
  BY <1>1 DEF Allocate, Fill, ReadPiece, TypeOK, ThreadSame
<1>2. CASE Send(i)
  <2>1. /\ config' = config /\ t' = t /\ c' = c /\ file' = file /\ taken' = taken
        /\ pc[i] = "send"
    BY <1>2 DEF Send
  <2>2. OthersSame(i) /\ main' \in {main, "killed"}
        /\ pc'[i] \in {pc[i], "frame", "lost", "ended", "allocate"}
    BY <1>2, SendEffect DEF TypeOK, Returned
  <2>. QED
    BY <2>1, <2>2 DEF ThreadSame, OthersSame
<1>3. CASE Parse(i)
  <2>1. /\ config' = config /\ t' = t /\ c' = c /\ file' = file /\ pc[i] = "parse"
        /\ \A j \in Thread \ {i} : taken'[j] = taken[j]
    BY <1>3 DEF Parse, clients, TypeOK
  <2>2. OthersSame(i) /\ main' \in {main, "killed"}
        /\ pc'[i] \in {pc[i], "ended", "allocate"}
    BY <1>3, ParseEffect DEF TypeOK, Returned
  <2>. QED
    BY <2>1, <2>2 DEF ThreadSame, OthersSame
<1>. QED
  BY <1>0, <1>1, <1>2, <1>3 DEF Run

LEMMA ServeEffect ==
    ASSUME NEW k \in Thread, Serve(k)
    PROVE  UNCHANGED <<config, main, t, pc, job, ct, limit, results, file, taken, c, connected,
                       xid, forward, reverse>>
BY DEF Serve, threads, clients

-----------------------------------------------------------------------------
\* Threads are created and joined in order.
LEMMA OrderStep ==
    ASSUME TypeOK, OrderOK, ProgressOK, [Next]_vars
    PROVE  OrderOK'
<1>0. /\ config.threads \in Nat /\ t \in Nat /\ t \in 1 .. config.threads + 1
      /\ \A i \in Thread : i \in Nat
  BY Bounds, ThreadIsNat DEF TypeOK
<1>1. CASE Create
  <2>1. CASE config.threads > 1 /\ Fault /\ Die /\ UNCHANGED <<pc, t>>
    BY <1>0, <1>1, <2>1 DEF OrderOK, Create, Die
  <2>2. CASE /\ pc' = [pc EXCEPT ![t] = "open"]
             /\ IF t = config.threads THEN main' = "join" /\ t' = 1
                                      ELSE t' = t + 1 /\ UNCHANGED main
    <3>1. main = "create" /\ config' = config /\ t <= config.threads
      BY <1>1 DEF Create, OrderOK
    <3>2. \A i \in Thread : i > config.threads \/ i >= t => pc[i] = "none"
      BY <3>1 DEF OrderOK
    <3>3. \A i \in Thread : i # t => pc'[i] = pc[i]
      BY <2>2 DEF TypeOK
    <3>4. CASE t = config.threads
      <4>1. main' = "join" /\ t' = 1
        BY <2>2, <3>4
      <4>2. \A i \in Thread : i > config.threads => pc'[i] = "none"
        BY <1>0, <3>1, <3>2, <3>3
      <4>3. \A i \in Thread : ~(i < 1)
        BY DEF Thread
      <4>. QED
        BY <3>1, <4>1, <4>2, <4>3 DEF OrderOK
    <3>5. CASE t # config.threads
      <4>1. main' = "create" /\ t' = t + 1 /\ t + 1 <= config.threads
        BY <1>0, <2>2, <3>1, <3>5
      <4>2. \A i \in Thread : i > config.threads \/ i >= t + 1 => pc'[i] = "none"
        BY <1>0, <3>1, <3>2, <3>3
      <4>. QED
        BY <3>1, <4>1, <4>2 DEF OrderOK
    <3>. QED
      BY <3>4, <3>5
  <2>. QED
    BY <1>1, <2>1, <2>2 DEF Create
<1>2. CASE Join
  <2>1. /\ main = "join" /\ main' = main /\ pc' = pc /\ config' = config /\ t' = t + 1
        /\ pc[t] = "ended"
    BY <1>2 DEF Join, threads
  <2>2. \A i \in Thread : i < t + 1 => pc[i] = "ended"
    BY <1>0, <2>1 DEF OrderOK
  <2>. QED
    BY <2>1, <2>2 DEF OrderOK
<1>3. CASE Save
  BY <1>3 DEF Save, Joined, OrderOK, threads
<1>4. ASSUME NEW i \in Thread, Run(i) PROVE OrderOK'
  <2>1. /\ config' = config /\ t' = t /\ main' \in {main, "killed"} /\ Running
        /\ pc[i] \notin {"none", "ended"}
        /\ \A j \in Thread \ {i} : pc'[j] = pc[j]
    BY <1>4, RunEffect DEF Run, ThreadSame
  <2>2. /\ ~(i > config.threads) /\ ~(main = "create" /\ i >= t)
        /\ ~(main \in {"join", "saved"} /\ i < t)
    BY <2>1 DEF OrderOK
  <2>. QED
    BY <2>1, <2>2 DEF OrderOK, Running, Joined
<1>5. ASSUME NEW k \in Thread, Serve(k) PROVE OrderOK'
  BY <1>5, ServeEffect DEF OrderOK, Joined
<1>6. CASE UNCHANGED vars
  BY <1>6 DEF OrderOK, Joined, vars, threads
<1>. QED
  BY <1>1, <1>2, <1>3, <1>4, <1>5, <1>6 DEF Next, Main

\* Each thread counts up to its number of operations.
LEMMA ProgressStep ==
    ASSUME TypeOK, OrderOK, ProgressOK, [Next]_vars
    PROVE  ProgressOK'
<1>1. CASE Create
  <2>1. t \in Thread /\ pc[t] = "none"
    BY <1>1, NextThread
  <2>2. /\ UNCHANGED <<config, job, ct, results, c>>
        /\ pc' = pc \/ pc' = [pc EXCEPT ![t] = "open"]
    BY <1>1 DEF Create, clients
  <2>. QED
    BY <2>1, <2>2 DEF ProgressOK, TypeOK
<1>2. CASE Join \/ Save \/ UNCHANGED vars
  BY <1>2 DEF Join, Save, ProgressOK, vars, threads, clients
<1>3. ASSUME NEW k \in Thread, Serve(k) PROVE ProgressOK'
  BY <1>3, ServeEffect DEF ProgressOK
<1>4. ASSUME NEW i \in Thread, Run(i) PROVE ProgressOK'
  <2>0. /\ config' = config /\ c' \in {c, i} /\ i # None
        /\ pc[i] \notin {"none", "lost", "ended"}
        /\ \A j \in Thread \ {i} : ThreadSame(j)
    BY <1>4, RunEffect, ThreadIsNat
  <2>1. ASSUME NEW j \in Thread \ {i}
        PROVE  /\ results'[j] = IF pc'[j] = "ended" THEN ct'[j] ELSE Unset
               /\ job'[j] # "op" => ct'[j] = 0
               /\ job'[j] = "op" /\ pc'[j] # "ended" => ct'[j] < config'.blocks
               /\ pc'[j] \in {"connect", "take"} /\ ~config'.perFile => c' # None
    BY <2>0 DEF ProgressOK, ThreadSame
  <2>2. ASSUME pc'[i] \notin {"ended", "connect", "take"}, UNCHANGED <<job, ct, results>>
        PROVE  ProgressOK'
    BY <2>0, <2>1, <2>2 DEF ProgressOK
  <2>3. ASSUME pc[i] \in Opening, pc'[i] \in Place \ {"ended"}, UNCHANGED <<job, ct, results>>,
               pc'[i] \in {"connect", "take"} /\ ~config.perFile => c' # None
        PROVE  ProgressOK'
    <3>1. /\ results[i] = Unset /\ (job[i] # "op" => ct[i] = 0)
          /\ (job[i] = "op" => ct[i] < config.blocks)
      BY <2>3 DEF ProgressOK
    <3>2. /\ results'[i] = IF pc'[i] = "ended" THEN ct'[i] ELSE Unset
          /\ job'[i] # "op" => ct'[i] = 0
          /\ job'[i] = "op" /\ pc'[i] # "ended" => ct'[i] < config'.blocks
          /\ pc'[i] \in {"connect", "take"} /\ ~config'.perFile => c' # None
      BY <2>0, <2>3, <3>1
    <3>. QED
      BY <2>1, <3>2 DEF ProgressOK
  <2>4. CASE Open(i) \/ MakeClient(i) \/ Connect(i) \/ Take(i)
    <3>1. pc[i] \in Opening /\ UNCHANGED <<job, ct, results>>
      BY <2>4 DEF Open, MakeClient, Connect, Take
    <3>2. /\ pc'[i] \in {"create", "connect", "take", "allocate"}
          /\ pc'[i] \in {"connect", "take"} /\ ~config.perFile => c' # None
      <4>0. pc \in [Thread -> Place]
        BY DEF TypeOK
      <4>1. CASE Open(i)
        BY <4>0, <4>1 DEF Open, ClientOf, clients
      <4>2. CASE MakeClient(i)
        BY <2>0, <4>0, <4>2 DEF MakeClient
      <4>3. CASE Connect(i)
        BY <4>0, <4>3 DEF Connect, ProgressOK
      <4>4. CASE Take(i)
        BY <4>0, <4>4 DEF Take
      <4>. QED
        BY <2>4, <4>1, <4>2, <4>3, <4>4
    <3>. QED
      BY <2>3, <3>1, <3>2 DEF Place
  <2>5. CASE Allocate(i) \/ Fill(i) \/ ReadPiece(i)
    BY <2>2, <2>5 DEF Allocate, Fill, ReadPiece, TypeOK
  <2>6. ASSUME NEW ok \in BOOLEAN, Returned(i, ok), pc[i] \in {"send", "parse"},
               c' = c, ThreadTypes'
        PROVE  ProgressOK'
    <3>1. /\ results[i] = Unset /\ (job[i] # "op" => ct[i] = 0)
          /\ ct'[i] \in 0 .. config.blocks /\ config.blocks \in Nat
      BY <2>0, <2>6, Bounds DEF ProgressOK, ThreadTypes, TypeOK
    <3>2. /\ results'[i] = IF pc'[i] = "ended" THEN ct'[i] ELSE Unset
          /\ job'[i] # "op" => ct'[i] = 0
          /\ job'[i] = "op" /\ pc'[i] # "ended" => ct'[i] < config'.blocks
          /\ pc'[i] \notin {"connect", "take"}
      BY <2>0, <2>6, <3>1 DEF Returned
    <3>. QED
      BY <2>1, <3>2 DEF ProgressOK
  <2>7. CASE Send(i)
    <3>1. FALSE \in BOOLEAN /\ pc[i] = "send" /\ c' = c
      BY <2>7 DEF Send
    <3>. QED
      BY <2>2, <2>6, <2>7, <3>1, SendEffect DEF TypeOK
  <2>8. CASE Parse(i)
    <3>1. pc[i] = "parse" /\ c' = c
      BY <2>8 DEF Parse, clients
    <3>. QED
      BY <2>6, <2>8, <3>1, ParseEffect
  <2>. QED
    BY <1>4, <2>4, <2>5, <2>7, <2>8 DEF Run
<1>. QED
  BY <1>1, <1>2, <1>3, <1>4 DEF Next, Main

-----------------------------------------------------------------------------
\* What is asked and answered on a client, however many threads it has.

\* An open file keeps its client.
LEMMA FileKept ==
    ASSUME TypeOK, ProgressOK, [Next]_vars
    PROVE  \A x \in Thread : file[x] # None => file'[x] = file[x]
<1>1. CASE file' = file
  BY <1>1
<1>2. ASSUME NEW i \in Thread, Take(i)
      PROVE  \A x \in Thread : file[x] # None => file'[x] = file[x]
  <2>1. file[i] = None /\ file' = [file EXCEPT ![i] = ClientOf(i)]
    BY <1>2 DEF Take, TypeOK
  <2>. QED
    BY <2>1 DEF TypeOK
<1>3. ASSUME NEW i \in Thread,
             \/ Open(i) \/ MakeClient(i) \/ Connect(i) \/ Allocate(i) \/ Fill(i) \/ Send(i)
             \/ ReadPiece(i) \/ Parse(i) \/ Serve(i)
      PROVE  file' = file
  BY <1>3 DEF Open, MakeClient, Connect, Allocate, Fill, Send, ReadPiece, Parse, Serve, threads
<1>4. Main \/ UNCHANGED vars => file' = file
  BY DEF Main, Create, Join, Save, vars, threads
<1>. QED
  BY <1>1, <1>2, <1>3, <1>4 DEF Next, Run

\* AsksOf(k, asks) in the next state.
AsksNext(k, asks) == \A n \in DOMAIN asks : file'[asks[n][1]] = k

LEMMA AsksKept ==
    ASSUME TypeOK, ProgressOK, [Next]_vars, NEW k \in Thread, NEW asks \in Asks, AsksOf(k, asks)
    PROVE  AsksNext(k, asks)
<1>. SUFFICES ASSUME NEW n \in DOMAIN asks PROVE file'[asks[n][1]] = k
  BY DEF AsksNext
<1>1. asks[n] \in Thread \X Job
  BY DEF Asks
<1>2. asks[n][1] \in Thread
  BY <1>1
<1>3. file[asks[n][1]] = k /\ k # None
  BY ThreadIsNat DEF AsksOf
<1>. QED
  BY <1>2, <1>3, FileKept

\* What a client has still holds what its threads have asked.
LEMMA ClientKept ==
    ASSUME TypeOK, ProgressOK, [Next]_vars, NEW k \in Thread, ClientOK(k)
    PROVE  /\ AsksNext(k, forward[k].asks)
           /\ \A n \in DOMAIN requests[k] : AsksNext(k, requests[k][n].asks)
           /\ \A n \in DOMAIN socket[k] :
                  socket[k][n].piece = "body" => AsksNext(k, socket[k][n].about)
           /\ \A n \in DOMAIN reverse[k] : AsksNext(k, reverse[k][n].about)
<1>1. AsksNext(k, forward[k].asks)
  <2>1. forward[k].asks \in Asks
    BY DEF TypeOK, Request
  <2>. QED
    BY <2>1, AsksKept DEF ClientOK
<1>2. ASSUME NEW n \in DOMAIN requests[k] PROVE AsksNext(k, requests[k][n].asks)
  <2>1. requests[k][n] \in Request
    BY DEF TypeOK
  <2>2. requests[k][n].asks \in Asks
    BY <2>1 DEF Request
  <2>. QED
    BY <2>2, AsksKept DEF ClientOK
<1>3. ASSUME NEW n \in DOMAIN socket[k], socket[k][n].piece = "body"
      PROVE  AsksNext(k, socket[k][n].about)
  <2>1. socket[k][n] \in Frame \union Body
    BY DEF TypeOK
  <2>2. socket[k][n].about \in Asks
    BY <1>3, <2>1 DEF Frame, Body
  <2>. QED
    BY <1>3, <2>2, AsksKept DEF ClientOK
<1>4. ASSUME NEW n \in DOMAIN reverse[k] PROVE AsksNext(k, reverse[k][n].about)
  <2>1. reverse[k][n] \in Body
    BY DEF TypeOK
  <2>2. reverse[k][n].about \in Asks
    BY <2>1 DEF Body
  <2>. QED
    BY <2>2, AsksKept DEF ClientOK
<1>. QED
  BY <1>1, <1>2, <1>3, <1>4

\* ClientOK(k) in the next state, part by part.
ForwardNext(k)  == AsksNext(k, forward'[k].asks)
RequestsNext(k) == \A n \in DOMAIN requests'[k] : AsksNext(k, requests'[k][n].asks)
SocketNext(k)   == \A n \in DOMAIN socket'[k] :
                       socket'[k][n].piece = "body" => AsksNext(k, socket'[k][n].about)
ReverseNext(k)  == \A n \in DOMAIN reverse'[k] : AsksNext(k, reverse'[k][n].about)

LEMMA ClientNext ==
    ASSUME NEW k \in Thread, ForwardNext(k), RequestsNext(k), SocketNext(k), ReverseNext(k)
    PROVE  ClientOK(k)'
BY DEF ClientOK, AsksOf, AsksNext, ForwardNext, RequestsNext, SocketNext, ReverseNext

LEMMA ClientSame ==
    ASSUME TypeOK, ProgressOK, [Next]_vars, NEW k \in Thread, ClientOK(k)
    PROVE  /\ forward'[k] = forward[k] => ForwardNext(k)
           /\ requests'[k] = requests[k] => RequestsNext(k)
           /\ socket'[k] = socket[k] => SocketNext(k)
           /\ reverse'[k] = reverse[k] => ReverseNext(k)
BY ClientKept DEF ForwardNext, RequestsNext, SocketNext, ReverseNext

\* The thread asks on its client only, the server answers on the client it was asked.
LEMMA ClientStep ==
    ASSUME TypeOK, ProgressOK, [Next]_vars, \A k \in Thread : ClientOK(k), NEW k \in Thread
    PROVE  ClientOK(k)'
<1>0. /\ forward \in [Thread -> Request] /\ reverse \in [Thread -> Seq(Body)]
      /\ requests \in [Thread -> Seq(Request)] /\ socket \in [Thread -> Seq(Frame \union Body)]
  BY DEF TypeOK
<1>1. ASSUME UNCHANGED <<forward, reverse, requests, socket>> PROVE ClientOK(k)'
  BY <1>1, ClientSame, ClientNext
<1>2. ASSUME NEW i \in Thread, Allocate(i) PROVE ClientOK(k)'
  <2>1. UNCHANGED <<reverse, requests, socket>>
    BY <1>2 DEF Allocate, network
  <2>2. forward'[k] = forward[k] \/ forward'[k].asks = <<>>
    BY <1>0, <1>2 DEF Allocate
  <2>3. ForwardNext(k)
    <3>1. CASE forward'[k] = forward[k]
      BY <3>1, ClientSame
    <3>2. CASE forward'[k].asks = <<>>
      BY <3>2 DEF ForwardNext, AsksNext
    <3>. QED
      BY <2>2, <3>1, <3>2
  <2>. QED
    BY <2>1, <2>3, ClientSame, ClientNext
<1>3. ASSUME NEW i \in Thread, Fill(i) PROVE ClientOK(k)'
  <2>1. UNCHANGED <<reverse, requests, socket, file>>
    BY <1>3 DEF Fill, network
  <2>2. ForwardNext(k)
    <3>1. CASE k # file[i]
      <4>1. forward'[k] = forward[k]
        BY <1>0, <1>3, <3>1 DEF Fill
      <4>. QED
        BY <4>1, ClientSame
    <3>2. CASE k = file[i]
      <4>. DEFINE asks == forward[k].asks
      <4>1. forward'[k].asks = Append(asks, Asked(i))
        <5>1. forward'[k] = [forward[k] EXCEPT !.asks = Append(@, Asked(i))]
          BY <1>0, <1>3, <3>2 DEF Fill
        <5>. QED
          BY <1>0, <5>1 DEF Request
      <4>2. asks \in Seq(Thread \X Job) /\ Asked(i)[1] = i
        BY <1>0 DEF Request, Asks, Asked
      <4>3. \A n \in DOMAIN asks : file'[asks[n][1]] = k
        BY ClientKept DEF AsksNext
      <4>4. file'[Asked(i)[1]] = k
        BY <2>1, <3>2, <4>2
      <4>. HIDE DEF asks
      <4>5. Asked(i) \in Thread \X Job
        BY AskedType
      <4>6. \A n \in DOMAIN Append(asks, Asked(i)) : file'[Append(asks, Asked(i))[n][1]] = k
        BY <4>2, <4>3, <4>4, <4>5
      <4>. QED
        BY <4>1, <4>6 DEF ForwardNext, AsksNext
    <3>. QED
      BY <3>1, <3>2
  <2>. QED
    BY <2>1, <2>2, ClientSame, ClientNext
<1>4. ASSUME NEW i \in Thread, Send(i) PROVE ClientOK(k)'
  <2>1. UNCHANGED <<forward, socket>>
    BY <1>4 DEF Send
  <2>2. RequestsNext(k)
    <3>1. requests'[k] = requests[k] \/ requests'[k] = Append(requests[k], forward[k])
      BY <1>0, <1>4, SendEffect
    <3>2. CASE requests'[k] = Append(requests[k], forward[k])
      <4>1. requests[k] \in Seq(Request) /\ forward[k] \in Request
        BY <1>0
      <4>2. /\ AsksNext(k, forward[k].asks)
            /\ \A n \in DOMAIN requests[k] : AsksNext(k, requests[k][n].asks)
        BY ClientKept
      <4>3. \A n \in DOMAIN Append(requests[k], forward[k]) :
                AsksNext(k, Append(requests[k], forward[k])[n].asks)
        BY <4>1, <4>2
      <4>. QED
        BY <3>2, <4>3 DEF RequestsNext
    <3>. QED
      BY <3>1, <3>2, ClientSame
  <2>3. ReverseNext(k)
    <3>1. reverse'[k] = reverse[k] \/ reverse'[k] = <<>>
      BY <1>0, <1>4, SendEffect
    <3>2. CASE reverse'[k] = <<>>
      BY <3>2 DEF ReverseNext
    <3>. QED
      BY <3>1, <3>2, ClientSame
  <2>. QED
    BY <2>1, <2>2, <2>3, ClientSame, ClientNext
<1>5. ASSUME NEW i \in Thread, ReadPiece(i) PROVE ClientOK(k)'
  <2>1. UNCHANGED <<forward, requests>>
    BY <1>5 DEF ReadPiece
  <2>2. CASE k # file[i]
    <3>1. socket'[k] = socket[k] /\ reverse'[k] = reverse[k]
      BY <1>0, <1>5, <2>2 DEF ReadPiece
    <3>. QED
      BY <2>1, <3>1, ClientSame, ClientNext
  <2>3. CASE k = file[i]
    <3>1. /\ socket[k] # <<>> /\ socket[k] \in Seq(Frame \union Body)
          /\ socket'[k] = Tail(socket[k])
      BY <1>0, <1>5, <2>3 DEF ReadPiece
    <3>2. \A n \in DOMAIN socket[k] :
              socket[k][n].piece = "body" => AsksNext(k, socket[k][n].about)
      BY ClientKept
    <3>3. SocketNext(k)
      <4>1. \A n \in DOMAIN Tail(socket[k]) :
                n + 1 \in DOMAIN socket[k] /\ Tail(socket[k])[n] = socket[k][n + 1]
        BY <3>1
      <4>. QED
        BY <3>1, <3>2, <4>1 DEF SocketNext
    <3>4. reverse'[k] = reverse[k] \/ (/\ reverse'[k] = <<Head(socket[k])>>
                                       /\ Head(socket[k]).piece = "body")
      <4>1. pc[i] \in {"frame", "body"} /\ pc \in [Thread -> Place]
        BY <1>5 DEF ReadPiece, TypeOK
      <4>2. pc'[i] = "parse" => Head(socket[k]).piece = "body"
        BY <1>5, <2>3, <4>1 DEF ReadPiece
      <4>. QED
        BY <1>0, <1>5, <2>3, <4>2 DEF ReadPiece
    <3>5. ReverseNext(k)
      <4>1. CASE /\ reverse'[k] = <<Head(socket[k])>> /\ Head(socket[k]).piece = "body"
        <5>1. 1 \in DOMAIN socket[k] /\ Head(socket[k]) = socket[k][1]
          BY <3>1
        <5>2. AsksNext(k, Head(socket[k]).about)
          BY <3>2, <4>1, <5>1
        <5>3. \A n \in DOMAIN reverse'[k] : reverse'[k][n] = Head(socket[k])
          BY <4>1
        <5>. QED
          BY <5>2, <5>3 DEF ReverseNext
      <4>. QED
        BY <3>4, <4>1, ClientSame
    <3>. QED
      BY <2>1, <3>3, <3>5, ClientSame, ClientNext
  <2>. QED
    BY <2>2, <2>3
<1>6. ASSUME NEW j \in Thread, Serve(j) PROVE ClientOK(k)'
  <2>1. UNCHANGED <<forward, reverse>>
    BY <1>6, ServeEffect
  <2>2. CASE k # j
    <3>1. requests'[k] = requests[k] /\ socket'[k] = socket[k]
      BY <1>0, <1>6, <2>2 DEF Serve
    <3>. QED
      BY <2>1, <3>1, ClientSame, ClientNext
  <2>3. CASE k = j
    <3>. DEFINE r == Head(requests[k])
                f == [piece |-> "frame"]
                b(ok) == [piece |-> "body", xid |-> r.xid, ok |-> ok, about |-> r.asks]
    <3>1. requests[k] # <<>> /\ requests[k] \in Seq(Request) /\ requests'[k] = Tail(requests[k])
      BY <1>0, <1>6, <2>3 DEF Serve
    <3>2. \A n \in DOMAIN requests[k] : AsksNext(k, requests[k][n].asks)
      BY ClientKept
    <3>3. RequestsNext(k)
      <4>1. \A n \in DOMAIN Tail(requests[k]) :
                n + 1 \in DOMAIN requests[k] /\ Tail(requests[k])[n] = requests[k][n + 1]
        BY <3>1
      <4>. QED
        BY <3>1, <3>2, <4>1 DEF RequestsNext
    <3>4. AsksNext(k, r.asks)
      <4>1. 1 \in DOMAIN requests[k] /\ Head(requests[k]) = requests[k][1]
        BY <3>1
      <4>. QED
        BY <3>2, <4>1
    <3>5. PICK ok \in BOOLEAN : socket'[k] = socket[k] \o <<f, b(ok)>>
      <4>1. TRUE \in BOOLEAN /\ FALSE \in BOOLEAN
        OBVIOUS
      <4>2. socket'[k] = socket[k] \o <<f, b(TRUE)>> \/ socket'[k] = socket[k] \o <<f, b(FALSE)>>
        BY <1>0, <1>6, <2>3 DEF Serve
      <4>. QED
        BY <4>1, <4>2
    <3>6. \A n \in DOMAIN socket'[k] : \/ n \in DOMAIN socket[k] /\ socket'[k][n] = socket[k][n]
                                       \/ socket'[k][n] = f \/ socket'[k][n] = b(ok)
      <4>. DEFINE g == b(ok)
      <4>. HIDE DEF f, g
      <4>1. socket'[k] = socket[k] \o <<f, g>>
        BY <3>5 DEF g
      <4>2. socket[k] \in Seq(Frame \union Body)
        BY <1>0
      <4>3. \A n \in DOMAIN socket'[k] : \/ n \in DOMAIN socket[k] /\ socket'[k][n] = socket[k][n]
                                         \/ socket'[k][n] = f \/ socket'[k][n] = g
        BY <4>1, <4>2, SMTT(20)
      <4>. QED
        BY <4>3 DEF g
    <3>7. \A n \in DOMAIN socket[k] :
              socket[k][n].piece = "body" => AsksNext(k, socket[k][n].about)
      BY ClientKept
    <3>8. f.piece = "frame" /\ b(ok).about = r.asks
      OBVIOUS
    <3>. HIDE DEF f, b, r
    <3>9. SocketNext(k)
      BY <3>4, <3>6, <3>7, <3>8 DEF SocketNext
    <3>. QED
      BY <2>1, <3>3, <3>9, ClientSame, ClientNext
  <2>. QED
    BY <2>2, <2>3
<1>7. ASSUME NEW i \in Thread,
             Open(i) \/ MakeClient(i) \/ Connect(i) \/ Take(i) \/ Parse(i)
      PROVE  UNCHANGED <<forward, reverse, requests, socket>>
  BY <1>7 DEF Open, MakeClient, Connect, Take, Parse, clients, network
<1>8. Main \/ UNCHANGED vars => UNCHANGED <<forward, reverse, requests, socket>>
  BY DEF Main, Create, Join, Save, vars, clients, network
<1>. QED
  BY <1>1, <1>2, <1>3, <1>4, <1>5, <1>6, <1>7, <1>8 DEF Next, Run

\* Only a call that returns takes an answer.
LEMMA TakenStep ==
    ASSUME TypeOK, ProgressOK, [Next]_vars
    PROVE  \A i \in Thread :
              \/ taken'[i] = taken[i]
              \/ /\ Parse(i) /\ ParseRpc(file[i])
                 /\ taken'[i] = <<Asked(i), reverse[file[i]][1].about>>
<1>1. CASE taken' = taken
  BY <1>1
<1>2. ASSUME NEW j \in Thread, Parse(j), NEW i \in Thread
      PROVE  \/ taken'[i] = taken[i]
             \/ /\ Parse(i) /\ ParseRpc(file[i])
                /\ taken'[i] = <<Asked(i), reverse[file[i]][1].about>>
  BY <1>2 DEF Parse, TypeOK
<1>3. ASSUME NEW i \in Thread,
             \/ Open(i) \/ MakeClient(i) \/ Connect(i) \/ Take(i) \/ Allocate(i) \/ Fill(i)
             \/ Send(i) \/ ReadPiece(i) \/ Serve(i)
      PROVE  taken' = taken
  BY <1>3 DEF Open, MakeClient, Connect, Take, Allocate, Fill, Send, ReadPiece, Serve, threads
<1>4. Main \/ UNCHANGED vars => taken' = taken
  BY DEF Main, Create, Join, Save, vars, threads
<1>. QED
  BY <1>1, <1>2, <1>3, <1>4 DEF Next, Run

LEMMA ClientsAnswerStep ==
    ASSUME TypeOK, TypeOK', ProgressOK, OwnClientsAnswer, NoneTaken,
           \A k \in Thread : ClientOK(k), [Next]_vars
    PROVE  OwnClientsAnswer' /\ NoneTaken'
<1>1. ASSUME NEW i \in Thread, pc'[i] \in Opening PROVE taken'[i] = <<>>
  <2>1. file'[i] = None /\ file[i] = None
    BY <1>1, FileKept DEF TypeOK
  <2>2. pc[i] \in Opening
    BY <2>1 DEF TypeOK
  <2>3. taken[i] = <<>> /\ ~Parse(i)
    BY <2>2 DEF NoneTaken, Parse
  <2>. QED
    BY <2>3, TakenStep
<1>2. ASSUME NEW i \in Thread, taken'[i] # <<>>
      PROVE  AsksNext(file'[i], taken'[i][2])
  <2>1. CASE taken'[i] = taken[i]
    <3>1. taken[i] # <<>> /\ pc[i] \notin Opening
      BY <1>2, <2>1 DEF NoneTaken
    <3>2. file[i] \in Thread /\ file'[i] = file[i]
      BY <3>1, HasClient, ThreadIsNat, FileKept
    <3>3. taken[i][2] \in Asks
      BY <3>1 DEF TypeOK
    <3>4. AsksOf(file[i], taken[i][2])
      BY <3>1 DEF OwnClientsAnswer, AsksOf
    <3>5. AsksNext(file[i], taken[i][2])
      BY <3>2, <3>3, <3>4, AsksKept
    <3>. QED
      BY <2>1, <3>2, <3>5
  <2>2. CASE /\ Parse(i) /\ ParseRpc(file[i])
             /\ taken'[i] = <<Asked(i), reverse[file[i]][1].about>>
    <3>1. file[i] \in Thread /\ file'[i] = file[i]
      BY <2>2, HasClient, ThreadIsNat, FileKept DEF Parse
    <3>2. 1 \in DOMAIN reverse[file[i]]
      <4>1. reverse[file[i]] \in Seq(Body) /\ reverse[file[i]] # <<>>
        BY <2>2, <3>1 DEF ParseRpc, TypeOK
      <4>. QED
        BY <4>1
    <3>3. AsksNext(file[i], reverse[file[i]][1].about)
      BY <3>1, <3>2, ClientKept
    <3>. QED
      BY <2>2, <3>1, <3>3
  <2>. QED
    BY <2>1, <2>2, TakenStep
<1>. QED
  BY <1>1, <1>2 DEF OwnClientsAnswer, NoneTaken, AsksNext

-----------------------------------------------------------------------------
\* A thread that has its client to itself.
LEMMA OnlyOne ==
    ASSUME TypeOK, OrderOK, Alone, ~config.perFile, NEW i \in Thread, pc[i] # "none"
    PROVE  i = 1
<1>1. ~(i > config.threads) /\ config.threads = 1
  BY DEF OrderOK, Alone
<1>. QED
  BY <1>1, BenchAssumption DEF Thread

\* It uses the client it has made.
LEMMA OwnClientStep ==
    ASSUME TypeOK, OrderOK, ProgressOK, OwnClient, Alone, [Next]_vars
    PROVE  OwnClient'
<1>1. ASSUME NEW i \in Thread, MakeClient(i) PROVE OwnClient'
  <2>1. ~config.perFile => i = 1
    BY <1>1, OnlyOne DEF MakeClient
  <2>2. file' = file /\ (c' = c \/ (~config.perFile /\ c' = i))
    BY <1>1 DEF MakeClient
  <2>. QED
    BY <2>1, <2>2 DEF OwnClient
<1>2. ASSUME NEW i \in Thread, Take(i) PROVE OwnClient'
  <2>1. ~config.perFile => i = 1 /\ c = 1
    BY <1>2, OnlyOne DEF Take, ProgressOK, OwnClient
  <2>2. ClientOf(i) = i
    BY <2>1 DEF ClientOf
  <2>3. c' = c /\ file' = [file EXCEPT ![i] = i]
    BY <1>2, <2>2 DEF Take, clients
  <2>. QED
    BY <2>3 DEF OwnClient, TypeOK
<1>3. ASSUME UNCHANGED <<file, c>> PROVE OwnClient'
  BY <1>3 DEF OwnClient
<1>4. ASSUME NEW i \in Thread,
             \/ Open(i) \/ Connect(i) \/ Allocate(i) \/ Fill(i) \/ Send(i) \/ ReadPiece(i)
             \/ Parse(i) \/ Serve(i)
      PROVE  UNCHANGED <<file, c>>
  BY <1>4 DEF Open, Connect, Allocate, Fill, Send, ReadPiece, Parse, Serve, clients, threads
<1>5. Main \/ UNCHANGED vars => UNCHANGED <<file, c>>
  BY DEF Main, Create, Join, Save, vars, threads, clients
<1>. QED
  BY <1>1, <1>2, <1>3, <1>4, <1>5 DEF Next, Run

\* What is under way for a thread depends on its own client only.
CallSame(j) ==
    /\ pc'[j] = pc[j] /\ job'[j] = job[j] /\ ct'[j] = ct[j] /\ done'[j] = done[j]
    /\ xid'[j] = xid[j] /\ forward'[j] = forward[j] /\ reverse'[j] = reverse[j]
    /\ requests'[j] = requests[j] /\ socket'[j] = socket[j]

LEMMA CallKept ==
    ASSUME NEW j \in Thread, CallOK(j), CallSame(j)
    PROVE  CallOK(j)'
<1>1. /\ Asked(j)' = Asked(j) /\ Asking(j)' = Asking(j)
      /\ \A ok \in BOOLEAN : Answer(j, ok)' = Answer(j, ok) /\ Executed(j, ok)' = Executed(j, ok)
  BY DEF CallSame, Asked, Asking, Answer, Executed
<1>2. Waiting(j)' = Waiting(j) /\ Quiet(j)' = Quiet(j)
  BY <1>1 DEF CallSame, Waiting, Quiet
<1>. QED
  BY <1>1, <1>2 DEF CallSame, CallOK

LEMMA OthersKept ==
    ASSUME TypeOK, ProgressOK, OwnClient, NEW i \in Thread, Run(i),
           NEW j \in Thread \ {i}
    PROVE  CallSame(j)
<1>1. ThreadSame(j) /\ file[i] \in {None, i}
  BY RunEffect DEF OwnClient
<1>2. /\ done'[j] = done[j] /\ xid'[j] = xid[j] /\ forward'[j] = forward[j]
      /\ requests'[j] = requests[j] /\ socket'[j] = socket[j]
      /\ reverse'[j] = reverse[j]
  <2>1. CASE Open(i) \/ MakeClient(i) \/ Connect(i) \/ Take(i)
    BY <2>1 DEF Open, MakeClient, Connect, Take, clients, network
  <2>2. CASE Allocate(i) \/ Fill(i) \/ Send(i) \/ ReadPiece(i)
    <3>1. file[i] = i
      BY <1>1, <2>2, HasClient, ThreadIsNat DEF Allocate, Fill, Send, ReadPiece
    <3>. QED
      <4>0. /\ done \in [Thread -> Nat] /\ xid \in [Thread -> Nat]
            /\ forward \in [Thread -> Request] /\ reverse \in [Thread -> Seq(Body)]
            /\ requests \in [Thread -> Seq(Request)]
            /\ socket \in [Thread -> Seq(Frame \union Body)]
        BY DEF TypeOK
      <4>1. CASE Allocate(i)
        BY <3>1, <4>0, <4>1 DEF Allocate, network
      <4>2. CASE Fill(i)
        BY <3>1, <4>0, <4>2 DEF Fill, network
      <4>3. CASE Send(i)
        BY <3>1, <4>0, <4>3 DEF Send, network
      <4>4. CASE ReadPiece(i)
        BY <3>1, <4>0, <4>4 DEF ReadPiece, network
      <4> QED BY <2>2, <4>1, <4>2, <4>3, <4>4
  <2>3. CASE Parse(i)
    BY <2>3 DEF Parse, clients, network
  <2>. QED
    BY <2>1, <2>2, <2>3 DEF Run
<1>. QED
  BY <1>1, <1>2 DEF CallSame, ThreadSame

-----------------------------------------------------------------------------
\* The parts of a call of such a thread, one after the other.
LEMMA RunCall ==
    ASSUME TypeOK, TypeOK', ProgressOK, OwnClient, NEW i \in Thread, Run(i), CallOK(i)
    PROVE  /\ done' = done
           /\ CallOK(i)' \/ (main' = "killed" /\ done[i] \in {ct'[i], ct'[i] + 1})
<1>0. /\ pc[i] \notin Opening => file[i] = i
      /\ pc[i] \in Place /\ ct[i] \in Nat
  BY HasClient, ThreadIsNat, Bounds DEF OwnClient, TypeOK
<1>1. CASE Open(i) \/ MakeClient(i) \/ Connect(i) \/ Take(i)
  <2>1. pc[i] \in Opening /\ UNCHANGED <<job, ct, requests, socket, done>>
    BY <1>1 DEF Open, MakeClient, Connect, Take, network
  <2>2. pc'[i] \in {"create", "connect", "take", "allocate"}
    BY <1>1 DEF Open, MakeClient, Connect, Take, TypeOK
  <2>. QED
    BY <2>1, <2>2 DEF CallOK, Quiet
<1>3. CASE Allocate(i)
  <2>1. /\ pc[i] = "allocate" /\ pc'[i] = "fill" /\ file[i] = i
        /\ UNCHANGED <<job, ct, requests, socket, done>>
    BY <1>0, <1>3 DEF Allocate, TypeOK, network
  <2>2. forward'[i] = [xid |-> xid'[i], asks |-> <<>>]
    BY <1>3, <2>1 DEF Allocate, TypeOK
  <2>. QED
    BY <2>1, <2>2 DEF CallOK, Quiet
<1>4. CASE Fill(i)
  <2>1. /\ pc[i] = "fill" /\ pc'[i] = "send" /\ file[i] = i
        /\ UNCHANGED <<job, ct, xid, requests, socket, done>>
    BY <1>0, <1>4 DEF Fill, TypeOK, network
  <2>2. forward[i] = [xid |-> xid[i], asks |-> <<>>]
    BY <2>1 DEF CallOK
  <2>3. forward'[i] = [forward[i] EXCEPT !.asks = Append(@, Asked(i))]
    BY <1>4, <2>1 DEF Fill, TypeOK
  <2>4. Append(<<>>, Asked(i)) = <<Asked(i)>>
    OBVIOUS
  <2>5. forward'[i] = Asking(i)
    BY <2>2, <2>3, <2>4 DEF Asking
  <2>6. Asking(i)' = Asking(i)
    BY <2>1 DEF Asking, Asked
  <2>. QED
    BY <2>1, <2>5, <2>6 DEF CallOK, Quiet
<1>5. CASE Send(i)
  <2>1. pc[i] = "send" /\ file[i] = i /\ UNCHANGED <<xid, socket, done>>
    BY <1>0, <1>5 DEF Send
  <2>2. forward[i] = Asking(i) /\ requests[i] = <<>> /\ socket[i] = <<>> /\ done[i] = ct[i]
    BY <2>1 DEF CallOK, Quiet
  <2>3. CASE requests' = [requests EXCEPT ![file[i]] = Append(@, forward[file[i]])]
             /\ pc' = [pc EXCEPT ![i] = "frame"] /\ UNCHANGED <<job, ct>>
    <3>1. requests'[i] = Append(<<>>, Asking(i)) /\ pc'[i] = "frame"
      BY <2>1, <2>2, <2>3 DEF TypeOK
    <3>2. Append(<<>>, Asking(i)) = <<Asking(i)>>
      OBVIOUS
    <3>3. Asking(i)' = Asking(i)
      BY <2>1, <2>3 DEF Asking, Asked
    <3>4. Waiting(i)'
      BY <2>1, <2>2, <2>3, <3>1, <3>2, <3>3 DEF Waiting
    <3>. QED
      BY <2>1, <3>1, <3>4 DEF CallOK
  <2>4. CASE UNCHANGED requests /\ pc' = [pc EXCEPT ![i] = "lost"] /\ ct' = ct
    <3>1. pc'[i] = "lost"
      BY <2>4 DEF TypeOK
    <3>. QED
      BY <2>1, <2>2, <2>4, <3>1 DEF CallOK, Quiet
  <2>5. CASE UNCHANGED requests /\ Returned(i, FALSE)
    <3>1. ct'[i] = ct[i] /\ (main' = "killed" \/ pc'[i] \in {"ended", "allocate"})
      BY <2>5 DEF Returned, Count
    <3>. QED
      BY <2>1, <2>2, <2>5, <3>1 DEF CallOK, Quiet
  <2>. QED
    BY <1>5, <2>1, <2>3, <2>4, <2>5, SendEffect
<1>6. CASE ReadPiece(i)
  <2>1. /\ pc[i] \in {"frame", "body"} /\ socket[i] # <<>> /\ file[i] = i
        /\ UNCHANGED <<job, ct, xid, requests, done>>
        /\ socket'[i] = Tail(socket[i])
    BY <1>0, <1>6 DEF ReadPiece, TypeOK
  <2>2. \A ok \in BOOLEAN : Answer(i, ok)' = Answer(i, ok) /\ Executed(i, ok)' = Executed(i, ok)
    BY <2>1 DEF Answer, Executed, Asked
  <2>3. CASE pc[i] = "frame"
    <3>1. requests[i] = <<>>
          /\ \E ok \in BOOLEAN :
                 socket[i] = <<[piece |-> "frame"], Answer(i, ok)>> /\ Executed(i, ok)
      BY <2>1, <2>3 DEF CallOK, Waiting
    <3>2. PICK ok \in BOOLEAN :
                 socket[i] = <<[piece |-> "frame"], Answer(i, ok)>> /\ Executed(i, ok)
      BY <3>1
    <3>3. Head(socket[i]).piece = "frame" /\ Tail(socket[i]) = <<Answer(i, ok)>>
      BY <3>2
    <3>4. pc'[i] = "body"
      BY <1>6, <2>1, <2>3, <3>3 DEF ReadPiece, TypeOK
    <3>. QED
      BY <2>1, <2>2, <3>1, <3>2, <3>3, <3>4 DEF CallOK
  <2>4. CASE pc[i] = "body"
    <3>1. PICK ok \in BOOLEAN : socket[i] = <<Answer(i, ok)>> /\ Executed(i, ok)
      BY <2>4 DEF CallOK
    <3>2. Head(socket[i]) = Answer(i, ok) /\ Tail(socket[i]) = <<>>
      BY <3>1
    <3>3. Answer(i, ok).piece = "body"
      BY DEF Answer
    <3>4. pc'[i] = "parse"
      BY <1>6, <2>1, <2>4, <3>2, <3>3 DEF ReadPiece, TypeOK
    <3>5. reverse'[i] = <<Answer(i, ok)>>
      BY <1>6, <2>1, <3>2, <3>4 DEF ReadPiece, TypeOK
    <3>6. requests[i] = <<>>
      BY <2>4 DEF CallOK
    <3>. QED
      BY <2>1, <2>2, <3>1, <3>2, <3>4, <3>5, <3>6 DEF CallOK, Quiet
  <2>. QED
    BY <2>1, <2>3, <2>4
<1>7. CASE Parse(i)
  <2>1. pc[i] = "parse" /\ file[i] = i /\ UNCHANGED <<requests, socket, done>>
    BY <1>0, <1>7 DEF Parse, network
  <2>2. Quiet(i) /\ \E ok \in BOOLEAN : reverse[i] = <<Answer(i, ok)>> /\ Executed(i, ok)
    BY <2>1 DEF CallOK
  <2>3. PICK ok \in BOOLEAN : reverse[i] = <<Answer(i, ok)>> /\ Executed(i, ok)
    BY <2>2
  <2>4. ParseRpc(file[i]) = ok
    BY <2>1, <2>3 DEF ParseRpc, Answer
  <2>5. Returned(i, ok)
    BY <1>7, <2>4, ParseEffect
  <2>6. done[i] = ct'[i] /\ (main' = "killed" \/ pc'[i] \in {"ended", "allocate"})
    BY <2>3, <2>5 DEF Executed, Returned, Count
  <2>. QED
    BY <2>1, <2>2, <2>6 DEF CallOK, Quiet
<1>. QED
  BY <1>1, <1>3, <1>4, <1>5, <1>6, <1>7 DEF Run

\* The server takes the request of a thread and puts the answer to it on its way.
LEMMA ServeCall ==
    ASSUME TypeOK, NEW k \in Thread, Serve(k), CallOK(k)
    PROVE  /\ CallOK(k)' /\ \A j \in Thread \ {k} : CallSame(j)
           /\ done'[k] \in {ct[k], ct[k] + 1}
<1>1. requests[k] = <<Asking(k)>> /\ socket[k] = <<>> /\ done[k] = ct[k] /\ pc[k] = "frame"
  <2>1. requests[k] # <<>>
    BY DEF Serve
  <2>. QED
    BY <2>1 DEF CallOK, Waiting, Quiet
<1>2. /\ Head(requests[k]) = Asking(k) /\ Tail(requests[k]) = <<>>
      /\ Asking(k).asks = <<Asked(k)>> /\ Asking(k).xid = xid[k]
      /\ Asking(k).asks[1] = <<k, job[k]>> /\ Asking(k).asks # <<>>
  BY <1>1 DEF Asking, Asked
<1>3. UNCHANGED <<config, main, t, pc, job, ct, xid, forward, reverse>>
  BY ServeEffect
<1>4. requests' = [requests EXCEPT ![k] = <<>>]
  BY <1>2 DEF Serve
<1>5. \E ok \in BOOLEAN : /\ socket' = [socket EXCEPT ![k] = @ \o <<[piece |-> "frame"], Answer(k, ok)>>]
                          /\ done' = IF ok /\ job[k] = "op" THEN [done EXCEPT ![k] = @ + 1] ELSE done
  <2>1. \/ /\ socket' = [socket EXCEPT ![k] = @ \o <<[piece |-> "frame"], Answer(k, TRUE)>>]
           /\ done' = IF job[k] = "op" THEN [done EXCEPT ![k] = @ + 1] ELSE done
        \/ /\ socket' = [socket EXCEPT ![k] = @ \o <<[piece |-> "frame"], Answer(k, FALSE)>>]
           /\ done' = done
    <3>1. \/ /\ socket' = [socket EXCEPT ![k] =
                 @ \o <<[piece |-> "frame"], [piece |-> "body", xid |-> Head(requests[k]).xid,
                                             ok |-> TRUE, about |-> Head(requests[k]).asks]>>]
             /\ done' = IF Head(requests[k]).asks[1][2] = "op"
                        THEN [done EXCEPT ![Head(requests[k]).asks[1][1]] = @ + 1] ELSE done
          \/ /\ socket' = [socket EXCEPT ![k] =
                 @ \o <<[piece |-> "frame"], [piece |-> "body", xid |-> Head(requests[k]).xid,
                                             ok |-> FALSE, about |-> Head(requests[k]).asks]>>]
             /\ done' = done
      BY DEF Serve
    <3>2. /\ Head(requests[k]).xid = xid[k] /\ Head(requests[k]).asks = <<Asked(k)>>
          /\ Head(requests[k]).asks[1][1] = k /\ Head(requests[k]).asks[1][2] = job[k]
      BY <1>2
    <3>. QED
      BY <3>1, <3>2 DEF Answer
  <2>2. TRUE \in BOOLEAN /\ FALSE \in BOOLEAN
    OBVIOUS
  <2>. QED
    BY <2>1, <2>2
<1>6. PICK ok \in BOOLEAN : /\ socket' = [socket EXCEPT ![k] = @ \o <<[piece |-> "frame"], Answer(k, ok)>>]
                            /\ done' = IF ok /\ job[k] = "op" THEN [done EXCEPT ![k] = @ + 1] ELSE done
  BY <1>5
<1>7. socket'[k] = <<[piece |-> "frame"], Answer(k, ok)>>
  BY <1>1, <1>6 DEF TypeOK
<1>8. Executed(k, ok)' /\ Answer(k, ok)' = Answer(k, ok)
  BY <1>1, <1>3, <1>6 DEF Executed, Answer, Asked, TypeOK
<1>9. Waiting(k)'
  BY <1>4, <1>7, <1>8 DEF Waiting, TypeOK
<1>10. CallOK(k)'
  BY <1>1, <1>3, <1>9 DEF CallOK
<1>11. \A j \in Thread \ {k} : CallSame(j)
  BY <1>3, <1>4, <1>6 DEF CallSame, TypeOK
<1>12. done'[k] \in {ct[k], ct[k] + 1}
  BY <1>1, <1>6 DEF TypeOK
<1>. QED
  BY <1>10, <1>11, <1>12

-----------------------------------------------------------------------------
\* A thread that ends the process does not end its loop.
LEMMA KilledAt ==
    ASSUME TypeOK, ProgressOK, NEW i \in Thread, Run(i), main' = "killed"
    PROVE  pc'[i] # "ended"
<1>0. main # "killed" /\ pc[i] # "ended"
  BY RunEffect DEF Run, Running
<1>1. CASE Open(i) \/ MakeClient(i) \/ Take(i) \/ Allocate(i) \/ Fill(i) \/ ReadPiece(i)
  BY <1>0, <1>1 DEF Open, MakeClient, Take, Allocate, Fill, ReadPiece
<1>2. CASE Connect(i)
  BY <1>0, <1>2 DEF Connect, TypeOK
<1>3. CASE Send(i) \/ Parse(i)
  BY <1>0, <1>3, SendEffect, ParseEffect DEF Returned, TypeOK
<1>. QED
  BY <1>1, <1>2, <1>3 DEF Run

\* What holds for threads that have their clients to themselves.
AloneOK ==
    /\ OwnClient /\ OwnAnswer /\ CountsOwn
    /\ Running => \A i \in Thread : CallOK(i)

LEMMA AnswerStep ==
    ASSUME TypeOK, ProgressOK, Alone, AloneOK, [Next]_vars
    PROVE  OwnAnswer'
<1>1. ASSUME taken' = taken PROVE OwnAnswer'
  BY <1>1 DEF AloneOK, OwnAnswer
<1>2. ASSUME NEW i \in Thread, Running, Parse(i) PROVE OwnAnswer'
  <2>1. pc[i] = "parse" /\ file[i] = i
    BY <1>2, HasClient, ThreadIsNat DEF Parse, AloneOK, OwnClient
  <2>2. CallOK(i)
    BY <1>2 DEF AloneOK
  <2>3. PICK ok \in BOOLEAN : reverse[i] = <<Answer(i, ok)>>
    BY <2>1, <2>2 DEF CallOK
  <2>4. reverse[i][1].about = <<Asked(i)>>
    BY <2>3 DEF Answer
  <2>5. taken'[i] \in {taken[i], <<Asked(i), <<Asked(i)>>>>}
        /\ \A j \in Thread \ {i} : taken'[j] = taken[j]
    BY <1>2, <2>1, <2>4 DEF Parse, TypeOK
  <2>6. ASSUME NEW j \in Thread, taken'[j] # <<>> PROVE taken'[j][2] = <<taken'[j][1]>>
    <3>1. CASE taken'[j] = taken[j]
      BY <2>6, <3>1 DEF AloneOK, OwnAnswer
    <3>2. CASE taken'[j] = <<Asked(i), <<Asked(i)>>>>
      BY <3>2
    <3>. QED
      BY <2>5, <3>1, <3>2
  <2>. QED
    BY <2>6 DEF OwnAnswer
<1>3. ASSUME NEW i \in Thread,
             \/ Open(i) \/ MakeClient(i) \/ Connect(i) \/ Take(i) \/ Allocate(i) \/ Fill(i)
             \/ Send(i) \/ ReadPiece(i) \/ Serve(i)
      PROVE  taken' = taken
  BY <1>3 DEF Open, MakeClient, Connect, Take, Allocate, Fill, Send, ReadPiece, Serve, threads
<1>4. Main \/ UNCHANGED vars => taken' = taken
  BY DEF Main, Create, Join, Save, vars, threads
<1>. QED
  BY <1>1, <1>2, <1>3, <1>4 DEF Next, Run

\* A thread's own count, when it has ended and before.
CountOK(i) ==
    /\ results[i] # Unset => results[i] = done[i]
    /\ ct[i] <= done[i] /\ done[i] <= ct[i] + 1

LEMMA CallsStep ==
    ASSUME TypeOK, TypeOK', OrderOK, ProgressOK, ProgressOK', Alone, AloneOK, [Next]_vars
    PROVE  /\ Running' => \A i \in Thread : CallOK(i)'
           /\ \A i \in Thread : CountOK(i)'
<1>0. \A i \in Thread : /\ ct[i] \in Nat /\ done[i] \in Nat /\ ct'[i] \in Nat /\ done'[i] \in Nat
                        /\ CountOK(i)
  <2>1. config.blocks \in Nat /\ config'.blocks \in Nat
    BY BenchAssumption DEF TypeOK
  <2>. QED
    BY <2>1 DEF TypeOK, AloneOK, CountsOwn, CountOK
<1>a. ASSUME NEW i \in Thread, UNCHANGED <<ct, results, done>> PROVE CountOK(i)'
  BY <1>0, <1>a DEF CountOK
<1>b. ASSUME NEW i \in Thread, CallSame(i), CallOK(i), results'[i] = results[i]
      PROVE  CallOK(i)' /\ CountOK(i)'
  BY <1>0, <1>b, CallKept DEF CountOK, CallSame
<1>c. ASSUME NEW i \in Thread, results'[i] = IF pc'[i] = "ended" THEN ct'[i] ELSE Unset,
             CallOK(i)'
      PROVE  CountOK(i)'
  <2>1. done'[i] \in {ct'[i], ct'[i] + 1} /\ (pc'[i] = "ended" => done'[i] = ct'[i])
    <3>1. pc'[i] \in Place
      BY DEF TypeOK
    <3>2. CASE pc'[i] = "frame"
      <4>1. Waiting(i)'
        BY <1>c, <3>2 DEF CallOK
      <4>. QED
        BY <3>2, <4>1 DEF Waiting, Executed
    <3>3. CASE pc'[i] = "body"
      BY <1>c, <3>3 DEF CallOK, Executed
    <3>4. CASE pc'[i] = "parse"
      BY <1>c, <3>4 DEF CallOK, Executed
    <3>5. CASE pc'[i] \notin {"frame", "body", "parse"}
      BY <1>c, <3>5 DEF CallOK
    <3>. QED
      BY <3>2, <3>3, <3>4, <3>5
  <2>. QED
    BY <1>0, <1>c, <2>1 DEF CountOK
<1>1. CASE Main
  <2>1. UNCHANGED <<job, ct, results, xid, forward, reverse, requests, socket, done>>
    BY <1>1 DEF Main, Create, Join, Save, threads, clients, network
  <2>2. \A i \in Thread : CountOK(i)'
    BY <1>a, <2>1
  <2>3. ASSUME Running', NEW i \in Thread PROVE CallOK(i)'
    <3>1. Running /\ CallOK(i)
      <4>1. Running
        BY <1>1 DEF Main, Create, Join, Save, Running
      <4>. QED
        BY <4>1 DEF AloneOK
    <3>2. pc'[i] = pc[i] \/ (pc[i] = "none" /\ pc'[i] = "open")
      <4>1. CASE Create
        <5>1. t \in Thread /\ pc[t] = "none"
          BY <4>1, NextThread
        <5>. QED
          BY <4>1, <5>1 DEF Create, TypeOK
      <4>2. CASE Join \/ Save
        BY <4>2 DEF Join, Save, threads
      <4>. QED
        BY <1>1, <4>1, <4>2 DEF Main
    <3>3. CASE pc'[i] = pc[i]
      BY <2>1, <3>1, <3>3, CallKept DEF CallSame
    <3>4. CASE pc[i] = "none" /\ pc'[i] = "open"
      BY <2>1, <3>1, <3>4 DEF CallOK, Quiet
    <3>. QED
      BY <3>2, <3>3, <3>4
  <2>. QED
    BY <2>2, <2>3
<1>2. ASSUME NEW i \in Thread, Run(i)
      PROVE  /\ Running' => \A j \in Thread : CallOK(j)'
             /\ \A j \in Thread : CountOK(j)'
  <2>1. Running /\ OwnClient /\ \A j \in Thread : CallOK(j)
    BY <1>2 DEF Run, AloneOK
  <2>2. ASSUME NEW j \in Thread \ {i} PROVE CallOK(j)' /\ CountOK(j)'
    <3>1. CallSame(j) /\ results'[j] = results[j]
      BY <1>2, <2>1, OthersKept, RunEffect DEF ThreadSame
    <3>. QED
      BY <1>b, <2>1, <3>1
  <2>3. results'[i] = IF pc'[i] = "ended" THEN ct'[i] ELSE Unset
    BY DEF ProgressOK
  <2>4. CASE CallOK(i)'
    BY <1>c, <2>2, <2>3, <2>4
  <2>5. CASE main' = "killed" /\ done' = done /\ done[i] \in {ct'[i], ct'[i] + 1}
    <3>1. ~Running'
      BY <2>5 DEF Running
    <3>2. pc'[i] # "ended"
      BY <1>2, <2>5, KilledAt
    <3>3. CountOK(i)'
      BY <1>0, <2>3, <2>5, <3>2 DEF CountOK
    <3>. QED
      BY <2>2, <3>1, <3>3
  <2>. QED
    BY <1>2, <2>1, <2>4, <2>5, RunCall
<1>3. ASSUME NEW k \in Thread, Serve(k)
      PROVE  /\ Running' => \A j \in Thread : CallOK(j)'
             /\ \A j \in Thread : CountOK(j)'
  <2>1. \A j \in Thread : CallOK(j)
    BY <1>3 DEF Serve, AloneOK
  <2>2. CallOK(k)' /\ \A j \in Thread \ {k} : CallSame(j)
    BY <1>3, <2>1, ServeCall
  <2>3. \A j \in Thread : results'[j] = results[j]
    BY <1>3, ServeEffect
  <2>4. CountOK(k)'
    <3>1. results'[k] = IF pc'[k] = "ended" THEN ct'[k] ELSE Unset
      BY DEF ProgressOK
    <3>. QED
      BY <1>c, <2>2, <3>1
  <2>. QED
    BY <1>b, <2>1, <2>2, <2>3, <2>4
<1>4. CASE UNCHANGED vars
  <2>1. UNCHANGED <<main, pc, job, ct, results, xid, forward, reverse, requests, socket, done>>
    BY <1>4 DEF vars, threads, clients, network
  <2>2. Running' => \A i \in Thread : CallOK(i)'
    BY <2>1, CallKept DEF AloneOK, Running, CallSame
  <2>. QED
    BY <1>a, <2>1, <2>2
<1>. QED
  BY <1>1, <1>2, <1>3, <1>4 DEF Next

-----------------------------------------------------------------------------
LEMMA InvInit == Init => IInv
<1>. SUFFICES ASSUME Init PROVE IInv
  OBVIOUS
<1>1. /\ config \in Config /\ config.threads \in 1 .. MaxThreads /\ config.blocks \in Nat
      /\ config.threads \in Nat /\ MaxThreads \in Nat /\ MaxFaults \in Nat
  BY Bounds, BenchAssumption DEF Init
<1>2. TypeOK
  <2>1. /\ <<>> \in Seq(Body) /\ <<>> \in Seq(Request) /\ <<>> \in Seq(Frame \union Body)
        /\ [xid |-> 0, asks |-> <<>>] \in Request
    BY DEF Request, Asks
  <2>2. 1 \in 1 .. config.threads + 1 /\ 0 \in 0 .. config.blocks /\ 0 \in 0 .. MaxFaults
    BY <1>1
  <2>3. /\ forward \in [Thread -> Request] /\ reverse \in [Thread -> Seq(Body)]
        /\ requests \in [Thread -> Seq(Request)] /\ socket \in [Thread -> Seq(Frame \union Body)]
        /\ xid \in [Thread -> Nat] /\ done \in [Thread -> Nat]
    BY <2>1 DEF Init
  <2>4. /\ pc \in [Thread -> Place] /\ job \in [Thread -> Job] /\ limit \in [Thread -> BOOLEAN]
        /\ ct \in [Thread -> 0 .. config.blocks]
        /\ results \in [Thread -> 0 .. config.blocks \union {Unset}]
        /\ taken \in [Thread -> ((Thread \X Job) \X Asks) \union {<<>>}]
        /\ file \in [Thread -> Thread \union {None}]
    BY <2>2 DEF Init, Place, Job
  <2>5. \A i \in Thread : pc[i] \in Opening <=> file[i] = None
    BY DEF Init
  <2>. QED
    BY <1>1, <2>2, <2>3, <2>4, <2>5 DEF Init, TypeOK
<1>3. OrderOK
  BY <1>1 DEF Init, OrderOK
<1>4. ProgressOK
  BY DEF Init, ProgressOK
<1>5. OwnClient /\ OwnAnswer /\ CountsOwn
  BY DEF Init, OwnClient, OwnAnswer, CountsOwn
<1>6. \A i \in Thread : CallOK(i)
  BY DEF Init, CallOK, Quiet
<1>7. OwnClientsAnswer /\ NoneTaken
  BY DEF Init, OwnClientsAnswer, NoneTaken
<1>8. \A k \in Thread : ClientOK(k)
  BY DEF Init, ClientOK, AsksOf
<1>. QED
  BY <1>2, <1>3, <1>4, <1>5, <1>6, <1>7, <1>8 DEF IInv

LEMMA InvStep == IInv /\ [Next]_vars => IInv'
<1>. SUFFICES ASSUME IInv, [Next]_vars PROVE IInv'
  OBVIOUS
<1>1. TypeOK' /\ OrderOK' /\ ProgressOK'
  BY TypeStep, OrderStep, ProgressStep DEF IInv
<1>2. config' = config
  BY DEF Next, Main, Create, Join, Save, Run, Open, MakeClient, Connect, Take, Allocate, Fill,
         Send, ReadPiece, Parse, Serve, vars
<1>3. ASSUME Alone'
      PROVE  OwnClient' /\ OwnAnswer' /\ CountsOwn' /\ (Running' => \A i \in Thread : CallOK(i)')
  <2>1. Alone /\ AloneOK
    BY <1>2, <1>3 DEF Alone, AloneOK, IInv
  <2>2. OwnClient' /\ OwnAnswer'
    BY <2>1, OwnClientStep, AnswerStep DEF IInv, AloneOK
  <2>3. (Running' => \A i \in Thread : CallOK(i)') /\ \A i \in Thread : CountOK(i)'
    BY <1>1, <2>1, CallsStep DEF IInv
  <2>. QED
    BY <2>2, <2>3 DEF CountsOwn, CountOK
<1>4. OwnClientsAnswer' /\ NoneTaken' /\ \A k \in Thread : ClientOK(k)'
  BY <1>1, ClientsAnswerStep, ClientStep DEF IInv
<1>. QED
  BY <1>1, <1>3, <1>4 DEF IInv

\* Each thread is where its client, its connection and its counters say, for every
\* configuration; what is under way is known when no client has two threads.
THEOREM Inductive == Spec => []IInv
BY InvInit, InvStep, PTL DEF Spec

\* The variables keep their types, however many threads share a client.
THEOREM TypeCorrect == Spec => []TypeOK
<1>1. IInv => TypeOK
  BY DEF IInv
<1>. QED
  BY <1>1, Inductive, PTL

\* A thread that has its client to itself takes the answers to its own requests.
THEOREM OwnAnswerHolds == Spec => []OwnAnswer
<1>1. IInv => OwnAnswer
  BY DEF IInv, OwnAnswer
<1>. QED
  BY <1>1, Inductive, PTL

\* What a thread takes for its answer answers requests made on its own client, also when
\* threads have raced for ad->c and each has made a client.
THEOREM OwnClientsAnswerHolds == Spec => []OwnClientsAnswer
<1>1. IInv => OwnClientsAnswer
  BY DEF IInv
<1>. QED
  BY <1>1, Inductive, PTL

\* Such a thread reports the operations that the server has executed for it.
THEOREM CountsOwnHolds == Spec => []CountsOwn
<1>1. IInv => CountsOwn
  BY DEF IInv, CountsOwn
<1>. QED
  BY <1>1, Inductive, PTL

\* What is printed and saved was written by threads that have ended.
THEOREM ResultsAfterJoinHolds == Spec => []ResultsAfterJoin
<1>1. IInv => ResultsAfterJoin
  <2>. SUFFICES ASSUME IInv, main = "saved", NEW i \in 1 .. config.threads
                PROVE  pc[i] = "ended" /\ results[i] # Unset
    BY DEF ResultsAfterJoin
  <2>1. config.threads \in 1 .. MaxThreads /\ MaxThreads \in Nat /\ t \in Nat
    BY Bounds DEF IInv, TypeOK
  <2>2. i \in Thread /\ i < t
    BY <2>1 DEF IInv, OrderOK, Joined, Thread
  <2>3. pc[i] = "ended" /\ results[i] = ct[i]
    BY <2>2 DEF IInv, OrderOK, ProgressOK
  <2>4. ct[i] \in 0 .. config.blocks /\ config.blocks \in Nat
    BY <2>2, Bounds DEF IInv, TypeOK
  <2>. QED
    BY <2>3, <2>4 DEF Unset
<1>. QED
  BY <1>1, Inductive, PTL
=============================================================================
