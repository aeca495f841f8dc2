-------------------------------- MODULE Bench --------------------------------
(***************************************************************************)
(* benchmark_vfs (pyvfsbench/vfsbench.c): threads that open a file through *)
(* the VFS, operate on it and leave their results to the thread that joins *)
(* them, and the client below them as they meet in it: nfs4Open takes      *)
(* ad->c or, when built with NFS4_CLIENT_PER_FILEHANDLE, makes a client    *)
(* for the file; a call fills forward, sends it, reads into reverse and    *)
(* parses that, and nothing holds a lock.                                  *)
(*                                                                         *)
(* A request is what it asks for and its xid, a reply two pieces, the      *)
(* length and the rest.  xRead and xWrite are taken to return the status   *)
(* they compute (Exact in FileIo); transact() does not repeat a call.      *)
(***************************************************************************)
EXTENDS Integers, Sequences

CONSTANTS
    MaxThreads,   \* num_threads is at most this
    Config,       \* num_threads, blocks_per_thread, the mode, the build, the file
    MaxFaults     \* bound: errors of the server and of pthread_create

ASSUME BenchAssumption ==
    /\ MaxThreads \in Nat \ {0} /\ MaxFaults \in Nat
    /\ Config \subseteq [threads : 1 .. MaxThreads, blocks : Nat, random : BOOLEAN,
                         perFile : BOOLEAN,   \* NFS4_CLIENT_PER_FILEHANDLE
                         some : BOOLEAN]      \* the file has a whole block

Thread == 1 .. MaxThreads
None   == 0
Unset  == -1      \* malloc() and locals: not written yet

VARIABLES
    config,     \* the one of Config
    main, t,    \* place in benchmark_vfs(), and its loop counter
    pc, job,    \* of each thread: place, and what it asks for
    ct,         \* of each thread: operations counted
    limit,      \* of each thread: file_size / block_size is not 0
    results,    \* of each thread: success_op_ct
    c,          \* ad->c: client, named after the thread that made it
    file,       \* of each thread: the client its file uses
    connected,  \* clients whose rpc_connection() has succeeded
    xid, forward, reverse,    \* of each client
    requests, socket,         \* of each client: its connection
    taken,      \* of each thread: what the last answer it took was about
    done,       \* operations the server has executed for each thread
    faults

threads == <<pc, job, ct, limit, results, file, taken>>
clients == <<c, connected, xid, forward, reverse>>
network == <<requests, socket, done>>
vars    == <<config, main, t, threads, clients, network, faults>>

Running == main \in {"create", "join"}
Fault   == faults < MaxFaults /\ faults' = faults + 1

-----------------------------------------------------------------------------
\* benchmark_vfs().

\* exit(1), or a signal, in any thread.
Die == main' = "killed"

\* With one thread it calls run_test() itself.
Create ==
    /\ main = "create"
    /\ \/ /\ pc' = [pc EXCEPT ![t] = "open"]
          /\ IF t = config.threads THEN main' = "join" /\ t' = 1
                                   ELSE t' = t + 1 /\ UNCHANGED main
          /\ UNCHANGED faults
       \/ config.threads > 1 /\ Fault /\ Die /\ UNCHANGED <<pc, t>>
    /\ UNCHANGED <<config, job, ct, limit, results, file, taken, clients, network>>

\* MUTANT the last thread is not waited for
JoinedShort == t >= config.threads

Joined == t > config.threads

Join ==
    /\ main = "join" /\ ~Joined
    /\ pc[t] = "ended"
    /\ t' = t + 1
    /\ UNCHANGED <<config, main, threads, clients, network, faults>>

\* print_perf(), save_perf()
Save ==
    /\ main = "join" /\ Joined
    /\ main' = "saved"
    /\ UNCHANGED <<config, t, threads, clients, network, faults>>

-----------------------------------------------------------------------------
\* nfs4Open().

\* MUTANT the local variable is static
StaticClient(lc) ==
    IF ~config.perFile THEN c
    ELSE IF connected = {} THEN lc ELSE CHOOSE k \in connected : TRUE

\* *c: the local variable or ad->c
ClientOf(lc) == IF config.perFile THEN lc ELSE c

\* if (*c == 0): what this finds may have changed before anything comes of it.
Open(i) ==
    /\ pc[i] = "open"
    /\ pc' = [pc EXCEPT ![i] = IF ClientOf(None) = None THEN "create" ELSE "take"]
    /\ UNCHANGED <<config, main, t, job, ct, limit, results, file, taken, clients, network, faults>>

\* create_client() up to *dest = c: the client is there for the others before
\* rpc_connection(), and replaces one that another thread has made meanwhile.
MakeClient(i) ==
    /\ pc[i] = "create"
    /\ c' = IF config.perFile THEN c ELSE i
    /\ pc' = [pc EXCEPT ![i] = "connect"]
    /\ UNCHANGED <<config, main, t, job, ct, limit, results, file, taken, connected, xid, forward,
                   reverse, network, faults>>

\* rpc_connection() of the client the thread has made, whatever *c is by now.  It uses
\* xid and reverse as well, and fails when another thread gets in between.
Connect(i) ==
    /\ pc[i] = "connect"
    /\ \/ /\ connected' = connected \union {i}
          /\ pc' = [pc EXCEPT ![i] = "take"]
          /\ UNCHANGED <<main, faults>>
       \/ /\ Fault \/ ((\E j \in Thread : file[j] = i) /\ UNCHANGED faults)
          /\ Die
          /\ UNCHANGED <<connected, pc>>
    /\ UNCHANGED <<config, t, job, ct, limit, results, file, taken, c, xid, forward, reverse,
                   network>>

\* file_create(*c, ...) and its kin read *c again: it may be the client of a thread
\* that is still connecting, or another one than the thread has made itself.
Take(i) ==
    /\ pc[i] = "take"
    /\ file' = [file EXCEPT ![i] = ClientOf(i)]
    /\ pc' = [pc EXCEPT ![i] = "allocate"]
    /\ UNCHANGED <<config, main, t, job, ct, limit, results, taken, clients, network, faults>>

-----------------------------------------------------------------------------
\* run_test() between two calls: what a call that returned means for the thread.

\* MUTANT counts before it looks at the status
CountAlways(n, ok) == n + 1

Count(n, ok) == IF ok THEN n + 1 ELSE n

\* MUTANT one round more
EnoughOver(n) == n > config.blocks

Enough(n) == n >= config.blocks

\* op_sequentially() and op_randomly(): the next round, or the end of the loop;
\* random() % 0 kills the process.  nfs4Sync() asks nothing of the server.
Loop(i, n, stop, some) ==
    CASE stop \/ Enough(n) ->
           /\ results' = [results EXCEPT ![i] = n]
           /\ pc' = [pc EXCEPT ![i] = "ended"]
           /\ UNCHANGED <<main, job>>
      [] ~stop /\ ~Enough(n) /\ config.random /\ ~some ->
           Die /\ UNCHANGED <<results, pc, job>>
      [] OTHER ->
           /\ job' = [job EXCEPT ![i] = "op"]
           /\ pc' = [pc EXCEPT ![i] = "allocate"]
           /\ UNCHANGED <<main, results>>

\* The status of xFileSize() is ignored: after an error file_size is whatever was
\* in nfs4FileSize()'s local.
Return(i, ok) ==
    CASE job[i] = "open" ->
           /\ IF ok THEN /\ job' = [job EXCEPT ![i] = "size"]
                         /\ pc' = [pc EXCEPT ![i] = "allocate"]
                         /\ UNCHANGED main
                    ELSE Die /\ UNCHANGED <<job, pc>>
           /\ UNCHANGED <<ct, limit, results>>
      [] job[i] = "size" ->
           \E some \in IF ok THEN {config.some} ELSE BOOLEAN :
             /\ limit' = [limit EXCEPT ![i] = some]
             /\ Loop(i, 0, FALSE, some)
             /\ UNCHANGED ct
      [] job[i] = "op" ->
           /\ ct' = [ct EXCEPT ![i] = Count(@, ok)]
           /\ Loop(i, ct'[i], ~ok, limit[i])
           /\ UNCHANGED limit

-----------------------------------------------------------------------------
\* A call: allocate_rpc(), push_*, rpc_send(), read_response(), parse_rpc().

Allocate(i) ==
    LET k == file[i] IN
    /\ pc[i] = "allocate"
    /\ xid' = [xid EXCEPT ![k] = @ + 1]
    /\ forward' = [forward EXCEPT ![k] = [xid |-> xid'[k], asks |-> <<>>]]
    /\ pc' = [pc EXCEPT ![i] = "fill"]
    /\ UNCHANGED <<config, main, t, job, ct, limit, results, file, taken, c, connected, reverse,
                   network, faults>>

Asked(i) == <<i, job[i]>>

\* MUTANT the operations go into the buffer of ad->c, not of the file's client
FillShared(i) ==
    LET k == IF config.perFile THEN file[i] ELSE c IN
    /\ pc[i] = "fill"
    /\ forward' = [forward EXCEPT ![k].asks = Append(@, Asked(i))]
    /\ pc' = [pc EXCEPT ![i] = "send"]
    /\ UNCHANGED <<config, main, t, job, ct, limit, results, file, taken, c, connected, xid,
                   reverse, network, faults>>

Fill(i) ==
    /\ pc[i] = "fill"
    /\ forward' = [forward EXCEPT ![file[i]].asks = Append(@, Asked(i))]
    /\ pc' = [pc EXCEPT ![i] = "send"]
    /\ UNCHANGED <<config, main, t, job, ct, limit, results, file, taken, c, connected, xid,
                   reverse, network, faults>>

\* Sends what the buffer holds and empties the other one.  Before the client is
\* connected its descriptor is what malloc() has left there: an error, or an answer
\* that never comes.
Send(i) ==
    LET k == file[i] IN
    /\ pc[i] = "send"
    /\ IF k \in connected
       THEN /\ requests' = [requests EXCEPT ![k] = Append(@, forward[k])]
            /\ reverse' = [reverse EXCEPT ![k] = <<>>]
            /\ pc' = [pc EXCEPT ![i] = "frame"]
            /\ UNCHANGED <<main, job, ct, limit, results>>
       ELSE /\ \/ Return(i, FALSE)
               \/ pc' = [pc EXCEPT ![i] = "lost"] /\ UNCHANGED <<main, job, ct, limit, results>>
            /\ UNCHANGED <<requests, reverse>>
    /\ UNCHANGED <<config, t, file, taken, c, connected, xid, forward, socket, done, faults>>

\* A thread that meets a piece it does not wait for, since another thread has read
\* the one before it, takes data for a length or a length for data and is lost.
ReadPiece(i) ==
    LET k == file[i] IN
    /\ pc[i] \in {"frame", "body"} /\ socket[k] # <<>>
    /\ socket' = [socket EXCEPT ![k] = Tail(@)]
    /\ pc' = [pc EXCEPT ![i] = IF Head(socket[k]).piece # pc[i] THEN "lost"
                               ELSE IF pc[i] = "frame" THEN "body" ELSE "parse"]
    /\ reverse' = IF pc'[i] = "parse" THEN [reverse EXCEPT ![k] = <<Head(socket[k])>>]
                  ELSE reverse
    /\ UNCHANGED <<config, main, t, job, ct, limit, results, file, taken, c, connected, xid,
                   forward, requests, done, faults>>

\* The xid must be the client's, which is that of the last call on it.
ParseRpc(k) == reverse[k] # <<>> /\ reverse[k][1].xid = xid[k] /\ reverse[k][1].ok

Parse(i) ==
    LET k == file[i] IN
    /\ pc[i] = "parse"
    /\ taken' = [taken EXCEPT ![i] =
                   IF ParseRpc(k) THEN <<Asked(i), reverse[k][1].about>> ELSE @]
    /\ Return(i, ParseRpc(k))
    /\ UNCHANGED <<config, t, file, clients, network, faults>>

\* The server, external: it answers requests in order.  One that two threads have
\* written into may be refused, or read as far as it makes sense.
Serve(k) ==
    /\ Running /\ requests[k] # <<>>
    /\ LET r == Head(requests[k])
           answer(ok) == <<[piece |-> "frame"],
                           [piece |-> "body", xid |-> r.xid, ok |-> ok, about |-> r.asks]>>
       IN  /\ requests' = [requests EXCEPT ![k] = Tail(@)]
           /\ \/ /\ r.asks # <<>>
                 /\ socket' = [socket EXCEPT ![k] = @ \o answer(TRUE)]
                 /\ done' = IF r.asks[1][2] = "op" THEN [done EXCEPT ![r.asks[1][1]] = @ + 1]
                            ELSE done
                 /\ UNCHANGED faults
              \/ /\ IF Len(r.asks) = 1 THEN Fault ELSE UNCHANGED faults
                 /\ socket' = [socket EXCEPT ![k] = @ \o answer(FALSE)]
                 /\ UNCHANGED done
    /\ UNCHANGED <<config, main, t, threads, clients>>

-----------------------------------------------------------------------------
Init ==
    /\ config \in Config
    /\ main = "create" /\ t = 1
    /\ pc = [i \in Thread |-> "none"] /\ job = [i \in Thread |-> "open"]
    /\ ct = [i \in Thread |-> 0] /\ limit = [i \in Thread |-> FALSE]
    /\ results = [i \in Thread |-> Unset]
    /\ c = None /\ file = [i \in Thread |-> None] /\ connected = {}
    /\ xid = [i \in Thread |-> 0]
    /\ forward = [i \in Thread |-> [xid |-> 0, asks |-> <<>>]]
    /\ reverse = [i \in Thread |-> <<>>]
    /\ requests = [i \in Thread |-> <<>>] /\ socket = [i \in Thread |-> <<>>]
    /\ taken = [i \in Thread |-> <<>>] /\ done = [i \in Thread |-> 0]
    /\ faults = 0

Main == Create \/ Join \/ Save

Run(i) ==
    /\ Running
    /\ \/ Open(i) \/ MakeClient(i) \/ Connect(i) \/ Take(i)
       \/ Allocate(i) \/ Fill(i) \/ Send(i) \/ ReadPiece(i) \/ Parse(i)

Next == Main \/ \E i \in Thread : Run(i) \/ Serve(i)

\* The threads are scheduled and the server answers.
Fairness == WF_vars(Main) /\ \A i \in Thread : WF_vars(Run(i)) /\ WF_vars(Serve(i))

Spec == Init /\ [][Next]_vars /\ Fairness

-----------------------------------------------------------------------------
\* Types.  A thread has a client once its file is open.
Opening == {"none", "open", "create", "connect", "take"}
Place   == Opening \union {"allocate", "fill", "send", "frame", "body", "parse", "lost", "ended"}
Job     == {"open", "size", "op"}
Asks    == Seq(Thread \X Job)
Request == [xid : Nat, asks : Asks]
Frame   == [piece : {"frame"}]
Body    == [piece : {"body"}, xid : Nat, ok : BOOLEAN, about : Asks]

TypeOK ==
    /\ config \in Config /\ faults \in 0 .. MaxFaults
    /\ main \in {"create", "join", "saved", "killed"} /\ t \in 1 .. config.threads + 1
    /\ pc \in [Thread -> Place] /\ job \in [Thread -> Job]
    /\ ct \in [Thread -> 0 .. config.blocks] /\ limit \in [Thread -> BOOLEAN]
    /\ results \in [Thread -> 0 .. config.blocks \union {Unset}]
    /\ taken \in [Thread -> ((Thread \X Job) \X Asks) \union {<<>>}]
    /\ done \in [Thread -> Nat]
    /\ c \in Thread \union {None} /\ connected \subseteq Thread
    /\ file \in [Thread -> Thread \union {None}]
    /\ \A i \in Thread : pc[i] \in Opening <=> file[i] = None
    /\ xid \in [Thread -> Nat] /\ forward \in [Thread -> Request]
    /\ reverse \in [Thread -> Seq(Body)]
    /\ requests \in [Thread -> Seq(Request)] /\ socket \in [Thread -> Seq(Frame \union Body)]

\* No client has two threads.
Alone == config.perFile \/ config.threads = 1

\* A thread that has its client to itself takes the answer to its own request, for
\* OPEN, GETATTR and each operation, whatever the other threads do meanwhile.
OwnAnswer == Alone => \A i \in Thread : taken[i] # <<>> => taken[i][2] = <<taken[i][1]>>

\* However many threads a client has, and however many clients they have made because
\* each found ad->c empty: what a thread takes for its answer answers requests of
\* threads that use the same client.
OwnClientsAnswer ==
    \A i \in Thread : taken[i] # <<>> =>
        \A n \in DOMAIN taken[i][2] : file[taken[i][2][n][1]] = file[i]

\* success_op_ct is the number of operations the server has executed for the thread,
\* an operation that was executed while its thread still waits not counted.
CountsOwn ==
    Alone => \A i \in Thread :
        /\ results[i] # Unset => results[i] = done[i]
        /\ ct[i] <= done[i] /\ done[i] <= ct[i] + 1

\* What is printed and saved was written by threads that have ended, however many
\* clients they have shared.
ResultsAfterJoin ==
    main = "saved" => \A i \in 1 .. config.threads : pc[i] = "ended" /\ results[i] # Unset

\* The benchmark ends, with its results or with exit(), when no client has two
\* threads; when one has, a thread may wait for an answer that another has read.
BenchEnds == Alone => <>(main \in {"saved", "killed"})

-----------------------------------------------------------------------------
\* Why the first four hold: the inductive invariant.

\* Threads are created, and joined, in the order of their numbers.
OrderOK ==
    /\ main = "create" => t <= config.threads
    /\ main \in {"join", "saved"} => \A i \in Thread : i < t => pc[i] = "ended"
    /\ main = "saved" => Joined
    /\ \A i \in Thread :
         i > config.threads \/ (main = "create" /\ i >= t) => pc[i] = "none"

\* A thread that has not ended has not counted all of its operations; none is counted
\* before the first one.
ProgressOK ==
    \A i \in Thread :
        /\ results[i] = IF pc[i] = "ended" THEN ct[i] ELSE Unset
        /\ job[i] # "op" => ct[i] = 0
        /\ job[i] = "op" /\ pc[i] # "ended" => ct[i] < config.blocks
        /\ pc[i] \in {"connect", "take"} /\ ~config.perFile => c # None

\* No answer is taken before the file is open.
NoneTaken == \A i \in Thread : pc[i] \in Opening => taken[i] = <<>>

\* What is in the buffers and on the connection of client k was asked by its threads.
AsksOf(k, asks) == \A n \in DOMAIN asks : file[asks[n][1]] = k

ClientOK(k) ==
    /\ AsksOf(k, forward[k].asks)
    /\ \A n \in DOMAIN requests[k] : AsksOf(k, requests[k][n].asks)
    /\ \A n \in DOMAIN socket[k] :
           socket[k][n].piece = "body" => AsksOf(k, socket[k][n].about)
    /\ \A n \in DOMAIN reverse[k] : AsksOf(k, reverse[k][n].about)

OwnClient ==
    /\ \A i \in Thread : file[i] \in {None, i}
    /\ c \in {None, 1}

\* Nothing is under way on the connection of a thread that has its client to itself.
Quiet(i) == requests[i] = <<>> /\ socket[i] = <<>>

\* The request of the thread, the answer to it, and what has been done by then.
Asking(i) == [xid |-> xid[i], asks |-> <<Asked(i)>>]
Answer(i, ok) == [piece |-> "body", xid |-> xid[i], ok |-> ok, about |-> <<Asked(i)>>]
Executed(i, ok) == done[i] = IF ok /\ job[i] = "op" THEN ct[i] + 1 ELSE ct[i]

Waiting(i) ==
    \/ requests[i] = <<Asking(i)>> /\ socket[i] = <<>> /\ done[i] = ct[i]
    \/ /\ requests[i] = <<>>
       /\ \E ok \in BOOLEAN :
              socket[i] = <<[piece |-> "frame"], Answer(i, ok)>> /\ Executed(i, ok)

CallOK(i) ==
    /\ pc[i] = "fill" => forward[i] = [xid |-> xid[i], asks |-> <<>>]
    /\ pc[i] = "send" => forward[i] = Asking(i)
    /\ pc[i] = "frame" => Waiting(i)
    /\ pc[i] = "body" =>
           /\ requests[i] = <<>>
           /\ \E ok \in BOOLEAN : socket[i] = <<Answer(i, ok)>> /\ Executed(i, ok)
    /\ pc[i] = "parse" =>
           /\ Quiet(i)
           /\ \E ok \in BOOLEAN : reverse[i] = <<Answer(i, ok)>> /\ Executed(i, ok)
    /\ pc[i] \notin {"frame", "body", "parse"} => Quiet(i) /\ done[i] = ct[i]

IInv ==
    /\ TypeOK /\ OrderOK /\ ProgressOK
    /\ OwnClientsAnswer /\ NoneTaken /\ \A k \in Thread : ClientOK(k)
    /\ Alone => /\ OwnClient /\ OwnAnswer /\ CountsOwn
                /\ Running => \A i \in Thread : CallOK(i)
=============================================================================
