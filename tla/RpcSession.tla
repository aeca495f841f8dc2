------------------------------ MODULE RpcSession ------------------------------
(***************************************************************************)
(* One NFS client: calls, the session they are sent in, and what it does   *)
(* when the connection or the session is lost (nfsv4/rpc.c, transact,      *)
(* replay_rpc, rpc_connection, create_session; push_sequence in xdr.c).    *)
(*                                                                         *)
(* A call is one compound that starts with SEQUENCE.  The server executes  *)
(* it when its sequence id is one more than that of the session's slot 0,  *)
(* the only slot the client uses.                                          *)
(*                                                                         *)
(* transact() connects again from inside itself, and create_session() is   *)
(* itself a transact(): the variable "tries" holds the try counters of the *)
(* transacts that are under way, the innermost last.  The first one is     *)
(* that of the call, except in create_client(), and the others are those   *)
(* of create_session.                                                      *)
(***************************************************************************)
EXTENDS Naturals, Sequences

CONSTANTS
    MaxCalls,     \* bound: calls made
    MaxFaults,    \* bound: things that go wrong
    ServerCaches  \* the server answers a repeated sequence id from its reply
                  \*   cache, though sa_cachethis is 0

ASSUME BoundAssumption == MaxCalls \in Nat /\ MaxFaults \in Nat
ASSUME CacheAssumption == ServerCaches \in BOOLEAN

NoSession == 0
Call == 1 .. MaxCalls

VARIABLES
    pc,        \* where the client is
    op,        \* the number of the call made last
    tries,     \* see above
    req,       \* the call's request as its buffer holds it
    session,   \* c->session
    sequence,  \* c->sequence
    up,        \* c->fd is connected
    alive,     \* sessions the server knows
    slot,      \* slot[s]: last sequence id the server has executed in session s
    delayed,   \* requests of given-up connections that may still be executed
    executed,  \* executed[o]: how often the server has executed call o
    reported,  \* calls that returned OK
    faults     \* things that went wrong so far

client == <<pc, op, tries, req, session, sequence, up>>
server == <<alive, slot, executed>>
vars   == <<client, server, delayed, reported, faults>>

Sessions == 1 .. Len(slot)

Request == [op : 0 .. MaxCalls, session : Nat, seq : Nat, intact : BOOLEAN]

TypeOK ==
    /\ pc \in {"idle", "send", "connect", "exchange", "create", "create_again",
               "rootfh", "reclaim"}
    /\ op \in 0 .. MaxCalls
    /\ tries \in Seq({0, 1})
    /\ req \in Request
    /\ session \in Sessions \union {NoSession}
    /\ sequence \in Nat
    /\ up \in BOOLEAN
    /\ alive \subseteq Sessions
    /\ slot \in Seq(Nat)
    /\ delayed \subseteq Request
    /\ executed \in [Call -> Nat]
    /\ reported \subseteq Call
    /\ faults \in 0 .. MaxFaults

\* The client has been allocated and create_client() calls rpc_connection().
Init ==
    /\ pc = "connect" /\ op = 0 /\ tries = <<>>
    /\ req = [op |-> 0, session |-> NoSession, seq |-> 0, intact |-> TRUE]
    /\ session = NoSession /\ sequence = 0 /\ up = FALSE
    /\ alive = {} /\ slot = <<>>
    /\ delayed = {} /\ executed = [o \in Call |-> 0] /\ reported = {}
    /\ faults = 0

Fault == faults < MaxFaults /\ faults' = faults + 1

-----------------------------------------------------------------------------
\* The server.

\* What SEQUENCE makes of a request.  A request whose RPC header was overwritten
\* never gets that far: its verifier length and credential make no sense.
Verdict(r) ==
    IF ~r.intact THEN "error"
    ELSE IF r.session \notin alive THEN "badsession"
    ELSE IF r.seq = slot[r.session] + 1 THEN "execute"
    ELSE IF r.seq = slot[r.session] /\ ServerCaches THEN "cached"
    ELSE "error"

\* The effect of a request on the server.
Process(r) ==
    IF Verdict(r) = "execute"
    THEN /\ slot' = [slot EXCEPT ![r.session] = r.seq]
         /\ executed' = IF r.op \in Call
                        THEN [executed EXCEPT ![r.op] = @ + 1] ELSE executed
         /\ UNCHANGED alive
    ELSE UNCHANGED server

\* MUTANT parse_rpc() does not look at the status of the compound
ParseRpcTrusting(v) ==
    CASE v = "badsession" -> {"again"} [] OTHER -> {"ok"}

\* What base_transact() and transact() make of the reply: a cached one answers
\* an older request, which may or may not have had the operation looked for.
ParseRpc(v) ==
    CASE v = "execute"    -> {"ok"}
      [] v = "cached"     -> {"ok", "failed"}
      [] v = "error"      -> {"failed"}
      [] v = "badsession" -> {"again"}

\* The compound with the given op that push_sequence starts now.
Sequenced(o) == [op |-> o, session |-> session, seq |-> sequence, intact |-> TRUE]

-----------------------------------------------------------------------------
\* Returning.  An error inside rpc_connection is returned by every transact
\* under way.

Return(ok) ==
    /\ pc' = "idle"
    /\ tries' = <<>>
    /\ reported' = IF ok THEN reported \union {op} ELSE reported

\* A request that transact() has to repeat: connect first.
Reconnect == pc' = "connect" /\ UNCHANGED <<tries, reported>>

-----------------------------------------------------------------------------
\* A call.

\* The caller builds its request: push_sequence takes the next sequence id.
MakeCall ==
    /\ pc = "idle"
    /\ op < MaxCalls
    /\ op' = op + 1
    /\ req' = Sequenced(op + 1)
    /\ sequence' = sequence + 1
    /\ tries' = <<0>>
    /\ pc' = "send"
    /\ UNCHANGED <<session, up, server, delayed, reported, faults>>

\* base_transact, and the reply arrives.  Only BADSESSION makes transact() go on.
Answered ==
    /\ pc = "send" /\ up
    /\ Process(req)
    /\ \/ "ok" \in ParseRpc(Verdict(req)) /\ Return(TRUE)
       \/ "failed" \in ParseRpc(Verdict(req)) /\ Return(FALSE)
       \/ "again" \in ParseRpc(Verdict(req)) /\ Reconnect
    /\ UNCHANGED <<op, req, session, sequence, up, delayed, faults>>

\* The write fails, or no reply comes: the request was executed, or lost, or is
\* still on its way.
Cut ==
    /\ pc = "send" /\ up
    /\ Fault
    /\ \/ Process(req) /\ UNCHANGED delayed
       \/ UNCHANGED <<server, delayed>>
       \/ delayed' = delayed \union {req} /\ UNCHANGED server
    /\ up' = FALSE
    /\ Reconnect
    /\ UNCHANGED <<op, req, session, sequence>>

\* MUTANT rpc_send() does not look at what write() returns
UnsentUnnoticed ==
    /\ pc = "send" /\ ~up
    /\ UNCHANGED vars

\* There is no connection to write to.
Unsent ==
    /\ pc = "send" /\ ~up
    /\ Reconnect
    /\ UNCHANGED <<op, req, session, sequence, up, server, delayed, faults>>

-----------------------------------------------------------------------------
\* rpc_connection().

Connect ==
    /\ pc = "connect"
    /\ \/ /\ up' = TRUE /\ pc' = "exchange"
          /\ UNCHANGED <<tries, reported, faults>>
       \/ /\ Fault /\ up' = FALSE /\ Return(FALSE)
    /\ UNCHANGED <<op, req, session, sequence, server, delayed>>

\* exchange_id(), and the first lines of create_session(): the sequence id of the
\* session to come, set before there is one.
Exchange ==
    /\ pc = "exchange"
    /\ \/ /\ pc' = "create"
          /\ tries' = Append(tries, 0)
          /\ sequence' = 1
          /\ UNCHANGED <<up, reported, faults>>
       \/ /\ Fault /\ up' \in BOOLEAN /\ Return(FALSE)
          /\ UNCHANGED sequence
    /\ UNCHANGED <<op, req, session, server, delayed>>

NewSession ==
    /\ slot' = Append(slot, 0)
    /\ alive' = alive \union {Len(slot) + 1}
    /\ UNCHANGED executed

\* CREATE_SESSION is answered: with a session or with an error.
Create ==
    /\ pc = "create"
    /\ \/ /\ NewSession
          /\ session' = Len(slot) + 1
          /\ tries' = SubSeq(tries, 1, Len(tries) - 1)
          /\ pc' = "rootfh"
          /\ UNCHANGED <<reported, faults>>
       \/ /\ Fault /\ Return(FALSE)
          /\ UNCHANGED <<session, server>>
    /\ UNCHANGED <<op, req, sequence, up, delayed>>

\* No reply to CREATE_SESSION: its transact() calls rpc_connection() again.
CreateCut ==
    /\ pc = "create"
    /\ Fault
    /\ NewSession \/ UNCHANGED server
    /\ up' = FALSE
    /\ Reconnect
    /\ UNCHANGED <<op, req, session, sequence, delayed>>

\* The inner rpc_connection() has succeeded and CREATE_SESSION is repeated, from
\* the buffer that also takes the replies: all of the last one, to
\* RECLAIM_COMPLETE, has been read, so that the request has length 0.  Nothing
\* is sent and no reply comes until the connection breaks.
CreateAgain ==
    /\ pc = "create_again"
    /\ Fault
    /\ up' = FALSE
    /\ Reconnect
    /\ UNCHANGED <<op, req, session, sequence, server, delayed>>

\* get_root_fh()
RootFh ==
    /\ pc = "rootfh"
    /\ \/ /\ Process(Sequenced(0))
          /\ IF Verdict(Sequenced(0)) = "execute"
             THEN pc' = "reclaim" /\ UNCHANGED <<tries, reported>>
             ELSE Return(FALSE)
          /\ UNCHANGED <<up, faults>>
       \/ /\ Fault /\ up' \in BOOLEAN /\ Return(FALSE)
          /\ Process(Sequenced(0)) \/ UNCHANGED server
    /\ sequence' = sequence + 1
    /\ UNCHANGED <<op, req, session, delayed>>

-----------------------------------------------------------------------------
\* replay_rpc(): where the session id and the sequence id are patched in.

\* framing to stamp, the machine name, uid to the verifier, tag to the operation
\* count, and the number of the SEQUENCE operation.
SessionOffset == 4 * 10 + (4 + 16) + 4 * 5 + 4 * 3 + 4

\* MUTANT the patch goes where the session id is
PatchOffsetRight == SessionOffset

PatchOffset == 4 * 15

Replayed(r, seq) ==
    IF PatchOffset = SessionOffset
    THEN [r EXCEPT !.session = session, !.seq = seq]
    ELSE [r EXCEPT !.intact = FALSE]

Innermost == Len(tries)

\* The innermost transact() is that of a call, not of CREATE_SESSION; op = 0 is
\* create_client().
OfCall == Innermost = 1 /\ op # 0

\* MUTANT one more try
MaxTriesThree == 3

MaxTries == 2

\* transact() after rpc_connection() and replay_rpc(): once more, or out of tries.
Retry ==
    IF tries[Innermost] + 1 < MaxTries
    THEN /\ tries' = [tries EXCEPT ![Innermost] = @ + 1]
         /\ pc' = IF OfCall THEN "send" ELSE "create_again"
         /\ UNCHANGED reported
    ELSE Return(FALSE)

\* reclaim_complete() ends rpc_connection(); a transact() that waits for it
\* replays its request, once.  The server may refuse RECLAIM_COMPLETE, and
\* then the call fails though a session exists.
Reclaim ==
    /\ pc = "reclaim"
    /\ \/ /\ Process(Sequenced(0))
          /\ Verdict(Sequenced(0)) = "execute"
          /\ IF tries = <<>>
             THEN Return(FALSE) /\ sequence' = sequence + 1 /\ UNCHANGED req
             ELSE /\ sequence' = sequence + 2
                  /\ req' = IF OfCall THEN Replayed(req, sequence + 1) ELSE req
                  /\ Retry
          /\ UNCHANGED <<up, faults>>
       \/ /\ Process(Sequenced(0))
          /\ Verdict(Sequenced(0)) # "execute"
          /\ Return(FALSE)
          /\ sequence' = sequence + 1
          /\ UNCHANGED <<req, up, faults>>
       \/ /\ Fault /\ up' \in BOOLEAN /\ Return(FALSE)
          /\ Process(Sequenced(0)) \/ UNCHANGED server
          /\ sequence' = sequence + 1
          /\ UNCHANGED req
    /\ UNCHANGED <<op, session, delayed>>

-----------------------------------------------------------------------------
\* Around the client.

\* The server drops a session.
Expire ==
    /\ Fault
    /\ \E s \in alive : alive' = alive \ {s}
    /\ UNCHANGED <<client, slot, executed, delayed, reported>>

\* The server gets to a request of a connection the client has given up.
ExecuteLate ==
    /\ \E r \in delayed : Process(r) /\ delayed' = delayed \ {r}
    /\ UNCHANGED <<client, reported, faults>>

Step ==
    \/ Answered \/ Cut \/ Unsent
    \/ Connect \/ Exchange \/ Create \/ CreateCut \/ RootFh \/ Reclaim

Next == MakeCall \/ Step \/ CreateAgain \/ Expire \/ ExecuteLate

Spec == Init /\ [][Next]_vars

\* A thread in a call runs on, and each request that was sent is answered or
\* reported lost.  Nothing is promised to one that was not sent (CreateAgain).
FairSpec == Spec /\ WF_vars(Step)

-----------------------------------------------------------------------------
\* Properties.

\* The server executes no call twice, though transact() repeats a request whose
\* first copy may have been executed, or may be executed later.
AtMostOnce == \A o \in Call : executed[o] <= 1

\* A call that returned OK was executed.  The reply is matched by its xid only,
\* and the sequence ids of a session may start again.
OkMeansExecuted == \A o \in reported : executed[o] >= 1

\* Every call returns, and so does create_client(), although each of the two tries
\* may go through rpc_connection(), which goes through transact() itself; except
\* where CREATE_SESSION is replayed, which waits for a reply to nothing.
CallsReturn == pc # "idle" ~> pc \in {"idle", "create_again"}

\* A request that waits on a given-up connection is never answered for, and the
\* call it belongs to does not succeed by another copy.
DelayedNotReported == \A r \in delayed : r.op \notin reported

-----------------------------------------------------------------------------
\* Why the first three hold: the inductive invariant.

\* The buffer holds the request of the last call, which has not returned OK before
\* the client is idle again; calls yet to come have left no trace.
OwnRequest ==
    /\ req.op = op
    /\ pc = "send" => op \in Call
    /\ pc # "idle" => op \notin reported
    /\ \A o \in Call : o > op => executed[o] = 0
    /\ \A o \in reported : o <= op
    /\ \A r \in delayed : r.op \in 1 .. op

\* A request on its way whose header is whole is the first copy: it was executed
\* neither itself nor as another.
FirstCopy ==
    /\ pc = "send" /\ req.intact =>
           executed[op] = 0 /\ \A r \in delayed : r.op # op
    /\ \A r \in delayed : r.intact => executed[r.op] = 0
    /\ \A r, s \in delayed : r.intact /\ s.intact /\ r.op = s.op => r = s

IInv == TypeOK /\ OwnRequest /\ FirstCopy /\ AtMostOnce /\ DelayedNotReported

-----------------------------------------------------------------------------
\* What the comments of rpc.c promise and the code does not keep.

\* rpc.c:392 "framer + xid + call + [...] + verf + verf2, tag + minor + opcount +
\* sequence op": what replay_rpc() patches is the session of the SEQUENCE.
ReplayInSession ==
    pc = "send" /\ tries = <<1>> => req.intact /\ req.session = session
=============================================================================
