--------------------------- MODULE RpcSessionProofs ---------------------------
(***************************************************************************)
(* The theorems about RpcSession, for any number of calls and of faults.   *)
(***************************************************************************)
EXTENDS RpcSession, SequenceTheorems, TLAPS

-----------------------------------------------------------------------------
\* The server: only an intact request of a session that lives is executed.
LEMMA VerdictExecute ==
    ASSUME TypeOK, NEW r \in Request, Verdict(r) = "execute"
    PROVE  r.intact /\ r.session \in alive /\ r.session \in Sessions
BY DEF TypeOK, Verdict

\* The types of what the server keeps, whatever it makes of a request.
LEMMA ProcessType ==
    ASSUME TypeOK, NEW r \in Request, Process(r)
    PROVE  /\ slot' \in Seq(Nat) /\ Len(slot') = Len(slot)
           /\ executed' \in [Call -> Nat]
           /\ alive' = alive
<1>1. CASE Verdict(r) = "execute"
  <2>1. slot \in Seq(Nat) /\ r.session \in 1 .. Len(slot) /\ r.seq \in Nat
    BY <1>1, VerdictExecute DEF TypeOK, Request, Sessions
  <2>2. slot' = [slot EXCEPT ![r.session] = r.seq] /\ alive' = alive
    BY <1>1 DEF Process
  <2>3. slot' \in Seq(Nat) /\ Len(slot') = Len(slot)
    BY <2>1, <2>2, ExceptSeq
  <2>4. executed' \in [Call -> Nat]
    <3>1. executed \in [Call -> Nat]
      BY DEF TypeOK
    <3>2. executed' = IF r.op \in Call THEN [executed EXCEPT ![r.op] = @ + 1] ELSE executed
      BY <1>1 DEF Process
    <3>. QED
      BY <3>1, <3>2
  <2>. QED
    BY <2>2, <2>3, <2>4
<1>2. CASE Verdict(r) # "execute"
  BY <1>2 DEF TypeOK, Process, server
<1>. QED
  BY <1>1, <1>2

\* A request of the connection itself executes no call.
LEMMA ProcessOwn ==
    ASSUME TypeOK, NEW r \in Request, r.op = 0, Process(r)
    PROVE  executed' = executed
BY DEF Process, server, Call

\* A request executes its call once more or nothing.
LEMMA ProcessEffect ==
    ASSUME TypeOK, NEW r \in Request, Process(r)
    PROVE  \/ executed' = executed
           \/ /\ Verdict(r) = "execute" /\ r.intact /\ r.op \in Call
              /\ executed' = [executed EXCEPT ![r.op] = @ + 1]
BY VerdictExecute DEF Process, server

\* A request in flight and one about to be built are requests.
LEMMA SequencedType ==
    ASSUME TypeOK, NEW o \in 0 .. MaxCalls
    PROVE  Sequenced(o) \in Request
BY DEF TypeOK, Sequenced, Request, Sessions, NoSession

\* The offset replay_rpc() uses is not that of the session id: what it patches is
\* damaged.
LEMMA ReplayedDamaged ==
    ASSUME TypeOK, NEW seq \in Nat
    PROVE  /\ Replayed(req, seq) \in Request
           /\ Replayed(req, seq).op = req.op
           /\ ~Replayed(req, seq).intact
<1>1. PatchOffset # SessionOffset
  BY DEF PatchOffset, SessionOffset
<1>. QED
  BY <1>1 DEF Replayed, Request, TypeOK

\* A stack of try counters stays one.
LEMMA TriesType ==
    ASSUME TypeOK
    PROVE  /\ Append(tries, 0) \in Seq({0, 1})
           /\ SubSeq(tries, 1, Len(tries) - 1) \in Seq({0, 1})
           /\ <<>> \in Seq({0, 1}) /\ <<0>> \in Seq({0, 1})
           /\ tries # <<>> => [tries EXCEPT ![Innermost] = 1] \in Seq({0, 1})
<1>1. tries \in Seq({0, 1})
  BY DEF TypeOK
<1>2. SubSeq(tries, 1, Len(tries) - 1) \in Seq({0, 1})
  <2>1. /\ 1 \in Int /\ Len(tries) - 1 \in Int
        /\ \A i \in 1 .. Len(tries) - 1 : tries[i] \in {0, 1}
    BY <1>1
  <2>. QED
    BY <2>1, SubSeqProperties
<1>3. ASSUME tries # <<>> PROVE [tries EXCEPT ![Innermost] = 1] \in Seq({0, 1})
  <2>1. Innermost \in 1 .. Len(tries)
    BY <1>1, <1>3, EmptySeq DEF Innermost
  <2>. QED
    BY <1>1, <2>1, ExceptSeq
<1>. QED
  BY <1>1, <1>2, <1>3

\* What the end of a call leaves.
LEMMA RetryType ==
    ASSUME TypeOK, tries # <<>>, Retry
    PROVE  /\ tries' \in Seq({0, 1}) /\ pc' \in {"idle", "send", "create_again"}
           /\ reported' = reported
           /\ pc' = "send" => OfCall
<1>1. tries[Innermost] \in {0, 1}
  <2>1. Innermost \in 1 .. Len(tries) /\ tries \in Seq({0, 1})
    BY EmptySeq DEF Innermost, TypeOK
  <2>. QED
    BY <2>1
<1>2. CASE tries[Innermost] = 0
  BY <1>2, TriesType DEF Retry, MaxTries
<1>3. CASE tries[Innermost] = 1
  BY <1>3, TriesType DEF Retry, MaxTries, Return
<1>. QED
  BY <1>1, <1>2, <1>3

\* Faults are counted up to their bound.
LEMMA FaultType ==
    ASSUME TypeOK, UNCHANGED faults \/ Fault
    PROVE  faults' \in 0 .. MaxFaults
BY BoundAssumption DEF TypeOK, Fault

LEMMA NewSessionType ==
    ASSUME TypeOK, NewSession
    PROVE  /\ slot' \in Seq(Nat) /\ Len(slot') = Len(slot) + 1
           /\ alive' \subseteq 1 .. Len(slot')
           /\ executed' = executed
<1>1. slot \in Seq(Nat) /\ slot' = Append(slot, 0)
  BY DEF TypeOK, NewSession
<1>2. slot' \in Seq(Nat) /\ Len(slot') = Len(slot) + 1 /\ Len(slot) \in Nat
  BY <1>1
<1>3. alive \subseteq 1 .. Len(slot) /\ alive' = alive \union {Len(slot) + 1}
  BY DEF TypeOK, Sessions, NewSession
<1>4. executed' = executed
  BY DEF NewSession
<1>5. ASSUME NEW s \in alive' PROVE s \in 1 .. Len(slot) + 1
  <2>1. s \in 1 .. Len(slot) \/ s = Len(slot) + 1
    BY <1>3
  <2>. QED
    BY <1>2, <2>1
<1>. QED
  BY <1>2, <1>4, <1>5

-----------------------------------------------------------------------------
\* Every action keeps the types, and that of the request in the buffer.
LEMMA TypeStep ==
    ASSUME TypeOK, OwnRequest, [Next]_vars
    PROVE  TypeOK'
<1>. USE DEF TypeOK, Sessions, NoSession
<1>1. CASE MakeCall
  <2>1. op' \in 0 .. MaxCalls
    BY <1>1, BoundAssumption DEF MakeCall
  <2>2. req' \in Request
    BY <1>1, <2>1, SequencedType DEF MakeCall
  <2>. QED
    BY <1>1, <2>1, <2>2, TriesType DEF MakeCall, server
<1>2. CASE Answered
  <2>1. /\ slot' \in Seq(Nat) /\ Len(slot') = Len(slot)
        /\ executed' \in [Call -> Nat] /\ alive' = alive
    BY <1>2, ProcessType DEF Answered
  <2>2. /\ reported' \subseteq Call /\ tries' \in Seq({0, 1})
        /\ pc' \in {"idle", "connect"}
    BY <1>2, TriesType DEF Answered, Return, Reconnect, OwnRequest
  <2>. QED
    BY <1>2, <2>1, <2>2 DEF Answered
<1>3. CASE Cut
  <2>1. /\ slot' \in Seq(Nat) /\ Len(slot') = Len(slot)
        /\ executed' \in [Call -> Nat] /\ alive' = alive
    BY <1>3, ProcessType DEF Cut, server
  <2>2. delayed' \subseteq Request
    BY <1>3 DEF Cut
  <2>3. faults' \in 0 .. MaxFaults
    BY <1>3, FaultType DEF Cut
  <2>. QED
    BY <1>3, <2>1, <2>2, <2>3 DEF Cut, Reconnect
<1>4. CASE Unsent
  BY <1>4 DEF Unsent, Reconnect, server
<1>5. CASE Connect
  <2>1. faults' \in 0 .. MaxFaults
    BY <1>5, FaultType DEF Connect
  <2>. QED
    BY <1>5, <2>1, TriesType DEF Connect, Return, server
<1>6. CASE Exchange
  <2>1. faults' \in 0 .. MaxFaults
    BY <1>6, FaultType DEF Exchange
  <2>2. /\ reported' = reported /\ tries' \in Seq({0, 1}) /\ sequence' \in Nat
        /\ pc' \in {"idle", "create"} /\ up' \in BOOLEAN
    <3>1. CASE /\ pc' = "create" /\ tries' = Append(tries, 0) /\ sequence' = 1
               /\ UNCHANGED <<up, reported>>
      BY <3>1, TriesType
    <3>2. CASE Return(FALSE) /\ up' \in BOOLEAN /\ UNCHANGED sequence
      BY <3>2, TriesType DEF Return
    <3>. QED
      BY <1>6, <3>1, <3>2 DEF Exchange
  <2>. QED
    BY <1>6, <2>1, <2>2 DEF Exchange, server
<1>7. CASE Create
  <2>1. faults' \in 0 .. MaxFaults
    BY <1>7, FaultType DEF Create
  <2>2. /\ slot' \in Seq(Nat) /\ alive' \subseteq 1 .. Len(slot')
        /\ session' \in 1 .. Len(slot') \union {0} /\ executed' \in [Call -> Nat]
    <3>1. CASE NewSession /\ session' = Len(slot) + 1
      BY <3>1, NewSessionType
    <3>2. CASE UNCHANGED <<session, server>>
      BY <3>2 DEF server
    <3>. QED
      BY <1>7, <3>1, <3>2 DEF Create
  <2>. QED
    BY <1>7, <2>1, <2>2, TriesType DEF Create, Return
<1>8. CASE CreateCut
  <2>1. faults' \in 0 .. MaxFaults
    BY <1>8, FaultType DEF CreateCut
  <2>2. /\ slot' \in Seq(Nat) /\ alive' \subseteq 1 .. Len(slot')
        /\ session' \in 1 .. Len(slot') \union {0} /\ executed' \in [Call -> Nat]
    <3>1. CASE NewSession /\ session' = session
      BY <3>1, NewSessionType
    <3>2. CASE UNCHANGED <<session, server>>
      BY <3>2 DEF server
    <3>. QED
      BY <1>8, <3>1, <3>2 DEF CreateCut
  <2>. QED
    BY <1>8, <2>1, <2>2 DEF CreateCut, Reconnect
<1>9. CASE CreateAgain
  <2>1. faults' \in 0 .. MaxFaults
    BY <1>9, FaultType DEF CreateAgain
  <2>. QED
    BY <1>9, <2>1 DEF CreateAgain, Reconnect, server
<1>10. CASE RootFh
  <2>1. faults' \in 0 .. MaxFaults
    BY <1>10, FaultType DEF RootFh
  <2>2. /\ slot' \in Seq(Nat) /\ Len(slot') = Len(slot)
        /\ executed' \in [Call -> Nat] /\ alive' = alive
    <3>1. Sequenced(0) \in Request
      BY SequencedType, BoundAssumption
    <3>. QED
      BY <1>10, <3>1, ProcessType DEF RootFh, server
  <2>3. /\ reported' = reported /\ tries' \in Seq({0, 1})
        /\ pc' \in {"idle", "reclaim"} /\ up' \in BOOLEAN
    BY <1>10, TriesType DEF RootFh, Return
  <2>. QED
    BY <1>10, <2>1, <2>2, <2>3 DEF RootFh
<1>11. CASE Reclaim
  <2>1. faults' \in 0 .. MaxFaults
    BY <1>11, FaultType DEF Reclaim
  <2>2. /\ slot' \in Seq(Nat) /\ Len(slot') = Len(slot)
        /\ executed' \in [Call -> Nat] /\ alive' = alive
    <3>1. Sequenced(0) \in Request
      BY SequencedType, BoundAssumption
    <3>. QED
      BY <1>11, <3>1, ProcessType DEF Reclaim, server
  <2>3. /\ reported' = reported /\ tries' \in Seq({0, 1})
        /\ pc' \in {"idle", "send", "create_again"} /\ up' \in BOOLEAN
    BY <1>11, TriesType, RetryType DEF Reclaim, Return
  <2>4. req' \in Request /\ sequence' \in Nat
    <3>1. sequence + 1 \in Nat /\ sequence + 2 \in Nat /\ Replayed(req, sequence + 1) \in Request
      BY ReplayedDamaged
    <3>2. /\ req' \in {req, Replayed(req, sequence + 1)}
          /\ sequence' \in {sequence + 1, sequence + 2}
      BY <1>11 DEF Reclaim
    <3>. QED
      BY <3>1, <3>2
  <2>. QED
    BY <1>11, <2>1, <2>2, <2>3, <2>4 DEF Reclaim
<1>12. CASE Expire
  <2>1. faults' \in 0 .. MaxFaults
    BY <1>12, FaultType DEF Expire
  <2>. QED
    BY <1>12, <2>1 DEF Expire, client
<1>13. CASE ExecuteLate
  <2>1. /\ slot' \in Seq(Nat) /\ Len(slot') = Len(slot)
        /\ executed' \in [Call -> Nat] /\ alive' = alive
    BY <1>13, ProcessType DEF ExecuteLate
  <2>. QED
    BY <1>13, <2>1 DEF ExecuteLate, client
<1>14. CASE UNCHANGED vars
  BY <1>14 DEF vars, client, server
<1>. QED
  BY <1>1, <1>2, <1>3, <1>4, <1>5, <1>6, <1>7, <1>8, <1>9, <1>10, <1>11, <1>12, <1>13,
     <1>14 DEF Next, Step

-----------------------------------------------------------------------------
\* Steps within rpc_connection(), and those of the server that execute nothing, leave
\* the traces of all calls alone; they come back to a call with a damaged request only.
LEMMA QuietStep ==
    ASSUME IInv,
           executed' = executed, delayed' = delayed, reported' = reported, op' = op,
           req'.op = req.op,
           pc' # "idle" => pc # "idle",
           pc' = "send" => op \in Call /\ ~req'.intact
    PROVE  OwnRequest' /\ FirstCopy' /\ AtMostOnce' /\ DelayedNotReported'
<1>1. OwnRequest'
  BY DEF IInv, OwnRequest
<1>2. FirstCopy'
  BY DEF IInv, FirstCopy
<1>3. AtMostOnce' /\ DelayedNotReported'
  BY DEF IInv, AtMostOnce, DelayedNotReported
<1>. QED
  BY <1>1, <1>2, <1>3

\* The connection's own requests are quiet.
LEMMA ConnectionQuiet ==
    ASSUME IInv, RootFh \/ Reclaim
    PROVE  OwnRequest' /\ FirstCopy' /\ AtMostOnce' /\ DelayedNotReported'
<1>1. TypeOK /\ Sequenced(0) \in Request /\ Sequenced(0).op = 0
  BY SequencedType, BoundAssumption DEF IInv, Sequenced
<1>2. executed' = executed
  BY <1>1, ProcessOwn DEF RootFh, Reclaim, server
<1>3. CASE RootFh
  <2>1. pc' # "send" /\ pc = "rootfh" /\ reported' = reported
    BY <1>3 DEF RootFh, Return
  <2>. QED
    BY <1>2, <1>3, <2>1, QuietStep DEF RootFh
<1>4. CASE Reclaim
  <2>1. CASE pc' = "send"
    <3>1. tries # <<>> /\ Retry /\ req' = IF OfCall THEN Replayed(req, sequence + 1) ELSE req
      BY <1>4, <2>1 DEF Reclaim, Return
    <3>2. OfCall /\ reported' = reported
      BY <1>1, <2>1, <3>1, RetryType
    <3>3. sequence + 1 \in Nat /\ op \in Call
      BY <1>1, <3>2 DEF TypeOK, OfCall, Call
    <3>4. ~req'.intact /\ req'.op = req.op
      BY <1>1, <3>1, <3>2, <3>3, ReplayedDamaged
    <3>. QED
      BY <1>2, <1>4, <3>2, <3>3, <3>4, QuietStep DEF Reclaim
  <2>2. CASE pc' # "send"
    <3>1. pc = "reclaim" /\ op' = op /\ delayed' = delayed
      BY <1>4 DEF Reclaim
    <3>2. reported' = reported
      BY <1>1, <1>4, RetryType DEF Reclaim, Return
    <3>3. req'.op = req.op
      <4>1. sequence + 1 \in Nat /\ req' \in {req, Replayed(req, sequence + 1)}
        <5>1. sequence \in Nat
          BY <1>1 DEF TypeOK
        <5>2. req' \in {req, Replayed(req, sequence + 1)}
          BY <1>4 DEF Reclaim
        <5>. QED
          BY <5>1, <5>2
      <4>. QED
        BY <1>1, <4>1, ReplayedDamaged
    <3>. QED
      BY <1>2, <2>2, <3>1, <3>2, <3>3, QuietStep
  <2>. QED
    BY <2>1, <2>2
<1>. QED
  BY <1>3, <1>4

\* A new call's request is whole, and nothing is known of the call.
LEMMA MakeCallStep ==
    ASSUME IInv, MakeCall
    PROVE  OwnRequest' /\ FirstCopy' /\ AtMostOnce' /\ DelayedNotReported'
<1>1. /\ op \in Nat /\ op' = op + 1 /\ op' \in Call /\ op' > op
      /\ req'.op = op' /\ executed' = executed /\ delayed' = delayed /\ reported' = reported
  BY BoundAssumption DEF IInv, TypeOK, MakeCall, Call, Sequenced, server
<1>2. /\ executed[op'] = 0 /\ op' \notin reported
      /\ \A r \in delayed : r.op # op' /\ r.op \in 1 .. op'
      /\ \A o \in Call : o > op' => executed[o] = 0
      /\ \A o \in reported : o <= op'
  <2>1. reported \subseteq Call /\ delayed \subseteq Request
    BY DEF IInv, TypeOK
  <2>. QED
    BY <1>1, <2>1 DEF IInv, OwnRequest, Call, Request
<1>3. OwnRequest'
  BY <1>1, <1>2 DEF OwnRequest
<1>4. FirstCopy'
  BY <1>1, <1>2 DEF IInv, FirstCopy
<1>5. AtMostOnce' /\ DelayedNotReported'
  BY <1>1 DEF IInv, AtMostOnce, DelayedNotReported
<1>. QED
  BY <1>3, <1>4, <1>5

\* A request that is executed in its call is the first copy of it.
LEMMA SentStep ==
    ASSUME IInv, pc = "send", Process(req), pc' # "send",
           op' = op, req' = req, delayed' = delayed,
           \/ reported' = reported
           \/ reported' = reported \union {op} /\ req.intact /\ pc' = "idle"
    PROVE  OwnRequest' /\ FirstCopy' /\ AtMostOnce' /\ DelayedNotReported'
<1>1. /\ TypeOK /\ req \in Request /\ req.op = op /\ op \in Call /\ op \in Nat
      /\ executed \in [Call -> Nat] /\ delayed \subseteq Request /\ reported \subseteq Call
  BY DEF IInv, TypeOK, OwnRequest
<1>2. \/ executed' = executed
      \/ req.intact /\ executed' = [executed EXCEPT ![op] = @ + 1]
  BY <1>1, ProcessEffect
<1>3. req.intact => executed[op] = 0 /\ \A r \in delayed : r.op # op
  BY DEF IInv, FirstCopy
<1>4. \A o \in Call : o # op => executed'[o] = executed[o]
  BY <1>1, <1>2
<1>5. OwnRequest'
  <2>1. \A o \in Call : o > op => o # op
    BY <1>1, BoundAssumption DEF Call
  <2>2. \A o \in Call : o > op => executed'[o] = 0
    BY <1>4, <2>1 DEF IInv, OwnRequest
  <2>3. \A o \in reported' : o <= op
    <3>1. reported' \subseteq reported \union {op}
      OBVIOUS
    <3>2. op <= op /\ \A o \in reported : o <= op
      BY <1>1 DEF IInv, OwnRequest
    <3>. QED
      BY <3>1, <3>2
  <2>4. pc' # "idle" => op \notin reported'
    BY DEF IInv, OwnRequest
  <2>. QED
    BY <2>2, <2>3, <2>4 DEF IInv, OwnRequest
<1>6. FirstCopy'
  <2>1. \A r \in delayed : r.op \in Call
    <3>1. \A r \in delayed : r.op \in 1 .. op
      BY DEF IInv, OwnRequest
    <3>. QED
      BY <1>1, <3>1, BoundAssumption DEF Call
  <2>2. \A r \in delayed : r.intact => executed'[r.op] = 0
    <3>1. CASE executed' = executed
      BY <3>1 DEF IInv, FirstCopy
    <3>2. CASE req.intact
      BY <1>3, <1>4, <2>1, <3>2 DEF IInv, FirstCopy
    <3>. QED
      BY <1>2, <3>1, <3>2
  <2>. QED
    BY <2>2 DEF IInv, FirstCopy
<1>7. AtMostOnce'
  <2>1. executed'[op] <= 1
    BY <1>1, <1>2, <1>3 DEF IInv, AtMostOnce
  <2>. QED
    BY <1>4, <2>1 DEF IInv, AtMostOnce
<1>8. DelayedNotReported'
  BY <1>3 DEF IInv, DelayedNotReported
<1>. QED
  BY <1>5, <1>6, <1>7, <1>8

LEMMA AnsweredStep ==
    ASSUME IInv, Answered
    PROVE  OwnRequest' /\ FirstCopy' /\ AtMostOnce' /\ DelayedNotReported'
<1>1. "ok" \in ParseRpc(Verdict(req)) => req.intact
  <2>1. ~req.intact => Verdict(req) = "error"
    BY DEF Verdict
  <2>. QED
    BY <2>1 DEF ParseRpc
<1>2. /\ pc' # "send"
      /\ \/ reported' = reported
         \/ reported' = reported \union {op} /\ req.intact /\ pc' = "idle"
  BY <1>1 DEF Answered, Return, Reconnect
<1>. QED
  BY <1>2, SentStep DEF Answered

\* A request that was sent and lost is executed, forgotten, or the only copy on its way.
LEMMA CutStep ==
    ASSUME IInv, Cut
    PROVE  OwnRequest' /\ FirstCopy' /\ AtMostOnce' /\ DelayedNotReported'
<1>1. CASE Process(req) /\ delayed' = delayed
  BY <1>1, SentStep DEF Cut, Reconnect
<1>2. CASE UNCHANGED <<server, delayed>>
  BY <1>2, QuietStep DEF Cut, Reconnect, server
<1>3. CASE delayed' = delayed \union {req} /\ UNCHANGED server
  <2>1. /\ executed' = executed /\ reported' = reported /\ op' = op /\ req' = req
        /\ pc = "send" /\ pc' = "connect"
    BY <1>3 DEF Cut, Reconnect, server
  <2>2. req.op = op /\ op \in 1 .. op /\ op \notin reported
    BY <2>1 DEF IInv, OwnRequest, TypeOK, Call
  <2>3. OwnRequest'
    BY <1>3, <2>1, <2>2 DEF IInv, OwnRequest
  <2>4. FirstCopy'
    BY <1>3, <2>1, <2>2 DEF IInv, FirstCopy
  <2>5. AtMostOnce' /\ DelayedNotReported'
    BY <1>3, <2>1, <2>2 DEF IInv, AtMostOnce, DelayedNotReported
  <2>. QED
    BY <2>3, <2>4, <2>5
<1>. QED
  BY <1>1, <1>2, <1>3 DEF Cut

\* A late request that is executed was the only copy left.
LEMMA ExecuteLateStep ==
    ASSUME IInv, ExecuteLate
    PROVE  OwnRequest' /\ FirstCopy' /\ AtMostOnce' /\ DelayedNotReported'
<1>1. PICK r \in delayed : Process(r) /\ delayed' = delayed \ {r}
  BY DEF ExecuteLate
<1>2. /\ pc' = pc /\ op' = op /\ req' = req /\ reported' = reported
  BY DEF ExecuteLate, client
<1>3. /\ TypeOK /\ r \in Request /\ r.op \in 1 .. op /\ op \in Nat /\ r.op \in Nat
      /\ \A s \in delayed : s.op \in Call
      /\ executed \in [Call -> Nat] /\ delayed \subseteq Request
  <2>1. TypeOK /\ r.op \in 1 .. op /\ op \in Nat /\ op <= MaxCalls
        /\ \A s \in delayed : s.op \in 1 .. op
    BY BoundAssumption DEF IInv, TypeOK, OwnRequest
  <2>2. \A s \in delayed : s.op \in Call
    BY <2>1, BoundAssumption DEF Call
  <2>3. delayed \subseteq Request /\ executed \in [Call -> Nat]
    BY <2>1 DEF TypeOK
  <2>. QED
    BY <2>1, <2>2, <2>3
<1>4. \/ executed' = executed
      \/ r.intact /\ r.op \in Call /\ executed' = [executed EXCEPT ![r.op] = @ + 1]
  BY <1>1, <1>3, ProcessEffect
<1>5. r.intact => /\ executed[r.op] = 0
                  /\ \A s \in delayed' : s.intact => s.op # r.op
                  /\ ~(pc = "send" /\ req.intact /\ r.op = op)
  BY <1>1 DEF IInv, FirstCopy
<1>6. \A o \in Call : o # r.op => executed'[o] = executed[o]
  BY <1>3, <1>4
<1>7. OwnRequest'
  <2>1. \A o \in Call : o > op => executed'[o] = 0
    BY <1>3, <1>6 DEF IInv, OwnRequest, Call
  <2>. QED
    BY <1>1, <1>2, <2>1 DEF IInv, OwnRequest
<1>8. FirstCopy'
  <2>1. pc = "send" /\ req.intact => op \in Call /\ r.op # op
    BY DEF IInv, FirstCopy, OwnRequest
  <2>2. pc = "send" /\ req.intact => executed'[op] = 0
    BY <1>6, <2>1 DEF IInv, FirstCopy
  <2>3. \A s \in delayed' : s.intact => executed'[s.op] = 0
    BY <1>1, <1>3, <1>4, <1>5, <1>6 DEF IInv, FirstCopy
  <2>. QED
    BY <1>1, <1>2, <2>2, <2>3 DEF IInv, FirstCopy
<1>9. AtMostOnce'
  <2>1. r.op \in Call /\ executed'[r.op] <= 1
    BY <1>3, <1>4, <1>5 DEF IInv, AtMostOnce
  <2>. QED
    BY <1>6, <2>1 DEF IInv, AtMostOnce
<1>10. DelayedNotReported'
  BY <1>1, <1>2 DEF IInv, DelayedNotReported
<1>. QED
  BY <1>7, <1>8, <1>9, <1>10

-----------------------------------------------------------------------------
LEMMA InvStep == IInv /\ [Next]_vars => IInv'
<1>. SUFFICES ASSUME IInv, [Next]_vars PROVE IInv'
  OBVIOUS
<1>1. TypeOK'
  BY TypeStep DEF IInv
<1>2. OwnRequest' /\ FirstCopy' /\ AtMostOnce' /\ DelayedNotReported'
  <2>1. CASE MakeCall
    BY <2>1, MakeCallStep
  <2>2. CASE Answered
    BY <2>2, AnsweredStep
  <2>3. CASE Cut
    BY <2>3, CutStep
  <2>4. CASE Unsent
    BY <2>4, QuietStep DEF Unsent, Reconnect, server
  <2>5. CASE Connect
    BY <2>5, QuietStep DEF Connect, Return, server
  <2>6. CASE Exchange
    BY <2>6, QuietStep DEF Exchange, Return, server
  <2>7. CASE Create
    BY <2>7, QuietStep DEF Create, NewSession, Return, server
  <2>8. CASE CreateCut
    BY <2>8, QuietStep DEF CreateCut, NewSession, Reconnect, server
  <2>9. CASE CreateAgain
    BY <2>9, QuietStep DEF CreateAgain, Reconnect, server
  <2>10. CASE RootFh \/ Reclaim
    BY <2>10, ConnectionQuiet
  <2>11. CASE Expire
    BY <2>11 DEF Expire, client, IInv, OwnRequest, FirstCopy, AtMostOnce, DelayedNotReported
  <2>12. CASE ExecuteLate
    BY <2>12, ExecuteLateStep
  <2>13. CASE UNCHANGED vars
    BY <2>13 DEF vars, client, server, IInv, OwnRequest, FirstCopy, AtMostOnce,
                 DelayedNotReported
  <2>. QED
    BY <2>1, <2>2, <2>3, <2>4, <2>5, <2>6, <2>7, <2>8, <2>9, <2>10, <2>11, <2>12, <2>13
       DEF Next, Step
<1>. QED
  BY <1>1, <1>2 DEF IInv

LEMMA InvInit == Init => IInv
<1>. SUFFICES ASSUME Init PROVE IInv
  OBVIOUS
<1>1. TypeOK
  <2>1. req \in Request /\ op \in 0 .. MaxCalls /\ faults \in 0 .. MaxFaults
    BY BoundAssumption DEF Init, NoSession, Request
  <2>2. tries \in Seq({0, 1}) /\ slot \in Seq(Nat)
    BY EmptySeq DEF Init
  <2>3. executed \in [Call -> Nat]
    BY DEF Init
  <2>. QED
    BY <2>1, <2>2, <2>3 DEF Init, TypeOK, Sessions
<1>2. OwnRequest
  BY DEF Init, OwnRequest
<1>3. FirstCopy /\ AtMostOnce /\ DelayedNotReported
  BY DEF Init, FirstCopy, AtMostOnce, DelayedNotReported
<1>. QED
  BY <1>1, <1>2, <1>3 DEF IInv

\* IInv holds of every behaviour of the client and the server, whether or not the
\* server answers from a reply cache.
THEOREM Inductive == Spec => []IInv
<1>1. Init => IInv
  BY InvInit
<1>2. IInv /\ [Next]_vars => IInv'
  BY InvStep
<1>. QED
  BY <1>1, <1>2, PTL DEF Spec

\* The variables keep their types; the stack of try counters holds zeroes and ones.
THEOREM TypeCorrect == Spec => []TypeOK
<1>1. IInv => TypeOK
  BY DEF IInv
<1>. QED
  BY <1>1, Inductive, PTL

\* transact(): no call is executed twice, however often its request is repeated, its
\* connection breaks or a copy arrives late.
THEOREM AtMostOnceHolds == Spec => []AtMostOnce
<1>1. IInv => AtMostOnce
  BY DEF IInv
<1>. QED
  BY <1>1, Inductive, PTL

\* A call whose request still waits on a given-up connection has not returned OK.
THEOREM DelayedNotReportedHolds == Spec => []DelayedNotReported
<1>1. IInv => DelayedNotReported
  BY DEF IInv
<1>. QED
  BY <1>1, Inductive, PTL

-----------------------------------------------------------------------------
\* What the server has executed stays executed.
LEMMA ExecutedGrows ==
    ASSUME IInv, [Next]_vars
    PROVE  \A o \in Call : executed'[o] >= executed[o]
<1>1. TypeOK /\ executed \in [Call -> Nat] /\ Sequenced(0) \in Request
  BY SequencedType, BoundAssumption DEF IInv, TypeOK
<1>2. ASSUME NEW r \in Request, Process(r)
      PROVE  \A o \in Call : executed'[o] >= executed[o]
  <2>1. executed' = executed \/ (r.op \in Call /\ executed' = [executed EXCEPT ![r.op] = @ + 1])
    BY <1>1, <1>2, ProcessEffect
  <2>. QED
    BY <1>1, <2>1
<1>3. \/ executed' = executed
      \/ \E r \in Request : Process(r)
  <2>1. CASE Answered \/ Cut
    BY <1>1, <2>1 DEF Answered, Cut, TypeOK, server
  <2>2. CASE RootFh \/ Reclaim
    BY <1>1, <2>2 DEF RootFh, Reclaim, server
  <2>3. CASE ExecuteLate
    BY <1>1, <2>3 DEF ExecuteLate, TypeOK
  <2>4. CASE Create \/ CreateCut
    BY <2>4 DEF Create, CreateCut, NewSession, server
  <2>5. CASE MakeCall \/ Unsent \/ Connect \/ Exchange \/ CreateAgain \/ Expire
    BY <2>5 DEF MakeCall, Unsent, Connect, Exchange, CreateAgain, Expire, server
  <2>6. CASE UNCHANGED vars
    BY <2>6 DEF vars, server
  <2>. QED
    BY <2>1, <2>2, <2>3, <2>4, <2>5, <2>6 DEF Next, Step
<1>. QED
  BY <1>1, <1>2, <1>3

\* Only an answer that comes in the call itself makes it return OK.
LEMMA ReportedByAnswer ==
    ASSUME IInv, [Next]_vars, ~Answered
    PROVE  reported' = reported
<1>1. CASE Reclaim
  BY <1>1, RetryType DEF Reclaim, Return, IInv
<1>2. CASE Connect \/ Exchange \/ Create \/ RootFh
  BY <1>2 DEF Connect, Exchange, Create, RootFh, Return
<1>3. CASE MakeCall \/ Cut \/ Unsent \/ CreateCut \/ CreateAgain \/ Expire \/ ExecuteLate
  BY <1>3 DEF MakeCall, Cut, Unsent, CreateCut, CreateAgain, Expire, ExecuteLate, Reconnect
<1>4. CASE UNCHANGED vars
  BY <1>4 DEF vars
<1>. QED
  BY <1>1, <1>2, <1>3, <1>4 DEF Next, Step

\* transact(), parse_rpc(): a call that returned OK was executed, if the server answers
\* no repeated sequence id from a reply cache.
THEOREM OkMeansExecutedHolds ==
    ASSUME ServerCaches = FALSE
    PROVE  Spec => []OkMeansExecuted
<1>1. Init => OkMeansExecuted
  BY DEF Init, OkMeansExecuted
<1>2. IInv /\ OkMeansExecuted /\ [Next]_vars => OkMeansExecuted'
  <2>. SUFFICES ASSUME IInv, OkMeansExecuted, [Next]_vars PROVE OkMeansExecuted'
    OBVIOUS
  <2>1. /\ TypeOK /\ reported \subseteq Call /\ executed \in [Call -> Nat]
        /\ executed' \in [Call -> Nat]
    BY TypeStep DEF IInv, TypeOK
  <2>2. \A o \in reported : executed'[o] >= 1
    BY <2>1, ExecutedGrows DEF OkMeansExecuted
  <2>3. CASE reported' = reported
    BY <2>2, <2>3 DEF OkMeansExecuted
  <2>4. CASE reported' # reported
    <3>1. Answered
      BY <2>4, ReportedByAnswer
    <3>2. /\ reported' = reported \union {op} /\ "ok" \in ParseRpc(Verdict(req))
          /\ Process(req) /\ pc = "send"
      BY <2>4, <3>1 DEF Answered, Return, Reconnect
    <3>3. Verdict(req) = "execute"
      <4>1. Verdict(req) \in {"execute", "error", "badsession"}
        BY DEF Verdict
      <4>. QED
        BY <3>2, <4>1 DEF ParseRpc
    <3>4. req.op = op /\ op \in Call
      BY <3>2 DEF IInv, OwnRequest
    <3>5. executed' = [executed EXCEPT ![op] = @ + 1]
      BY <3>2, <3>3, <3>4 DEF Process
    <3>6. executed'[op] >= 1
      BY <2>1, <3>4, <3>5
    <3>. QED
      BY <2>2, <3>2, <3>6 DEF OkMeansExecuted
  <2>. QED
    BY <2>3, <2>4
<1>. QED
  BY <1>1, <1>2, Inductive, PTL DEF Spec
=============================================================================
