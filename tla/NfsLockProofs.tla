---------------------------- MODULE NfsLockProofs ----------------------------
(***************************************************************************)
(* The theorems about NfsLock, for any number of connections and client    *)
(* ids.                                                                    *)
(***************************************************************************)
EXTENDS NfsLock, TLAPS

-----------------------------------------------------------------------------
\* How a request ends keeps the types of the call's variables.
LEMMA CallTypes ==
    ASSUME TypeOK, NEW c \in Conn, pc[c] # "idle",
           Succeed(c) \/ Fail(c)
    PROVE  /\ pager' \in [Conn -> Level]
           /\ eFileLock' \in [Conn -> Level]
           /\ pc' \in [Conn -> {"idle"} \union LockPc \union UnlockPc]
<1>1. NextRequest(c) \in {"idle"} \union LockPc \union UnlockPc
  BY DEF NextRequest, LockPc, UnlockPc
<1>2. CASE Return(c, TRUE) \/ Return(c, FALSE)
  BY <1>2, SMTT(40) DEF TypeOK, Return
<1>3. CASE Continue(c, NextRequest(c))
  BY <1>1, <1>3 DEF TypeOK, Continue
<1>. QED
  BY <1>2, <1>3 DEF Succeed, Fail

LEMMA MarkType ==
    ASSUME TypeOK, NEW c \in Conn, fileid[c] \in ClientId, Mark(c)
    PROVE  held' \in [ClientId -> [Region -> Mode]]
<1>1. LockMode(c) \in Mode
  BY DEF LockMode, Mode
<1>2. [r \in Region |-> IF r \in Regions(c)
                        THEN IF IsLock(c) THEN LockMode(c) ELSE "none"
                        ELSE held[fileid[c]][r]] \in [Region -> Mode]
  BY <1>1 DEF TypeOK, Mode
<1>. QED
  BY <1>2 DEF TypeOK, Mark

\* Every variable keeps its type, whatever fails.
THEOREM TypeCorrect == Spec => []TypeOK
<1>1. Init => TypeOK
  BY DEF Init, TypeOK, Level, Mode, NoLocks, NO_LOCK
<1>2. TypeOK /\ [Next]_vars => TypeOK'
  <2>. SUFFICES ASSUME TypeOK, [Next]_vars PROVE TypeOK'
    OBVIOUS
  <2>1. ASSUME NEW c \in Conn, Executed(c) PROVE TypeOK'
    <3>1. fileid[c] \in ClientId
      BY <2>1 DEF Executed, Executable, Attached, TypeOK
    <3>. QED
      BY <2>1, <3>1, CallTypes, MarkType DEF Executed, TypeOK
  <2>2. ASSUME NEW c \in Conn, Refused(c) PROVE TypeOK'
    BY <2>2, CallTypes DEF Refused, TypeOK
  <2>3. ASSUME NEW c \in Conn, Severed(c) PROVE TypeOK'
    <3>1. held' \in [ClientId -> [Region -> Mode]]
      <4>1. CASE Executable(c) /\ Mark(c)
        <5>1. fileid[c] \in ClientId
          BY <4>1 DEF Executable, Attached, TypeOK
        <5>. QED
          BY <4>1, <5>1, MarkType
      <4>. QED
        BY <2>3, <4>1 DEF Severed, TypeOK
    <3>. QED
      BY <2>3, <3>1, CallTypes DEF Severed, TypeOK
  <2>4. ASSUME NEW c \in Conn, ReplyLost(c) PROVE TypeOK'
    <3>1. fileid[c] \in ClientId
      BY <2>4 DEF ReplyLost, Executable, Attached, TypeOK
    <3>. QED
      BY <2>4, <3>1, CallTypes, MarkType DEF ReplyLost, TypeOK
  <2>5. ASSUME NEW c \in Conn, Open(c) PROVE TypeOK'
    BY <2>5, SMTT(40) DEF Open, TypeOK, Level, NO_LOCK
  <2>6. ASSUME NEW c \in Conn, Close(c) \/ Reconnect(c) \/ Crash(c) PROVE TypeOK'
    BY <2>6 DEF Close, Reconnect, Crash, TypeOK, Level, NO_LOCK
  <2>7. ASSUME NEW c \in Conn, NEW l \in Level, Lock(c, l) \/ Unlock(c, l)
        PROVE  TypeOK'
    BY <2>7 DEF Lock, Unlock, TypeOK, LockPc, UnlockPc
  <2>8. ASSUME NEW i \in ClientId, Expire(i) PROVE TypeOK'
    BY <2>8 DEF Expire, TypeOK, NoLocks, Mode
  <2>9. CASE UNCHANGED vars
    BY <2>9 DEF vars, TypeOK
  <2>. QED
    BY <2>1, <2>2, <2>3, <2>4, <2>5, <2>6, <2>7, <2>8, <2>9 DEF Next
<1>. QED
  BY <1>1, <1>2, PTL DEF Spec

-----------------------------------------------------------------------------
\* The inductive invariant.

USE DEF NO_LOCK, SHARED_LOCK, RESERVED_LOCK, PENDING_LOCK, EXCLUSIVE_LOCK

\* A step that leaves a connection's variables alone, and the locks of its
\* client ids unless it makes the server forget them, keeps its part of IInv.
LEMMA Frame ==
    ASSUME NEW d \in Conn, CallOK(d), ServerOK(d),
           pager'[d] = pager[d], eFileLock'[d] = eFileLock[d], pc'[d] = pc[d],
           want'[d] = want[d], fileid'[d] = fileid[d], session'[d] = session[d],
           latest'[d] = latest[d],
           \A i \in {fileid[d], session[d]} : i \in live' => i \in live /\ held'[i] = held[i]
    PROVE  CallOK(d)' /\ ServerOK(d)'
<1>1. CallOK(d)'
  BY DEF CallOK
<1>2. ServerOK(d)'
  <2>1. Attached(d)' => Attached(d) /\ held'[fileid[d]] = held[fileid[d]]
    BY DEF Attached
  <2>. QED
    BY <2>1 DEF ServerOK, Untyped, Holds
<1>. QED
  BY <1>1, <1>2

\* What a request changes in the server's table, region by region.
LEMMA MarkEffect ==
    ASSUME TypeOK, NEW c \in Conn, fileid[c] \in ClientId, Mark(c)
    PROVE  /\ \A i \in ClientId \ {fileid[c]} : held'[i] = held[i]
           /\ \A r \in Region :
                 held'[fileid[c]][r] =
                    IF r \in Regions(c)
                    THEN IF IsLock(c) THEN LockMode(c) ELSE "none"
                    ELSE held[fileid[c]][r]
  BY DEF TypeOK, Mark

LEMMA MarkCompatible ==
    ASSUME TypeOK, HeldCompatible, NEW c \in Conn, pc[c] # "idle",
           Executable(c), Mark(c)
    PROVE  HeldCompatible'
<1>. DEFINE i == fileid[c]
<1>1. i \in ClientId
  BY DEF Executable, Attached, TypeOK
<1>2. ASSUME NEW j \in ClientId \ {i}, NEW r \in Region
      PROVE  ~Incompatible(held'[i][r], held'[j][r])
  <2>1. held'[j] = held[j]
    BY <1>1, MarkEffect
  <2>2. CASE r \notin Regions(c)
    BY <1>1, <2>1, <2>2, MarkEffect DEF HeldCompatible
  <2>3. CASE r \in Regions(c) /\ ~IsLock(c)
    BY <1>1, <2>1, <2>3, MarkEffect DEF Incompatible
  <2>4. CASE r \in Regions(c) /\ IsLock(c)
    BY <1>1, <2>1, <2>4, MarkEffect DEF Executable, Denied
  <2>. QED
    BY <2>2, <2>3, <2>4
<1>3. ASSUME NEW j \in ClientId \ {i}, NEW k \in ClientId \ {i}, j # k,
             NEW r \in Region
      PROVE  ~Incompatible(held'[j][r], held'[k][r])
  BY <1>1, <1>3, MarkEffect DEF HeldCompatible
<1>. QED
  BY <1>2, <1>3 DEF HeldCompatible, Incompatible

\* A request that the server executes takes its own connection from one state
\* of the call to the next.
LEMMA ExecutedOwn ==
    ASSUME IInv, NEW c \in Conn, Executed(c)
    PROVE  CallOK(c)' /\ ServerOK(c)'
<1>. DEFINE i == fileid[c]
<1>1. /\ i \in ClientId /\ i # NoId
      /\ TypeOK /\ CallOK(c) /\ ServerOK(c) /\ Attached(c)
      /\ fileid' = fileid /\ session' = session /\ live' = live /\ want' = want
      /\ latest'[c] = "current"
  BY DEF IInv, Executed, Executable, Attached, TypeOK
<1>2. /\ \A r \in Region : held'[i][r] = IF r \in Regions(c)
                                        THEN IF IsLock(c) THEN LockMode(c) ELSE "none"
                                        ELSE held[i][r]
      /\ "SHARED" \in Region /\ "RESERVED" \in Region /\ "PENDING" \in Region
  BY <1>1, MarkEffect DEF Executed, Region
<1>3. ASSUME pc'[c] = NextRequest(c), pc'[c] # "idle"
      PROVE  eFileLock'[c] = eFileLock[c] /\ pager'[c] = pager[c]
  BY <1>3 DEF Executed, Succeed, Continue, Return
<1>4. pc'[c] = NextRequest(c)
  BY <1>1 DEF Executed, Succeed, Continue, Return, TypeOK
<1>5. NextRequest(c) = "idle" => eFileLock'[c] = want[c] /\ pager'[c] = want[c]
  BY <1>1 DEF Executed, Succeed, Return, TypeOK
<1>6. CASE pc[c] = "lock_pending"
  <2>1. /\ held'[i]["SHARED"] = held[i]["SHARED"]
        /\ held'[i]["RESERVED"] = held[i]["RESERVED"]
        /\ held'[i]["PENDING"] # "none"
    BY <1>2, <1>6 DEF Regions, IsLock, LockMode
  <2>2. pc'[c] = IF want[c] = SHARED_LOCK THEN "lock_shared" ELSE "lock_upper"
    BY <1>4, <1>6 DEF NextRequest
  <2>. QED
    BY <1>1, <1>3, <1>4, <1>6, <2>1, <2>2 DEF CallOK, ServerOK, Untyped, Holds, Attached
<1>7. CASE pc[c] = "lock_shared"
  <2>1. held'[i]["SHARED"] = "read" /\ held'[i]["RESERVED"] = held[i]["RESERVED"]
    BY <1>1, <1>2, <1>7 DEF Regions, IsLock, LockMode, CallOK
  <2>2. pc'[c] = "drop_pending"
    BY <1>4, <1>7 DEF NextRequest
  <2>. QED
    BY <1>1, <1>3, <1>4, <1>7, <2>1, <2>2 DEF CallOK, ServerOK, Untyped, Holds, Attached
<1>8. CASE pc[c] = "drop_pending"
  <2>1. /\ held'[i]["SHARED"] = held[i]["SHARED"]
        /\ held'[i]["RESERVED"] = held[i]["RESERVED"]
    BY <1>2, <1>8 DEF Regions
  <2>2. NextRequest(c) = "idle"
    BY <1>8 DEF NextRequest
  <2>. QED
    BY <1>1, <1>4, <1>5, <1>8, <2>1, <2>2 DEF CallOK, ServerOK, Untyped, Holds, Attached
<1>9. CASE pc[c] = "lock_upper"
  <2>1. CASE want[c] = RESERVED_LOCK
    <3>1. held'[i]["SHARED"] = held[i]["SHARED"] /\ held'[i]["RESERVED"] = "write"
      BY <1>2, <1>9, <2>1 DEF Regions, IsLock, LockMode
    <3>2. NextRequest(c) = "idle"
      BY <1>9 DEF NextRequest
    <3>. QED
      BY <1>1, <1>4, <1>5, <1>9, <2>1, <3>1, <3>2 DEF CallOK, ServerOK, Untyped, Holds, Attached
  <2>2. CASE want[c] = EXCLUSIVE_LOCK
    <3>1. held'[i]["SHARED"] = "write"
      BY <1>2, <1>9, <2>2 DEF Regions, IsLock, LockMode
    <3>2. NextRequest(c) = "idle"
      BY <1>9 DEF NextRequest
    <3>. QED
      BY <1>1, <1>4, <1>5, <1>9, <2>2, <3>1, <3>2 DEF CallOK, ServerOK, Untyped, Holds, Attached
  <2>. QED
    BY <1>1, <1>9, <2>1, <2>2 DEF CallOK
<1>10. CASE pc[c] = "downgrade"
  <2>1. held'[i]["SHARED"] = "read"
    BY <1>1, <1>2, <1>10 DEF Regions, IsLock, LockMode, CallOK
  <2>2. pc'[c] = "unlock_bytes"
    BY <1>4, <1>10 DEF NextRequest
  <2>. QED
    BY <1>1, <1>3, <1>4, <1>10, <2>1, <2>2 DEF CallOK, ServerOK, Untyped, Holds, Attached
<1>11. CASE pc[c] = "unlock_bytes"
  <2>1. held'[i]["SHARED"] = held[i]["SHARED"] /\ held'[i]["RESERVED"] = "none"
    BY <1>2, <1>11 DEF Regions, IsLock
  <2>2. CASE want[c] = NO_LOCK
    <3>1. pc'[c] = "unlock_range"
      BY <1>4, <1>11, <2>2 DEF NextRequest
    <3>. QED
      BY <1>1, <1>3, <1>4, <1>11, <2>1, <2>2, <3>1 DEF CallOK, ServerOK, Untyped, Holds, Attached
  <2>3. CASE want[c] = SHARED_LOCK
    <3>1. NextRequest(c) = "idle"
      BY <1>11, <2>3 DEF NextRequest
    <3>. QED
      BY <1>1, <1>4, <1>5, <1>11, <2>1, <2>3, <3>1 DEF CallOK, ServerOK, Untyped, Holds, Attached
  <2>. QED
    BY <1>1, <1>11, <2>2, <2>3 DEF CallOK
<1>12. CASE pc[c] = "unlock_range"
  <2>1. held'[i]["SHARED"] = "none" /\ held'[i]["RESERVED"] = held[i]["RESERVED"]
    BY <1>2, <1>12 DEF Regions, IsLock
  <2>2. NextRequest(c) = "idle"
    BY <1>12 DEF NextRequest
  <2>. QED
    BY <1>1, <1>4, <1>5, <1>12, <2>1, <2>2 DEF CallOK, ServerOK, Untyped, Holds, Attached
<1>. QED
  BY <1>1, <1>6, <1>7, <1>8, <1>9, <1>10, <1>11, <1>12
     DEF Executed, TypeOK, LockPc, UnlockPc

\* A call that ends with an error gives SQLite nothing, and while the server is
\* reliable only a LOCK request of an attached connection can end that way, and the
\* LOCKU whose l_type is not assigned.
LEMMA RefusedOwn ==
    ASSUME Reliable, IInv, NEW c \in Conn, Refused(c)
    PROVE  CallOK(c)' /\ ServerOK(c)'
<1>1. /\ TypeOK /\ CallOK(c) /\ ServerOK(c)
      /\ fileid' = fileid /\ session' = session /\ live' = live /\ held' = held
      /\ latest' = latest /\ want' = want
      /\ pc[c] # "idle" /\ pc'[c] = "idle" /\ eFileLock'[c] = eFileLock[c]
      /\ pager'[c] = IF pc[c] \in UnlockPc THEN want[c] ELSE pager[c]
  BY DEF IInv, Refused, Fail, Return, TypeOK
<1>2. CallOK(c)'
  BY <1>1 DEF CallOK, UnlockPc, TypeOK, Level
<1>3. Attached(c) => \/ pc[c] \in {"lock_pending", "lock_shared", "lock_upper", "downgrade"}
                     \/ Untyped(c) /\ ~Typed
  BY <1>1 DEF Refused, Executable, Reliable, Typed, IsLock, IsUnlock, TypeOK, ServerOK,
              LockPc, UnlockPc, CallOK
<1>4. CASE ~Attached(c)
  <2>1. ~Attached(c)' /\ fileid[c] # NoId
    BY <1>1, <1>4 DEF Attached, CallOK
  <2>. QED
    BY <1>1, <1>2, <2>1 DEF ServerOK
<1>5. CASE Attached(c) /\ pc[c] \in {"lock_pending", "lock_shared", "lock_upper", "downgrade"}
  BY <1>1, <1>2, <1>5 DEF ServerOK, Untyped, Holds, Attached, UnlockPc, CallOK
<1>6. CASE Attached(c) /\ Untyped(c) /\ ~Typed
  <2>1. /\ pager'[c] = NO_LOCK /\ eFileLock'[c] = SHARED_LOCK /\ latest[c] = "current"
        /\ Holds(fileid[c], SHARED_LOCK) /\ fileid[c] # NoId
    BY <1>1, <1>6 DEF ServerOK, Untyped, Attached, UnlockPc, CallOK
  <2>. QED
    BY <1>1, <1>2, <1>6, <2>1 DEF ServerOK, Untyped, Holds
<1>. QED
  BY <1>2, <1>3, <1>4, <1>5, <1>6

LEMMA SeveredOwn ==
    ASSUME IInv, NEW c \in Conn, Severed(c)
    PROVE  CallOK(c)' /\ ServerOK(c)'
<1>1. /\ TypeOK /\ CallOK(c)
      /\ fileid' = fileid /\ session'[c] = NoId /\ want' = want
      /\ pc[c] # "idle" /\ pc'[c] = "idle" /\ eFileLock'[c] = eFileLock[c]
      /\ pager'[c] = IF pc[c] \in UnlockPc THEN want[c] ELSE pager[c]
  BY DEF IInv, Severed, Fail, Return, TypeOK
<1>2. CallOK(c)'
  BY <1>1 DEF CallOK, UnlockPc, TypeOK, Level
<1>3. ServerOK(c)'
  BY <1>1 DEF ServerOK, Attached, CallOK
<1>. QED
  BY <1>2, <1>3

LEMMA LockOwn ==
    ASSUME IInv, NEW c \in Conn, NEW l \in Level, Lock(c, l)
    PROVE  CallOK(c)' /\ ServerOK(c)'
<1>1. /\ TypeOK /\ CallOK(c) /\ ServerOK(c)
      /\ fileid' = fileid /\ session' = session /\ live' = live /\ held' = held
      /\ latest' = latest /\ eFileLock' = eFileLock
      /\ pc[c] = "idle" /\ fileid[c] # NoId
  BY DEF IInv, Lock
<1>2. \/ pager[c] = NO_LOCK /\ l = SHARED_LOCK
      \/ pager[c] = SHARED_LOCK /\ l \in {RESERVED_LOCK, EXCLUSIVE_LOCK}
      \/ pager[c] = RESERVED_LOCK /\ l = EXCLUSIVE_LOCK
  BY DEF Lock, Requests
<1>3. CASE eFileLock[c] >= l
  <2>1. pc' = pc /\ want' = want /\ pager'[c] = l
    BY <1>1, <1>3 DEF Lock, TypeOK
  <2>. QED
    BY <1>1, <1>2, <1>3, <2>1 DEF CallOK, ServerOK, Untyped, Holds, Attached, TypeOK, Level
<1>4. CASE ~(eFileLock[c] >= l)
  <2>1. /\ pager' = pager /\ want'[c] = l
        /\ pc'[c] = IF l = SHARED_LOCK \/ (l = EXCLUSIVE_LOCK /\ eFileLock[c] < PENDING_LOCK)
                    THEN "lock_pending" ELSE "lock_upper"
    BY <1>1, <1>4 DEF Lock, TypeOK
  <2>2. \/ l = SHARED_LOCK /\ eFileLock[c] = NO_LOCK
        \/ l = RESERVED_LOCK /\ eFileLock[c] = SHARED_LOCK
        \/ l = EXCLUSIVE_LOCK /\ eFileLock[c] \in {SHARED_LOCK, RESERVED_LOCK}
    BY <1>1, <1>2, <1>4 DEF CallOK, TypeOK, Level
  <2>. QED
    BY <1>1, <2>1, <2>2 DEF CallOK, ServerOK, Untyped, Holds, Attached
<1>. QED
  BY <1>3, <1>4

LEMMA UnlockOwn ==
    ASSUME IInv, NEW c \in Conn, NEW l \in Level, Unlock(c, l)
    PROVE  CallOK(c)' /\ ServerOK(c)'
<1>1. /\ TypeOK /\ CallOK(c) /\ ServerOK(c)
      /\ fileid' = fileid /\ session' = session /\ live' = live /\ held' = held
      /\ latest' = latest /\ eFileLock' = eFileLock
      /\ pc[c] = "idle" /\ fileid[c] # NoId
      /\ l = NO_LOCK \/ (l = SHARED_LOCK /\ pager[c] > SHARED_LOCK)
  BY DEF IInv, Unlock
<1>2. CASE eFileLock[c] <= l
  <2>1. pc' = pc /\ want' = want /\ pager'[c] = l
    BY <1>1, <1>2 DEF Unlock, TypeOK
  <2>. QED
    BY <1>1, <1>2, <2>1 DEF CallOK, ServerOK, Untyped, Holds, Attached, TypeOK, Level
<1>3. CASE ~(eFileLock[c] <= l)
  <2>1. /\ pager' = pager /\ want'[c] = l
        /\ pc'[c] = IF eFileLock[c] <= SHARED_LOCK THEN "unlock_range"
                    ELSE IF l = SHARED_LOCK THEN "downgrade" ELSE "unlock_bytes"
    BY <1>1, <1>3 DEF Unlock, TypeOK
  <2>. QED
    BY <1>1, <1>3, <2>1 DEF CallOK, ServerOK, Untyped, Holds, Attached, TypeOK, Level
<1>. QED
  BY <1>2, <1>3

\* An OPEN starts from a client id that holds nothing on RESERVED, and on SHARED no
\* more than a file closed after an untyped LOCKU has left: a fresh one, or that of the
\* session in which the last file was closed.
LEMMA OpenOwn ==
    ASSUME IInv, NEW c \in Conn, Open(c)
    PROVE  CallOK(c)' /\ ServerOK(c)'
<1>1. /\ TypeOK /\ CallOK(c) /\ ServerOK(c)
      /\ fileid[c] = NoId /\ pc' = pc /\ pager' = pager /\ held' = held
      /\ latest'[c] = "open" /\ eFileLock'[c] = NO_LOCK
      /\ fileid'[c] \in ClientId /\ session'[c] = fileid'[c]
  BY DEF IInv, Open, TypeOK, Fresh
<1>2. Holds(fileid'[c], NO_LOCK)
  <2>1. CASE session[c] = NoId /\ Fresh(fileid'[c])
    BY <1>1, <2>1 DEF IInv, DeadHoldNothing, Fresh, Holds, NoLocks, Region
  <2>2. CASE session[c] \in live /\ fileid'[c] = session[c]
    BY <1>1, <2>2 DEF ServerOK
  <2>. QED
    BY <1>1, <2>1, <2>2 DEF Open, TypeOK
<1>. QED
  BY <1>1, <1>2, NoIdAssumption DEF CallOK, ServerOK, Untyped, Holds, Attached

\* Closing, losing the session and dying leave the server's table as it is.
LEMMA DetachOwn ==
    ASSUME IInv, NEW c \in Conn, Close(c) \/ Reconnect(c) \/ Crash(c)
    PROVE  CallOK(c)' /\ ServerOK(c)'
<1>. /\ TypeOK /\ CallOK(c) /\ ServerOK(c) /\ held' = held /\ live' = live
  BY DEF IInv, Close, Reconnect, Crash
<1>1. CASE Close(c)
  <2>1. /\ pc[c] = "idle" /\ fileid[c] # NoId /\ pager[c] = NO_LOCK
        /\ fileid'[c] = NoId /\ session' = session /\ pc' = pc /\ pager' = pager
    BY <1>1 DEF Close, TypeOK
  <2>2. session[c] \in live => Attached(c) /\ session[c] = fileid[c]
    BY <2>1, NoIdAssumption DEF CallOK, Attached, TypeOK
  <2>. QED
    BY <2>1, <2>2 DEF CallOK, ServerOK, Untyped, Holds, Attached
<1>2. CASE Reconnect(c)
  <2>1. /\ session'[c] = NoId /\ pc[c] = "idle" /\ pc' = pc /\ pager' = pager
        /\ eFileLock' = eFileLock /\ fileid' = fileid
    BY <1>2 DEF Reconnect, TypeOK
  <2>2. NoId \notin live
    BY NoIdAssumption DEF TypeOK
  <2>. QED
    BY <2>1, <2>2 DEF CallOK, ServerOK, Untyped, Attached
<1>3. CASE Crash(c)
  <2>1. /\ session'[c] = NoId /\ fileid'[c] = NoId /\ pc'[c] = "idle"
        /\ pager'[c] = NO_LOCK
    BY <1>3 DEF Crash, TypeOK
  <2>2. NoId \notin live
    BY NoIdAssumption DEF TypeOK
  <2>. QED
    BY <2>1, <2>2 DEF CallOK, ServerOK, Untyped, Attached
<1>. QED
  BY <1>1, <1>2, <1>3

\* A step of c leaves the part of every other connection in place when it
\* touches only the table of client ids that are not the other's.
LEMMA OthersKept ==
    ASSUME IInv, NEW c \in Conn, NEW d \in Conn \ {c},
           \/ Executed(c) \/ Refused(c) \/ Severed(c) \/ Open(c) \/ Close(c)
           \/ Reconnect(c) \/ Crash(c)
           \/ \E l \in Level : Lock(c, l) \/ Unlock(c, l)
    PROVE  CallOK(d)' /\ ServerOK(d)'
<1>1. /\ TypeOK /\ CallOK(d) /\ ServerOK(d) /\ IdsDistinct
  BY DEF IInv
<1>2. /\ pager'[d] = pager[d] /\ eFileLock'[d] = eFileLock[d] /\ pc'[d] = pc[d]
      /\ want'[d] = want[d] /\ fileid'[d] = fileid[d] /\ session'[d] = session[d]
      /\ latest'[d] = latest[d]
  BY <1>1 DEF Executed, Refused, Severed, Open, Close, Reconnect, Crash, Lock, Unlock,
              Succeed, Fail, Return, Continue, TypeOK
<1>3. ASSUME NEW i \in {fileid[d], session[d]}, i \in live'
      PROVE  i \in live /\ held'[i] = held[i]
  <2>1. i \in ClientId
    BY <1>1, <1>3 DEF Executed, Refused, Severed, Open, Close, Reconnect, Crash, Lock,
                      Unlock, TypeOK
  <2>2. i \in live
    BY <1>1, <1>3, <2>1 DEF Executed, Refused, Severed, Open, Close, Reconnect, Crash,
                            Lock, Unlock, Fresh
  <2>3. CASE held' = held
    BY <2>2, <2>3
  <2>4. CASE Executable(c) /\ Mark(c)
    <3>1. fileid[c] \in ClientId /\ i # fileid[c]
      BY <1>1, <2>1, <2>4 DEF Executable, Attached, IdsDistinct, TypeOK
    <3>. QED
      BY <1>1, <2>1, <2>2, <2>4, <3>1, MarkEffect
  <2>. QED
    BY <2>3, <2>4 DEF Executed, Refused, Severed, Open, Close, Reconnect, Crash, Lock, Unlock
<1>. QED
  BY <1>1, <1>2, <1>3, Frame

\* The locks of distinct client ids never contradict each other, and only
\* client ids the server knows hold any.
LEMMA TableKept ==
    ASSUME IInv, NEW c \in Conn,
           \/ Executed(c) \/ Refused(c) \/ Severed(c) \/ Open(c) \/ Close(c)
           \/ Reconnect(c) \/ Crash(c)
           \/ \E l \in Level : Lock(c, l) \/ Unlock(c, l)
    PROVE  HeldCompatible' /\ DeadHoldNothing' /\ IdsDistinct'
<1>1. TypeOK /\ HeldCompatible /\ DeadHoldNothing /\ IdsDistinct
  BY DEF IInv
<1>2. HeldCompatible'
  <2>1. CASE held' = held
    BY <1>1, <2>1 DEF HeldCompatible
  <2>2. CASE pc[c] # "idle" /\ Executable(c) /\ Mark(c)
    BY <1>1, <2>2, MarkCompatible
  <2>. QED
    BY <2>1, <2>2 DEF Executed, Refused, Severed, Open, Close, Reconnect, Crash, Lock, Unlock
<1>3. DeadHoldNothing'
  <2>1. CASE held' = held
    BY <1>1, <2>1 DEF DeadHoldNothing, Executed, Refused, Severed, Open, Close, Reconnect,
                      Crash, Lock, Unlock
  <2>2. CASE Executable(c) /\ Mark(c) /\ live' = live
    <3>1. fileid[c] \in live /\ fileid[c] \in ClientId
      BY <1>1, <2>2 DEF Executable, Attached, TypeOK
    <3>. QED
      BY <1>1, <2>2, <3>1, MarkEffect DEF DeadHoldNothing
  <2>. QED
    BY <2>1, <2>2 DEF Executed, Refused, Severed, Open, Close, Reconnect, Crash, Lock, Unlock
<1>4. IdsDistinct'
  <2>1. CASE Open(c)
    <3>1. ASSUME NEW i \in ClientId, i \in {fileid'[c], session'[c]}
          PROVE  Fresh(i) \/ i = session[c]
      BY <1>1, <2>1, <3>1, NoIdAssumption DEF Open, TypeOK
    <3>2. \A d \in Conn \ {c} : fileid'[d] = fileid[d] /\ session'[d] = session[d]
      BY <1>1, <2>1 DEF Open, TypeOK
    <3>3. ASSUME NEW d \in Conn \ {c}, NEW i \in ClientId,
                 i \in {fileid'[c], session'[c]}, i \in {fileid[d], session[d]}
          PROVE  FALSE
      BY <1>1, <3>1, <3>3 DEF Fresh, IdsDistinct
    <3>. QED
      BY <1>1, <3>2, <3>3 DEF IdsDistinct
  <2>2. ASSUME NEW d \in Conn, ~Open(c)
        PROVE  /\ fileid'[d] \in {fileid[d], NoId}
               /\ session'[d] \in {session[d], NoId}
    BY <1>1, <2>2 DEF Executed, Refused, Severed, Close, Reconnect, Crash, Lock, Unlock,
                      TypeOK
  <2>. QED
    BY <1>1, <2>1, <2>2, NoIdAssumption DEF IdsDistinct
<1>. QED
  BY <1>2, <1>3, <1>4

LEMMA ExpireKept ==
    ASSUME IInv, NEW i \in ClientId, Expire(i)
    PROVE  /\ HeldCompatible' /\ DeadHoldNothing' /\ IdsDistinct'
           /\ \A d \in Conn : CallOK(d)' /\ ServerOK(d)'
<1>1. /\ TypeOK /\ HeldCompatible /\ DeadHoldNothing /\ IdsDistinct
      /\ \A d \in Conn : CallOK(d) /\ ServerOK(d)
  BY DEF IInv
<1>2. /\ held'[i] = NoLocks /\ live' = live \ {i}
      /\ \A j \in ClientId \ {i} : held'[j] = held[j]
  BY <1>1 DEF Expire, TypeOK
<1>3. HeldCompatible'
  BY <1>1, <1>2 DEF HeldCompatible, Incompatible, NoLocks
<1>4. DeadHoldNothing'
  BY <1>1, <1>2 DEF DeadHoldNothing
<1>5. IdsDistinct'
  BY <1>1 DEF Expire, IdsDistinct
<1>6. ASSUME NEW d \in Conn PROVE CallOK(d)' /\ ServerOK(d)'
  <2>1. \A j \in {fileid[d], session[d]} : j \in live' => j \in live /\ held'[j] = held[j]
    BY <1>1, <1>2 DEF TypeOK
  <2>2. /\ pager'[d] = pager[d] /\ eFileLock'[d] = eFileLock[d] /\ pc'[d] = pc[d]
        /\ want'[d] = want[d] /\ fileid'[d] = fileid[d] /\ session'[d] = session[d]
        /\ latest'[d] = latest[d]
    BY DEF Expire
  <2>. QED
    BY <1>1, <2>1, <2>2, Frame
<1>. QED
  BY <1>3, <1>4, <1>5, <1>6

\* IInv is an invariant while the server is reliable about LOCKU and replies.
THEOREM Inductive == ASSUME Reliable PROVE Spec => []IInv
<1>1. Init => IInv
  <2>. SUFFICES ASSUME Init PROVE IInv
    OBVIOUS
  <2>1. TypeOK
    BY DEF Init, TypeOK, Level, Mode, NoLocks
  <2>2. IdsDistinct /\ HeldCompatible /\ DeadHoldNothing
    BY NoIdAssumption DEF Init, IdsDistinct, HeldCompatible, DeadHoldNothing, Incompatible,
                          NoLocks
  <2>3. ASSUME NEW c \in Conn PROVE CallOK(c) /\ ServerOK(c)
    <3>1. /\ pc[c] = "idle" /\ pager[c] = NO_LOCK /\ fileid[c] = NoId
          /\ live = {}
      BY DEF Init
    <3>. QED
      BY <3>1 DEF CallOK, ServerOK, Untyped, Attached
  <2>. QED
    BY <2>1, <2>2, <2>3 DEF IInv
<1>2. TypeOK /\ TypeOK' /\ IInv /\ [Next]_vars => IInv'
  <2>. SUFFICES ASSUME TypeOK', IInv, [Next]_vars PROVE IInv'
    OBVIOUS
  <2>. USE DEF Reliable
  <2>1. ASSUME NEW c \in Conn, Executed(c) PROVE IInv'
    BY <2>1, ExecutedOwn, OthersKept, TableKept DEF IInv
  <2>2. ASSUME NEW c \in Conn, Refused(c) PROVE IInv'
    BY <2>2, RefusedOwn, OthersKept, TableKept DEF IInv
  <2>3. ASSUME NEW c \in Conn, Severed(c) PROVE IInv'
    BY <2>3, SeveredOwn, OthersKept, TableKept DEF IInv
  <2>4. ASSUME NEW c \in Conn, ReplyLost(c) PROVE IInv'
    BY <2>4 DEF ReplyLost
  <2>5. ASSUME NEW c \in Conn, Open(c) PROVE IInv'
    BY <2>5, OpenOwn, OthersKept, TableKept DEF IInv
  <2>6. ASSUME NEW c \in Conn, Close(c) \/ Reconnect(c) \/ Crash(c) PROVE IInv'
    BY <2>6, DetachOwn, OthersKept, TableKept DEF IInv
  <2>7. ASSUME NEW c \in Conn, NEW l \in Level, Lock(c, l) PROVE IInv'
    BY <2>7, LockOwn, OthersKept, TableKept DEF IInv
  <2>8. ASSUME NEW c \in Conn, NEW l \in Level, Unlock(c, l) PROVE IInv'
    BY <2>8, UnlockOwn, OthersKept, TableKept DEF IInv
  <2>9. ASSUME NEW i \in ClientId, Expire(i) PROVE IInv'
    BY <2>9, ExpireKept DEF IInv
  <2>10. CASE UNCHANGED vars
    <3>1. ASSUME NEW c \in Conn PROVE CallOK(c)' /\ ServerOK(c)'
      BY <2>10, <3>1, Frame DEF vars, IInv
    <3>. QED
      BY <2>10, <3>1 DEF vars, IInv, TypeOK, IdsDistinct, HeldCompatible, DeadHoldNothing
  <2>. QED
    BY <2>1, <2>2, <2>3, <2>4, <2>5, <2>6, <2>7, <2>8, <2>9, <2>10 DEF Next
<1>. QED
  BY <1>1, <1>2, TypeCorrect, PTL DEF Spec

-----------------------------------------------------------------------------
\* What follows from it.

\* At most one connection that can reach the file believes it may write, and
\* then no other believes it may read (nfs4Lock, nfs4Unlock).
THEOREM MutualExclusionHolds == ASSUME Reliable PROVE Spec => []MutualExclusion
<1>1. IInv => MutualExclusion
  <2>. SUFFICES ASSUME IInv, NEW c \in Conn, NEW d \in Conn, c # d,
                       CanUse(c), CanUse(d), pager[c] = EXCLUSIVE_LOCK,
                       pager[d] # NO_LOCK
                PROVE  FALSE
    BY DEF MutualExclusion
  <2>1. TypeOK /\ CallOK(c) /\ ServerOK(c) /\ CallOK(d) /\ ServerOK(d)
    BY DEF IInv
  <2>2. eFileLock[c] = EXCLUSIVE_LOCK /\ eFileLock[d] # NO_LOCK
    BY <2>1 DEF CanUse, Attached, CallOK, TypeOK, Level
  <2>3. held[fileid[c]]["SHARED"] = "write" /\ held[fileid[d]]["SHARED"] # "none"
    BY <2>1, <2>2 DEF CanUse, ServerOK, Holds, TypeOK, Level
  <2>4. /\ fileid[c] \in ClientId /\ fileid[d] \in ClientId /\ fileid[c] # fileid[d]
    BY <2>1 DEF CanUse, Attached, IInv, IdsDistinct, TypeOK
  <2>. QED
    BY <2>3, <2>4 DEF IInv, HeldCompatible, Incompatible, Region
<1>. QED
  BY <1>1, Inductive, PTL

\* Two connections never prepare a write transaction at the same time.
THEOREM SingleWriterHolds == ASSUME Reliable PROVE Spec => []SingleWriter
<1>1. IInv => SingleWriter
  <2>. SUFFICES ASSUME IInv, NEW c \in Conn, NEW d \in Conn, c # d,
                       CanUse(c), CanUse(d), pager[c] > SHARED_LOCK, pager[d] > SHARED_LOCK
                PROVE  FALSE
    BY DEF SingleWriter
  <2>1. TypeOK /\ CallOK(c) /\ ServerOK(c) /\ CallOK(d) /\ ServerOK(d)
    BY DEF IInv
  <2>2. /\ eFileLock[c] \in {RESERVED_LOCK, EXCLUSIVE_LOCK}
        /\ eFileLock[d] \in {RESERVED_LOCK, EXCLUSIVE_LOCK}
    BY <2>1 DEF CanUse, Attached, CallOK, TypeOK, Level
  <2>3. Holds(fileid[c], eFileLock[c]) /\ Holds(fileid[d], eFileLock[d])
    BY <2>1 DEF CanUse, ServerOK
  <2>4. /\ fileid[c] \in ClientId /\ fileid[d] \in ClientId /\ fileid[c] # fileid[d]
    BY <2>1 DEF CanUse, Attached, IInv, IdsDistinct, TypeOK
  <2>. QED
    BY <2>2, <2>3, <2>4 DEF IInv, HeldCompatible, Incompatible, Region, Holds
<1>. QED
  BY <1>1, Inductive, PTL

\* SQLite never believes in a lock that the server of an attached connection
\* has not granted.
THEOREM HonestHolds == ASSUME Reliable PROVE Spec => []Honest
<1>1. IInv => Honest
  <2>. SUFFICES ASSUME IInv, NEW c \in Conn, pc[c] = "idle", Attached(c)
                PROVE  pager[c] <= Granted(c)
    BY DEF Honest
  <2>1. TypeOK /\ CallOK(c) /\ ServerOK(c)
    BY DEF IInv
  <2>2. Holds(fileid[c], eFileLock[c])
    BY <2>1 DEF ServerOK
  <2>3. /\ Granted(c) \in Level /\ eFileLock[c] \in Level /\ pager[c] \in Level
        /\ pager[c] <= eFileLock[c]
    BY <2>1 DEF Granted, CallOK, Attached, TypeOK, Level
  <2>4. eFileLock[c] # NO_LOCK => Granted(c) = eFileLock[c]
    BY <2>1, <2>2, <2>3 DEF Granted, Holds, Level
  <2>. QED
    BY <2>3, <2>4 DEF Level
<1>. QED
  BY <1>1, Inductive, PTL

\* No failed call leaves a lock on RESERVED or SHARED that its owner has
\* forgotten, as long as l_type happens to hold a lock type.
THEOREM NoOrphanLockHolds == ASSUME Reliable, Typed PROVE Spec => []NoOrphanLock
<1>1. IInv => NoOrphanLock
  BY DEF IInv, ServerOK, Holds, NoOrphanLock, TypeOK, Level
<1>. QED
  BY <1>1, Inductive, PTL

\* While one client holds PENDING for writing no other gets a first lock on
\* the SHARED range.
THEOREM PendingBarsReadersHolds == ASSUME Reliable PROVE Spec => PendingBarsReaders
<1>. DEFINE Barred == \A i, j \in ClientId :
                         (i # j /\ held[i]["PENDING"] = "write" /\ held[j]["SHARED"] = "none")
                            => held'[j]["SHARED"] = "none"
<1>1. IInv /\ [Next]_vars => Barred
  <2>. SUFFICES ASSUME IInv, [Next]_vars, NEW i \in ClientId, NEW j \in ClientId, i # j,
                       held[i]["PENDING"] = "write", held[j]["SHARED"] = "none"
                PROVE  held'[j]["SHARED"] = "none"
    OBVIOUS
  <2>1. ASSUME NEW c \in Conn, pc[c] # "idle", Executable(c), Mark(c)
        PROVE  held'[j]["SHARED"] = "none"
    <3>1. /\ TypeOK /\ CallOK(c) /\ ServerOK(c) /\ Attached(c)
          /\ fileid[c] \in ClientId /\ "SHARED" \in Region /\ "PENDING" \in Region
      BY <2>1 DEF IInv, Executable, Attached, TypeOK, Region
    <3>2. CASE fileid[c] # j
      BY <2>1, <3>1, <3>2, MarkEffect
    <3>3. CASE fileid[c] = j /\ pc[c] \in {"lock_shared", "downgrade"}
      <4>1. pc[c] = "lock_shared" => held[j]["PENDING"] # "none"
        BY <3>1, <3>3 DEF ServerOK
      <4>2. pc[c] = "lock_shared" => FALSE
        BY <3>1, <4>1 DEF IInv, HeldCompatible, Incompatible
      <4>3. pc[c] = "downgrade" => FALSE
        BY <3>1, <3>3 DEF ServerOK, CallOK, Holds
      <4>. QED
        BY <3>3, <4>2, <4>3
    <3>4. CASE fileid[c] = j /\ pc[c] = "lock_upper"
      <4>1. eFileLock[c] \in {SHARED_LOCK, RESERVED_LOCK} /\ Holds(j, eFileLock[c])
        BY <3>1, <3>4 DEF ServerOK, CallOK
      <4>. QED
        BY <4>1 DEF Holds
    <3>5. CASE fileid[c] = j /\ pc[c] = "lock_pending"
      <4>1. "SHARED" \notin Regions(c)
        BY <3>5 DEF Regions
      <4>. QED
        BY <2>1, <3>1, <3>5, <4>1, MarkEffect
    <3>6. CASE fileid[c] = j /\ ~IsLock(c)
      BY <2>1, <3>1, <3>6, MarkEffect
    <3>. QED
      BY <3>2, <3>3, <3>4, <3>5, <3>6 DEF IsLock
  <2>2. ASSUME NEW k \in ClientId, Expire(k) PROVE held'[j]["SHARED"] = "none"
    BY <2>2 DEF Expire, IInv, TypeOK, NoLocks, Region
  <2>3. CASE held' = held
    BY <2>3
  <2>. QED
    BY <2>1, <2>2, <2>3 DEF Next, vars, Executed, Refused, Severed, ReplyLost, Open, Close,
                            Reconnect, Crash, Lock, Unlock
<1>. QED
  BY <1>1, Inductive, PTL DEF Spec, PendingBarsReaders

-----------------------------------------------------------------------------
\* The assertions of nfs4Lock, whatever fails.

\* The part of IInv about the calls alone needs nothing of the server.
LEMMA CallOKKept ==
    ASSUME TypeOK, \A d \in Conn : CallOK(d), [Next]_vars, NEW c \in Conn
    PROVE  CallOK(c)'
<1>. CallOK(c)
  OBVIOUS
<1>1. ASSUME NEW d \in Conn \ {c},
             \/ Executed(d) \/ Refused(d) \/ Severed(d) \/ ReplyLost(d)
             \/ Open(d) \/ Close(d) \/ Reconnect(d) \/ Crash(d)
             \/ \E l \in Level : Lock(d, l) \/ Unlock(d, l)
      PROVE  CallOK(c)'
  <2>1. /\ pager'[c] = pager[c] /\ eFileLock'[c] = eFileLock[c] /\ pc'[c] = pc[c]
        /\ want'[c] = want[c] /\ fileid'[c] = fileid[c] /\ session'[c] = session[c]
    BY <1>1 DEF Executed, Refused, Severed, ReplyLost, Open, Close, Reconnect, Crash, Lock,
                Unlock, Succeed, Fail, Return, Continue, TypeOK
  <2>. QED
    BY <2>1 DEF CallOK
<1>2. ASSUME Executed(c) PROVE CallOK(c)'
  <2>1. /\ fileid' = fileid /\ session' = session /\ want' = want /\ fileid[c] # NoId
        /\ pc'[c] = NextRequest(c)
    BY <1>2 DEF Executed, Executable, Attached, Succeed, Return, Continue, TypeOK
  <2>2. CASE NextRequest(c) = "idle"
    <3>1. eFileLock'[c] = want[c] /\ pager'[c] = want[c]
      BY <1>2, <2>2 DEF Executed, Succeed, Return, TypeOK
    <3>. QED
      BY <2>1, <2>2, <3>1 DEF CallOK, TypeOK, Level
  <2>3. CASE NextRequest(c) # "idle"
    <3>1. eFileLock' = eFileLock /\ pager' = pager
      BY <1>2, <2>3 DEF Executed, Succeed, Continue
    <3>. QED
      BY <1>2, <2>1, <2>3, <3>1 DEF CallOK, NextRequest, Executed
  <2>. QED
    BY <2>2, <2>3
<1>3. ASSUME Refused(c) \/ Severed(c) \/ ReplyLost(c) PROVE CallOK(c)'
  <2>1. /\ fileid' = fileid /\ session'[c] \in {session[c], NoId}
        /\ pc[c] # "idle" /\ pc'[c] = "idle" /\ eFileLock'[c] = eFileLock[c]
        /\ pager'[c] = IF pc[c] \in UnlockPc THEN want[c] ELSE pager[c]
    BY <1>3 DEF Refused, Severed, ReplyLost, Fail, Return, TypeOK
  <2>. QED
    BY <2>1 DEF CallOK, UnlockPc, TypeOK, Level
<1>4. ASSUME NEW l \in Level, Lock(c, l) PROVE CallOK(c)'
  BY <1>4 DEF Lock, Requests, CallOK, TypeOK, Level
<1>5. ASSUME NEW l \in Level, Unlock(c, l) PROVE CallOK(c)'
  BY <1>5 DEF Unlock, CallOK, TypeOK, Level
<1>6. ASSUME Open(c) PROVE CallOK(c)'
  <2>1. /\ fileid[c] = NoId /\ pc' = pc /\ pager' = pager /\ eFileLock'[c] = NO_LOCK
        /\ session'[c] = fileid'[c]
    BY <1>6 DEF Open, TypeOK
  <2>. QED
    BY <2>1 DEF CallOK
<1>7. ASSUME Close(c) \/ Reconnect(c) \/ Crash(c) PROVE CallOK(c)'
  <2>1. /\ pc'[c] = "idle"
        /\ \/ fileid'[c] = NoId /\ pager'[c] = NO_LOCK
           \/ fileid' = fileid /\ session'[c] = NoId /\ pager' = pager /\ eFileLock' = eFileLock
              /\ pc' = pc
    BY <1>7 DEF Close, Reconnect, Crash, TypeOK
  <2>. QED
    BY <2>1 DEF CallOK
<1>8. ASSUME NEW i \in ClientId, Expire(i) PROVE CallOK(c)'
  BY <1>8 DEF Expire, CallOK
<1>9. CASE UNCHANGED vars
  BY <1>9 DEF vars, CallOK
<1>. QED
  BY <1>1, <1>2, <1>3, <1>4, <1>5, <1>6, <1>7, <1>8, <1>9 DEF Next

\* The assertions at nfs4.c:167-169 hold with every fault of the model.
THEOREM AssertionsCorrect == Spec => []AssertionsHold
<1>. DEFINE CallsOK == \A c \in Conn : CallOK(c)
<1>1. Init => CallsOK
  <2>. SUFFICES ASSUME Init, NEW c \in Conn PROVE CallOK(c)
    OBVIOUS
  <2>1. pc[c] = "idle" /\ pager[c] = NO_LOCK /\ fileid[c] = NoId
    BY DEF Init
  <2>. QED
    BY <2>1 DEF CallOK
<1>2. TypeOK /\ CallsOK /\ [Next]_vars => CallsOK'
  BY CallOKKept
<1>3. TypeOK /\ CallsOK => AssertionsHold
  BY DEF AssertionsHold, CallOK, Requests, TypeOK, Level
<1>. HIDE DEF CallsOK
<1>. QED
  BY <1>1, <1>2, <1>3, TypeCorrect, PTL DEF Spec

-----------------------------------------------------------------------------
\* The levels the server keeps implement SQLite's lock model.

\* What the request of c changes of the level granted to it.
LEMMA GrantedStep ==
    ASSUME IInv, NEW c \in Conn, Executed(c)
    PROVE  \/ Granted(c)' <= Granted(c)
           \/ Granted(c) = NO_LOCK /\ Granted(c)' = SHARED_LOCK /\ pc[c] = "lock_shared"
           \/ /\ Granted(c) = SHARED_LOCK /\ Granted(c)' = RESERVED_LOCK
              /\ pc[c] = "lock_upper" /\ want[c] = RESERVED_LOCK
           \/ /\ Granted(c) \in {SHARED_LOCK, RESERVED_LOCK} /\ Granted(c)' = EXCLUSIVE_LOCK
              /\ pc[c] = "lock_upper" /\ want[c] = EXCLUSIVE_LOCK
<1>. DEFINE i == fileid[c]
<1>1. /\ i \in ClientId /\ TypeOK /\ CallOK(c) /\ ServerOK(c) /\ Attached(c) /\ Attached(c)'
      /\ fileid' = fileid
      /\ "SHARED" \in Region /\ "RESERVED" \in Region
  BY DEF IInv, Executed, Executable, Attached, TypeOK, Region
<1>2. \A r \in Region : held'[i][r] = IF r \in Regions(c)
                                     THEN IF IsLock(c) THEN LockMode(c) ELSE "none"
                                     ELSE held[i][r]
  BY <1>1, MarkEffect DEF Executed
<1>3. CASE ~IsLock(c)
  <2>1. /\ held'[i]["SHARED"] \in {held[i]["SHARED"], "none"}
        /\ held'[i]["RESERVED"] \in {held[i]["RESERVED"], "none"}
    BY <1>1, <1>2, <1>3
  <2>. QED
    BY <1>1, <2>1 DEF Granted
<1>4. CASE pc[c] = "lock_pending"
  <2>1. /\ held'[i]["SHARED"] = held[i]["SHARED"]
        /\ held'[i]["RESERVED"] = held[i]["RESERVED"]
    BY <1>1, <1>2, <1>4 DEF Regions
  <2>. QED
    BY <1>1, <2>1 DEF Granted
<1>5. CASE pc[c] = "lock_shared"
  <2>1. held[i]["SHARED"] \in {"none", "read"} /\ held[i]["RESERVED"] = "none"
    BY <1>1, <1>5 DEF ServerOK, CallOK, Holds
  <2>2. held'[i]["SHARED"] = "read" /\ held'[i]["RESERVED"] = "none"
    BY <1>1, <1>2, <1>5, <2>1 DEF Regions, IsLock, LockMode, CallOK
  <2>. QED
    BY <1>1, <1>5, <2>1, <2>2 DEF Granted
<1>6. CASE pc[c] = "downgrade"
  <2>1. Holds(i, eFileLock[c]) /\ eFileLock[c] \in {RESERVED_LOCK, EXCLUSIVE_LOCK}
    BY <1>1, <1>6 DEF ServerOK, CallOK
  <2>2. held'[i]["SHARED"] = "read" /\ held'[i]["RESERVED"] = held[i]["RESERVED"]
    BY <1>1, <1>2, <1>6 DEF Regions, IsLock, LockMode, CallOK
  <2>. QED
    BY <1>1, <2>1, <2>2 DEF Granted, Holds
<1>7. CASE pc[c] = "lock_upper" /\ want[c] = RESERVED_LOCK
  <2>1. held[i]["SHARED"] = "read" /\ held[i]["RESERVED"] = "none"
    BY <1>1, <1>7 DEF ServerOK, CallOK, Holds
  <2>2. held'[i]["SHARED"] = "read" /\ held'[i]["RESERVED"] = "write"
    BY <1>1, <1>2, <1>7, <2>1 DEF Regions, IsLock, LockMode
  <2>. QED
    BY <1>1, <1>7, <2>1, <2>2 DEF Granted
<1>8. CASE pc[c] = "lock_upper" /\ want[c] = EXCLUSIVE_LOCK
  <2>1. held[i]["SHARED"] = "read"
    BY <1>1, <1>8 DEF ServerOK, CallOK, Holds
  <2>2. held'[i]["SHARED"] = "write"
    BY <1>1, <1>2, <1>8 DEF Regions, IsLock, LockMode
  <2>. QED
    BY <1>1, <1>8, <2>1, <2>2 DEF Granted
<1>. QED
  BY <1>1, <1>3, <1>4, <1>5, <1>6, <1>7, <1>8 DEF IsLock, CallOK

\* A step of c does not change what is granted to anybody else.
LEMMA GrantedOthers ==
    ASSUME IInv, NEW c \in Conn, NEW d \in Conn \ {c},
           \/ Executed(c) \/ Refused(c) \/ Severed(c) \/ Open(c) \/ Close(c)
           \/ Reconnect(c) \/ Crash(c)
           \/ \E l \in Level : Lock(c, l) \/ Unlock(c, l)
    PROVE  Granted(d)' = Granted(d)
<1>1. TypeOK /\ IdsDistinct
  BY DEF IInv
<1>2. fileid'[d] = fileid[d] /\ session'[d] = session[d]
  BY <1>1 DEF Executed, Refused, Severed, Open, Close, Reconnect, Crash, Lock, Unlock, TypeOK
<1>3. Attached(d)' <=> Attached(d)
  BY <1>1, <1>2 DEF Attached, Executed, Refused, Severed, Open, Close, Reconnect, Crash, Lock,
                    Unlock, Fresh
<1>4. Attached(d) => held'[fileid[d]] = held[fileid[d]]
  <2>1. CASE held' = held
    BY <2>1
  <2>2. CASE Executable(c) /\ Mark(c)
    <3>1. Attached(d) => /\ fileid[c] \in ClientId /\ fileid[d] \in ClientId
                         /\ fileid[d] # fileid[c]
      BY <1>1, <2>2 DEF Executable, Attached, IdsDistinct, TypeOK
    <3>. QED
      BY <1>1, <2>2, <3>1, MarkEffect
  <2>. QED
    BY <2>1, <2>2 DEF Executed, Refused, Severed, Open, Close, Reconnect, Crash, Lock, Unlock
<1>. QED
  BY <1>2, <1>3, <1>4 DEF Granted

\* The locks the server keeps for attached connections are a behaviour of
\* SqliteLock: every request of nfs4Lock and nfs4Unlock, and every fault, is one
\* of its steps or a stutter.
THEOREM Refinement == ASSUME Reliable PROVE Spec => Implements
<1>. DEFINE lv == [c \in Conn |-> Granted(c)]
<1>. USE DEF Abstract!NO_LOCK, Abstract!SHARED_LOCK, Abstract!RESERVED_LOCK,
             Abstract!EXCLUSIVE_LOCK
<1>1. Init => Abstract!Init
  BY DEF Init, Abstract!Init, Granted, Attached
<1>2. IInv /\ IInv' /\ [Next]_vars => [Abstract!Next]_lv
  <2>. SUFFICES ASSUME IInv, [Next]_vars PROVE [Abstract!Next]_lv
    OBVIOUS
  <2>1. \A c \in Conn : Granted(c) \in Level
    BY DEF Granted, Level
  <2>2. ASSUME NEW c \in Conn, \A d \in Conn \ {c} : Granted(d)' = Granted(d),
               Granted(c)' <= Granted(c), Granted(c)' \in Level
        PROVE  [Abstract!Next]_lv
    <3>1. lv' = [lv EXCEPT ![c] = Granted(c)']
      BY <2>2
    <3>2. CASE Granted(c)' = Granted(c)
      BY <3>1, <3>2
    <3>3. CASE Granted(c)' < Granted(c)
      <4>1. Abstract!Lower(c, Granted(c)')
        BY <3>1, <3>3 DEF Abstract!Lower
      <4>. QED
        BY <2>2, <4>1 DEF Abstract!Next, Abstract!Level, Level
    <3>. QED
      BY <2>1, <2>2, <3>2, <3>3 DEF Level
  <2>3. \A c \in Conn : Granted(c)' \in Level
    BY DEF Granted, Level
  <2>4. ASSUME NEW c \in Conn, Executed(c) PROVE [Abstract!Next]_lv
    <3>. DEFINE i == fileid[c]
    <3>1. /\ TypeOK /\ HeldCompatible /\ IdsDistinct /\ Attached(c) /\ i \in ClientId
          /\ CallOK(c) /\ "SHARED" \in Region /\ "RESERVED" \in Region
      BY <2>4 DEF IInv, Executed, Executable, Attached, TypeOK, Region
    <3>2. \A d \in Conn \ {c} : Granted(d)' = Granted(d)
      BY <2>4, GrantedOthers
    <3>3. lv' = [lv EXCEPT ![c] = Granted(c)']
      BY <3>2
    <3>4. ASSUME NEW d \in Conn \ {c}, Granted(d) # NO_LOCK
          PROVE  fileid[d] \in ClientId \ {i} /\ held[fileid[d]]["SHARED"] # "none"
      BY <3>1, <3>4 DEF Granted, Attached, IdsDistinct, TypeOK
    <3>5. \A r \in Regions(c) : IsLock(c) => ~Denied(i, r, LockMode(c))
      BY <2>4 DEF Executed, Executable
    <3>6. CASE /\ Granted(c) = NO_LOCK /\ Granted(c)' = SHARED_LOCK
               /\ pc[c] = "lock_shared"
      <4>1. ~Denied(i, "SHARED", "read")
        BY <3>1, <3>5, <3>6 DEF Regions, IsLock, LockMode, CallOK
      <4>2. ASSUME NEW d \in Conn PROVE Granted(d) # EXCLUSIVE_LOCK
        BY <3>4, <3>6, <4>1, <4>2 DEF Denied, Incompatible, Granted
      <4>3. Abstract!Share(c)
        BY <3>3, <3>6, <4>2 DEF Abstract!Share
      <4>. QED
        BY <4>3 DEF Abstract!Next
    <3>7. CASE /\ Granted(c) = SHARED_LOCK /\ Granted(c)' = RESERVED_LOCK
               /\ pc[c] = "lock_upper" /\ want[c] = RESERVED_LOCK
      <4>1. ~Denied(i, "RESERVED", "write")
        BY <3>5, <3>7 DEF Regions, IsLock, LockMode
      <4>2. held[i]["SHARED"] = "read"
        BY <3>1, <3>7 DEF Granted, TypeOK, Mode
      <4>3. ASSUME NEW d \in Conn \ {c} PROVE Granted(d) <= SHARED_LOCK
        <5>1. CASE Granted(d) = NO_LOCK
          BY <5>1
        <5>2. CASE Granted(d) # NO_LOCK
          <6>1. held[fileid[d]]["SHARED"] # "write"
            BY <3>1, <3>4, <4>2, <5>2 DEF HeldCompatible, Incompatible
          <6>2. held[fileid[d]]["RESERVED"] # "write"
            BY <3>4, <4>1, <5>2 DEF Denied, Incompatible
          <6>. QED
            BY <6>1, <6>2 DEF Granted
        <5>. QED
          BY <5>1, <5>2
      <4>4. Abstract!Reserve(c)
        BY <3>3, <3>7, <4>3 DEF Abstract!Reserve
      <4>. QED
        BY <4>4 DEF Abstract!Next
    <3>8. CASE /\ Granted(c) \in {SHARED_LOCK, RESERVED_LOCK}
               /\ Granted(c)' = EXCLUSIVE_LOCK
               /\ pc[c] = "lock_upper" /\ want[c] = EXCLUSIVE_LOCK
      <4>1. ~Denied(i, "SHARED", "write")
        BY <3>5, <3>8 DEF Regions, IsLock, LockMode
      <4>2. ASSUME NEW d \in Conn \ {c} PROVE Granted(d) = NO_LOCK
        BY <3>4, <4>1 DEF Denied, Incompatible
      <4>3. Abstract!Exclude(c)
        BY <3>3, <3>8, <4>2 DEF Abstract!Exclude
      <4>. QED
        BY <4>3 DEF Abstract!Next
    <3>. QED
      BY <2>2, <2>3, <2>4, <3>2, <3>6, <3>7, <3>8, GrantedStep
  <2>5. ASSUME NEW c \in Conn,
               \/ Refused(c) \/ Severed(c) \/ Open(c) \/ Close(c) \/ Reconnect(c) \/ Crash(c)
               \/ \E l \in Level : Lock(c, l) \/ Unlock(c, l)
        PROVE  [Abstract!Next]_lv
    <3>1. \A d \in Conn \ {c} : Granted(d)' = Granted(d)
      BY <2>5, GrantedOthers
    <3>2. CASE Severed(c) \/ Close(c) \/ Reconnect(c) \/ Crash(c)
      <4>1. ~Attached(c)'
        BY <3>2, NoIdAssumption DEF IInv, TypeOK, Severed, Close, Reconnect, Crash, Attached
      <4>2. Granted(c)' = NO_LOCK
        BY <4>1 DEF Granted
      <4>. QED
        BY <2>1, <2>2, <2>3, <3>1, <4>2 DEF Level
    <3>3. CASE Open(c)
      <4>1. ServerOK(c)' /\ pc'[c] = "idle" /\ eFileLock'[c] = NO_LOCK
        BY <3>3, OpenOwn DEF IInv, CallOK, Open, TypeOK
      <4>2. Granted(c)' \in {NO_LOCK, SHARED_LOCK}
        BY <4>1 DEF ServerOK, Holds, Granted
      <4>3. Granted(c) = NO_LOCK
        BY <3>3, NoIdAssumption DEF Open, Attached, Granted
      <4>4. CASE Granted(c)' = NO_LOCK
        BY <2>1, <2>2, <2>3, <3>1, <4>4 DEF Level
      <4>5. CASE Granted(c)' = SHARED_LOCK
        <5>1. ASSUME NEW d \in Conn PROVE Granted(d) # EXCLUSIVE_LOCK
          <6>1. CASE d = c
            BY <4>3, <6>1
          <6>2. CASE d # c
            <7>1. /\ TypeOK /\ HeldCompatible /\ IdsDistinct /\ held' = held
                  /\ "SHARED" \in Region
              BY <3>3 DEF IInv, Open, Region
            <7>2. Attached(c)' /\ held[fileid'[c]]["SHARED"] # "none"
              BY <4>5, <7>1 DEF Granted
            <7>3. fileid'[c] \in ClientId
              BY <3>3, <7>1, NoIdAssumption DEF Open, TypeOK
            <7>. SUFFICES ASSUME Attached(d), held[fileid[d]]["SHARED"] = "write" PROVE FALSE
              BY DEF Granted
            <7>4. fileid[d] \in ClientId /\ fileid[d] # fileid'[c]
              <8>1. fileid'[c] = session[c] \/ Fresh(fileid'[c])
                BY <3>3, <7>1 DEF Open, TypeOK
              <8>. QED
                BY <6>2, <7>1, <7>3, <8>1 DEF Attached, IdsDistinct, Fresh, TypeOK
            <7>. QED
              BY <7>1, <7>2, <7>3, <7>4 DEF HeldCompatible, Incompatible
          <6>. QED
            BY <6>1, <6>2
        <5>2. Abstract!Share(c)
          BY <3>1, <4>3, <4>5, <5>1 DEF Abstract!Share
        <5>. QED
          BY <5>2 DEF Abstract!Next
      <4>. QED
        BY <4>2, <4>4, <4>5
    <3>4. CASE Refused(c) \/ \E l \in Level : Lock(c, l) \/ Unlock(c, l)
      <4>1. Granted(c)' = Granted(c)
        BY <3>4 DEF Refused, Lock, Unlock, Granted, Attached
      <4>. QED
        BY <2>1, <2>2, <2>3, <3>1, <4>1 DEF Level
    <3>. QED
      BY <2>5, <3>2, <3>3, <3>4
  <2>6. ASSUME NEW j \in ClientId, Expire(j) PROVE [Abstract!Next]_lv
    <3>1. TypeOK /\ IdsDistinct
      BY DEF IInv
    <3>2. ASSUME NEW c \in Conn, fileid[c] # j PROVE Granted(c)' = Granted(c)
      <4>1. Attached(c)' <=> Attached(c)
        BY <2>6, <3>2 DEF Expire, Attached
      <4>2. fileid'[c] = fileid[c] /\ (Attached(c) => held'[fileid[c]] = held[fileid[c]])
        BY <2>6, <3>1, <3>2 DEF Expire, Attached, TypeOK
      <4>. QED
        BY <4>1, <4>2 DEF Granted
    <3>3. CASE \E c \in Conn : fileid[c] = j
      <4>1. PICK c \in Conn : fileid[c] = j
        BY <3>3
      <4>2. \A d \in Conn \ {c} : Granted(d)' = Granted(d)
        BY <3>1, <3>2, <4>1 DEF IdsDistinct
      <4>3. ~Attached(c)'
        BY <2>6, <4>1 DEF Expire, Attached
      <4>4. Granted(c)' = NO_LOCK
        BY <4>3 DEF Granted
      <4>. QED
        BY <2>1, <2>2, <2>3, <4>2, <4>4 DEF Level
    <3>4. CASE ~\E c \in Conn : fileid[c] = j
      BY <3>2, <3>4
    <3>. QED
      BY <3>3, <3>4
  <2>7. CASE UNCHANGED vars
    BY <2>7 DEF vars, Granted, Attached
  <2>8. \A c \in Conn : ~ReplyLost(c)
    BY DEF ReplyLost, Reliable
  <2>. QED
    BY <2>4, <2>5, <2>6, <2>7, <2>8 DEF Next
<1>. QED
  BY <1>1, <1>2, Inductive, PTL DEF Spec, Implements, Abstract!Spec

\* Whoever behaves as SQLite's lock model asks keeps a writer alone with the file,
\* and announces one writer at a time, however many connections there are.
THEOREM AbstractExcludes == Abstract!Spec => []Abstract!Exclusion
<1>. DEFINE lv == [c \in Conn |-> Granted(c)]
            Inv == Abstract!TypeOK /\ Abstract!Exclusion
            To(c, l) == lv' = [lv EXCEPT ![c] = l]
            May(c, l) ==
              /\ l > SHARED_LOCK => \A d \in Conn \ {c} : Granted(d) <= SHARED_LOCK
              /\ l = EXCLUSIVE_LOCK => \A d \in Conn \ {c} : Granted(d) = NO_LOCK
              /\ l <= Granted(c) \/ \A d \in Conn \ {c} : Granted(d) # EXCLUSIVE_LOCK
<1>. USE DEF Abstract!NO_LOCK, Abstract!SHARED_LOCK, Abstract!RESERVED_LOCK,
             Abstract!EXCLUSIVE_LOCK, Abstract!Level, NO_LOCK, SHARED_LOCK,
             RESERVED_LOCK, EXCLUSIVE_LOCK
<1>1. Abstract!Init => Inv
  BY DEF Abstract!Init, Abstract!TypeOK, Abstract!Exclusion
<1>2. Inv /\ [Abstract!Next]_lv => Inv'
  <2>. SUFFICES ASSUME Inv, [Abstract!Next]_lv PROVE Inv'
    OBVIOUS
  <2>. HIDE DEF lv
  <2>0. lv = [c \in Conn |-> Granted(c)] /\ lv' = [c \in Conn |-> Granted(c)']
    BY DEF lv
  <2>1. \A d \in Conn : Granted(d) \in Abstract!Level
    BY DEF Abstract!TypeOK
  <2>2. ASSUME NEW c \in Conn, NEW l \in Abstract!Level, To(c, l), May(c, l)
        PROVE  Inv'
    <3>1. \A d \in Conn : Granted(d)' = IF d = c THEN l ELSE Granted(d)
      BY <2>0, <2>2
    <3>2. \A d \in Conn : Granted(d)' \in Abstract!Level
      BY <2>1, <3>1
    <3>3. Abstract!TypeOK'
      BY <3>2 DEF Abstract!TypeOK
    <3>4. \A a, b \in Conn : a # b => /\ Granted(a) = EXCLUSIVE_LOCK => Granted(b) = NO_LOCK
                                      /\ Granted(a) > SHARED_LOCK => Granted(b) <= SHARED_LOCK
      BY DEF Abstract!Exclusion
    <3>5. \A a, b \in Conn : a # b => /\ Granted(a)' = EXCLUSIVE_LOCK => Granted(b)' = NO_LOCK
                                      /\ Granted(a)' > SHARED_LOCK => Granted(b)' <= SHARED_LOCK
      BY <2>1, <2>2, <3>1, <3>4
    <3>6. Abstract!Exclusion'
      BY <3>5 DEF Abstract!Exclusion
    <3>. QED
      BY <3>3, <3>6
  <2>. HIDE DEF Inv, To, May
  <2>3. ASSUME NEW c \in Conn, Abstract!Share(c) PROVE Inv'
    <3>1. To(c, SHARED_LOCK)
      BY <2>3 DEF To, Abstract!Share, lv
    <3>2. \A d \in Conn : Granted(d) # EXCLUSIVE_LOCK
      BY <2>3 DEF Abstract!Share
    <3>. QED
      <4>1. May(c, SHARED_LOCK)
        BY <3>2 DEF May
      <4>. QED
        BY <2>2, <3>1, <4>1
  <2>4. ASSUME NEW c \in Conn, Abstract!Reserve(c) PROVE Inv'
    <3>1. To(c, RESERVED_LOCK)
      BY <2>4 DEF To, Abstract!Reserve, lv
    <3>2. \A d \in Conn \ {c} : Granted(d) <= SHARED_LOCK
      BY <2>4 DEF Abstract!Reserve
    <3>3. \A d \in Conn \ {c} : Granted(d) # EXCLUSIVE_LOCK
      BY <2>1, <3>2
    <3>. QED
      <4>1. May(c, RESERVED_LOCK)
        BY <3>2, <3>3 DEF May
      <4>. QED
        BY <2>2, <3>1, <4>1
  <2>5. ASSUME NEW c \in Conn, Abstract!Exclude(c) PROVE Inv'
    <3>1. To(c, EXCLUSIVE_LOCK)
      BY <2>5 DEF To, Abstract!Exclude, lv
    <3>2. \A d \in Conn \ {c} : Granted(d) = NO_LOCK
      BY <2>5 DEF Abstract!Exclude
    <3>. QED
      <4>1. May(c, EXCLUSIVE_LOCK)
        BY <3>2 DEF May
      <4>. QED
        BY <2>2, <3>1, <4>1
  <2>6. ASSUME NEW c \in Conn, NEW l \in Abstract!Level, Abstract!Lower(c, l) PROVE Inv'
    <3>1. To(c, l)
      BY <2>6 DEF To, Abstract!Lower, lv
    <3>2. l < Granted(c)
      BY <2>6 DEF Abstract!Lower
    <3>3. \A d \in Conn \ {c} : /\ Granted(c) > SHARED_LOCK => Granted(d) <= SHARED_LOCK
                                /\ Granted(c) = EXCLUSIVE_LOCK => Granted(d) = NO_LOCK
      BY DEF Inv, Abstract!Exclusion
    <3>4. l > SHARED_LOCK => \A d \in Conn \ {c} : Granted(d) <= SHARED_LOCK
      BY <2>1, <3>2, <3>3
    <3>5. l # EXCLUSIVE_LOCK /\ l <= Granted(c)
      BY <2>1, <3>2
    <3>. QED
      <4>1. May(c, l)
        BY <3>4, <3>5 DEF May
      <4>. QED
        BY <2>2, <3>1, <4>1
  <2>7. CASE UNCHANGED lv
    BY <2>0, <2>7 DEF Inv, Abstract!TypeOK, Abstract!Exclusion
  <2>. QED
    BY <2>3, <2>4, <2>5, <2>6, <2>7 DEF Abstract!Next
<1>. QED
  BY <1>1, <1>2, PTL DEF Abstract!Spec

\* The locks the server grants exclude each other as SQLite's levels do.
THEOREM ExclusionHolds == ASSUME Reliable PROVE Spec => []Abstract!Exclusion
BY Refinement, AbstractExcludes, PTL DEF Implements
=============================================================================
