--------------------------- MODULE KeyPoolProofs ---------------------------
(***************************************************************************)
(* Proofs about KeyPool, for every set of keys and callers, every reserve, *)
(* failure threshold and set of provider answers.                          *)
(***************************************************************************)
EXTENDS KeyPool, TLAPS

\* An actor that is past its choice of a key has one.
KeyInUse ==
    \A a \in Actors :
      pc[a] \notin {"idle", "ready", "queued", "syncing"} => key[a] \in Keys

TypeInv == TypeOK /\ KeyInUse

LEMMA MessageTypes ==
    /\ \A s \in Statuses, f, u, l \in Nat :
         /\ Message(s, f, u, l) \in Messages
         /\ Message(s, f, u, l).status = s
         /\ Message(s, f, u, l).fails = f
    /\ NoMessage \in Messages
    /\ NoMessage.fails = 0
BY DEF Message, NoMessage, Messages, Statuses

LEMMA RowTypes ==
    /\ \A s \in [Keys -> Statuses], t, l, f \in Counters :
         /\ Rows(s, t, l, f) \in [status : [Keys -> Statuses], total : Counters,
                                  limit : Counters, fails : Counters]
         /\ Rows(s, t, l, f).status = s
         /\ Rows(s, t, l, f).fails = f
    /\ Zero \in Counters
    /\ NoRows \in [status : [Keys -> Statuses], total : Counters,
                   limit : Counters, fails : Counters]
    /\ \A k \in Keys : NoRows.status[k] = "healthy" /\ NoRows.fails[k] = 0
BY DEF Rows, NoRows, Zero, Counters, Statuses

LEMMA CandidatesUsable == Candidates \subseteq UsableKeys /\ UsableKeys \subseteq Keys
BY DEF Candidates, UsableKeys

\* A selection keeps the types, and gives the actor a key when it succeeds.
LEMMA SelectTypes ==
    ASSUME TypeInv, NEW a \in Actors, NEW otherwise \in {"ready", "queued"},
           SelectAvailableKey(a, otherwise)
    PROVE  /\ status' \in [Keys -> Statuses] /\ dStatus' \in [Keys -> Statuses]
           /\ dFails' \in Counters
           /\ active' \in Keys \cup {NoKey}
           /\ pc' \in [Actors -> Positions]
           /\ key' \in [Actors -> Keys \cup {NoKey}]
           /\ KeyInUse'
           /\ UNCHANGED <<used, limit, pending, fails, dTotal, dLimit, dHourly>>
<1> USE DEF TypeInv, TypeOK, SelectAvailableKey
<1>1. /\ status' \in [Keys -> Statuses] /\ dStatus' \in [Keys -> Statuses]
      /\ dFails' \in Counters
  BY DEF Statuses, Counters
<1>2. /\ active' \in Keys \cup {NoKey}
      /\ pc' \in [Actors -> Positions]
      /\ key' \in [Actors -> Keys \cup {NoKey}]
  BY CandidatesUsable DEF Positions
<1>3. KeyInUse'
  BY CandidatesUsable DEF KeyInUse
<1> QED
  BY <1>1, <1>2, <1>3

LEMMA IncrementTypes ==
    ASSUME TypeInv, NEW k \in Keys, IncrementUsage(k)
    PROVE  /\ made' \in Counters /\ used' \in Counters /\ pending' \in Counters
           /\ status' \in [Keys -> Statuses]
           /\ active' \in Keys \cup {NoKey}
           /\ UNCHANGED <<limit, fails>>
BY DEF TypeInv, TypeOK, IncrementUsage, Counters, Statuses

\* The outcomes of a call on key k keep the types.
LEMMA RecordTypes ==
    ASSUME TypeInv, NEW a \in Actors, NEW k \in Keys, NEW next \in Returns,
           next \in {"opened", "reported"} => k = key[a],
           RecordSuccess(a, k, next) \/ RecordFailure(a, k, next),
           (key' = key /\ k = key[a]) \/ key' = [key EXCEPT ![a] = k]
    PROVE  /\ status' \in [Keys -> Statuses] /\ fails' \in Counters
           /\ active' \in Keys \cup {NoKey}
           /\ pc' \in [Actors -> Positions]
           /\ key' \in [Actors -> Keys \cup {NoKey}]
           /\ ret' \in [Actors -> Returns]
           /\ msg' \in [Actors -> Messages]
           /\ KeyInUse'
           /\ UNCHANGED <<used, limit, pending>>
<1> USE DEF TypeInv, TypeOK
<1>1. /\ key' \in [Actors -> Keys \cup {NoKey}]
      /\ key'[a] = k /\ \A b \in Actors \ {a} : key'[b] = key[b]
  OBVIOUS
<1>2. CASE RecordSuccess(a, k, next)
  <2>1. status' \in [Keys -> Statuses] /\ fails' \in Counters
    BY <1>2 DEF RecordSuccess, Statuses, Counters
  <2>2. pc' \in [Actors -> Positions] /\ ret' \in [Actors -> Returns]
    BY <1>2 DEF RecordSuccess, Positions, Returns
  <2>3. msg' \in [Actors -> Messages]
    BY <1>2, MessageTypes DEF RecordSuccess, Statuses
  <2>4. KeyInUse'
    BY <1>1, <1>2 DEF RecordSuccess, KeyInUse
  <2> QED
    BY <1>1, <1>2, <2>1, <2>2, <2>3, <2>4 DEF RecordSuccess
<1>3. CASE RecordFailure(a, k, next)
  <2>1. status' \in [Keys -> Statuses] /\ fails' \in Counters
    BY <1>3 DEF RecordFailure, Statuses, Counters
  <2>2. /\ pc' \in [Actors -> Positions] /\ ret' \in [Actors -> Returns]
        /\ active' \in Keys \cup {NoKey}
    BY <1>3 DEF RecordFailure, Positions, Returns
  <2>3. msg' \in [Actors -> Messages]
    <3> DEFINE now == IF fails[k] + 1 >= FailureThreshold THEN "unhealthy" ELSE status[k]
    <3>1. now \in Statuses /\ fails[k] + 1 \in Nat /\ 0 \in Nat
      BY DEF Statuses, Counters
    <3>2. Message(now, fails[k] + 1, 0, 0) \in Messages
      BY <3>1, MessageTypes
    <3>3. msg' = [msg EXCEPT ![a] = Message(now, fails[k] + 1, 0, 0)]
      BY <1>3 DEF RecordFailure
    <3> QED
      BY <3>2, <3>3
  <2>4. KeyInUse'
    BY <1>1, <1>3 DEF RecordFailure, KeyInUse
  <2> QED
    BY <1>1, <1>3, <2>1, <2>2, <2>3, <2>4 DEF RecordFailure
<1> QED
  BY <1>2, <1>3

LEMMA TypeCallerStep ==
    ASSUME TypeInv, NEW c \in Callers, CallerStep(c)
    PROVE  TypeInv'
<1> USE DEF TypeInv, TypeOK, memory, database, revival, flushes, reloading, Actors
<1>1. CASE StartRequest(c)
  BY <1>1 DEF StartRequest, Positions, KeyInUse
<1>2. CASE ActiveKey(c)
  BY <1>2, SelectTypes DEF ActiveKey
<1>3. CASE ReviveSkipped(c)
  BY <1>3, SelectTypes DEF ReviveSkipped
<1>4. CASE ReviveStart(c)
  BY <1>4 DEF ReviveStart, Positions, KeyInUse
<1>5. CASE ReviveEnd(c)
  BY <1>5, SelectTypes DEF ReviveEnd
<1>6. CASE RequestSucceeded(c)
  <2>1. key[c] \in Keys /\ "idle" \in Returns
    BY <1>6 DEF RequestSucceeded, KeyInUse, Returns
  <2> QED
    BY <1>6, <2>1, RecordTypes DEF RequestSucceeded
<1>7. CASE RequestOverQuota(c)
  BY <1>7 DEF RequestOverQuota, Positions, KeyInUse
<1>8. CASE GiveUp(c)
  <2>1. CASE /\ last[c] # NoKey
             /\ RecordFailure(c, last[c], "idle")
             /\ key' = [key EXCEPT ![c] = last[c]]
    <3>1. last[c] \in Keys /\ "idle" \in Returns
      BY <2>1 DEF Returns
    <3> QED
      BY <1>8, <2>1, <3>1, RecordTypes DEF GiveUp
  <2>2. CASE pc' = [pc EXCEPT ![c] = "idle"] /\ UNCHANGED <<memory, key, msg, ret>>
    BY <1>8, <2>2 DEF GiveUp, Positions, KeyInUse
  <2> QED
    BY <1>8, <2>1, <2>2 DEF GiveUp
<1>9. CASE Disconnected(c)
  BY <1>9, MessageTypes DEF Disconnected, Positions, Returns, KeyInUse
<1> QED
  BY <1>1, <1>2, <1>3, <1>4, <1>5, <1>6, <1>7, <1>8, <1>9 DEF CallerStep

LEMMA TypeCallStep ==
    ASSUME TypeInv, NEW a \in Actors, CallStep(a)
    PROVE  TypeInv'
<1> USE DEF TypeInv, TypeOK, memory, database, revival, flushes, reloading
<1>0. AfterFailure(a) \in Returns \ {"opened", "reported"}
  BY DEF AfterFailure, Returns
<1>1. CASE CreateSession(a) \/ Send(a)
  <2>1. key[a] \in Keys
    BY <1>1 DEF CreateSession, Send, KeyInUse
  <2>2. KeyInUse'
    BY <1>1, <2>1 DEF CreateSession, Send, KeyInUse
  <2>3. /\ made' \in Counters /\ used' \in Counters /\ pending' \in Counters
        /\ status' \in [Keys -> Statuses]
        /\ active' \in Keys \cup {NoKey}
        /\ UNCHANGED <<limit, fails>>
    BY <1>1, <2>1, IncrementTypes DEF CreateSession, Send
  <2> QED
    BY <1>1, <2>1, <2>2, <2>3 DEF CreateSession, Send, Positions
<1>2. CASE SessionCreated(a)
  <2>1. key[a] \in Keys /\ "opened" \in Returns
    BY <1>2 DEF SessionCreated, KeyInUse, Returns
  <2> QED
    BY <1>0, <1>2, <2>1, RecordTypes DEF SessionCreated
<1>3. CASE SessionRefused(a)
  <2>1. key[a] \in Keys
    BY <1>3 DEF SessionRefused, KeyInUse
  <2> QED
    BY <1>0, <1>3, <2>1, RecordTypes DEF SessionRefused
<1>4. CASE CallDropped(a)
  BY <1>4 DEF CallDropped, AfterFailure, Positions, KeyInUse
<1>5. CASE UpdateStatus(a)
  <2>1. key[a] \in Keys /\ msg[a] \in Messages
    BY <1>5 DEF UpdateStatus, KeyInUse
  <2>2. dStatus' \in [Keys -> Statuses] /\ dFails' \in Counters
    BY <1>5, <2>1 DEF UpdateStatus, Messages, Counters
  <2>3. KeyInUse'
    BY <1>5, <2>1 DEF UpdateStatus, KeyInUse
  <2>4. pc' \in [Actors -> Positions] /\ ret' \in [Actors -> Returns]
    BY <1>5 DEF UpdateStatus, Positions, Returns
  <2> QED
    BY <1>5, <2>2, <2>3, <2>4, MessageTypes DEF UpdateStatus
<1> QED
  BY <1>1, <1>2, <1>3, <1>4, <1>5 DEF CallStep

LEMMA TypeSyncStep ==
    ASSUME TypeInv, NEW a \in Actors, SyncStep(a)
    PROVE  TypeInv'
<1> USE DEF TypeInv, TypeOK, memory, database, revival, flushes, reloading
<1>2. CASE SyncNext(a)
  BY <1>2 DEF SyncNext, Positions, KeyInUse
<1>3. CASE SyncEnd(a)
  BY <1>3 DEF SyncEnd, Positions, KeyInUse
<1>5. CASE ProbeFaulted(a)
  <2>1. key[a] \in Keys /\ "syncing" \in Returns
    BY <1>5 DEF ProbeFaulted, KeyInUse, Returns
  <2> QED
    BY <1>5, <2>1, RecordTypes DEF ProbeFaulted
<1>6. CASE ProbeAnswered(a)
  <2>1. key[a] \in Keys /\ "reported" \in Returns
    BY <1>6 DEF ProbeAnswered, KeyInUse, Returns
  <2> QED
    BY <1>6, <2>1, RecordTypes DEF ProbeAnswered
<1>7. CASE ApplyReport(a)
  <2> DEFINE now(u, l) == IF HasBudget(u, l) THEN "healthy" ELSE "limited"
  <2>1. PICK u \in Reports, l \in Limits :
          /\ used' = [used EXCEPT ![key[a]] = u]
          /\ limit' = [limit EXCEPT ![key[a]] = l]
          /\ status' = [status EXCEPT ![key[a]] = now(u, l)]
          /\ fails' = IF now(u, l) = "healthy"
                        THEN [fails EXCEPT ![key[a]] = 0] ELSE fails
          /\ active' = IF now(u, l) = "limited" /\ active = key[a]
                         THEN NoKey ELSE active
          /\ msg' = [msg EXCEPT ![a] = Message(now(u, l), 0, u, l)]
    BY <1>7 DEF ApplyReport
  <2>2. u \in Nat /\ l \in Nat /\ now(u, l) \in Statuses /\ 0 \in Nat
    BY PoolAssumption DEF Statuses
  <2>3. Message(now(u, l), 0, u, l) \in Messages
    BY <2>2, MessageTypes
  <2>4. /\ used' \in Counters /\ limit' \in Counters /\ fails' \in Counters
        /\ status' \in [Keys -> Statuses]
        /\ active' \in Keys \cup {NoKey}
    BY <2>1, <2>2 DEF Counters
  <2>5. KeyInUse' /\ pc' \in [Actors -> Positions]
    BY <1>7 DEF ApplyReport, KeyInUse, Positions
  <2> QED
    BY <1>7, <2>1, <2>3, <2>4, <2>5 DEF ApplyReport
<1>8. CASE ReportMissing(a)
  BY <1>8 DEF ReportMissing, Positions, KeyInUse
<1>9. CASE ApplyEstimate(a)
  <2>1. key[a] \in Keys
    BY <1>9 DEF ApplyEstimate, KeyInUse
  <2>2. PICK e \in 0 .. dHourly[key[a]] :
          /\ status' = [status EXCEPT ![key[a]] = "healthy"]
          /\ fails' = [fails EXCEPT ![key[a]] = 0]
          /\ used' = [used EXCEPT ![key[a]] = e]
          /\ msg' = [msg EXCEPT ![a] = Message("healthy", 0, e, limit[key[a]])]
    BY <1>9 DEF ApplyEstimate
  <2>3. e \in Nat /\ limit[key[a]] \in Nat /\ "healthy" \in Statuses /\ 0 \in Nat
    BY <2>1 DEF Counters, Statuses
  <2>4. Message("healthy", 0, e, limit[key[a]]) \in Messages
    BY <2>3, MessageTypes
  <2>5. /\ used' \in Counters /\ fails' \in Counters
        /\ status' \in [Keys -> Statuses]
    BY <2>2, <2>3 DEF Counters
  <2>6. KeyInUse' /\ pc' \in [Actors -> Positions]
    BY <1>9 DEF ApplyEstimate, KeyInUse, Positions
  <2> QED
    BY <1>9, <2>2, <2>4, <2>5, <2>6 DEF ApplyEstimate
<1>10. CASE EstimateRefused(a)
  BY <1>10 DEF EstimateRefused, Positions, KeyInUse
<1>11. CASE SaveAuthoritativeUsage(a)
  <2>1. key[a] \in Keys /\ msg[a] \in Messages
    BY <1>11 DEF SaveAuthoritativeUsage, KeyInUse
  <2>2. /\ dStatus' \in [Keys -> Statuses] /\ dTotal' \in Counters
        /\ dLimit' \in Counters /\ dFails' \in Counters
    <3>1. /\ msg[a].status \in Statuses /\ msg[a].used \in Nat
          /\ msg[a].limit \in Nat
      BY <2>1 DEF Messages
    <3>2. \/ UNCHANGED <<dTotal, dLimit, dStatus, dFails>>
          \/ /\ dTotal' = [dTotal EXCEPT ![key[a]] = msg[a].used]
             /\ dLimit' = [dLimit EXCEPT ![key[a]] = msg[a].limit]
             /\ dStatus' = [dStatus EXCEPT ![key[a]] = msg[a].status]
             /\ dFails' = [dFails EXCEPT ![key[a]] = 0] \/ dFails' = dFails
      BY <1>11 DEF SaveAuthoritativeUsage
    <3>3. dStatus' \in [Keys -> Statuses]
      BY <3>1, <3>2
    <3>4. dTotal' \in Counters /\ dLimit' \in Counters
      BY <3>1, <3>2 DEF Counters
    <3>5. dFails' \in Counters
      <4>1. dFails' = [dFails EXCEPT ![key[a]] = 0] \/ dFails' = dFails
        BY <1>11 DEF SaveAuthoritativeUsage
      <4>2. dFails \in [Keys -> Nat] /\ 0 \in Nat
        BY DEF Counters
      <4>3. CASE dFails' = [dFails EXCEPT ![key[a]] = 0]
        BY <2>1, <4>2, <4>3 DEF Counters
      <4> QED
        BY <4>1, <4>2, <4>3 DEF Counters
    <3> QED
      BY <3>3, <3>4, <3>5
  <2>3. KeyInUse' /\ pc' \in [Actors -> Positions]
    BY <1>11 DEF SaveAuthoritativeUsage, KeyInUse, Positions
  <2> QED
    BY <1>11, <2>2, <2>3, MessageTypes DEF SaveAuthoritativeUsage
<1> QED
  BY <1>2, <1>3, <1>5, <1>6, <1>7, <1>8, <1>9, <1>10, <1>11 DEF SyncStep

LEMMA TypeFlushStep ==
    ASSUME TypeInv, NEW f \in Flushers, FlushStep(f)
    PROVE  TypeInv'
<1> USE RowTypes, ActorsAssumption DEF TypeInv, TypeOK, revival, flushes, reloading, actors
<1>0. ASSUME FlushWritten(f)
      PROVE  /\ dHourly' \in Counters /\ dTotal' \in Counters
             /\ dStatus' \in [Keys -> Statuses]
             /\ UNCHANGED <<dLimit, dFails>>
  BY <1>0 DEF FlushWritten, Counters, Statuses
<1>1. CASE FlushTake(f)
  BY <1>1 DEF FlushTake, database, KeyInUse
<1>2. CASE FlushCommitted(f)
  <2>1. KeyInUse' /\ pc' \in [Actors -> Positions] /\ todo' \in [Actors -> SUBSET Keys]
    BY <1>2 DEF FlushCommitted, KeyInUse, Positions, Actors
  <2> QED
    BY <1>0, <1>2, <2>1 DEF FlushCommitted, memory
<1>3. CASE FlushFailed(f)
  <2>1. pending' \in Counters
    BY <1>3 DEF FlushFailed, Counters
  <2>2. /\ dHourly' \in Counters /\ dTotal' \in Counters
        /\ dStatus' \in [Keys -> Statuses]
        /\ UNCHANGED <<dLimit, dFails>>
    BY <1>0, <1>3 DEF FlushFailed, database
  <2> QED
    BY <1>3, <2>1, <2>2 DEF FlushFailed, KeyInUse
<1> QED
  BY <1>1, <1>2, <1>3 DEF FlushStep

LEMMA TypeReloadStep == TypeInv /\ ReloadStep => TypeInv'
<1> SUFFICES ASSUME TypeInv, ReloadStep PROVE TypeInv'
  OBVIOUS
<1> USE RowTypes DEF TypeInv, TypeOK, KeyInUse, memory, database, revival,
                     actors, flushes
<1>1. CASE LoadKeys
  BY <1>1 DEF LoadKeys
<1>2. CASE LoadKeysFailed
  BY <1>2 DEF LoadKeysFailed
<1>3. CASE CopyPending
  BY <1>3 DEF CopyPending
<1>4. CASE InstallKeys
  BY <1>4 DEF InstallKeys
<1>5. CASE ReloadDropped
  <2>1. FlushWritten("reload") => /\ dHourly' \in Counters /\ dTotal' \in Counters
                                  /\ dStatus' \in [Keys -> Statuses]
                                  /\ UNCHANGED <<dLimit, dFails>>
    BY DEF FlushWritten, Counters, Statuses, Flushers
  <2>2. /\ dHourly' \in Counters /\ dTotal' \in Counters
        /\ dStatus' \in [Keys -> Statuses]
        /\ dLimit' \in Counters /\ dFails' \in Counters
    BY <1>5, <2>1 DEF ReloadDropped
  <2>3. /\ flushing' \in [Flushers -> BOOLEAN] /\ batch' \in [Flushers -> Counters]
        /\ rpc' = "idle" /\ rows' = NoRows /\ snap' = Zero
        /\ UNCHANGED <<memory, revival, actors, made>>
    BY <1>5 DEF ReloadDropped
  <2> QED
    BY <2>2, <2>3
<1> QED
  BY <1>1, <1>2, <1>3, <1>4, <1>5 DEF ReloadStep

LEMMA TypeStep == TypeInv /\ [Next]_vars => TypeInv'
<1> SUFFICES ASSUME TypeInv, [Next]_vars PROVE TypeInv'
  OBVIOUS
<1>1. CASE \E c \in Callers : CallerStep(c)
  BY <1>1, TypeCallerStep
<1>2. CASE \E a \in Actors : CallStep(a) \/ SyncStep(a)
  BY <1>2, TypeCallStep, TypeSyncStep
<1>3. CASE \E f \in Flushers : FlushStep(f)
  BY <1>3, TypeFlushStep
<1>4. CASE ReloadStep
  BY <1>4, TypeReloadStep
<1>5. CASE CooldownElapsed
  BY <1>5 DEF CooldownElapsed, TypeInv, TypeOK, KeyInUse, memory, database,
              actors, flushes, reloading
<1>6. CASE UNCHANGED vars
  BY <1>6 DEF vars, TypeInv, TypeOK, KeyInUse, memory, database, revival,
              actors, flushes, reloading
<1> QED
  BY <1>1, <1>2, <1>3, <1>4, <1>5, <1>6 DEF Next

LEMMA TypeInvariant == Spec => []TypeInv
<1>1. Init => TypeInv
  <2> SUFFICES ASSUME Init PROVE TypeInv
    OBVIOUS
  <2>1. Zero \in Counters /\ dLimit \in Counters
    BY PoolAssumption DEF Init, Zero, Counters
  <2> QED
    BY <2>1, RowTypes, MessageTypes
       DEF Init, TypeInv, TypeOK, KeyInUse, Statuses, Positions, Returns, Flushers
<1> QED
  BY <1>1, TypeStep, PTL DEF Spec

\* The pool's state, the rows and every message in flight are well typed.
THEOREM TypeCorrect == Spec => []TypeOK
BY TypeInvariant, PTL DEF TypeInv

----------------------------------------------------------------------------
\* Steps that change a key's health leave the active key usable or clear it.

LEMMA SelectKeepsActive ==
    ASSUME TypeInv, ActiveKeyUsable, NEW a \in Actors, NEW otherwise,
           SelectAvailableKey(a, otherwise)
    PROVE  ActiveKeyUsable'
<1>1. status' = status /\ UNCHANGED <<used, limit>>
  BY KeysAssumption DEF SelectAvailableKey, ActiveKeyUsable
<1>2. UsableKeys' = UsableKeys
  BY <1>1 DEF UsableKeys
<1> QED
  BY <1>2, CandidatesUsable DEF SelectAvailableKey, ActiveKeyUsable

LEMMA IncrementKeepsActive ==
    ASSUME TypeInv, ActiveKeyUsable, NEW k \in Keys, IncrementUsage(k)
    PROVE  ActiveKeyUsable'
<1> SUFFICES ASSUME active' # NoKey PROVE active' \in UsableKeys'
  BY DEF ActiveKeyUsable
<1>1. active' = active /\ active \in UsableKeys /\ active \in Keys
  BY DEF IncrementUsage, ActiveKeyUsable, UsableKeys
<1>2. CASE active = k
  BY <1>1, <1>2 DEF IncrementUsage, UsableKeys, HasBudget, TypeInv, TypeOK, Counters
<1>3. CASE active # k
  BY <1>1, <1>3 DEF IncrementUsage, UsableKeys, HasBudget, TypeInv, TypeOK, Counters
<1> QED
  BY <1>2, <1>3

LEMMA RecordKeepsActive ==
    ASSUME TypeInv, ActiveKeyUsable, NEW a \in Actors, NEW k \in Keys, NEW next,
           RecordSuccess(a, k, next) \/ RecordFailure(a, k, next)
    PROVE  ActiveKeyUsable'
<1> SUFFICES ASSUME active' # NoKey PROVE active' \in UsableKeys'
  BY DEF ActiveKeyUsable
<1>1. active' = active /\ active \in UsableKeys /\ active \in Keys
  BY DEF RecordSuccess, RecordFailure, ActiveKeyUsable, UsableKeys
<1>2. UNCHANGED <<used, limit>>
  BY DEF RecordSuccess, RecordFailure
<1>3. status'[active] = "healthy"
  BY <1>1 DEF RecordSuccess, RecordFailure, UsableKeys, TypeInv, TypeOK
<1> QED
  BY <1>1, <1>2, <1>3 DEF UsableKeys

LEMMA ActiveStep == TypeInv /\ ActiveKeyUsable /\ [Next]_vars => ActiveKeyUsable'
<1> SUFFICES ASSUME TypeInv, ActiveKeyUsable, [Next]_vars PROVE ActiveKeyUsable'
  OBVIOUS
<1> USE DEF memory
<1>0. ASSUME UNCHANGED <<status, used, limit, active>> PROVE ActiveKeyUsable'
  BY <1>0 DEF ActiveKeyUsable, UsableKeys
<1>1. ASSUME NEW c \in Callers, CallerStep(c) PROVE ActiveKeyUsable'
  <2>0. c \in Actors
    BY DEF Actors
  <2>1. CASE ActiveKey(c) \/ ReviveSkipped(c) \/ ReviveEnd(c)
    BY <2>0, <2>1, SelectKeepsActive DEF ActiveKey, ReviveSkipped, ReviveEnd
  <2>2. CASE RequestSucceeded(c)
    <3>1. key[c] \in Keys
      BY <2>0, <2>2 DEF RequestSucceeded, TypeInv, KeyInUse
    <3> QED
      BY <2>0, <2>2, <3>1, RecordKeepsActive DEF RequestSucceeded
  <2>3. CASE GiveUp(c)
    <3>1. last[c] \in Keys \cup {NoKey}
      BY <2>0 DEF TypeInv, TypeOK
    <3> QED
      BY <1>0, <2>0, <2>3, <3>1, RecordKeepsActive DEF GiveUp
  <2>4. CASE \/ StartRequest(c) \/ ReviveStart(c) \/ RequestOverQuota(c)
             \/ Disconnected(c)
    BY <1>0, <2>4 DEF StartRequest, ReviveStart, RequestOverQuota, Disconnected
  <2> QED
    BY <1>1, <2>1, <2>2, <2>3, <2>4 DEF CallerStep
<1>2. ASSUME NEW a \in Actors, CallStep(a) \/ SyncStep(a) PROVE ActiveKeyUsable'
  <2>1. CASE CreateSession(a) \/ Send(a)
    <3>1. key[a] \in Keys
      BY <2>1 DEF CreateSession, Send, TypeInv, KeyInUse
    <3> QED
      BY <2>1, <3>1, IncrementKeepsActive DEF CreateSession, Send
  <2>2. CASE \/ SessionCreated(a) \/ SessionRefused(a)
             \/ ProbeFaulted(a) \/ ProbeAnswered(a)
    <3>1. key[a] \in Keys
      BY <2>2 DEF SessionCreated, SessionRefused, ProbeFaulted, ProbeAnswered,
                  TypeInv, KeyInUse
    <3> QED
      BY <2>2, <3>1, RecordKeepsActive
         DEF SessionCreated, SessionRefused, ProbeFaulted, ProbeAnswered
  <2>3. CASE ApplyReport(a)
    BY <2>3 DEF ApplyReport, ActiveKeyUsable, UsableKeys, TypeInv, TypeOK, Counters
  <2>4. CASE ApplyEstimate(a)
    BY <2>4 DEF ApplyEstimate, ActiveKeyUsable, UsableKeys, TypeInv, TypeOK, Counters
  <2>5. CASE \/ UpdateStatus(a) \/ CallDropped(a) \/ SyncNext(a) \/ SyncEnd(a)
             \/ ReportMissing(a) \/ EstimateRefused(a) \/ SaveAuthoritativeUsage(a)
    BY <1>0, <2>5 DEF UpdateStatus, CallDropped, SyncNext, SyncEnd, ReportMissing,
                      EstimateRefused, SaveAuthoritativeUsage
  <2> QED
    BY <1>2, <2>1, <2>2, <2>3, <2>4, <2>5 DEF CallStep, SyncStep
<1>3. CASE \E f \in Flushers : FlushStep(f)
  BY <1>0, <1>3 DEF FlushStep, FlushTake, FlushCommitted, FlushFailed
<1>4. CASE ReloadStep
  BY <1>0, <1>4 DEF ReloadStep, LoadKeys, LoadKeysFailed, CopyPending,
                    InstallKeys, ReloadDropped, ActiveKeyUsable
<1>5. CASE CooldownElapsed \/ UNCHANGED vars
  BY <1>0, <1>5 DEF CooldownElapsed, vars
<1> QED
  BY <1>1, <1>2, <1>3, <1>4, <1>5 DEF Next

\* The active key is usable in every reachable state, so a selection never marks
\* a stale active key limited.
THEOREM ActiveUsable == Spec => []ActiveKeyUsable
<1>1. Init => ActiveKeyUsable
  BY DEF Init, ActiveKeyUsable
<1> QED
  BY <1>1, ActiveStep, TypeInvariant, PTL DEF Spec

----------------------------------------------------------------------------
\* A faulty key is quarantined in memory and in its row, in every status write
\* under way and in the rows a reload has read.
QuarantineInv ==
    /\ FaultyKeyQuarantined
    /\ \A a \in Actors : msg[a].fails >= FailureThreshold => msg[a].status # "healthy"
    /\ \A k \in Keys :
         rows.fails[k] >= FailureThreshold => rows.status[k] # "healthy"

\* What is in memory after a call's outcome, and the write it causes.
LEMMA RecordKeepsQuarantine ==
    ASSUME TypeInv, QuarantineInv, NEW a \in Actors, NEW k \in Keys, NEW next,
           RecordSuccess(a, k, next) \/ RecordFailure(a, k, next)
    PROVE  /\ \A j \in Keys : fails'[j] >= FailureThreshold => status'[j] # "healthy"
           /\ \A b \in Actors :
                msg'[b].fails >= FailureThreshold => msg'[b].status # "healthy"
<1> USE PoolAssumption DEF TypeInv, TypeOK, QuarantineInv, FaultyKeyQuarantined
<1>1. CASE RecordSuccess(a, k, next)
  <2> DEFINE now == IF status[k] = "unhealthy" THEN "healthy" ELSE status[k]
  <2>1. \A j \in Keys : fails'[j] >= FailureThreshold => status'[j] # "healthy"
    BY <1>1 DEF RecordSuccess, Counters
  <2>2. now \in Statuses /\ Message(now, 0, 0, 0).fails = 0
    <3>1. now \in Statuses /\ 0 \in Nat
      BY DEF Statuses
    <3> QED
      BY <3>1, MessageTypes
  <2>3. msg' = msg \/ msg' = [msg EXCEPT ![a] = Message(now, 0, 0, 0)]
    BY <1>1 DEF RecordSuccess
  <2> QED
    BY <2>1, <2>2, <2>3
<1>2. CASE RecordFailure(a, k, next)
  <2> DEFINE now == IF fails[k] + 1 >= FailureThreshold THEN "unhealthy" ELSE status[k]
             m == Message(now, fails[k] + 1, 0, 0)
  <2>1. \A j \in Keys : fails'[j] >= FailureThreshold => status'[j] # "healthy"
    BY <1>2 DEF RecordFailure, Counters
  <2>2. now \in Statuses /\ fails[k] + 1 \in Nat /\ 0 \in Nat
    BY DEF Statuses, Counters
  <2>3. m.fails = fails[k] + 1 /\ m.status = now
    BY DEF Message
  <2>4. m.fails >= FailureThreshold => m.status # "healthy"
    BY <2>3
  <2>5. msg' = [msg EXCEPT ![a] = m]
    BY <1>2 DEF RecordFailure
  <2> QED
    BY <2>1, <2>4, <2>5
<1> QED
  BY <1>1, <1>2

LEMMA QuarantineCallerStep ==
    ASSUME TypeInv, QuarantineInv, NEW c \in Callers, CallerStep(c)
    PROVE  QuarantineInv'
<1> USE DEF QuarantineInv, FaultyKeyQuarantined, memory, database, reloading
<1>0. c \in Actors
  BY DEF Actors
<1>1. CASE ActiveKey(c) \/ ReviveSkipped(c) \/ ReviveEnd(c)
  <2>1. PICK otherwise : SelectAvailableKey(c, otherwise)
    BY <1>1 DEF ActiveKey, ReviveSkipped, ReviveEnd
  <2>2. UNCHANGED <<msg, rows, fails>>
    BY <1>1 DEF ActiveKey, ReviveSkipped, ReviveEnd, SelectAvailableKey
  <2>3. \A k \in Keys : /\ status'[k] = status[k] \/ status'[k] = "limited"
                        /\ \/ dStatus'[k] = dStatus[k] /\ dFails'[k] = dFails[k]
                           \/ dStatus'[k] = "limited"
    BY <2>1 DEF SelectAvailableKey, TypeInv, TypeOK, Counters
  <2> QED
    BY <2>2, <2>3
<1>2. CASE RequestSucceeded(c)
  <2>1. key[c] \in Keys
    BY <1>0, <1>2 DEF RequestSucceeded, TypeInv, KeyInUse
  <2>2. UNCHANGED <<rows, dStatus, dFails>>
    BY <1>2 DEF RequestSucceeded
  <2>3. RecordSuccess(c, key[c], "idle")
    BY <1>2 DEF RequestSucceeded
  <2> QED
    BY <1>0, <2>1, <2>2, <2>3, RecordKeepsQuarantine
<1>5. CASE GiveUp(c)
  <2>1. UNCHANGED <<rows, dStatus, dFails>>
    BY <1>5 DEF GiveUp
  <2>2. CASE last[c] # NoKey /\ RecordFailure(c, last[c], "idle")
    <3>1. last[c] \in Keys
      BY <1>0, <2>2 DEF TypeInv, TypeOK
    <3> QED
      BY <1>0, <2>1, <2>2, <3>1, RecordKeepsQuarantine
  <2>3. CASE UNCHANGED <<memory, key, msg, ret>>
    BY <2>1, <2>3
  <2> QED
    BY <1>5, <2>2, <2>3 DEF GiveUp
<1>3. CASE Disconnected(c)
  <2>1. \A b \in Actors : msg'[b].fails >= FailureThreshold => msg'[b].status # "healthy"
    BY <1>3, MessageTypes, PoolAssumption DEF Disconnected, TypeInv, TypeOK
  <2> QED
    BY <1>3, <2>1 DEF Disconnected
<1>4. CASE StartRequest(c) \/ ReviveStart(c) \/ RequestOverQuota(c)
  BY <1>4 DEF StartRequest, ReviveStart, RequestOverQuota
<1> QED
  BY <1>1, <1>2, <1>3, <1>4, <1>5 DEF CallerStep

LEMMA QuarantineSyncStep ==
    ASSUME TypeInv, QuarantineInv, NEW a \in Actors, CallStep(a) \/ SyncStep(a)
    PROVE  QuarantineInv'
<1> USE PoolAssumption DEF QuarantineInv, FaultyKeyQuarantined, memory, database, reloading
<1>1. CASE CreateSession(a) \/ Send(a)
  <2>1. \A k \in Keys : status'[k] = status[k] \/ status'[k] = "limited"
    BY <1>1 DEF CreateSession, Send, IncrementUsage, TypeInv, TypeOK
  <2>2. UNCHANGED <<msg, rows, fails, dStatus, dFails>>
    BY <1>1 DEF CreateSession, Send, IncrementUsage
  <2> QED
    BY <2>1, <2>2
<1>2. CASE \/ SessionCreated(a) \/ SessionRefused(a)
           \/ ProbeFaulted(a) \/ ProbeAnswered(a)
  <2> USE DEF SessionCreated, SessionRefused, ProbeFaulted, ProbeAnswered
  <2>1. key[a] \in Keys
    BY <1>2 DEF TypeInv, KeyInUse
  <2>2. UNCHANGED <<rows, dStatus, dFails>>
    BY <1>2
  <2>3. PICK next : RecordSuccess(a, key[a], next) \/ RecordFailure(a, key[a], next)
    BY <1>2
  <2> QED
    BY <2>1, <2>2, <2>3, RecordKeepsQuarantine
<1>3. CASE ApplyReport(a)
  <2>1. PICK u \in Reports, l \in Limits, now \in {"healthy", "limited"} :
          /\ status' = [status EXCEPT ![key[a]] = now]
          /\ fails' = IF now = "healthy" THEN [fails EXCEPT ![key[a]] = 0] ELSE fails
          /\ msg' = [msg EXCEPT ![a] = Message(now, 0, u, l)]
    BY <1>3 DEF ApplyReport
  <2>2. now \in Statuses /\ u \in Nat /\ l \in Nat /\ 0 \in Nat
    BY DEF Statuses
  <2>3. Message(now, 0, u, l).fails = 0
    BY <2>2, MessageTypes
  <2>4. UNCHANGED <<rows, dStatus, dFails>>
    BY <1>3 DEF ApplyReport
  <2>5. \A k \in Keys : fails'[k] >= FailureThreshold => status'[k] # "healthy"
    BY <2>1 DEF TypeInv, TypeOK, Counters
  <2>6. \A b \in Actors : msg'[b].fails >= FailureThreshold => msg'[b].status # "healthy"
    BY <2>1, <2>3 DEF TypeInv, TypeOK
  <2> QED
    BY <2>4, <2>5, <2>6
<1>4. CASE ApplyEstimate(a)
  <2>0. key[a] \in Keys
    BY <1>4 DEF ApplyEstimate, TypeInv, KeyInUse
  <2>1. PICK e \in 0 .. dHourly[key[a]] :
          /\ status' = [status EXCEPT ![key[a]] = "healthy"]
          /\ fails' = [fails EXCEPT ![key[a]] = 0]
          /\ msg' = [msg EXCEPT ![a] = Message("healthy", 0, e, limit[key[a]])]
    BY <1>4 DEF ApplyEstimate
  <2>2. "healthy" \in Statuses /\ e \in Nat /\ limit[key[a]] \in Nat /\ 0 \in Nat
    BY <2>0 DEF Statuses, TypeInv, TypeOK, Counters
  <2>3. Message("healthy", 0, e, limit[key[a]]).fails = 0
    BY <2>2, MessageTypes
  <2>4. UNCHANGED <<rows, dStatus, dFails>>
    BY <1>4 DEF ApplyEstimate
  <2>5. \A k \in Keys : fails'[k] >= FailureThreshold => status'[k] # "healthy"
    BY <2>1 DEF TypeInv, TypeOK, Counters
  <2>6. \A b \in Actors : msg'[b].fails >= FailureThreshold => msg'[b].status # "healthy"
    BY <2>1, <2>3 DEF TypeInv, TypeOK
  <2> QED
    BY <2>4, <2>5, <2>6
<1>5. CASE UpdateStatus(a)
  <2>1. \A b \in Actors : msg'[b].fails >= FailureThreshold => msg'[b].status # "healthy"
    BY <1>5, MessageTypes DEF UpdateStatus, TypeInv, TypeOK
  <2>2. \A k \in Keys : dFails'[k] >= FailureThreshold => dStatus'[k] # "healthy"
    BY <1>5 DEF UpdateStatus, TypeInv, TypeOK, Counters
  <2>3. UNCHANGED <<rows, status, fails>>
    BY <1>5 DEF UpdateStatus
  <2> QED
    BY <2>1, <2>2, <2>3
<1>6. CASE SaveAuthoritativeUsage(a)
  <2>1. \A b \in Actors : msg'[b].fails >= FailureThreshold => msg'[b].status # "healthy"
    BY <1>6, MessageTypes DEF SaveAuthoritativeUsage, TypeInv, TypeOK
  <2>2. \A k \in Keys : dFails'[k] >= FailureThreshold => dStatus'[k] # "healthy"
    BY <1>6 DEF SaveAuthoritativeUsage, TypeInv, TypeOK, Counters
  <2>3. UNCHANGED <<rows, status, fails>>
    BY <1>6 DEF SaveAuthoritativeUsage
  <2> QED
    BY <2>1, <2>2, <2>3
<1>7. CASE \/ CallDropped(a) \/ SyncNext(a) \/ SyncEnd(a)
           \/ ReportMissing(a) \/ EstimateRefused(a)
  BY <1>7 DEF CallDropped, SyncNext, SyncEnd, ReportMissing, EstimateRefused
<1> QED
  BY <1>1, <1>2, <1>3, <1>4, <1>5, <1>6, <1>7 DEF CallStep, SyncStep

LEMMA QuarantineStep == TypeInv /\ QuarantineInv /\ [Next]_vars => QuarantineInv'
<1> SUFFICES ASSUME TypeInv, QuarantineInv, [Next]_vars PROVE QuarantineInv'
  OBVIOUS
<1> USE DEF QuarantineInv, FaultyKeyQuarantined, memory, database, actors, reloading
<1>1. CASE \E c \in Callers : CallerStep(c)
  BY <1>1, QuarantineCallerStep
<1>2. CASE \E a \in Actors : CallStep(a) \/ SyncStep(a)
  BY <1>2, QuarantineSyncStep
<1>3. ASSUME NEW f \in Flushers, FlushStep(f) PROVE QuarantineInv'
  <2>1. \A k \in Keys : dStatus'[k] = dStatus[k] \/ dStatus'[k] = "limited"
    BY <1>3 DEF FlushStep, FlushTake, FlushCommitted, FlushFailed, FlushWritten
  <2>2. UNCHANGED <<msg, rows, status, fails, dFails>>
    BY <1>3 DEF FlushStep, FlushTake, FlushCommitted, FlushFailed, FlushWritten
  <2> QED
    BY <2>1, <2>2
<1>4. CASE ReloadStep
  <2>1. CASE LoadKeys
    <3>1. rows' = Rows(dStatus, dTotal, dLimit, dFails)
      BY <2>1 DEF LoadKeys
    <3>2. rows'.status = dStatus /\ rows'.fails = dFails
      BY <3>1, RowTypes DEF TypeInv, TypeOK
    <3> QED
      BY <2>1, <3>2 DEF LoadKeys
  <2>2. CASE LoadKeysFailed \/ CopyPending
    BY <2>2 DEF LoadKeysFailed, CopyPending
  <2>3. CASE InstallKeys
    <3>1. /\ status' = rows.status /\ fails' = rows.fails /\ rows' = NoRows
          /\ UNCHANGED <<msg, dStatus, dFails>>
      BY <2>3 DEF InstallKeys
    <3> QED
      BY <3>1, RowTypes, PoolAssumption
  <2>4. CASE ReloadDropped
    <3>1. /\ rows' = NoRows /\ UNCHANGED <<msg, status, fails, dFails>>
          /\ \A k \in Keys : dStatus'[k] = dStatus[k] \/ dStatus'[k] = "limited"
      BY <2>4 DEF ReloadDropped, FlushWritten
    <3> QED
      BY <3>1, RowTypes, PoolAssumption
  <2> QED
    BY <1>4, <2>1, <2>2, <2>3, <2>4 DEF ReloadStep
<1>5. CASE CooldownElapsed \/ UNCHANGED vars
  BY <1>5 DEF CooldownElapsed, vars
<1> QED
  BY <1>1, <1>2, <1>3, <1>4, <1>5 DEF Next

\* A key that reached the failure threshold is never healthy, in memory or in its
\* row, whatever the order in which the status writes arrive.
THEOREM FaultyQuarantined == Spec => []FaultyKeyQuarantined
<1>1. Init => QuarantineInv
  <2> SUFFICES ASSUME Init PROVE QuarantineInv
    OBVIOUS
  <2>1. /\ \A k \in Keys : fails[k] = 0 /\ dFails[k] = 0
        /\ rows = NoRows /\ \A a \in Actors : msg[a] = NoMessage
    BY DEF Init, Zero
  <2> QED
    BY <2>1, RowTypes, MessageTypes, PoolAssumption
       DEF QuarantineInv, FaultyKeyQuarantined
<1>2. QuarantineInv => FaultyKeyQuarantined
  BY DEF QuarantineInv
<1> QED
  BY <1>1, <1>2, QuarantineStep, TypeInvariant, PTL DEF Spec

----------------------------------------------------------------------------
\* Without a reload, a flusher between two flushes holds no batch, so taking the
\* pending counters overwrites nothing.
UsageInv ==
    /\ NoCallForgotten
    /\ \A f \in Flushers : ~flushing[f] => batch[f] = Zero
    /\ ~flushing["reload"]
    /\ rpc = "idle"

\* A call counted in memory is pending before any flush sees it.
LEMMA CountedIsPending ==
    ASSUME TypeInv, UsageInv, NEW k \in Keys, IncrementUsage(k),
           UNCHANGED <<dHourly, batch>>
    PROVE  NoCallForgotten'
<1> USE DEF TypeInv, TypeOK, Flushers, Counters
<1> SUFFICES ASSUME NEW j \in Keys PROVE made'[j] <= Recorded(j)'
  BY DEF NoCallForgotten
<1>1. made[j] <= Recorded(j)
  BY DEF UsageInv, NoCallForgotten
<1>2. /\ made'[j] = (IF j = k THEN made[j] + 1 ELSE made[j])
      /\ pending'[j] = (IF j = k THEN pending[j] + 1 ELSE pending[j])
  BY DEF IncrementUsage
<1> QED
  BY <1>1, <1>2 DEF Recorded

LEMMA UsageFlushStep ==
    ASSUME TypeInv, UsageInv, "reload" \notin Running, NEW f \in Flushers, FlushStep(f)
    PROVE  UsageInv'
<1> USE DEF TypeInv, TypeOK, Flushers
<1>1. CASE FlushTake(f)
  <2>1. f # "reload" /\ ~flushing[f] /\ batch[f] = Zero
    BY <1>1 DEF FlushTake, UsageInv
  <2>2. \A k \in Keys : Recorded(k)' = Recorded(k)
    BY <1>1, <2>1 DEF FlushTake, Recorded, Zero, Counters, database
  <2> QED
    BY <1>1, <2>1, <2>2 DEF FlushTake, UsageInv, NoCallForgotten, reloading
<1>2. CASE FlushCommitted(f)
  <2>1. f # "reload" /\ flushing[f]
    BY <1>2 DEF FlushCommitted, UsageInv
  <2>2. \A k \in Keys : Recorded(k)' = Recorded(k)
    BY <1>2, <2>1 DEF FlushCommitted, FlushWritten, Recorded, Zero, Counters, memory
  <2> QED
    BY <1>2, <2>1, <2>2 DEF FlushCommitted, UsageInv, NoCallForgotten
<1>3. CASE FlushFailed(f)
  <2>1. f # "reload" /\ flushing[f]
    BY <1>3 DEF FlushFailed, UsageInv
  <2>2. \A k \in Keys : Recorded(k)' \in Nat /\ Recorded(k)' >= Recorded(k)
    <3>1. \A k \in Keys : dHourly'[k] = dHourly[k] \/ dHourly'[k] = dHourly[k] + batch[f][k]
      BY <1>3 DEF FlushFailed, FlushWritten, database
    <3>2. \A k \in Keys : pending'[k] = pending[k] + batch[f][k]
      BY <1>3 DEF FlushFailed
    <3>3. \A k \in Keys : \A g \in Flushers :
            batch'[g][k] = IF g = f THEN 0 ELSE batch[g][k]
      BY <1>3 DEF FlushFailed, Zero
    <3>4. \A k \in Keys : /\ dHourly[k] \in Nat /\ pending[k] \in Nat
                          /\ \A g \in Flushers : batch[g][k] \in Nat
      BY DEF Counters
    <3> QED
      BY <3>1, <3>2, <3>3, <3>4 DEF Recorded
  <2>3. \A k \in Keys : Recorded(k) \in Nat /\ made[k] \in Nat
    BY DEF Recorded, Counters
  <2>4. NoCallForgotten'
    BY <1>3, <2>2, <2>3 DEF FlushFailed, UsageInv, NoCallForgotten
  <2> QED
    BY <1>3, <2>1, <2>4 DEF FlushFailed, UsageInv, reloading
<1> QED
  BY <1>1, <1>2, <1>3 DEF FlushStep

LEMMA UsageStep ==
    ASSUME "reload" \notin Running
    PROVE  TypeInv /\ UsageInv /\ [Next]_vars => UsageInv'
<1> SUFFICES ASSUME TypeInv, UsageInv, [Next]_vars PROVE UsageInv'
  OBVIOUS
<1> USE DEF flushes, reloading
<1>0. ASSUME UNCHANGED <<pending, made, dHourly, flushes, reloading>> PROVE UsageInv'
  BY <1>0 DEF UsageInv, NoCallForgotten, Recorded
<1>1. ASSUME NEW c \in Callers, CallerStep(c) PROVE UsageInv'
  BY <1>0, <1>1
     DEF CallerStep, StartRequest, ActiveKey, ReviveSkipped, ReviveStart, ReviveEnd,
         SelectAvailableKey, RequestSucceeded, RequestOverQuota, GiveUp, Disconnected,
         RecordSuccess, RecordFailure, memory, database
<1>2. ASSUME NEW a \in Actors, CallStep(a) \/ SyncStep(a) PROVE UsageInv'
  <2>1. CASE CreateSession(a) \/ Send(a)
    <3>1. key[a] \in Keys /\ IncrementUsage(key[a])
      BY <2>1 DEF CreateSession, Send, TypeInv, KeyInUse
    <3> QED
      BY <2>1, <3>1, CountedIsPending DEF CreateSession, Send, UsageInv, database
  <2>2. CASE ~(CreateSession(a) \/ Send(a))
    BY <1>0, <1>2, <2>2
       DEF CallStep, SyncStep, SessionCreated, SessionRefused, CallDropped,
           UpdateStatus, SyncNext, SyncEnd, ProbeFaulted, ProbeAnswered,
           ApplyReport, ReportMissing, ApplyEstimate, EstimateRefused,
           SaveAuthoritativeUsage, RecordSuccess, RecordFailure, memory, database
  <2> QED
    BY <2>1, <2>2
<1>3. CASE \E f \in Flushers : FlushStep(f)
  BY <1>3, UsageFlushStep
<1>4. CASE ReloadStep
  BY <1>4 DEF ReloadStep, LoadKeys, LoadKeysFailed, CopyPending, InstallKeys,
              ReloadDropped, UsageInv
<1>5. CASE CooldownElapsed \/ UNCHANGED vars
  BY <1>0, <1>5 DEF CooldownElapsed, vars, memory, database
<1> QED
  BY <1>1, <1>2, <1>3, <1>4, <1>5 DEF Next

\* Unless keys are reloaded, no counted call is forgotten: overlapping and failing
\* flushes, and commits whose outcome is unknown, may count a call twice but
\* never lose one.
THEOREM UsageKept ==
    ASSUME "reload" \notin Running
    PROVE  Spec => []NoCallForgotten
<1>1. Init => UsageInv
  BY DEF Init, UsageInv, NoCallForgotten, Recorded, Zero, Flushers
<1>2. UsageInv => NoCallForgotten
  BY DEF UsageInv
<1> QED
  BY <1>1, <1>2, UsageStep, TypeInvariant, PTL DEF Spec

----------------------------------------------------------------------------
\* With reloads too, a flusher between two flushes holds no batch, and a reload
\* reads and installs keys only after its own flush.
BatchesApart ==
    /\ \A f \in Flushers : ~flushing[f] => batch[f] = Zero
    /\ flushing["reload"] => rpc = "idle"

LEMMA ApartStep == TypeInv /\ BatchesApart /\ [Next]_vars => BatchesApart'
<1> SUFFICES ASSUME TypeInv, BatchesApart, [Next]_vars PROVE BatchesApart'
  OBVIOUS
<1> USE DEF flushes, reloading
<1>0. ASSUME UNCHANGED <<flushing, batch, rpc>> PROVE BatchesApart'
  BY <1>0 DEF BatchesApart
<1>1. ASSUME NEW c \in Callers, CallerStep(c) PROVE BatchesApart'
  BY <1>0, <1>1
     DEF CallerStep, StartRequest, ActiveKey, ReviveSkipped, ReviveStart, ReviveEnd,
         RequestSucceeded, RequestOverQuota, GiveUp, Disconnected
<1>2. ASSUME NEW a \in Actors, CallStep(a) \/ SyncStep(a) PROVE BatchesApart'
  BY <1>0, <1>2
     DEF CallStep, SyncStep, CreateSession, Send, SessionCreated, SessionRefused, CallDropped,
         UpdateStatus, SyncNext, SyncEnd, ProbeFaulted, ProbeAnswered, ApplyReport,
         ReportMissing, ApplyEstimate, EstimateRefused, SaveAuthoritativeUsage
<1>3. ASSUME NEW f \in Flushers, FlushStep(f) PROVE BatchesApart'
  <2>0. flushing \in [Flushers -> BOOLEAN] /\ batch \in [Flushers -> Counters]
        /\ "reload" \in Flushers
    BY DEF TypeInv, TypeOK, Flushers
  <2>1. CASE FlushTake(f)  BY <2>0, <2>1 DEF FlushTake, BatchesApart
  <2>2. CASE FlushCommitted(f)  BY <2>0, <2>2 DEF FlushCommitted, BatchesApart
  <2>3. CASE FlushFailed(f)  BY <2>0, <2>3 DEF FlushFailed, BatchesApart
  <2> QED
    BY <1>3, <2>1, <2>2, <2>3 DEF FlushStep
<1>4. CASE ReloadStep
  <2>0. flushing \in [Flushers -> BOOLEAN] /\ batch \in [Flushers -> Counters]
        /\ "reload" \in Flushers
    BY DEF TypeInv, TypeOK, Flushers
  <2>1. CASE ReloadDropped  BY <2>0, <2>1 DEF ReloadDropped, BatchesApart
  <2>2. CASE LoadKeys \/ LoadKeysFailed \/ CopyPending \/ InstallKeys
    <3>1. UNCHANGED <<flushing, batch>> /\ rpc # "idle"
      BY <2>2 DEF LoadKeys, LoadKeysFailed, CopyPending, InstallKeys
    <3> QED
      BY <3>1 DEF BatchesApart
  <2> QED
    BY <1>4, <2>1, <2>2 DEF ReloadStep
<1>5. CASE CooldownElapsed \/ UNCHANGED vars
  BY <1>0, <1>5 DEF CooldownElapsed, vars
<1> QED
  BY <1>1, <1>2, <1>3, <1>4, <1>5 DEF Next

\* The bound of CallsKept on key k.
KeptBound(k) ==
    made'[k] + Recorded(k) <=
      made[k] + Recorded(k)' +
        (IF rpc' = "idle" /\ ~flushing'["reload"] THEN LostByReload(k) ELSE 0)

LEMMA UsageTypes ==
    ASSUME TypeInv, NEW k \in Keys
    PROVE  /\ dHourly[k] \in Nat /\ pending[k] \in Nat /\ made[k] \in Nat /\ snap[k] \in Nat
           /\ batch["periodic"][k] \in Nat /\ batch["hourly"][k] \in Nat
           /\ batch["reload"][k] \in Nat
           /\ Recorded(k) \in Nat /\ LostByReload(k) \in Nat
<1>1. /\ dHourly[k] \in Nat /\ pending[k] \in Nat /\ made[k] \in Nat /\ snap[k] \in Nat
      /\ batch["periodic"][k] \in Nat /\ batch["hourly"][k] \in Nat
      /\ batch["reload"][k] \in Nat
  BY DEF TypeInv, TypeOK, Counters, Flushers
<1> QED
  BY <1>1 DEF Recorded, LostByReload

LEMMA UsageTypesNext ==
    ASSUME TypeInv', NEW k \in Keys
    PROVE  made'[k] \in Nat /\ Recorded(k)' \in Nat
<1>1. /\ dHourly'[k] \in Nat /\ pending'[k] \in Nat /\ made'[k] \in Nat
      /\ batch'["periodic"][k] \in Nat /\ batch'["hourly"][k] \in Nat
      /\ batch'["reload"][k] \in Nat
  BY DEF TypeInv, TypeOK, Counters, Flushers
<1> QED
  BY <1>1 DEF Recorded

\* A step that loses nothing is within the bound.
LEMMA NothingLost ==
    ASSUME TypeInv, TypeInv', NEW k \in Keys,
           made'[k] + Recorded(k) <= made[k] + Recorded(k)'
    PROVE  KeptBound(k)
<1>1. /\ made[k] \in Nat /\ made'[k] \in Nat /\ Recorded(k) \in Nat /\ Recorded(k)' \in Nat
      /\ LostByReload(k) \in Nat
  BY UsageTypes, UsageTypesNext
<1> QED
  BY <1>1 DEF KeptBound

LEMMA KeptFlushStep ==
    ASSUME TypeInv, TypeInv', BatchesApart, NEW f \in Flushers, FlushStep(f), NEW k \in Keys
    PROVE  KeptBound(k)
<1>0. /\ flushing \in [Flushers -> BOOLEAN] /\ batch \in [Flushers -> Counters]
      /\ f \in {"periodic", "hourly", "reload"} /\ f \in Flushers
  BY DEF TypeInv, TypeOK, Flushers
<1>t. /\ dHourly[k] \in Nat /\ pending[k] \in Nat /\ made[k] \in Nat
      /\ batch["periodic"][k] \in Nat /\ batch["hourly"][k] \in Nat
      /\ batch["reload"][k] \in Nat
  BY UsageTypes
<1>b. ASSUME NEW b, batch' = [batch EXCEPT ![f] = b]
      PROVE  /\ f = "periodic" => /\ batch'["periodic"][k] = b[k]
                                  /\ batch'["hourly"][k] = batch["hourly"][k]
                                  /\ batch'["reload"][k] = batch["reload"][k]
             /\ f = "hourly" => /\ batch'["hourly"][k] = b[k]
                                /\ batch'["periodic"][k] = batch["periodic"][k]
                                /\ batch'["reload"][k] = batch["reload"][k]
             /\ f = "reload" => /\ batch'["reload"][k] = b[k]
                                /\ batch'["periodic"][k] = batch["periodic"][k]
                                /\ batch'["hourly"][k] = batch["hourly"][k]
  BY <1>0, <1>b DEF Flushers
<1>z. Zero[k] = 0  BY DEF Zero
<1>1. CASE FlushTake(f)
  <2>1. batch[f][k] = 0  BY <1>1, <1>z DEF FlushTake, BatchesApart
  <2>2. batch' = [batch EXCEPT ![f] = pending] /\ pending'[k] = 0
    BY <1>1, <1>z DEF FlushTake
  <2>3. dHourly'[k] = dHourly[k] /\ made'[k] = made[k]  BY <1>1 DEF FlushTake, database
  <2>4. Recorded(k)' = Recorded(k)
    <3>1. CASE f = "periodic"
      <4>1. /\ batch'["periodic"][k] = pending[k] /\ batch["periodic"][k] = 0
            /\ batch'["hourly"][k] = batch["hourly"][k] /\ batch'["reload"][k] = batch["reload"][k]
        BY <1>b, <2>1, <2>2, <3>1
      <4> QED
        BY <1>t, <2>2, <2>3, <4>1 DEF Recorded
    <3>2. CASE f = "hourly"
      <4>1. /\ batch'["hourly"][k] = pending[k] /\ batch["hourly"][k] = 0
            /\ batch'["periodic"][k] = batch["periodic"][k] /\ batch'["reload"][k] = batch["reload"][k]
        BY <1>b, <2>1, <2>2, <3>2
      <4> QED
        BY <1>t, <2>2, <2>3, <4>1 DEF Recorded
    <3>3. CASE f = "reload"
      <4>1. /\ batch'["reload"][k] = pending[k] /\ batch["reload"][k] = 0
            /\ batch'["periodic"][k] = batch["periodic"][k] /\ batch'["hourly"][k] = batch["hourly"][k]
        BY <1>b, <2>1, <2>2, <3>3
      <4> QED
        BY <1>t, <2>2, <2>3, <4>1 DEF Recorded
    <3> QED  BY <1>0, <3>1, <3>2, <3>3
  <2>5. made'[k] + Recorded(k) <= made[k] + Recorded(k)'
    BY <1>t, <2>3, <2>4, UsageTypes
  <2> QED
    BY <2>5, NothingLost
<1>2. CASE FlushCommitted(f) \/ FlushFailed(f)
  <2>1. batch' = [batch EXCEPT ![f] = Zero]  BY <1>2 DEF FlushCommitted, FlushFailed
  <2>2. made'[k] = made[k]  BY <1>2 DEF FlushCommitted, FlushFailed
  <2>3. batch[f][k] \in Nat  BY <1>0 DEF Counters
  <2>4. /\ dHourly'[k] \in {dHourly[k], dHourly[k] + batch[f][k]}
        /\ pending'[k] \in {pending[k], pending[k] + batch[f][k]}
        /\ \/ dHourly'[k] = dHourly[k] + batch[f][k]
           \/ pending'[k] = pending[k] + batch[f][k]
    BY <1>2 DEF FlushCommitted, FlushFailed, FlushWritten, memory, database
  <2>5. Recorded(k)' >= Recorded(k)
    <3>1. CASE f = "periodic"  BY <1>b, <1>t, <1>z, <2>1, <2>3, <2>4, <3>1 DEF Recorded
    <3>2. CASE f = "hourly"  BY <1>b, <1>t, <1>z, <2>1, <2>3, <2>4, <3>2 DEF Recorded
    <3>3. CASE f = "reload"  BY <1>b, <1>t, <1>z, <2>1, <2>3, <2>4, <3>3 DEF Recorded
    <3> QED  BY <1>0, <3>1, <3>2, <3>3
  <2>6. Recorded(k) \in Nat /\ Recorded(k)' \in Nat  BY UsageTypes, UsageTypesNext
  <2>7. made'[k] + Recorded(k) <= made[k] + Recorded(k)'  BY <1>t, <2>2, <2>5, <2>6
  <2> QED
    BY <2>7, NothingLost
<1> QED
  BY <1>1, <1>2 DEF FlushStep

LEMMA KeptReloadStep ==
    ASSUME TypeInv, TypeInv', BatchesApart, ReloadStep, NEW k \in Keys
    PROVE  KeptBound(k)
<1>0. /\ flushing \in [Flushers -> BOOLEAN] /\ batch \in [Flushers -> Counters]
      /\ "reload" \in Flushers /\ "periodic" \in Flushers /\ "hourly" \in Flushers
  BY DEF TypeInv, TypeOK, Flushers
<1>t. /\ dHourly[k] \in Nat /\ pending[k] \in Nat /\ made[k] \in Nat /\ snap[k] \in Nat
      /\ batch["periodic"][k] \in Nat /\ batch["hourly"][k] \in Nat
      /\ batch["reload"][k] \in Nat /\ Recorded(k) \in Nat /\ LostByReload(k) \in Nat
      /\ Recorded(k)' \in Nat
  BY UsageTypes, UsageTypesNext
<1>1. CASE LoadKeys \/ LoadKeysFailed \/ CopyPending
  <2>1. Recorded(k)' = Recorded(k) /\ made'[k] = made[k]
    BY <1>1 DEF LoadKeys, LoadKeysFailed, CopyPending, Recorded, memory, database, flushes
  <2> QED
    BY <1>t, <2>1, NothingLost
<1>2. CASE InstallKeys
  <2>1. /\ pending'[k] = snap[k] /\ dHourly'[k] = dHourly[k] /\ made'[k] = made[k]
        /\ batch' = batch /\ flushing' = flushing /\ rpc = "copied" /\ rpc' = "idle"
    BY <1>2 DEF InstallKeys, database, flushes
  <2>2. ~flushing'["reload"]  BY <2>1 DEF BatchesApart
  <2>3. Recorded(k)' + pending[k] = Recorded(k) + snap[k]  BY <1>t, <2>1 DEF Recorded
  <2>4. pending[k] > snap[k] => LostByReload(k) = pending[k] - snap[k]
    BY <2>1 DEF LostByReload
  <2>5. Recorded(k) <= Recorded(k)' + LostByReload(k)  BY <1>t, <2>3, <2>4
  <2>6. made'[k] + Recorded(k) <= made[k] + Recorded(k)' + LostByReload(k)
    BY <1>t, <2>1, <2>5
  <2> QED
    BY <2>1, <2>2, <2>6 DEF KeptBound
<1>3. CASE ReloadDropped
  <2>1. /\ batch' = [batch EXCEPT !["reload"] = Zero] /\ rpc' = "idle"
        /\ flushing' = [flushing EXCEPT !["reload"] = FALSE]
        /\ pending'[k] = pending[k] /\ made'[k] = made[k]
    BY <1>3 DEF ReloadDropped, memory
  <2>2. dHourly'[k] \in {dHourly[k], dHourly[k] + batch["reload"][k]}
    BY <1>3 DEF ReloadDropped, FlushWritten, database
  <2>3. /\ batch'["reload"][k] = 0 /\ batch'["periodic"][k] = batch["periodic"][k]
        /\ batch'["hourly"][k] = batch["hourly"][k] /\ ~flushing'["reload"]
    BY <1>0, <2>1 DEF Zero
  <2>4. Recorded(k) <= Recorded(k)' + batch["reload"][k]
    BY <1>t, <2>1, <2>2, <2>3 DEF Recorded
  <2>5. LostByReload(k) >= batch["reload"][k]
    <3>1. CASE flushing["reload"]  BY <1>t, <3>1 DEF BatchesApart, LostByReload
    <3>2. CASE ~flushing["reload"]
      <4>1. batch["reload"][k] = 0  BY <1>0, <3>2 DEF BatchesApart, Zero
      <4> QED
        BY <1>t, <4>1
    <3> QED  BY <3>1, <3>2
  <2>6. Recorded(k) <= Recorded(k)' + LostByReload(k)  BY <1>t, <2>4, <2>5
  <2>7. made'[k] + Recorded(k) <= made[k] + Recorded(k)' + LostByReload(k)
    BY <1>t, <2>1, <2>6
  <2> QED
    BY <2>1, <2>3, <2>7 DEF KeptBound
<1> QED
  BY <1>1, <1>2, <1>3 DEF ReloadStep

LEMMA KeptStep ==
    ASSUME TypeInv, BatchesApart, [Next]_vars, NEW k \in Keys
    PROVE  KeptBound(k)
<1>0. TypeInv'  BY TypeStep
<1> USE DEF flushes, reloading
<1>t. Recorded(k) \in Nat /\ made[k] \in Nat  BY UsageTypes
<1>1. ASSUME UNCHANGED <<pending, made, dHourly, batch>> PROVE KeptBound(k)
  <2>1. Recorded(k)' = Recorded(k) /\ made'[k] = made[k]  BY <1>1 DEF Recorded
  <2> QED
    BY <1>0, <1>t, <2>1, NothingLost
<1>2. ASSUME NEW c \in Callers, CallerStep(c) PROVE KeptBound(k)
  BY <1>1, <1>2
     DEF CallerStep, StartRequest, ActiveKey, ReviveSkipped, ReviveStart, ReviveEnd,
         SelectAvailableKey, RequestSucceeded, RequestOverQuota, GiveUp, Disconnected,
         RecordSuccess, RecordFailure, memory, database
<1>3. ASSUME NEW a \in Actors, CallStep(a) \/ SyncStep(a) PROVE KeptBound(k)
  <2>1. CASE CreateSession(a) \/ Send(a)
    <3>1. key[a] \in Keys /\ IncrementUsage(key[a]) /\ UNCHANGED <<dHourly, batch>>
      BY <2>1 DEF CreateSession, Send, TypeInv, KeyInUse, database
    <3>2. /\ made'[k] = (IF k = key[a] THEN made[k] + 1 ELSE made[k])
          /\ pending'[k] = (IF k = key[a] THEN pending[k] + 1 ELSE pending[k])
      BY <3>1 DEF IncrementUsage, TypeInv, TypeOK, Counters
    <3>3. Recorded(k)' = (IF k = key[a] THEN Recorded(k) + 1 ELSE Recorded(k))
      BY <3>1, <3>2, UsageTypes DEF Recorded
    <3>4. made'[k] + Recorded(k) <= made[k] + Recorded(k)'  BY <1>t, <3>2, <3>3
    <3> QED
      BY <1>0, <3>4, NothingLost
  <2>2. CASE ~(CreateSession(a) \/ Send(a))
    BY <1>1, <1>3, <2>2
       DEF CallStep, SyncStep, SessionCreated, SessionRefused, CallDropped,
           UpdateStatus, SyncNext, SyncEnd, ProbeFaulted, ProbeAnswered,
           ApplyReport, ReportMissing, ApplyEstimate, EstimateRefused,
           SaveAuthoritativeUsage, RecordSuccess, RecordFailure, memory, database
  <2> QED
    BY <2>1, <2>2
<1>4. CASE \E f \in Flushers : FlushStep(f)  BY <1>0, <1>4, KeptFlushStep
<1>5. CASE ReloadStep  BY <1>0, <1>5, KeptReloadStep
<1>6. CASE CooldownElapsed \/ UNCHANGED vars
  BY <1>1, <1>6 DEF CooldownElapsed, vars, memory, database
<1> QED
  BY <1>2, <1>3, <1>4, <1>5, <1>6 DEF Next

\* With reloads and dropped operators too, no step but the end of a reload
\* loses a counted call, and that one loses no more than what was counted
\* beside it, for any number of keys and callers.
THEOREM CallsAreKept == Spec => CallsKept
<1>1. Init => BatchesApart
  BY DEF Init, BatchesApart, Flushers
<1>2. TypeInv /\ BatchesApart /\ [Next]_vars => [\A k \in Keys : KeptBound(k)]_vars
  BY KeptStep
<1> QED
  BY <1>1, <1>2, ApartStep, TypeInvariant, PTL DEF Spec, CallsKept, KeptBound
============================================================================
