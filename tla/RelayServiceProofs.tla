------------------------- MODULE RelayServiceProofs -------------------------
(***************************************************************************)
(* Proofs about RelayService, for every number of relays, pooled sessions, *)
(* calls and faults: the relay implements RelayOwnership, and a relay that *)
(* hands its lease on leaves nothing behind.                               *)
(***************************************************************************)
EXTENDS RelayService, FiniteSetTheorems, TLAPS

\* The session of a relay, and the relay of a session.
LEMMA SessionParts ==
    /\ \A s \in Sessions : s[1] \in Relays /\ s \in SessionsOf(s[1]) /\ s # Nobody
    /\ \A r \in Relays : SessionsOf(r) \subseteq Sessions /\ \A s \in SessionsOf(r) : s[1] = r
BY ServiceAssumption DEF Sessions, SessionsOf

\* Counting: one element more, and one fewer.
LEMMA OneMore ==
    ASSUME NEW S, NEW x, IsFiniteSet(S), NEW n \in Nat, Cardinality(S) <= n
    PROVE  IsFiniteSet(S \cup {x}) /\ Cardinality(S \cup {x}) <= n + 1
<1>1. Cardinality(S) \in Nat  BY FS_CardinalityType
<1> QED BY <1>1, FS_AddElement

LEMMA OneFewer ==
    ASSUME NEW S, NEW x \in S, IsFiniteSet(S), NEW n \in Nat, Cardinality(S) <= n
    PROVE  IsFiniteSet(S \ {x}) /\ n - 1 \in Nat /\ Cardinality(S \ {x}) <= n - 1
<1>1. Cardinality(S) \in Nat /\ Cardinality(S \ {x}) = Cardinality(S) - 1
  BY FS_CardinalityType, FS_RemoveElement
<1>2. IsFiniteSet(S \ {x}) /\ Cardinality(S \ {x}) \in Nat  BY FS_RemoveElement, FS_CardinalityType
<1> QED BY <1>1, <1>2

\* The calls of a relay that have begun and not ended.
CallsOf(r) == {c \in Calls : call[c].relay = r}

\* A call in progress belongs to a relay.
CallShape == \A c \in Calls : call[c].pc = "idle" <=> call[c].relay = Nobody

\* A relay counts at least the calls it has; it counts more when clients left.
CallsCounted ==
    \A r \in Relays : IsFiniteSet(CallsOf(r)) /\ Cardinality(CallsOf(r)) <= active[r]

\* The strengthening that makes the types inductive: active does not go below zero.
CallInv == TypeOK /\ CallShape /\ CallsCounted

LEMMA TypeStep == CallInv /\ [Next]_vars => TypeOK' /\ CallShape'
<1> SUFFICES ASSUME TypeOK, CallShape, CallsCounted, [Next]_vars PROVE TypeOK' /\ CallShape'
  BY DEF CallInv
<1> USE DEF TypeOK, CallShape, sessions, process, usage, history
<1>1. ASSUME NEW s \in Sessions, Break(s) PROVE TypeOK' /\ CallShape'
  BY <1>1, ServiceAssumption DEF Break, Fault
<1>2. ASSUME NEW s \in Sessions, Notice(s) PROVE TypeOK' /\ CallShape'
  BY <1>2, SessionParts DEF Notice, Free
<1>3. ASSUME NEW r \in Relays, RelaySteps(r) PROVE TypeOK' /\ CallShape'
  <2>1. CASE Acquire(r)
    <3>1. PICK s \in Idle(r) : Acquire(r)!3!(s)
      BY <2>1 DEF Acquire
    <3>2. s \in Sessions  BY SessionParts DEF Idle
    <3> QED BY <2>1, <3>1, <3>2 DEF Acquire, Locked, Phases
  <2>2. CASE Started(r)  BY <2>2 DEF Started, Phases
  <2>3. CASE Crash(r)
    BY <2>3, ServiceAssumption DEF Crash, Fault, Gone, NoCall, Phases
  <2>4. CASE CheckLease(r)  BY <2>4 DEF CheckLease
  <2>5. CASE CheckCancelled(r)  BY <2>5, ServiceAssumption DEF CheckCancelled, Fault
  <2>6. CASE RetryLease(r)
    <3>1. CASE \E s \in Idle(r) : RetryLease(r)!2!1!(s)
      <4>1. PICK s \in Idle(r) : RetryLease(r)!2!1!(s)
        BY <3>1
      <4>2. s \in Sessions  BY SessionParts DEF Idle
      <4> QED BY <2>6, <4>1, <4>2 DEF RetryLease, Locked
    <3>2. CASE RetryLease(r)!2!2  BY <2>6, <3>2 DEF RetryLease
    <3> QED BY <2>6, <3>1, <3>2 DEF RetryLease
  <2>7. CASE StoreReady(r)  BY <2>7 DEF StoreReady
  <2>8. CASE AskHealth(r)  BY <2>8 DEF AskHealth
  <2>9. CASE StoreHealth(r)  BY <2>9 DEF StoreHealth
  <2>10. CASE FlushUsage(r)  BY <2>10 DEF FlushUsage
  <2>11. CASE SyncEnd(r)  BY <2>11 DEF SyncEnd
  <2>12. CASE Signal(r)  BY <2>12 DEF Signal, Advance, Phases
  <2>13. CASE Drained(r)  BY <2>13 DEF Drained, Advance, Phases
  <2>14. CASE TasksStopped(r)  BY <2>14 DEF TasksStopped, Advance, Phases
  <2>15. CASE FlushLast(r)
    <3>1. faults' \in 0..MaxFaults  BY <2>15, ServiceAssumption DEF FlushLast, Fault
    <3>2. phase' \in [Relays -> Phases]  BY <2>15 DEF FlushLast, Advance, Phases
    <3>3. unflushed' \in [Relays -> BOOLEAN] /\ gaveUp' \subseteq Relays
      BY <2>15 DEF FlushLast
    <3> QED BY <2>15, <3>1, <3>2, <3>3 DEF FlushLast
  <2>16. CASE Release(r)
    <3>1. lock' \in {lock, [lock EXCEPT !.depth = @ - 1], Free}
      BY <2>16 DEF Release
    <3>2. lock' = [lock EXCEPT !.depth = @ - 1] => lock.depth > 1 \/ lock' \in {lock, Free}
      BY <2>16 DEF Release
    <3>3. lock' \in [by : Sessions \cup {Nobody}, depth : Nat]
      BY <3>1, <3>2 DEF Free
    <3> QED BY <2>16, <3>3 DEF Release, Advance, Phases
  <2>17. CASE Close(r)  BY <2>17 DEF Close, Free, Advance, Phases
  <2>18. CASE Exit(r)  BY <2>18 DEF Exit, Gone, NoCall, Phases
  <2> QED
    BY <1>3, <2>1, <2>2, <2>3, <2>4, <2>5, <2>6, <2>7, <2>8, <2>9, <2>10, <2>11, <2>12, <2>13,
       <2>14, <2>15, <2>16, <2>17, <2>18 DEF RelaySteps
<1>4. ASSUME NEW c \in Calls, CallSteps(c) PROVE TypeOK' /\ CallShape'
  <2>1. CASE \E r \in Relays : Begin(c, r)  BY <2>1, ServiceAssumption DEF Begin
  <2>2. CASE Dispatch(c)  BY <2>2 DEF Dispatch
  <2>3. CASE Worked(c)  BY <2>3 DEF Worked
  <2>4. CASE Finish(c)
    <3> DEFINE r == call[c].relay
    <3>1. r \in Relays  BY <2>4 DEF Finish
    <3>2. c \in CallsOf(r) /\ IsFiniteSet(CallsOf(r)) /\ Cardinality(CallsOf(r)) <= active[r]
      BY <3>1 DEF CallsCounted, CallsOf
    <3>3. active[r] \in Nat  BY <3>1
    <3> HIDE DEF r
    <3>4. active[r] - 1 \in Nat  BY <3>2, <3>3, OneFewer
    <3>5. active' \in [Relays -> Nat]  BY <2>4, <3>1, <3>4 DEF Finish, r
    <3> QED BY <2>4, <3>5 DEF Finish, NoCall
  <2>5. CASE Disconnected(c)  BY <2>5, ServiceAssumption DEF Disconnected, Fault, NoCall
  <2> QED BY <1>4, <2>1, <2>2, <2>3, <2>4, <2>5 DEF CallSteps
<1>5. CASE UNCHANGED vars  BY <1>5 DEF vars
<1> QED BY <1>1, <1>2, <1>3, <1>4, <1>5 DEF Next

LEMMA CountStep == CallInv /\ [Next]_vars => CallsCounted'
<1> SUFFICES ASSUME CallInv, [Next]_vars, NEW q \in Relays
             PROVE  IsFiniteSet(CallsOf(q)') /\ Cardinality(CallsOf(q)') <= active'[q]
  BY DEF CallsCounted
<1> USE DEF CallInv, TypeOK, CallShape
<1>0. IsFiniteSet(CallsOf(q)) /\ Cardinality(CallsOf(q)) <= active[q] /\ Cardinality(CallsOf(q)) \in Nat
  BY FS_CardinalityType DEF CallsCounted
<1>1. CASE CallsOf(q)' = CallsOf(q) /\ active'[q] = active[q]
  BY <1>0, <1>1
<1>2. CASE CallsOf(q)' = {} /\ active'[q] = 0
  BY <1>2, FS_EmptySet
<1>3. ASSUME NEW s \in Sessions, Break(s) \/ Notice(s) PROVE CallsOf(q)' = CallsOf(q) /\ active'[q] = active[q]
  BY <1>3 DEF Break, Notice, process, CallsOf
<1>4. ASSUME NEW r \in Relays, RelaySteps(r)
      PROVE \/ CallsOf(q)' = CallsOf(q) /\ active'[q] = active[q]
            \/ CallsOf(q)' = {} /\ active'[q] = 0
  <2>1. CASE Crash(r) \/ Exit(r)
    <3> USE <2>1 DEF Crash, Exit, Gone, CallsOf, NoCall
    <3>1. CASE q = r  BY <3>1, ServiceAssumption
    <3>2. CASE q # r  BY <3>2, ServiceAssumption
    <3> QED BY <3>1, <3>2
  <2>2. CASE ~Crash(r) /\ ~Exit(r)
    BY <1>4, <2>2
       DEF RelaySteps, process, usage, history, CallsOf, Acquire, Started, CheckLease,
           CheckCancelled, RetryLease, StoreReady, AskHealth, StoreHealth, FlushUsage, SyncEnd,
           Signal, Drained, TasksStopped, FlushLast, Release, Close
  <2> QED BY <2>1, <2>2
<1>5. ASSUME NEW c \in Calls, CallSteps(c)
      PROVE IsFiniteSet(CallsOf(q)') /\ Cardinality(CallsOf(q)') <= active'[q]
  <2>1. ASSUME NEW r \in Relays, Begin(c, r)
        PROVE  IsFiniteSet(CallsOf(q)') /\ Cardinality(CallsOf(q)') <= active'[q]
    <3>1. CASE q = r
      <4>1. CallsOf(q)' = CallsOf(q) \cup {c} /\ c \notin CallsOf(q) /\ active'[q] = active[q] + 1
        BY <2>1, <3>1, ServiceAssumption DEF Begin, CallsOf
      <4>2. active[q] \in Nat  OBVIOUS
      <4>3. /\ IsFiniteSet(CallsOf(q) \cup {c})
            /\ Cardinality(CallsOf(q) \cup {c}) <= active[q] + 1
        BY <1>0, <4>2, OneMore
      <4> QED BY <4>1, <4>3
    <3>2. CASE q # r
      BY <1>1, <2>1, <3>2, ServiceAssumption DEF Begin, CallsOf
    <3> QED BY <3>1, <3>2
  <2>2. CASE Dispatch(c) \/ Worked(c)
    BY <1>1, <2>2 DEF Dispatch, Worked, CallsOf, process
  <2>3. CASE Finish(c)
    <3>1. CASE q = call[c].relay
      <4>1. CallsOf(q)' = CallsOf(q) \ {c} /\ c \in CallsOf(q) /\ active'[q] = active[q] - 1
        BY <2>3, <3>1, ServiceAssumption DEF Finish, CallsOf, NoCall
      <4>2. active[q] \in Nat  OBVIOUS
      <4> QED BY <1>0, <4>1, <4>2, OneFewer
    <3>2. CASE q # call[c].relay
      BY <1>1, <2>3, <3>2, ServiceAssumption DEF Finish, CallsOf, NoCall
    <3> QED BY <3>1, <3>2
  <2>4. CASE Disconnected(c)
    <3>1. CallsOf(q)' \subseteq CallsOf(q) /\ active'[q] = active[q]
      BY <2>4, ServiceAssumption DEF Disconnected, CallsOf, NoCall, process
    <3>2. active[q] \in Nat  OBVIOUS
    <3>3. IsFiniteSet(CallsOf(q)') /\ Cardinality(CallsOf(q)') <= Cardinality(CallsOf(q))
      BY <1>0, <3>1, FS_Subset
    <3>4. Cardinality(CallsOf(q)') \in Nat  BY <3>3, FS_CardinalityType
    <3> QED BY <1>0, <3>1, <3>2, <3>3, <3>4
  <2> QED BY <1>5, <2>1, <2>2, <2>3, <2>4 DEF CallSteps
<1>6. CASE UNCHANGED vars  BY <1>1, <1>6 DEF vars, process, CallsOf
<1> QED BY <1>1, <1>2, <1>3, <1>4, <1>5, <1>6 DEF Next

LEMMA CallStep == CallInv /\ [Next]_vars => CallInv'
BY TypeStep, CountStep DEF CallInv

LEMMA CallInit == Init => CallInv
<1> SUFFICES ASSUME Init PROVE CallInv
  OBVIOUS
<1>1. TypeOK  BY ServiceAssumption DEF Init, TypeOK, Phases, Free, NoCall
<1>2. CallShape  BY DEF Init, CallShape, NoCall
<1>3. \A r \in Relays : CallsOf(r) = {}  BY ServiceAssumption DEF Init, CallsOf, NoCall
<1>4. CallsCounted  BY <1>3, FS_EmptySet DEF CallsCounted, Init
<1> QED BY <1>1, <1>2, <1>4 DEF CallInv

\* The relays, the lock and the calls keep their types; the number of requests
\* that RelayMetrics has begun and not finished never goes below zero.
THEOREM TypeCorrect == Spec => []TypeOK
<1>1. Spec => []CallInv  BY CallInit, CallStep, PTL DEF Spec
<1> QED BY <1>1, PTL DEF CallInv

----------------------------------------------------------------------------
(* The handover *)

\* The phases of a shutdown from the moment its drain has ended.
Past == {"stopping", "flushing", "releasing", "closing", "closed"}

\* Only a relay that no signal has reached accepts calls.
OnlyUpAccepts == \A r \in Relays : accepting[r] => phase[r] = "up"

\* The synchronisation has ended when the last flush begins.
SyncEnded ==
    \A r \in Relays : phase[r] \in Past \ {"stopping"} => ~syncing[r]

\* No usage is counted after the last flush.
Flushed ==
    \A r \in Relays \ gaveUp :
        phase[r] \in {"releasing", "closing", "closed"} => ~unflushed[r]

HandoverInv ==
    CallInv /\ OnlyUpAccepts /\ SyncEnded /\ QuietAfterDrain /\ Flushed

LEMMA AcceptsStep == TypeOK /\ OnlyUpAccepts /\ [Next]_vars => OnlyUpAccepts'
<1> SUFFICES ASSUME TypeOK, OnlyUpAccepts, [Next]_vars, NEW q \in Relays, accepting'[q]
             PROVE  phase'[q] = "up"
  BY DEF OnlyUpAccepts
<1> USE DEF process
<1>1. CASE UNCHANGED <<phase, accepting>>  BY <1>1 DEF OnlyUpAccepts
<1>2. ASSUME NEW s \in Sessions, Break(s) \/ Notice(s) PROVE UNCHANGED <<phase, accepting>>
  BY <1>2 DEF Break, Notice
<1>3. ASSUME NEW c \in Calls, CallSteps(c) PROVE UNCHANGED <<phase, accepting>>
  BY <1>3 DEF CallSteps, Begin, Dispatch, Worked, Finish, Disconnected
<1>4. ASSUME NEW r \in Relays, RelaySteps(r) PROVE phase'[q] = "up"
  <2> USE DEF TypeOK, OnlyUpAccepts
  <2>1. CASE Acquire(r)  BY <2>1 DEF Acquire
  <2>2. CASE Started(r)  BY <2>2 DEF Started
  <2>3. CASE Crash(r) \/ Exit(r)  BY <2>3 DEF Crash, Exit, Gone
  <2>4. CASE CheckLease(r) \/ CheckCancelled(r) \/ RetryLease(r) \/ StoreReady(r)
    BY <2>4 DEF CheckLease, CheckCancelled, RetryLease, StoreReady
  <2>5. CASE AskHealth(r) \/ StoreHealth(r) \/ FlushUsage(r) \/ SyncEnd(r)
    BY <2>5 DEF AskHealth, StoreHealth, FlushUsage, SyncEnd
  <2>6. CASE Signal(r)  BY <2>6 DEF Signal, Advance
  <2>7. CASE Drained(r) \/ TasksStopped(r) \/ FlushLast(r)
    BY <2>7 DEF Drained, TasksStopped, FlushLast, Advance
  <2>8. CASE Release(r) \/ Close(r)
    <3>1. Advance(r, "releasing", "closing") \/ Advance(r, "closing", "closed")
      BY <2>8 DEF Release, Close
    <3>2. UNCHANGED accepting  BY <2>8 DEF Release, Close
    <3> QED BY <3>1, <3>2 DEF Advance
  <2> QED BY <1>4, <2>1, <2>2, <2>3, <2>4, <2>5, <2>6, <2>7, <2>8 DEF RelaySteps
<1>5. CASE UNCHANGED vars  BY <1>1, <1>5 DEF vars
<1> QED BY <1>1, <1>2, <1>3, <1>4, <1>5 DEF Next

\* Of the processes' steps only those that end a phase touch the three parts.
LEMMA HandoverRelayStep ==
    ASSUME HandoverInv, NEW r \in Relays, RelaySteps(r), TypeOK'
    PROVE  SyncEnded' /\ QuietAfterDrain' /\ Flushed'
<1> USE DEF HandoverInv, CallInv, TypeOK, SyncEnded, QuietAfterDrain, Flushed, Past, process,
            usage, history
<1>1. CASE Acquire(r)  BY <1>1 DEF Acquire
<1>2. CASE Started(r)  BY <1>2 DEF Started
<1>3. CASE Crash(r) \/ Exit(r)
  <2> USE <1>3 DEF Crash, Exit, Gone
  <2>1. SyncEnded' /\ Flushed'  OBVIOUS
  <2>2. QuietAfterDrain'  BY DEF NoCall
  <2> QED BY <2>1, <2>2
<1>4. CASE CheckLease(r) \/ CheckCancelled(r) \/ RetryLease(r) \/ StoreReady(r)
  BY <1>4 DEF CheckLease, CheckCancelled, RetryLease, StoreReady
<1>5. CASE AskHealth(r) \/ StoreHealth(r)
  BY <1>5 DEF AskHealth, StoreHealth
<1>6. CASE FlushUsage(r)  BY <1>6 DEF FlushUsage
<1>7. CASE SyncEnd(r)  BY <1>7 DEF SyncEnd
<1>8. CASE Signal(r)  BY <1>8 DEF Signal, Advance
<1>9. CASE Drained(r)
  <2>1. r \notin gaveUp' => \A c \in Calls : call[c].relay # r
    <3>1. r \notin gaveUp' => active[r] = 0  BY <1>9 DEF Drained
    <3>2. active[r] = 0 => CallsOf(r) = {}
      <4>1. IsFiniteSet(CallsOf(r)) /\ Cardinality(CallsOf(r)) <= active[r]
        BY DEF CallsCounted
      <4>2. Cardinality(CallsOf(r)) \in Nat  BY <4>1, FS_CardinalityType
      <4>3. active[r] = 0 => Cardinality(CallsOf(r)) = 0  BY <4>1, <4>2
      <4> QED BY <4>1, <4>3, FS_EmptySet
    <3> QED BY <3>1, <3>2 DEF CallsOf
  <2>2. gaveUp \subseteq gaveUp' /\ phase' = [phase EXCEPT ![r] = "stopping"] /\ phase[r] = "draining"
    BY <1>9 DEF Drained, Advance
  <2>3. UNCHANGED <<call, syncing, unflushed>>  BY <1>9 DEF Drained
  <2> QED BY <2>1, <2>2, <2>3
<1>10. CASE TasksStopped(r)  BY <1>10 DEF TasksStopped, Advance
<1>11. CASE FlushLast(r)  BY <1>11 DEF FlushLast, Advance
<1>12. CASE Release(r)
  <2>1. UNCHANGED <<call, syncing, unflushed, gaveUp>>  BY <1>12 DEF Release
  <2>2. phase[r] = "releasing" /\ phase' = [phase EXCEPT ![r] = "closing"]
    BY <1>12 DEF Release, Advance
  <2> QED BY <2>1, <2>2
<1>13. CASE Close(r)  BY <1>13 DEF Close, Advance
<1> QED
  BY <1>1, <1>2, <1>3, <1>4, <1>5, <1>6, <1>7, <1>8, <1>9, <1>10, <1>11, <1>12, <1>13 DEF RelaySteps

\* A call that begins after the drain is not let in, so that none counts usage.
LEMMA HandoverCallStep ==
    ASSUME HandoverInv, NEW c \in Calls, CallSteps(c)
    PROVE  SyncEnded' /\ QuietAfterDrain' /\ Flushed'
<1> USE DEF HandoverInv, CallInv, TypeOK, CallShape, SyncEnded, QuietAfterDrain, Flushed, Past,
            process, usage, history
<1>1. CASE \E r \in Relays : Begin(c, r)  BY <1>1 DEF Begin
<1>2. CASE Dispatch(c)
  <2>1. \A r \in Relays : phase[r] \in Past => ~Admits(r)  BY DEF Admits, OnlyUpAccepts
  <2>2. UNCHANGED <<phase, syncing, unflushed, gaveUp>>  BY <1>2 DEF Dispatch
  <2>3. \A d \in Calls : /\ call'[d].relay = call[d].relay
                         /\ d # c => call'[d] = call[d]
    BY <1>2 DEF Dispatch
  <2>4. call'[c].pc = "working" => Admits(call[c].relay)  BY <1>2 DEF Dispatch
  <2> QED BY <2>1, <2>2, <2>3, <2>4
<1>3. CASE Worked(c)
  <2>1. UNCHANGED <<phase, syncing, gaveUp>>  BY <1>3 DEF Worked
  <2>2. \A d \in Calls : /\ call'[d].relay = call[d].relay
                         /\ d # c => call'[d] = call[d]
    BY <1>3 DEF Worked
  <2>3. call[c].pc = "working" /\ call'[c].pc = "answer"  BY <1>3 DEF Worked
  <2>4. \A r \in Relays : unflushed'[r] => unflushed[r] \/ r = call[c].relay  BY <1>3 DEF Worked
  <2> QED BY <2>1, <2>2, <2>3, <2>4
<1>4. CASE Finish(c)  BY <1>4 DEF Finish, NoCall
<1>5. CASE Disconnected(c)  BY <1>5 DEF Disconnected, NoCall
<1> QED BY <1>1, <1>2, <1>3, <1>4, <1>5 DEF CallSteps

LEMMA HandoverStep == HandoverInv /\ [Next]_vars => HandoverInv'
<1> SUFFICES ASSUME HandoverInv, [Next]_vars PROVE HandoverInv'
  OBVIOUS
<1>1. CallInv' /\ OnlyUpAccepts' /\ TypeOK'
  BY CallStep, AcceptsStep DEF HandoverInv, CallInv
<1>2. CASE \E s \in Sessions : Break(s) \/ Notice(s)
  BY <1>1, <1>2
     DEF Break, Notice, process, usage, HandoverInv, SyncEnded, QuietAfterDrain, Flushed
<1>3. CASE \E r \in Relays : RelaySteps(r)
  BY <1>1, <1>3, HandoverRelayStep DEF HandoverInv
<1>4. CASE \E c \in Calls : CallSteps(c)
  BY <1>1, <1>4, HandoverCallStep DEF HandoverInv
<1>5. CASE UNCHANGED vars
  BY <1>1, <1>5 DEF vars, process, usage, history, HandoverInv, SyncEnded, QuietAfterDrain, Flushed
<1> QED BY <1>2, <1>3, <1>4, <1>5 DEF Next

LEMMA HandoverInit == Init => HandoverInv
<1> SUFFICES ASSUME Init PROVE HandoverInv
  OBVIOUS
<1>1. OnlyUpAccepts /\ SyncEnded /\ QuietAfterDrain /\ Flushed
  BY DEF Init, OnlyUpAccepts, SyncEnded, QuietAfterDrain, Flushed, Past
<1> QED BY <1>1, CallInit DEF HandoverInv

\* A relay whose drain did not run into its deadline and whose last flush went
\* through hands its lease on with no call at the provider and no usage in memory,
\* for any number of calls, leaked ones included (AppState::shutdown).
THEOREM CleanHandover == Spec => []HandoverIsClean
<1>1. Init => HandoverInv  BY HandoverInit
<1>2. HandoverInv => HandoverIsClean
  BY DEF HandoverInv, HandoverIsClean, UsageHandedOver, Flushed
<1> QED BY <1>1, <1>2, HandoverStep, PTL DEF Spec

----------------------------------------------------------------------------
(* The refinement *)

\* The lock's session is known to the server, and nobody who has the lock is
\* remembered as one who lost it.
LockInv ==
    /\ lock.by # Nobody => link[lock.by] # "none"
    /\ Owner \notin lost

\* OwnerLease.connection is a session of the relay, and while it lives it is the
\* one that holds the lock.
LeaseInv ==
    \A r \in Relays : lease[r] # Nobody =>
        /\ lease[r] \in SessionsOf(r)
        /\ link[lease[r]] = "open" => lock.by = lease[r]

\* Who takes himself for the owner, or is about to, is the owner or lost the lock
\* without having been told.
Believes(r) ==
    \/ phase[r] = "booting"
    \/ phase[r] = "up" /\ (ready[r] \/ task[r] = "yes" \/ health[r] = "yes")

Entitled == \A r \in Relays : Believes(r) => Owner = r \/ r \in lost

OwnerInv == TypeOK /\ OnlyUpAccepts /\ LockInv /\ LeaseInv /\ Entitled

\* Who the owner is, before and after a step.
LEMMA OwnerOf ==
    ASSUME TypeOK
    PROVE  /\ Owner = Nobody <=> lock.by = Nobody
           /\ \A s \in Sessions : lock.by = s => Owner = s[1]
           /\ \A r \in Relays : Owner = r => lock.by \in SessionsOf(r)
<1>1. lock.by \in Sessions \cup {Nobody}  BY DEF TypeOK
<1> QED BY <1>1, SessionParts, ServiceAssumption DEF Owner

LEMMA OwnerOfNext ==
    ASSUME TypeOK'
    PROVE  /\ Owner' = Nobody <=> lock.by' = Nobody
           /\ \A s \in Sessions : lock.by' = s => Owner' = s[1]
           /\ \A r \in Relays : Owner' = r => lock.by' \in SessionsOf(r)
<1>1. lock'.by \in Sessions \cup {Nobody}  BY DEF TypeOK
<1> QED BY <1>1, SessionParts, ServiceAssumption DEF Owner

\* A relay takes the lock: nobody had it, or a session of its pool that was given
\* back with it.
LEMMA TakesLock ==
    ASSUME OwnerInv, TypeOK', NEW r \in Relays, NEW s \in SessionsOf(r), MayLock(s),
           lock' = Locked(s), link' = [link EXCEPT ![s] = "open"],
           lease' = [lease EXCEPT ![r] = s], lost' = lost \ {r}
    PROVE  /\ Owner' = r
           /\ Owner \in {Nobody, r}
           /\ Owner = r => lost' = lost
           /\ LockInv' /\ LeaseInv'
           /\ \A q \in Relays : Owner = q \/ q \in lost => Owner' = q \/ q \in lost'
<1>1. s \in Sessions /\ s[1] = r /\ s # Nobody  BY SessionParts
<1>2. lock'.by = s  BY DEF Locked
<1>3. Owner' = r  BY <1>1, <1>2, OwnerOfNext
<1>4. Owner \in {Nobody, r}  BY <1>1, OwnerOf DEF MayLock, OwnerInv
<1>5. Owner = r => lost' = lost  BY DEF OwnerInv, LockInv
<1>6. LockInv'  BY <1>1, <1>2, <1>3 DEF LockInv, OwnerInv, TypeOK
<1>7. LeaseInv'
  <2> SUFFICES ASSUME NEW q \in Relays, lease'[q] # Nobody
               PROVE  /\ lease'[q] \in SessionsOf(q)
                      /\ link'[lease'[q]] = "open" => lock'.by = lease'[q]
    BY DEF LeaseInv
  <2>1. CASE q = r  BY <1>2, <2>1 DEF OwnerInv, TypeOK
  <2>2. CASE q # r
    <3>1. lease'[q] = lease[q] /\ lease[q] \in SessionsOf(q)
      BY <2>2 DEF OwnerInv, TypeOK, LeaseInv
    <3>2. lease[q] \in Sessions /\ lease[q] # s  BY <1>1, <2>2, <3>1, SessionParts
    <3>3. link'[lease[q]] = link[lease[q]]  BY <1>1, <3>2 DEF OwnerInv, TypeOK
    <3>4. link[lease[q]] # "open"
      BY <3>1, <3>2 DEF OwnerInv, LeaseInv, MayLock
    <3> QED BY <3>1, <3>3, <3>4
  <2> QED BY <2>1, <2>2
<1>8. \A q \in Relays : Owner = q \/ q \in lost => Owner' = q \/ q \in lost'
  BY <1>3, <1>4, ServiceAssumption
<1> QED BY <1>3, <1>4, <1>5, <1>6, <1>7, <1>8

\* Who admits calls, before and after a step.
LEMMA AdmitsWhenUp ==
    ASSUME TypeOK, OnlyUpAccepts, NEW r \in Relays
    PROVE  Admits(r) <=> phase[r] = "up" /\ accepting[r] /\ ready[r]
BY DEF TypeOK, OnlyUpAccepts, Admits, Serving, Phases

LEMMA AdmitsWhenUpNext ==
    ASSUME TypeOK', OnlyUpAccepts', NEW r \in Relays
    PROVE  Admits(r)' <=> phase'[r] = "up" /\ accepting'[r] /\ ready'[r]
BY DEF TypeOK, OnlyUpAccepts, Admits, Serving, Phases

Opened == {r \in Relays : Admits(r)}

Mapped == [Ownership!Next]_(Ownership!ownership)

\* What the invariants and the mapping do not look at.
LEMMA OwnerFrame ==
    ASSUME lock'.by = lock.by, lost' = lost, Opened' = Opened
    PROVE  Owner' = Owner /\ Mapped
BY DEF Mapped, Ownership!ownership, Owner, Opened

\* Steps that leave the sessions and the lock alone and let no one believe more.
LEMMA QuietStep ==
    ASSUME OwnerInv, TypeOK', OnlyUpAccepts', link' = link, lock'.by = lock.by, lost' = lost,
           \A q \in Relays : lease'[q] \in {lease[q], Nobody},
           \A q \in Relays : Believes(q)' => Believes(q) \/ Owner = q,
           Opened' = Opened
    PROVE  LockInv' /\ LeaseInv' /\ Entitled' /\ Mapped
<1>1. Owner' = Owner /\ Mapped  BY OwnerFrame
<1>2. LockInv' /\ LeaseInv'  BY <1>1 DEF OwnerInv, LockInv, LeaseInv
<1>3. Entitled'  BY <1>1 DEF OwnerInv, Entitled
<1> QED BY <1>1, <1>2, <1>3

\* A relay that shuts, or ends.
LEMMA Shuts ==
    ASSUME NEW r \in Relays, UNCHANGED lock, Opened' = Opened \ {r},
           lost' \in {lost, lost \ {r}}
    PROVE  Owner' = Owner /\ Mapped
<1>1. Owner' = Owner  BY DEF Owner
<1>2. Ownership!Shut(r)  BY <1>1 DEF Ownership!Shut, Opened
<1> QED BY <1>1, <1>2 DEF Mapped, Ownership!Next

\* A relay that opens believes.
LEMMA Opens ==
    ASSUME OwnerInv, NEW r \in Relays, UNCHANGED <<lock, lost>>, Believes(r),
           Opened' = Opened \cup {r}
    PROVE  Owner' = Owner /\ Mapped
<1>1. Owner' = Owner  BY DEF Owner
<1>2. Ownership!Open(r)  BY <1>1 DEF Ownership!Open, Opened, OwnerInv, Entitled
<1> QED BY <1>1, <1>2 DEF Mapped, Ownership!Next

\* A relay stores what the owner task or a health request found out before.
LEMMA StoresReady ==
    ASSUME OwnerInv, TypeOK', OnlyUpAccepts', NEW r \in Relays, NEW yes \in BOOLEAN,
           UNCHANGED <<link, lock, lease, lost, phase, accepting>>,
           ready' = [ready EXCEPT ![r] = yes],
           phase[r] = "up" /\ yes => Believes(r),
           \A q \in Relays : Believes(q)' => Believes(q)
    PROVE  LockInv' /\ LeaseInv' /\ Entitled' /\ Mapped
<1>1. \A q \in Relays \ {r} : Admits(q)' <=> Admits(q)
  BY AdmitsWhenUp, AdmitsWhenUpNext DEF OwnerInv, TypeOK
<1>2. Admits(r)' <=> phase[r] = "up" /\ accepting[r] /\ yes
  BY AdmitsWhenUpNext DEF OwnerInv, TypeOK
<1>3. Owner' = Owner /\ Mapped
  <2>1. CASE Admits(r)'
    <3>1. Opened' = Opened \cup {r}  BY <1>1, <2>1 DEF Opened
    <3> QED BY <1>2, <2>1, <3>1, Opens
  <2>2. CASE ~Admits(r)'
    <3>1. Opened' = Opened \ {r}  BY <1>1, <2>2 DEF Opened
    <3> QED BY <3>1, Shuts
  <2> QED BY <2>1, <2>2
<1>4. LockInv' /\ LeaseInv'  BY <1>3 DEF OwnerInv, LockInv, LeaseInv
<1>5. Entitled'  BY <1>3 DEF OwnerInv, Entitled
<1> QED BY <1>3, <1>4, <1>5

\* The owner lets go of the lock, or the server takes it from one that is gone.
LEMMA Resigns ==
    ASSUME OwnerInv, TypeOK', NEW r \in Relays, Owner = r, ~Believes(r), r \notin Opened,
           lock' = Free, lost' = lost, Opened' = Opened,
           \A q \in Relays : Believes(q)' => Believes(q)
    PROVE  LockInv' /\ Entitled' /\ Mapped
<1>1. Owner' = Nobody /\ lock'.by = Nobody  BY OwnerOfNext DEF Free
<1>2. LockInv'  BY <1>1, ServiceAssumption DEF LockInv, OwnerInv, TypeOK
<1>3. Entitled'  BY <1>1 DEF OwnerInv, Entitled
<1>4. Ownership!Resign(r)  BY <1>1 DEF Ownership!Resign, Opened
<1> QED BY <1>2, <1>3, <1>4 DEF Mapped, Ownership!Next

\* While the lease's session answers, the relay is the owner.
LEMMA AnswersMeansOwner ==
    ASSUME OwnerInv, NEW r \in Relays, LeaseAnswers(r)
    PROVE  lock.by = lease[r] /\ Owner = r
<1>1. lease[r] # Nobody /\ link[lease[r]] = "open"  BY DEF LeaseAnswers
<1>2. lock.by = lease[r] /\ lease[r] \in SessionsOf(r)  BY <1>1 DEF OwnerInv, LeaseInv
<1> QED BY <1>2, SessionParts, OwnerOf DEF OwnerInv

LEMMA OwnerSessionStep ==
    ASSUME OwnerInv, TypeOK', OnlyUpAccepts', NEW s \in Sessions, Break(s) \/ Notice(s)
    PROVE  LockInv' /\ LeaseInv' /\ Entitled' /\ Mapped
<1>0. /\ UNCHANGED <<lease, task, phase, accepting, ready, health>>
      /\ Opened' = Opened /\ \A q \in Relays : Believes(q)' <=> Believes(q)
  BY DEF Break, Notice, process, Opened, Admits, Serving, Believes
<1>1. CASE Break(s)
  <2>1. lock' = lock /\ lost' = lost /\ link' = [link EXCEPT ![s] = "broken"]
    BY <1>1 DEF Break
  <2>2. Owner' = Owner /\ Mapped  BY <1>0, <2>1, OwnerFrame
  <2>3. LockInv' /\ LeaseInv'
    BY <1>0, <2>1, <2>2, SessionParts DEF OwnerInv, TypeOK, LockInv, LeaseInv
  <2>4. Entitled'  BY <1>0, <2>1, <2>2 DEF OwnerInv, Entitled
  <2> QED BY <2>2, <2>3, <2>4
<1>2. CASE Notice(s)
  <2>1. link' = [link EXCEPT ![s] = "none"]  BY <1>2 DEF Notice
  <2>2. CASE lock.by # s
    <3>1. lock' = lock /\ lost' = lost  BY <1>2, <2>2 DEF Notice
    <3>2. Owner' = Owner /\ Mapped  BY <1>0, <3>1, OwnerFrame
    <3>3. LockInv' /\ LeaseInv'
      BY <1>0, <2>1, <2>2, <3>1, <3>2, SessionParts DEF OwnerInv, TypeOK, LockInv, LeaseInv
    <3>4. Entitled'  BY <1>0, <3>1, <3>2 DEF OwnerInv, Entitled
    <3> QED BY <3>2, <3>3, <3>4
  <2>3. CASE lock.by = s
    <3>1. lock' = Free  BY <1>2, <2>3 DEF Notice
    <3>2. Owner = s[1] /\ s[1] \in Relays  BY <2>3, OwnerOf, SessionParts DEF OwnerInv
    <3>3. LeaseInv'
      BY <1>0, <2>1, <2>3, <3>1, SessionParts DEF OwnerInv, TypeOK, LeaseInv
    <3>4. CASE phase[s[1]] = "down"
      <4>1. lost' = lost  BY <1>2, <3>4 DEF Notice
      <4>2. ~Believes(s[1]) /\ s[1] \notin Opened
        BY <3>2, <3>4, AdmitsWhenUp DEF Believes, Opened, OwnerInv
      <4> QED BY <1>0, <3>1, <3>2, <3>3, <4>1, <4>2, Resigns
    <3>5. CASE phase[s[1]] # "down"
      <4>1. lost' = lost \cup {s[1]}  BY <1>2, <2>3, <3>5 DEF Notice
      <4>2. Owner' = Nobody /\ lock'.by = Nobody  BY <3>1, OwnerOfNext DEF Free
      <4>3. LockInv'  BY <4>2, ServiceAssumption DEF LockInv, TypeOK
      <4>4. Entitled'  BY <1>0, <3>2, <4>1 DEF OwnerInv, Entitled
      <4>5. Ownership!Lose(s[1])  BY <1>0, <3>2, <4>1, <4>2 DEF Ownership!Lose, Opened
      <4> QED BY <3>2, <3>3, <4>3, <4>4, <4>5 DEF Mapped, Ownership!Next
    <3> QED BY <3>4, <3>5
  <2> QED BY <2>2, <2>3
<1> QED BY <1>1, <1>2

\* The relay takes the lock, at its start or again.
LEMMA OwnerTake ==
    ASSUME OwnerInv, TypeOK', OnlyUpAccepts', NEW r \in Relays, NEW s \in SessionsOf(r),
           MayLock(s), lock' = Locked(s), link' = [link EXCEPT ![s] = "open"],
           lease' = [lease EXCEPT ![r] = s], lost' = lost \ {r}, Opened' = Opened,
           \A q \in Relays \ {r} : Believes(q)' => Believes(q)
    PROVE  LockInv' /\ LeaseInv' /\ Entitled' /\ Mapped
<1>1. /\ Owner' = r /\ Owner \in {Nobody, r} /\ (Owner = r => lost' = lost)
      /\ LockInv' /\ LeaseInv'
      /\ \A q \in Relays : Owner = q \/ q \in lost => Owner' = q \/ q \in lost'
  BY TakesLock
<1>2. Entitled'  BY <1>1 DEF OwnerInv, Entitled
<1>3. CASE Owner = r
  <2>1. Mapped  BY <1>1, <1>3 DEF Mapped, Ownership!ownership, Opened
  <2> QED BY <1>1, <1>2, <2>1
<1>4. CASE Owner = Nobody
  <2>1. Ownership!Take(r)  BY <1>1, <1>4 DEF Ownership!Take, Opened
  <2> QED BY <1>1, <1>2, <2>1 DEF Mapped, Ownership!Next
<1> QED BY <1>1, <1>2, <1>3, <1>4

\* The process is gone: its sessions break, and it is shut.
LEMMA OwnerGone ==
    ASSUME OwnerInv, TypeOK', OnlyUpAccepts', NEW r \in Relays, Gone(r)
    PROVE  LockInv' /\ LeaseInv' /\ Entitled' /\ Mapped
<1>1. lock' = lock /\ lost' = lost \ {r}  BY DEF Gone
<1>2. \A q \in Relays \ {r} :
        /\ phase'[q] = phase[q] /\ accepting'[q] = accepting[q] /\ ready'[q] = ready[q]
        /\ task'[q] = task[q] /\ health'[q] = health[q] /\ lease'[q] = lease[q]
  BY DEF Gone, OwnerInv, TypeOK
<1>3. phase'[r] = "down" /\ lease'[r] = Nobody  BY DEF Gone, OwnerInv, TypeOK
<1>4. Opened' = Opened \ {r}
  BY <1>2, <1>3, AdmitsWhenUp, AdmitsWhenUpNext DEF Opened, OwnerInv
<1>5. Owner' = Owner /\ Mapped  BY <1>1, <1>4, Shuts
<1>6. \A s \in Sessions : /\ link'[s] = "none" => link[s] = "none"
                          /\ s[1] # r => link'[s] = link[s]
  BY DEF Gone
<1>7. LockInv'  BY <1>1, <1>5, <1>6 DEF OwnerInv, TypeOK, LockInv
<1>8. LeaseInv'
  <2> SUFFICES ASSUME NEW q \in Relays, lease'[q] # Nobody
               PROVE  /\ lease'[q] \in SessionsOf(q)
                      /\ link'[lease'[q]] = "open" => lock'.by = lease'[q]
    BY DEF LeaseInv
  <2>1. q # r /\ lease'[q] = lease[q] /\ lease[q] # Nobody  BY <1>2, <1>3
  <2>2. lease[q] \in SessionsOf(q) /\ lease[q] \in Sessions /\ lease[q][1] = q
    BY <2>1, SessionParts DEF OwnerInv, LeaseInv
  <2>3. link'[lease[q]] = link[lease[q]]  BY <1>6, <2>1, <2>2
  <2> QED BY <1>1, <2>1, <2>2, <2>3 DEF OwnerInv, LeaseInv
<1>9. Entitled'
  <2>1. ~Believes(r)'  BY <1>3 DEF Believes
  <2>2. \A q \in Relays \ {r} : Believes(q)' <=> Believes(q)  BY <1>2 DEF Believes
  <2> QED BY <1>1, <1>5, <2>1, <2>2 DEF OwnerInv, Entitled
<1> QED BY <1>5, <1>7, <1>8, <1>9

\* The end of the lease in a shutdown: nothing is admitted any more.
LEMMA OwnerRelease ==
    ASSUME OwnerInv, TypeOK', OnlyUpAccepts', NEW r \in Relays, Release(r)
    PROVE  LockInv' /\ LeaseInv' /\ Entitled' /\ Mapped
<1>1. /\ phase[r] = "releasing" /\ phase' = [phase EXCEPT ![r] = "closing"]
      /\ lease' = [lease EXCEPT ![r] = Nobody]
      /\ UNCHANGED <<link, task, accepting, ready, health, lost>>
  BY DEF Release, Advance, history
<1>2. Opened' = Opened /\ r \notin Opened
  BY <1>1, AdmitsWhenUp, AdmitsWhenUpNext DEF Opened, OwnerInv, TypeOK
<1>3. ~Believes(r) /\ \A q \in Relays : Believes(q)' => Believes(q)
  BY <1>1 DEF Believes, OwnerInv, TypeOK
<1>4. \/ lock' = lock
      \/ LeaseAnswers(r) /\ lock' = [lock EXCEPT !.depth = @ - 1]
      \/ LeaseAnswers(r) /\ lock' = Free
  BY DEF Release
<1>5. CASE lock'.by = lock.by
  BY <1>1, <1>2, <1>3, <1>5, QuietStep DEF OwnerInv, TypeOK
<1>6. CASE LeaseAnswers(r) /\ lock' = Free
  <2>1. Owner = r /\ lock.by = lease[r]  BY <1>6, AnswersMeansOwner
  <2>2. LockInv' /\ Entitled' /\ Mapped  BY <1>1, <1>2, <1>3, <1>6, <2>1, Resigns
  <2>3. LeaseInv'
    <3> SUFFICES ASSUME NEW q \in Relays, lease'[q] # Nobody
                 PROVE  lease'[q] \in SessionsOf(q) /\ link'[lease'[q]] # "open"
      BY DEF LeaseInv
    <3>1. q # r /\ lease'[q] = lease[q]  BY <1>1 DEF OwnerInv, TypeOK
    <3>2. lease[q] \in SessionsOf(q)  BY <3>1 DEF OwnerInv, LeaseInv
    <3>3. lock.by # lease[q]  BY <2>1, <3>1, <3>2, OwnerOf, SessionParts DEF OwnerInv
    <3> QED BY <1>1, <3>1, <3>2, <3>3 DEF OwnerInv, LeaseInv
  <2> QED BY <2>2, <2>3
<1> QED BY <1>4, <1>5, <1>6 DEF OwnerInv, TypeOK

LEMMA OwnerClose ==
    ASSUME OwnerInv, TypeOK', OnlyUpAccepts', NEW r \in Relays, Close(r)
    PROVE  LockInv' /\ LeaseInv' /\ Entitled' /\ Mapped
<1>1. /\ phase[r] = "closing" /\ phase' = [phase EXCEPT ![r] = "closed"]
      /\ UNCHANGED <<lease, task, accepting, ready, health, lost>>
  BY DEF Close, Advance, history
<1>2. Opened' = Opened /\ r \notin Opened
  BY <1>1, AdmitsWhenUp, AdmitsWhenUpNext DEF Opened, OwnerInv, TypeOK
<1>3. ~Believes(r) /\ \A q \in Relays : Believes(q)' => Believes(q)
  BY <1>1 DEF Believes, OwnerInv, TypeOK
<1>4. \A s \in Sessions : /\ s[1] = r => link'[s] # "open"
                          /\ ~(s[1] = r /\ link[s] = "open") => link'[s] = link[s]
  BY DEF Close
<1>5. CASE \E s \in SessionsOf(r) : s = lock.by /\ link[s] = "open"
  <2>1. lock' = Free  BY <1>5 DEF Close
  <2>2. Owner = r  BY <1>5, OwnerOf, SessionParts DEF OwnerInv
  <2>3. LockInv' /\ Entitled' /\ Mapped  BY <1>1, <1>2, <1>3, <2>1, <2>2, Resigns
  <2>4. LeaseInv'
    <3> SUFFICES ASSUME NEW q \in Relays, lease[q] # Nobody
                 PROVE  lease[q] \in SessionsOf(q) /\ link'[lease[q]] # "open"
      BY <1>1 DEF LeaseInv
    <3>1. lease[q] \in SessionsOf(q) /\ lease[q] \in Sessions /\ lease[q][1] = q
      BY SessionParts DEF OwnerInv, LeaseInv
    <3>2. CASE q = r  BY <1>4, <3>1, <3>2
    <3>3. CASE q # r
      <4>1. lock.by # lease[q]  BY <2>2, <3>1, <3>3, OwnerOf DEF OwnerInv
      <4> QED BY <1>4, <3>1, <3>3, <4>1 DEF OwnerInv, LeaseInv
    <3> QED BY <3>2, <3>3
  <2> QED BY <2>3, <2>4
<1>6. CASE ~\E s \in SessionsOf(r) : s = lock.by /\ link[s] = "open"
  <2>1. lock' = lock  BY <1>6 DEF Close
  <2>2. Owner' = Owner /\ Mapped  BY <1>1, <1>2, <2>1, OwnerFrame
  <2>3. LockInv'
    <3>1. lock.by # Nobody => link'[lock.by] = link[lock.by]
      BY <1>4, <1>6, SessionParts DEF OwnerInv, TypeOK
    <3> QED BY <1>1, <2>1, <2>2, <3>1 DEF OwnerInv, LockInv
  <2>4. LeaseInv'
    <3> SUFFICES ASSUME NEW q \in Relays, lease[q] # Nobody
                 PROVE  /\ lease[q] \in SessionsOf(q)
                        /\ link'[lease[q]] = "open" => lock.by = lease[q]
      BY <1>1, <2>1 DEF LeaseInv
    <3>1. lease[q] \in SessionsOf(q) /\ lease[q] \in Sessions /\ lease[q][1] = q
      BY SessionParts DEF OwnerInv, LeaseInv
    <3> QED BY <1>4, <3>1 DEF OwnerInv, LeaseInv
  <2>5. Entitled'  BY <1>1, <1>3, <2>2 DEF OwnerInv, Entitled
  <2> QED BY <2>2, <2>3, <2>4, <2>5
<1> QED BY <1>5, <1>6

\* One step of a process maps to a step of the abstract specification.
LEMMA OwnerRelayStep ==
    ASSUME OwnerInv, TypeOK', OnlyUpAccepts', NEW r \in Relays, RelaySteps(r)
    PROVE  LockInv' /\ LeaseInv' /\ Entitled' /\ Mapped
<1> USE DEF sessions, process, usage, history
<1>0. TypeOK /\ OnlyUpAccepts  BY DEF OwnerInv
<1>1. CASE Acquire(r)
  <2>1. PICK s \in Idle(r) : Acquire(r)!3!(s)
    BY <1>1 DEF Acquire
  <2>2. s \in SessionsOf(r)  BY DEF Idle
  <2>3. phase[r] = "unborn" /\ UNCHANGED <<task, accepting, ready, health>>
    BY <1>1 DEF Acquire
  <2>4. \E to \in {"booting", "down"} : phase' = [phase EXCEPT ![r] = to]
    BY <2>1
  <2>5. \A q \in Relays \ {r} : phase'[q] = phase[q]  BY <1>0, <2>4 DEF TypeOK
  <2>6. Opened' = Opened
    BY <1>0, <2>3, <2>4, AdmitsWhenUp, AdmitsWhenUpNext DEF Opened, TypeOK
  <2>7. \A q \in Relays \ {r} : Believes(q)' => Believes(q)  BY <2>3, <2>5 DEF Believes
  <2>8. CASE MayLock(s)
    BY <2>1, <2>2, <2>6, <2>7, <2>8, OwnerTake
  <2>9. CASE ~MayLock(s)
    <3>1. UNCHANGED <<link, lock, lease, lost>> /\ phase' = [phase EXCEPT ![r] = "down"]
      BY <2>1, <2>9
    <3>2. ~Believes(r)'  BY <1>0, <3>1 DEF Believes, TypeOK
    <3> QED BY <2>6, <2>7, <3>1, <3>2, QuietStep
  <2> QED BY <2>8, <2>9
<1>2. CASE Started(r)
  <2>1. /\ phase[r] = "booting" /\ phase' = [phase EXCEPT ![r] = "up"]
        /\ accepting' = [accepting EXCEPT ![r] = TRUE] /\ ready' = [ready EXCEPT ![r] = TRUE]
        /\ UNCHANGED <<link, lock, lease, task, health, lost>>
    BY <1>2 DEF Started
  <2>2. Opened' = Opened \cup {r}
    BY <1>0, <2>1, AdmitsWhenUp, AdmitsWhenUpNext DEF Opened, TypeOK
  <2>3. Believes(r) /\ \A q \in Relays : Believes(q)' => Believes(q)
    BY <1>0, <2>1 DEF Believes, TypeOK
  <2>4. Owner' = Owner /\ Mapped  BY <2>1, <2>2, <2>3, Opens
  <2>5. LockInv' /\ LeaseInv'  BY <2>1, <2>4 DEF OwnerInv, LockInv, LeaseInv
  <2>6. Entitled'  BY <2>1, <2>3, <2>4 DEF OwnerInv, Entitled
  <2> QED BY <2>4, <2>5, <2>6
<1>3. CASE Crash(r) \/ Exit(r)
  BY <1>3, OwnerGone DEF Crash, Exit
<1>4. CASE CheckLease(r) \/ CheckCancelled(r)
  <2>1. /\ UNCHANGED <<link, lock, lost, phase, accepting, ready, health>>
        /\ \A q \in Relays : lease'[q] \in {lease[q], Nobody}
    BY <1>0, <1>4 DEF CheckLease, CheckCancelled, TypeOK
  <2>2. Opened' = Opened  BY <2>1 DEF Opened, Admits, Serving
  <2>3. \A q \in Relays : task'[q] = "yes" => task[q] = "yes" \/ Owner = q
    <3>1. /\ \E to \in {"yes", "retry"} : task' = [task EXCEPT ![r] = to]
          /\ task'[r] = "yes" => Owner = r
      BY <1>0, <1>4, AnswersMeansOwner DEF CheckLease, CheckCancelled, TypeOK
    <3>2. \A q \in Relays \ {r} : task'[q] = task[q]  BY <1>0, <3>1 DEF TypeOK
    <3> QED BY <3>1, <3>2
  <2>4. \A q \in Relays : Believes(q)' => Believes(q) \/ Owner = q
    BY <2>1, <2>3 DEF Believes
  <2> QED BY <2>1, <2>2, <2>4, QuietStep
<1>5. CASE RetryLease(r)
  <2>1. UNCHANGED <<phase, accepting, ready, health>>  BY <1>5 DEF RetryLease
  <2>2. Opened' = Opened  BY <2>1 DEF Opened, Admits, Serving
  <2>3. \A q \in Relays \ {r} : task'[q] = task[q]  BY <1>0, <1>5 DEF RetryLease, TypeOK
  <2>4. \A q \in Relays \ {r} : Believes(q)' => Believes(q)  BY <2>1, <2>3 DEF Believes
  <2>5. CASE \E s \in Idle(r) : RetryLease(r)!2!1!(s)
    <3>1. PICK s \in Idle(r) : RetryLease(r)!2!1!(s)
      BY <2>5
    <3>2. s \in SessionsOf(r) /\ s # lease[r]  BY DEF Idle
    <3>3. CASE MayLock(s)
      BY <2>2, <2>4, <3>1, <3>2, <3>3, OwnerTake
    <3>4. CASE ~MayLock(s)
      <4>1. /\ link' = [link EXCEPT ![s] = "open"] /\ UNCHANGED <<lock, lease, lost>>
            /\ task' = [task EXCEPT ![r] = "no"]
        BY <3>1, <3>4
      <4>2. Owner' = Owner /\ Mapped  BY <2>2, <4>1, OwnerFrame
      <4>3. LockInv'  BY <1>0, <3>2, <4>1, <4>2, SessionParts DEF OwnerInv, TypeOK, LockInv
      <4>4. \A q \in Relays : lease[q] # Nobody => lease[q] # s /\ link'[lease[q]] = link[lease[q]]
        BY <1>0, <3>2, <4>1, SessionParts DEF OwnerInv, TypeOK, LeaseInv
      <4>5. LeaseInv'  BY <4>1, <4>4 DEF OwnerInv, LeaseInv
      <4>6. Believes(r)' => Believes(r)  BY <1>0, <2>1, <4>1 DEF Believes, TypeOK
      <4>7. Entitled'  BY <2>4, <4>1, <4>2, <4>6 DEF OwnerInv, Entitled
      <4> QED BY <4>2, <4>3, <4>5, <4>7
    <3> QED BY <3>3, <3>4
  <2>6. CASE RetryLease(r)!2!2
    <3>1. UNCHANGED <<link, lock, lease, lost>> /\ task' = [task EXCEPT ![r] = "no"]
      BY <2>6
    <3>2. Believes(r)' => Believes(r)  BY <1>0, <2>1, <3>1 DEF Believes, TypeOK
    <3> QED BY <2>2, <2>4, <3>1, <3>2, QuietStep
  <2> QED BY <1>5, <2>5, <2>6 DEF RetryLease
<1>6. CASE StoreReady(r)
  <2>1. /\ UNCHANGED <<link, lock, lease, lost, phase, accepting, health>>
        /\ ready' = [ready EXCEPT ![r] = (task[r] = "yes")]
        /\ task' = [task EXCEPT ![r] = "asleep"]
    BY <1>6 DEF StoreReady
  <2>2. \A q \in Relays : Believes(q)' => Believes(q)  BY <1>0, <2>1 DEF Believes, TypeOK
  <2>3. phase[r] = "up" /\ task[r] = "yes" => Believes(r)  BY DEF Believes
  <2> QED BY <2>1, <2>2, <2>3, StoresReady
<1>7. CASE StoreHealth(r)
  <2>1. /\ UNCHANGED <<link, lock, lease, lost, phase, accepting, task>>
        /\ ready' = [ready EXCEPT ![r] = (health[r] = "yes")]
        /\ health' = [health EXCEPT ![r] = "none"]
    BY <1>7 DEF StoreHealth
  <2>2. \A q \in Relays : Believes(q)' => Believes(q)  BY <1>0, <2>1 DEF Believes, TypeOK
  <2>3. phase[r] = "up" /\ health[r] = "yes" => Believes(r)  BY DEF Believes
  <2> QED BY <2>1, <2>2, <2>3, StoresReady
<1>8. CASE AskHealth(r)
  <2>1. UNCHANGED <<link, lock, lease, lost, phase, accepting, ready, task>>
    BY <1>8 DEF AskHealth
  <2>2. Opened' = Opened  BY <2>1 DEF Opened, Admits, Serving
  <2>3. \A q \in Relays : health'[q] = "yes" => health[q] = "yes" \/ Owner = q
    <3>1. /\ \E to \in {"yes", "no"} : health' = [health EXCEPT ![r] = to]
          /\ health'[r] = "yes" => Owner = r
      BY <1>0, <1>8, AnswersMeansOwner DEF AskHealth, TypeOK
    <3>2. \A q \in Relays \ {r} : health'[q] = health[q]  BY <1>0, <3>1 DEF TypeOK
    <3> QED BY <3>1, <3>2
  <2>4. \A q \in Relays : Believes(q)' => Believes(q) \/ Owner = q
    BY <2>1, <2>3 DEF Believes
  <2> QED BY <2>1, <2>2, <2>4, QuietStep
<1>9. CASE FlushUsage(r) \/ SyncEnd(r)
  <2>1. UNCHANGED <<link, lock, lease, lost, phase, accepting, ready, task, health>>
    BY <1>9 DEF FlushUsage, SyncEnd
  <2>2. Opened' = Opened  BY <2>1 DEF Opened, Admits, Serving
  <2>3. \A q \in Relays : Believes(q)' => Believes(q)  BY <2>1 DEF Believes
  <2> QED BY <2>1, <2>2, <2>3, QuietStep
<1>10. CASE Signal(r)
  <2>1. /\ phase' = [phase EXCEPT ![r] = "draining"]
        /\ accepting' = [accepting EXCEPT ![r] = FALSE]
        /\ UNCHANGED <<link, lock, lease, task, ready, health, lost>>
    BY <1>10 DEF Signal, Advance
  <2>2. Opened' = Opened \ {r}
    BY <1>0, <2>1, AdmitsWhenUp, AdmitsWhenUpNext DEF Opened, TypeOK
  <2>3. \A q \in Relays : Believes(q)' => Believes(q)  BY <1>0, <2>1 DEF Believes, TypeOK
  <2>4. Owner' = Owner /\ Mapped  BY <2>1, <2>2, Shuts
  <2>5. LockInv' /\ LeaseInv'  BY <2>1, <2>4 DEF OwnerInv, LockInv, LeaseInv
  <2>6. Entitled'  BY <2>1, <2>3, <2>4 DEF OwnerInv, Entitled
  <2> QED BY <2>4, <2>5, <2>6
<1>11. CASE Drained(r) \/ TasksStopped(r) \/ FlushLast(r)
  <2>1. /\ UNCHANGED <<link, lock, lease, task, accepting, ready, health, lost>>
        /\ phase[r] \notin {"booting", "up"}
        /\ \E to \in {"stopping", "flushing", "releasing"} : phase' = [phase EXCEPT ![r] = to]
    BY <1>11 DEF Drained, TasksStopped, FlushLast, Advance
  <2>2. Opened' = Opened
    BY <1>0, <2>1, AdmitsWhenUp, AdmitsWhenUpNext DEF Opened, TypeOK
  <2>3. \A q \in Relays : Believes(q)' => Believes(q)  BY <1>0, <2>1 DEF Believes, TypeOK
  <2> QED BY <2>1, <2>2, <2>3, QuietStep
<1>12. CASE Release(r)  BY <1>12, OwnerRelease
<1>13. CASE Close(r)  BY <1>13, OwnerClose
<1> QED
  BY <1>1, <1>2, <1>3, <1>4, <1>5, <1>6, <1>7, <1>8, <1>9, <1>10, <1>11, <1>12, <1>13 DEF RelaySteps

LEMMA OwnerStep == HandoverInv /\ OwnerInv /\ [Next]_vars => OwnerInv' /\ Mapped
<1> SUFFICES ASSUME HandoverInv, OwnerInv, [Next]_vars PROVE OwnerInv' /\ Mapped
  OBVIOUS
<1>1. TypeOK' /\ OnlyUpAccepts'  BY HandoverStep DEF HandoverInv, CallInv
<1>2. CASE \E s \in Sessions : Break(s) \/ Notice(s)
  BY <1>1, <1>2, OwnerSessionStep DEF OwnerInv
<1>3. CASE \E r \in Relays : RelaySteps(r)
  BY <1>1, <1>3, OwnerRelayStep DEF OwnerInv
<1>4. CASE (\E c \in Calls : CallSteps(c)) \/ UNCHANGED vars
  <2>1. UNCHANGED <<link, lock, lease, lost, task, phase, accepting, ready, health>>
    BY <1>4 DEF CallSteps, Begin, Dispatch, Worked, Finish, Disconnected, vars, sessions, process,
                history
  <2>2. Opened' = Opened  BY <2>1 DEF Opened, Admits, Serving
  <2>3. \A q \in Relays : Believes(q)' => Believes(q)  BY <2>1 DEF Believes
  <2> QED BY <1>1, <2>1, <2>2, <2>3, QuietStep DEF OwnerInv
<1> QED BY <1>2, <1>3, <1>4 DEF Next

\* The relay implements the single-owner specification: for any number of relays,
\* sessions, calls and faults the lock passes on by way of nobody, only the owner
\* or one that lost the lock without knowing opens to calls, and the lock is never
\* given back by a relay that is open (OwnerLease, `ready`, AppState::shutdown).
THEOREM SingleOwnership == Spec => SingleOwner
<1>1. Init => HandoverInv /\ OwnerInv
  <2> SUFFICES ASSUME Init PROVE HandoverInv /\ OwnerInv
    OBVIOUS
  <2>1. HandoverInv  BY HandoverInit
  <2>2. Owner = Nobody  BY DEF Init, Owner, Free
  <2>3. LockInv /\ LeaseInv /\ Entitled
    BY <2>2 DEF Init, Free, LockInv, LeaseInv, Entitled, Believes
  <2> QED BY <2>1, <2>3 DEF HandoverInv, CallInv, OwnerInv
<1>2. Init => Ownership!Init
  <2> SUFFICES ASSUME Init PROVE Ownership!Init
    OBVIOUS
  <2>1. Owner = Nobody  BY DEF Init, Owner, Free
  <2>2. {r \in Relays : Admits(r)} = {}  BY DEF Init, Admits, Serving
  <2> QED BY <2>1, <2>2 DEF Init, Ownership!Init
<1>3. HandoverInv /\ OwnerInv /\ [Next]_vars
      => (HandoverInv /\ OwnerInv)' /\ [Ownership!Next]_(Ownership!ownership)
  BY HandoverStep, OwnerStep DEF Mapped
<1> QED BY <1>1, <1>2, <1>3, PTL DEF Spec, SingleOwner, Ownership!Spec

=============================================================================
