--------------------------- MODULE RawBufferProofs ---------------------------
(***************************************************************************)
(* Proofs about RawBuffer and the RankedProjection it works for, for every *)
(* set of rows, matches, workers and other projectors, whatever fails and  *)
(* however often.                                                          *)
(*                                                                         *)
(* The lemmas about the projection speak of one transaction at a time      *)
(* (Finalize, the base counts, CumulativeBatch, Close), so that they serve *)
(* both specifications.  Of the buffer: a row names its match by id and a  *)
(* worker writes its row by id alone, so what makes a mark true is what    *)
(* the worker knows when it writes it.  The invariant says what a worker   *)
(* knows at each point of a batch; it stays known because stages only      *)
(* grow.                                                                   *)
(***************************************************************************)
EXTENDS RawBuffer, TLAPS

----------------------------------------------------------------------------
(* Types *)

LEMMA StageTypes ==
    /\ Cumulative \subseteq Counts
    /\ Cumulative \subseteq Stages
    /\ Required \subseteq Stages
    /\ "ranked_stats" \in Counts /\ "ranked_stats" \in Stages
    /\ "ranked_stats" \notin Cumulative
    /\ "facts" \in Stages
    /\ "performance_projections" \in Cumulative
    /\ "scalable_stats" \in Cumulative
BY DEF Cumulative, Counts, Stages, Required

LEMMA IdleType == Idle \in Calls
BY StageTypes DEF Idle, Calls

LEMMA FaultType ==
    ASSUME faults \in Nat, Fault
    PROVE  faults' \in Nat
BY ProjectionAssumption DEF Fault

LEMMA FinalizeType ==
    ASSUME ProjectionTypeOK, NEW m \in Matches, Finalize(m)
    PROVE  /\ stages' \in [Matches -> SUBSET Stages]
           /\ mstatus' \in [Matches -> MatchStatuses]
<1>1. stages' \in [Matches -> SUBSET Stages]
  BY StageTypes DEF ProjectionTypeOK, Finalize
<1>2. mstatus' \in [Matches -> MatchStatuses]
  BY DEF ProjectionTypeOK, Finalize, MatchStatuses
<1> QED BY <1>1, <1>2

LEMMA CumulativeBatchType ==
    ASSUME ProjectionTypeOK, NEW S \in SUBSET Matches, NEW s \in Cumulative,
           CumulativeBatch(S, s)
    PROVE  /\ stages' \in [Matches -> SUBSET Stages]
           /\ counted' \in [Counts -> [Matches -> Nat]]
           /\ ledger' \in [Cumulative -> SUBSET Matches]
<1>1. stages' \in [Matches -> SUBSET Stages]
  BY StageTypes DEF ProjectionTypeOK, CumulativeBatch
<1>2. counted' \in [Counts -> [Matches -> Nat]]
  <2> DEFINE f == [m \in Matches |-> IF m \in Claim(S, s)
                                     THEN counted[s][m] + 1 ELSE counted[s][m]]
  <2>1. s \in Counts  BY StageTypes
  <2>2. f \in [Matches -> Nat]  BY <2>1 DEF ProjectionTypeOK
  <2>3. counted' = [counted EXCEPT ![s] = f]  BY DEF CumulativeBatch
  <2> HIDE DEF f
  <2> QED BY <2>1, <2>2, <2>3 DEF ProjectionTypeOK
<1>3. ledger' \in [Cumulative -> SUBSET Matches]
  BY DEF ProjectionTypeOK, CumulativeBatch, Claim
<1> QED BY <1>1, <1>2, <1>3

LEMMA CloseType ==
    ASSUME ProjectionTypeOK, NEW S, Close(S)
    PROVE  mstatus' \in [Matches -> MatchStatuses]
BY DEF ProjectionTypeOK, Close, MatchStatuses

\* A call record keeps its type when one of its fields is set.
LEMMA CallTypes ==
    ASSUME NEW c \in Calls
    PROVE  /\ \A v \in {"idle", "ranked", "cumulative", "batch", "ok", "err"} :
                [c EXCEPT !.pc = v] \in Calls
           /\ \A T \in SUBSET Cumulative : [c EXCEPT !.todo = T] \in Calls
           /\ \A T \in SUBSET Cumulative :
                [c EXCEPT !.pc = "cumulative", !.todo = T] \in Calls
           /\ \A S \in SUBSET Matches : [c EXCEPT !.left = S] \in Calls
           /\ \A S \in SUBSET Matches :
                [c EXCEPT !.stage = "scalable_stats", !.left = S] \in Calls
BY StageTypes DEF Calls

\* The two records a call starts with.
LEMMA NewCallTypes ==
    ASSUME NEW I \in SUBSET Matches, NEW L \in SUBSET Matches
    PROVE  /\ [Idle EXCEPT !.pc = "ranked", !.ids = I] \in Calls
           /\ [Idle EXCEPT !.pc = "batch", !.ids = I, !.left = L] \in Calls
BY StageTypes DEF Idle, Calls

LEMMA ProjectMatchType ==
    ASSUME ProjectionTypeOK, NEW p \in Projectors, ProjectMatch(p)
    PROVE  ProjectionTypeOK'
<1> USE DEF ProjectionTypeOK
<1>0. proj[p] \in Calls  OBVIOUS
<1>1. CASE RankedTransaction(p)
  <2>1. PICK m \in proj[p].ids \ Limited :
            /\ counted' = IF CountDue(m)
                          THEN [counted EXCEPT !["ranked_stats"][m] = @ + 1]
                          ELSE counted
            /\ stages' = [stages EXCEPT ![m] = @ \cup {"ranked_stats"}]
            /\ proj' = [proj EXCEPT ![p].pc = "cumulative",
                                    ![p].todo = IF CountDue(m) THEN Cumulative
                                                ELSE Cumulative \ stages[m]]
    BY <1>1 DEF RankedTransaction
  <2>2. m \in Matches  BY <1>0, <2>1 DEF Calls
  <2>3. stages' \in [Matches -> SUBSET Stages]  BY <2>1, <2>2, StageTypes
  <2>4. counted' \in [Counts -> [Matches -> Nat]]
    <3>1. counted["ranked_stats"] \in [Matches -> Nat]  BY StageTypes
    <3> QED BY <2>1, <2>2, <3>1, StageTypes
  <2> DEFINE T == IF CountDue(m) THEN Cumulative ELSE Cumulative \ stages[m]
  <2>5. proj' = [proj EXCEPT ![p] = [proj[p] EXCEPT !.pc = "cumulative", !.todo = T]]
    BY <2>1
  <2>6. proj' \in [Projectors -> Calls]
    <3>1. T \in SUBSET Cumulative  OBVIOUS
    <3> HIDE DEF T
    <3>2. [proj[p] EXCEPT !.pc = "cumulative", !.todo = T] \in Calls
      BY <1>0, <3>1, CallTypes
    <3> QED BY <2>5, <3>2
  <2> QED BY <1>1, <2>3, <2>4, <2>6 DEF RankedTransaction
<1>2. CASE Reject(p)
  BY <1>0, <1>2, CallTypes DEF Reject
<1>3. CASE FinishStage(p)
  <2> DEFINE s == IF "performance_projections" \in proj[p].todo
                  THEN "performance_projections" ELSE "scalable_stats"
  <2>1. s \in Cumulative  BY StageTypes
  <2>2. proj[p].ids \in SUBSET Matches /\ proj[p].todo \in SUBSET Cumulative
    BY <1>0 DEF Calls
  <2>3. CumulativeBatch(proj[p].ids, s)  BY <1>3 DEF FinishStage
  <2>4. proj' = [proj EXCEPT ![p] = [proj[p] EXCEPT !.todo = proj[p].todo \ {s}]]
    BY <1>3 DEF FinishStage
  <2> HIDE DEF s
  <2>5. [proj[p] EXCEPT !.todo = proj[p].todo \ {s}] \in Calls
    BY <1>0, <2>2, CallTypes
  <2>6. proj' \in [Projectors -> Calls]  BY <2>4, <2>5
  <2>7. /\ stages' \in [Matches -> SUBSET Stages]
        /\ counted' \in [Counts -> [Matches -> Nat]]
        /\ ledger' \in [Cumulative -> SUBSET Matches]
    BY <2>1, <2>2, <2>3, CumulativeBatchType
  <2> QED BY <1>3, <2>6, <2>7 DEF FinishStage
<1>4. CASE FinishClose(p)
  <2>1. mstatus' \in [Matches -> MatchStatuses]
    BY <1>4, CloseType DEF FinishClose
  <2> QED BY <1>0, <1>4, <2>1, CallTypes DEF FinishClose
<1> QED BY <1>1, <1>2, <1>3, <1>4 DEF ProjectMatch

LEMMA CallerType ==
    ASSUME ProjectionTypeOK, NEW p \in Projectors, Caller(p)
    PROVE  ProjectionTypeOK'
<1> USE DEF ProjectionTypeOK
<1>0. proj[p] \in Calls /\ Idle \in Calls  BY IdleType
<1>1. ASSUME NEW m \in Matches, Ingest(p, m)  PROVE ProjectionTypeOK'
  <2>1. [Idle EXCEPT !.pc = "ranked", !.ids = {m}] \in Calls  BY NewCallTypes
  <2>2. proj' \in [Projectors -> Calls]  BY <1>1, <2>1 DEF Ingest, Begin
  <2> QED BY <1>1, <2>2, FinalizeType DEF Ingest
<1>2. ASSUME NEW m \in Matches, EnsureProjected(p, m)  PROVE ProjectionTypeOK'
  <2>1. [Idle EXCEPT !.pc = "ranked", !.ids = {m}] \in Calls  BY NewCallTypes
  <2> QED BY <1>2, <2>1 DEF EnsureProjected, Begin
<1>3. ASSUME NEW ids \in SUBSET Matches, ResumeBegin(p, ids)  PROVE ProjectionTypeOK'
  <2>1. Candidates(ids, "performance_projections") \in SUBSET Matches
    BY DEF Candidates
  <2>2. [Idle EXCEPT !.pc = "batch", !.ids = ids,
         !.left = Candidates(ids, "performance_projections")] \in Calls
    BY <2>1, NewCallTypes
  <2> QED BY <1>3, <2>2 DEF ResumeBegin
<1>4. CASE ProjectMatch(p)  BY <1>4, ProjectMatchType
<1>5. CASE ProjectFails(p)
  BY <1>0, <1>5, CallTypes, FaultType DEF ProjectFails
<1>6. CASE BatchChunk(p)
  <2>1. PICK S \in SUBSET proj[p].left :
            /\ CumulativeBatch(S, proj[p].stage)
            /\ proj' = [proj EXCEPT ![p].left = @ \ S]
    BY <1>6 DEF BatchChunk
  <2>2. proj[p].left \in SUBSET Matches /\ proj[p].stage \in Cumulative
    BY <1>0 DEF Calls
  <2>3. proj' \in [Projectors -> Calls]
    <3>1. [proj[p] EXCEPT !.left = proj[p].left \ S] \in Calls
      BY <1>0, <2>2, CallTypes
    <3>2. proj' = [proj EXCEPT ![p] = [proj[p] EXCEPT !.left = proj[p].left \ S]]
      BY <2>1
    <3> QED BY <3>1, <3>2
  <2>4. S \in SUBSET Matches  BY <2>1, <2>2
  <2> QED BY <1>6, <2>1, <2>2, <2>3, <2>4, CumulativeBatchType DEF BatchChunk
<1>7. CASE ResumeScalable(p)
  <2>1. Candidates(proj[p].ids, "scalable_stats") \in SUBSET Matches
    BY <1>0 DEF Candidates, Calls
  <2>2. [proj[p] EXCEPT !.stage = "scalable_stats",
                        !.left = Candidates(proj[p].ids, "scalable_stats")] \in Calls
    BY <1>0, <2>1, CallTypes
  <2>3. proj' = [proj EXCEPT ![p] =
                   [proj[p] EXCEPT !.stage = "scalable_stats",
                                   !.left = Candidates(proj[p].ids, "scalable_stats")]]
    BY <1>7 DEF ResumeScalable
  <2>4. proj' \in [Projectors -> Calls]  BY <2>2, <2>3
  <2> QED BY <1>7, <2>4 DEF ResumeScalable
<1>8. CASE ResumeClose(p)
  <2>1. mstatus' \in [Matches -> MatchStatuses]
    BY <1>8, CloseType DEF ResumeClose
  <2> QED BY <1>0, <1>8, <2>1 DEF ResumeClose
<1>9. CASE Answer(p)  BY <1>0, <1>9 DEF Answer
<1>10. CASE Abandon(p)  BY <1>0, <1>10, FaultType DEF Abandon
<1> QED
  BY <1>1, <1>2, <1>3, <1>4, <1>5, <1>6, <1>7, <1>8, <1>9, <1>10 DEF Caller

LEMMA PInitType == PInit => ProjectionTypeOK
<1> SUFFICES ASSUME PInit PROVE ProjectionTypeOK
  OBVIOUS
<1>1. stages \in [Matches -> SUBSET Stages]  BY DEF PInit, Stages
<1>2. mstatus \in [Matches -> MatchStatuses]  BY DEF PInit, MatchStatuses
<1>3. counted \in [Counts -> [Matches -> Nat]]  BY DEF PInit
<1>4. ledger \in [Cumulative -> SUBSET Matches] /\ faults \in Nat  BY DEF PInit
<1>5. proj \in [Projectors -> Calls]  BY IdleType DEF PInit
<1> QED BY <1>1, <1>2, <1>3, <1>4, <1>5 DEF ProjectionTypeOK

\* The tables and the processes keep their types.
THEOREM ProjectionTypeCorrect == PSpec => []ProjectionTypeOK
<1>1. ProjectionTypeOK /\ [PNext]_pvars => ProjectionTypeOK'
  <2> SUFFICES ASSUME ProjectionTypeOK, [PNext]_pvars PROVE ProjectionTypeOK'
    OBVIOUS
  <2>1. CASE \E p \in Projectors : Caller(p)  BY <2>1, CallerType
  <2>2. CASE UNCHANGED pvars  BY <2>2 DEF pvars, ProjectionTypeOK
  <2> QED BY <2>1, <2>2 DEF PNext
<1> QED BY <1>1, PInitType, PTL DEF PSpec

----------------------------------------------------------------------------
(* Counting *)

\* What the invariants say of the base counts, and of one cumulative stage.
BaseCounts ==
    \A m \in Matches :
        counted["ranked_stats"][m] = IF "ranked_stats" \in stages[m] THEN 1 ELSE 0

StageCounts ==
    \A s \in Cumulative, m \in Matches :
        counted[s][m] <= 1 /\ (counted[s][m] = 1 => m \in ledger[s])

LEMMA CountedParts == CountedAtMostOnce <=> BaseCounts /\ StageCounts
BY DEF CountedAtMostOnce, BaseCounts, StageCounts

\* What CumulativeBatch does to each count, ledger and stage set.
BatchEffect(S, s) ==
    /\ counted'["ranked_stats"] = counted["ranked_stats"]
    /\ ledger'[s] = ledger[s] \cup Claim(S, s)
    /\ \A t \in Cumulative \ {s} : counted'[t] = counted[t] /\ ledger'[t] = ledger[t]
    /\ \A m \in Matches :
         /\ counted'[s][m] = IF m \in Claim(S, s) THEN counted[s][m] + 1 ELSE counted[s][m]
         /\ stages'[m] = IF m \in S THEN stages[m] \cup {s} ELSE stages[m]

LEMMA CumulativeBatchEffect ==
    ASSUME ProjectionTypeOK, NEW S \in SUBSET Matches, NEW s \in Cumulative,
           CumulativeBatch(S, s)
    PROVE  BatchEffect(S, s)
<1> DEFINE f == [q \in Matches |-> IF q \in Claim(S, s)
                                   THEN counted[s][q] + 1 ELSE counted[s][q]]
<1>1. counted' = [counted EXCEPT ![s] = f]  BY DEF CumulativeBatch
<1>2. \A m \in Matches :
        f[m] = IF m \in Claim(S, s) THEN counted[s][m] + 1 ELSE counted[s][m]
  OBVIOUS
<1> HIDE DEF f
<1>3. counted'[s] = f /\ \A t \in Counts \ {s} : counted'[t] = counted[t]
  BY <1>1, StageTypes DEF ProjectionTypeOK
<1>4. \A t \in Cumulative \ {s} : ledger'[t] = ledger[t]
  BY DEF ProjectionTypeOK, CumulativeBatch
<1>5. ledger'[s] = ledger[s] \cup Claim(S, s)
  BY DEF ProjectionTypeOK, CumulativeBatch
<1>6. \A m \in Matches : stages'[m] = IF m \in S THEN stages[m] \cup {s} ELSE stages[m]
  BY DEF CumulativeBatch
<1> QED BY <1>2, <1>3, <1>4, <1>5, <1>6, StageTypes DEF BatchEffect

LEMMA CumulativeBatchCounts ==
    ASSUME ProjectionTypeOK, CountedAtMostOnce,
           NEW S \in SUBSET Matches, NEW s \in Cumulative, CumulativeBatch(S, s)
    PROVE  CountedAtMostOnce'
<1>0. BatchEffect(S, s)  BY CumulativeBatchEffect
<1>1. BaseCounts'
  <2> SUFFICES ASSUME NEW m \in Matches
               PROVE  counted'["ranked_stats"][m]
                        = IF "ranked_stats" \in stages'[m] THEN 1 ELSE 0
    BY DEF BaseCounts
  <2>1. "ranked_stats" \in stages'[m] <=> "ranked_stats" \in stages[m]
    BY <1>0, StageTypes DEF BatchEffect
  <2> QED BY <1>0, <2>1 DEF CountedAtMostOnce, BatchEffect
<1>2. StageCounts'
  <2> SUFFICES ASSUME NEW t \in Cumulative, NEW m \in Matches
               PROVE  counted'[t][m] <= 1 /\ (counted'[t][m] = 1 => m \in ledger'[t])
    BY DEF StageCounts
  <2>0. counted[t][m] \in Nat  BY StageTypes DEF ProjectionTypeOK
  <2>1. CASE t # s
    BY <1>0, <2>1 DEF CountedAtMostOnce, BatchEffect
  <2>2. CASE t = s /\ m \in Claim(S, s)
    <3>1. m \notin ledger[s]  BY <2>2 DEF Claim
    <3>2. counted[s][m] = 0  BY <2>0, <2>2, <3>1 DEF CountedAtMostOnce
    <3>3. counted'[s][m] = counted[s][m] + 1  BY <1>0, <2>2 DEF BatchEffect
    <3>4. m \in ledger'[s]  BY <1>0, <2>2 DEF BatchEffect
    <3> QED BY <2>2, <3>2, <3>3, <3>4
  <2>3. CASE t = s /\ m \notin Claim(S, s)
    BY <1>0, <2>3 DEF CountedAtMostOnce, BatchEffect
  <2> QED BY <2>1, <2>2, <2>3
<1> QED BY <1>1, <1>2 DEF CountedAtMostOnce, BaseCounts, StageCounts

\* The counts depend on ranked_stats, the counters and the ledgers only.
LEMMA CountsFramed ==
    ASSUME CountedAtMostOnce, UNCHANGED <<counted, ledger>>,
           \A m \in Matches : "ranked_stats" \in stages'[m] <=> "ranked_stats" \in stages[m]
    PROVE  CountedAtMostOnce'
BY DEF CountedAtMostOnce

LEMMA FinalizeCounts ==
    ASSUME ProjectionTypeOK, CountedAtMostOnce, NEW m \in Matches, Finalize(m),
           UNCHANGED <<counted, ledger>>
    PROVE  CountedAtMostOnce'
<1>1. \A q \in Matches : "ranked_stats" \in stages'[q] <=> "ranked_stats" \in stages[q]
  BY DEF ProjectionTypeOK, Finalize
<1> QED BY <1>1, CountsFramed

\* The base transaction, of whichever process.
LEMMA RankedTransactionEffect ==
    ASSUME ProjectionTypeOK, NEW p \in Projectors, RankedTransaction(p)
    PROVE  \E m \in proj[p].ids \ Limited :
             /\ m \in Matches
             /\ stages' = [stages EXCEPT ![m] = @ \cup {"ranked_stats"}]
             /\ \A t \in Cumulative : counted'[t] = counted[t]
             /\ \A q \in Matches : counted'["ranked_stats"][q] =
                  IF q = m /\ "ranked_stats" \notin stages[m]
                  THEN counted["ranked_stats"][q] + 1 ELSE counted["ranked_stats"][q]
<1>1. PICK m \in proj[p].ids \ Limited :
          /\ counted' = IF CountDue(m)
                        THEN [counted EXCEPT !["ranked_stats"][m] = @ + 1]
                        ELSE counted
          /\ stages' = [stages EXCEPT ![m] = @ \cup {"ranked_stats"}]
  BY DEF RankedTransaction
<1>2. m \in Matches  BY <1>1 DEF ProjectionTypeOK, Calls
<1>3. \A t \in Cumulative : counted'[t] = counted[t]
  BY <1>1, StageTypes DEF ProjectionTypeOK
<1>4. counted["ranked_stats"] \in [Matches -> Nat]
  BY StageTypes DEF ProjectionTypeOK
<1>5. \A q \in Matches : counted'["ranked_stats"][q] =
        IF q = m /\ "ranked_stats" \notin stages[m]
        THEN counted["ranked_stats"][q] + 1 ELSE counted["ranked_stats"][q]
  BY <1>1, <1>2, <1>4, StageTypes DEF ProjectionTypeOK, CountDue
<1> QED BY <1>1, <1>2, <1>3, <1>5

LEMMA ProjectMatchCounts ==
    ASSUME ProjectionTypeOK, CountedAtMostOnce, NEW p \in Projectors, ProjectMatch(p)
    PROVE  CountedAtMostOnce'
<1>0. proj[p] \in Calls  BY DEF ProjectionTypeOK
<1>1. CASE RankedTransaction(p)
  <2>1. PICK m \in Matches :
          /\ stages' = [stages EXCEPT ![m] = @ \cup {"ranked_stats"}]
          /\ \A t \in Cumulative : counted'[t] = counted[t]
          /\ \A q \in Matches : counted'["ranked_stats"][q] =
               IF q = m /\ "ranked_stats" \notin stages[m]
               THEN counted["ranked_stats"][q] + 1 ELSE counted["ranked_stats"][q]
    BY <1>1, RankedTransactionEffect
  <2>2. BaseCounts'
    BY <2>1 DEF BaseCounts, CountedAtMostOnce, ProjectionTypeOK
  <2>3. StageCounts'
    BY <1>1, <2>1 DEF StageCounts, CountedAtMostOnce, RankedTransaction
  <2> QED BY <2>2, <2>3 DEF CountedAtMostOnce, BaseCounts, StageCounts
<1>2. CASE Reject(p)  BY <1>2, CountsFramed DEF Reject
<1>3. CASE FinishStage(p)
  BY <1>0, <1>3, StageTypes, CumulativeBatchCounts DEF FinishStage, Calls
<1>4. CASE FinishClose(p)  BY <1>4, CountsFramed DEF FinishClose
<1> QED BY <1>1, <1>2, <1>3, <1>4 DEF ProjectMatch

LEMMA CallerCounts ==
    ASSUME ProjectionTypeOK, CountedAtMostOnce, NEW p \in Projectors, Caller(p)
    PROVE  CountedAtMostOnce'
<1>0. proj[p] \in Calls  BY DEF ProjectionTypeOK
<1>1. ASSUME NEW m \in Matches, Ingest(p, m)  PROVE CountedAtMostOnce'
  BY <1>1, FinalizeCounts DEF Ingest
<1>2. CASE ProjectMatch(p)  BY <1>2, ProjectMatchCounts
<1>3. CASE BatchChunk(p)
  <2>1. PICK S \in SUBSET proj[p].left : CumulativeBatch(S, proj[p].stage)
    BY <1>3 DEF BatchChunk
  <2>2. S \in SUBSET Matches /\ proj[p].stage \in Cumulative
    BY <1>0, <2>1 DEF Calls
  <2> QED BY <2>1, <2>2, CumulativeBatchCounts
<1>4. ASSUME UNCHANGED <<stages, counted, ledger>>  PROVE CountedAtMostOnce'
  BY <1>4, CountsFramed
<1> QED
  BY <1>1, <1>2, <1>3, <1>4
  DEF Caller, EnsureProjected, ResumeBegin, ProjectFails, ResumeScalable,
      ResumeClose, Answer, Abandon

LEMMA PInitCounts == PInit => CountedAtMostOnce
<1> SUFFICES ASSUME PInit PROVE CountedAtMostOnce
  OBVIOUS
<1>1. BaseCounts  BY StageTypes DEF PInit, BaseCounts
<1>2. StageCounts  BY StageTypes DEF PInit, StageCounts
<1> QED BY <1>1, <1>2, CountedParts

\* No match is added twice to an aggregate, for any number of processes that
\* project and resume it at once and stop anywhere.
THEOREM CountedOnce == PSpec => []CountedAtMostOnce
<1>1. ProjectionTypeOK /\ CountedAtMostOnce /\ [PNext]_pvars => CountedAtMostOnce'
  <2> SUFFICES ASSUME ProjectionTypeOK, CountedAtMostOnce, [PNext]_pvars
               PROVE  CountedAtMostOnce'
    OBVIOUS
  <2>1. CASE \E p \in Projectors : Caller(p)  BY <2>1, CallerCounts
  <2>2. CASE UNCHANGED pvars  BY <2>2, CountsFramed DEF pvars
  <2> QED BY <2>1, <2>2 DEF PNext
<1> QED BY <1>1, PInitCounts, ProjectionTypeCorrect, PTL DEF PSpec

----------------------------------------------------------------------------
(* Recorded stages *)

LEMMA CumulativeBatchStages ==
    ASSUME ProjectionTypeOK, CountedAtMostOnce, StageMeansCounted,
           NEW S \in SUBSET Matches, NEW s \in Cumulative, CumulativeBatch(S, s)
    PROVE  StageMeansCounted'
<1>0. BatchEffect(S, s)  BY CumulativeBatchEffect
<1> SUFFICES ASSUME NEW t \in Cumulative, NEW m \in Matches \ Limited,
                    t \in stages'[m] \/ m \in ledger'[t]
             PROVE  counted'[t][m] = 1
  BY DEF StageMeansCounted
<1>1. CASE t # s
  <2>1. counted'[t] = counted[t] /\ ledger'[t] = ledger[t]
    BY <1>0, <1>1 DEF BatchEffect
  <2>2. t \in stages'[m] => t \in stages[m]
    BY <1>0, <1>1 DEF BatchEffect
  <2> QED BY <2>1, <2>2 DEF StageMeansCounted
<1>2. CASE t = s /\ m \in Claim(S, s)
  <2>1. counted[s][m] \in Nat  BY StageTypes DEF ProjectionTypeOK
  <2>2. m \notin ledger[s]  BY <1>2 DEF Claim
  <2>3. counted[s][m] = 0  BY <2>1, <2>2 DEF CountedAtMostOnce
  <2>4. counted'[s][m] = counted[s][m] + 1  BY <1>0, <1>2 DEF BatchEffect
  <2> QED BY <1>2, <2>3, <2>4
<1>3. CASE t = s /\ m \notin Claim(S, s)
  <2>1. s \in stages[m] \/ m \in ledger[s]
    BY <1>0, <1>3 DEF BatchEffect, Claim
  <2>2. counted[s][m] = 1  BY <2>1 DEF StageMeansCounted
  <2> QED BY <1>0, <1>3, <2>2 DEF BatchEffect
<1> QED BY <1>1, <1>2, <1>3

\* Only cumulative stages, their counters and the ledgers matter.
LEMMA StagesFramed ==
    ASSUME StageMeansCounted, UNCHANGED ledger,
           \A t \in Cumulative : counted'[t] = counted[t],
           \A m \in Matches, t \in Cumulative : t \in stages'[m] => t \in stages[m]
    PROVE  StageMeansCounted'
BY DEF StageMeansCounted

LEMMA FinalizeStages ==
    ASSUME ProjectionTypeOK, StageMeansCounted, NEW m \in Matches, Finalize(m),
           UNCHANGED <<counted, ledger>>
    PROVE  StageMeansCounted'
<1>1. \A q \in Matches, t \in Cumulative : t \in stages'[q] => t \in stages[q]
  BY DEF ProjectionTypeOK, Finalize, Cumulative
<1> QED BY <1>1, StagesFramed

LEMMA ProjectMatchStages ==
    ASSUME ProjectionTypeOK, CountedAtMostOnce, StageMeansCounted,
           NEW p \in Projectors, ProjectMatch(p)
    PROVE  StageMeansCounted'
<1>0. proj[p] \in Calls  BY DEF ProjectionTypeOK
<1>1. CASE RankedTransaction(p)
  <2>1. PICK m \in Matches :
          /\ stages' = [stages EXCEPT ![m] = @ \cup {"ranked_stats"}]
          /\ \A t \in Cumulative : counted'[t] = counted[t]
    BY <1>1, RankedTransactionEffect
  <2>2. \A q \in Matches, t \in Cumulative : t \in stages'[q] => t \in stages[q]
    BY <2>1, StageTypes DEF ProjectionTypeOK
  <2> QED BY <1>1, <2>1, <2>2, StagesFramed DEF RankedTransaction
<1>2. CASE FinishStage(p)
  BY <1>0, <1>2, StageTypes, CumulativeBatchStages DEF FinishStage, Calls
<1>3. CASE UNCHANGED <<stages, counted, ledger>>
  BY <1>3, StagesFramed
<1> QED BY <1>1, <1>2, <1>3 DEF ProjectMatch, Reject, FinishClose

LEMMA CallerStages ==
    ASSUME ProjectionTypeOK, CountedAtMostOnce, StageMeansCounted,
           NEW p \in Projectors, Caller(p)
    PROVE  StageMeansCounted'
<1>0. proj[p] \in Calls  BY DEF ProjectionTypeOK
<1>1. ASSUME NEW m \in Matches, Ingest(p, m)  PROVE StageMeansCounted'
  BY <1>1, FinalizeStages DEF Ingest
<1>2. CASE ProjectMatch(p)  BY <1>2, ProjectMatchStages
<1>3. CASE BatchChunk(p)
  <2>1. PICK S \in SUBSET proj[p].left : CumulativeBatch(S, proj[p].stage)
    BY <1>3 DEF BatchChunk
  <2>2. S \in SUBSET Matches /\ proj[p].stage \in Cumulative
    BY <1>0, <2>1 DEF Calls
  <2> QED BY <2>1, <2>2, CumulativeBatchStages
<1>4. ASSUME UNCHANGED <<stages, counted, ledger>>  PROVE StageMeansCounted'
  BY <1>4, StagesFramed
<1> QED
  BY <1>1, <1>2, <1>3, <1>4
  DEF Caller, EnsureProjected, ResumeBegin, ProjectFails, ResumeScalable,
      ResumeClose, Answer, Abandon

\* A recorded stage and a ledger entry mean that the match has been counted:
\* the stage and the count commit together, and who finds the match in the
\* ledger may record the stage because the count is there.
LEMMA StagesAreCounted == PSpec => []StageMeansCounted
<1>1. PInit => StageMeansCounted
  <2> SUFFICES ASSUME PInit, NEW s \in Cumulative, NEW m \in Matches \ Limited
               PROVE  s \notin stages[m] /\ m \notin ledger[s]
    BY DEF StageMeansCounted
  <2> QED BY StageTypes DEF PInit, Cumulative
<1>2. /\ ProjectionTypeOK /\ CountedAtMostOnce /\ StageMeansCounted
      /\ [PNext]_pvars
      => StageMeansCounted'
  <2> SUFFICES ASSUME ProjectionTypeOK, CountedAtMostOnce, StageMeansCounted,
                      [PNext]_pvars
               PROVE  StageMeansCounted'
    OBVIOUS
  <2>1. CASE \E p \in Projectors : Caller(p)  BY <2>1, CallerStages
  <2>2. CASE UNCHANGED pvars  BY <2>2, StagesFramed DEF pvars
  <2> QED BY <2>1, <2>2 DEF PNext
<1> QED BY <1>1, <1>2, ProjectionTypeCorrect, CountedOnce, PTL DEF PSpec

----------------------------------------------------------------------------
(* Completion *)

\* No stage without facts, in the tables and in what a process is about to
\* record: whoever projects a match has seen its facts, and a batch takes its
\* candidates from matches with ranked_stats.
FactsFirst ==
    /\ \A m \in Matches : stages[m] # {} => "facts" \in stages[m]
    /\ \A p \in Projectors :
         /\ proj[p].pc \in {"ranked", "cumulative"} =>
              \A m \in proj[p].ids : "facts" \in stages[m]
         /\ proj[p].pc = "batch" => \A m \in proj[p].left : "facts" \in stages[m]

\* One process moves, no stage is lost, stages are added to matches with facts.
LEMMA FactsStay ==
    ASSUME ProjectionTypeOK, ProjectionTypeOK', FactsFirst, NEW p \in Projectors,
           \A m \in Matches : stages[m] \subseteq stages'[m],
           \A m \in Matches : stages'[m] # {} => "facts" \in stages'[m],
           \A q \in Projectors \ {p} : proj'[q] = proj[q],
           proj'[p].pc \in {"ranked", "cumulative"} =>
              \A m \in proj'[p].ids : "facts" \in stages'[m],
           proj'[p].pc = "batch" => \A m \in proj'[p].left : "facts" \in stages'[m]
    PROVE  FactsFirst'
<1> SUFFICES ASSUME NEW q \in Projectors
             PROVE  /\ proj'[q].pc \in {"ranked", "cumulative"} =>
                         \A m \in proj'[q].ids : "facts" \in stages'[m]
                    /\ proj'[q].pc = "batch" =>
                         \A m \in proj'[q].left : "facts" \in stages'[m]
  BY DEF FactsFirst
<1>1. CASE q = p  BY <1>1
<1>2. CASE q # p
  <2>1. proj'[q] = proj[q]  BY <1>2
  <2>2. proj[q].ids \in SUBSET Matches /\ proj[q].left \in SUBSET Matches
    BY DEF ProjectionTypeOK, Calls
  <2> QED BY <2>1, <2>2 DEF FactsFirst
<1> QED BY <1>1, <1>2

LEMMA ProjectMatchFacts ==
    ASSUME ProjectionTypeOK, FactsFirst, NEW p \in Projectors, ProjectMatch(p)
    PROVE  FactsFirst'
<1>0. proj[p] \in Calls /\ proj \in [Projectors -> Calls]  BY DEF ProjectionTypeOK
<1>t. ProjectionTypeOK'  BY ProjectMatchType
<1>i. proj[p].ids \in SUBSET Matches  BY <1>0 DEF Calls
<1>1. CASE RankedTransaction(p)
  <2>1. PICK m \in proj[p].ids \ Limited :
          stages' = [stages EXCEPT ![m] = @ \cup {"ranked_stats"}]
    BY <1>1, RankedTransactionEffect
  <2>2. "facts" \in stages[m]  BY <1>1, <2>1 DEF FactsFirst, RankedTransaction
  <2>3. \A q \in Matches : stages[q] \subseteq stages'[q]
    BY <2>1 DEF ProjectionTypeOK
  <2>4. \A q \in Matches : stages'[q] # {} => "facts" \in stages'[q]
    BY <1>i, <2>1, <2>2 DEF ProjectionTypeOK, FactsFirst
  <2>5. proj'[p].ids = proj[p].ids /\ proj'[p].pc = "cumulative"
    BY <1>0, <1>1 DEF RankedTransaction, Calls
  <2>6. \A q \in Projectors \ {p} : proj'[q] = proj[q]
    BY <1>0, <1>1 DEF RankedTransaction
  <2>7. \A q \in proj'[p].ids : "facts" \in stages'[q]
    BY <1>1, <1>i, <2>3, <2>5 DEF FactsFirst, RankedTransaction
  <2> QED BY <1>t, <2>3, <2>4, <2>5, <2>6, <2>7, FactsStay
<1>2. CASE Reject(p) \/ FinishClose(p)
  <2>1. proj'[p].pc \in {"ok", "err"}
    BY <1>0, <1>2 DEF Reject, FinishClose, Calls
  <2>2. \A q \in Projectors \ {p} : proj'[q] = proj[q]
    BY <1>0, <1>2 DEF Reject, FinishClose
  <2>3. stages' = stages  BY <1>2 DEF Reject, FinishClose
  <2>4. \A m \in Matches : stages'[m] # {} => "facts" \in stages'[m]
    BY <2>3 DEF FactsFirst
  <2> QED BY <1>t, <2>1, <2>2, <2>3, <2>4, FactsStay
<1>3. CASE FinishStage(p)
  <2>1. PICK s \in Cumulative : CumulativeBatch(proj[p].ids, s)
    BY <1>3, StageTypes DEF FinishStage
  <2>2. BatchEffect(proj[p].ids, s)  BY <1>i, <2>1, CumulativeBatchEffect
  <2>3. \A m \in Matches : stages[m] \subseteq stages'[m]
    BY <2>2 DEF BatchEffect
  <2>4. \A m \in proj[p].ids : "facts" \in stages[m]
    BY <1>3 DEF FinishStage, FactsFirst
  <2>5. \A m \in Matches : stages'[m] # {} => "facts" \in stages'[m]
    BY <2>2, <2>4 DEF BatchEffect, FactsFirst
  <2>6. proj'[p].ids = proj[p].ids /\ proj'[p].pc = "cumulative"
    BY <1>0, <1>3 DEF FinishStage, Calls
  <2>7. \A q \in Projectors \ {p} : proj'[q] = proj[q]
    BY <1>0, <1>3 DEF FinishStage
  <2>8. \A m \in proj'[p].ids : "facts" \in stages'[m]
    BY <1>i, <2>3, <2>4, <2>6
  <2> QED BY <1>t, <2>3, <2>5, <2>6, <2>7, <2>8, FactsStay
<1> QED BY <1>1, <1>2, <1>3 DEF ProjectMatch

LEMMA CallerFacts ==
    ASSUME ProjectionTypeOK, FactsFirst, NEW p \in Projectors, Caller(p)
    PROVE  FactsFirst'
<1>0. proj[p] \in Calls /\ proj \in [Projectors -> Calls]  BY DEF ProjectionTypeOK
<1>t. ProjectionTypeOK'  BY CallerType
<1>1. ASSUME NEW m \in Matches, Ingest(p, m)  PROVE FactsFirst'
  <2>1. stages' = [stages EXCEPT ![m] = @ \cup {"facts"}]
    BY <1>1 DEF Ingest, Finalize
  <2>2. \A q \in Matches : stages[q] \subseteq stages'[q]
    BY <2>1 DEF ProjectionTypeOK
  <2>3. \A q \in Matches : stages'[q] # {} => "facts" \in stages'[q]
    BY <2>1 DEF ProjectionTypeOK, FactsFirst
  <2>4. proj'[p].pc = "ranked" /\ proj'[p].ids = {m}
    BY <1>0, <1>1 DEF Ingest, Begin, Idle
  <2>5. \A q \in Projectors \ {p} : proj'[q] = proj[q]
    BY <1>0, <1>1 DEF Ingest, Begin
  <2>6. "facts" \in stages'[m]  BY <2>1 DEF ProjectionTypeOK
  <2> QED BY <1>t, <2>2, <2>3, <2>4, <2>5, <2>6, FactsStay
<1>2. ASSUME NEW m \in Matches, EnsureProjected(p, m)  PROVE FactsFirst'
  <2>1. stages' = stages /\ "facts" \in stages[m]
    BY <1>2 DEF EnsureProjected, FactsDurable
  <2>2. proj'[p].pc = "ranked" /\ proj'[p].ids = {m}
    BY <1>0, <1>2 DEF EnsureProjected, Begin, Idle
  <2>3. \A q \in Projectors \ {p} : proj'[q] = proj[q]
    BY <1>0, <1>2 DEF EnsureProjected, Begin
  <2>4. \A q \in Matches : stages'[q] # {} => "facts" \in stages'[q]
    BY <2>1 DEF FactsFirst
  <2> QED BY <1>t, <2>1, <2>2, <2>3, <2>4, FactsStay
<1>3. ASSUME NEW ids \in SUBSET Matches, ResumeBegin(p, ids)  PROVE FactsFirst'
  <2>1. stages' = stages  BY <1>3 DEF ResumeBegin
  <2>2. /\ proj'[p].pc = "batch"
        /\ proj'[p].left = Candidates(ids, "performance_projections")
    BY <1>0, <1>3 DEF ResumeBegin, Idle
  <2>3. \A q \in Projectors \ {p} : proj'[q] = proj[q]
    BY <1>0, <1>3 DEF ResumeBegin
  <2>4. \A m \in proj'[p].left : "facts" \in stages'[m]
    BY <2>1, <2>2 DEF Candidates, FactsFirst
  <2>5. \A q \in Matches : stages'[q] # {} => "facts" \in stages'[q]
    BY <2>1 DEF FactsFirst
  <2> QED BY <1>t, <2>1, <2>2, <2>3, <2>4, <2>5, FactsStay
<1>4. CASE ProjectMatch(p)  BY <1>4, ProjectMatchFacts
<1>5. CASE BatchChunk(p)
  <2>1. PICK S \in SUBSET proj[p].left :
            /\ CumulativeBatch(S, proj[p].stage)
            /\ proj' = [proj EXCEPT ![p].left = @ \ S]
    BY <1>5 DEF BatchChunk
  <2>2. proj[p].left \in SUBSET Matches /\ proj[p].stage \in Cumulative
    BY <1>0 DEF Calls
  <2>3. BatchEffect(S, proj[p].stage)
    BY <2>1, <2>2, CumulativeBatchEffect
  <2>4. \A m \in proj[p].left : "facts" \in stages[m]
    BY <1>5 DEF BatchChunk, FactsFirst
  <2>5. \A m \in Matches : stages[m] \subseteq stages'[m]
    BY <2>3 DEF BatchEffect
  <2>6. \A m \in Matches : stages'[m] # {} => "facts" \in stages'[m]
    BY <2>1, <2>3, <2>4 DEF BatchEffect, FactsFirst
  <2>7. proj'[p].pc = "batch" /\ proj'[p].left \subseteq proj[p].left
    BY <1>0, <1>5, <2>1 DEF BatchChunk, Calls
  <2>8. \A q \in Projectors \ {p} : proj'[q] = proj[q]  BY <1>0, <2>1
  <2>9. \A m \in proj'[p].left : "facts" \in stages'[m]
    BY <2>2, <2>4, <2>5, <2>7
  <2> QED BY <1>t, <2>5, <2>6, <2>7, <2>8, <2>9, FactsStay
<1>6. CASE ResumeScalable(p)
  <2>1. stages' = stages  BY <1>6 DEF ResumeScalable
  <2>2. /\ proj'[p].pc = "batch"
        /\ proj'[p].left = Candidates(proj[p].ids, "scalable_stats")
    BY <1>0, <1>6 DEF ResumeScalable, Calls
  <2>3. \A q \in Projectors \ {p} : proj'[q] = proj[q]
    BY <1>0, <1>6 DEF ResumeScalable
  <2>4. \A m \in proj'[p].left : "facts" \in stages'[m]
    <3>1. proj[p].ids \in SUBSET Matches  BY <1>0 DEF Calls
    <3> QED BY <2>1, <2>2, <3>1 DEF Candidates, FactsFirst
  <2>5. \A q \in Matches : stages'[q] # {} => "facts" \in stages'[q]
    BY <2>1 DEF FactsFirst
  <2> QED BY <1>t, <2>1, <2>2, <2>3, <2>4, <2>5, FactsStay
<1>7. CASE ProjectFails(p) \/ ResumeClose(p) \/ Answer(p) \/ Abandon(p)
  <2>1. proj'[p].pc \in {"err", "idle"}
    BY <1>0, <1>7 DEF ProjectFails, ResumeClose, Answer, Abandon, Idle, Calls
  <2>2. \A q \in Projectors \ {p} : proj'[q] = proj[q]
    BY <1>0, <1>7 DEF ProjectFails, ResumeClose, Answer, Abandon
  <2>3. stages' = stages
    BY <1>7 DEF ProjectFails, ResumeClose, Answer, Abandon
  <2>4. \A m \in Matches : stages'[m] # {} => "facts" \in stages'[m]
    BY <2>3 DEF FactsFirst
  <2> QED BY <1>t, <2>1, <2>2, <2>3, <2>4, FactsStay
<1> QED BY <1>1, <1>2, <1>3, <1>4, <1>5, <1>6, <1>7 DEF Caller

\* A match becomes complete in Close only, and stages never shrink.
LEMMA CompleteStays ==
    ASSUME ProjectionTypeOK, ProjectionTypeOK', CompleteMeansProjected,
           \A m \in Matches : stages[m] \subseteq stages'[m],
           \A m \in Matches : mstatus'[m] = "complete" =>
              mstatus[m] = "complete" \/ stages'[m] = Stages
    PROVE  CompleteMeansProjected'
<1> SUFFICES ASSUME NEW m \in Matches \ Legacy, mstatus'[m] = "complete"
             PROVE  stages'[m] = Stages
  BY DEF CompleteMeansProjected
<1>1. stages'[m] \subseteq Stages  BY DEF ProjectionTypeOK
<1>2. CASE mstatus[m] = "complete"
  BY <1>1, <1>2 DEF CompleteMeansProjected
<1> QED BY <1>2

LEMMA CloseCompletes ==
    ASSUME ProjectionTypeOK, FactsFirst, NEW S, Close(S), NEW m \in Matches,
           mstatus'[m] = "complete"
    PROVE  mstatus[m] = "complete" \/ stages[m] = Stages
<1>1. CASE ~Closable(m)  BY <1>1 DEF Close
<1>2. CASE Closable(m)
  <2>1. Required \subseteq stages[m]  BY <1>2 DEF Closable
  <2>2. "facts" \in stages[m]  BY <2>1 DEF FactsFirst, Required
  <2> QED BY <2>1, <2>2 DEF ProjectionTypeOK, Stages, Required
<1> QED BY <1>1, <1>2

LEMMA CallerCompletes ==
    ASSUME ProjectionTypeOK, FactsFirst, CompleteMeansProjected,
           NEW p \in Projectors, Caller(p)
    PROVE  CompleteMeansProjected'
<1>0. proj[p] \in Calls  BY DEF ProjectionTypeOK
<1>t. ProjectionTypeOK'  BY CallerType
<1>1. ASSUME NEW m \in Matches, Ingest(p, m)  PROVE CompleteMeansProjected'
  <2>1. \A q \in Matches : stages[q] \subseteq stages'[q]
    BY <1>1 DEF Ingest, Finalize, ProjectionTypeOK
  <2>2. \A q \in Matches : mstatus'[q] = "complete" => mstatus[q] = "complete"
    BY <1>1 DEF Ingest, Finalize, ProjectionTypeOK
  <2> QED BY <1>t, <2>1, <2>2, CompleteStays
<1>2. CASE RankedTransaction(p)
  <2>0. PICK m \in Matches : stages' = [stages EXCEPT ![m] = @ \cup {"ranked_stats"}]
    BY <1>2, RankedTransactionEffect
  <2>1. \A q \in Matches : stages[q] \subseteq stages'[q]
    BY <2>0 DEF ProjectionTypeOK
  <2> QED BY <1>t, <1>2, <2>1, CompleteStays DEF RankedTransaction
<1>3. CASE FinishStage(p)
  <2>1. PICK s \in Cumulative : CumulativeBatch(proj[p].ids, s)
    BY <1>3, StageTypes DEF FinishStage
  <2>2. BatchEffect(proj[p].ids, s)  BY <1>0, <2>1, CumulativeBatchEffect DEF Calls
  <2>3. \A q \in Matches : stages[q] \subseteq stages'[q]
    BY <2>2 DEF BatchEffect
  <2> QED BY <1>t, <1>3, <2>3, CompleteStays DEF FinishStage
<1>4. CASE BatchChunk(p)
  <2>1. PICK S \in SUBSET proj[p].left : CumulativeBatch(S, proj[p].stage)
    BY <1>4 DEF BatchChunk
  <2>2. BatchEffect(S, proj[p].stage)
    BY <1>0, <2>1, CumulativeBatchEffect DEF Calls
  <2>3. \A q \in Matches : stages[q] \subseteq stages'[q]
    BY <2>2 DEF BatchEffect
  <2> QED BY <1>t, <1>4, <2>3, CompleteStays DEF BatchChunk
<1>5. CASE FinishClose(p) \/ ResumeClose(p)
  <2>1. Close(proj[p].ids) /\ stages' = stages
    BY <1>5 DEF FinishClose, ResumeClose
  <2>2. \A m \in Matches : mstatus'[m] = "complete" =>
          mstatus[m] = "complete" \/ stages[m] = Stages
    BY <2>1, CloseCompletes
  <2> QED BY <1>t, <2>1, <2>2, CompleteStays
<1>6. ASSUME UNCHANGED <<stages, mstatus>>  PROVE CompleteMeansProjected'
  BY <1>6 DEF CompleteMeansProjected
<1>7. CASE \/ \E m \in Matches : EnsureProjected(p, m)
           \/ \E ids \in SUBSET Matches : ResumeBegin(p, ids)
           \/ Reject(p) \/ ProjectFails(p) \/ ResumeScalable(p)
           \/ Answer(p) \/ Abandon(p)
  <2>1. UNCHANGED <<stages, mstatus>>
    BY <1>7 DEF EnsureProjected, ResumeBegin, Reject, ProjectFails,
                ResumeScalable, Answer, Abandon
  <2> QED BY <1>6, <2>1
<1> QED
  BY <1>1, <1>2, <1>3, <1>4, <1>5, <1>7 DEF Caller, ProjectMatch

\* A match that this code completes has its facts and all its stages, whoever
\* of the concurrent processes closes it.
LEMMA CompleteIsProjected == PSpec => []CompleteMeansProjected
<1>1. PInit => FactsFirst /\ CompleteMeansProjected
  <2> SUFFICES ASSUME PInit PROVE FactsFirst /\ CompleteMeansProjected
    OBVIOUS
  <2>1. FactsFirst  BY DEF PInit, FactsFirst, Idle
  <2>2. CompleteMeansProjected  BY DEF PInit, CompleteMeansProjected
  <2> QED BY <2>1, <2>2
<1>2. /\ ProjectionTypeOK /\ FactsFirst /\ CompleteMeansProjected
      /\ [PNext]_pvars
      => FactsFirst' /\ CompleteMeansProjected'
  <2> SUFFICES ASSUME ProjectionTypeOK, FactsFirst, CompleteMeansProjected,
                      [PNext]_pvars
               PROVE  FactsFirst' /\ CompleteMeansProjected'
    OBVIOUS
  <2>1. CASE \E p \in Projectors : Caller(p)
    <3>1. PICK p \in Projectors : Caller(p)  BY <2>1
    <3>2. FactsFirst'  BY <3>1, CallerFacts
    <3>3. CompleteMeansProjected'  BY <3>1, CallerCompletes
    <3> QED BY <3>2, <3>3
  <2>2. CASE UNCHANGED pvars
    BY <2>2 DEF pvars, FactsFirst, CompleteMeansProjected
  <2> QED BY <2>1, <2>2 DEF PNext
<1> QED BY <1>1, <1>2, ProjectionTypeCorrect, PTL DEF PSpec

----------------------------------------------------------------------------
(* The repair job *)

\* Both halves of StagesAreTrue: what the row of a match says about its
\* projection is so, for any number of processes that project and resume it.
THEOREM StagesTrue == PSpec => []StagesAreTrue
BY StagesAreCounted, CompleteIsProjected, PTL DEF StagesAreTrue

\* Scheduling ranked-projection:repair adds no behaviour: its page decodes no
\* id, so it changes nothing.  What holds without the job holds with it.
THEOREM RepairAddsNothing == RepairSpec => PSpec
<1>1. ~RepairPage
  <2>1. \A m \in Gaps : AsI64(Int8Json(m)) = {}  BY DEF AsI64, Int8Json
  <2>2. UNION {AsI64(Int8Json(m)) : m \in Gaps} = {}  BY <2>1
  <2> QED BY <2>2 DEF RepairPage
<1>2. [RepairNext]_pvars => [PNext]_pvars  BY <1>1 DEF RepairNext
<1> QED BY <1>2, PTL DEF RepairSpec, PSpec

----------------------------------------------------------------------------
(* The buffer *)

\* What a call into the repository has recorded by the time it gets there.
CallsTrue ==
    \A p \in Projectors :
        /\ proj[p].pc = "ranked" => \E m \in Matches : proj[p].ids = {m}
        /\ proj[p].pc = "cumulative" =>
             \A m \in proj[p].ids :
                 {"ranked_stats"} \cup (Cumulative \ proj[p].todo) \subseteq stages[m]
        /\ proj[p].pc = "ok" => \A m \in proj[p].ids : Required \subseteq stages[m]

LimitedTrue == \A m \in Matches : mstatus[m] = "limited" => m \in Limited

TablesInv ==
    /\ ProjectionTypeOK
    /\ CountedAtMostOnce
    /\ StageMeansCounted
    /\ CompleteMeansProjected
    /\ FactsFirst
    /\ CallsTrue
    /\ LimitedTrue

Busy(w, r) == task[w][r].pc \notin {"none", "claimed"}

\* What worker w knows of row r.
TaskFits(w, r) ==
    /\ task[w][r].pc # "none" /\ task[w][r].lane = "facts" =>
         IsMatch(r) /\ wpc[w] = "facts"
    /\ task[w][r].pc # "none" => wpc[w] \in {"facts", "adaptive", "derived"}
    /\ Busy(w, r) /\ task[w][r].lane = "derived" => wpc[w] = "derived"
    /\ task[w][r].pc = "waiting" =>
         task[w][r].lane = "derived" /\ IsMatch(r) /\ proj[w].ids = {MatchOf[r]}
    /\ task[w][r].pc \in {"stored", "delayed"} => Durable(r)
    /\ task[w][r].pc = "done" /\ IsMatch(r) => Required \subseteq stages[MatchOf[r]]
    /\ task[w][r].pc = "terminal" => Exhausted(w, r)

\* The derived lane has at most one row under way, and project_match is
\* called for it alone.
OneAtATime(w) ==
    \A r, q \in Rows :
        /\ Busy(w, r) /\ task[w][r].lane = "derived"
        /\ Busy(w, q) /\ task[w][q].lane = "derived"
        => r = q

BufferTypes ==
    /\ status \in [Rows -> Statuses]
    /\ retry \in [Rows -> 0 .. MaxRetries]
    /\ ready \in [Rows -> BOOLEAN]
    /\ stale \in [Rows -> BOOLEAN]
    /\ wpc \in [Workers -> Phases]
    /\ facts \in [Workers -> BOOLEAN]
    /\ task \in [Workers -> [Rows -> Tasks]]
    /\ stop \subseteq Workers

WorkersInv ==
    \A w \in Workers :
        /\ \A r \in Rows : TaskFits(w, r)
        /\ OneAtATime(w)
        /\ wpc[w] = "adaptive" => proj[w].pc = "batch"

BufferInv == TablesInv /\ BufferTypes /\ WorkersInv /\ RowsAreHonest

----------------------------------------------------------------------------
(* The tables *)

Grows == \A m \in Matches : stages[m] \subseteq stages'[m]

\* One process moves and the others' calls stay as they are.
LEMMA CallsStay ==
    ASSUME ProjectionTypeOK, CallsTrue, Grows, NEW p \in Projectors,
           \A q \in Projectors \ {p} : proj'[q] = proj[q],
           proj'[p].pc = "ranked" => \E m \in Matches : proj'[p].ids = {m},
           proj'[p].pc = "cumulative" =>
             \A m \in proj'[p].ids :
                 {"ranked_stats"} \cup (Cumulative \ proj'[p].todo) \subseteq stages'[m],
           proj'[p].pc = "ok" => \A m \in proj'[p].ids : Required \subseteq stages'[m]
    PROVE  CallsTrue'
<1> SUFFICES ASSUME NEW q \in Projectors
             PROVE  /\ proj'[q].pc = "ranked" => \E m \in Matches : proj'[q].ids = {m}
                    /\ proj'[q].pc = "cumulative" =>
                         \A m \in proj'[q].ids :
                           {"ranked_stats"} \cup (Cumulative \ proj'[q].todo) \subseteq stages'[m]
                    /\ proj'[q].pc = "ok" =>
                         \A m \in proj'[q].ids : Required \subseteq stages'[m]
  BY DEF CallsTrue
<1>1. CASE q = p  BY <1>1
<1>2. CASE q # p
  <2>1. proj'[q] = proj[q]  BY <1>2
  <2>2. proj[q].ids \in SUBSET Matches  BY DEF ProjectionTypeOK, Calls
  <2> QED BY <2>1, <2>2 DEF CallsTrue, Grows
<1> QED BY <1>1, <1>2

\* MatchFactRepository::finalize by process p, which calls project_match next
\* or leaves it to the derived lane.
LEMMA FinalizeTables ==
    ASSUME TablesInv, NEW p \in Projectors, NEW m \in Matches, Finalize(m),
           UNCHANGED <<counted, ledger, faults>>, proj' = proj \/ Begin(p, m)
    PROVE  /\ TablesInv' /\ Grows /\ "facts" \in stages'[m]
           /\ \A q \in Projectors \ {p} : proj'[q] = proj[q]
           /\ Begin(p, m) => proj'[p].ids = {m}
<1> USE DEF TablesInv
<1>0. proj[p] \in Calls /\ proj \in [Projectors -> Calls]  BY DEF ProjectionTypeOK
<1>1. Grows /\ "facts" \in stages'[m]  BY DEF Finalize, Grows, ProjectionTypeOK
<1>2. Begin(p, m) => proj'[p].ids = {m} /\ proj'[p].pc = "ranked"
  BY <1>0 DEF Begin, Idle
<1>3. \A q \in Projectors \ {p} : proj'[q] = proj[q]  BY <1>0 DEF Begin
<1>4. ProjectionTypeOK'
  <2>1. [Idle EXCEPT !.pc = "ranked", !.ids = {m}] \in Calls  BY NewCallTypes
  <2>2. proj' \in [Projectors -> Calls]  BY <1>0, <2>1 DEF Begin
  <2>3. counted' \in [Counts -> [Matches -> Nat]] /\ faults' \in Nat
        /\ ledger' \in [Cumulative -> SUBSET Matches]
    BY DEF ProjectionTypeOK
  <2> QED BY <2>2, <2>3, FinalizeType DEF ProjectionTypeOK
<1>5. CountedAtMostOnce' /\ StageMeansCounted'  BY FinalizeCounts, FinalizeStages
<1>6. \A q \in Matches : stages'[q] # {} => "facts" \in stages'[q]
  BY DEF Finalize, ProjectionTypeOK, FactsFirst
<1>7. FactsFirst'
  <2>1. CASE proj' = proj
    <3>1. proj[p].ids \in SUBSET Matches /\ proj[p].left \in SUBSET Matches  BY <1>0 DEF Calls
    <3>2. /\ proj'[p].pc \in {"ranked", "cumulative"} =>
               \A q \in proj'[p].ids : "facts" \in stages'[q]
          /\ proj'[p].pc = "batch" => \A q \in proj'[p].left : "facts" \in stages'[q]
      BY <1>1, <2>1, <3>1 DEF FactsFirst, Grows
    <3> QED BY <1>1, <1>3, <1>4, <1>6, <3>2, FactsStay DEF Grows
  <2>2. CASE Begin(p, m)
    BY <1>1, <1>2, <1>3, <1>4, <1>6, <2>2, FactsStay DEF Grows
  <2> QED BY <2>1, <2>2
<1>8. CallsTrue'
  <2>1. CASE proj' = proj
    <3>1. proj[p].ids \in SUBSET Matches  BY <1>0 DEF Calls
    <3> QED BY <1>1, <1>3, <2>1, <3>1, CallsStay DEF CallsTrue, Grows
  <2>2. CASE Begin(p, m)  BY <1>1, <1>2, <1>3, <2>2, CallsStay
  <2> QED BY <2>1, <2>2
<1>9. CompleteMeansProjected'
  <2>1. \A q \in Matches : mstatus'[q] = "complete" => mstatus[q] = "complete"
    BY DEF Finalize, ProjectionTypeOK
  <2> QED BY <1>1, <1>4, <2>1, CompleteStays DEF Grows
<1>10. LimitedTrue'  BY DEF LimitedTrue, Finalize, ProjectionTypeOK
<1> QED BY <1>1, <1>2, <1>3, <1>4, <1>5, <1>7, <1>8, <1>9, <1>10

\* The call of process p is replaced while the tables stay.
LEMMA CallTables ==
    ASSUME TablesInv, NEW p \in Projectors, NEW c \in Calls,
           UNCHANGED <<stages, mstatus, counted, ledger>>, faults' \in Nat,
           proj' = [proj EXCEPT ![p] = c],
           \/ c.pc \in {"idle", "err"}
           \/ c.pc = "batch" /\ \A m \in c.left : "facts" \in stages[m]
    PROVE  /\ TablesInv' /\ Grows /\ proj'[p] = c
           /\ \A q \in Projectors \ {p} : proj'[q] = proj[q]
<1> USE DEF TablesInv
<1>1. proj'[p] = c /\ \A q \in Projectors \ {p} : proj'[q] = proj[q]  BY DEF ProjectionTypeOK
<1>2. Grows  BY DEF Grows
<1>3. ProjectionTypeOK'  BY DEF ProjectionTypeOK
<1>4. CountedAtMostOnce' /\ StageMeansCounted' /\ CompleteMeansProjected' /\ LimitedTrue'
  BY DEF CountedAtMostOnce, StageMeansCounted, CompleteMeansProjected, LimitedTrue
<1>5. FactsFirst'
  <2>1. \A m \in Matches : stages'[m] # {} => "facts" \in stages'[m]  BY DEF FactsFirst
  <2> QED BY <1>1, <1>2, <1>3, <2>1, FactsStay DEF Grows
<1>6. CallsTrue'  BY <1>1, <1>2, CallsStay
<1> QED BY <1>1, <1>2, <1>3, <1>4, <1>5, <1>6

\* A chunk of the set-based lane.
LEMMA ChunkTables ==
    ASSUME TablesInv, NEW p \in Projectors, proj[p].pc = "batch",
           NEW S \in SUBSET proj[p].left, CumulativeBatch(S, proj[p].stage),
           proj' = [proj EXCEPT ![p].left = @ \ S], UNCHANGED <<mstatus, faults>>
    PROVE  /\ TablesInv' /\ Grows /\ proj'[p].pc = "batch"
           /\ \A q \in Projectors \ {p} : proj'[q] = proj[q]
<1> USE DEF TablesInv
<1>0. proj[p] \in Calls /\ proj \in [Projectors -> Calls]  BY DEF ProjectionTypeOK
<1>1. proj[p].left \in SUBSET Matches /\ proj[p].stage \in Cumulative /\ S \in SUBSET Matches
  BY <1>0 DEF Calls
<1>2. BatchEffect(S, proj[p].stage)  BY <1>1, CumulativeBatchEffect
<1>3. Grows  BY <1>2 DEF BatchEffect, Grows
<1>4. /\ proj'[p].pc = "batch" /\ proj'[p].left \subseteq proj[p].left
      /\ \A q \in Projectors \ {p} : proj'[q] = proj[q]
  BY <1>0 DEF Calls
<1>5. ProjectionTypeOK'
  <2>1. [proj[p] EXCEPT !.left = proj[p].left \ S] \in Calls  BY <1>0, <1>1, CallTypes
  <2>2. proj' = [proj EXCEPT ![p] = [proj[p] EXCEPT !.left = proj[p].left \ S]]  OBVIOUS
  <2>3. proj' \in [Projectors -> Calls]  BY <1>0, <2>1, <2>2
  <2> QED BY <1>1, <2>3, CumulativeBatchType DEF ProjectionTypeOK
<1>6. CountedAtMostOnce' /\ StageMeansCounted'
  BY <1>1, CumulativeBatchCounts, CumulativeBatchStages
<1>7. FactsFirst'
  <2>1. \A m \in proj[p].left : "facts" \in stages[m]  BY DEF FactsFirst
  <2>2. \A m \in Matches : stages'[m] # {} => "facts" \in stages'[m]
    BY <1>2, <2>1 DEF BatchEffect, FactsFirst
  <2>3. \A m \in proj'[p].left : "facts" \in stages'[m]  BY <1>1, <1>3, <1>4, <2>1 DEF Grows
  <2> QED BY <1>3, <1>4, <1>5, <2>2, <2>3, FactsStay DEF Grows
<1>8. CallsTrue'  BY <1>3, <1>4, CallsStay
<1>9. CompleteMeansProjected'  BY <1>3, <1>5, CompleteStays DEF Grows
<1>10. LimitedTrue'  BY DEF LimitedTrue
<1> QED BY <1>3, <1>4, <1>5, <1>6, <1>7, <1>8, <1>9, <1>10

\* A transaction of project_match records what CallsTrue says, and only its
\* own process moves.
LEMMA ProjectMatchCalls ==
    ASSUME TablesInv, NEW p \in Projectors, ProjectMatch(p)
    PROVE  /\ CallsTrue' /\ LimitedTrue' /\ Grows
           /\ proj'[p].ids = proj[p].ids /\ proj[p].pc # "batch"
           /\ \A q \in Projectors \ {p} : proj'[q] = proj[q]
<1> USE DEF TablesInv
<1>0. proj[p] \in Calls /\ proj \in [Projectors -> Calls]  BY DEF ProjectionTypeOK
<1>i. proj[p].ids \in SUBSET Matches  BY <1>0 DEF Calls
<1>1. CASE RankedTransaction(p)
  <2>1. PICK m \in proj[p].ids \ Limited :
            /\ stages' = [stages EXCEPT ![m] = @ \cup {"ranked_stats"}]
            /\ proj' = [proj EXCEPT ![p].pc = "cumulative",
                                    ![p].todo = IF CountDue(m) THEN Cumulative
                                                ELSE Cumulative \ stages[m]]
    BY <1>1 DEF RankedTransaction
  <2>2. proj[p].ids = {m}  BY <1>1, <2>1 DEF RankedTransaction, CallsTrue
  <2>3. /\ proj'[p].pc = "cumulative" /\ proj'[p].ids = proj[p].ids
        /\ Cumulative \ proj'[p].todo \subseteq stages[m]
        /\ \A q \in Projectors \ {p} : proj'[q] = proj[q]
    BY <1>0, <2>1 DEF Calls
  <2>4. Grows  BY <2>1 DEF Grows, ProjectionTypeOK
  <2>5. "ranked_stats" \in stages'[m] /\ Cumulative \ proj'[p].todo \subseteq stages'[m]
    BY <1>i, <2>1, <2>3, <2>4 DEF Grows, ProjectionTypeOK
  <2>6. \A q \in proj'[p].ids :
          {"ranked_stats"} \cup (Cumulative \ proj'[p].todo) \subseteq stages'[q]
    BY <2>2, <2>3, <2>5
  <2>7. CallsTrue'  BY <2>3, <2>4, <2>6, CallsStay
  <2>8. LimitedTrue' /\ proj[p].pc # "batch"  BY <1>1 DEF RankedTransaction, LimitedTrue
  <2> QED BY <2>3, <2>4, <2>7, <2>8
<1>2. CASE Reject(p)
  <2>1. /\ proj'[p].pc = "err" /\ proj'[p].ids = proj[p].ids /\ proj[p].pc # "batch"
        /\ \A q \in Projectors \ {p} : proj'[q] = proj[q]
    BY <1>0, <1>2 DEF Reject, Calls
  <2>2. Grows /\ LimitedTrue'  BY <1>2 DEF Reject, Grows, LimitedTrue
  <2> QED BY <2>1, <2>2, CallsStay
<1>3. CASE FinishStage(p)
  <2>1. PICK s \in Cumulative : /\ CumulativeBatch(proj[p].ids, s)
                                /\ proj' = [proj EXCEPT ![p].todo = @ \ {s}]
    BY <1>3, StageTypes DEF FinishStage
  <2>2. /\ proj'[p].pc = "cumulative" /\ proj'[p].ids = proj[p].ids
        /\ proj'[p].todo = proj[p].todo \ {s}
        /\ \A q \in Projectors \ {p} : proj'[q] = proj[q]
    BY <1>0, <1>3, <2>1 DEF FinishStage, Calls
  <2>3. BatchEffect(proj[p].ids, s)  BY <1>i, <2>1, CumulativeBatchEffect
  <2>4. Grows  BY <2>3 DEF BatchEffect, Grows
  <2>5. \A m \in proj[p].ids : s \in stages'[m] /\ stages[m] \subseteq stages'[m]
    BY <1>i, <2>3 DEF BatchEffect
  <2>6. \A m \in proj[p].ids :
          {"ranked_stats"} \cup (Cumulative \ proj[p].todo) \subseteq stages[m]
    BY <1>3 DEF FinishStage, CallsTrue
  <2>7. \A m \in proj'[p].ids :
          {"ranked_stats"} \cup (Cumulative \ proj'[p].todo) \subseteq stages'[m]
    BY <2>2, <2>5, <2>6
  <2>8. CallsTrue'  BY <2>2, <2>4, <2>7, CallsStay
  <2>9. LimitedTrue' /\ proj[p].pc # "batch"  BY <1>3 DEF FinishStage, LimitedTrue
  <2> QED BY <2>2, <2>4, <2>8, <2>9
<1>4. CASE FinishClose(p)
  <2>1. /\ proj'[p].pc = "ok" /\ proj'[p].ids = proj[p].ids /\ proj[p].pc # "batch"
        /\ \A q \in Projectors \ {p} : proj'[q] = proj[q]
    BY <1>0, <1>4 DEF FinishClose, Calls
  <2>2. stages' = stages /\ Grows  BY <1>4 DEF FinishClose, Grows
  <2>3. \A m \in proj'[p].ids : Required \subseteq stages'[m]
    BY <1>4, <2>1, <2>2 DEF FinishClose, CallsTrue, Required, Cumulative
  <2>4. CallsTrue'  BY <2>1, <2>2, <2>3, CallsStay
  <2>5. LimitedTrue'  BY <1>4 DEF FinishClose, Close, LimitedTrue
  <2> QED BY <2>1, <2>2, <2>4, <2>5
<1> QED BY <1>1, <1>2, <1>3, <1>4 DEF ProjectMatch

\* Any step of any process in the repository.
LEMMA CallerTables ==
    ASSUME TablesInv, NEW p \in Projectors, Caller(p)
    PROVE  /\ TablesInv' /\ Grows
           /\ \A q \in Projectors \ {p} : proj'[q] = proj[q]
<1> USE DEF TablesInv
<1>0. proj[p] \in Calls /\ proj \in [Projectors -> Calls]  BY DEF ProjectionTypeOK
<1>1. /\ ProjectionTypeOK' /\ CountedAtMostOnce' /\ StageMeansCounted'
      /\ CompleteMeansProjected' /\ FactsFirst'
  BY CallerType, CallerCounts, CallerStages, CallerCompletes, CallerFacts
<1>f. \A q \in Projectors \ {p} : proj'[q] = proj[q]
  <2>1. ProjectMatch(p) => \A q \in Projectors \ {p} : proj'[q] = proj[q]
    BY ProjectMatchCalls
  <2> QED
    BY <1>0, <2>1 DEF Caller, Ingest, EnsureProjected, ResumeBegin, Begin, ProjectFails,
                      BatchChunk, ResumeScalable, ResumeClose, Answer, Abandon
<1>2. CASE ProjectMatch(p)  BY <1>1, <1>2, ProjectMatchCalls
<1>3. ASSUME NEW m \in Matches, Ingest(p, m) PROVE CallsTrue' /\ LimitedTrue' /\ Grows
  BY <1>3, FinalizeTables DEF Ingest
<1>4. ASSUME NEW m \in Matches, EnsureProjected(p, m) PROVE CallsTrue' /\ LimitedTrue' /\ Grows
  <2>1. proj'[p].ids = {m} /\ proj'[p].pc = "ranked"  BY <1>0, <1>4 DEF EnsureProjected, Begin, Idle
  <2>2. Grows /\ LimitedTrue'  BY <1>4 DEF EnsureProjected, Grows, LimitedTrue
  <2> QED BY <1>f, <2>1, <2>2, CallsStay
<1>5. ASSUME NEW ids \in SUBSET Matches, ResumeBegin(p, ids)
      PROVE  CallsTrue' /\ LimitedTrue' /\ Grows
  <2>1. proj'[p].pc = "batch"  BY <1>0, <1>5 DEF ResumeBegin, Idle
  <2>2. Grows /\ LimitedTrue'  BY <1>5 DEF ResumeBegin, Grows, LimitedTrue
  <2> QED BY <1>f, <2>1, <2>2, CallsStay
<1>6. CASE BatchChunk(p)
  <2>1. CallsTrue' /\ LimitedTrue' /\ Grows  BY <1>6, ChunkTables DEF BatchChunk
  <2> QED BY <1>1, <1>f, <2>1
<1>7. CASE ProjectFails(p) \/ ResumeScalable(p) \/ ResumeClose(p) \/ Answer(p) \/ Abandon(p)
  <2>1. proj'[p].pc \in {"err", "idle", "batch"}
    BY <1>0, <1>7 DEF ProjectFails, ResumeScalable, ResumeClose, Answer, Abandon, Idle, Calls
  <2>2. stages' = stages /\ Grows
    BY <1>7 DEF ProjectFails, ResumeScalable, ResumeClose, Answer, Abandon, Grows
  <2>3. LimitedTrue'
    BY <1>7 DEF ProjectFails, ResumeScalable, ResumeClose, Answer, Abandon, Close, LimitedTrue
  <2>4. CallsTrue'  BY <1>f, <2>1, <2>2, CallsStay
  <2> QED BY <1>1, <1>f, <2>2, <2>3, <2>4
<1> QED BY <1>1, <1>2, <1>3, <1>4, <1>5, <1>6, <1>7, <1>f DEF Caller

----------------------------------------------------------------------------
(* Rows and tasks *)

LEMMA MatchType == \A r \in Rows : IsMatch(r) => MatchOf[r] \in Matches
BY RawBufferAssumption DEF IsMatch

LEMMA WorkerProjects == \A w \in Workers : w \in Projectors
BY RawBufferAssumption

LEMMA BumpType == \A n \in 0 .. MaxRetries : Bump(n) \in 0 .. MaxRetries
BY RawBufferAssumption DEF Bump

LEMMA NoTaskType == NoTask \in Tasks
BY RawBufferAssumption DEF NoTask, Tasks, Positions

\* Facts and stages, once there, stay.
LEMMA DurableStays ==
    ASSUME Grows, NEW r \in Rows
    PROVE  /\ Durable(r) => Durable(r)'
           /\ IsMatch(r) /\ Required \subseteq stages[MatchOf[r]] =>
                Required \subseteq stages'[MatchOf[r]]
BY MatchType DEF Grows, Durable, FactsDurable, IsMatch

Paid(r) ==
    IsMatch(r) => \/ Required \subseteq stages[MatchOf[r]]
                  \/ MatchOf[r] \in Limited /\ Durable(r)

\* What a step has to show of the rows.
RowsFollow ==
    /\ \A r \in Rows : status'[r] = "processed" => status[r] = "processed" \/ Paid(r)'
    /\ \A r \in Rows : status'[r] = "failed" =>
         \/ status[r] = "failed" /\ retry'[r] = retry[r]
         \/ retry'[r] = MaxRetries \/ r \in Unsupported
    /\ \A r \in Rows : ~ready'[r] => ~ready[r] \/ Durable(r)

LEMMA HonestStep ==
    ASSUME RowsAreHonest, Grows, RowsFollow
    PROVE  RowsAreHonest'
<1> USE DEF RowsAreHonest, RowsFollow
<1>1. ProcessedMeansProjected'
  <2> SUFFICES ASSUME NEW r \in Rows \ OldRows, status'[r] = "processed", IsMatch(r)
               PROVE  \/ Required \subseteq stages'[MatchOf[r]]
                      \/ MatchOf[r] \in Limited /\ Durable(r)'
    BY DEF ProcessedMeansProjected, IsMatch
  <2>1. CASE Paid(r)'  BY <2>1 DEF Paid, IsMatch
  <2>2. CASE status[r] = "processed"
    <3>1. \/ Required \subseteq stages[MatchOf[r]]
          \/ MatchOf[r] \in Limited /\ Durable(r)
      BY <2>2 DEF ProcessedMeansProjected
    <3> QED BY <3>1, DurableStays
  <2> QED BY <2>1, <2>2
<1>2. FailedMeansExhausted'  BY DEF FailedMeansExhausted
<1>3. DelayedRowsHaveFacts'
  <2> SUFFICES ASSUME NEW r \in Rows, ~ready'[r] PROVE Durable(r)'
    BY DEF DelayedRowsHaveFacts
  <2>1. Durable(r)  BY DEF DelayedRowsHaveFacts
  <2> QED BY <2>1, DurableStays
<1> QED BY <1>1, <1>2, <1>3

\* A task that does not move fits as long as its worker's phase and, while it
\* waits, its worker's call stay.
LEMMA TaskStays ==
    ASSUME BufferInv, Grows, NEW w \in Workers, NEW r \in Rows,
           task'[w][r] = task[w][r], wpc'[w] = wpc[w],
           task[w][r].pc = "waiting" => proj'[w].ids = proj[w].ids
    PROVE  TaskFits(w, r)'
<1>1. TaskFits(w, r)  BY DEF BufferInv, WorkersInv
<1>2. Durable(r) => Durable(r)'  BY DurableStays
<1>3. task[w][r].pc = "done" /\ IsMatch(r) => Required \subseteq stages'[MatchOf[r]]
  BY <1>1, DurableStays DEF TaskFits
<1>4. Exhausted(w, r) => Exhausted(w, r)'  BY DEF Exhausted
<1> QED BY <1>1, <1>2, <1>3, <1>4 DEF TaskFits, Busy, IsMatch

LEMMA NoTaskFits ==
    ASSUME NEW w \in Workers, NEW r \in Rows, task'[w][r].pc = "none"
    PROVE  TaskFits(w, r)'
BY DEF TaskFits, Busy

\* What a step has to show of worker w.
WorkerFollows(w) ==
    /\ \A r \in Rows : TaskFits(w, r)'
    /\ OneAtATime(w)'
    /\ wpc'[w] = "adaptive" => proj'[w].pc = "batch"

\* Workers that do not move keep what they know.
LEMMA WorkersStep ==
    ASSUME BufferInv, Grows, NEW W \in SUBSET Workers,
           \A v \in Workers \ W : task'[v] = task[v] /\ wpc'[v] = wpc[v] /\ proj'[v] = proj[v],
           \A w \in W : WorkerFollows(w)
    PROVE  WorkersInv'
<1> SUFFICES ASSUME NEW v \in Workers PROVE WorkerFollows(v)
  BY DEF WorkersInv, WorkerFollows
<1>1. CASE v \in W  BY <1>1
<1>2. CASE v \notin W
  <2>1. task'[v] = task[v] /\ wpc'[v] = wpc[v] /\ proj'[v] = proj[v]  BY <1>2
  <2>2. \A r \in Rows : TaskFits(v, r)'  BY <2>1, TaskStays
  <2>3. OneAtATime(v)'  BY <2>1 DEF BufferInv, WorkersInv, OneAtATime, Busy
  <2>4. wpc'[v] = "adaptive" => proj'[v].pc = "batch"  BY <2>1 DEF BufferInv, WorkersInv
  <2> QED BY <2>2, <2>3, <2>4 DEF WorkerFollows
<1> QED BY <1>1, <1>2

\* The two ways a worker changes its tasks.
LEMMA DropEffect ==
    ASSUME BufferTypes, NEW w \in Workers, NEW R, Drop(w, R)
    PROVE  /\ task' \in [Workers -> [Rows -> Tasks]]
           /\ \A v \in Workers \ {w} : task'[v] = task[v]
           /\ \A r \in Rows : task'[w][r] = IF r \in R THEN NoTask ELSE task[w][r]
<1> DEFINE f == [r \in Rows |-> IF r \in R THEN NoTask ELSE task[w][r]]
<1>1. task' = [task EXCEPT ![w] = f]  BY DEF Drop
<1>2. f \in [Rows -> Tasks]  BY NoTaskType DEF BufferTypes
<1>3. \A r \in Rows : f[r] = IF r \in R THEN NoTask ELSE task[w][r]  OBVIOUS
<1> HIDE DEF f
<1>4. task \in [Workers -> [Rows -> Tasks]]  BY DEF BufferTypes
<1> QED BY <1>1, <1>2, <1>3, <1>4

LEMMA GotoEffect ==
    ASSUME BufferTypes, NEW w \in Workers, NEW r \in Rows, NEW pc \in Positions, Goto(w, r, pc)
    PROVE  /\ task' \in [Workers -> [Rows -> Tasks]]
           /\ \A v \in Workers \ {w} : task'[v] = task[v]
           /\ \A q \in Rows \ {r} : task'[w][q] = task[w][q]
           /\ task'[w][r].pc = pc /\ task'[w][r].lane = task[w][r].lane
           /\ task'[w][r].retry = task[w][r].retry
<1>1. task[w] \in [Rows -> Tasks] /\ task \in [Workers -> [Rows -> Tasks]] /\ task[w][r] \in Tasks
  BY DEF BufferTypes
<1> DEFINE t == [task[w][r] EXCEPT !.pc = pc]
<1>2. /\ t \in Tasks /\ t.pc = pc /\ t.lane = task[w][r].lane /\ t.retry = task[w][r].retry
  BY <1>1 DEF Tasks
<1>3. task' = [task EXCEPT ![w] = [task[w] EXCEPT ![r] = t]]  BY <1>1 DEF Goto
<1> HIDE DEF t
<1>4. [task[w] EXCEPT ![r] = t] \in [Rows -> Tasks]  BY <1>1, <1>2
<1>5. task'[w] = [task[w] EXCEPT ![r] = t]  BY <1>1, <1>3
<1>6. task'[w][r] = t /\ \A q \in Rows \ {r} : task'[w][q] = task[w][q]  BY <1>1, <1>5
<1> QED BY <1>1, <1>2, <1>3, <1>4, <1>6

\* A worker without tasks.
LEMMA EmptyFollows ==
    ASSUME NEW w \in Workers, \A r \in Rows : task'[w][r].pc = "none", wpc'[w] # "adaptive"
    PROVE  WorkerFollows(w)
<1>1. OneAtATime(w)'  BY DEF OneAtATime, Busy
<1>2. \A r \in Rows : TaskFits(w, r)'  BY NoTaskFits
<1> QED BY <1>1, <1>2 DEF WorkerFollows

\* A worker drops tasks and goes on.
LEMMA DropFollows ==
    ASSUME BufferInv, Grows, NEW w \in Workers, NEW R, Drop(w, R), wpc'[w] = wpc[w],
           proj'[w] = proj[w]
    PROVE  WorkerFollows(w)
<1>1. \A r \in Rows : task'[w][r] = IF r \in R THEN NoTask ELSE task[w][r]
  BY DropEffect DEF BufferInv
<1>2. ASSUME NEW r \in Rows PROVE TaskFits(w, r)'
  BY <1>1, TaskStays, NoTaskFits DEF NoTask
<1>3. OneAtATime(w)'
  BY <1>1 DEF BufferInv, WorkersInv, OneAtATime, Busy, NoTask
<1> QED BY <1>2, <1>3 DEF WorkerFollows, BufferInv, WorkersInv

\* One task of a worker moves.
LEMMA GotoFollows ==
    ASSUME BufferInv, Grows, NEW w \in Workers, NEW r \in Rows, NEW pc \in Positions,
           Goto(w, r, pc), wpc'[w] = wpc[w], TaskFits(w, r)',
           proj'[w] = proj[w] \/ task[w][r].pc = "waiting" \/ pc = "waiting",
           \/ Busy(w, r) \/ task[w][r].lane = "facts"
           \/ \A q \in Lane(w, "derived") : task[w][q].pc = "claimed"
    PROVE  WorkerFollows(w)
<1>0. BufferTypes  BY DEF BufferInv
<1>1. /\ \A q \in Rows \ {r} : task'[w][q] = task[w][q]
      /\ task'[w][r].pc = pc /\ task'[w][r].lane = task[w][r].lane
  BY <1>0, GotoEffect
<1>2. /\ \A q \in Rows : TaskFits(w, q)
      /\ OneAtATime(w)
      /\ wpc[w] = "adaptive" => proj[w].pc = "batch"
  BY DEF BufferInv, WorkersInv
<1>3. task[w] \in [Rows -> Tasks]  BY <1>0 DEF BufferTypes
<1>4. ASSUME NEW a \in Rows, NEW b \in Rows, Busy(w, a)', task'[w][a].lane = "derived",
             Busy(w, b)', task'[w][b].lane = "derived", a # r, b # r
      PROVE  a = b
  BY <1>1, <1>2, <1>4 DEF OneAtATime, Busy
<1>5. ASSUME NEW a \in Rows, Busy(w, a)', task'[w][a].lane = "derived",
             task'[w][r].lane = "derived", a # r
      PROVE  FALSE
  <2>1. Busy(w, a) /\ task[w][a].lane = "derived"  BY <1>1, <1>5 DEF Busy
  <2>2. task[w][r].lane = "derived"  BY <1>1, <1>5
  <2>3. CASE Busy(w, r)  BY <1>2, <1>5, <2>1, <2>2, <2>3 DEF OneAtATime
  <2>4. CASE \A q \in Lane(w, "derived") : task[w][q].pc = "claimed"
    BY <2>1, <2>4 DEF Lane, TaskOf, Busy
  <2> QED BY <2>2, <2>3, <2>4
<1>6. OneAtATime(w)'
  <2> SUFFICES ASSUME NEW a \in Rows, NEW b \in Rows, Busy(w, a)', task'[w][a].lane = "derived",
                      Busy(w, b)', task'[w][b].lane = "derived"
               PROVE  a = b
    BY DEF OneAtATime, Busy
  <2> QED BY <1>4, <1>5
<1>7. ASSUME NEW q \in Rows \ {r} PROVE TaskFits(w, q)'
  <2>1. task[w][q].pc = "waiting" => proj'[w].ids = proj[w].ids
    <3> SUFFICES ASSUME task[w][q].pc = "waiting", proj'[w] # proj[w] PROVE FALSE
      OBVIOUS
    <3>1. task[w][q].lane = "derived" /\ Busy(w, q)  BY <1>2 DEF TaskFits, Busy
    <3>2. task'[w][q].lane = "derived" /\ Busy(w, q)'  BY <1>1, <1>7, <3>1 DEF Busy
    <3>3. task'[w][r].lane = "derived"
      <4>1. CASE pc = "waiting"  BY <1>1, <4>1 DEF TaskFits
      <4>2. CASE task[w][r].pc = "waiting"  BY <1>1, <1>2, <4>2 DEF TaskFits
      <4> QED BY <4>1, <4>2
    <3> QED BY <1>5, <1>7, <3>2, <3>3
  <2> QED BY <1>1, <1>7, <2>1, TaskStays
<1>8. wpc'[w] = "adaptive" => proj'[w].pc = "batch"
  <2>1. CASE proj'[w] = proj[w]  BY <1>2, <2>1
  <2>2. CASE task[w][r].pc = "waiting"  BY <1>2, <2>2 DEF TaskFits, Busy
  <2>3. CASE pc = "waiting"  BY <1>1, <2>3 DEF TaskFits, Busy
  <2> QED BY <2>1, <2>2, <2>3
<1> QED BY <1>6, <1>7, <1>8 DEF WorkerFollows

\* Steps that leave the tables of RankedProjection alone.
LEMMA TablesStay ==
    ASSUME TablesInv, UNCHANGED <<stages, mstatus, counted, ledger, proj>>, faults' \in Nat
    PROVE  TablesInv' /\ Grows
<1>1. ProjectionTypeOK'  BY DEF TablesInv, ProjectionTypeOK
<1>2. Grows  BY DEF Grows
<1> QED BY <1>1, <1>2 DEF TablesInv, CountedAtMostOnce, StageMeansCounted, CompleteMeansProjected,
                      FactsFirst, CallsTrue, LimitedTrue

\* Steps that leave the rows alone.
LEMMA RowsStay == ASSUME UNCHANGED <<status, retry, ready>> PROVE RowsFollow
BY DEF RowsFollow

LEMMA FaultNat == ASSUME TablesInv, Fault \/ UNCHANGED faults PROVE faults' \in Nat
BY FaultType DEF TablesInv, ProjectionTypeOK

\* The parts of a step together.
LEMMA Together ==
    ASSUME BufferInv, TablesInv', Grows, BufferTypes', RowsFollow, NEW W \in SUBSET Workers,
           \A v \in Workers \ W : task'[v] = task[v] /\ wpc'[v] = wpc[v] /\ proj'[v] = proj[v],
           \A w \in W : WorkerFollows(w)
    PROVE  BufferInv'
<1>1. WorkersInv'  BY WorkersStep
<1>2. RowsAreHonest'  BY HonestStep DEF BufferInv
<1> QED BY <1>1, <1>2 DEF BufferInv

\* A step of worker w in the buffer.
LEMMA WorkerTogether ==
    ASSUME BufferInv, TablesInv', Grows, BufferTypes', RowsFollow, NEW w \in Workers,
           \A v \in Workers \ {w} : task'[v] = task[v] /\ wpc'[v] = wpc[v] /\ proj'[v] = proj[v],
           WorkerFollows(w)
    PROVE  BufferInv'
<1>1. \A u \in {w} : WorkerFollows(u)  OBVIOUS
<1>2. {w} \in SUBSET Workers  OBVIOUS
<1> QED BY <1>1, <1>2, Together

\* The statements on a row.
LEMMA SetStatusEffect ==
    ASSUME BufferTypes, NEW r \in Rows, NEW s \in Statuses, SetStatus(r, s)
    PROVE  /\ status' \in [Rows -> Statuses]
           /\ \A q \in Rows \ {r} : status'[q] = status[q]
           /\ status'[r] = s \/ status'[r] = "gone"
BY DEF BufferTypes, SetStatus

LEMMA ReturnClaimsEffect ==
    ASSUME BufferTypes, NEW R, ReturnClaims(R)
    PROVE  status' \in [Rows -> Statuses] /\ RowsFollow /\ UNCHANGED <<retry, ready, stale>>
<1>1. status' \in [Rows -> Statuses]  BY DEF BufferTypes, ReturnClaims, Statuses
<1>2. RowsFollow  BY DEF ReturnClaims, RowsFollow
<1> QED BY <1>1, <1>2 DEF ReturnClaims

LEMMA RenewType == ASSUME BufferTypes, NEW R, Renew(R) PROVE stale' \in [Rows -> BOOLEAN]
BY DEF BufferTypes, Renew

\* A row goes back to pending, or is deleted meanwhile.
LEMMA PendingFollows ==
    ASSUME BufferTypes, NEW r \in Rows, SetStatus(r, "pending"), UNCHANGED <<retry, ready>>
    PROVE  RowsFollow
<1>1. "pending" \in Statuses  BY DEF Statuses
<1> QED BY <1>1, SetStatusEffect DEF RowsFollow

----------------------------------------------------------------------------
(* One lemma per group of actions *)

\* Inserts, the clock and the retention job.
LEMMA TableStep ==
    ASSUME BufferInv, NEW r \in Rows, Insert(r) \/ BecomesReady(r) \/ LeaseExpires(r) \/ Retain(r)
    PROVE  BufferInv'
<1>0. TablesInv /\ BufferTypes  BY DEF BufferInv
<1>1. faults' \in Nat
  BY <1>0, FaultNat DEF Insert, BecomesReady, LeaseExpires, Retain, pvars
<1>2. /\ UNCHANGED <<stages, mstatus, counted, ledger, proj>>
      /\ UNCHANGED <<wpc, facts, task, stop, cast>>
  BY DEF Insert, BecomesReady, LeaseExpires, Retain, pvars, wvars
<1>3. TablesInv' /\ Grows  BY <1>0, <1>1, <1>2, TablesStay
<1>4. BufferTypes'
  BY <1>0, <1>2 DEF BufferTypes, Insert, BecomesReady, LeaseExpires, Retain, Statuses
<1>5. RowsFollow
  BY <1>0 DEF BufferTypes, RowsFollow, Insert, BecomesReady, LeaseExpires, Retain
<1>6. \A v \in Workers \ {} : task'[v] = task[v] /\ wpc'[v] = wpc[v] /\ proj'[v] = proj[v]
  BY <1>2
<1>7. {} \in SUBSET Workers /\ \A w \in {} : WorkerFollows(w)  OBVIOUS
<1> QED BY <1>3, <1>4, <1>5, <1>6, <1>7, Together

\* The pipeline and the lookups project the same matches.
LEMMA OthersStep ==
    ASSUME BufferInv, NEW p \in Projectors \ Workers, Caller(p), UNCHANGED <<bvars, wvars>>
    PROVE  BufferInv'
<1>0. TablesInv /\ BufferTypes  BY DEF BufferInv
<1>1. TablesInv' /\ Grows /\ \A q \in Projectors \ {p} : proj'[q] = proj[q]
  BY <1>0, CallerTables
<1>2. UNCHANGED <<status, retry, ready, stale, wpc, facts, task, stop>>  BY DEF bvars, wvars
<1>3. BufferTypes'  BY <1>0, <1>2 DEF BufferTypes
<1>4. RowsFollow  BY <1>2, RowsStay
<1>5. \A v \in Workers \ {} : task'[v] = task[v] /\ wpc'[v] = wpc[v] /\ proj'[v] = proj[v]
  BY <1>1, <1>2, WorkerProjects
<1>6. {} \in SUBSET Workers /\ \A w \in {} : WorkerFollows(w)  OBVIOUS
<1> QED BY <1>1, <1>3, <1>4, <1>5, <1>6, Together

\* A row leaves the worker's hands: its claim is returned or lost, its facts
\* are stored, or it is marked.
LEMMA LeaveStep ==
    ASSUME BufferInv, NEW w \in Workers, NEW r \in Rows,
           \/ StopFactRow(w, r) \/ LoseClaim(w, r) \/ QuotaPause(w, r)
           \/ StoredFacts(w, r) \/ MarkProcessed(w, r) \/ MarkFailedOrDeferred(w, r)
    PROVE  BufferInv'
<1> USE DEF pvars, bvars
<1>0. TablesInv /\ BufferTypes /\ TaskFits(w, r)  BY DEF BufferInv, WorkersInv
<1>1. /\ UNCHANGED <<stages, mstatus, counted, ledger, proj>>
      /\ UNCHANGED <<wpc, facts, stop, stale>>
      /\ Drop(w, {r})
  BY DEF StopFactRow, LoseClaim, QuotaPause, StoredFacts, MarkProcessed, MarkFailedOrDeferred,
         ReturnClaims
<1>2. faults' \in Nat
  BY <1>0, FaultNat
     DEF StopFactRow, LoseClaim, QuotaPause, StoredFacts, MarkProcessed, MarkFailedOrDeferred
<1>3. TablesInv' /\ Grows  BY <1>0, <1>1, <1>2, TablesStay
<1>4. WorkerFollows(w)  BY <1>1, <1>3, DropFollows
<1>5. /\ task' \in [Workers -> [Rows -> Tasks]]
      /\ \A v \in Workers \ {w} : task'[v] = task[v]
  BY <1>0, <1>1, DropEffect
<1>6. ASSUME status' \in [Rows -> Statuses], retry' \in [Rows -> 0 .. MaxRetries],
             ready' \in [Rows -> BOOLEAN], RowsFollow
      PROVE  BufferInv'
  <2>1. BufferTypes'  BY <1>0, <1>1, <1>5, <1>6 DEF BufferTypes
  <2>2. \A v \in Workers \ {w} : task'[v] = task[v] /\ wpc'[v] = wpc[v] /\ proj'[v] = proj[v]
    BY <1>1, <1>5
  <2> QED BY <1>3, <1>4, <1>6, <2>1, <2>2, WorkerTogether
<1>7. retry \in [Rows -> 0 .. MaxRetries] /\ ready \in [Rows -> BOOLEAN]
      /\ status \in [Rows -> Statuses]
      /\ "pending" \in Statuses /\ "processed" \in Statuses /\ "failed" \in Statuses
  BY <1>0 DEF BufferTypes, Statuses
<1>8. CASE StopFactRow(w, r)
  <2>1. ReturnClaims({r})  BY <1>8 DEF StopFactRow
  <2>2. status' \in [Rows -> Statuses] /\ RowsFollow /\ UNCHANGED <<retry, ready>>
    BY <1>0, <2>1, ReturnClaimsEffect
  <2> QED BY <1>6, <1>7, <2>2
<1>9. CASE LoseClaim(w, r)
  <2>1. UNCHANGED <<status, retry, ready>>  BY <1>9 DEF LoseClaim
  <2> QED BY <1>6, <1>7, <2>1, RowsStay
<1>10. CASE QuotaPause(w, r)
  <2>1. SetStatus(r, "pending") /\ UNCHANGED <<retry, ready>>  BY <1>10 DEF QuotaPause
  <2> QED BY <1>0, <1>6, <1>7, <2>1, PendingFollows, SetStatusEffect
<1>11. CASE StoredFacts(w, r)
  <2>1. UNCHANGED <<retry, ready>>  BY <1>11 DEF StoredFacts
  <2>2. Durable(r) /\ IsMatch(r) /\ MatchOf[r] \in Matches
    BY <1>0, <1>11, MatchType DEF TaskFits, StoredFacts, Durable
  <2>3. CASE mstatus[MatchOf[r]] = "limited"
    <3>1. SetStatus(r, "processed")  BY <1>11, <2>3 DEF StoredFacts
    <3>2. MatchOf[r] \in Limited  BY <1>0, <2>2, <2>3 DEF TablesInv, LimitedTrue
    <3>3. Paid(r)'  BY <1>3, <2>2, <3>2, DurableStays DEF Paid
    <3>4. RowsFollow  BY <1>0, <1>7, <2>1, <3>1, <3>3, SetStatusEffect DEF RowsFollow
    <3> QED BY <1>0, <1>6, <1>7, <2>1, <3>1, <3>4, SetStatusEffect
  <2>4. CASE mstatus[MatchOf[r]] # "limited"
    <3>1. SetStatus(r, "pending")  BY <1>11, <2>4 DEF StoredFacts
    <3> QED BY <1>0, <1>6, <1>7, <2>1, <3>1, PendingFollows, SetStatusEffect
  <2> QED BY <2>3, <2>4
<1>12. CASE MarkProcessed(w, r)
  <2>1. SetStatus(r, "processed") /\ UNCHANGED <<retry, ready>>  BY <1>12 DEF MarkProcessed
  <2>2. IsMatch(r) => Required \subseteq stages[MatchOf[r]]
    BY <1>0, <1>12 DEF TaskFits, MarkProcessed
  <2>3. Paid(r)'  BY <1>3, <2>2, DurableStays DEF Paid, IsMatch
  <2>4. RowsFollow  BY <1>0, <1>7, <2>1, <2>3, SetStatusEffect DEF RowsFollow
  <2> QED BY <1>0, <1>6, <1>7, <2>1, <2>4, SetStatusEffect
<1>13. CASE MarkFailedOrDeferred(w, r)
  <2> DEFINE s == IF task[w][r].pc = "terminal" THEN "failed" ELSE "pending"
  <2>1. SetStatus(r, s)  BY <1>13 DEF MarkFailedOrDeferred
  <2>2. s \in Statuses /\ (s = "failed" => task[w][r].pc = "terminal") /\ s # "processed"
    BY <1>7
  <2> HIDE DEF s
  <2>3. status' \in [Rows -> Statuses] /\ (\A q \in Rows \ {r} : status'[q] = status[q])
        /\ (status'[r] = s \/ status'[r] = "gone")
    BY <1>0, <2>1, <2>2, SetStatusEffect
  <2>4. task[w][r].retry \in 0 .. MaxRetries  BY <1>0 DEF BufferTypes, Tasks
  <2>5. Bump(task[w][r].retry) \in 0 .. MaxRetries  BY <2>4, BumpType
  <2>6. /\ retry' \in [Rows -> 0 .. MaxRetries] /\ retry'[r] = Bump(task[w][r].retry)
        /\ \A q \in Rows \ {r} : retry'[q] = retry[q]
    BY <1>7, <1>13, <2>5 DEF MarkFailedOrDeferred
  <2>7. /\ ready' \in [Rows -> BOOLEAN]
        /\ \A q \in Rows : ~ready'[q] => ~ready[q] \/ (q = r /\ Delays(w, r))
    <3> DEFINE b == IF Delays(w, r) THEN FALSE ELSE ready[r]
    <3>1. ready' = [ready EXCEPT ![r] = b]  BY <1>13 DEF MarkFailedOrDeferred
    <3>2. b \in BOOLEAN /\ (~b => ~ready[r] \/ Delays(w, r))  BY <1>7
    <3> HIDE DEF b
    <3>3. ready' \in [Rows -> BOOLEAN]  BY <1>7, <3>1, <3>2
    <3>4. ready'[r] = b /\ \A q \in Rows \ {r} : ready'[q] = ready[q]  BY <1>7, <3>1
    <3> QED BY <1>7, <3>2, <3>3, <3>4
  <2>8. Delays(w, r) => Durable(r)  BY <1>0 DEF Delays, TaskFits
  <2>9. status'[r] = "failed" => retry'[r] = MaxRetries \/ r \in Unsupported
    BY <1>0, <2>2, <2>3, <2>6 DEF TaskFits, Exhausted
  <2>10. RowsFollow  BY <2>2, <2>3, <2>6, <2>7, <2>8, <2>9 DEF RowsFollow
  <2> QED BY <1>6, <2>3, <2>6, <2>7, <2>10
<1> QED BY <1>8, <1>9, <1>10, <1>11, <1>12, <1>13

\* A row moves on in the worker's hands.
LEMMA MoveStep ==
    ASSUME BufferInv, NEW w \in Workers, NEW r \in Rows,
           \/ RenewClaim(w, r) \/ PersistFacts(w, r) \/ PersistMatch(w, r) \/ PersistOther(w, r)
           \/ PersistFails(w, r) \/ ProjectionReturns(w, r) \/ ReadDurable(w, r)
    PROVE  BufferInv'
<1> USE DEF pvars, bvars
<1>0. /\ TablesInv /\ BufferTypes /\ TaskFits(w, r) /\ w \in Projectors
      /\ proj \in [Projectors -> Calls]
  BY WorkerProjects DEF BufferInv, WorkersInv, TablesInv, ProjectionTypeOK
<1>1. UNCHANGED <<wpc, facts, stop, status, retry, ready>>
  BY DEF RenewClaim, PersistFacts, PersistMatch, PersistOther, PersistFails, ProjectionReturns,
         ReadDurable
<1>2. stale' \in [Rows -> BOOLEAN]
  <2>1. UNCHANGED stale \/ Renew({r})
    BY DEF RenewClaim, PersistFacts, PersistMatch, PersistOther, PersistFails, ProjectionReturns,
           ReadDurable
  <2> QED BY <1>0, <2>1, RenewType DEF BufferTypes
<1>3. ASSUME NEW pc \in Positions, Goto(w, r, pc), TablesInv', Grows,
             \A q \in Projectors \ {w} : proj'[q] = proj[q], TaskFits(w, r)',
             proj'[w] = proj[w] \/ task[w][r].pc = "waiting" \/ pc = "waiting",
             \/ Busy(w, r) \/ task[w][r].lane = "facts"
             \/ \A q \in Lane(w, "derived") : task[w][q].pc = "claimed"
      PROVE  BufferInv'
  <2>1. WorkerFollows(w)  BY <1>1, <1>3, GotoFollows
  <2>2. /\ task' \in [Workers -> [Rows -> Tasks]]
        /\ \A v \in Workers \ {w} : task'[v] = task[v]
    BY <1>0, <1>3, GotoEffect
  <2>3. BufferTypes'  BY <1>0, <1>1, <1>2, <2>2 DEF BufferTypes
  <2>4. \A v \in Workers \ {w} : task'[v] = task[v] /\ wpc'[v] = wpc[v] /\ proj'[v] = proj[v]
    BY <1>1, <1>3, <2>2, WorkerProjects
  <2>5. RowsFollow  BY <1>1, RowsStay
  <2> QED BY <1>3, <2>1, <2>3, <2>4, <2>5, WorkerTogether
<1>4. {"held", "stored", "waiting", "done", "erring", "terminal", "deferred", "delayed"} \subseteq Positions
  BY DEF Positions
\* The lane and the phase of the row do not change.
<1>5. ASSUME NEW pc \in Positions, Goto(w, r, pc), task[w][r].pc # "none", pc # "none",
             task[w][r].lane = "derived" => wpc[w] = "derived",
             pc = "waiting" => task[w][r].lane = "derived" /\ IsMatch(r) /\ proj'[w].ids = {MatchOf[r]},
             pc \in {"stored", "delayed"} => Durable(r)',
             pc = "done" /\ IsMatch(r) => Required \subseteq stages'[MatchOf[r]],
             pc = "terminal" => Exhausted(w, r)
      PROVE  TaskFits(w, r)'
  <2>1. /\ task'[w][r].pc = pc /\ task'[w][r].lane = task[w][r].lane
        /\ task'[w][r].retry = task[w][r].retry
    BY <1>0, <1>5, GotoEffect
  <2>2. pc = "terminal" => Exhausted(w, r)'  BY <1>5, <2>1 DEF Exhausted
  <2> QED BY <1>0, <1>1, <1>5, <2>1, <2>2 DEF TaskFits, Busy, IsMatch
<1>6. CASE RenewClaim(w, r)
  <2>1. Goto(w, r, "held") /\ UNCHANGED pvars /\ Reached(w, r)  BY <1>6 DEF RenewClaim
  <2>2. TablesInv' /\ Grows  BY <1>0, <2>1, TablesStay, FaultNat
  <2>3. task[w][r].pc = "claimed"  BY <2>1 DEF Reached
  <2>4. /\ task[w][r].lane = "derived" => wpc[w] = "derived"
        /\ \/ task[w][r].lane = "facts"
           \/ \A q \in Lane(w, "derived") : task[w][q].pc = "claimed"
    BY <2>1 DEF Reached
  <2>5. TaskFits(w, r)'  BY <1>4, <1>5, <2>1, <2>3, <2>4
  <2> QED BY <1>3, <1>4, <2>1, <2>2, <2>4, <2>5
<1>d. ASSUME Busy(w, r)
      PROVE  task[w][r].pc # "none" /\ (task[w][r].lane = "derived" => wpc[w] = "derived")
  BY <1>0, <1>d DEF TaskFits, Busy
<1>7. CASE PersistFacts(w, r)
  <2>1. Goto(w, r, "stored") /\ Finalize(MatchOf[r]) /\ UNCHANGED <<counted, ledger, proj, faults>>
    BY <1>7 DEF PersistFacts
  <2>2. Busy(w, r) /\ IsMatch(r) /\ MatchOf[r] \in Matches
    BY <1>0, <1>7, MatchType DEF PersistFacts, Busy, TaskFits
  <2>3. TablesInv' /\ Grows /\ "facts" \in stages'[MatchOf[r]]
    BY <1>0, <2>1, <2>2, FinalizeTables
  <2>4. Durable(r)'  BY <2>2, <2>3 DEF Durable, FactsDurable, IsMatch
  <2>5. TaskFits(w, r)'  BY <1>4, <1>5, <1>d, <2>1, <2>2, <2>4
  <2> QED BY <1>3, <1>4, <2>1, <2>2, <2>3, <2>5
<1>8. CASE PersistMatch(w, r)
  <2>1. /\ Goto(w, r, "waiting") /\ Finalize(MatchOf[r]) /\ UNCHANGED <<counted, ledger, faults>>
        /\ Begin(w, MatchOf[r]) /\ IsMatch(r) /\ task[w][r].lane = "derived"
    BY <1>8 DEF PersistMatch
  <2>2. Busy(w, r) /\ MatchOf[r] \in Matches  BY <1>8, <2>1, MatchType DEF PersistMatch, Busy
  <2>3. /\ TablesInv' /\ Grows /\ proj'[w].ids = {MatchOf[r]}
        /\ \A q \in Projectors \ {w} : proj'[q] = proj[q]
    BY <1>0, <2>1, <2>2, FinalizeTables
  <2>4. TaskFits(w, r)'  BY <1>4, <1>5, <1>d, <2>1, <2>2, <2>3
  <2> QED BY <1>3, <1>4, <2>1, <2>2, <2>3, <2>4
<1>9. CASE PersistOther(w, r)
  <2>1. Goto(w, r, "done") /\ UNCHANGED pvars /\ ~IsMatch(r) /\ Busy(w, r)
    BY <1>9 DEF PersistOther, Busy
  <2>2. TablesInv' /\ Grows  BY <1>0, <2>1, TablesStay, FaultNat
  <2>3. TaskFits(w, r)'  BY <1>4, <1>5, <1>d, <2>1
  <2> QED BY <1>3, <1>4, <2>1, <2>2, <2>3
<1>10. CASE PersistFails(w, r)
  <2>1. /\ Goto(w, r, "erring") /\ UNCHANGED <<stages, mstatus, counted, ledger, proj>>
        /\ Fault \/ UNCHANGED faults
        /\ Busy(w, r)
    BY <1>10 DEF PersistFails, Busy
  <2>2. TablesInv' /\ Grows  BY <1>0, <2>1, TablesStay, FaultNat
  <2>3. TaskFits(w, r)'  BY <1>4, <1>5, <1>d, <2>1
  <2> QED BY <1>3, <1>4, <2>1, <2>2, <2>3
<1>11. CASE ProjectionReturns(w, r)
  <2> DEFINE pc == IF proj[w].pc = "ok" THEN "done" ELSE "erring"
  <2>1. /\ Goto(w, r, pc) /\ UNCHANGED <<stages, mstatus, counted, ledger, faults>>
        /\ proj' = [proj EXCEPT ![w] = Idle] /\ Busy(w, r) /\ task[w][r].pc = "waiting"
    BY <1>11 DEF ProjectionReturns, Busy
  <2>2. /\ pc \in Positions /\ pc \in {"done", "erring"}
        /\ pc = "done" => proj[w].pc = "ok"
    BY <1>4
  <2> HIDE DEF pc
  <2>3. Idle \in Calls /\ Idle.pc = "idle" /\ faults' \in Nat
    BY <1>0, <2>1, IdleType, FaultNat DEF Idle
  <2>4. /\ TablesInv' /\ Grows /\ \A q \in Projectors \ {w} : proj'[q] = proj[q]
    BY <1>0, <2>1, <2>3, CallTables
  <2>5. pc = "done" /\ IsMatch(r) => Required \subseteq stages'[MatchOf[r]]
    BY <1>0, <2>1, <2>2 DEF TaskFits, TablesInv, CallsTrue
  <2>6. TaskFits(w, r)'  BY <1>5, <1>d, <2>1, <2>2, <2>5
  <2> QED BY <1>3, <2>1, <2>2, <2>4, <2>6
<1>12. CASE ReadDurable(w, r)
  <2> DEFINE pc == IF Durable(r) THEN "delayed" ELSE IF Exhausted(w, r) THEN "terminal" ELSE "deferred"
  <2>1. Goto(w, r, pc) /\ UNCHANGED pvars /\ Busy(w, r)  BY <1>12 DEF ReadDurable, Busy
  <2>2. /\ pc \in Positions /\ pc \in {"delayed", "terminal", "deferred"}
        /\ pc = "delayed" => Durable(r)
        /\ pc = "terminal" => Exhausted(w, r)
    BY <1>4
  <2> HIDE DEF pc
  <2>3. TablesInv' /\ Grows  BY <1>0, <2>1, TablesStay, FaultNat
  <2>4. pc = "delayed" => Durable(r)'  BY <2>2, <2>3, DurableStays
  <2>5. TaskFits(w, r)'  BY <1>5, <1>d, <2>1, <2>2, <2>4
  <2> QED BY <1>3, <2>1, <2>2, <2>3, <2>5
<1> QED BY <1>6, <1>7, <1>8, <1>9, <1>10, <1>11, <1>12

\* What a worker's phase says of its tasks.
LEMMA PhaseFacts ==
    ASSUME BufferInv, NEW w \in Workers, NEW r \in Rows
    PROVE  /\ wpc[w] \in {"idle", "requeue", "lane", "claim"} => task[w][r].pc = "none"
           /\ wpc[w] \in {"adaptive", "derived"} /\ task[w][r].pc # "none" => r \in Lane(w, "derived")
           /\ wpc[w] \in {"facts", "adaptive"} /\ r \in Lane(w, "derived") =>
                task[w][r].pc = "claimed"
           /\ Busy(w, r) /\ r \in Lane(w, "derived") => wpc[w] = "derived"
<1>1. TaskFits(w, r)  BY DEF BufferInv, WorkersInv
<1>2. task[w][r] \in Tasks /\ task[w][r].lane \in {"facts", "derived"}
  BY DEF BufferInv, BufferTypes, Tasks
<1> QED BY <1>1, <1>2 DEF TaskFits, Busy, Lane, TaskOf

\* An error outside process_row: the facts lane gives up the row, the derived
\* lane the batch.
LEMMA RowErrorStep ==
    ASSUME BufferInv, NEW w \in Workers, NEW r \in Rows, RowError(w, r)
    PROVE  BufferInv'
<1>0. TablesInv /\ BufferTypes /\ task[w][r] \in Tasks  BY DEF BufferInv, BufferTypes
<1> DEFINE R == IF task[w][r].lane = "facts" THEN {r} ELSE Lane(w, "derived")
<1>1. /\ ReturnClaims(R) \/ UNCHANGED bvars
      /\ Drop(w, R)
      /\ UNCHANGED <<stages, mstatus, counted, ledger, proj, facts, stop>>
      /\ Fault \/ UNCHANGED faults
      /\ wpc' = [wpc EXCEPT ![w] = IF task[w][r].lane = "facts" THEN @ ELSE "idle"]
      /\ task[w][r].pc # "none" /\ (task[w][r].pc = "claimed" => Reached(w, r))
  BY DEF RowError
<1>2. TablesInv' /\ Grows  BY <1>0, <1>1, TablesStay, FaultNat
<1>3. RowsFollow /\ status' \in [Rows -> Statuses] /\ UNCHANGED <<retry, ready, stale>>
  <2>1. CASE ReturnClaims(R)  BY <1>0, <2>1, ReturnClaimsEffect
  <2>2. CASE UNCHANGED bvars  BY <1>0, <2>2, RowsStay DEF bvars, BufferTypes
  <2> QED BY <1>1, <2>1, <2>2
<1>4. /\ task' \in [Workers -> [Rows -> Tasks]]
      /\ \A v \in Workers \ {w} : task'[v] = task[v]
      /\ \A q \in Rows : task'[w][q] = IF q \in R THEN NoTask ELSE task[w][q]
  BY <1>0, <1>1, DropEffect
<1>5. /\ wpc' \in [Workers -> Phases] /\ \A v \in Workers \ {w} : wpc'[v] = wpc[v]
      /\ wpc'[w] = IF task[w][r].lane = "facts" THEN wpc[w] ELSE "idle"
  BY <1>0, <1>1 DEF BufferTypes, Phases
<1>6. BufferTypes'  BY <1>0, <1>1, <1>3, <1>4, <1>5 DEF BufferTypes
<1>7. WorkerFollows(w)
  <2>1. CASE task[w][r].lane = "facts"
    <3>1. wpc'[w] = wpc[w] /\ proj'[w] = proj[w]  BY <1>1, <1>5, <2>1
    <3> QED BY <1>1, <1>2, <3>1, DropFollows
  <2>2. CASE task[w][r].lane # "facts"
    <3>1. task[w][r].lane = "derived" /\ R = Lane(w, "derived")  BY <1>0, <2>2 DEF Tasks
    <3>2. wpc[w] = "derived"
      <4>1. CASE task[w][r].pc = "claimed"  BY <1>1, <3>1, <4>1 DEF Reached
      <4>2. CASE task[w][r].pc # "claimed"
        <5>1. Busy(w, r) /\ r \in Lane(w, "derived")  BY <1>1, <3>1, <4>2 DEF Busy, Lane, TaskOf
        <5> QED BY <5>1, PhaseFacts
      <4> QED BY <4>1, <4>2
    <3>3. ASSUME NEW q \in Rows PROVE task'[w][q].pc = "none"
      BY <1>4, <3>1, <3>2, PhaseFacts DEF NoTask
    <3>4. wpc'[w] # "adaptive"  BY <1>5, <2>2
    <3> QED BY <3>3, <3>4, EmptyFollows
  <2> QED BY <2>1, <2>2
<1>8. \A v \in Workers \ {w} : task'[v] = task[v] /\ wpc'[v] = wpc[v] /\ proj'[v] = proj[v]
  BY <1>1, <1>4, <1>5
<1> QED BY <1>2, <1>3, <1>6, <1>7, <1>8, WorkerTogether

\* The start of a batch: the worker has no tasks yet.
LEMMA StartStep ==
    ASSUME BufferInv, NEW w \in Workers,
           \/ RecoverStaleLeases(w) \/ RequeueConflict(w) \/ RequeueIncomplete(w)
           \/ ReadLane(w) \/ ClaimNothing(w)
    PROVE  BufferInv'
<1> USE DEF pvars, bvars
<1>0. TablesInv /\ BufferTypes  BY DEF BufferInv
<1>1. /\ UNCHANGED <<stages, mstatus, counted, ledger, proj, faults>>
      /\ UNCHANGED <<task, stop>>
      /\ wpc[w] \in {"idle", "requeue", "lane", "claim"}
      /\ \E pc \in {"idle", "requeue", "lane", "claim"} : wpc' = [wpc EXCEPT ![w] = pc]
  BY DEF RecoverStaleLeases, RequeueConflict, RequeueIncomplete, ReadLane, ClaimNothing
<1>2. TablesInv' /\ Grows  BY <1>0, <1>1, TablesStay, FaultNat
<1>3. /\ wpc' \in [Workers -> Phases] /\ \A v \in Workers \ {w} : wpc'[v] = wpc[v]
      /\ wpc'[w] \in {"idle", "requeue", "lane", "claim"}
  BY <1>0, <1>1 DEF BufferTypes, Phases
<1>4. facts' \in [Workers -> BOOLEAN]
  <2>1. PendingFacts \in BOOLEAN  BY DEF PendingFacts
  <2>2. CASE UNCHANGED facts  BY <1>0, <2>2 DEF BufferTypes
  <2>3. CASE ReadLane(w)  BY <1>0, <2>1, <2>3 DEF BufferTypes, ReadLane
  <2> QED BY <2>2, <2>3 DEF RecoverStaleLeases, RequeueConflict, RequeueIncomplete, ClaimNothing
<1>5. WorkerFollows(w)
  <2>1. \A r \in Rows : task'[w][r].pc = "none"  BY <1>1, PhaseFacts
  <2> QED BY <1>3, <2>1, EmptyFollows
<1>6. ASSUME status' \in [Rows -> Statuses], retry' \in [Rows -> 0 .. MaxRetries],
             ready' \in [Rows -> BOOLEAN], stale' \in [Rows -> BOOLEAN], RowsFollow
      PROVE  BufferInv'
  <2>1. BufferTypes'  BY <1>0, <1>1, <1>3, <1>4, <1>6 DEF BufferTypes
  <2>2. \A v \in Workers \ {w} : task'[v] = task[v] /\ wpc'[v] = wpc[v] /\ proj'[v] = proj[v]
    BY <1>1, <1>3
  <2> QED BY <1>2, <1>5, <1>6, <2>1, <2>2, WorkerTogether
<1>7. CASE UNCHANGED <<status, retry, ready, stale>>
  BY <1>0, <1>6, <1>7, RowsStay DEF BufferTypes
<1>8. CASE RequeueIncomplete(w)
  <2>1. /\ status' = [r \in Rows |-> IF r \in Incomplete THEN "pending" ELSE status[r]]
        /\ ready' = [r \in Rows |-> r \in Incomplete \/ ready[r]]
        /\ UNCHANGED <<retry, stale>>
    BY <1>8 DEF RequeueIncomplete
  <2>2. status' \in [Rows -> Statuses]  BY <1>0, <2>1 DEF BufferTypes, Statuses
  <2>3. ready' \in [Rows -> BOOLEAN]  BY <2>1
  <2>4. RowsFollow  BY <2>1 DEF RowsFollow
  <2> QED BY <1>0, <1>6, <2>1, <2>2, <2>3, <2>4 DEF BufferTypes
<1>9. CASE RecoverStaleLeases(w)
  <2> DEFINE R == {r \in Rows : status[r] = "processing" /\ stale[r]}
  <2>1. /\ status' = [r \in Rows |-> IF r \in R THEN Recovered(r) ELSE status[r]]
        /\ retry' = [r \in Rows |-> IF r \in R THEN Bump(retry[r]) ELSE retry[r]]
        /\ ready' = [r \in Rows |-> IF r \in R /\ Durable(r) THEN FALSE ELSE ready[r]]
        /\ stale' = [r \in Rows |-> r \notin R /\ stale[r]]
    BY <1>9 DEF RecoverStaleLeases
  <2> HIDE DEF R
  <2>2. status' \in [Rows -> Statuses]
    BY <1>0, <2>1 DEF BufferTypes, Statuses, Recovered
  <2>3. retry' \in [Rows -> 0 .. MaxRetries]  BY <1>0, <2>1, BumpType DEF BufferTypes
  <2>4. ready' \in [Rows -> BOOLEAN]  BY <1>0, <2>1 DEF BufferTypes
  <2>5. stale' \in [Rows -> BOOLEAN]  BY <2>1
  <2>6. ASSUME NEW r \in Rows, status'[r] = "failed"
        PROVE  (status[r] = "failed" /\ retry'[r] = retry[r]) \/ retry'[r] = MaxRetries
    <3>1. CASE r \notin R  BY <2>1, <2>6, <3>1
    <3>2. CASE r \in R
      <4>1. retry[r] >= MaxRetries - 1 /\ retry[r] \in 0 .. MaxRetries
        BY <1>0, <2>1, <2>6, <3>2 DEF Recovered, BufferTypes
      <4>2. Bump(retry[r]) = MaxRetries  BY <4>1, RawBufferAssumption DEF Bump
      <4> QED BY <2>1, <3>2, <4>2
    <3> QED BY <3>1, <3>2
  <2>7. \A r \in Rows : status'[r] = "processed" => status[r] = "processed"
    BY <2>1 DEF Recovered
  <2>8. \A r \in Rows : ~ready'[r] => ~ready[r] \/ Durable(r)  BY <2>1
  <2>9. RowsFollow  BY <2>6, <2>7, <2>8 DEF RowsFollow
  <2> QED BY <1>6, <2>2, <2>3, <2>4, <2>5, <2>9
<1> QED
  BY <1>7, <1>8, <1>9 DEF RequeueConflict, ReadLane, ClaimNothing

\* The claim: every task starts in the lane its row belongs to.
LEMMA ClaimStep ==
    ASSUME BufferInv, NEW w \in Workers, ClaimRows(w)
    PROVE  BufferInv'
<1>0. TablesInv /\ BufferTypes  BY DEF BufferInv
<1>1. PICK C \in SUBSET Eligible(w) :
        /\ status' = [r \in Rows |-> IF r \in C THEN "processing" ELSE status[r]]
        /\ stale' = [r \in Rows |-> r \notin C /\ stale[r]]
        /\ task' = [task EXCEPT ![w] = [r \in Rows |->
             IF r \in C
             THEN [pc |-> "claimed", retry |-> retry[r],
                   lane |-> IF Priority(r) = 1 THEN "facts" ELSE "derived"]
             ELSE NoTask]]
  BY DEF ClaimRows
<1>2. /\ UNCHANGED <<stages, mstatus, counted, ledger, proj, faults>>
      /\ UNCHANGED <<retry, ready, facts, stop>>
      /\ wpc' = [wpc EXCEPT ![w] = "facts"]
  BY DEF ClaimRows, pvars
<1>3. TablesInv' /\ Grows  BY <1>0, <1>2, TablesStay, FaultNat
<1>4. /\ wpc' \in [Workers -> Phases] /\ wpc'[w] = "facts"
      /\ \A v \in Workers \ {w} : wpc'[v] = wpc[v]
  BY <1>0, <1>2 DEF BufferTypes, Phases
<1> DEFINE claim(r) == [pc |-> "claimed", retry |-> retry[r],
                        lane |-> IF Priority(r) = 1 THEN "facts" ELSE "derived"]
           f == [r \in Rows |-> IF r \in C THEN claim(r) ELSE NoTask]
<1>5. ASSUME NEW r \in Rows
      PROVE  /\ claim(r) \in Tasks /\ claim(r).pc = "claimed"
             /\ claim(r).lane = "facts" => IsMatch(r)
  <2>1. retry[r] \in 0 .. MaxRetries  BY <1>0 DEF BufferTypes
  <2>2. claim(r).lane = "facts" => IsMatch(r)  BY DEF Priority
  <2> QED BY <2>1, <2>2 DEF Tasks, Positions
<1>6. task' = [task EXCEPT ![w] = f]  BY <1>1
<1> HIDE DEF claim
<1>7. f \in [Rows -> Tasks]  BY <1>5, NoTaskType
<1>8. \A r \in Rows : f[r] = claim(r) \/ f[r].pc = "none"  BY DEF NoTask
<1> HIDE DEF f
<1>9. /\ task' \in [Workers -> [Rows -> Tasks]] /\ task'[w] = f
      /\ \A v \in Workers \ {w} : task'[v] = task[v]
  BY <1>0, <1>6, <1>7 DEF BufferTypes
<1>10. \A r \in Rows : /\ task'[w][r].pc \in {"none", "claimed"}
                       /\ task'[w][r].pc # "none" /\ task'[w][r].lane = "facts" => IsMatch(r)
  BY <1>5, <1>8, <1>9
<1>11. WorkerFollows(w)
  <2>1. \A r \in Rows : TaskFits(w, r)'  BY <1>4, <1>10 DEF TaskFits, Busy, IsMatch
  <2>2. OneAtATime(w)'  BY <1>10 DEF OneAtATime, Busy
  <2> QED BY <1>4, <2>1, <2>2 DEF WorkerFollows
<1>12. status' \in [Rows -> Statuses] /\ stale' \in [Rows -> BOOLEAN]
  BY <1>0, <1>1 DEF BufferTypes, Statuses
<1>13. BufferTypes'  BY <1>0, <1>2, <1>4, <1>9, <1>12 DEF BufferTypes
<1>14. RowsFollow  BY <1>1, <1>2 DEF RowsFollow
<1>15. \A v \in Workers \ {w} : task'[v] = task[v] /\ wpc'[v] = wpc[v] /\ proj'[v] = proj[v]
  BY <1>2, <1>4, <1>9
<1> QED BY <1>3, <1>11, <1>13, <1>14, <1>15, WorkerTogether

\* The batch ends: quiesced, yielded to fact rows, done or crashed.
LEMMA EndStep ==
    ASSUME BufferInv, NEW w \in Workers,
           StopAfterClaim(w) \/ YieldDerived(w) \/ BatchEnds(w) \/ Crash(w)
    PROVE  BufferInv'
<1> USE DEF pvars, bvars
<1>0. TablesInv /\ BufferTypes /\ w \in Projectors  BY WorkerProjects DEF BufferInv
<1>1. /\ wpc' = [wpc EXCEPT ![w] = "idle"] /\ UNCHANGED facts
      /\ UNCHANGED <<stages, mstatus, counted, ledger>>
      /\ Fault \/ UNCHANGED faults
      /\ stop' \subseteq stop
  BY DEF StopAfterClaim, YieldDerived, BatchEnds, Crash
<1>2. /\ wpc' \in [Workers -> Phases] /\ wpc'[w] = "idle"
      /\ \A v \in Workers \ {w} : wpc'[v] = wpc[v]
  BY <1>0, <1>1 DEF BufferTypes, Phases
<1>3. TablesInv' /\ Grows /\ \A q \in Projectors \ {w} : proj'[q] = proj[q]
  <2>1. faults' \in Nat  BY <1>0, <1>1, FaultNat
  <2>2. CASE UNCHANGED proj  BY <1>0, <1>1, <2>1, <2>2, TablesStay
  <2>3. CASE proj' = [proj EXCEPT ![w] = Idle]
    <3>1. Idle \in Calls /\ Idle.pc = "idle"  BY IdleType DEF Idle
    <3> QED BY <1>0, <1>1, <2>1, <2>3, <3>1, CallTables
  <2> QED BY <2>2, <2>3 DEF StopAfterClaim, YieldDerived, BatchEnds, Crash
<1>4. /\ task' \in [Workers -> [Rows -> Tasks]]
      /\ \A v \in Workers \ {w} : task'[v] = task[v]
      /\ \A r \in Rows : task'[w][r].pc = "none"
  <2>1. CASE Drop(w, Rows)  BY <1>0, <2>1, DropEffect DEF NoTask
  <2>2. CASE BatchEnds(w)
    <3>1. wpc[w] = "derived" /\ Lane(w, "derived") = {} /\ task' = task  BY <2>2 DEF BatchEnds
    <3>2. \A r \in Rows : task[w][r].pc = "none"  BY <3>1, PhaseFacts
    <3> QED BY <1>0, <3>1, <3>2 DEF BufferTypes
  <2> QED BY <2>1, <2>2 DEF StopAfterClaim, YieldDerived, Crash
<1>5. status' \in [Rows -> Statuses] /\ RowsFollow /\ UNCHANGED <<retry, ready, stale>>
  <2>1. CASE \E R \in SUBSET Rows : ReturnClaims(R)  BY <1>0, <2>1, ReturnClaimsEffect
  <2>2. CASE UNCHANGED <<status, retry, ready, stale>>  BY <1>0, <2>2, RowsStay DEF BufferTypes
  <2>3. TaskOf(w) \subseteq Rows /\ Lane(w, "derived") \subseteq Rows  BY DEF TaskOf, Lane
  <2> QED BY <2>1, <2>2, <2>3 DEF StopAfterClaim, YieldDerived, BatchEnds, Crash
<1>6. BufferTypes'  BY <1>0, <1>1, <1>2, <1>4, <1>5 DEF BufferTypes
<1>7. WorkerFollows(w)  BY <1>2, <1>4, EmptyFollows
<1>8. \A v \in Workers \ {w} : task'[v] = task[v] /\ wpc'[v] = wpc[v] /\ proj'[v] = proj[v]
  BY <1>2, <1>3, <1>4, WorkerProjects
<1> QED BY <1>3, <1>5, <1>6, <1>7, <1>8, WorkerTogether

\* The set-based lane: the derived rows are claimed and wait.
LEMMA AdaptiveStep ==
    ASSUME BufferInv, NEW w \in Workers,
           \/ FactsLaneEnds(w) \/ AdaptiveChunk(w) \/ AdaptiveFallback(w)
           \/ AdaptiveScalable(w) \/ AdaptiveEnds(w) \/ AdaptiveError(w)
    PROVE  BufferInv'
<1> USE DEF pvars, bvars, wvars
<1>0. /\ TablesInv /\ BufferTypes /\ w \in Projectors /\ proj[w] \in Calls
      /\ proj \in [Projectors -> Calls]
  BY WorkerProjects DEF BufferInv, TablesInv, ProjectionTypeOK
<1>1. /\ UNCHANGED <<status, retry, ready, facts, task, stop>>
      /\ wpc[w] \in {"facts", "adaptive"}
      /\ \E pc \in {"adaptive", "derived"} : wpc' = [wpc EXCEPT ![w] = pc]
  BY <1>0 DEF BufferTypes, FactsLaneEnds, AdaptiveChunk, AdaptiveFallback, AdaptiveScalable, AdaptiveEnds,
              AdaptiveError
<1>2. /\ wpc' \in [Workers -> Phases] /\ wpc'[w] \in {"adaptive", "derived"}
      /\ \A v \in Workers \ {w} : wpc'[v] = wpc[v]
  BY <1>0, <1>1 DEF BufferTypes, Phases
<1>3. stale' \in [Rows -> BOOLEAN]
  <2>1. UNCHANGED stale \/ \E R \in SUBSET Rows : Renew(R)
    <3>1. Lane(w, "derived") \subseteq Rows  BY DEF Lane, TaskOf
    <3> QED
      BY <3>1 DEF FactsLaneEnds, AdaptiveChunk, AdaptiveFallback, AdaptiveScalable, AdaptiveEnds,
                  AdaptiveError
  <2> QED BY <1>0, <2>1, RenewType DEF BufferTypes
<1>4. BufferTypes'  BY <1>0, <1>1, <1>2, <1>3 DEF BufferTypes
<1>5. RowsFollow  BY <1>1, RowsStay
<1>6. ASSUME NEW r \in Rows
      PROVE  task[w][r].pc \in {"none", "claimed"} /\ (task[w][r].pc # "none" => task[w][r].lane = "derived")
  <2>1. task[w][r].lane \in {"facts", "derived"}  BY <1>0 DEF BufferTypes, Tasks
  <2>2. CASE wpc[w] = "adaptive"  BY <2>2, PhaseFacts DEF Lane
  <2>3. CASE wpc[w] = "facts"
    <3>1. Lane(w, "facts") = {}
      BY <2>3 DEF FactsLaneEnds, AdaptiveChunk, AdaptiveFallback, AdaptiveScalable, AdaptiveEnds,
                  AdaptiveError
    <3>2. task[w][r].pc # "none" => task[w][r].lane = "derived"
      BY <2>1, <3>1 DEF Lane, TaskOf
    <3>3. task[w][r].pc # "none" => r \in Lane(w, "derived")  BY <3>2 DEF Lane, TaskOf
    <3> QED BY <2>3, <3>2, <3>3, PhaseFacts
  <2> QED BY <1>1, <2>2, <2>3
<1>7. ASSUME TablesInv', Grows, \A q \in Projectors \ {w} : proj'[q] = proj[q],
             wpc'[w] = "adaptive" => proj'[w].pc = "batch"
      PROVE  BufferInv'
  <2>1. \A r \in Rows : TaskFits(w, r)'  BY <1>1, <1>2, <1>6 DEF TaskFits, Busy
  <2>2. OneAtATime(w)'  BY <1>1, <1>6 DEF OneAtATime, Busy
  <2>3. WorkerFollows(w)  BY <1>7, <2>1, <2>2 DEF WorkerFollows
  <2>4. \A v \in Workers \ {w} : task'[v] = task[v] /\ wpc'[v] = wpc[v] /\ proj'[v] = proj[v]
    BY <1>1, <1>2, <1>7, WorkerProjects
  <2> QED BY <1>4, <1>5, <1>7, <2>3, <2>4, WorkerTogether
\* A call that is idle or a batch of matches with facts.
<1>8. ASSUME NEW c \in Calls, UNCHANGED <<stages, mstatus, counted, ledger>>,
             Fault \/ UNCHANGED faults, proj' = [proj EXCEPT ![w] = c],
             \/ c.pc = "idle" /\ wpc'[w] = "derived"
             \/ c.pc = "batch" /\ \A m \in c.left : "facts" \in stages[m]
      PROVE  BufferInv'
  <2>1. faults' \in Nat  BY <1>0, <1>8, FaultNat
  <2>2. /\ TablesInv' /\ Grows /\ proj'[w] = c /\ \A q \in Projectors \ {w} : proj'[q] = proj[q]
    BY <1>0, <1>8, <2>1, CallTables
  <2> QED BY <1>7, <1>8, <2>2
<1>9. wpc[w] = "adaptive" => proj[w].pc = "batch"  BY DEF BufferInv, WorkersInv
<1>10. \A m \in Matches : stages[m] # {} => "facts" \in stages[m]
  BY <1>0 DEF TablesInv, FactsFirst
<1>11. CASE FactsLaneEnds(w)
  <2> DEFINE ids == MatchesOf(Lane(w, "derived"))
             C == Candidates(ids, "performance_projections")
             c == [Idle EXCEPT !.pc = "batch", !.ids = ids, !.left = C]
  <2>1. UNCHANGED <<stages, mstatus, counted, ledger, faults>>  BY <1>11 DEF FactsLaneEnds
  <2>2. CASE wpc' = [wpc EXCEPT ![w] = "derived"] /\ UNCHANGED proj
    <3>1. wpc'[w] = "derived"  BY <1>0, <2>2 DEF BufferTypes
    <3>2. TablesInv' /\ Grows  BY <1>0, <2>1, <2>2, TablesStay, FaultNat
    <3> QED BY <1>7, <2>2, <3>1, <3>2
  <2>3. CASE proj' = [proj EXCEPT ![w] = c]
    <3>1. ids \subseteq Matches
      <4>1. \A r \in Lane(w, "derived") : r \in Rows  BY DEF Lane, TaskOf
      <4> QED BY <4>1, MatchType DEF MatchesOf
    <3> HIDE DEF ids
    <3>2. C \subseteq Matches /\ \A m \in C : "facts" \in stages[m]
      BY <1>10, <3>1 DEF Candidates
    <3> HIDE DEF C
    <3>3. c \in Calls  BY <3>1, <3>2, NewCallTypes
    <3>4. c.pc = "batch" /\ c.left = C  BY DEF Idle
    <3> HIDE DEF c
    <3> QED BY <1>8, <2>1, <2>3, <3>2, <3>3, <3>4
  <2> QED BY <1>11, <2>2, <2>3 DEF FactsLaneEnds
<1>12. CASE AdaptiveChunk(w)
  <2>1. PICK S \in SUBSET proj[w].left :
          /\ CumulativeBatch(S, proj[w].stage)
          /\ proj' = [proj EXCEPT ![w].left = @ \ S]
    BY <1>12 DEF AdaptiveChunk
  <2>2. proj[w].pc = "batch" /\ UNCHANGED <<mstatus, faults>>  BY <1>9, <1>12 DEF AdaptiveChunk
  <2>3. /\ TablesInv' /\ Grows /\ proj'[w].pc = "batch"
        /\ \A q \in Projectors \ {w} : proj'[q] = proj[q]
    BY <1>0, <2>1, <2>2, ChunkTables
  <2> QED BY <1>7, <2>3
<1>13. CASE AdaptiveFallback(w)
  <2>1. PICK m \in proj[w].left : proj' = [proj EXCEPT ![w].left = @ \ {m}]
    BY <1>13 DEF AdaptiveFallback
  <2>2. proj[w].pc = "batch" /\ proj[w].left \in SUBSET Matches  BY <1>0, <1>9, <1>13 DEF AdaptiveFallback, Calls
  <2>3. \A q \in proj[w].left : "facts" \in stages[q]  BY <1>0, <2>2 DEF TablesInv, FactsFirst
  <2> DEFINE c == [proj[w] EXCEPT !.left = proj[w].left \ {m}]
  <2>4. proj' = [proj EXCEPT ![w] = c]  BY <2>1
  <2>5. c \in Calls /\ c.pc = "batch" /\ c.left \subseteq proj[w].left
    <3>1. c \in Calls  BY <1>0, <2>2, CallTypes
    <3>2. c.pc = proj[w].pc /\ c.left = proj[w].left \ {m}  BY <1>0 DEF Calls
    <3> QED BY <2>2, <3>1, <3>2
  <2> HIDE DEF c
  <2> QED BY <1>8, <1>13, <2>3, <2>4, <2>5 DEF AdaptiveFallback
<1>14. CASE AdaptiveScalable(w)
  <2> DEFINE L == {m \in proj[w].ids : /\ "performance_projections" \in stages[m]
                                       /\ "scalable_stats" \notin stages[m]}
             c == [proj[w] EXCEPT !.stage = "scalable_stats", !.left = L]
  <2>1. proj[w].pc = "batch" /\ proj[w].ids \in SUBSET Matches
    BY <1>0, <1>9, <1>14 DEF AdaptiveScalable, Calls
  <2>2. L \in SUBSET Matches /\ \A m \in L : "facts" \in stages[m]  BY <1>10, <2>1
  <2>3. proj' = [proj EXCEPT ![w] = c]  BY <1>14 DEF AdaptiveScalable
  <2> HIDE DEF L
  <2>4. c \in Calls /\ c.pc = "batch" /\ c.left = L
    <3>1. c \in Calls  BY <1>0, <2>2, CallTypes
    <3>2. c.pc = proj[w].pc /\ c.left = L  BY <1>0 DEF Calls
    <3> QED BY <2>1, <3>1, <3>2
  <2> HIDE DEF c
  <2> QED BY <1>8, <1>14, <2>2, <2>3, <2>4 DEF AdaptiveScalable
<1>15. CASE AdaptiveEnds(w) \/ AdaptiveError(w)
  <2>1. wpc'[w] = "derived"  BY <1>0, <1>15 DEF AdaptiveEnds, AdaptiveError, BufferTypes
  <2>2. Idle \in Calls /\ Idle.pc = "idle"  BY IdleType DEF Idle
  <2> QED BY <1>8, <1>15, <2>1, <2>2 DEF AdaptiveEnds, AdaptiveError
<1> QED BY <1>11, <1>12, <1>13, <1>14, <1>15

\* project_match runs for the row that waits for it; a quiesce or a restart
\* only sets should_stop.
LEMMA ProjectStep ==
    ASSUME BufferInv, NEW w \in Workers,
           \/ (ProjectMatch(w) \/ ProjectFails(w)) /\ UNCHANGED <<bvars, wvars>>
           \/ Quiesce(w) \/ Restart(w)
    PROVE  BufferInv'
<1>0. /\ TablesInv /\ BufferTypes /\ w \in Projectors /\ proj[w] \in Calls
      /\ proj \in [Projectors -> Calls]
  BY WorkerProjects DEF BufferInv, TablesInv, ProjectionTypeOK
<1>1. UNCHANGED <<status, retry, ready, stale, wpc, facts, task>> /\ stop' \subseteq Workers
  BY <1>0 DEF bvars, wvars, Quiesce, Restart, BufferTypes
<1>2. /\ TablesInv' /\ Grows
      /\ \A q \in Projectors \ {w} : proj'[q] = proj[q]
      /\ proj'[w].ids = proj[w].ids
      /\ proj[w].pc = "batch" => proj'[w].pc = "batch"
  <2>1. CASE ProjectMatch(w)
    <3>1. Caller(w)  BY <2>1 DEF Caller
    <3> QED BY <1>0, <2>1, <3>1, CallerTables, ProjectMatchCalls
  <2>2. CASE ProjectFails(w)
    <3>1. Caller(w)  BY <2>2 DEF Caller
    <3>2. proj'[w].ids = proj[w].ids /\ proj[w].pc # "batch"
      BY <1>0, <2>2 DEF ProjectFails, Calls
    <3> QED BY <1>0, <3>1, <3>2, CallerTables
  <2>3. CASE Quiesce(w) \/ Restart(w)
    <3>1. UNCHANGED <<stages, mstatus, counted, ledger, proj>> /\ (Fault \/ UNCHANGED faults)
      BY <2>3 DEF Quiesce, Restart, pvars
    <3> QED BY <1>0, <3>1, TablesStay, FaultNat
  <2> QED BY <2>1, <2>2, <2>3
<1>3. WorkerFollows(w)
  <2>1. \A r \in Rows : TaskFits(w, r)'  BY <1>1, <1>2, TaskStays
  <2>2. OneAtATime(w)'  BY <1>1 DEF BufferInv, WorkersInv, OneAtATime, Busy
  <2> QED BY <1>1, <1>2, <2>1, <2>2 DEF WorkerFollows, BufferInv, WorkersInv
<1>4. BufferTypes'  BY <1>0, <1>1 DEF BufferTypes
<1>5. RowsFollow  BY <1>1, RowsStay
<1>6. \A v \in Workers \ {w} : task'[v] = task[v] /\ wpc'[v] = wpc[v] /\ proj'[v] = proj[v]
  BY <1>1, <1>2, WorkerProjects
<1> QED BY <1>2, <1>3, <1>4, <1>5, <1>6, WorkerTogether

----------------------------------------------------------------------------
(* The theorems *)

LEMMA BufferInit == Init => BufferInv
<1> SUFFICES ASSUME Init PROVE BufferInv
  OBVIOUS
<1>1. PInit  BY DEF Init
<1>2. TablesInv
  <2>1. ProjectionTypeOK /\ CountedAtMostOnce  BY <1>1, PInitType, PInitCounts
  <2>2. StageMeansCounted
    <3> SUFFICES ASSUME NEW s \in Cumulative, NEW m \in Matches \ Limited
                 PROVE  s \notin stages[m] /\ m \notin ledger[s]
      BY DEF StageMeansCounted
    <3> QED BY <1>1, StageTypes DEF PInit, Cumulative
  <2>3. CompleteMeansProjected  BY <1>1 DEF PInit, CompleteMeansProjected
  <2>4. FactsFirst  BY <1>1 DEF PInit, FactsFirst, Idle
  <2>5. CallsTrue /\ LimitedTrue  BY <1>1 DEF PInit, CallsTrue, LimitedTrue, Idle
  <2> QED BY <2>1, <2>2, <2>3, <2>4, <2>5 DEF TablesInv
<1>3. BufferTypes
  <2>1. status \in [Rows -> Statuses]  BY DEF Init, Statuses
  <2>2. retry \in [Rows -> 0 .. MaxRetries]  BY RawBufferAssumption DEF Init
  <2>3. task \in [Workers -> [Rows -> Tasks]]  BY NoTaskType DEF Init
  <2> QED BY <2>1, <2>2, <2>3 DEF Init, BufferTypes, Phases
<1>4. WorkersInv
  <2>1. \A w \in Workers, r \in Rows : task[w][r].pc = "none"  BY DEF Init, NoTask
  <2>2. \A w \in Workers : wpc[w] = "idle"  BY DEF Init
  <2> QED BY <2>1, <2>2 DEF WorkersInv, TaskFits, OneAtATime, Busy
<1>5. RowsAreHonest
  <2>1. \A r \in Rows : status[r] = "processed" => r \in OldRows  BY DEF Init
  <2>2. \A r \in Rows : status[r] # "failed" /\ ready[r]  BY DEF Init
  <2> QED BY <2>1, <2>2 DEF RowsAreHonest, ProcessedMeansProjected, FailedMeansExhausted,
                            DelayedRowsHaveFacts
<1> QED BY <1>2, <1>3, <1>4, <1>5 DEF BufferInv

LEMMA BufferNext == BufferInv /\ [Next]_vars => BufferInv'
<1> SUFFICES ASSUME BufferInv, [Next]_vars PROVE BufferInv'
  OBVIOUS
<1>1. CASE Table  BY <1>1, TableStep DEF Table
<1>2. CASE Others  BY <1>2, OthersStep DEF Others
<1>3. ASSUME NEW w \in Workers, NEW r \in Rows, RowStep(w, r) \/ QuotaPause(w, r)
      PROVE  BufferInv'
  BY <1>3, LeaveStep, MoveStep, RowErrorStep DEF RowStep
<1>4. ASSUME NEW w \in Workers, WorkerStep(w) \/ Mishap(w) PROVE BufferInv'
  BY <1>3, <1>4, StartStep, ClaimStep, EndStep, AdaptiveStep, ProjectStep DEF WorkerStep, Mishap
<1>5. CASE UNCHANGED vars
  <2>1. /\ UNCHANGED <<stages, mstatus, counted, ledger, proj, faults>>
        /\ UNCHANGED <<status, retry, ready, stale, wpc, facts, task, stop>>
    BY <1>5 DEF vars
  <2>2. TablesInv /\ BufferTypes  BY DEF BufferInv
  <2>3. TablesInv' /\ Grows  BY <2>1, <2>2, TablesStay, FaultNat
  <2>4. BufferTypes'  BY <2>1, <2>2 DEF BufferTypes
  <2>5. RowsFollow  BY <2>1, RowsStay
  <2>6. \A v \in Workers \ {} : task'[v] = task[v] /\ wpc'[v] = wpc[v] /\ proj'[v] = proj[v]
    BY <2>1
  <2>7. {} \in SUBSET Workers /\ \A w \in {} : WorkerFollows(w)  OBVIOUS
  <2> QED BY <2>3, <2>4, <2>5, <2>6, <2>7, Together
<1> QED BY <1>1, <1>2, <1>4, <1>5 DEF Next

\* The buffer, its workers and the tables keep their types.
THEOREM BufferTypeCorrect == Spec => []TypeOK
<1>1. BufferInv => TypeOK  BY DEF BufferInv, BufferTypes, TablesInv, TypeOK
<1> QED BY <1>1, BufferInit, BufferNext, PTL DEF Spec

\* What a row of the buffer says is so, for any number of workers that write
\* rows by id alone, whichever of them lost a lease, crashed or was quiesced:
\* processed means projected, failed means exhausted, and only a row whose
\* facts are durable is put off.
THEOREM RowsHonest == Spec => []RowsAreHonest
<1>1. BufferInv => RowsAreHonest  BY DEF BufferInv
<1> QED BY <1>1, BufferInit, BufferNext, PTL DEF Spec

\* No match is counted twice and no recorded stage is a lie with the buffer's
\* workers, their set-based lane included, beside the other projectors.
THEOREM BufferCountsOnce == Spec => [](CountedAtMostOnce /\ StagesAreTrue)
<1>1. BufferInv => CountedAtMostOnce /\ StagesAreTrue
  BY DEF BufferInv, TablesInv, StagesAreTrue
<1> QED BY <1>1, BufferInit, BufferNext, PTL DEF Spec
=============================================================================
