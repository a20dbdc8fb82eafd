----------------------------- MODULE RawBuffer -----------------------------
(***************************************************************************)
(* The worker side of raw_ingest_buffer: batches that recover stale        *)
(* leases, claim pending rows, persist match facts concurrently and        *)
(* project matches one after the other.  The tables a match is projected   *)
(* into, and the other processes that project matches, are those of        *)
(* RankedProjection.                                                       *)
(*                                                                         *)
(* A claim carries no token: the row only says 'processing'.  A worker     *)
(* whose lease went stale goes on, and the statements that end its work    *)
(* name the row by id alone.                                               *)
(***************************************************************************)
EXTENDS RankedProjection

CONSTANTS
    Rows,         \* ids of raw_ingest_buffer
    MatchOf,      \* entity_id of a row of entity_type 'match'
    NoMatch,      \* MatchOf of a row of another entity_type
    BadRows,      \* rows whose payload every attempt rejects
    Unsupported,  \* rows of an entity_type that process_row does not know
    OldRows,      \* rows of Legacy matches, processed by the earlier writer
    Workers,      \* processes that run process_raw_buffer_batch_inner
    BatchSize,    \* LIMIT of claim_rows
    MaxRetries,   \* MAX_RETRIES
    Casts         \* bound: the rows, matches and processes of a behaviour

ASSUME RawBufferAssumption ==
    /\ NoMatch \notin Matches
    /\ MatchOf \in [Rows -> Matches \cup {NoMatch}]
    /\ BadRows \subseteq Rows
    /\ Unsupported \subseteq {r \in Rows : MatchOf[r] = NoMatch}
    /\ OldRows \subseteq {r \in Rows : MatchOf[r] \in Legacy}
    /\ Workers \subseteq Projectors
    /\ BatchSize \in Nat \ {0}
    /\ MaxRetries \in Nat \ {0}
    /\ Casts \subseteq SUBSET (Rows \cup Matches \cup Projectors)

VARIABLES
    status,  \* per row, its status; "new" before the insert, "gone" after the delete
    retry,   \* per row, retry_count up to MaxRetries
    ready,   \* per row, available_at <= now()
    stale,   \* per row, processed_at is older than fifteen minutes
    wpc,     \* per worker, where its batch stands
    facts,   \* per worker, has_pending_match_facts as its claim read it
    task,    \* per worker and row, the worker's copy of the claimed row
    stop,    \* workers whose should_stop is set
    cast     \* one of Casts

bvars == <<status, retry, ready, stale>>
wvars == <<wpc, facts, task, stop, cast>>
vars == <<stages, mstatus, counted, ledger, proj, faults,
          status, retry, ready, stale, wpc, facts, task, stop, cast>>

Statuses == {"new", "pending", "processing", "processed", "failed", "gone"}

Phases == {"idle", "requeue", "lane", "claim", "facts", "adaptive", "derived"}

\* What a task does next.  "stored": the facts lane has its facts; "waiting":
\* project_match runs; "erring": process_row returned an error; the last three
\* name the outcome mark_failed_or_deferred is about to write.
Positions == {"none", "claimed", "held", "stored", "waiting", "done", "erring",
              "terminal", "deferred", "delayed"}

Tasks == [pc : Positions, retry : 0 .. MaxRetries, lane : {"facts", "derived"}]

NoTask == [pc |-> "none", retry |-> 0, lane |-> "facts"]

\* retry_count is only compared with MAX_RETRIES and MAX_RETRIES - 1, so it is
\* kept up to MAX_RETRIES.
Bump(n) == IF n < MaxRetries THEN n + 1 ELSE n

IsMatch(r) == MatchOf[r] # NoMatch

\* match_facts_are_durable
Durable(r) == IsMatch(r) /\ FactsDurable(MatchOf[r])

Active(r) == status[r] \in {"pending", "processing"}

\* uq_rib_active_match_entity lets row r become active.
MayActivate(r) ==
    IsMatch(r) => \A q \in Rows \ {r} : MatchOf[q] = MatchOf[r] => ~Active(q)


\* The subquery of claim_rows and has_pending_match_facts.
PendingFacts == \E r \in Rows : status[r] = "pending" /\ IsMatch(r) /\ ~Durable(r)

TaskOf(w) == {r \in Rows : task[w][r].pc # "none"}

Lane(w, l) == {r \in TaskOf(w) : task[w][r].lane = l}

MatchesOf(R) == {MatchOf[r] : r \in {q \in R : IsMatch(q)}}

Init ==
    /\ PInit
    /\ cast \in Casts
    /\ status = [r \in Rows |-> IF r \notin cast THEN "gone"
                                ELSE IF r \in OldRows THEN "processed" ELSE "new"]
    /\ retry = [r \in Rows |-> 0]
    /\ ready = [r \in Rows |-> TRUE]
    /\ stale = [r \in Rows |-> FALSE]
    /\ wpc = [w \in Workers |-> "idle"]
    /\ facts = [w \in Workers |-> FALSE]
    /\ task = [w \in Workers |-> [r \in Rows |-> NoTask]]
    /\ stop = {}

----------------------------------------------------------------------------
(* The table *)

\* A payload is inserted: dump_raw_payloads skips a match with an active row
\* and one that is complete or limited, the operators' commands only meet the
\* unique index.
Insert(r) ==
    /\ status[r] = "new"
    /\ MayActivate(r)
    /\ status' = [status EXCEPT ![r] = "pending"]
    /\ UNCHANGED <<pvars, retry, ready, stale, wvars>>

\* available_at passes now().
BecomesReady(r) ==
    /\ ~ready[r]
    /\ ready' = [ready EXCEPT ![r] = TRUE]
    /\ UNCHANGED <<pvars, status, retry, stale, wvars>>

\* Fifteen minutes without a renewal.  It counts as a fault while a live
\* worker still has the row.
LeaseExpires(r) ==
    /\ status[r] = "processing"
    /\ ~stale[r]
    /\ IF \E w \in Workers : task[w][r].pc # "none" THEN Fault ELSE UNCHANGED faults
    /\ stale' = [stale EXCEPT ![r] = TRUE]
    /\ UNCHANGED <<stages, mstatus, counted, ledger, proj, status, retry, ready, wvars>>

\* delete_retained: after its batch, from the schedule or from the admin route.
Retain(r) ==
    /\ status[r] \in {"processed", "failed"}
    /\ status' = [status EXCEPT ![r] = "gone"]
    /\ UNCHANGED <<pvars, retry, ready, stale, wvars>>

\* An UPDATE ... WHERE id=$1: it changes nothing once the row is deleted.
SetStatus(r, s) ==
    status' = [status EXCEPT ![r] = IF @ = "gone" THEN @ ELSE s]

\* return_claims_to_pending
ReturnClaims(R) ==
    /\ status' = [r \in Rows |-> IF r \in R /\ status[r] = "processing"
                                 THEN "pending" ELSE status[r]]
    /\ UNCHANGED <<retry, ready, stale>>

\* renew_claimed_rows
Renew(R) ==
    stale' = [r \in Rows |-> IF r \in R /\ status[r] = "processing"
                             THEN FALSE ELSE stale[r]]

Drop(w, R) ==
    task' = [task EXCEPT ![w] = [r \in Rows |-> IF r \in R THEN NoTask ELSE @[r]]]

Goto(w, r, pc) == task' = [task EXCEPT ![w][r].pc = pc]

----------------------------------------------------------------------------
(* The start of a batch *)

\* The CASE of recover_stale_leases_for.
Recovered(r) ==
    IF Durable(r) THEN "pending"
    ELSE IF retry[r] >= MaxRetries - 1 THEN "failed" ELSE "pending"

\* A batch starts with should_stop clear and recovers the stale leases.
RecoverStaleLeases(w) ==
    /\ wpc[w] = "idle" /\ w \in cast
    /\ w \notin stop
    /\ LET R == {r \in Rows : status[r] = "processing" /\ stale[r]}
       IN /\ status' = [r \in Rows |-> IF r \in R THEN Recovered(r) ELSE status[r]]
          /\ retry' = [r \in Rows |-> IF r \in R THEN Bump(retry[r]) ELSE retry[r]]
          /\ ready' = [r \in Rows |-> IF r \in R /\ Durable(r) THEN FALSE ELSE ready[r]]
          /\ stale' = [r \in Rows |-> r \notin R /\ stale[r]]
    /\ wpc' = [wpc EXCEPT ![w] = "requeue"]
    /\ UNCHANGED <<pvars, facts, task, stop, cast>>

\* The rows requeue_incomplete_ranked_projections selects.
Incomplete ==
    {r \in Rows : /\ status[r] = "processed"
                  /\ IsMatch(r)
                  /\ {"facts", "ranked_stats"} \subseteq stages[MatchOf[r]]
                  /\ ~(Required \subseteq stages[MatchOf[r]])}

\* The UPDATE meets the unique index: the batch returns the error.
RequeueConflict(w) ==
    /\ wpc[w] = "requeue"
    /\ \E r \in Incomplete :
         \/ ~MayActivate(r)
         \/ \E q \in Incomplete \ {r} : MatchOf[q] = MatchOf[r]
    /\ wpc' = [wpc EXCEPT ![w] = "idle"]
    /\ UNCHANGED <<pvars, bvars, facts, task, stop, cast>>

RequeueIncomplete(w) ==
    /\ wpc[w] = "requeue"
    /\ \A r \in Incomplete :
         /\ MayActivate(r)
         /\ \A q \in Incomplete \ {r} : MatchOf[q] # MatchOf[r]
    /\ status' = [r \in Rows |-> IF r \in Incomplete THEN "pending" ELSE status[r]]
    /\ ready' = [r \in Rows |-> r \in Incomplete \/ ready[r]]
    /\ wpc' = [wpc EXCEPT ![w] = "lane"]
    /\ UNCHANGED <<pvars, retry, stale, facts, task, stop, cast>>

\* The first query of claim_rows.
ReadLane(w) ==
    /\ wpc[w] = "lane"
    /\ facts' = [facts EXCEPT ![w] = PendingFacts]
    /\ wpc' = [wpc EXCEPT ![w] = "claim"]
    /\ UNCHANGED <<pvars, bvars, task, stop, cast>>

\* The priority of a row in claim_rows.  Fact rows to recover (0) are not told
\* apart from other fact rows, histories (4) not from other entities.
Priority(r) == IF ~IsMatch(r) THEN 2 ELSE IF Durable(r) THEN 3 ELSE 1

\* The CTE eligible.  The index leaves no second active row of a match, so
\* neither in_flight nor the deduplication removes anything.
Eligible(w) ==
    {r \in Rows : /\ status[r] = "pending"
                  /\ ready[r]
                  /\ facts[w] => IsMatch(r) /\ ~Durable(r)}

\* The claiming statement: the first BatchSize rows by priority.
ClaimRows(w) ==
    /\ wpc[w] = "claim"
    /\ \E C \in SUBSET Eligible(w) :
         /\ C # {}
         /\ Cardinality(C) <= BatchSize
         /\ C # Eligible(w) => Cardinality(C) = BatchSize
         /\ \A r \in C, q \in Eligible(w) \ C : Priority(r) <= Priority(q)
         /\ status' = [r \in Rows |-> IF r \in C THEN "processing" ELSE status[r]]
         /\ stale' = [r \in Rows |-> r \notin C /\ stale[r]]
         /\ task' = [task EXCEPT ![w] = [r \in Rows |->
              IF r \in C
              THEN [pc |-> "claimed", retry |-> retry[r],
                    lane |-> IF Priority(r) = 1 THEN "facts" ELSE "derived"]
              ELSE NoTask]]
    /\ wpc' = [wpc EXCEPT ![w] = "facts"]
    /\ UNCHANGED <<pvars, retry, ready, facts, stop, cast>>

ClaimNothing(w) ==
    /\ wpc[w] = "claim"
    /\ Eligible(w) = {}
    /\ wpc' = [wpc EXCEPT ![w] = "idle"]
    /\ UNCHANGED <<pvars, bvars, facts, task, stop, cast>>

----------------------------------------------------------------------------
(* process_claimed_row *)

\* should_stop is set after the claim: every claim goes back.
StopAfterClaim(w) ==
    /\ wpc[w] = "facts"
    /\ w \in stop
    /\ \A r \in TaskOf(w) : task[w][r].pc = "claimed"
    /\ ReturnClaims(TaskOf(w))
    /\ Drop(w, Rows)
    /\ wpc' = [wpc EXCEPT ![w] = "idle"]
    /\ UNCHANGED <<pvars, facts, stop, cast>>

\* A row of the facts lane that has not started goes back.
StopFactRow(w, r) ==
    /\ wpc[w] = "facts"
    /\ w \in stop
    /\ task[w][r].pc = "claimed"
    /\ task[w][r].lane = "facts"
    /\ ReturnClaims({r})
    /\ Drop(w, {r})
    /\ UNCHANGED <<pvars, wpc, facts, stop, cast>>

\* The loops reach row r: all fact rows at once, derived rows one by one and
\* only while no fact row is pending.
Reached(w, r) ==
    /\ task[w][r].pc = "claimed"
    /\ w \notin stop
    /\ \/ wpc[w] = "facts" /\ task[w][r].lane = "facts"
       \/ /\ wpc[w] = "derived"
          /\ ~PendingFacts
          /\ \A q \in Lane(w, "derived") : task[w][q].pc = "claimed"

\* renew_claimed_row finds the row 'processing', for this claim or another.
RenewClaim(w, r) ==
    /\ Reached(w, r)
    /\ status[r] = "processing"
    /\ Renew({r})
    /\ Goto(w, r, "held")
    /\ UNCHANGED <<pvars, status, retry, ready, wpc, facts, stop, cast>>

\* It does not: the row is left alone.
LoseClaim(w, r) ==
    /\ Reached(w, r)
    /\ status[r] # "processing"
    /\ Drop(w, {r})
    /\ UNCHANGED <<pvars, bvars, wpc, facts, stop, cast>>

\* No usable API key and a payload that needs recovery: back to pending.
QuotaPause(w, r) ==
    /\ task[w][r].pc = "held"
    /\ IsMatch(r)
    /\ MayActivate(r)
    /\ Fault
    /\ SetStatus(r, "pending")
    /\ Drop(w, {r})
    /\ UNCHANGED <<stages, mstatus, counted, ledger, proj, retry, ready, stale, wpc, facts, stop, cast>>

\* persist_match with facts_only
PersistFacts(w, r) ==
    /\ task[w][r].pc = "held"
    /\ task[w][r].lane = "facts"
    /\ r \notin BadRows
    /\ Finalize(MatchOf[r])
    /\ Goto(w, r, "stored")
    /\ UNCHANGED <<counted, ledger, proj, faults, bvars, wpc, facts, stop, cast>>

\* persist_match of the derived lane, up to the call of project_match
PersistMatch(w, r) ==
    /\ task[w][r].pc = "held"
    /\ task[w][r].lane = "derived"
    /\ IsMatch(r)
    /\ r \notin BadRows
    /\ Finalize(MatchOf[r])
    /\ Begin(w, MatchOf[r])
    /\ Goto(w, r, "waiting")
    /\ UNCHANGED <<counted, ledger, faults, bvars, wpc, facts, stop, cast>>

\* The other entity types upsert their payload.
PersistOther(w, r) ==
    /\ task[w][r].pc = "held"
    /\ ~IsMatch(r)
    /\ r \notin BadRows \cup Unsupported
    /\ Goto(w, r, "done")
    /\ UNCHANGED <<pvars, bvars, wpc, facts, stop, cast>>

PersistFails(w, r) ==
    /\ task[w][r].pc = "held"
    /\ IF r \in BadRows \cup Unsupported THEN UNCHANGED faults ELSE Fault
    /\ Goto(w, r, "erring")
    /\ UNCHANGED <<stages, mstatus, counted, ledger, proj, bvars, wpc, facts, stop, cast>>


\* project_match returns: an error keeps the row as projection debt.
ProjectionReturns(w, r) ==
    /\ task[w][r].pc = "waiting"
    /\ proj[w].pc \in {"ok", "err"}
    /\ proj' = [proj EXCEPT ![w] = Idle]
    /\ Goto(w, r, IF proj[w].pc = "ok" THEN "done" ELSE "erring")
    /\ UNCHANGED <<stages, mstatus, counted, ledger, faults, bvars, wpc, facts, stop, cast>>

\* The facts lane ends: a limited match needs no projection, any other one
\* waits for the derived lane.
StoredFacts(w, r) ==
    /\ task[w][r].pc = "stored"
    /\ IF mstatus[MatchOf[r]] = "limited"
       THEN SetStatus(r, "processed")
       ELSE MayActivate(r) /\ SetStatus(r, "pending")
    /\ Drop(w, {r})
    /\ UNCHANGED <<pvars, retry, ready, stale, wpc, facts, stop, cast>>

MarkProcessed(w, r) ==
    /\ task[w][r].pc = "done"
    /\ SetStatus(r, "processed")
    /\ Drop(w, {r})
    /\ UNCHANGED <<pvars, retry, ready, stale, wpc, facts, stop, cast>>

\* retry >= MAX_RETRIES || Unsupported, with the count read at the claim
Exhausted(w, r) == Bump(task[w][r].retry) = MaxRetries \/ r \in Unsupported

\* The error branch reads match_facts_are_durable and decides.
ReadDurable(w, r) ==
    /\ task[w][r].pc = "erring"
    /\ Goto(w, r, IF Durable(r) THEN "delayed"
                  ELSE IF Exhausted(w, r) THEN "terminal" ELSE "deferred")
    /\ UNCHANGED <<pvars, bvars, wpc, facts, stop, cast>>

\* Mutant: every deferred row is delayed.
DelayAlways(w, r) == TRUE

\* available_at moves only when the facts were durable.
Delays(w, r) == task[w][r].pc = "delayed"

\* mark_failed_or_deferred: by id alone, whatever the row's status is by now.
MarkFailedOrDeferred(w, r) ==
    /\ task[w][r].pc \in {"terminal", "deferred", "delayed"}
    /\ task[w][r].pc # "terminal" => MayActivate(r)
    /\ SetStatus(r, IF task[w][r].pc = "terminal" THEN "failed" ELSE "pending")
    /\ retry' = [retry EXCEPT ![r] = Bump(task[w][r].retry)]
    /\ ready' = [ready EXCEPT ![r] = IF Delays(w, r) THEN FALSE ELSE @]
    /\ Drop(w, {r})
    /\ UNCHANGED <<pvars, stale, wpc, facts, stop, cast>>

\* A statement outside process_row fails, or makes the row active against the
\* unique index.  The facts lane returns this row, the derived lane all that
\* are left and ends the batch; the return may fail as well.
RowError(w, r) ==
    /\ task[w][r].pc \notin {"none", "waiting"}
    /\ task[w][r].pc = "claimed" => Reached(w, r)
    /\ IF task[w][r].pc \in {"stored", "deferred", "delayed"} /\ ~MayActivate(r)
       THEN UNCHANGED faults ELSE Fault
    /\ LET R == IF task[w][r].lane = "facts" THEN {r} ELSE Lane(w, "derived")
       IN /\ ReturnClaims(R) \/ UNCHANGED bvars
          /\ Drop(w, R)
    /\ wpc' = [wpc EXCEPT ![w] = IF task[w][r].lane = "facts" THEN @ ELSE "idle"]
    /\ UNCHANGED <<stages, mstatus, counted, ledger, proj, facts, stop, cast>>

----------------------------------------------------------------------------
(* The derived lane *)

\* The facts lane has ended.  Two matches or more are first projected in sets.
FactsLaneEnds(w) ==
    /\ wpc[w] = "facts"
    /\ Lane(w, "facts") = {}
    /\ LET ids == MatchesOf(Lane(w, "derived"))
       IN IF Cardinality(ids) < 2
          THEN wpc' = [wpc EXCEPT ![w] = "derived"] /\ UNCHANGED proj
          ELSE /\ wpc' = [wpc EXCEPT ![w] = "adaptive"]
               /\ proj' = [proj EXCEPT ![w] =
                    [Idle EXCEPT !.pc = "batch", !.ids = ids,
                     !.left = Candidates(ids, "performance_projections")]]
    /\ Renew(Lane(w, "derived"))
    /\ UNCHANGED <<stages, mstatus, counted, ledger, faults, status, retry, ready,
                   facts, task, stop, cast>>

\* A chunk commits; its rows were renewed before.
AdaptiveChunk(w) ==
    /\ wpc[w] = "adaptive"
    /\ \E S \in SUBSET proj[w].left :
         /\ S # {}
         /\ CumulativeBatch(S, proj[w].stage)
         /\ proj' = [proj EXCEPT ![w].left = @ \ S]
         /\ Renew({r \in Lane(w, "derived") : MatchOf[r] \in S})
    /\ UNCHANGED <<mstatus, faults, status, retry, ready, wvars>>

\* A chunk fails down to a single match, which is left to project_match.
AdaptiveFallback(w) ==
    /\ wpc[w] = "adaptive"
    /\ Fault
    /\ \E m \in proj[w].left : proj' = [proj EXCEPT ![w].left = @ \ {m}]
    /\ UNCHANGED <<stages, mstatus, counted, ledger, bvars, wvars>>

AdaptiveScalable(w) ==
    /\ wpc[w] = "adaptive"
    /\ proj[w].left = {}
    /\ proj[w].stage = "performance_projections"
    /\ proj' = [proj EXCEPT ![w].stage = "scalable_stats",
                   ![w].left = {m \in proj[w].ids :
                                  /\ "performance_projections" \in stages[m]
                                  /\ "scalable_stats" \notin stages[m]}]
    /\ Renew(Lane(w, "derived"))
    /\ UNCHANGED <<stages, mstatus, counted, ledger, faults, status, retry, ready, wvars>>

AdaptiveEnds(w) ==
    /\ wpc[w] = "adaptive"
    /\ proj[w].left = {}
    /\ proj[w].stage = "scalable_stats"
    /\ proj' = [proj EXCEPT ![w] = Idle]
    /\ wpc' = [wpc EXCEPT ![w] = "derived"]
    /\ UNCHANGED <<stages, mstatus, counted, ledger, faults, bvars, facts, task, stop, cast>>

\* Its setup fails: every row takes the per-match path.
AdaptiveError(w) ==
    /\ wpc[w] = "adaptive"
    /\ Fault
    /\ proj' = [proj EXCEPT ![w] = Idle]
    /\ wpc' = [wpc EXCEPT ![w] = "derived"]
    /\ UNCHANGED <<stages, mstatus, counted, ledger, bvars, facts, task, stop, cast>>

\* should_stop, or a fact row arrived: what is left goes back.
YieldDerived(w) ==
    /\ wpc[w] = "derived"
    /\ Lane(w, "derived") # {}
    /\ \A r \in Lane(w, "derived") : task[w][r].pc = "claimed"
    /\ w \in stop \/ PendingFacts
    /\ ReturnClaims(Lane(w, "derived"))
    /\ Drop(w, Rows)
    /\ wpc' = [wpc EXCEPT ![w] = "idle"]
    /\ UNCHANGED <<pvars, facts, stop, cast>>

BatchEnds(w) ==
    /\ wpc[w] = "derived"
    /\ Lane(w, "derived") = {}
    /\ wpc' = [wpc EXCEPT ![w] = "idle"]
    /\ UNCHANGED <<pvars, bvars, facts, task, stop, cast>>

----------------------------------------------------------------------------
(* Quiescing and crashes *)

Quiesce(w) ==
    /\ wpc[w] # "idle"
    /\ w \notin stop
    /\ Fault
    /\ stop' = stop \cup {w}
    /\ UNCHANGED <<stages, mstatus, counted, ledger, proj, bvars, wpc, facts, task, cast>>

\* The process ends and its successor starts with should_stop clear.
Restart(w) ==
    /\ wpc[w] = "idle"
    /\ w \in stop
    /\ stop' = stop \ {w}
    /\ UNCHANGED <<pvars, bvars, wpc, facts, task, cast>>

\* The process dies, or a query before the claim fails.
Crash(w) ==
    /\ wpc[w] # "idle"
    /\ Fault
    /\ Drop(w, Rows)
    /\ proj' = [proj EXCEPT ![w] = Idle]
    /\ wpc' = [wpc EXCEPT ![w] = "idle"]
    /\ stop' = stop \ {w}
    /\ UNCHANGED <<stages, mstatus, counted, ledger, bvars, facts, cast>>

----------------------------------------------------------------------------
RowStep(w, r) ==
    \/ StopFactRow(w, r)
    \/ RenewClaim(w, r)
    \/ LoseClaim(w, r)
    \/ PersistFacts(w, r)
    \/ PersistMatch(w, r)
    \/ PersistOther(w, r)
    \/ PersistFails(w, r)
    \/ ProjectionReturns(w, r)
    \/ StoredFacts(w, r)
    \/ MarkProcessed(w, r)
    \/ ReadDurable(w, r)
    \/ MarkFailedOrDeferred(w, r)
    \/ RowError(w, r)

WorkerStep(w) ==
    \/ RecoverStaleLeases(w)
    \/ RequeueConflict(w)
    \/ RequeueIncomplete(w)
    \/ ReadLane(w)
    \/ ClaimRows(w)
    \/ ClaimNothing(w)
    \/ StopAfterClaim(w)
    \/ FactsLaneEnds(w)
    \/ AdaptiveChunk(w)
    \/ AdaptiveScalable(w)
    \/ AdaptiveEnds(w)
    \/ YieldDerived(w)
    \/ BatchEnds(w)
    \/ Restart(w)
    \/ ProjectMatch(w) /\ UNCHANGED <<bvars, wvars>>
    \/ \E r \in Rows : RowStep(w, r)

\* What a worker or its process may do but need not.
Mishap(w) ==
    \/ ProjectFails(w) /\ UNCHANGED <<bvars, wvars>>
    \/ AdaptiveFallback(w)
    \/ AdaptiveError(w)
    \/ Quiesce(w)
    \/ Crash(w)
    \/ \E r \in Rows : QuotaPause(w, r)

Table ==
    \E r \in Rows : Insert(r) \/ BecomesReady(r) \/ LeaseExpires(r) \/ Retain(r)

\* The pipeline and the lookups.
Others ==
    /\ \E p \in (Projectors \ Workers) \cap cast :
         Caller(p) /\ proj'[p].ids \subseteq cast
    /\ UNCHANGED <<bvars, wvars>>

Next ==
    \/ Table
    \/ Others
    \/ \E w \in Workers : WorkerStep(w) \/ Mishap(w)

Spec == Init /\ [][Next]_vars

\* Time passes, the retention job comes round, and a running worker starts
\* batches (the schedule fires) and takes its next step.
Fairness ==
    /\ \A r \in Rows : /\ WF_vars(BecomesReady(r))
                     /\ WF_vars(LeaseExpires(r))
                     /\ WF_vars(Retain(r))
    /\ \A w \in Workers : WF_vars(WorkerStep(w))

FairSpec == Spec /\ Fairness

----------------------------------------------------------------------------
(* Properties *)

\* The variables keep their types.
TypeOK ==
    /\ ProjectionTypeOK
    /\ status \in [Rows -> Statuses]
    /\ retry \in [Rows -> 0 .. MaxRetries]
    /\ ready \in [Rows -> BOOLEAN]
    /\ stale \in [Rows -> BOOLEAN]
    /\ wpc \in [Workers -> Phases]
    /\ facts \in [Workers -> BOOLEAN]
    /\ task \in [Workers -> [Rows -> Tasks]]
    /\ stop \subseteq Workers

\* A row this worker marked processed is paid: its match is limited, with its
\* facts, or has all its stages.  This holds although a worker may mark a row
\* that another one has claimed since.
ProcessedMeansProjected ==
    \A r \in Rows \ OldRows :
        status[r] = "processed" /\ IsMatch(r) =>
            \/ Required \subseteq stages[MatchOf[r]]
            \/ MatchOf[r] \in Limited /\ Durable(r)

\* A row waits for its available_at only when the facts of its match are
\* durable.  PendingFacts ignores available_at, so a delayed fact row would
\* keep every worker from the derived lane while no one may claim it.
DelayedRowsHaveFacts == \A r \in Rows : ~ready[r] => Durable(r)

\* A row is given up only after MAX_RETRIES attempts, whichever workers made
\* them, or because its type is unknown.
FailedMeansExhausted ==
    \A r \in Rows : status[r] = "failed" => retry[r] = MaxRetries \/ r \in Unsupported

\* A match that project_match rejects every time: its durable facts keep a row
\* of it pending, to be tried again after a few minutes, without end.
Rejected(m) == m \in Limited \cup Ineligible



\* What a row of the buffer says is so, although every worker writes it by id
\* alone: processed means projected, failed means exhausted, and only a row
\* whose facts are durable is put off.
RowsAreHonest == ProcessedMeansProjected /\ FailedMeansExhausted /\ DelayedRowsHaveFacts
=============================================================================
