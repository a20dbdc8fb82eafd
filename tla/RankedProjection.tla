-------------------------- MODULE RankedProjection --------------------------
(***************************************************************************)
(* The ranked projections of a match: what match_ingest_status records of  *)
(* it, the two idempotency ledgers, and the processes that project it.     *)
(*                                                                         *)
(* A process in project_match takes one transaction for the base ranked    *)
(* counts and one for each cumulative stage, and may stop between any two  *)
(* of them.  Several processes may project the same match at the same      *)
(* time: the queue-hour pipeline, a direct lookup, the raw-buffer worker   *)
(* and the repair job share nothing but the tables.                        *)
(***************************************************************************)
EXTENDS Integers, FiniteSets

CONSTANTS
    Matches,      \* ranked matches, by id
    Limited,      \* the matches whose payload is marked limited
    Ineligible,   \* matches whose stored players never pass project_match's check
    Legacy,       \* matches an earlier writer left with only ranked_stats
    Projectors,   \* processes that call RankedProjectionRepository
    BoundFaults,  \* TRUE: errors and crashes are limited to FaultLimit
    FaultLimit

ASSUME ProjectionAssumption ==
    /\ Limited \subseteq Matches
    /\ Ineligible \subseteq Matches
    /\ Legacy \subseteq Matches \ Limited
    /\ BoundFaults \in BOOLEAN
    /\ FaultLimit \in Nat

VARIABLES
    stages,   \* match_ingest_status.completed_stages
    mstatus,  \* match_ingest_status.status
    counted,  \* how often each stage added the match to its aggregates
    ledger,   \* performance_projection_matches and stats_projection_matches
    proj,     \* per process, where its call into the repository stands
    faults    \* errors and crashes so far, when they are bounded

pvars == <<stages, mstatus, counted, ledger, proj, faults>>

\* "facts" stands for player_facts and match_bans, committed together.
Stages == {"facts", "ranked_stats", "performance_projections", "scalable_stats"}

Cumulative == {"performance_projections", "scalable_stats"}

Counts == {"ranked_stats"} \cup Cumulative

Required == {"ranked_stats", "performance_projections", "scalable_stats"}

\* "open" stands for processing, partial and failed, which nothing here tells
\* apart.
MatchStatuses == {"absent", "open", "limited", "complete"}

Calls == [pc : {"idle", "ranked", "cumulative", "batch", "ok", "err"},
          ids : SUBSET Matches, todo : SUBSET Cumulative,
          left : SUBSET Matches, stage : Cumulative]

Idle == [pc |-> "idle", ids |-> {}, todo |-> {}, left |-> {},
         stage |-> "performance_projections"]

FactsDurable(m) == "facts" \in stages[m]

\* A database error or a crash: one of FaultLimit when they are bounded.
Fault ==
    IF BoundFaults
    THEN faults < FaultLimit /\ faults' = faults + 1
    ELSE UNCHANGED faults

PInit ==
    /\ stages = [m \in Matches |->
                   IF m \in Legacy THEN {"facts", "ranked_stats"} ELSE {}]
    /\ mstatus \in [Matches -> {"absent", "open", "complete"}]
    /\ \A m \in Matches :
         mstatus[m] \in IF m \in Legacy THEN {"open", "complete"} ELSE {"absent"}
    /\ counted = [s \in Counts |->
                    [m \in Matches |->
                       IF m \in Legacy /\ s = "ranked_stats" THEN 1 ELSE 0]]
    /\ ledger = [s \in Cumulative |-> {}]
    /\ proj = [p \in Projectors |-> Idle]
    /\ faults = 0

----------------------------------------------------------------------------
(* Transactions *)

\* MatchFactRepository::finalize commits the facts of one payload.  A stage
\* that is already recorded is not written again.
Finalize(m) ==
    /\ stages' = [stages EXCEPT ![m] = @ \cup {"facts"}]
    /\ mstatus' = [mstatus EXCEPT ![m] =
                     IF @ \in {"complete", "limited"} THEN @
                     ELSE IF m \in Limited THEN "limited" ELSE "open"]

\* Mutant: the transaction forgets that ranked_stats may be there already.
CountAlways(m) == TRUE

\* The read of completed_stages under FOR UPDATE: the base counts are due.
CountDue(m) == "ranked_stats" \notin stages[m]

\* The eligibility query of project_match: ten stored players with a champion
\* and an outcome.  The facts of a match stay as they were stored, and the
\* quality checks let private players without them pass, so the answer for a
\* match never changes.  A match that has ranked_stats is not asked.
PlayersEligible(m) == CountDue(m) => m \notin Ineligible

\* Mutant: both projections claim from performance_projection_matches.
ClaimFromOneLedger(S, s) == (S \ Limited) \ ledger["performance_projections"]

\* The claim of project_performance_many and project_scalable_many: of the
\* requested matches, those new to the ledger.
Claim(S, s) == (S \ Limited) \ ledger[s]

\* project_cumulative_batch: one transaction that claims, counts what it
\* claimed and appends the stage to every requested match.
CumulativeBatch(S, s) ==
    /\ counted' = [counted EXCEPT ![s] =
                     [m \in Matches |-> IF m \in Claim(S, s) THEN @[m] + 1 ELSE @[m]]]
    /\ ledger' = [ledger EXCEPT ![s] = @ \cup Claim(S, s)]
    /\ stages' = [m \in Matches |->
                    IF m \in S THEN stages[m] \cup {s} ELSE stages[m]]

\* completed_stages @> the three ranked stages
Closable(m) == Required \subseteq stages[m]

\* The statement that ends finish_cumulative_stages and
\* complete_cumulative_stages_for_matches.
Close(S) ==
    mstatus' = [m \in Matches |->
                  IF m \in S /\ Closable(m) THEN "complete" ELSE mstatus[m]]

----------------------------------------------------------------------------
(* project_match *)

\* The call of project_match(m), made when the caller has seen facts.
Begin(p, m) ==
    proj' = [proj EXCEPT ![p] = [Idle EXCEPT !.pc = "ranked", !.ids = {m}]]

\* The base transaction.  Counting and ranked_stats commit together; a match
\* that has the stage goes on with the cumulative stages it lacks.
RankedTransaction(p) ==
    /\ proj[p].pc = "ranked"
    /\ \E m \in proj[p].ids \ Limited :
         /\ PlayersEligible(m)
         /\ counted' = IF CountDue(m)
                       THEN [counted EXCEPT !["ranked_stats"][m] = @ + 1]
                       ELSE counted
         /\ stages' = [stages EXCEPT ![m] = @ \cup {"ranked_stats"}]
         /\ proj' = [proj EXCEPT ![p].pc = "cumulative",
                                 ![p].todo = IF CountDue(m) THEN Cumulative
                                             ELSE Cumulative \ stages[m]]
    /\ UNCHANGED <<mstatus, ledger, faults>>

\* RankedProjectionError::Rejected: population.is_none(), for a limited match,
\* or its players are not eligible.  Every call for such a match ends like this.
Reject(p) ==
    /\ proj[p].pc = "ranked"
    /\ \E m \in proj[p].ids : m \in Limited \/ ~PlayersEligible(m)
    /\ proj' = [proj EXCEPT ![p].pc = "err"]
    /\ UNCHANGED <<stages, mstatus, counted, ledger, faults>>

\* finish_cumulative_stages: performance first, then scalable.
FinishStage(p) ==
    /\ proj[p].pc = "cumulative"
    /\ proj[p].todo # {}
    /\ LET s == IF "performance_projections" \in proj[p].todo
                THEN "performance_projections" ELSE "scalable_stats"
       IN /\ CumulativeBatch(proj[p].ids, s)
          /\ proj' = [proj EXCEPT ![p].todo = @ \ {s}]
    /\ UNCHANGED <<mstatus, faults>>

FinishClose(p) ==
    /\ proj[p].pc = "cumulative"
    /\ proj[p].todo = {}
    /\ Close(proj[p].ids)
    /\ proj' = [proj EXCEPT ![p].pc = "ok"]
    /\ UNCHANGED <<stages, counted, ledger, faults>>

\* A statement fails, or pg_try_advisory_xact_lock finds another transaction
\* with RATING_LOCK (Busy): the call returns an error, the transaction under
\* way rolls back.  Both pass, so they are faults.
ProjectFails(p) ==
    /\ proj[p].pc \in {"ranked", "cumulative"}
    /\ Fault
    /\ proj' = [proj EXCEPT ![p].pc = "err"]
    /\ UNCHANGED <<stages, mstatus, counted, ledger>>

ProjectMatch(p) ==
    RankedTransaction(p) \/ Reject(p) \/ FinishStage(p) \/ FinishClose(p)

----------------------------------------------------------------------------
(* Set-based completion and repair *)

\* cumulative_stage_candidates
Candidates(ids, s) ==
    {m \in ids \ Limited : "ranked_stats" \in stages[m] /\ s \notin stages[m]}

\* complete_cumulative_stages_for_matches reads its first candidates.
ResumeBegin(p, ids) ==
    /\ proj[p] = Idle
    /\ proj' = [proj EXCEPT ![p] =
                  [Idle EXCEPT !.pc = "batch", !.ids = ids,
                   !.left = Candidates(ids, "performance_projections")]]
    /\ UNCHANGED <<stages, mstatus, counted, ledger, faults>>

\* One chunk of the candidates read earlier, in a transaction of its own.
BatchChunk(p) ==
    /\ proj[p].pc = "batch"
    /\ \E S \in SUBSET proj[p].left :
         /\ S # {}
         /\ CumulativeBatch(S, proj[p].stage)
         /\ proj' = [proj EXCEPT ![p].left = @ \ S]
    /\ UNCHANGED <<mstatus, faults>>

\* The performance chunks are done: read the scalable candidates.
ResumeScalable(p) ==
    /\ proj[p].pc = "batch"
    /\ proj[p].left = {}
    /\ proj[p].stage = "performance_projections"
    /\ proj' = [proj EXCEPT ![p].stage = "scalable_stats",
                            ![p].left = Candidates(proj[p].ids, "scalable_stats")]
    /\ UNCHANGED <<stages, mstatus, counted, ledger, faults>>

ResumeClose(p) ==
    /\ proj[p].pc = "batch"
    /\ proj[p].left = {}
    /\ proj[p].stage = "scalable_stats"
    /\ Close(proj[p].ids)
    /\ proj' = [proj EXCEPT ![p] = Idle]
    /\ UNCHANGED <<stages, counted, ledger, faults>>

\* Complete matches that stats_projection_matches lacks.
Gaps == {m \in Matches \ Limited :
           mstatus[m] = "complete" /\ m \notin ledger["scalable_stats"]}

\* row_to_json turns an INT8 column into a JSON string.
Int8Json(m) == [type |-> "string", value |-> m]

\* Value::as_i64, as a set of at most one number.
AsI64(v) == IF v.type = "number" THEN {v.value} ELSE {}

\* repair_ranked_projection_gaps, one page: the ids it can decode.  The page
\* claims the ledger that project_scalable_many claims from, so that one would
\* find nothing left; project_performance_many claims from the other ledger.
RepairPage ==
    /\ \E S \in SUBSET UNION {AsI64(Int8Json(m)) : m \in Gaps} :
         /\ S # {}
         /\ ledger' = [ledger EXCEPT
                         !["scalable_stats"] = @ \cup S,
                         !["performance_projections"] =
                             @ \cup Claim(S, "performance_projections")]
         /\ counted' = [counted EXCEPT !["performance_projections"] =
                          [m \in Matches |->
                             IF m \in Claim(S, "performance_projections")
                             THEN @[m] + 1 ELSE @[m]]]
    /\ UNCHANGED <<stages, mstatus, proj, faults>>

----------------------------------------------------------------------------
(* Callers outside the raw buffer *)

\* checkpoint_canonical_outcome and the main path of ingest_discovery:
\* finalize, then project_match.
Ingest(p, m) ==
    /\ proj[p] = Idle
    /\ Finalize(m)
    /\ Begin(p, m)
    /\ UNCHANGED <<counted, ledger, faults>>

\* ensure_projected: the facts are durable and ranked_stats is missing.
EnsureProjected(p, m) ==
    /\ proj[p] = Idle
    /\ FactsDurable(m)
    /\ "ranked_stats" \notin stages[m]
    /\ Begin(p, m)
    /\ UNCHANGED <<stages, mstatus, counted, ledger, faults>>

\* The caller takes project_match's answer.
Answer(p) ==
    /\ proj[p].pc \in {"ok", "err"}
    /\ proj' = [proj EXCEPT ![p] = Idle]
    /\ UNCHANGED <<stages, mstatus, counted, ledger, faults>>

\* The process dies, or a batch gives up on its first error.
Abandon(p) ==
    /\ proj[p] # Idle
    /\ Fault
    /\ proj' = [proj EXCEPT ![p] = Idle]
    /\ UNCHANGED <<stages, mstatus, counted, ledger>>

Caller(p) ==
    \/ \E m \in Matches : Ingest(p, m) \/ EnsureProjected(p, m)
    \/ \E ids \in SUBSET Matches : ids # {} /\ ResumeBegin(p, ids)
    \/ ProjectMatch(p)
    \/ ProjectFails(p)
    \/ BatchChunk(p)
    \/ ResumeScalable(p)
    \/ ResumeClose(p)
    \/ Answer(p)
    \/ Abandon(p)

PNext == \E p \in Projectors : Caller(p)

PSpec == PInit /\ [][PNext]_pvars

\* With the job ranked-projection:repair, which the schedule runs every ten
\* minutes.
RepairNext == PNext \/ RepairPage

RepairSpec == PInit /\ [][RepairNext]_pvars /\ WF_pvars(RepairPage)

----------------------------------------------------------------------------
(* Properties *)

\* The variables keep their types.
ProjectionTypeOK ==
    /\ stages \in [Matches -> SUBSET Stages]
    /\ mstatus \in [Matches -> MatchStatuses]
    /\ counted \in [Counts -> [Matches -> Nat]]
    /\ ledger \in [Cumulative -> SUBSET Matches]
    /\ proj \in [Projectors -> Calls]
    /\ faults \in Nat

\* No match is added twice to an aggregate, however many processes project and
\* resume it at once and wherever they stop: the base counts are
\* tied to ranked_stats by the row lock, the cumulative ones to their ledgers.
CountedAtMostOnce ==
    /\ \A m \in Matches :
         counted["ranked_stats"][m] = IF "ranked_stats" \in stages[m] THEN 1 ELSE 0
    /\ \A s \in Cumulative, m \in Matches :
         /\ counted[s][m] <= 1
         /\ counted[s][m] = 1 => m \in ledger[s]

\* A stage that completed_stages records has really been counted: no process
\* appends a stage, or leaves a ledger entry, whose aggregates lack the match.
StageMeansCounted ==
    \A s \in Cumulative, m \in Matches \ Limited :
        s \in stages[m] \/ m \in ledger[s] => counted[s][m] = 1

\* A match becomes complete only with its facts and the three ranked stages
\* behind it; the exceptions are the matches an earlier writer completed.
CompleteMeansProjected ==
    \A m \in Matches \ Legacy :
        mstatus[m] = "complete" => stages[m] = Stages

\* What a match's row says about its projection is so, for the process that
\* resumes it and for the reader who is told that it is complete.
StagesAreTrue == StageMeansCounted /\ CompleteMeansProjected
=============================================================================
