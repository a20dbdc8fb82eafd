----------------------------- MODULE MatchIngest -----------------------------
(* Canonical ingestion: the queue-hours of hourly_ingest_state, the           *)
(* discovered IDs, the rows of match_ingest_status, and those who work on     *)
(* them: the drains of CanonicalIngestPipeline (scheduler, gap checker and    *)
(* operators) and direct lookups, both through the lifecycle of               *)
(* RequestedMatchIngestor.  What the relay answers is MatchResolver's; what   *)
(* a projection does inside is RankedProjection's and here one step.          *)
EXTENDS MatchResolver, Integers, FiniteSets

CONSTANTS
    Matches,      \* match IDs
    Hours,        \* queue-hours, larger is newer
    HourOf,       \* the hour each match is discovered in
    Ranked,       \* the matches of the ranked queue
    Gone,         \* the matches the provider knows nothing of any more
    GapCheckers,  \* drains started by the gap checker
    Operators,    \* drains started by the scheduler or an operator
    Lookups,      \* direct lookups
    MaxFaults,    \* failed calls, failed statements and crashes
    MaxRuns       \* drains and lookups that are started

ASSUME MatchIngestConstants ==
    /\ HourOf \in [Matches -> Hours] /\ Hours \subseteq Nat
    /\ MaxFaults \in Nat /\ MaxRuns \in Nat
    /\ Ranked \subseteq Matches /\ Gone \subseteq Matches
    /\ GapCheckers \cap (Operators \cup Lookups) = {} /\ Operators \cap Lookups = {}

VARIABLES
    hour,       \* hourly_ingest_state
    searches,   \* provider searches granted for each hour
    seen,       \* match_count_discoveries
    row,        \* match_ingest_status, with the limited flag of the match
    task,       \* drains and lookups
    faults,     \* faults so far
    runs        \* drains and lookups started so far

vars == <<hour, searches, seen, row, task, faults, runs>>

Drains == GapCheckers \cup Operators
Tasks == Drains \cup Lookups
MatchesOf(h) == {m \in Matches : HourOf[m] = h}
SeenOf(h) == seen \cap MatchesOf(h)

-----------------------------------------------------------------------------
(* Rows of match_ingest_status.                                               *)

NoRow == [status |-> "absent", state |-> "none", terminal |-> FALSE, facts |-> FALSE,
          limited |-> FALSE, projected |-> FALSE, resumable |-> FALSE, adopted |-> FALSE,
          lease |-> "nobody"]
Fresh == [NoRow EXCEPT !.status = "processing", !.state = "discovered"]

(* "provider returned no completed match" is the one terminal reason; rows of *)
(* earlier releases are unavailable for other reasons.                        *)
LegacyUnavailable == [NoRow EXCEPT !.status = "limited", !.state = "unavailable"]

(* MATCH_IDS_REQUIRING_CANONICAL_WORK_SQL *)
Settled(r) ==
    \/ r.status = "complete"
    \/ r.status = "limited" /\ (r.state # "unavailable" \/ r.terminal)

(* reopenable_hour_predicate *)
Reopenable(h) ==
    \E m \in SeenOf(h) :
        \/ row[m].status \notin {"complete", "limited"}
        \/ row[m].status = "limited" /\ ~(row[m].state = "unavailable" /\ row[m].terminal)

(* register_discovery: a new row, or one that was closed for another reason   *)
(* than the terminal one is opened again.                                     *)
Registered(r) ==
    CASE r.status = "absent" -> Fresh
      [] r.status = "limited" /\ r.state = "unavailable" /\ ~r.terminal ->
             [r EXCEPT !.status = "processing", !.state = "discovered"]
      [] OTHER -> r

(* CLAIM_SQL *)
Claimable(r, t) == r.status \notin {"complete", "limited"} /\ r.lease \in {"nobody", t}
Claimed(r, t) == [r EXCEPT !.lease = t]

(* RELEASE_SQL *)
Released(r, t) == IF r.lease = t THEN [r EXCEPT !.lease = "nobody"] ELSE r

(* finalize: lock_ingest_status, the fact stages that are missing and the     *)
(* last UPDATE, in one transaction.  The limited flag of the match is that of *)
(* the first payload.                                                         *)
Finalized(r, limited) ==
    [r EXCEPT !.status = CASE r.status \in {"complete", "limited"} -> r.status
                           [] limited /\ r.status \notin {"complete", "limited"} -> "limited"
                           [] OTHER -> "partial",
              !.state = IF limited THEN "limited" ELSE "facts_ready",
              !.terminal = FALSE,
              !.limited = IF r.facts THEN @ ELSE limited,
              !.facts = TRUE]

(* Mutant: project_all_for_match without its check for facts. *)
ProjectableWithoutFacts(m) == m \in Ranked => ~row[m].limited

(* project_match refuses ranked matches without facts and limited ones.       *)
(* project_all_for_match refuses a match without facts.                       *)
Projectable(m) == row[m].facts /\ (m \in Ranked => ~row[m].limited)
Projected(r) == [r EXCEPT !.projected = TRUE, !.status = "complete", !.state = "complete",
                          !.lease = "nobody"]

(* Mutant: without status <> 'complete'. *)
TerminallyOverwritten(r) ==
    [r EXCEPT !.status = "limited", !.state = "unavailable", !.terminal = TRUE, !.lease = "nobody"]

(* MARK_TERMINAL_UNAVAILABLE_SQL *)
TerminallyUnavailable(r) ==
    IF r.status = "complete" THEN r
    ELSE [r EXCEPT !.status = "limited", !.state = "unavailable", !.terminal = TRUE,
                   !.lease = "nobody"]

(* adopt_nonranked_batch, for a legacy row with facts, with a roster or with  *)
(* neither.                                                                   *)
Adopted(r, legacy) ==
    LET base == IF r.status = "absent" THEN Fresh ELSE r
    IN  [base EXCEPT !.adopted = TRUE,
                     !.facts = @ \/ legacy = "facts",
                     !.resumable = @ \/ legacy = "roster",
                     !.state = IF @ = "complete" THEN @
                               ELSE CASE legacy = "facts" -> "facts_ready"
                                      [] legacy = "roster" -> "recovery_pending"
                                      [] OTHER -> "discovered"]

-----------------------------------------------------------------------------
Resting == [pc |-> "idle", hour |-> 0, batch |-> {}, resume |-> {}, bad |-> FALSE,
            match |-> "none", out |-> "none", ready |-> {}]

Unclaimed == [status |-> "absent", fetched |-> FALSE, succeeded |-> FALSE, live |-> FALSE]

TypeOK ==
    /\ hour \in [Hours -> [status : {"absent", "fetching", "empty", "complete", "failed"},
                           fetched : BOOLEAN, succeeded : BOOLEAN, live : BOOLEAN]]
    /\ searches \in [Hours -> Nat]
    /\ seen \subseteq Matches
    /\ \A m \in Matches :
        /\ row[m].status \in {"absent", "processing", "partial", "limited", "complete"}
        /\ row[m].state \in {"none", "discovered", "facts_ready", "limited", "unavailable",
                             "recovery_pending", "complete"}
        /\ {row[m].terminal, row[m].facts, row[m].limited, row[m].projected, row[m].resumable,
            row[m].adopted} \subseteq BOOLEAN
        /\ row[m].lease \in {"nobody"} \cup Tasks
        /\ row[m].projected => row[m].facts
    /\ \A t \in Tasks :
        /\ task[t].pc \in {"idle", "ids", "claim", "search", "empty", "select", "batch", "store",
                           "count", "reselect", "resume", "mark", "known", "register", "lease", "fetch",
                           "finalize", "project", "ensure", "terminal"}
        /\ task[t].batch \cup task[t].resume \cup task[t].ready \subseteq Matches
    /\ faults \in 0 .. MaxFaults /\ runs \in 0 .. MaxRuns

Init ==
    /\ hour = [h \in Hours |-> Unclaimed]
    /\ searches = [h \in Hours |-> 0]
    /\ seen = {}
    /\ row \in [Matches -> {NoRow, LegacyUnavailable}]
    /\ task = [t \in Tasks |-> Resting]
    /\ faults = 0 /\ runs = 0

-----------------------------------------------------------------------------
Fault == faults < MaxFaults /\ faults' = faults + 1
NoFault == UNCHANGED faults

Start == runs < MaxRuns /\ runs' = runs + 1

Goto(t, pc) == task' = [task EXCEPT ![t].pc = pc]
SetRow(m, r) == row' = [row EXCEPT ![m] = r]

(* A drain that stops on an error goes on to record it. *)
DrainFails(t) == task' = [task EXCEPT ![t].pc = "mark", ![t].bad = TRUE]

-----------------------------------------------------------------------------
(* What the relay can find out about a match.  Only of the ones that are gone *)
(* does the provider say that it has neither a detail nor a roster.           *)
Findings(m) ==
    {e \in Evidence :
        IF m \in Gone
        THEN e.detail = "none" /\ e.roster # "players" /\ ~e.local /\ ~e.history /\ ~e.demo
        ELSE e.detail = "none" => e.roster # "none"}

(* What terminal_status and from_relay_value make of a resolution. *)
Verdict(r) ==
    CASE r.status = "dropped" -> "dropped"
      [] r.status = "limited" -> "limited"
      [] r.status # "dropped" /\ ~r.usable -> "unusable"
      [] OTHER -> "full"

(* The verdicts of one call, with or without a failed roster call inside. *)
Verdicts(m, hint, failed) ==
    {Verdict(Resolve(m \in Ranked, hint, e)) :
        e \in {f \in Findings(m) : (f.roster = "error") = failed}}

Answer ==
    [m \in Matches |-> [hint \in BOOLEAN |->
        {v \in [verdict : {"dropped", "limited", "unusable", "full"}, failed : BOOLEAN] :
            v.verdict \in Verdicts(m, hint, v.failed)}]]

(* resume_recovery makes no roster call. *)
ResumeAnswer ==
    [m \in Matches |->
        {[verdict |-> Verdict(ResumeRecovery(e)), failed |-> FALSE] : e \in Findings(m)}]

CountFault(failed) == IF failed THEN Fault ELSE NoFault

-----------------------------------------------------------------------------
(* A queue-hour is claimed, searched once, and drained.                       *)

(* claim_hourly_ingest_hour *)
HourClaimable(h) ==
    \/ hour[h].status = "absent"
    \/ hour[h].status = "failed" /\ (~hour[h].fetched \/ hour[h].succeeded)
    \/ hour[h].status = "complete" /\ Reopenable(h)
    \/ hour[h].status = "fetching" /\ ~hour[h].live

ClaimHour(t, h) ==
    /\ HourClaimable(h)
    /\ hour' = [hour EXCEPT ![h].status = "fetching", ![h].live = TRUE]
    /\ task' = [task EXCEPT ![t] = [Resting EXCEPT !.pc = "ids", !.hour = h]]
    /\ UNCHANGED <<searches, seen, row>> /\ NoFault /\ Start

(* discover_hour records every error, one of the claim itself included. *)
ClaimHourFails(t) ==
    /\ t \in Drains /\ task[t].pc = "idle"
    /\ \E h \in Hours : task' = [task EXCEPT ![t] =
            [Resting EXCEPT !.pc = "mark", !.hour = h, !.bad = TRUE]]
    /\ UNCHANGED <<hour, searches, seen, row>> /\ Fault /\ Start

OperatorClaims(t) == t \in Operators /\ task[t].pc = "idle" /\ \E h \in Hours : ClaimHour(t, h)

(* queue_hour_states_sql: hours whose search was durable and that are not     *)
(* done, of which run_gap_check drains the newest.                            *)
GapCandidates ==
    {h \in Hours : /\ hour[h].fetched /\ hour[h].succeeded
                   /\ \/ hour[h].status = "complete" /\ Reopenable(h)
                      \/ hour[h].status = "fetching" /\ ~hour[h].live}

GapClaims(t) ==
    /\ t \in GapCheckers /\ task[t].pc = "idle"
    /\ \E h \in GapCandidates : (\A g \in GapCandidates : g <= h) /\ ClaimHour(t, h)

(* discovered_match_ids: known IDs are drained without another search. *)
LoadIds(t) ==
    /\ task[t].pc = "ids"
    /\ Goto(t, IF SeenOf(task[t].hour) # {} THEN "select" ELSE "claim")
    /\ UNCHANGED <<hour, searches, seen, row>> /\ NoFault

(* Mutant: the search of an hour without IDs is granted to every claim. *)
ClaimSearchAgain(t) ==
    LET h == task[t].hour IN
    /\ task[t].pc = "claim" /\ Goto(t, "search")
    /\ hour' = [hour EXCEPT ![h].fetched = TRUE, ![h].succeeded = FALSE]
    /\ searches' = [searches EXCEPT ![h] = @ + 1]
    /\ UNCHANGED <<seen, row>> /\ NoFault

(* claim_hourly_ingest_search: the hour's only search. *)
ClaimSearch(t) ==
    LET h == task[t].hour IN
    /\ task[t].pc = "claim"
    /\ IF hour[h].status = "fetching" /\ ~hour[h].fetched
       THEN /\ hour' = [hour EXCEPT ![h].fetched = TRUE, ![h].succeeded = FALSE]
            /\ searches' = [searches EXCEPT ![h] = @ + 1]
            /\ Goto(t, "search")
       ELSE DrainFails(t) /\ UNCHANGED <<hour, searches>>
    /\ UNCHANGED <<seen, row>> /\ NoFault

(* getMatchIdsByQueueDetails and record_match_count_discovery_result, which   *)
(* records the IDs and the success of the search in one transaction.          *)
SearchAnswers(t) ==
    LET h == task[t].hour IN
    /\ task[t].pc = "search"
    /\ \E found \in {MatchesOf(h), {}} :
        seen' = seen \cup found /\ Goto(t, IF found = {} THEN "empty" ELSE "select")
    /\ hour' = [hour EXCEPT ![h].succeeded = @ \/ hour[h].status = "fetching"]
    /\ UNCHANGED <<searches, row>> /\ NoFault

SearchFails(t) ==
    /\ task[t].pc = "search"
    /\ DrainFails(t) /\ UNCHANGED <<hour, searches, seen, row>> /\ Fault

MarkEmpty(t) ==
    LET h == task[t].hour IN
    /\ task[t].pc = "empty"
    /\ hour' = [hour EXCEPT ![h] = [status |-> "empty", fetched |-> TRUE, succeeded |-> TRUE,
                                    live |-> FALSE]]
    /\ Goto(t, "idle") /\ UNCHANGED <<searches, seen, row>> /\ NoFault

(* match_ids_requiring_canonical_work: matches without a row are fetched in   *)
(* batches, the others resume from their row.                                 *)
Select(t) ==
    LET open == {m \in SeenOf(task[t].hour) : ~Settled(row[m])} IN
    /\ task[t].pc = "select"
    /\ task' = [task EXCEPT ![t].pc = "batch",
                            ![t].batch = {m \in open : row[m].status = "absent"},
                            ![t].resume = {m \in open : row[m].status # "absent"}]
    /\ UNCHANGED <<hour, searches, seen, row>> /\ NoFault

(* refresh_hourly_ingest_lease, before each batch and each window.  It does   *)
(* not ask whose lease it is.                                                 *)
LeaseRefreshed(h) == [hour EXCEPT ![h].live = @ \/ hour[h].status = "fetching"]

(* fetch_discovered_completed_continuously, one match of a batch at a time.   *)
BatchFetches(t) ==
    /\ task[t].pc = "batch"
    /\ \E m \in task[t].batch : \E a \in Answer[m][TRUE] :
        /\ hour' = LeaseRefreshed(task[t].hour)
        /\ task' = [task EXCEPT ![t].batch = @ \ {m},
                        ![t].pc = IF a.verdict \in {"full", "limited"} THEN "store" ELSE "batch",
                        ![t].match = IF a.verdict \in {"full", "limited"} THEN m ELSE @,
                        ![t].out = IF a.verdict \in {"full", "limited"} THEN a.verdict ELSE @,
                        ![t].bad = @ \/ a.verdict \notin {"full", "limited"}]
        /\ CountFault(a.failed)
    /\ UNCHANGED <<searches, seen, row>>

(* checkpoint_canonical_outcome: facts first, then their projection.  A match *)
(* that fails does not keep the rest of its batch.                            *)
StoreFacts(t) ==
    LET m == task[t].match IN
    /\ task[t].pc = "store"
    /\ SetRow(m, Finalized(row[m], task[t].out = "limited"))
    /\ Goto(t, "count") /\ UNCHANGED <<hour, searches, seen>> /\ NoFault

CountFacts(t) ==
    LET m == task[t].match IN
    /\ task[t].pc = "count"
    /\ IF Projectable(m) THEN SetRow(m, Projected(row[m])) ELSE UNCHANGED row
    /\ task' = [task EXCEPT ![t].pc = "batch", ![t].match = "none", ![t].out = "none",
                            ![t].bad = @ \/ ~Projectable(m)]
    /\ UNCHANGED <<hour, searches, seen>> /\ NoFault

CheckpointFails(t) ==
    /\ task[t].pc \in {"store", "count"}
    /\ task' = [task EXCEPT ![t].pc = "batch", ![t].match = "none", ![t].out = "none",
                            ![t].bad = TRUE]
    /\ UNCHANGED <<hour, searches, seen, row>> /\ Fault

(* A relay error ends the batches, not the drain: what can resume still does. *)
BatchesFail(t) ==
    /\ task[t].pc = "batch" /\ task[t].batch # {}
    /\ task' = [task EXCEPT ![t].pc = "reselect", ![t].batch = {}, ![t].bad = TRUE]
    /\ UNCHANGED <<hour, searches, seen, row>> /\ Fault

BatchesEnd(t) ==
    /\ task[t].pc = "batch" /\ task[t].batch = {} /\ Goto(t, "reselect")
    /\ UNCHANGED <<hour, searches, seen, row>> /\ NoFault

(* resume_discovered_continuously selects once more; what another process     *)
(* settled since is left out.                                                 *)
Reselect(t) ==
    /\ task[t].pc = "reselect"
    /\ task' = [task EXCEPT ![t].pc = "resume", ![t].resume = {m \in @ : ~Settled(row[m])}]
    /\ UNCHANGED <<hour, searches, seen, row>> /\ NoFault

ResumeMatch(t) ==
    /\ task[t].pc = "resume"
    /\ \E m \in task[t].resume :
        task' = [task EXCEPT ![t].pc = "known", ![t].match = m, ![t].resume = @ \ {m}]
    /\ hour' = LeaseRefreshed(task[t].hour)
    /\ UNCHANGED <<searches, seen, row>> /\ NoFault

ResumeEnds(t) ==
    /\ task[t].pc = "resume" /\ task[t].resume = {} /\ Goto(t, "mark")
    /\ UNCHANGED <<hour, searches, seen, row>> /\ NoFault

(* A statement of the drain itself fails. *)
DrainStatementFails(t) ==
    /\ task[t].pc \in {"ids", "claim", "empty", "select", "reselect"}
    /\ DrainFails(t) /\ UNCHANGED <<hour, searches, seen, row>> /\ Fault

(* mark_hourly_ingest_complete and mark_hourly_ingest_failed.  Neither asks   *)
(* whether the hour is still this drain's.                                    *)
MarkHour(t) ==
    LET h == task[t].hour IN
    /\ task[t].pc = "mark"
    /\ hour' = [hour EXCEPT ![h] =
            IF @.status = "absent" THEN @
            ELSE IF task[t].bad THEN [@ EXCEPT !.status = "failed", !.live = FALSE]
            ELSE [status |-> "complete", fetched |-> TRUE, succeeded |-> TRUE, live |-> FALSE]]
    /\ task' = [task EXCEPT ![t] = Resting]
    /\ UNCHANGED <<searches, seen, row>> /\ NoFault

-----------------------------------------------------------------------------
(* ingest_discovery: one match, for a drain or for a direct lookup.           *)

(* What the drain counts as done is what ended well; a lookup answers.  A     *)
(* drain goes on with its next match, a lookup is over.                       *)
Left(t, ok) ==
    IF t \in Drains
    THEN [task EXCEPT ![t].pc = "resume", ![t].match = "none", ![t].out = "none",
                      ![t].bad = @ \/ ~ok]
    ELSE [task EXCEPT ![t] = [Resting EXCEPT !.ready =
              IF ok THEN task[t].ready \cup {task[t].match} ELSE task[t].ready]]

Lookup(t) ==
    /\ t \in Lookups /\ task[t].pc = "idle"
    /\ \E m \in Matches : task' = [task EXCEPT ![t].pc = "known", ![t].match = m]
    /\ UNCHANGED <<hour, searches, seen, row>> /\ NoFault /\ Start

(* facts_are_durable: facts of any earlier run are projected, never fetched. *)
FactsKnown(t) ==
    /\ task[t].pc = "known"
    /\ Goto(t, IF row[task[t].match].facts THEN "ensure" ELSE "register")
    /\ UNCHANGED <<hour, searches, seen, row>> /\ NoFault

RegisterDiscovery(t) ==
    LET m == task[t].match IN
    /\ task[t].pc = "register"
    /\ SetRow(m, Registered(row[m]))
    /\ Goto(t, IF Registered(row[m]).status \in {"complete", "limited"} THEN "ensure" ELSE "lease")
    /\ UNCHANGED <<hour, searches, seen>> /\ NoFault

(* claim, and what follows from its answer.  The lease is given back at once  *)
(* when the facts appeared since they were looked for.                        *)
ClaimMatch(t) ==
    LET m == task[t].match IN
    /\ task[t].pc = "lease"
    /\ \/ /\ Claimable(row[m], t) /\ ~row[m].facts
          /\ SetRow(m, Claimed(row[m], t)) /\ Goto(t, "fetch")
       \/ /\ Claimable(row[m], t) /\ row[m].facts
          /\ SetRow(m, [row[m] EXCEPT !.lease = "nobody"]) /\ Goto(t, "ensure")
       \/ /\ ~Claimable(row[m], t) /\ UNCHANGED row
          /\ IF row[m].facts THEN Goto(t, "ensure") ELSE task' = Left(t, FALSE)
    /\ UNCHANGED <<hour, searches, seen>> /\ NoFault

(* plan_match_lifecycle: a stored roster resumes in the middle, with the      *)
(* missing histories and resume_recovery; everything else is fetch_detail.    *)
(* A queue hint comes with the drain or from the row.                         *)
FetchMatch(t) ==
    LET m == task[t].match
        answers == IF row[m].resumable
                   THEN ResumeAnswer[m]
                   ELSE Answer[m][TRUE] \cup (IF t \in Lookups THEN Answer[m][FALSE] ELSE {})
    IN
    /\ task[t].pc = "fetch"
    /\ \E a \in answers :
        /\ CASE a.verdict = "dropped" ->
                    /\ SetRow(m, Released(row[m], t))
                    /\ IF t \in Drains THEN Goto(t, "terminal") ELSE task' = Left(t, FALSE)
             [] a.verdict = "unusable" -> SetRow(m, Released(row[m], t)) /\ task' = Left(t, FALSE)
             [] OTHER -> /\ task' = [task EXCEPT ![t].pc = "finalize", ![t].out = a.verdict]
                         /\ UNCHANGED row
        /\ CountFault(a.failed)
    /\ UNCHANGED <<hour, searches, seen>>

FinalizeMatch(t) ==
    LET m == task[t].match IN
    /\ task[t].pc = "finalize"
    /\ SetRow(m, Finalized(row[m], task[t].out = "limited"))
    /\ Goto(t, "project") /\ UNCHANGED <<hour, searches, seen>> /\ NoFault

ProjectMatch(t) ==
    LET m == task[t].match IN
    /\ task[t].pc = "project"
    /\ SetRow(m, IF Projectable(m) THEN Projected(row[m]) ELSE Released(row[m], t))
    /\ task' = Left(t, Projectable(m)) /\ UNCHANGED <<hour, searches, seen>> /\ NoFault

(* Mutant: a row that needs no work is taken for a projected one. *)
EnsuredByStatus(t) ==
    LET m == task[t].match IN
    /\ task[t].pc = "ensure" /\ UNCHANGED row
    /\ task' = Left(t, TRUE) /\ UNCHANGED <<hour, searches, seen>> /\ NoFault

(* ensure_projected: nothing to do for a match with its projection stage, and *)
(* an error for one without facts.                                            *)
EnsureProjected(t) ==
    LET m == task[t].match
        counted == row[m].projected \/ Projectable(m)
    IN
    /\ task[t].pc = "ensure"
    /\ IF ~row[m].projected /\ Projectable(m) THEN SetRow(m, Projected(row[m])) ELSE UNCHANGED row
    /\ task' = Left(t, counted) /\ UNCHANGED <<hour, searches, seen>> /\ NoFault

(* record_terminal_outcome, after the lease was given back.  The match counts *)
(* as done.                                                                   *)
MarkTerminal(t) ==
    LET m == task[t].match IN
    /\ task[t].pc = "terminal"
    /\ SetRow(m, TerminallyUnavailable(row[m]))
    /\ task' = Left(t, TRUE) /\ UNCHANGED <<hour, searches, seen>> /\ NoFault

LifecyclePCs == {"known", "register", "lease", "fetch", "finalize", "project", "ensure", "terminal"}

(* A relay call or a statement fails; the lease is given back. *)
LifecycleFails(t) ==
    /\ task[t].pc \in LifecyclePCs
    /\ SetRow(task[t].match, Released(row[task[t].match], t))
    /\ task' = Left(t, FALSE) /\ UNCHANGED <<hour, searches, seen>> /\ Fault

-----------------------------------------------------------------------------
(* The environment.                                                           *)

(* FETCH_LEASE_MINUTES are over.  A search cannot take so long, a drain       *)
(* between two refreshes can.                                                 *)
HourLeaseDue(h) ==
    /\ hour[h].status = "fetching" /\ hour[h].live
    /\ \A t \in Drains : ~(task[t].hour = h /\ task[t].pc \in {"ids", "claim", "search", "select"})
    /\ hour' = [hour EXCEPT ![h].live = FALSE]
    /\ UNCHANGED <<searches, seen, row, task, runs>> /\ NoFault

(* The completion timeout of a claimed row is over. *)
RowLeaseExpires(m) ==
    /\ row[m].lease # "nobody" /\ SetRow(m, [row[m] EXCEPT !.lease = "nobody"])
    /\ UNCHANGED <<hour, searches, seen, task, runs>> /\ NoFault

(* A process dies and leaves its leases. *)
Crash(t) ==
    /\ task[t].pc # "idle"
    /\ task' = [task EXCEPT ![t] = [Resting EXCEPT !.ready = task[t].ready]]
    /\ UNCHANGED <<hour, searches, seen, row>> /\ Fault

(* worker.rs adopts the old ledger once, page by page. *)
AdoptNonranked(m) ==
    /\ m \in Matches \ Ranked /\ ~row[m].adopted
    /\ \E legacy \in {"facts", "roster", "nothing"} : SetRow(m, Adopted(row[m], legacy))
    /\ UNCHANGED <<hour, searches, seen, task, runs>> /\ NoFault

DrainStep(t) ==
    \/ LoadIds(t) \/ ClaimSearch(t) \/ SearchAnswers(t) \/ MarkEmpty(t) \/ Select(t)
    \/ BatchFetches(t) \/ StoreFacts(t) \/ CountFacts(t) \/ BatchesEnd(t)
    \/ Reselect(t) \/ ResumeMatch(t) \/ ResumeEnds(t) \/ MarkHour(t)

LifecycleStep(t) ==
    \/ FactsKnown(t) \/ RegisterDiscovery(t) \/ ClaimMatch(t) \/ FetchMatch(t)
    \/ FinalizeMatch(t) \/ ProjectMatch(t) \/ EnsureProjected(t) \/ MarkTerminal(t)

Failure(t) ==
    \/ SearchFails(t) \/ CheckpointFails(t) \/ BatchesFail(t)
    \/ DrainStatementFails(t) \/ LifecycleFails(t) \/ Crash(t)

Next ==
    \/ \E t \in Tasks : \/ OperatorClaims(t) \/ GapClaims(t) \/ ClaimHourFails(t) \/ Lookup(t)
                        \/ (DrainStep(t) \/ LifecycleStep(t) \/ Failure(t)) /\ UNCHANGED runs
    \/ \E h \in Hours : HourLeaseDue(h)
    \/ \E m \in Matches : RowLeaseExpires(m) \/ AdoptNonranked(m)

Spec == Init /\ [][Next]_vars

-----------------------------------------------------------------------------
(* An hour is complete only when every match discovered in it has durable     *)
(* facts or was found to have none: with two drains of one hour, whose lease  *)
(* neither of them checks again, lookups and crashes in between.  The one     *)
(* exception is a row that was unavailable when the old ledger was adopted:   *)
(* the adoption takes it for a limited match and nobody fetches it again.     *)
HourCompleteMeansDurable ==
    \A h \in Hours : hour[h].status = "complete" =>
        \A m \in SeenOf(h) : \/ row[m].facts \/ row[m].terminal
                             \/ row[m].adopted /\ row[m].status = "limited"

(* The provider is searched at most once for an hour, however often the hour  *)
(* is claimed again (claim_hourly_ingest_search: "the single allowed provider *)
(* discovery attempt").                                                       *)
SearchedOnce == \A h \in Hours : searches[h] <= 1

(* A match answered as ready is counted in its population's projection.       *)
ReadyMeansCounted == \A t \in Lookups : \A m \in task[t].ready : row[m].projected

(* A row that is complete stays complete, and facts are never taken back.     *)
CompleteIsFinal ==
    [][\A m \in Matches : /\ row[m].status = "complete" => row'[m].status = "complete"
                          /\ row[m].facts => row'[m].facts]_vars

(* What the row of a queue-hour says is so: complete means that nothing is    *)
(* owed, and the search its status grants is made once.                       *)
HoursAreHonest == HourCompleteMeansDurable /\ SearchedOnce
=============================================================================
