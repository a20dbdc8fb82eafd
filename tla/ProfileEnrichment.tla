------------------------- MODULE ProfileEnrichment -------------------------
(***************************************************************************)
(* The scheduled job that keeps the profiles of active players fresh       *)
(* (workers/profile_enrichment.rs).                                        *)
(*                                                                         *)
(* player_activity_profile_refresh has an entry per player: the worker's   *)
(* lease and the memory of what the provider said.  A run reconciles who   *)
(* is present, persists profiles that were audited and not persisted,      *)
(* claims players whose profile is stale and works through the batches.    *)
(* A batch is one player here (ACTIVITY_PROFILE_BATCH_SIZE is 20).         *)
(*                                                                         *)
(* Each statement is a step.  A statement that fails ends the run, and so  *)
(* does the end of the process; the entries keep what they have.  Times    *)
(* are abstracted to whether they are over.                                *)
(***************************************************************************)
EXTENDS Naturals, Sequences, FiniteSets

CONSTANTS
    Players,
    Workers,       \* processes that may run the job
    ClaimLimit,    \* LIMIT of the claim: max_calls batches
    MaxFaults      \* bound: statements and calls that fail, processes that end

ASSUME EnrichmentAssumption ==
    IsFiniteSet(Players) /\ ClaimLimit \in Nat \ {0} /\ MaxFaults \in Nat

VARIABLES
    \* players.hirez_profile_refreshed_at, against the 24 hours of
    \* PROFILE_TTL_SECONDS and ACTIVITY_PROFILE_TTL_HOURS
    profile,
    \* player_presence_24h within its 24 hours
    present,
    \* player_activity_profile_refresh
    entry,
    \* the players of whom hirez_raw_api_responses has a usable profile close to
    \* the entry's last attempt
    audited,
    \* each worker's run
    job,
    \* history: the players of whom the provider said that it has no profile; the
    \* faults so far
    denied, faults

enrichment == <<present, entry, audited, job>>
enrichVars == <<profile, enrichment, denied, faults>>

Statuses == {"none", "pending", "fetching", "success", "unavailable", "failed", "skipped_recent"}

Entry(status) == [status |-> status, leased |-> FALSE, retry |-> FALSE]

\* A run that is not there.  `batches` is what is left to do, its head the batch in
\* hand; `answer` is what is known of that batch.
NoJob == [pc |-> "idle", todo |-> {}, batches |-> <<>>, answer |-> "none"]

Fault == faults < MaxFaults /\ faults' = faults + 1

EnrichInit ==
    /\ \E known \in {"absent", "stale"} : profile = [p \in Players |-> known]
    /\ present = {}
    /\ entry = [p \in Players |-> Entry("none")]
    /\ audited = {}
    /\ job = [w \in Workers |-> NoJob]
    /\ denied = {} /\ faults = 0

Orders(S) == {f \in [1..Cardinality(S) -> S] : \A i, j \in DOMAIN f : f[i] = f[j] => i = j}

At(w, pc) == job[w].pc = pc

Go(w, pc) == job' = [job EXCEPT ![w].pc = pc]

----------------------------------------------------------------------------
\* A run.  The job at start-up, and one with no call left to spend (max_calls = 0),
\* is over after the replay, like a run that fails there.

\* The presence rows are brought up to date from the matches of the last 24 hours.
Reconcile(w) ==
    /\ At(w, "idle")
    /\ \E seen \in SUBSET Players : present' = present \cup seen
    /\ Go(w, "replay")
    /\ UNCHANGED <<profile, entry, audited, denied, faults>>

Replayable == {p \in audited : entry[p].status \in {"failed", "unavailable"}}

ReplayQuery(w) ==
    /\ At(w, "replay")
    /\ job' = [job EXCEPT ![w].pc = "replaying", ![w].todo = Replayable]
    /\ UNCHANGED <<profile, present, entry, audited, denied, faults>>

\* An audited profile is persisted, or that fails and is logged.
ReplayPersist(w, p) ==
    /\ At(w, "replaying") /\ p \in job[w].todo
    /\ \/ /\ profile' = [profile EXCEPT ![p] = "fresh"]
          /\ job' = [job EXCEPT ![w].pc = "replayed", ![w].todo = @ \ {p}, ![w].batches = <<p>>]
          /\ UNCHANGED faults
       \/ /\ Fault
          /\ job' = [job EXCEPT ![w].todo = @ \ {p}]
          /\ UNCHANGED profile
    /\ UNCHANGED <<present, entry, audited, denied>>

ReplayMark(w) ==
    /\ At(w, "replayed")
    /\ LET p == Head(job[w].batches)
       IN entry' = IF entry[p].status \in {"failed", "unavailable"}
                   THEN [entry EXCEPT ![p] = Entry("success")] ELSE entry
    /\ job' = [job EXCEPT ![w].pc = "replaying", ![w].batches = <<>>]
    /\ UNCHANGED <<profile, present, audited, denied, faults>>

\* Mutant: an entry whose worker is gone is not due.
DueNoLease(p) ==
    /\ p \in present
    /\ profile[p] # "fresh"
    /\ ~entry[p].leased
    /\ \/ entry[p].status \in {"none", "pending"}
       \/ entry[p].status = "failed" /\ entry[p].retry

\* Seeded or seen before, present, not fresh, and not in another worker's hands.
Due(p) ==
    /\ p \in present
    /\ profile[p] # "fresh"
    /\ ~entry[p].leased
    /\ \/ entry[p].status \in {"none", "pending", "fetching"}
       \/ entry[p].status = "failed" /\ entry[p].retry

\* ORDER BY last_observed_at LIMIT: as many of those who are due as the calls are
\* for.  Who was seen last is left open.
Claimable(S, due) ==
    /\ S \subseteq due
    /\ Cardinality(S) <= ClaimLimit
    /\ S # due => Cardinality(S) = ClaimLimit

\* One transaction: entries for everybody present, and the claim.  Whoever is due has
\* not been tried for half an hour, so no audit is close to the next attempt.
Claim(w) ==
    /\ At(w, "replaying") /\ job[w].todo = {}
    /\ \E claimed \in SUBSET Players :
         /\ Claimable(claimed, {p \in Players : Due(p)})
         /\ \E order \in Orders(claimed) :
               job' = [job EXCEPT ![w].pc = "filter", ![w].batches = order]
         /\ entry' = [p \in Players |->
                        IF p \in claimed THEN [Entry("fetching") EXCEPT !.leased = TRUE]
                        ELSE IF p \in present /\ entry[p].status = "none" THEN Entry("pending")
                        ELSE entry[p]]
         /\ audited' = audited \ claimed
    /\ UNCHANGED <<profile, present, denied, faults>>

Batch(w) == Head(job[w].batches)

NextBatch(w) ==
    job' = [job EXCEPT ![w].pc = "filter", ![w].batches = Tail(@), ![w].answer = "none"]

\* filter_still_stale and mark_skipped_recent.
Filter(w) ==
    /\ At(w, "filter") /\ job[w].batches # <<>>
    /\ IF profile[Batch(w)] = "fresh"
       THEN /\ entry' = [entry EXCEPT ![Batch(w)] = Entry("skipped_recent")]
            /\ NextBatch(w)
       ELSE /\ Go(w, "call")
            /\ UNCHANGED entry
    /\ UNCHANGED <<profile, present, audited, denied, faults>>

\* The batch is marked failed; the batches behind it are given back next.
GiveUp(w) ==
    /\ entry' = [entry EXCEPT ![Batch(w)] = Entry("failed")]
    /\ job' = [job EXCEPT ![w].pc = "release", ![w].batches = Tail(@)]

\* release_unprocessed, a statement for each batch.  Whose claim the entry is by now
\* is not looked at.
ReleaseUnprocessed(w) ==
    /\ At(w, "release") /\ job[w].batches # <<>>
    /\ entry' = [entry EXCEPT ![Batch(w)] = [Entry("pending") EXCEPT !.retry = TRUE]]
    /\ job' = [job EXCEPT ![w].batches = Tail(@)]
    /\ UNCHANGED <<profile, present, audited, denied, faults>>

\* getPlayerBatch by the relay: a usable profile, none, or an error.
CallBatch(w) ==
    /\ At(w, "call")
    /\ \/ /\ \E answer \in {"usable", "unusable"} :
               /\ job' = [job EXCEPT ![w].pc = "audit", ![w].answer = answer]
               /\ denied' = IF answer = "unusable" THEN denied \cup {Batch(w)} ELSE denied
          /\ UNCHANGED <<entry, faults>>
       \/ Fault /\ GiveUp(w) /\ UNCHANGED denied
    /\ UNCHANGED <<profile, present, audited>>

\* The answer is audited before anything is made of it.
Audit(w) ==
    /\ At(w, "audit")
    /\ \/ /\ audited' = IF job[w].answer = "usable" THEN audited \cup {Batch(w)}
                        ELSE audited \ {Batch(w)}
          /\ Go(w, "persist")
          /\ UNCHANGED <<entry, faults>>
       \/ Fault /\ GiveUp(w) /\ UNCHANGED audited
    /\ UNCHANGED <<profile, present, denied>>

Persist(w) ==
    /\ At(w, "persist")
    /\ \/ /\ profile' = IF job[w].answer = "usable" THEN [profile EXCEPT ![Batch(w)] = "fresh"]
                        ELSE profile
          /\ Go(w, "finish")
          /\ UNCHANGED faults
       \/ /\ Fault /\ job[w].answer = "usable"
          /\ job' = [job EXCEPT ![w].pc = "finish", ![w].answer = "not_persisted"]
          /\ UNCHANGED profile
    /\ UNCHANGED <<present, entry, audited, denied>>

\* finish_persistence_failed, finish_unavailable, or success.  Whose claim the entry
\* is by now is not looked at.
Finish(w) ==
    /\ At(w, "finish")
    /\ entry' = [entry EXCEPT ![Batch(w)] =
                   Entry(CASE job[w].answer = "not_persisted" -> "failed"
                           [] job[w].answer = "unusable" -> "unavailable"
                           [] OTHER -> "success")]
    /\ NextBatch(w)
    /\ UNCHANGED <<profile, present, audited, denied, faults>>

\* cleanup_old_state deletes entries that are a week old and whose player is gone.
Clean(w) ==
    /\ At(w, "filter") \/ At(w, "release")
    /\ job[w].batches = <<>>
    /\ \E old \in SUBSET {p \in Players \ present : entry[p].status # "none" /\ ~entry[p].leased} :
         entry' = [p \in Players |-> IF p \in old THEN Entry("none") ELSE entry[p]]
    /\ job' = [job EXCEPT ![w] = NoJob]
    /\ UNCHANGED <<profile, present, audited, denied, faults>>

\* A statement fails, or the process ends.
RunFails(w) ==
    /\ Fault
    /\ ~At(w, "idle")
    /\ job' = [job EXCEPT ![w] = NoJob]
    /\ UNCHANGED <<profile, present, entry, audited, denied>>

----------------------------------------------------------------------------
\* Time, and other writers.

LeaseOver(p) ==
    /\ entry[p].leased
    /\ entry' = [entry EXCEPT ![p].leased = FALSE]
    /\ UNCHANGED <<profile, present, audited, job, denied, faults>>

RetryTime(p) ==
    /\ entry[p].status = "failed" /\ ~entry[p].retry
    /\ entry' = [entry EXCEPT ![p].retry = TRUE]
    /\ UNCHANGED <<profile, present, audited, job, denied, faults>>

ProfileExpires(p) ==
    /\ profile[p] = "fresh"
    /\ profile' = [profile EXCEPT ![p] = "stale"]
    /\ UNCHANGED <<enrichment, denied, faults>>

\* Match recovery in the relay and the raw-buffer drain write profiles as well.
WrittenElsewhere(p) ==
    /\ profile[p] # "fresh"
    /\ profile' = [profile EXCEPT ![p] = "fresh"]
    /\ UNCHANGED <<enrichment, denied, faults>>

\* Nobody has seen the player for 24 hours; by then the audit is too old as well.
Leaves(p) ==
    /\ p \in present
    /\ present' = present \ {p}
    /\ audited' = audited \ {p}
    /\ UNCHANGED <<profile, entry, job, denied, faults>>

----------------------------------------------------------------------------
JobStep(w) ==
    \/ Reconcile(w) \/ ReplayQuery(w) \/ ReplayMark(w) \/ Claim(w)
    \/ \E p \in Players : ReplayPersist(w, p)
    \/ Filter(w) \/ CallBatch(w) \/ Audit(w) \/ Persist(w) \/ Finish(w)
    \/ ReleaseUnprocessed(w) \/ Clean(w)

EnrichTime(p) ==
    LeaseOver(p) \/ RetryTime(p) \/ ProfileExpires(p) \/ WrittenElsewhere(p) \/ Leaves(p)

EnrichStep(w) == JobStep(w) \/ RunFails(w)

EnrichTypeOK ==
    /\ profile \in [Players -> {"absent", "stale", "fresh"}]
    /\ present \subseteq Players /\ audited \subseteq Players /\ denied \subseteq Players
    /\ entry \in [Players -> [status : Statuses, leased : BOOLEAN, retry : BOOLEAN]]
    /\ \A w \in Workers : job[w].todo \subseteq Players /\ Len(job[w].batches) <= Cardinality(Players)
    /\ faults \in 0..MaxFaults

\* An entry says success or skipped_recent only of a player whose profile is in the
\* players table: whatever failed on the way, "successful freshness lives on
\* players" (100_player_activity_profile_enrichment.sql).
SuccessMeansStored ==
    \A p \in Players : entry[p].status \in {"success", "skipped_recent"} => profile[p] # "absent"

InHand(p) == entry[p].status = "fetching" /\ p \in present /\ profile[p] # "fresh"

\* While the player is around and nobody else refreshed the profile, an entry does
\* not stay in the hands of a worker for ever: the lease of a run that failed ends and
\* a later run claims the entry.  That takes a ClaimLimit that reaches everybody who
\* is due: whom the LIMIT leaves out waits until fewer are.
ClaimsSettle ==
    (\E p \in Players : InHand(p)) ~> (\A p \in Players : ~InHand(p))

=============================================================================
