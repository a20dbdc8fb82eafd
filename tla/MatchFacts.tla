------------------------------ MODULE MatchFacts ------------------------------
(* The transaction that makes a match durable (MatchFactRepository::finalize), *)
(* run by the buffer lanes, the discovery pipeline and requested lookups, with *)
(* the private identities it resolves before it commits.  A transaction is    *)
(* split where another one can come between its statements with an effect: at  *)
(* the lock of the status row, at the count of the hour, at the row lock of    *)
(* hourly_match_counts.                                                       *)
EXTENDS PrivateIdentity

CONSTANTS
    Finalizers,   \* tasks that finalize matches
    Hour,         \* the hour of day all the matches belong to
    MaxFinalizations  \* bound: transactions of all the tasks

ASSUME MatchFactsConstants ==
    Hour \in 0 .. 23 /\ MaxFinalizations \in Nat /\ IsFiniteSet(SeenMatches)

VARIABLES
    stored,   \* the committed rows: the stages done, the limited flag, the party facts, the rows
    hourly,   \* total_matches of the hour
    stack,    \* party_stack_stats.match_count of a stack that plays every ranked match
    tx,       \* the transaction of each task
    begun     \* transactions begun so far

factVars == <<stored, hourly, stack, tx, begun>>
matchFactVars == <<identityVars, factVars>>

FactStages == {"core", "player_facts", "match_bans"}
Rows == {"match", "other_match", "players", "other_players", "bans"}
NoMatch == 0
NoFacts == [stages |-> {}, limited |-> FALSE, party |-> FALSE, rows |-> {}]
Idle == [pc |-> "idle", match |-> NoMatch, limited |-> FALSE, count |-> 0, wrote |-> FALSE]

FactsTypeOK ==
    /\ IdentityTypeOK
    /\ stored \in [SeenMatches -> [stages : SUBSET FactStages, limited : BOOLEAN, party : BOOLEAN,
                               rows : SUBSET Rows]]
    /\ hourly \in 0 .. Cardinality(SeenMatches) /\ stack \in 0 .. Cardinality(SeenMatches)
    /\ \A p \in Finalizers :
        /\ tx[p].pc \in {"idle", "count", "hour", "facts"}
        /\ tx[p].match \in SeenMatches \cup {NoMatch} /\ tx[p].count \in 0 .. Cardinality(SeenMatches)
        /\ tx[p].wrote \in BOOLEAN
    /\ begun \in 0 .. MaxFinalizations

-----------------------------------------------------------------------------
(* The row lock of match_ingest_status: one transaction for a match at a time. *)
Locked(m) == \E p \in Finalizers : tx[p].match = m

Counted(m) == "core" \in stored[m].stages /\ ~stored[m].limited

AddStage(r, stage) == [r EXCEPT !.stages = @ \cup {stage}]

(* persist_match and persist_nonranked_match: each population has a table of  *)
(* its own, and what was stored first stays.                                  *)
PersistMatch(r, m, limited) ==
    IF "core" \in r.stages THEN r
    ELSE AddStage([r EXCEPT !.limited = limited,
                            !.rows = @ \cup {IF m \in RankedMatches THEN "match" ELSE "other_match"}],
                  "core")

(* persist_player_facts, and the tables of the other populations. *)
RankedPlayerFacts(r) == [r EXCEPT !.rows = @ \cup {"players"}]
NonrankedPlayerFacts(r) == [r EXCEPT !.rows = @ \cup {"other_players"}]

PersistPlayerFacts(r, m) ==
    IF "player_facts" \in r.stages THEN r
    ELSE AddStage(IF m \in RankedMatches THEN RankedPlayerFacts(r) ELSE NonrankedPlayerFacts(r),
                  "player_facts")

PersistBans(r) ==
    IF "match_bans" \in r.stages THEN r ELSE AddStage([r EXCEPT !.rows = @ \cup {"bans"}], "match_bans")

(* An older match that was adopted: its players and bans are there, under     *)
(* their stages, and the core stage is not (adopt_nonranked_batch).           *)
AdoptedFacts ==
    [stages |-> {"player_facts", "match_bans"}, limited |-> FALSE, party |-> FALSE,
     rows |-> {"other_players", "bans"}]

FactsInit ==
    /\ IdentityInit
    /\ stored \in [SeenMatches -> {NoFacts, AdoptedFacts}]
    /\ \A m \in RankedMatches : stored[m] = NoFacts
    /\ hourly = 0 /\ stack = 0
    /\ tx = [p \in Finalizers |-> Idle] /\ begun = 0

(* lock_ingest_status, then the "core" stage for ranked matches. *)
Begin(p, m) ==
    /\ tx[p].pc = "idle" /\ begun < MaxFinalizations /\ ~Locked(m)
    /\ \E limited \in BOOLEAN :
        tx' = [tx EXCEPT ![p] =
            [pc |-> IF "core" \notin stored[m].stages /\ m \in RankedMatches THEN "count" ELSE "facts",
             match |-> m, limited |-> limited, count |-> 0, wrote |-> FALSE]]
    /\ begun' = begun + 1
    /\ UNCHANGED <<identityVars, stored, hourly, stack>>

(* The bounds of the hour: the next hour is on the same date. *)
InHour(hour) == IF (hour + 1) % 24 > hour THEN RankedMatches ELSE {}

(* upsert_hourly_count reads the count: committed matches, and its own. *)
CountHour(p) ==
    /\ tx[p].pc = "count"
    /\ LET own == IF tx[p].limited THEN {} ELSE {tx[p].match}
       IN  tx' = [tx EXCEPT ![p].pc = "hour",
                            ![p].count = Cardinality(InHour(Hour) \cap
                                             ({m \in SeenMatches : Counted(m)} \cup own))]
    /\ UNCHANGED <<identityVars, stored, hourly, stack, begun>>

(* ... and writes it.  The row of the hour stays locked until the commit. *)
WriteHour(p) ==
    /\ tx[p].pc = "hour"
    /\ \A q \in Finalizers : ~tx[q].wrote
    /\ tx' = [tx EXCEPT ![p].pc = "facts", ![p].wrote = TRUE]
    /\ UNCHANGED <<identityVars, stored, hourly, stack, begun>>

(* persist_ranked_party_groups: the party facts of the stored players. *)
PersistPartyGroups(r, m) == IF m \in RankedMatches THEN [r EXCEPT !.party = TRUE] ELSE r

(* Mutant: the stack is counted whenever the match is finalized. *)
NewPartyFactsAlways(m) == TRUE

(* The stacks are counted for what ON CONFLICT DO NOTHING has inserted. *)
NewPartyFacts(m) == m \in RankedMatches /\ ~stored[m].party

(* The rest of the transaction, and COMMIT. *)
Commit(p) ==
    /\ tx[p].pc = "facts"
    /\ LET m == tx[p].match
       IN  /\ stored' = [stored EXCEPT ![m] =
                 PersistBans(PersistPartyGroups(
                     PersistPlayerFacts(PersistMatch(@, m, tx[p].limited), m), m))]
           /\ hourly' = IF tx[p].wrote THEN tx[p].count ELSE hourly
           /\ stack' = IF NewPartyFacts(m) THEN stack + 1 ELSE stack
           /\ book' = PersistAndResolve(book, m, tx[p].limited)
    /\ tx' = [tx EXCEPT ![p] = Idle]
    /\ UNCHANGED <<backfill, report, acts, begun>>

(* A statement fails, or the process does: nothing of it remains. *)
Abort(p) ==
    /\ tx[p].pc # "idle"
    /\ tx' = [tx EXCEPT ![p] = Idle]
    /\ UNCHANGED <<identityVars, stored, hourly, stack, begun>>

FactsNext ==
    \/ \E p \in Finalizers :
        \/ \E m \in SeenMatches : Begin(p, m)
        \/ CountHour(p) \/ WriteHour(p) \/ Commit(p) \/ Abort(p)
    \/ IdentityNext /\ UNCHANGED factVars

FactsSpec == FactsInit /\ [][FactsNext]_matchFactVars

-----------------------------------------------------------------------------
(* A stack is counted once for each match it played, however often the match  *)
(* is finalized (the comment of persist_ranked_party_groups).                 *)
PartyCountedOnce == stack = Cardinality({m \in SeenMatches : stored[m].party})

(* Facts are immutable: a later finalization of the same match, with a better *)
(* or a worse answer of the provider, changes nothing that is stored.         *)
FactsStay ==
    [][\A m \in SeenMatches : stored[m].stages = FactStages => stored'[m] = stored[m]]_stored

(* A merge of identities is whole at the end of its transaction: observations *)
(* and player facts point at the identity in use, and its count is theirs.    *)
BookIsWhole == FactsTypeOK /\ LinkedToActive /\ CountsAgree /\ FactLinkAgrees

(* What was recorded stays: a verified identity, the reports and marks of one *)
(* that is merged away, and the facts of a match that is finalized again.     *)
RecordsStay == VerifiedStays /\ MarksSurviveMerge /\ FactsStay
=============================================================================
