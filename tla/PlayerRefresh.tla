--------------------------- MODULE PlayerRefresh ---------------------------
(***************************************************************************)
(* The requests that go to the provider for one player: the refresh of     *)
(* profile, champions, loadouts and match history and the lookups by name  *)
(* (routes/players/provider.rs, the remote part of routes/search.rs, and   *)
(* the relay's match-history operation), beside the job of                 *)
(* ProfileEnrichment.                                                      *)
(*                                                                         *)
(* A refresh of the profile holds a PostgreSQL advisory lock on a pooled   *)
(* connection while it makes the statements and the call it needs, each on *)
(* another connection of the same pool.  The lock belongs to the session   *)
(* and is re-entrant; it goes only with an unlock or with the session.     *)
(*                                                                         *)
(* A request is a sequence of awaits, each a step.  The limits of          *)
(* vendor_guard are Admission's subject: here it lets a request through or *)
(* not.  Times are abstracted to whether they are over.                    *)
(***************************************************************************)
EXTENDS ProfileEnrichment

CONSTANTS
    Player,        \* the player asked for
    Requests,
    Conns,         \* places in the connection pool of the API process
    Nobody,        \* no request, no connection
    Casts          \* bound: who takes part in a behaviour, with which kinds of request,
                   \* and the players for whom time passes

Targets == {"search_id", "search_name"}

Kinds == {"profile", "discord", "champions", "loadouts"} \cup Targets

ASSUME RefreshAssumption ==
    /\ Player \in Players
    /\ Nobody \notin Requests \cup Conns
    /\ Casts \subseteq [who : SUBSET (Requests \cup Workers), kinds : SUBSET Kinds,
                       players : SUBSET Players]

VARIABLES
    \* each request, who has each connection, and the advisory lock
    req, conn, lock,
    \* player_loadout_fetches, and whose decks player_loadouts has
    loadout, decks,
    \* the answers kept: discord_player_lookup_cache, search_remote_lookup_cache
    \* and, at the relay, player_match_history_cache
    lookup, found, history,
    \* history: what the provider said it does not have, whether the profile that is
    \* fresh comes from a refresh here, and who takes part
    said, ours, cast

pool == <<conn, lock>>
answers == <<loadout, decks, lookup, found, history>>
refreshVars == <<req, pool, answers, said, ours, cast>>
vars == <<enrichVars, refreshVars>>

NoRequest == [pc |-> "idle", kind |-> "none", conn |-> Nobody, got |-> "none", dels |-> {}]

Init ==
    /\ EnrichInit
    /\ req = [r \in Requests |-> NoRequest]
    /\ conn = [c \in Conns |-> Nobody]
    /\ lock = [by |-> Nobody, depth |-> 0]
    /\ loadout = [fetched |-> "never", cooling |-> FALSE] /\ decks = {}
    /\ lookup = "none"
    /\ found = [t \in Targets |-> "none"]
    /\ history = "none"
    /\ said = {} /\ ours = FALSE
    /\ cast \in Casts

On(r, pc) == req[r].pc = pc

To(r, pc) == req' = [req EXCEPT ![r].pc = pc]

Holding(r, pc, got) == req' = [req EXCEPT ![r].pc = pc, ![r].got = got]

\* A statement takes a connection of the pool and puts it back.  Who finds none
\* waits, without a limit.
Idle == {c \in Conns : conn[c] = Nobody}

Query == Idle # {}

\* Where a request goes on once a part of it is over, well or not.
AfterProfile(r) == IF req[r].kind = "discord" THEN "player" ELSE "history"

AfterFailure(r) == IF req[r].kind = "discord" THEN "player" ELSE "done"

AfterHistory(r) == IF req[r].kind = "profile" THEN "champions" ELSE "done"

AfterChampions(r) == IF req[r].kind = "discord" THEN "history" ELSE "done"

First == [kind \in Kinds |->
            CASE kind = "profile" -> "guard"
              [] kind = "discord" -> "resolve"
              [] kind \in Targets -> "search"
              [] OTHER -> kind]

Arrive(r) ==
    /\ On(r, "idle") /\ r \in cast.who
    /\ \E kind \in cast.kinds : req' = [req EXCEPT ![r].pc = First[kind], ![r].kind = kind]
    /\ UNCHANGED <<enrichVars, pool, answers, said, ours, cast>>

\* refresh_profile: the quota and vendor_guard.
Guard(r) ==
    /\ On(r, "guard")
    /\ \E pc \in {"connect", "done"} : To(r, pc)
    /\ UNCHANGED <<enrichVars, pool, answers, said, ours, cast>>

----------------------------------------------------------------------------
\* refresh_profile_record and fetch_profile.

Critical == {"check", "fetch", "keep", "store", "reread", "unlock"}

Connect(r) ==
    /\ On(r, "connect")
    /\ \E c \in Idle :
         /\ conn' = [conn EXCEPT ![c] = r]
         /\ req' = [req EXCEPT ![r].pc = "locking", ![r].conn = c]
    /\ UNCHANGED <<enrichVars, lock, answers, said, ours, cast>>

Granted(c) == lock.by \in {Nobody, c}

Locked(c) == [by |-> c, depth |-> lock.depth + 1]

Unlocked == IF lock.depth > 1 THEN [lock EXCEPT !.depth = @ - 1] ELSE [by |-> Nobody, depth |-> 0]

LockProfile(r) ==
    /\ On(r, "locking")
    /\ Granted(req[r].conn)
    /\ lock' = Locked(req[r].conn)
    /\ To(r, "check")
    /\ UNCHANGED <<enrichVars, conn, answers, said, ours, cast>>

\* An error in this part: the connection goes back to the pool, and if it holds the
\* lock, with the lock.
Leave(r) ==
    /\ req' = [req EXCEPT ![r].pc = AfterFailure(r), ![r].conn = Nobody]
    /\ conn' = [conn EXCEPT ![req[r].conn] = Nobody]
    /\ UNCHANGED lock

\* Mutant: statement_timeout does not end the wait for the lock.
LockTimeoutNever(r) == On(r, "locking") /\ req[r].conn = Nobody /\ Leave(r)
                       /\ UNCHANGED <<enrichVars, answers, said, ours, cast>>

LockTimeout(r) ==
    /\ On(r, "locking")
    /\ ~Granted(req[r].conn)
    /\ Leave(r)
    /\ UNCHANGED <<enrichVars, answers, said, ours, cast>>

\* Mutant: what was read before the wait for the lock is believed.
CheckNot(r) ==
    /\ On(r, "check") /\ Query
    /\ To(r, "fetch")
    /\ UNCHANGED <<enrichVars, pool, answers, said, ours, cast>>

\* Only the manual refresh is forced.
Check(r) ==
    /\ On(r, "check") /\ Query
    /\ To(r, IF req[r].kind = "discord" /\ profile[Player] = "fresh" THEN "unlock" ELSE "fetch")
    /\ UNCHANGED <<enrichVars, pool, answers, said, ours, cast>>

FetchProfile(r) ==
    /\ On(r, "fetch")
    /\ \/ Holding(r, "keep", "known") /\ UNCHANGED denied
       \/ Holding(r, "keep", "unknown") /\ denied' = denied \cup {Player}
    /\ UNCHANGED <<profile, enrichment, faults, pool, answers, said, ours, cast>>

\* The audit; an answer without the profile is an error.
KeepProfile(r) ==
    /\ On(r, "keep") /\ Query
    /\ IF req[r].got = "known" THEN To(r, "store") /\ UNCHANGED pool ELSE Leave(r)
    /\ UNCHANGED <<enrichVars, answers, said, ours, cast>>

\* upsert_profile, one transaction.
StoreProfile(r) ==
    /\ On(r, "store") /\ Query
    /\ profile' = [profile EXCEPT ![Player] = "fresh"]
    /\ ours' = TRUE
    /\ To(r, "reread")
    /\ UNCHANGED <<enrichment, denied, faults, pool, answers, said, cast>>

Reread(r) ==
    /\ On(r, "reread") /\ Query
    /\ To(r, "unlock")
    /\ UNCHANGED <<enrichVars, pool, answers, said, ours, cast>>

Unlock(r) ==
    /\ On(r, "unlock")
    /\ lock' = Unlocked
    /\ conn' = [conn EXCEPT ![req[r].conn] = Nobody]
    /\ req' = [req EXCEPT ![r].pc = AfterProfile(r), ![r].conn = Nobody]
    /\ UNCHANGED <<enrichVars, answers, said, ours, cast>>

----------------------------------------------------------------------------
\* discord: the name, and what is stale of the player.

\* The players table by name or number.  A number needs no lookup.
Resolve(r) ==
    /\ On(r, "resolve") /\ Query
    /\ IF profile[Player] # "absent" THEN To(r, "read")
       ELSE \E pc \in {"read", "cached"} : To(r, pc)
    /\ UNCHANGED <<enrichVars, pool, answers, said, ours, cast>>

Cached(r) ==
    /\ On(r, "cached") /\ Query
    /\ To(r, CASE lookup = "known" -> "read"
               [] lookup = "unknown" -> "done"
               [] OTHER -> "name")
    /\ UNCHANGED <<enrichVars, pool, answers, said, ours, cast>>

\* vendor_guard and getPlayerIdByName.
NameCall(r) ==
    /\ On(r, "name")
    /\ \/ Holding(r, "remember", "known") /\ UNCHANGED said
       \/ Holding(r, "remember", "unknown") /\ said' = said \cup {"name"}
       \/ To(r, "done") /\ UNCHANGED said
    /\ UNCHANGED <<enrichVars, pool, answers, ours, cast>>

Remember(r) ==
    /\ On(r, "remember") /\ Query
    /\ lookup' = req[r].got
    /\ To(r, IF req[r].got = "known" THEN "read" ELSE "done")
    /\ UNCHANGED <<enrichVars, pool, loadout, decks, found, history, said, ours, cast>>

\* The refresh is tried when the profile is stale and vendor_guard allows it.
ReadProfile(r) ==
    /\ On(r, "read") /\ Query
    /\ \E allowed \in BOOLEAN :
         To(r, IF profile[Player] # "fresh" /\ allowed THEN "connect" ELSE "player")
    /\ UNCHANGED <<enrichVars, pool, answers, said, ours, cast>>

PlayerRow(r) ==
    /\ On(r, "player") /\ Query
    /\ To(r, IF profile[Player] = "absent" THEN "done" ELSE "champions")
    /\ UNCHANGED <<enrichVars, pool, answers, said, ours, cast>>

----------------------------------------------------------------------------
\* refresh_champion_rows.

\* MAX(last_updated)::text ends in +00, which is not an offset of RFC 3339, and is
\* read as no time at all.
ChampionsFresh == FALSE

Champions(r) ==
    /\ On(r, "champions") /\ Query
    /\ \E allowed \in BOOLEAN :
         To(r, IF ~ChampionsFresh /\ allowed THEN "ranks" ELSE AfterChampions(r))
    /\ UNCHANGED <<enrichVars, pool, answers, said, ours, cast>>

\* getChampionRanks and its audit.
Ranks(r) ==
    /\ On(r, "ranks") /\ Query
    /\ To(r, "rows")
    /\ UNCHANGED <<enrichVars, pool, answers, said, ours, cast>>

\* The rows of player_champions, each in a statement of its own; no property looks
\* at them, and they are one step here.
Rows(r) ==
    /\ On(r, "rows") /\ Query
    /\ To(r, AfterChampions(r))
    /\ UNCHANGED <<enrichVars, pool, answers, said, ours, cast>>

----------------------------------------------------------------------------
\* getMatchHistory, forced by the manual refresh.  The relay has its own pool.

\* vendor_guard, and whether a Discord command, which reads the player's totals
\* first, wants the history.
History(r) ==
    /\ On(r, "history")
    /\ req[r].kind = "discord" => Query
    /\ \E pc \in {"recall", AfterHistory(r)} : To(r, pc)
    /\ UNCHANGED <<enrichVars, pool, answers, said, ours, cast>>

\* What is cached and fresh is the answer, and is written again.
Recall(r) ==
    /\ On(r, "recall")
    /\ IF req[r].kind = "discord" /\ history # "none" THEN Holding(r, "write", history)
       ELSE To(r, "matches")
    /\ UNCHANGED <<enrichVars, pool, answers, said, ours, cast>>

\* A profile that is private or without matches is an answer.
Matches(r) ==
    /\ On(r, "matches")
    /\ \/ Holding(r, "write", "some") /\ UNCHANGED said
       \/ Holding(r, "write", "empty") /\ said' = said \cup {"history"}
    /\ UNCHANGED <<enrichVars, pool, answers, ours, cast>>

WriteHistory(r) ==
    /\ On(r, "write")
    /\ history' = req[r].got
    /\ To(r, AfterHistory(r))
    /\ UNCHANGED <<enrichVars, pool, loadout, decks, lookup, found, said, ours, cast>>

----------------------------------------------------------------------------
\* refresh_loadout_rows.

\* vendor_guard and the cooldown.
Loadouts(r) ==
    /\ On(r, "loadouts") /\ Query
    /\ \E allowed \in BOOLEAN : To(r, IF allowed /\ ~loadout.cooling THEN "claim" ELSE "done")
    /\ UNCHANGED <<enrichVars, pool, answers, said, ours, cast>>

\* Mutant: a new row gets the default of fetched_at, now().
ClaimLoadoutsNow(r) ==
    /\ On(r, "claim") /\ Query
    /\ loadout' = [fetched |-> IF loadout.fetched = "never" THEN "fresh" ELSE loadout.fetched,
                   cooling |-> TRUE]
    /\ To(r, "decks")
    /\ UNCHANGED <<enrichVars, pool, decks, lookup, found, history, said, ours, cast>>

\* last_manual_refresh_at is set; a new row was fetched at the epoch.
ClaimLoadouts(r) ==
    /\ On(r, "claim") /\ Query
    /\ loadout' = [fetched |-> IF loadout.fetched = "never" THEN "stale" ELSE loadout.fetched,
                   cooling |-> TRUE]
    /\ To(r, "decks")
    /\ UNCHANGED <<enrichVars, pool, decks, lookup, found, history, said, ours, cast>>

\* getPlayerLoadouts, its audit, the known champions, and a transaction that writes
\* the decks of this answer.  An answer without a deck of a known champion is an
\* answer.
Decks(r) ==
    /\ On(r, "decks")
    /\ \E c \in Idle, got \in {"some", "empty"} :
         /\ conn' = [conn EXCEPT ![c] = r]
         /\ req' = [req EXCEPT ![r].pc = "delete", ![r].conn = c, ![r].got = got]
         /\ said' = IF got = "empty" THEN said \cup {"decks"} ELSE said
    /\ UNCHANGED <<enrichVars, lock, answers, ours, cast>>

\* The keys the transaction of this request has written.
Keys(r) == IF req[r].got = "some" THEN {r} ELSE {}

\* The delete sees what is committed, and spares the keys written, if any.
DeleteDecks(r) ==
    /\ On(r, "delete")
    /\ req' = [req EXCEPT ![r].pc = "commit", ![r].dels = decks \ Keys(r)]
    /\ UNCHANGED <<enrichVars, pool, answers, said, ours, cast>>

CommitDecks(r) ==
    /\ On(r, "commit")
    /\ decks' = (decks \ req[r].dels) \cup Keys(r)
    /\ loadout' = [fetched |-> "fresh", cooling |-> TRUE]
    /\ conn' = [conn EXCEPT ![req[r].conn] = Nobody]
    /\ req' = [req EXCEPT ![r].pc = "done", ![r].conn = Nobody, ![r].dels = {}]
    /\ UNCHANGED <<enrichVars, lock, lookup, found, history, said, ours, cast>>

----------------------------------------------------------------------------
\* universal_search with a remote target, run_remote_lookup.

\* The players table, then the cache of this target unless it is to be bypassed.
SearchLocal(r) ==
    /\ On(r, "search") /\ Query
    /\ \E bypass \in BOOLEAN :
         To(r, IF profile[Player] # "absent" \/ (~bypass /\ found[req[r].kind] # "none") THEN "done"
               ELSE IF req[r].kind = "search_id" THEN "batch" ELSE "ids")
    /\ UNCHANGED <<enrichVars, pool, answers, said, ours, cast>>

\* vendor_guard, and resolve_remote_player_ids with its second call.  What goes wrong
\* is remembered as an error.
RemoteIds(r) ==
    /\ On(r, "ids")
    /\ \/ To(r, "batch") /\ UNCHANGED said
       \/ Holding(r, "search_write", "miss") /\ said' = said \cup {"name"}
       \/ Holding(r, "search_write", "error") /\ UNCHANGED said
    /\ UNCHANGED <<enrichVars, pool, answers, ours, cast>>

\* getPlayerBatchLookup, the audit and upsert_remote_profiles.
RemoteProfiles(r) ==
    /\ On(r, "batch") /\ Query
    /\ \/ /\ profile' = [profile EXCEPT ![Player] = "fresh"]
          /\ Holding(r, "search_write", "hit")
          /\ UNCHANGED denied
       \/ /\ denied' = denied \cup {Player}
          /\ Holding(r, "search_write", "miss")
          /\ UNCHANGED profile
       \/ /\ Holding(r, "search_write", "error")
          /\ UNCHANGED <<profile, denied>>
    /\ UNCHANGED <<enrichment, faults, pool, answers, said, ours, cast>>

WriteSearch(r) ==
    /\ On(r, "search_write") /\ Query
    /\ found' = [found EXCEPT ![req[r].kind] = req[r].got]
    /\ To(r, "done")
    /\ UNCHANGED <<enrichVars, pool, loadout, decks, lookup, history, said, ours, cast>>

----------------------------------------------------------------------------
\* Faults and time.

\* A statement or a call fails.  refresh_profile and discord go on after a part that
\* only adds to the answer, and after an unlock that failed, which is logged.
Fails(r) ==
    /\ Fault
    /\ req[r].pc \notin {"idle", "done", "connect", "locking"}
    /\ CASE req[r].pc = "unlock" ->
              /\ req' = [req EXCEPT ![r].pc = AfterProfile(r), ![r].conn = Nobody]
              /\ conn' = [conn EXCEPT ![req[r].conn] = Nobody]
              /\ UNCHANGED lock
         [] req[r].pc \in Critical \ {"unlock"} -> Leave(r)
         [] req[r].pc \in {"delete", "commit"} ->
              /\ req' = [req EXCEPT ![r].pc = "done", ![r].conn = Nobody, ![r].dels = {}]
              /\ conn' = [conn EXCEPT ![req[r].conn] = Nobody]
              /\ UNCHANGED lock
         [] req[r].pc \in {"ranks", "rows"} ->
              To(r, AfterChampions(r)) /\ UNCHANGED pool
         [] req[r].pc \in {"recall", "matches", "write"} -> To(r, AfterHistory(r)) /\ UNCHANGED pool
         [] OTHER -> To(r, "done") /\ UNCHANGED pool
    /\ UNCHANGED <<profile, enrichment, denied, answers, said, ours, cast>>

\* The client leaves and the handler is dropped, a transaction with it.  A lock
\* statement that waits goes on without it and keeps its connection busy.
ClientLeaves(r) ==
    /\ Fault
    /\ req[r].conn # Nobody
    /\ IF On(r, "locking") THEN UNCHANGED conn ELSE conn' = [conn EXCEPT ![req[r].conn] = Nobody]
    /\ req' = [req EXCEPT ![r] = [NoRequest EXCEPT !.pc = "done"]]
    /\ UNCHANGED <<profile, enrichment, denied, lock, answers, said, ours, cast>>

\* The statement nobody waits for gets the lock, or is cancelled.
Orphan(c) == conn[c] # Nobody /\ req[conn[c]].conn # c

OrphanEnds(c) ==
    /\ Orphan(c)
    /\ lock' = IF Granted(c) THEN Locked(c) ELSE lock
    /\ conn' = [conn EXCEPT ![c] = Nobody]
    /\ UNCHANGED <<enrichVars, req, answers, said, ours, cast>>

\* A stamp or an entry gets too old.  A history that is over is not read, and
\* cleanup_player_history_retention deletes it a day later.
Aged ==
    \/ /\ loadout.cooling
       /\ loadout' = [fetched |-> IF loadout.fetched = "fresh" THEN "stale" ELSE loadout.fetched,
                      cooling |-> FALSE]
       /\ UNCHANGED <<lookup, found, history>>
    \/ lookup # "none" /\ lookup' = "none" /\ UNCHANGED <<loadout, found, history>>
    \/ \E t \in Targets : found[t] # "none" /\ found' = [found EXCEPT ![t] = "none"]
                          /\ UNCHANGED <<loadout, lookup, history>>
    \/ history # "none" /\ history' = "none" /\ UNCHANGED <<loadout, lookup, found>>

Ages == Aged /\ UNCHANGED <<enrichVars, req, pool, decks, said, ours, cast>>

TimePasses ==
    /\ \E p \in cast.players : EnrichTime(p)
    /\ ours' = (ours /\ profile'[Player] = "fresh")
    /\ UNCHANGED <<req, pool, answers, said, cast>>

----------------------------------------------------------------------------
Step(r) ==
    \/ Guard(r) \/ Connect(r) \/ LockProfile(r) \/ LockTimeout(r) \/ Check(r) \/ FetchProfile(r)
    \/ KeepProfile(r) \/ StoreProfile(r) \/ Reread(r) \/ Unlock(r)
    \/ Resolve(r) \/ Cached(r) \/ NameCall(r) \/ Remember(r) \/ ReadProfile(r) \/ PlayerRow(r)
    \/ Champions(r) \/ Ranks(r) \/ Rows(r)
    \/ History(r) \/ Recall(r) \/ Matches(r) \/ WriteHistory(r)
    \/ Loadouts(r) \/ ClaimLoadouts(r) \/ Decks(r) \/ DeleteDecks(r) \/ CommitDecks(r)
    \/ SearchLocal(r) \/ RemoteIds(r) \/ RemoteProfiles(r) \/ WriteSearch(r)

Job(w) == w \in cast.who /\ EnrichStep(w) /\ UNCHANGED refreshVars

Next ==
    \/ \E r \in Requests : Arrive(r) \/ Step(r) \/ Fails(r) \/ ClientLeaves(r)
    \/ \E w \in Workers : Job(w)
    \/ \E c \in Conns : OrphanEnds(c)
    \/ Ages \/ TimePasses

\* Statements, calls and waits for the lock have timeouts; a connection that is
\* asked for comes when one is free.  The scheduler starts the job again and again,
\* and leases end.
Fairness ==
    /\ \A r \in Requests : WF_vars(Step(r))
    /\ \A c \in Conns : WF_vars(OrphanEnds(c))
    /\ \A w \in Workers : WF_vars(w \in cast.who /\ JobStep(w) /\ UNCHANGED refreshVars)
    /\ \A p \in Players : WF_vars(LeaseOver(p) /\ UNCHANGED refreshVars)

Spec == Init /\ [][Next]_vars /\ Fairness

----------------------------------------------------------------------------
Pcs == {"idle", "done", "guard", "connect", "locking", "resolve", "cached", "name", "remember",
        "read", "player", "champions", "ranks", "rows", "history", "recall",
        "matches", "write", "loadouts", "claim", "decks", "delete", "commit", "search", "ids",
        "batch", "search_write"} \cup Critical

TypeOK ==
    /\ EnrichTypeOK
    /\ \A r \in Requests :
         /\ req[r].pc \in Pcs /\ req[r].conn \in Conns \cup {Nobody}
         /\ (req[r].conn # Nobody) = (req[r].pc \in Critical \cup {"locking", "delete", "commit"})
    /\ conn \in [Conns -> Requests \cup {Nobody}]
    /\ lock \in [by : Conns \cup {Nobody}, depth : Nat]
    /\ (lock.by = Nobody) = (lock.depth = 0)
    /\ lookup \in {"none", "known", "unknown"}
    /\ history \in {"none", "some", "empty"}
    /\ decks \subseteq Requests

\* One request at a time is between taking and giving back the profile's lock, and it
\* is the one whose connection the lock belongs to: the locks that errors and clients
\* that left leave behind in the pool never let two in.
OneRefresher ==
    \A r \in Requests : req[r].pc \in Critical =>
        /\ lock.by = req[r].conn
        /\ \A s \in Requests \ {r} : req[s].pc \notin Critical

\* A request that is not forced asks the provider only if no other refresh has made
\* the profile fresh in the meantime: freshness is read under the lock, and who has
\* waited for a refresh uses it.
NoNeedlessFetch ==
    \A r \in Requests :
        req[r].kind = "discord" /\ req[r].pc \in {"fetch", "keep", "store"} => ~ours

\* What four caches remember as missing, the provider said is missing: no error,
\* timeout or half-done answer becomes a remembered absence (the negative lookup of
\* Discord commands, the miss of a search, the empty match history, the unavailable
\* profile of the enrichment job).
NegativeIsTrue ==
    /\ lookup = "unknown" => "name" \in said
    /\ \A t \in Targets : found[t] = "miss" => "name" \in said \/ Player \in denied
    /\ history = "empty" => "history" \in said
    /\ \A p \in Players : entry[p].status = "unavailable" => p \in denied /\ p \notin audited

\* A player whose loadouts count as fresh and who has none is one of whom the provider
\* sent none that can be shown: a refresh that claimed the cooldown and failed, alone
\* or beside another one, leaves no fresh stamp over an empty set of decks.
FreshLoadoutsAreThere ==
    loadout.fetched = "fresh" /\ decks = {} => "decks" \in said

Running == {r \in Requests : req[r].pc \notin {"idle", "done"}}

\* Every request is answered, although who holds the lock needs another connection
\* while everybody who waits for the lock holds one, and although a lock may be left
\* in the pool: the statement timeout ends the waits.
RequestsEnd == Running # {} ~> Running = {}

\* The lock of a profile does what it is taken for: one refresh at a time, and none
\* that the one before has made needless.
RefreshExcludes == OneRefresher /\ NoNeedlessFetch

\* What is remembered about a player is what the provider said and the database holds,
\* whichever call or statement failed on the way.
CachesAreTrue ==
    TypeOK /\ NegativeIsTrue /\ FreshLoadoutsAreThere /\ SuccessMeansStored
=============================================================================
