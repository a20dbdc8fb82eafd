------------------------- MODULE PlayerRefreshProofs -------------------------
(* Proofs about PlayerRefresh, for any number of players, requests,           *)
(* connections, workers and faults.  RefreshInv is inductive: it says of each *)
(* request which connection and lock it has and what an answer it has not yet *)
(* written rests on (RequestKnows), of the caches what the provider must have *)
(* said for them (CachesKnow), and of each run of the enrichment job what the *)
(* players it still has to write are owed (EnrichKnows).                      *)
EXTENDS PlayerRefresh, FiniteSetTheorems, TLAPS

----------------------------------------------------------------------------
(* What the tables hold, and what a request and a run of the job know.        *)

RefreshReqs ==
    [pc : Pcs, kind : Kinds \cup {"none"}, conn : Conns \cup {Nobody},
     got : {"none", "known", "unknown", "some", "empty", "hit", "miss", "error"},
     dels : SUBSET Requests]

Entries == [status : Statuses, leased : BOOLEAN, retry : BOOLEAN]

(* What the assumptions of the modules say of the constants.                  *)
RefreshConstants ==
    /\ IsFiniteSet(Players) /\ Player \in Players /\ MaxFaults \in Nat
    /\ Nobody \notin Requests \cup Conns
    /\ \A c \in Casts : c.kinds \subseteq Kinds /\ c.players \subseteq Players

LEMMA ConstantsFit == RefreshConstants
BY RefreshAssumption, EnrichmentAssumption DEF RefreshConstants

RefreshTypes ==
    /\ RefreshConstants
    /\ profile \in [Players -> {"absent", "stale", "fresh"}]
    /\ present \subseteq Players /\ audited \subseteq Players /\ denied \subseteq Players
    /\ entry \in [Players -> Entries]
    /\ faults \in 0..MaxFaults
    /\ req \in [Requests -> RefreshReqs]
    /\ conn \in [Conns -> Requests \cup {Nobody}]
    /\ lock \in [by : Conns \cup {Nobody}, depth : Nat]
    /\ loadout \in [fetched : {"never", "stale", "fresh"}, cooling : BOOLEAN]
    /\ decks \subseteq Requests
    /\ lookup \in {"none", "known", "unknown"}
    /\ found \in [Targets -> {"none", "hit", "miss", "error"}]
    /\ history \in {"none", "some", "empty"}
    /\ ours \in BOOLEAN
    /\ cast \in Casts

(* The lock and the connection that a request has, and what an answer it has  *)
(* not yet written rests on.  That two requests are not both between taking   *)
(* and giving back the lock follows: it would be one connection, and theirs.  *)
RequestKnows(r, q) ==
    /\ (q.conn # Nobody) = (q.pc \in Critical \cup {"locking", "delete", "commit"})
    /\ q.conn # Nobody => conn[q.conn] = r
    /\ q.pc \in Critical => lock.by = q.conn
    /\ q.kind = "discord" /\ q.pc \in {"fetch", "keep", "store"} => ~ours
    /\ q.pc \in {"search", "ids", "batch", "search_write"} => q.kind \in Targets
    /\ q.pc = "remember" => /\ q.got \in {"known", "unknown"}
                            /\ q.got = "unknown" => "name" \in said
    /\ q.pc = "write" => /\ q.got \in {"some", "empty"}
                         /\ q.got = "empty" => "history" \in said
    /\ q.pc = "search_write" => /\ q.got \in {"hit", "miss", "error"}
                                /\ q.got = "miss" => "name" \in said \/ Player \in denied
    /\ q.pc \in {"delete", "commit"} => /\ q.got \in {"some", "empty"}
                                        /\ q.got = "empty" => "decks" \in said

(* The caches, of what the provider has said.                                 *)
CachesKnow ==
    /\ (lock.by = Nobody) = (lock.depth = 0)
    /\ ours => profile[Player] = "fresh"
    /\ lookup = "unknown" => "name" \in said
    /\ \A t \in Targets : found[t] = "miss" => "name" \in said \/ Player \in denied
    /\ history = "empty" => "history" \in said
    /\ FreshLoadoutsAreThere

Queue == UNION {[1 .. n -> Players] : n \in 0 .. Cardinality(Players)}

JobStates ==
    [pc : {"idle", "replay", "replaying", "replayed", "filter", "call", "audit", "persist",
           "finish", "release"},
     todo : SUBSET Players, batches : Queue,
     answer : {"none", "usable", "unusable", "not_persisted"}]

(* A run: what is said of its batch in hand, and what will be written of it.  *)
JobKnows(j) ==
    /\ j.pc \in {"replayed", "call", "audit", "persist", "finish"} => j.batches # <<>>
    /\ j.pc = "replayed" => profile[j.batches[1]] # "absent"
    /\ j.pc \in {"audit", "persist"} => j.answer \in {"usable", "unusable"}
    /\ j.pc = "finish" => /\ j.answer \in {"usable", "unusable", "not_persisted"}
                          /\ j.answer = "usable" => profile[j.batches[1]] # "absent"
    /\ j.pc \in {"audit", "persist", "finish"} /\ j.answer = "unusable" => j.batches[1] \in denied

EntriesKnow ==
    /\ SuccessMeansStored
    /\ \A p \in Players : entry[p].status = "unavailable" => p \in denied

(* Where one process runs the job: the players in its hands are those it has  *)
(* claimed, each once, so that nobody else's audit comes in between.          *)
OneWorker == \A v, w \in Workers : v = w

Working == {"filter", "call", "audit", "persist", "finish"}

AuditFits(j) ==
    j.pc \in Working =>
        /\ \A i \in DOMAIN j.batches : entry[j.batches[i]].status = "fetching"
        /\ \A i, k \in DOMAIN j.batches : j.batches[i] = j.batches[k] => i = k
        /\ j.pc \in {"persist", "finish"} /\ j.answer = "unusable" => j.batches[1] \notin audited

UnavailableKnows == \A p \in Players : entry[p].status = "unavailable" => p \notin audited

AuditKnows == UnavailableKnows /\ \A w \in Workers : AuditFits(job[w])

EnrichKnows ==
    /\ job \in [Workers -> JobStates]
    /\ \A w \in Workers : JobKnows(job[w])
    /\ EntriesKnow
    /\ OneWorker => AuditKnows

RefreshInv ==
    /\ RefreshTypes
    /\ \A r \in Requests : RequestKnows(r, req[r])
    /\ CachesKnow
    /\ EnrichKnows

----------------------------------------------------------------------------
(* The batches of a run. *)

LEMMA QueueFacts ==
    ASSUME NEW b \in Queue
    PROVE  /\ b \in Seq(Players) /\ DOMAIN b = 1 .. Len(b) /\ Len(b) \in Nat
           /\ b # <<>> => 1 \in DOMAIN b /\ b[1] \in Players /\ Head(b) = b[1]
<1>1. PICK n \in 0 .. Cardinality(Players) : b \in [1 .. n -> Players]
  BY DEF Queue
<1>. QED
  BY <1>1

----------------------------------------------------------------------------
(* Requests. *)

(* What another request knows stays true when nobody touches its connection,  *)
(* takes the lock from it or refreshes the profile beside it.                 *)
LEMMA OtherKnows ==
    ASSUME NEW s \in Requests, RequestKnows(s, req[s]), req'[s] = req[s],
           req[s].conn # Nobody => conn'[req[s].conn] = conn[req[s].conn],
           req[s].pc \in Critical => lock'.by = lock.by,
           said \subseteq said', denied \subseteq denied',
           req[s].pc \in {"fetch", "keep", "store"} => (ours' => ours)
    PROVE  RequestKnows(s, req[s])'
BY DEF RequestKnows

LEMMA RequestMoves ==
    ASSUME RefreshInv, NEW r \in Requests, NEW q \in RefreshReqs, req' = [req EXCEPT ![r] = q],
           RequestKnows(r, q)', said \subseteq said', denied \subseteq denied',
           \A s \in Requests \ {r} :
               /\ req[s].conn # Nobody => conn'[req[s].conn] = conn[req[s].conn]
               /\ req[s].pc \in Critical => lock'.by = lock.by
               /\ req[s].pc \in {"fetch", "keep", "store"} => (ours' => ours)
    PROVE  /\ req' \in [Requests -> RefreshReqs]
           /\ (\A s \in Requests : RequestKnows(s, req[s]))'
<1>1. req \in [Requests -> RefreshReqs] /\ \A s \in Requests : RequestKnows(s, req[s])
  BY DEF RefreshInv, RefreshTypes
<1>2. req' \in [Requests -> RefreshReqs]
  BY <1>1
<1>3. ASSUME NEW s \in Requests PROVE RequestKnows(s, req[s])'
  <2>1. CASE s = r
    <3>1. req'[s] = q
      BY <2>1, <1>1
    <3>. QED
      BY <2>1, <3>1 DEF RequestKnows
  <2>2. CASE s # r
    <3>1. req'[s] = req[s]
      BY <2>2, <1>1
    <3>. QED
      BY <1>1, <2>2, <3>1, OtherKnows
  <2>. QED
    BY <2>1, <2>2
<1>. QED
  BY <1>2, <1>3

(* Profiles and refusals do not go away, so the job keeps what it knows.      *)
LEMMA JobKeeps ==
    ASSUME EnrichKnows, UNCHANGED enrichment, denied \subseteq denied',
           \A p \in Players : profile[p] # "absent" => profile'[p] # "absent"
    PROVE  EnrichKnows'
<1>1. UNCHANGED <<entry, audited, job>>
  BY DEF enrichment
<1>2. ASSUME NEW w \in Workers PROVE JobKnows(job[w])'
  <2>1. JobKnows(job[w]) /\ job'[w] = job[w] /\ job[w] \in JobStates
    BY <1>1 DEF EnrichKnows
  <2>2. job[w].batches # <<>> => job[w].batches[1] \in Players
    BY <2>1, QueueFacts DEF JobStates
  <2>. QED
    BY <2>1, <2>2 DEF JobKnows
<1>3. EntriesKnow'
  BY <1>1 DEF EnrichKnows, EntriesKnow, SuccessMeansStored
<1>4. OneWorker => AuditKnows'
  BY <1>1 DEF EnrichKnows, AuditKnows, AuditFits, UnavailableKnows
<1>. QED
  BY <1>1, <1>2, <1>3, <1>4 DEF EnrichKnows

WithConn == Critical \cup {"locking", "delete", "commit"}

Gots == {"none", "known", "unknown", "some", "empty", "hit", "miss", "error"}

Answered(q, pc, got) == [q EXCEPT !.pc = pc, !.got = got]

LEMMA AnsweredFields ==
    ASSUME NEW q \in RefreshReqs, NEW pc \in Pcs, NEW got \in Gots
    PROVE  /\ Answered(q, pc, got) \in RefreshReqs
           /\ Answered(q, pc, got).pc = pc /\ Answered(q, pc, got).got = got
           /\ Answered(q, pc, got).kind = q.kind /\ Answered(q, pc, got).conn = q.conn
BY DEF Answered, RefreshReqs, Gots

LEMMA HoldingAnswers ==
    ASSUME req \in [Requests -> RefreshReqs], NEW r \in Requests, NEW pc, NEW got
    PROVE  /\ Holding(r, pc, got) => req' = [req EXCEPT ![r] = Answered(req[r], pc, got)]
           /\ To(r, pc) => req' = [req EXCEPT ![r] = Answered(req[r], pc, req[r].got)]
<1>1. req[r] \in RefreshReqs
  OBVIOUS
<1>2. [req[r] EXCEPT !.pc = pc] = [req[r] EXCEPT !.pc = pc, !.got = req[r].got]
  BY <1>1 DEF RefreshReqs
<1>. QED
  BY <1>1, <1>2 DEF Holding, To, Answered

(* A step of a request that leaves the pool and the lock alone.               *)
LEMMA AnswerMoves ==
    ASSUME RefreshInv, NEW r \in Requests, NEW pc \in Pcs, NEW got \in Gots,
           Holding(r, pc, got) \/ (To(r, pc) /\ got = req[r].got),
           UNCHANGED pool, said \subseteq said', denied \subseteq denied',
           (pc \in WithConn) = (req[r].pc \in WithConn),
           pc \in Critical => req[r].pc \in Critical, pc \in WithConn => pc \in Critical,
           req[r].kind = "discord" /\ pc \in {"fetch", "keep", "store"} => ~ours',
           pc \in {"search", "ids", "batch", "search_write"} => req[r].kind \in Targets,
           pc = "remember" => got \in {"known", "unknown"} /\ (got = "unknown" => "name" \in said'),
           pc = "write" => got \in {"some", "empty"} /\ (got = "empty" => "history" \in said'),
           pc = "search_write" => /\ got \in {"hit", "miss", "error"}
                                  /\ got = "miss" => "name" \in said' \/ Player \in denied',
           \A s \in Requests \ {r} : req[s].pc \in {"fetch", "keep", "store"} => (ours' => ours)
    PROVE  /\ req' \in [Requests -> RefreshReqs]
           /\ (\A s \in Requests : RequestKnows(s, req[s]))'
<1>1. /\ req \in [Requests -> RefreshReqs] /\ req[r] \in RefreshReqs
      /\ RequestKnows(r, req[r])
  BY DEF RefreshInv, RefreshTypes
<1>2. PICK q \in RefreshReqs : q = Answered(req[r], pc, got)
  BY <1>1, AnsweredFields
<1>3. q.pc = pc /\ q.got = got /\ q.kind = req[r].kind /\ q.conn = req[r].conn
  BY <1>1, <1>2, AnsweredFields
<1>4. req' = [req EXCEPT ![r] = q]
  BY <1>1, <1>2, HoldingAnswers
<1>5. UNCHANGED <<conn, lock>>
  BY DEF pool
<1>6. RequestKnows(r, q)'
  BY <1>1, <1>3, <1>5 DEF RequestKnows, WithConn, Critical
<1>. QED
  BY <1>4, <1>5, <1>6, RequestMoves

LEMMA FaultTypes ==
    ASSUME RefreshInv
    PROVE  faults \in 0 .. MaxFaults /\ (Fault => faults' \in 0 .. MaxFaults)
BY DEF RefreshInv, RefreshTypes, RefreshConstants, Fault

(* A step that changes only where a request is.                               *)
LEMMA Walks ==
    ASSUME RefreshInv, NEW r \in Requests, NEW pc \in Pcs, To(r, pc),
           UNCHANGED enrichVars \/ (Fault /\ UNCHANGED <<profile, enrichment, denied>>),
           UNCHANGED <<pool, answers, said, ours, cast>>,
           pc \notin {"remember", "write", "search_write"},
           (pc \in WithConn) = (req[r].pc \in WithConn),
           pc \in Critical => req[r].pc \in Critical, pc \in WithConn => pc \in Critical,
           req[r].kind = "discord" /\ pc \in {"fetch", "keep", "store"} => ~ours,
           pc \in {"search", "ids", "batch"} => req[r].kind \in Targets
    PROVE  RefreshInv'
<1>1. UNCHANGED <<profile, present, entry, audited, job, denied, conn, lock, loadout, decks,
                  lookup, found, history, said, ours, cast>>
      /\ UNCHANGED enrichment /\ faults' \in 0 .. MaxFaults
  BY FaultTypes DEF enrichVars, enrichment, pool, answers
<1>2. req[r].got \in Gots
  BY DEF RefreshInv, RefreshTypes, RefreshReqs, Gots
<1>3. req' \in [Requests -> RefreshReqs] /\ (\A s \in Requests : RequestKnows(s, req[s]))'
  <2>1. said \subseteq said' /\ denied \subseteq denied' /\ ours' = ours
    BY <1>1
  <2>. QED
    BY <1>2, <2>1, AnswerMoves
<1>4. RefreshTypes'
  BY <1>1, <1>3 DEF RefreshInv, RefreshTypes
<1>5. CachesKnow'
  BY <1>1 DEF RefreshInv, CachesKnow, FreshLoadoutsAreThere
<1>6. EnrichKnows'
  BY <1>1, JobKeeps DEF RefreshInv
<1>. QED
  BY <1>3, <1>4, <1>5, <1>6 DEF RefreshInv

(* The steps that read, or ask and keep nothing of the answer.                *)
LEMMA ReadSteps ==
    ASSUME RefreshInv, NEW r \in Requests,
           \/ Guard(r) \/ Check(r) \/ Reread(r) \/ Resolve(r) \/ Cached(r) \/ ReadProfile(r)
           \/ PlayerRow(r) \/ Champions(r) \/ Ranks(r) \/ Rows(r) \/ History(r) \/ Loadouts(r)
           \/ SearchLocal(r)
    PROVE  RefreshInv'
<1>1. RequestKnows(r, req[r]) /\ CachesKnow
  BY DEF RefreshInv
<1>2. CASE Guard(r)
  <2>1. PICK pc \in {"connect", "done"} : To(r, pc)
    BY <1>2 DEF Guard
  <2>. QED
    BY <1>2, <2>1, Walks DEF Guard, On, Pcs, Critical, WithConn
<1>3. CASE Check(r)
  <2>1. CASE req[r].kind = "discord" /\ profile[Player] = "fresh"
    <3>1. To(r, "unlock")
      BY <1>3, <2>1 DEF Check
    <3>. QED
      BY <1>3, <3>1, Walks DEF Check, On, Pcs, Critical, WithConn
  <2>2. CASE ~(req[r].kind = "discord" /\ profile[Player] = "fresh")
    <3>1. To(r, "fetch")
      BY <1>3, <2>2 DEF Check
    <3>2. req[r].kind = "discord" => ~ours
      BY <1>1, <2>2 DEF CachesKnow
    <3>. QED
      BY <1>3, <3>1, <3>2, Walks DEF Check, On, Pcs, Critical, WithConn
  <2>. QED
    BY <2>1, <2>2
<1>4. CASE Reread(r)
  BY <1>4, Walks DEF Reread, On, Pcs, Critical, WithConn
<1>5. CASE Resolve(r)
  <2>1. PICK pc \in {"read", "cached"} : To(r, pc)
    BY <1>5 DEF Resolve
  <2>. QED
    BY <1>5, <2>1, Walks DEF Resolve, On, Pcs, Critical, WithConn
<1>6. CASE Cached(r)
  <2>1. PICK pc \in {"read", "done", "name"} : To(r, pc)
    BY <1>6 DEF Cached
  <2>. QED
    BY <1>6, <2>1, Walks DEF Cached, On, Pcs, Critical, WithConn
<1>7. CASE ReadProfile(r)
  <2>1. PICK pc \in {"connect", "player"} : To(r, pc)
    BY <1>7 DEF ReadProfile
  <2>. QED
    BY <1>7, <2>1, Walks DEF ReadProfile, On, Pcs, Critical, WithConn
<1>8. CASE PlayerRow(r)
  <2>1. PICK pc \in {"done", "champions"} : To(r, pc)
    BY <1>8 DEF PlayerRow
  <2>. QED
    BY <1>8, <2>1, Walks DEF PlayerRow, On, Pcs, Critical, WithConn
<1>9. CASE Champions(r)
  <2>1. PICK pc \in {"ranks", "history", "done"} : To(r, pc)
    BY <1>9 DEF Champions, AfterChampions
  <2>. QED
    BY <1>9, <2>1, Walks DEF Champions, On, Pcs, Critical, WithConn
<1>10. CASE Ranks(r)
  BY <1>10, Walks DEF Ranks, On, Pcs, Critical, WithConn
<1>11. CASE Rows(r)
  <2>1. PICK pc \in {"history", "done"} : To(r, pc)
    BY <1>11 DEF Rows, AfterChampions
  <2>. QED
    BY <1>11, <2>1, Walks DEF Rows, On, Pcs, Critical, WithConn
<1>12. CASE History(r)
  <2>1. PICK pc \in {"recall", "champions", "done"} : To(r, pc)
    BY <1>12 DEF History, AfterHistory
  <2>. QED
    BY <1>12, <2>1, Walks DEF History, On, Pcs, Critical, WithConn
<1>13. CASE Loadouts(r)
  <2>1. PICK pc \in {"claim", "done"} : To(r, pc)
    BY <1>13 DEF Loadouts
  <2>. QED
    BY <1>13, <2>1, Walks DEF Loadouts, On, Pcs, Critical, WithConn
<1>14. CASE SearchLocal(r)
  <2>1. PICK pc \in {"done", "batch", "ids"} : To(r, pc)
    BY <1>14 DEF SearchLocal
  <2>2. req[r].kind \in Targets
    BY <1>1, <1>14 DEF RequestKnows, SearchLocal, On
  <2>. QED
    BY <1>14, <2>1, <2>2, Walks DEF SearchLocal, On, Pcs, Critical, WithConn
<1>. QED
  BY <1>2, <1>3, <1>4, <1>5, <1>6, <1>7, <1>8, <1>9, <1>10, <1>11, <1>12, <1>13, <1>14

(* The answers of the provider, on their way to a cache.                      *)
LEMMA AnswerSteps ==
    ASSUME RefreshInv, NEW r \in Requests, NEW pc \in Pcs, NEW got \in Gots,
           Holding(r, pc, got) \/ (To(r, pc) /\ got = req[r].got),
           UNCHANGED <<enrichment, faults, pool, answers, ours, cast>>,
           said \subseteq said', denied \subseteq denied', denied' \subseteq Players,
           profile' \in [Players -> {"absent", "stale", "fresh"}],
           \A p \in Players : profile[p] # "absent" => profile'[p] # "absent",
           profile[Player] = "fresh" => profile'[Player] = "fresh",
           pc \notin {"fetch", "store"}, pc = "keep" => req[r].pc = "fetch",
           (pc \in WithConn) = (req[r].pc \in WithConn),
           pc \in Critical => req[r].pc \in Critical, pc \in WithConn => pc \in Critical,
           pc \in {"search", "ids", "batch", "search_write"} => req[r].kind \in Targets,
           pc = "remember" => got \in {"known", "unknown"} /\ (got = "unknown" => "name" \in said'),
           pc = "write" => got \in {"some", "empty"} /\ (got = "empty" => "history" \in said'),
           pc = "search_write" => /\ got \in {"hit", "miss", "error"}
                                  /\ got = "miss" => "name" \in said' \/ Player \in denied'
    PROVE  RefreshInv'
<1>1. UNCHANGED <<present, entry, audited, job, faults, conn, lock, loadout, decks,
                  lookup, found, history, ours, cast>>
  BY DEF enrichment, pool, answers
<1>2. RequestKnows(r, req[r])
  BY DEF RefreshInv
<1>3. req' \in [Requests -> RefreshReqs] /\ (\A s \in Requests : RequestKnows(s, req[s]))'
  <2>1. req[r].kind = "discord" /\ pc \in {"fetch", "keep", "store"} => ~ours'
    BY <1>1, <1>2 DEF RequestKnows
  <2>2. UNCHANGED pool /\ ours' = ours
    OBVIOUS
  <2>. QED
    BY <2>1, <2>2, AnswerMoves
<1>4. RefreshTypes'
  BY <1>1, <1>3 DEF RefreshInv, RefreshTypes
<1>5. CachesKnow'
  BY <1>1 DEF RefreshInv, CachesKnow, FreshLoadoutsAreThere
<1>6. EnrichKnows'
  BY <1>1, JobKeeps DEF RefreshInv
<1>. QED
  BY <1>3, <1>4, <1>5, <1>6 DEF RefreshInv

LEMMA Positions ==
    /\ {"remember", "write", "search_write"} \subseteq Pcs
    /\ \A pc \in {"remember", "write", "search_write", "name", "recall", "matches", "ids", "batch"} :
          pc \notin WithConn /\ pc \notin Critical
    /\ {"known", "unknown", "some", "empty", "hit", "miss", "error"} \subseteq Gots
BY DEF Pcs, Critical, WithConn, Gots

LEMMA ProviderSteps ==
    ASSUME RefreshInv, NEW r \in Requests,
           FetchProfile(r) \/ NameCall(r) \/ Recall(r) \/ Matches(r) \/ RemoteIds(r) \/ RemoteProfiles(r)
    PROVE  RefreshInv'
<1>1. /\ RequestKnows(r, req[r]) /\ CachesKnow /\ req[r].got \in Gots
      /\ Player \in Players /\ denied \subseteq Players
      /\ profile \in [Players -> {"absent", "stale", "fresh"}]
      /\ history \in {"none", "some", "empty"}
  BY DEF RefreshInv, RefreshTypes, RefreshConstants, RefreshReqs, Gots
<1>2. CASE FetchProfile(r)
  <2>1. PICK got \in {"known", "unknown"} :
           Holding(r, "keep", got) /\ denied \subseteq denied' /\ denied' \subseteq Players
    BY <1>1, <1>2 DEF FetchProfile
  <2>2. /\ req[r].pc = "fetch" /\ UNCHANGED profile /\ said \subseteq said'
        /\ UNCHANGED <<enrichment, faults, pool, answers, ours, cast>>
    BY <1>2 DEF FetchProfile, On
  <2>3. /\ "keep" \in Pcs /\ got \in Gots /\ "keep" \in WithConn /\ "fetch" \in WithConn
        /\ "keep" \in Critical /\ "fetch" \in Critical
    BY <2>1 DEF Pcs, Critical, WithConn, Gots
  <2>. QED
    BY <1>1, <2>1, <2>2, <2>3, AnswerSteps
<1>3. CASE NameCall(r)
  <2>0. /\ req[r].pc = "name" /\ UNCHANGED <<profile, denied>>
        /\ UNCHANGED <<enrichment, faults, pool, answers, ours, cast>>
    BY <1>3 DEF NameCall, On, enrichVars
  <2>1. CASE To(r, "done") /\ UNCHANGED said
    BY <1>3, <2>1, Walks DEF NameCall, On, Pcs, Critical, WithConn
  <2>2. ASSUME NEW got \in {"known", "unknown"}, Holding(r, "remember", got), said \subseteq said',
               got = "unknown" => "name" \in said'
        PROVE  RefreshInv'
    BY <1>1, <2>0, <2>2, AnswerSteps, Positions
  <2>. QED
    BY <1>3, <2>1, <2>2 DEF NameCall
<1>4. CASE Recall(r)
  <2>0. /\ req[r].pc = "recall" /\ UNCHANGED <<profile, denied, said>>
        /\ UNCHANGED <<enrichment, faults, pool, answers, ours, cast>>
    BY <1>4 DEF Recall, On, enrichVars
  <2>1. CASE req[r].kind = "discord" /\ history # "none"
    <3>1. PICK got \in {"some", "empty"} : got = history
      BY <1>1, <2>1
    <3>2. Holding(r, "write", got) /\ (got = "empty" => "history" \in said')
      BY <1>1, <1>4, <2>0, <2>1, <3>1 DEF Recall, CachesKnow
    <3>. QED
      BY <1>1, <2>0, <3>2, AnswerSteps, Positions
  <2>2. CASE ~(req[r].kind = "discord" /\ history # "none")
    BY <1>4, <2>2, Walks DEF Recall, On, Pcs, Critical, WithConn
  <2>. QED
    BY <2>1, <2>2
<1>5. CASE Matches(r)
  <2>0. /\ req[r].pc = "matches" /\ UNCHANGED <<profile, denied>>
        /\ UNCHANGED <<enrichment, faults, pool, answers, ours, cast>>
    BY <1>5 DEF Matches, On, enrichVars
  <2>1. PICK got \in {"some", "empty"} :
           Holding(r, "write", got) /\ said \subseteq said' /\ (got = "empty" => "history" \in said')
    BY <1>5 DEF Matches
  <2>. QED
    BY <1>1, <2>0, <2>1, AnswerSteps, Positions
<1>6. CASE RemoteIds(r)
  <2>0. /\ req[r].pc = "ids" /\ UNCHANGED <<profile, denied>> /\ req[r].kind \in Targets
        /\ UNCHANGED <<enrichment, faults, pool, answers, ours, cast>>
    BY <1>1, <1>6 DEF RemoteIds, On, enrichVars, RequestKnows
  <2>1. CASE To(r, "batch") /\ UNCHANGED said
    BY <1>6, <2>0, <2>1, Walks DEF RemoteIds, On, Pcs, Critical, WithConn
  <2>2. ASSUME NEW got \in {"miss", "error"}, Holding(r, "search_write", got), said \subseteq said',
               got = "miss" => "name" \in said'
        PROVE  RefreshInv'
    BY <1>1, <2>0, <2>2, AnswerSteps, Positions
  <2>. QED
    BY <1>6, <2>1, <2>2 DEF RemoteIds
<1>7. CASE RemoteProfiles(r)
  <2>0. /\ req[r].pc = "batch" /\ UNCHANGED said /\ req[r].kind \in Targets
        /\ UNCHANGED <<enrichment, faults, pool, answers, ours, cast>>
    BY <1>1, <1>7 DEF RemoteProfiles, On, RequestKnows
  <2>1. PICK got \in {"hit", "miss", "error"} :
           /\ Holding(r, "search_write", got) /\ denied \subseteq denied' /\ denied' \subseteq Players
           /\ got = "miss" => Player \in denied'
           /\ profile' = profile \/ profile' = [profile EXCEPT ![Player] = "fresh"]
    BY <1>1, <1>7 DEF RemoteProfiles
  <2>2. /\ profile' \in [Players -> {"absent", "stale", "fresh"}]
        /\ \A p \in Players : profile[p] # "absent" => profile'[p] # "absent"
        /\ profile[Player] = "fresh" => profile'[Player] = "fresh"
    BY <1>1, <2>1
  <2>. QED
    BY <1>1, <2>0, <2>1, <2>2, AnswerSteps, Positions
<1>. QED
  BY <1>2, <1>3, <1>4, <1>5, <1>6, <1>7

(* A step that writes a cache.                                                *)
LEMMA WriteSteps ==
    ASSUME RefreshInv, NEW r \in Requests, NEW pc \in {"read", "done", "champions", "decks"},
           To(r, pc), req[r].pc \notin WithConn,
           UNCHANGED <<enrichVars, pool, said, ours, cast>>,
           loadout' \in [fetched : {"never", "stale", "fresh"}, cooling : BOOLEAN],
           UNCHANGED decks, lookup' \in {"none", "known", "unknown"},
           found' \in [Targets -> {"none", "hit", "miss", "error"}],
           history' \in {"none", "some", "empty"}, CachesKnow'
    PROVE  RefreshInv'
<1>1. UNCHANGED <<profile, present, entry, audited, job, denied, faults, conn, lock, said, ours, cast>>
      /\ UNCHANGED enrichment
  BY DEF enrichVars, enrichment, pool
<1>2. req[r].got \in Gots /\ pc \in Pcs /\ pc \notin WithConn /\ pc \notin Critical
  BY DEF RefreshInv, RefreshTypes, RefreshReqs, Gots, Pcs, WithConn, Critical
<1>3. req' \in [Requests -> RefreshReqs] /\ (\A s \in Requests : RequestKnows(s, req[s]))'
  <2>1. said \subseteq said' /\ denied \subseteq denied' /\ ours' = ours
    BY <1>1
  <2>. QED
    BY <1>2, <2>1, AnswerMoves
<1>4. RefreshTypes'
  BY <1>1, <1>3 DEF RefreshInv, RefreshTypes
<1>5. EnrichKnows'
  BY <1>1, JobKeeps DEF RefreshInv
<1>. QED
  BY <1>3, <1>4, <1>5 DEF RefreshInv

LEMMA CacheSteps ==
    ASSUME RefreshInv, NEW r \in Requests,
           Remember(r) \/ WriteHistory(r) \/ WriteSearch(r) \/ ClaimLoadouts(r)
    PROVE  RefreshInv'
<1>1. /\ RequestKnows(r, req[r]) /\ CachesKnow
      /\ loadout \in [fetched : {"never", "stale", "fresh"}, cooling : BOOLEAN]
      /\ lookup \in {"none", "known", "unknown"}
      /\ found \in [Targets -> {"none", "hit", "miss", "error"}]
      /\ history \in {"none", "some", "empty"}
  BY DEF RefreshInv, RefreshTypes
<1>2. CASE Remember(r)
  <2>1. PICK pc \in {"read", "done"} : To(r, pc)
    BY <1>2 DEF Remember
  <2>2. /\ req[r].pc = "remember" /\ lookup' = req[r].got
        /\ UNCHANGED <<loadout, decks, found, history>>
        /\ UNCHANGED <<enrichVars, pool, said, ours, cast>>
    BY <1>2 DEF Remember, On
  <2>3. req[r].got \in {"known", "unknown"} /\ (req[r].got = "unknown" => "name" \in said)
    BY <1>1, <2>2 DEF RequestKnows
  <2>4. UNCHANGED <<profile, denied, lock>>
    BY <2>2 DEF enrichVars, pool
  <2>5. CachesKnow'
    BY <1>1, <2>2, <2>3, <2>4 DEF CachesKnow, FreshLoadoutsAreThere
  <2>. QED
    BY <1>1, <2>1, <2>2, <2>3, <2>5, WriteSteps DEF WithConn, Critical
<1>3. CASE WriteHistory(r)
  <2>1. PICK pc \in {"champions", "done"} : To(r, pc)
    BY <1>3 DEF WriteHistory, AfterHistory
  <2>2. /\ req[r].pc = "write" /\ history' = req[r].got
        /\ UNCHANGED <<loadout, decks, found, lookup>>
        /\ UNCHANGED <<enrichVars, pool, said, ours, cast>>
    BY <1>3 DEF WriteHistory, On
  <2>3. req[r].got \in {"some", "empty"} /\ (req[r].got = "empty" => "history" \in said)
    BY <1>1, <2>2 DEF RequestKnows
  <2>4. UNCHANGED <<profile, denied, lock>>
    BY <2>2 DEF enrichVars, pool
  <2>5. CachesKnow'
    BY <1>1, <2>2, <2>3, <2>4 DEF CachesKnow, FreshLoadoutsAreThere
  <2>. QED
    BY <1>1, <2>1, <2>2, <2>3, <2>5, WriteSteps DEF WithConn, Critical
<1>4. CASE WriteSearch(r)
  <2>1. /\ req[r].pc = "search_write" /\ found' = [found EXCEPT ![req[r].kind] = req[r].got]
        /\ UNCHANGED <<loadout, decks, lookup, history>> /\ To(r, "done")
        /\ UNCHANGED <<enrichVars, pool, said, ours, cast>>
    BY <1>4 DEF WriteSearch, On
  <2>2. PICK got \in {"hit", "miss", "error"} : got = req[r].got
    BY <1>1, <2>1 DEF RequestKnows
  <2>3. got = "miss" => "name" \in said \/ Player \in denied
    BY <1>1, <2>1, <2>2 DEF RequestKnows
  <2>4. UNCHANGED <<profile, denied, lock>>
    BY <2>1 DEF enrichVars, pool
  <2>5. /\ found' \in [Targets -> {"none", "hit", "miss", "error"}]
        /\ \A t \in Targets : found'[t] = found[t] \/ found'[t] = got
    BY <1>1, <2>1, <2>2
  <2>6. \A t \in Targets : found'[t] = "miss" => "name" \in said \/ Player \in denied
    BY <1>1, <2>3, <2>5 DEF CachesKnow
  <2>7. CachesKnow'
    BY <1>1, <2>1, <2>4, <2>6 DEF CachesKnow, FreshLoadoutsAreThere
  <2>. QED
    BY <1>1, <2>1, <2>5, <2>7, WriteSteps DEF WithConn, Critical
<1>5. CASE ClaimLoadouts(r)
  <2>1. /\ req[r].pc = "claim" /\ UNCHANGED <<lookup, decks, found, history>> /\ To(r, "decks")
        /\ loadout' = [fetched |-> IF loadout.fetched = "never" THEN "stale" ELSE loadout.fetched,
                       cooling |-> TRUE]
        /\ UNCHANGED <<enrichVars, pool, said, ours, cast>>
    BY <1>5 DEF ClaimLoadouts, On
  <2>2. UNCHANGED <<profile, denied, lock>>
    BY <2>1 DEF enrichVars, pool
  <2>3. /\ loadout' \in [fetched : {"never", "stale", "fresh"}, cooling : BOOLEAN]
        /\ loadout'.fetched = "fresh" => loadout.fetched = "fresh"
    BY <1>1, <2>1
  <2>4. CachesKnow'
    BY <1>1, <2>1, <2>2, <2>3 DEF CachesKnow, FreshLoadoutsAreThere
  <2>. QED
    BY <1>1, <2>1, <2>3, <2>4, WriteSteps DEF WithConn, Critical
<1>. QED
  BY <1>2, <1>3, <1>4, <1>5

----------------------------------------------------------------------------
(* The lock and the connections. *)

(* Two requests never have one connection, and so never both the lock.        *)
LEMMA Apart ==
    ASSUME RefreshInv, NEW r \in Requests, NEW s \in Requests \ {r}
    PROVE  /\ req[r].conn # Nobody => req[s].conn # req[r].conn
           /\ req[r].pc \in Critical => req[s].pc \notin Critical
<1>1. RequestKnows(r, req[r]) /\ RequestKnows(s, req[s])
  BY DEF RefreshInv
<1>. QED
  BY <1>1 DEF RequestKnows

LEMMA ArriveStep ==
    ASSUME RefreshInv, NEW r \in Requests, Arrive(r)
    PROVE  RefreshInv'
<1>1. UNCHANGED <<profile, present, entry, audited, job, denied, faults, conn, lock, loadout, decks,
                  lookup, found, history, said, ours, cast>> /\ UNCHANGED enrichment
  BY DEF Arrive, enrichVars, enrichment, pool, answers
<1>2. /\ req \in [Requests -> RefreshReqs] /\ req[r] \in RefreshReqs /\ RequestKnows(r, req[r])
      /\ cast.kinds \subseteq Kinds
  BY DEF RefreshInv, RefreshTypes, RefreshConstants
<1>3. PICK kind \in Kinds : req' = [req EXCEPT ![r].pc = First[kind], ![r].kind = kind]
  BY <1>2 DEF Arrive
<1>4. /\ First[kind] \in {"guard", "resolve", "search", "champions", "loadouts"}
      /\ First[kind] = "search" => kind \in Targets
  BY DEF First, Kinds, Targets
<1>5. PICK pc : pc = First[kind]
  OBVIOUS
<1>6. pc \in Pcs /\ pc \notin WithConn /\ pc \notin Critical
  BY <1>4, <1>5 DEF Pcs, WithConn, Critical
<1>7. PICK q : q = [req[r] EXCEPT !.pc = pc, !.kind = kind]
  OBVIOUS
<1>8. /\ q \in RefreshReqs /\ q.pc = pc /\ q.kind = kind /\ q.conn = req[r].conn
      /\ req' = [req EXCEPT ![r] = q]
  BY <1>2, <1>3, <1>5, <1>6, <1>7 DEF RefreshReqs
<1>9. req[r].conn = Nobody
  BY <1>2 DEF RequestKnows, Arrive, On, Critical
<1>10. RequestKnows(r, q)'
  BY <1>4, <1>5, <1>6, <1>8, <1>9 DEF RequestKnows, WithConn
<1>11. req' \in [Requests -> RefreshReqs] /\ (\A s \in Requests : RequestKnows(s, req[s]))'
  <2>1. said \subseteq said' /\ denied \subseteq denied' /\ ours' = ours /\ conn' = conn /\ lock' = lock
    BY <1>1
  <2>. QED
    BY <1>8, <1>10, <2>1, RequestMoves
<1>12. RefreshTypes'
  BY <1>1, <1>11 DEF RefreshInv, RefreshTypes
<1>13. CachesKnow'
  BY <1>1 DEF RefreshInv, CachesKnow, FreshLoadoutsAreThere
<1>14. EnrichKnows'
  BY <1>1, JobKeeps DEF RefreshInv
<1>. QED
  BY <1>11, <1>12, <1>13, <1>14 DEF RefreshInv

(* Taking a connection from the pool.                                         *)
LEMMA TakeSteps ==
    ASSUME RefreshInv, NEW r \in Requests, Connect(r) \/ Decks(r)
    PROVE  RefreshInv'
<1>1. UNCHANGED <<profile, present, entry, audited, job, denied, faults, lock, loadout, decks,
                  lookup, found, history, ours, cast>> /\ UNCHANGED enrichment
  BY DEF Connect, Decks, enrichVars, enrichment, answers
<1>2. /\ req \in [Requests -> RefreshReqs] /\ req[r] \in RefreshReqs /\ RequestKnows(r, req[r])
      /\ conn \in [Conns -> Requests \cup {Nobody}] /\ Nobody \notin Requests \cup Conns
  BY DEF RefreshInv, RefreshTypes, RefreshConstants
<1>3. PICK c \in Conns, pc \in {"locking", "delete"}, got \in Gots :
         /\ conn[c] = Nobody /\ conn' = [conn EXCEPT ![c] = r]
         /\ req' = [req EXCEPT ![r] = [req[r] EXCEPT !.pc = pc, !.conn = c, !.got = got]]
         /\ said \subseteq said'
         /\ pc = "delete" => got \in {"some", "empty"} /\ (got = "empty" => "decks" \in said')
  <2>1. CASE Connect(r)
    <3>1. PICK c \in Idle : /\ conn' = [conn EXCEPT ![c] = r]
                            /\ req' = [req EXCEPT ![r].pc = "locking", ![r].conn = c]
      BY <2>1 DEF Connect
    <3>2. PICK got \in Gots : got = req[r].got
      BY <1>2 DEF RefreshReqs, Gots
    <3>3. [req[r] EXCEPT !.pc = "locking", !.conn = c]
             = [req[r] EXCEPT !.pc = "locking", !.conn = c, !.got = got]
      BY <1>2, <3>2 DEF RefreshReqs
    <3>4. said' = said /\ c \in Conns /\ conn[c] = Nobody
      BY <2>1 DEF Connect, Idle
    <3>5. req' = [req EXCEPT ![r] = [req[r] EXCEPT !.pc = "locking", !.conn = c, !.got = got]]
      BY <1>2, <3>1, <3>3
    <3>. QED
      BY <3>1, <3>4, <3>5
  <2>2. CASE Decks(r)
    <3>1. PICK c \in Idle, got \in {"some", "empty"} :
             /\ conn' = [conn EXCEPT ![c] = r]
             /\ req' = [req EXCEPT ![r].pc = "delete", ![r].conn = c, ![r].got = got]
             /\ said' = IF got = "empty" THEN said \cup {"decks"} ELSE said
      BY <2>2 DEF Decks
    <3>2. c \in Conns /\ conn[c] = Nobody /\ got \in Gots
      BY DEF Idle, Gots
    <3>3. req' = [req EXCEPT ![r] = [req[r] EXCEPT !.pc = "delete", !.conn = c, !.got = got]]
      BY <1>2, <3>1
    <3>. QED
      BY <3>1, <3>2, <3>3
  <2>. QED
    BY <2>1, <2>2
<1>4. pc \in Pcs /\ pc \in WithConn /\ pc \notin Critical
  BY <1>3 DEF Pcs, WithConn, Critical
<1>5. PICK q : q = [req[r] EXCEPT !.pc = pc, !.conn = c, !.got = got]
  OBVIOUS
<1>6. /\ q \in RefreshReqs /\ q.pc = pc /\ q.kind = req[r].kind /\ q.conn = c /\ q.got = got
      /\ req' = [req EXCEPT ![r] = q]
  BY <1>2, <1>3, <1>4, <1>5 DEF RefreshReqs, Gots
<1>7. conn' \in [Conns -> Requests \cup {Nobody}] /\ conn'[c] = r
  BY <1>2, <1>3
<1>8. RequestKnows(r, q)'
  BY <1>2, <1>3, <1>4, <1>6, <1>7 DEF RequestKnows, WithConn
<1>9. ASSUME NEW s \in Requests \ {r}, req[s].conn # Nobody PROVE conn'[req[s].conn] = conn[req[s].conn]
  <2>1. conn[req[s].conn] = s /\ req[s].conn \in Conns
    BY <1>2, <1>9 DEF RefreshInv, RequestKnows, RefreshReqs
  <2>. QED
    BY <1>2, <1>3, <2>1
<1>10. req' \in [Requests -> RefreshReqs] /\ (\A s \in Requests : RequestKnows(s, req[s]))'
  <2>1. said \subseteq said' /\ denied \subseteq denied' /\ ours' = ours /\ lock' = lock
    BY <1>1, <1>3
  <2>. QED
    BY <1>6, <1>8, <1>9, <2>1, RequestMoves
<1>11. RefreshTypes'
  BY <1>1, <1>7, <1>10 DEF RefreshInv, RefreshTypes
<1>12. CachesKnow'
  BY <1>1, <1>3 DEF RefreshInv, CachesKnow, FreshLoadoutsAreThere
<1>13. EnrichKnows'
  BY <1>1, JobKeeps DEF RefreshInv
<1>. QED
  BY <1>10, <1>11, <1>12, <1>13 DEF RefreshInv

LEMMA LockTypes ==
    ASSUME RefreshInv, NEW c \in Conns
    PROVE  /\ Locked(c) \in [by : Conns \cup {Nobody}, depth : Nat]
           /\ Locked(c).by = c /\ Locked(c).depth # 0 /\ c # Nobody
           /\ lock.by # Nobody => /\ Unlocked \in [by : Conns \cup {Nobody}, depth : Nat]
                                  /\ (Unlocked.by = Nobody) = (Unlocked.depth = 0)
<1>1. /\ lock \in [by : Conns \cup {Nobody}, depth : Nat]
      /\ (lock.by = Nobody) = (lock.depth = 0) /\ Nobody \notin Conns
  BY DEF RefreshInv, RefreshTypes, RefreshConstants, CachesKnow
<1>2. lock.depth + 1 \in Nat /\ lock.depth + 1 # 0
  BY <1>1
<1>3. /\ Locked(c) \in [by : Conns \cup {Nobody}, depth : Nat]
      /\ Locked(c).by = c /\ Locked(c).depth # 0 /\ c # Nobody
  BY <1>1, <1>2 DEF Locked
<1>4. CASE lock.depth > 1
  <2>1. lock.depth - 1 \in Nat /\ lock.depth - 1 # 0
    BY <1>1, <1>4
  <2>2. /\ Unlocked = [lock EXCEPT !.depth = lock.depth - 1]
        /\ Unlocked.by = lock.by /\ Unlocked.depth = lock.depth - 1
    BY <1>1, <1>4 DEF Unlocked
  <2>. QED
    BY <1>1, <1>3, <2>1, <2>2
<1>5. CASE ~(lock.depth > 1)
  BY <1>1, <1>3, <1>5 DEF Unlocked
<1>. QED
  BY <1>4, <1>5

(* Whoever is granted the lock finds nobody between taking and giving it back, *)
(* unless it is himself: a connection has one owner.                          *)
LEMMA NobodyInside ==
    ASSUME RefreshInv, NEW c \in Conns, Granted(c), NEW s \in Requests, req[s].pc \in Critical
    PROVE  req[s].conn = c /\ conn[c] = s
<1>1. RequestKnows(s, req[s]) /\ Nobody \notin Conns
  BY DEF RefreshInv, RefreshTypes, RefreshConstants
<1>. QED
  BY <1>1 DEF RequestKnows, Granted

LEMMA LockStep ==
    ASSUME RefreshInv, NEW r \in Requests, LockProfile(r)
    PROVE  RefreshInv'
<1>1. UNCHANGED <<profile, present, entry, audited, job, denied, faults, conn, loadout, decks,
                  lookup, found, history, said, ours, cast>> /\ UNCHANGED enrichment
  BY DEF LockProfile, enrichVars, enrichment, answers
<1>2. /\ req \in [Requests -> RefreshReqs] /\ req[r] \in RefreshReqs /\ RequestKnows(r, req[r])
      /\ conn \in [Conns -> Requests \cup {Nobody}] /\ Nobody \notin Conns
  BY DEF RefreshInv, RefreshTypes, RefreshConstants
<1>3. PICK c \in Conns : c = req[r].conn
  BY <1>2 DEF LockProfile, On, RequestKnows, RefreshReqs
<1>4. Granted(c) /\ lock' = Locked(c) /\ req' = [req EXCEPT ![r].pc = "check"] /\ req[r].pc = "locking"
  BY <1>3 DEF LockProfile, To, On
<1>5. PICK q : q = [req[r] EXCEPT !.pc = "check"]
  OBVIOUS
<1>6. /\ q \in RefreshReqs /\ q.pc = "check" /\ q.kind = req[r].kind /\ q.conn = c
      /\ req' = [req EXCEPT ![r] = q]
  BY <1>2, <1>3, <1>4, <1>5 DEF RefreshReqs, Pcs, Critical
<1>7. conn[c] = r
  BY <1>2, <1>3 DEF RequestKnows
<1>8. RequestKnows(r, q)'
  BY <1>1, <1>2, <1>4, <1>6, <1>7, LockTypes DEF RequestKnows, Critical
<1>9. ASSUME NEW s \in Requests \ {r} PROVE req[s].pc \notin Critical
  BY <1>4, <1>7, NobodyInside
<1>10. req' \in [Requests -> RefreshReqs] /\ (\A s \in Requests : RequestKnows(s, req[s]))'
  <2>1. said \subseteq said' /\ denied \subseteq denied' /\ ours' = ours /\ conn' = conn
    BY <1>1
  <2>. QED
    BY <1>6, <1>8, <1>9, <2>1, RequestMoves
<1>11. RefreshTypes'
  BY <1>1, <1>4, <1>10, LockTypes DEF RefreshInv, RefreshTypes
<1>12. CachesKnow'
  BY <1>1, <1>4, LockTypes DEF RefreshInv, CachesKnow, FreshLoadoutsAreThere
<1>13. EnrichKnows'
  BY <1>1, JobKeeps DEF RefreshInv
<1>. QED
  BY <1>10, <1>11, <1>12, <1>13 DEF RefreshInv

(* upsert_profile: whoever stores is alone, and nobody else is about to ask.   *)
LEMMA StoreStep ==
    ASSUME RefreshInv, NEW r \in Requests, StoreProfile(r)
    PROVE  RefreshInv'
<1>1. UNCHANGED <<present, entry, audited, job, denied, faults, conn, lock, loadout, decks,
                  lookup, found, history, said, cast>> /\ UNCHANGED enrichment /\ UNCHANGED pool
  BY DEF StoreProfile, enrichment, answers, pool
<1>2. /\ profile \in [Players -> {"absent", "stale", "fresh"}] /\ Player \in Players
      /\ req[r].got \in Gots
  BY DEF RefreshInv, RefreshTypes, RefreshConstants, RefreshReqs, Gots
<1>3. To(r, "reread") /\ req[r].pc = "store" /\ ours' = TRUE
      /\ profile' = [profile EXCEPT ![Player] = "fresh"]
  BY DEF StoreProfile, On
<1>4. /\ "reread" \in Pcs /\ "reread" \in WithConn /\ "store" \in WithConn
      /\ "reread" \in Critical /\ "store" \in Critical
      /\ "fetch" \in Critical /\ "keep" \in Critical
  BY DEF Pcs, WithConn, Critical
<1>5. \A s \in Requests \ {r} : req[s].pc \notin Critical
  BY <1>3, <1>4, Apart
<1>6. req' \in [Requests -> RefreshReqs] /\ (\A s \in Requests : RequestKnows(s, req[s]))'
  <2>1. said \subseteq said' /\ denied \subseteq denied'
    BY <1>1
  <2>2. \A s \in Requests \ {r} : req[s].pc \in {"fetch", "keep", "store"} => (ours' => ours)
    BY <1>4, <1>5
  <2>. QED
    BY <1>1, <1>2, <1>3, <1>4, <2>1, <2>2, AnswerMoves
<1>7. /\ profile' \in [Players -> {"absent", "stale", "fresh"}] /\ profile'[Player] = "fresh"
      /\ \A p \in Players : profile[p] # "absent" => profile'[p] # "absent"
  BY <1>2, <1>3
<1>8. RefreshTypes'
  BY <1>1, <1>3, <1>6, <1>7 DEF RefreshInv, RefreshTypes
<1>9. CachesKnow'
  BY <1>1, <1>7 DEF RefreshInv, CachesKnow, FreshLoadoutsAreThere
<1>10. EnrichKnows'
  BY <1>1, <1>7, JobKeeps DEF RefreshInv
<1>. QED
  BY <1>6, <1>8, <1>9, <1>10 DEF RefreshInv

(* Giving a connection back, with the lock or without; or leaving a statement *)
(* behind on it.                                                              *)
LEMMA ReleaseSteps ==
    ASSUME RefreshInv, NEW r \in Requests, req[r].conn # Nobody,
           NEW q \in RefreshReqs, req' = [req EXCEPT ![r] = q], q.conn = Nobody,
           q.pc \in {"done", "player", "history"},
           conn' = conn \/ conn' = [conn EXCEPT ![req[r].conn] = Nobody],
           lock' = lock \/ (req[r].pc \in Critical /\ lock' = Unlocked),
           UNCHANGED <<profile, enrichment, denied, lookup, found, history, said, ours, cast>>,
           faults' \in 0 .. MaxFaults, decks' \subseteq Requests,
           loadout' \in [fetched : {"never", "stale", "fresh"}, cooling : BOOLEAN],
           FreshLoadoutsAreThere'
    PROVE  RefreshInv'
<1>1. UNCHANGED <<profile, present, entry, audited, job, denied, lookup, found, history, said, ours, cast>>
  BY DEF enrichment
<1>2. /\ req \in [Requests -> RefreshReqs] /\ req[r] \in RefreshReqs /\ RequestKnows(r, req[r])
      /\ conn \in [Conns -> Requests \cup {Nobody}] /\ Nobody \notin Requests \cup Conns
  BY DEF RefreshInv, RefreshTypes, RefreshConstants
<1>3. PICK c \in Conns : c = req[r].conn
  BY <1>2 DEF RefreshReqs
<1>4. RequestKnows(r, q)'
  BY DEF RequestKnows, Critical
<1>5. ASSUME NEW s \in Requests \ {r}
      PROVE  /\ req[s].conn # Nobody => conn'[req[s].conn] = conn[req[s].conn]
             /\ req[s].pc \in Critical => lock'.by = lock.by
  <2>1. req[s].conn # c /\ req[s].conn \in Conns \cup {Nobody}
    BY <1>2, <1>3, Apart DEF RefreshReqs
  <2>2. req[r].pc \in Critical => req[s].pc \notin Critical
    BY Apart
  <2>. QED
    BY <1>2, <1>3, <2>1, <2>2
<1>6. req' \in [Requests -> RefreshReqs] /\ (\A s \in Requests : RequestKnows(s, req[s]))'
  <2>1. said \subseteq said' /\ denied \subseteq denied' /\ ours' = ours
    BY <1>1
  <2>2. \A s \in Requests \ {r} :
           /\ req[s].conn # Nobody => conn'[req[s].conn] = conn[req[s].conn]
           /\ req[s].pc \in Critical => lock'.by = lock.by
           /\ req[s].pc \in {"fetch", "keep", "store"} => (ours' => ours)
    BY <1>5, <2>1
  <2>. QED
    BY <1>4, <2>1, <2>2, RequestMoves
<1>7. conn' \in [Conns -> Requests \cup {Nobody}]
  BY <1>2
<1>8. lock' \in [by : Conns \cup {Nobody}, depth : Nat] /\ (lock'.by = Nobody) = (lock'.depth = 0)
  <2>1. CASE lock' = lock
    BY <2>1 DEF RefreshInv, RefreshTypes, CachesKnow
  <2>2. CASE req[r].pc \in Critical /\ lock' = Unlocked
    <3>1. lock.by # Nobody
      BY <1>2, <2>2 DEF RequestKnows
    <3>. QED
      BY <1>3, <2>2, <3>1, LockTypes
  <2>. QED
    BY <2>1, <2>2
<1>9. RefreshTypes'
  BY <1>1, <1>6, <1>7, <1>8 DEF RefreshInv, RefreshTypes
<1>10. CachesKnow'
  BY <1>1, <1>8 DEF RefreshInv, CachesKnow
<1>11. EnrichKnows'
  BY <1>1, JobKeeps DEF RefreshInv
<1>. QED
  BY <1>6, <1>9, <1>10, <1>11 DEF RefreshInv

LEMMA LeaveSteps ==
    ASSUME RefreshInv, NEW r \in Requests, req[r].conn # Nobody, Leave(r),
           UNCHANGED <<profile, enrichment, denied, answers, said, ours, cast>>,
           faults' \in 0 .. MaxFaults
    PROVE  RefreshInv'
<1>1. req \in [Requests -> RefreshReqs] /\ req[r] \in RefreshReqs
  BY DEF RefreshInv, RefreshTypes
<1>2. PICK pc \in {"player", "done"} : pc = AfterFailure(r)
  BY DEF AfterFailure
<1>3. PICK q : q = [req[r] EXCEPT !.pc = pc, !.conn = Nobody]
  OBVIOUS
<1>4. pc \in Pcs
  BY <1>2 DEF Pcs
<1>5. q \in RefreshReqs /\ q.pc = pc /\ q.conn = Nobody /\ req' = [req EXCEPT ![r] = q]
  BY <1>1, <1>2, <1>3, <1>4 DEF RefreshReqs, Leave
<1>6. /\ conn' = [conn EXCEPT ![req[r].conn] = Nobody] /\ lock' = lock
      /\ UNCHANGED <<loadout, decks, lookup, found, history>>
  BY DEF Leave, answers
<1>7. /\ decks' \subseteq Requests /\ FreshLoadoutsAreThere'
      /\ loadout' \in [fetched : {"never", "stale", "fresh"}, cooling : BOOLEAN]
  BY <1>6 DEF RefreshInv, RefreshTypes, CachesKnow, FreshLoadoutsAreThere
<1>. QED
  BY <1>2, <1>5, <1>6, <1>7, ReleaseSteps

LEMMA UnlockSteps ==
    ASSUME RefreshInv, NEW r \in Requests, req[r].pc = "unlock",
           req' = [req EXCEPT ![r].pc = AfterProfile(r), ![r].conn = Nobody],
           conn' = [conn EXCEPT ![req[r].conn] = Nobody], lock' = lock \/ lock' = Unlocked,
           UNCHANGED <<profile, enrichment, denied, answers, said, ours, cast>>,
           faults' \in 0 .. MaxFaults
    PROVE  RefreshInv'
<1>1. req \in [Requests -> RefreshReqs] /\ req[r] \in RefreshReqs /\ RequestKnows(r, req[r])
  BY DEF RefreshInv, RefreshTypes
<1>2. req[r].conn # Nobody /\ req[r].pc \in Critical
  BY <1>1 DEF RequestKnows, Critical
<1>3. PICK pc \in {"player", "history"} : pc = AfterProfile(r)
  BY DEF AfterProfile
<1>4. PICK q : q = [req[r] EXCEPT !.pc = pc, !.conn = Nobody]
  OBVIOUS
<1>5. pc \in Pcs
  BY <1>3 DEF Pcs
<1>6. q \in RefreshReqs /\ q.pc = pc /\ q.conn = Nobody /\ req' = [req EXCEPT ![r] = q]
  BY <1>1, <1>3, <1>4, <1>5 DEF RefreshReqs
<1>7. UNCHANGED <<loadout, decks, lookup, found, history>>
  BY DEF answers
<1>8. /\ decks' \subseteq Requests /\ FreshLoadoutsAreThere'
      /\ loadout' \in [fetched : {"never", "stale", "fresh"}, cooling : BOOLEAN]
  BY <1>7 DEF RefreshInv, RefreshTypes, CachesKnow, FreshLoadoutsAreThere
<1>. QED
  BY <1>2, <1>3, <1>6, <1>7, <1>8, ReleaseSteps

(* The end of the transaction that writes the decks, well or not.             *)
LEMMA DeckSteps ==
    ASSUME RefreshInv, NEW r \in Requests, req[r].pc \in {"delete", "commit"},
           req' = [req EXCEPT ![r].pc = "done", ![r].conn = Nobody, ![r].dels = {}],
           conn' = [conn EXCEPT ![req[r].conn] = Nobody], lock' = lock,
           UNCHANGED <<profile, enrichment, denied, lookup, found, history, said, ours, cast>>,
           faults' \in 0 .. MaxFaults,
           \/ UNCHANGED <<loadout, decks>>
           \/ /\ decks' = (decks \ req[r].dels) \cup Keys(r)
              /\ loadout' = [fetched |-> "fresh", cooling |-> TRUE]
    PROVE  RefreshInv'
<1>1. req \in [Requests -> RefreshReqs] /\ req[r] \in RefreshReqs /\ RequestKnows(r, req[r])
  BY DEF RefreshInv, RefreshTypes
<1>2. req[r].conn # Nobody
  BY <1>1 DEF RequestKnows
<1>3. PICK q : q = [req[r] EXCEPT !.pc = "done", !.conn = Nobody, !.dels = {}]
  OBVIOUS
<1>4. "done" \in Pcs
  BY DEF Pcs
<1>5. q \in RefreshReqs /\ q.pc = "done" /\ q.conn = Nobody /\ req' = [req EXCEPT ![r] = q]
  BY <1>1, <1>3, <1>4 DEF RefreshReqs
<1>6. /\ decks' \subseteq Requests /\ FreshLoadoutsAreThere'
      /\ loadout' \in [fetched : {"never", "stale", "fresh"}, cooling : BOOLEAN]
  <2>1. CASE UNCHANGED <<loadout, decks>>
    BY <2>1 DEF RefreshInv, RefreshTypes, CachesKnow, FreshLoadoutsAreThere
  <2>2. CASE /\ decks' = (decks \ req[r].dels) \cup Keys(r)
             /\ loadout' = [fetched |-> "fresh", cooling |-> TRUE]
    <3>1. decks \subseteq Requests
      BY DEF RefreshInv, RefreshTypes
    <3>2. decks' \subseteq Requests /\ (decks' = {} => "decks" \in said')
      <4>1. req[r].got = "some" \/ "decks" \in said
        BY <1>1 DEF RequestKnows
      <4>2. Keys(r) \subseteq {r} /\ (req[r].got = "some" => Keys(r) = {r})
        BY DEF Keys
      <4>3. said' = said
        OBVIOUS
      <4>. QED
        BY <2>2, <3>1, <4>1, <4>2, <4>3
    <3>3. loadout' \in [fetched : {"never", "stale", "fresh"}, cooling : BOOLEAN]
      BY <2>2
    <3>. QED
      BY <3>2, <3>3 DEF FreshLoadoutsAreThere
  <2>. QED
    BY <2>1, <2>2
<1>. QED
  BY <1>2, <1>5, <1>6, ReleaseSteps

LEMMA DeleteStep ==
    ASSUME RefreshInv, NEW r \in Requests, DeleteDecks(r)
    PROVE  RefreshInv'
<1>1. UNCHANGED <<profile, present, entry, audited, job, denied, faults, conn, lock, loadout, decks,
                  lookup, found, history, said, ours, cast>> /\ UNCHANGED enrichment
  BY DEF DeleteDecks, enrichVars, enrichment, pool, answers
<1>2. /\ req \in [Requests -> RefreshReqs] /\ req[r] \in RefreshReqs /\ RequestKnows(r, req[r])
      /\ decks \subseteq Requests
  BY DEF RefreshInv, RefreshTypes
<1>3. PICK q : q = [req[r] EXCEPT !.pc = "commit", !.dels = decks \ Keys(r)]
  OBVIOUS
<1>4. "commit" \in Pcs /\ "commit" \notin Critical /\ decks \ Keys(r) \in SUBSET Requests
  BY <1>2 DEF Pcs, Critical
<1>5. /\ q \in RefreshReqs /\ q.pc = "commit" /\ q.conn = req[r].conn /\ q.got = req[r].got
      /\ req' = [req EXCEPT ![r] = q]
  BY <1>2, <1>3, <1>4 DEF RefreshReqs, DeleteDecks
<1>6. req[r].pc = "delete"
  BY DEF DeleteDecks, On
<1>7. RequestKnows(r, q)'
  BY <1>1, <1>2, <1>4, <1>5, <1>6 DEF RequestKnows
<1>8. req' \in [Requests -> RefreshReqs] /\ (\A s \in Requests : RequestKnows(s, req[s]))'
  <2>1. said \subseteq said' /\ denied \subseteq denied' /\ ours' = ours /\ conn' = conn /\ lock' = lock
    BY <1>1
  <2>. QED
    BY <1>5, <1>7, <2>1, RequestMoves
<1>9. RefreshTypes'
  BY <1>1, <1>8 DEF RefreshInv, RefreshTypes
<1>10. CachesKnow'
  BY <1>1 DEF RefreshInv, CachesKnow, FreshLoadoutsAreThere
<1>11. EnrichKnows'
  BY <1>1, JobKeeps DEF RefreshInv
<1>. QED
  BY <1>8, <1>9, <1>10, <1>11 DEF RefreshInv

LEMMA PoolSteps ==
    ASSUME RefreshInv, NEW r \in Requests,
           LockTimeout(r) \/ KeepProfile(r) \/ Unlock(r) \/ CommitDecks(r)
    PROVE  RefreshInv'
<1>1. RequestKnows(r, req[r])
  BY DEF RefreshInv
<1>2. faults \in 0 .. MaxFaults
  BY FaultTypes
<1>3. CASE LockTimeout(r)
  <2>1. /\ Leave(r) /\ UNCHANGED faults
        /\ UNCHANGED <<profile, enrichment, denied, answers, said, ours, cast>>
    BY <1>3 DEF LockTimeout, enrichVars
  <2>2. req[r].conn # Nobody
    BY <1>1, <1>3 DEF LockTimeout, On, RequestKnows
  <2>. QED
    BY <1>2, <2>1, <2>2, LeaveSteps
<1>4. CASE KeepProfile(r)
  <2>1. CASE req[r].got = "known"
    <3>1. To(r, "store") /\ UNCHANGED pool
      BY <1>4, <2>1 DEF KeepProfile
    <3>2. req[r].kind = "discord" => ~ours
      BY <1>1, <1>4 DEF KeepProfile, On, RequestKnows
    <3>3. UNCHANGED <<enrichVars, answers, said, ours, cast>> /\ req[r].pc = "keep"
      BY <1>4 DEF KeepProfile, On
    <3>. QED
      BY <3>1, <3>2, <3>3, Walks DEF Pcs, Critical, WithConn
  <2>2. CASE req[r].got # "known"
    <3>1. /\ Leave(r) /\ UNCHANGED faults
          /\ UNCHANGED <<profile, enrichment, denied, answers, said, ours, cast>>
      BY <1>4, <2>2 DEF KeepProfile, enrichVars
    <3>2. req[r].conn # Nobody
      BY <1>1, <1>4 DEF KeepProfile, On, RequestKnows, Critical
    <3>. QED
      BY <1>2, <3>1, <3>2, LeaveSteps
  <2>. QED
    BY <2>1, <2>2
<1>5. CASE Unlock(r)
  <2>1. UNCHANGED faults /\ UNCHANGED <<profile, enrichment, denied, answers, said, ours, cast>>
    BY <1>5 DEF Unlock, enrichVars
  <2>. QED
    BY <1>2, <1>5, <2>1, UnlockSteps DEF Unlock, On
<1>6. CASE CommitDecks(r)
  <2>1. UNCHANGED <<profile, enrichment, denied, lookup, found, history, said, ours, cast>>
        /\ UNCHANGED faults
    BY <1>6 DEF CommitDecks, enrichVars
  <2>. QED
    BY <1>2, <1>6, <2>1, DeckSteps DEF CommitDecks, On
<1>. QED
  BY <1>3, <1>4, <1>5, <1>6

(* A statement or a call that fails.                                          *)
LEMMA FailStep ==
    ASSUME RefreshInv, NEW r \in Requests, Fails(r)
    PROVE  RefreshInv'
<1>1. /\ RequestKnows(r, req[r]) /\ Fault /\ faults' \in 0 .. MaxFaults
      /\ UNCHANGED <<profile, enrichment, denied, answers, said, ours, cast>>
  BY FaultTypes DEF RefreshInv, Fails
<1>2. CASE req[r].pc = "unlock"
  <2>1. /\ req' = [req EXCEPT ![r].pc = AfterProfile(r), ![r].conn = Nobody]
        /\ conn' = [conn EXCEPT ![req[r].conn] = Nobody]
        /\ lock' = lock
    BY <1>2 DEF Fails
  <2>. QED
    BY <1>1, <1>2, <2>1, UnlockSteps
<1>3. CASE req[r].pc \in Critical \ {"unlock"}
  <2>1. Leave(r) /\ req[r].conn # Nobody
    BY <1>1, <1>3 DEF Fails, RequestKnows, Critical
  <2>. QED
    BY <1>1, <2>1, LeaveSteps
<1>4. CASE req[r].pc \in {"delete", "commit"}
  <2>1. /\ req' = [req EXCEPT ![r].pc = "done", ![r].conn = Nobody, ![r].dels = {}]
        /\ conn' = [conn EXCEPT ![req[r].conn] = Nobody]
        /\ lock' = lock
    BY <1>4 DEF Fails, Critical
  <2>2. UNCHANGED <<loadout, decks, lookup, found, history>>
    BY <1>1 DEF answers
  <2>. QED
    BY <1>1, <1>4, <2>1, <2>2, DeckSteps
<1>5. CASE req[r].pc \notin Critical \cup {"delete", "commit"}
  <2>1. PICK pc \in {"done", "history", "champions"} : To(r, pc) /\ UNCHANGED pool
    BY <1>5 DEF Fails, Critical, AfterChampions, AfterHistory
  <2>2. req[r].pc \notin WithConn
    BY <1>5 DEF Fails, WithConn
  <2>3. pc \in Pcs /\ pc \notin WithConn /\ pc \notin Critical
    BY <2>1 DEF Pcs, WithConn, Critical
  <2>. QED
    BY <1>1, <2>1, <2>2, <2>3, Walks
<1>. QED
  BY <1>2, <1>3, <1>4, <1>5

LEMMA ClientStep ==
    ASSUME RefreshInv, NEW r \in Requests, ClientLeaves(r)
    PROVE  RefreshInv'
<1>1. /\ faults' \in 0 .. MaxFaults
      /\ UNCHANGED <<profile, enrichment, denied, lock, answers, said, ours, cast>>
      /\ conn' = conn \/ conn' = [conn EXCEPT ![req[r].conn] = Nobody]
      /\ req[r].conn # Nobody
  BY FaultTypes DEF ClientLeaves
<1>2. PICK q : q = [NoRequest EXCEPT !.pc = "done"]
  OBVIOUS
<1>3. q \in RefreshReqs /\ q.pc = "done" /\ q.conn = Nobody /\ req' = [req EXCEPT ![r] = q]
  BY <1>2 DEF NoRequest, RefreshReqs, Pcs, ClientLeaves
<1>4. UNCHANGED <<loadout, decks, lookup, found, history>>
  BY <1>1 DEF answers
<1>5. /\ decks' \subseteq Requests /\ FreshLoadoutsAreThere'
      /\ loadout' \in [fetched : {"never", "stale", "fresh"}, cooling : BOOLEAN]
  BY <1>1, <1>4 DEF RefreshInv, RefreshTypes, CachesKnow, FreshLoadoutsAreThere
<1>. QED
  BY <1>1, <1>3, <1>4, <1>5, ReleaseSteps

(* The lock statement that a client left behind.  If it gets the lock, nobody *)
(* is inside: who is would own its connection.                                *)
LEMMA OrphanStep ==
    ASSUME RefreshInv, NEW c \in Conns, OrphanEnds(c)
    PROVE  RefreshInv'
<1>1. UNCHANGED <<profile, present, entry, audited, job, denied, faults, req, loadout, decks,
                  lookup, found, history, said, ours, cast>> /\ UNCHANGED enrichment
  BY DEF OrphanEnds, enrichVars, enrichment, answers
<1>2. /\ conn \in [Conns -> Requests \cup {Nobody}] /\ req \in [Requests -> RefreshReqs]
      /\ conn' = [conn EXCEPT ![c] = Nobody] /\ req[conn[c]].conn # c
  BY DEF RefreshInv, RefreshTypes, OrphanEnds, Orphan
<1>3. ASSUME NEW s \in Requests PROVE RequestKnows(s, req[s])'
  <2>1. RequestKnows(s, req[s]) /\ req[s].conn \in Conns \cup {Nobody}
    BY <1>2 DEF RefreshInv, RefreshReqs
  <2>2. req[s].conn # c
    BY <1>2, <2>1 DEF RequestKnows, RefreshInv, RefreshTypes, RefreshConstants
  <2>3. req[s].pc \in Critical => ~Granted(c)
    BY <2>2, NobodyInside
  <2>4. req[s].pc \in Critical => lock'.by = lock.by
    BY <2>3 DEF OrphanEnds
  <2>5. req[s].conn # Nobody => conn'[req[s].conn] = conn[req[s].conn]
    BY <1>2, <2>1, <2>2
  <2>6. said \subseteq said' /\ denied \subseteq denied' /\ ours' = ours /\ req'[s] = req[s]
    BY <1>1
  <2>. QED
    BY <2>1, <2>4, <2>5, <2>6, OtherKnows
<1>4. lock' \in [by : Conns \cup {Nobody}, depth : Nat] /\ (lock'.by = Nobody) = (lock'.depth = 0)
  BY LockTypes DEF OrphanEnds, RefreshInv, RefreshTypes, CachesKnow
<1>5. RefreshTypes'
  BY <1>1, <1>2, <1>4 DEF RefreshInv, RefreshTypes
<1>6. CachesKnow'
  BY <1>1, <1>4 DEF RefreshInv, CachesKnow, FreshLoadoutsAreThere
<1>7. EnrichKnows'
  BY <1>1, JobKeeps DEF RefreshInv
<1>. QED
  BY <1>3, <1>5, <1>6, <1>7 DEF RefreshInv

----------------------------------------------------------------------------
(* The job, and time. *)

LEMMA CountFacts ==
    ASSUME RefreshConstants
    PROVE  /\ Cardinality(Players) \in Nat /\ Cardinality(Players) # 0
           /\ \A S \in SUBSET Players : /\ Cardinality(S) \in Nat
                                        /\ Cardinality(S) <= Cardinality(Players)
<1>1. IsFiniteSet(Players) /\ Players # {}
  BY DEF RefreshConstants
<1>2. Cardinality(Players) \in Nat /\ Cardinality(Players) # 0
  BY <1>1, FS_CardinalityType, FS_EmptySet
<1>3. \A S \in SUBSET Players : IsFiniteSet(S) /\ Cardinality(S) <= Cardinality(Players)
  BY <1>1, FS_Subset
<1>. QED
  BY <1>2, <1>3, FS_CardinalityType

LEMMA QueueMakes ==
    ASSUME RefreshConstants
    PROVE  /\ <<>> \in Queue
           /\ \A p \in Players : /\ <<p>> \in Queue /\ <<p>> # <<>> /\ <<p>>[1] = p
           /\ \A S \in SUBSET Players : \A order \in Orders(S) :
                 /\ order \in Queue
                 /\ \A i, k \in DOMAIN order : order[i] = order[k] => i = k
                 /\ \A i \in DOMAIN order : order[i] \in S
<1>1. /\ Cardinality(Players) \in Nat /\ Cardinality(Players) # 0
      /\ \A S \in SUBSET Players : /\ Cardinality(S) \in Nat
                                   /\ Cardinality(S) <= Cardinality(Players)
  BY CountFacts
<1>2. <<>> \in Queue
  <2>1. 0 \in 0 .. Cardinality(Players) /\ <<>> \in [1 .. 0 -> Players]
    BY <1>1
  <2>. QED
    BY <2>1 DEF Queue
<1>3. ASSUME NEW p \in Players PROVE <<p>> \in Queue /\ <<p>> # <<>> /\ <<p>>[1] = p
  <2>1. 1 \in 0 .. Cardinality(Players) /\ <<p>> \in [1 .. 1 -> Players]
    BY <1>1
  <2>2. <<p>> \in Queue
    BY <2>1 DEF Queue
  <2>. QED
    BY <2>2
<1>4. ASSUME NEW S \in SUBSET Players, NEW order \in Orders(S)
      PROVE  /\ order \in Queue
             /\ \A i, k \in DOMAIN order : order[i] = order[k] => i = k
             /\ \A i \in DOMAIN order : order[i] \in S
  <2>1. Cardinality(S) \in 0 .. Cardinality(Players)
    BY <1>1
  <2>2. order \in [1 .. Cardinality(S) -> S]
    BY DEF Orders
  <2>3. order \in [1 .. Cardinality(S) -> Players]
    BY <2>2
  <2>4. order \in Queue
    BY <2>1, <2>3 DEF Queue
  <2>. QED
    BY <2>2, <2>4 DEF Orders
<1>. QED
  BY <1>2, <1>3, <1>4

LEMMA SeqIsFunction ==
    ASSUME NEW S, NEW s \in Seq(S), NEW n \in Nat, Len(s) = n
    PROVE  s \in [1 .. n -> S]
OBVIOUS

LEMMA TailFacts ==
    ASSUME NEW b \in Queue, b # <<>>, RefreshConstants
    PROVE  /\ Tail(b) \in Queue
           /\ \A i \in DOMAIN Tail(b) : i + 1 \in DOMAIN b /\ Tail(b)[i] = b[i + 1] /\ i \in Nat \ {0}
<1>1. PICK n \in 0 .. Cardinality(Players) : b \in [1 .. n -> Players]
  BY DEF Queue
<1>2. Cardinality(Players) \in Nat
  BY CountFacts
<1>3. b \in Seq(Players) /\ Len(b) = n /\ n # 0
  BY <1>1, <1>2
<1>4. /\ Tail(b) \in [1 .. n - 1 -> Players] /\ n - 1 \in 0 .. Cardinality(Players)
      /\ \A i \in 1 .. n - 1 : Tail(b)[i] = b[i + 1]
  <2>1. n \in Nat /\ n - 1 \in 0 .. Cardinality(Players)
    BY <1>1, <1>2, <1>3
  <2>2. Tail(b) \in Seq(Players) /\ Len(Tail(b)) = n - 1 /\ n - 1 \in Nat
    BY <1>3, <2>1
  <2>3. \A i \in 1 .. n - 1 : Tail(b)[i] = b[i + 1]
    BY <1>3, <2>1
  <2>4. Tail(b) \in [1 .. n - 1 -> Players]
    BY <2>2, SeqIsFunction
  <2>. QED
    BY <2>1, <2>3, <2>4
<1>5. Tail(b) \in Queue
  BY <1>4 DEF Queue
<1>. QED
  BY <1>1, <1>2, <1>4, <1>5

(* A step of the job or of time, which requests do not see but for the        *)
(* profile and what the provider has said.                                    *)
LEMMA JobMoves ==
    ASSUME RefreshInv, UNCHANGED <<req, pool, answers, said, cast>>,
           ours' \in BOOLEAN, ours' => ours /\ profile'[Player] = "fresh",
           profile' \in [Players -> {"absent", "stale", "fresh"}],
           present' \subseteq Players, audited' \subseteq Players,
           denied \subseteq denied', denied' \subseteq Players,
           entry' \in [Players -> Entries], faults' \in 0 .. MaxFaults, EnrichKnows'
    PROVE  RefreshInv'
<1>1. UNCHANGED <<req, conn, lock, loadout, decks, lookup, found, history, said, cast>>
  BY DEF pool, answers
<1>2. ASSUME NEW s \in Requests PROVE RequestKnows(s, req[s])'
  <2>1. RequestKnows(s, req[s])
    BY DEF RefreshInv
  <2>2. said \subseteq said' /\ req'[s] = req[s] /\ conn' = conn /\ lock' = lock /\ (ours' => ours)
    BY <1>1
  <2>. QED
    BY <2>1, <2>2, OtherKnows
<1>3. RefreshTypes'
  BY <1>1 DEF RefreshInv, RefreshTypes
<1>4. CachesKnow'
  BY <1>1 DEF RefreshInv, CachesKnow, FreshLoadoutsAreThere
<1>. QED
  BY <1>2, <1>3, <1>4 DEF RefreshInv

LEMMA AgeStep ==
    ASSUME RefreshInv, Ages
    PROVE  RefreshInv'
<1>1. UNCHANGED <<profile, present, entry, audited, job, denied, faults, req, conn, lock, decks,
                  said, ours, cast>> /\ UNCHANGED enrichment
  BY DEF Ages, enrichVars, enrichment, pool
<1>2. /\ loadout \in [fetched : {"never", "stale", "fresh"}, cooling : BOOLEAN]
      /\ lookup \in {"none", "known", "unknown"}
      /\ found \in [Targets -> {"none", "hit", "miss", "error"}]
      /\ history \in {"none", "some", "empty"}
  BY DEF RefreshInv, RefreshTypes
<1>3. /\ loadout' \in [fetched : {"never", "stale", "fresh"}, cooling : BOOLEAN]
      /\ loadout'.fetched = "fresh" => loadout.fetched = "fresh"
      /\ lookup' \in {"none", lookup} /\ history' \in {"none", history}
      /\ found' \in [Targets -> {"none", "hit", "miss", "error"}]
      /\ \A t \in Targets : found'[t] \in {"none", found[t]}
  <2>1. CASE /\ loadout.cooling
             /\ loadout' = [fetched |-> IF loadout.fetched = "fresh" THEN "stale" ELSE loadout.fetched,
                            cooling |-> FALSE]
             /\ UNCHANGED <<lookup, found, history>>
    BY <1>2, <2>1
  <2>2. CASE lookup' = "none" /\ UNCHANGED <<loadout, found, history>>
    BY <1>2, <2>2
  <2>3. CASE \E t \in Targets : found' = [found EXCEPT ![t] = "none"]
                                /\ UNCHANGED <<loadout, lookup, history>>
    BY <1>2, <2>3
  <2>4. CASE history' = "none" /\ UNCHANGED <<loadout, lookup, found>>
    BY <1>2, <2>4
  <2>. QED
    BY <2>1, <2>2, <2>3, <2>4 DEF Ages, Aged
<1>4. ASSUME NEW s \in Requests PROVE RequestKnows(s, req[s])'
  <2>1. RequestKnows(s, req[s])
    BY DEF RefreshInv
  <2>. QED
    BY <1>1, <2>1 DEF RequestKnows
<1>5. RefreshTypes'
  BY <1>1, <1>2, <1>3 DEF RefreshInv, RefreshTypes
<1>6. CachesKnow'
  BY <1>1, <1>3 DEF RefreshInv, CachesKnow, FreshLoadoutsAreThere
<1>7. EnrichKnows'
  BY <1>1, JobKeeps DEF RefreshInv
<1>. QED
  BY <1>4, <1>5, <1>6, <1>7 DEF RefreshInv

LEMMA EntryFields ==
    ASSUME NEW e \in Entries
    PROVE  /\ e.status \in Statuses /\ e.leased \in BOOLEAN /\ e.retry \in BOOLEAN
           /\ [e EXCEPT !.leased = FALSE] \in Entries /\ [e EXCEPT !.leased = FALSE].status = e.status
           /\ [e EXCEPT !.retry = TRUE] \in Entries /\ [e EXCEPT !.retry = TRUE].status = e.status
BY DEF Entries

(* Time changes no status, keeps profiles, and only takes audits away.        *)
LEMMA TimeKeeps ==
    ASSUME EnrichKnows, UNCHANGED <<job, denied>>, audited' \subseteq audited,
           \A p \in Players : /\ profile[p] # "absent" => profile'[p] # "absent"
                              /\ entry'[p].status = entry[p].status
    PROVE  EnrichKnows'
<1>1. ASSUME NEW w \in Workers
      PROVE  job[w] \in JobStates /\ JobKnows(job[w])' /\ (OneWorker => AuditFits(job[w])')
  <2>1. JobKnows(job[w]) /\ job'[w] = job[w] /\ job[w] \in JobStates
    BY DEF EnrichKnows
  <2>2. \A i \in DOMAIN job[w].batches : job[w].batches[i] \in Players
    BY <2>1, QueueFacts DEF JobStates
  <2>3. job[w].batches # <<>> => job[w].batches[1] \in Players
    BY <2>1, QueueFacts DEF JobStates
  <2>4. JobKnows(job[w])'
    BY <2>1, <2>3 DEF JobKnows
  <2>5. OneWorker => AuditFits(job[w])
    BY DEF EnrichKnows, AuditKnows
  <2>6. OneWorker => AuditFits(job[w])'
    BY <2>1, <2>2, <2>5 DEF AuditFits
  <2>. QED
    BY <2>1, <2>4, <2>6
<1>2. EntriesKnow'
  BY DEF EnrichKnows, EntriesKnow, SuccessMeansStored
<1>3. OneWorker => UnavailableKnows'
  BY DEF EnrichKnows, AuditKnows, UnavailableKnows
<1>4. OneWorker => AuditKnows'
  BY <1>1, <1>3 DEF AuditKnows
<1>. QED
  BY <1>1, <1>2, <1>4 DEF EnrichKnows

LEMMA TimeStep ==
    ASSUME RefreshInv, TimePasses
    PROVE  RefreshInv'
<1>1. /\ UNCHANGED <<req, pool, answers, said, cast>>
      /\ ours' = (ours /\ profile'[Player] = "fresh")
      /\ ours' \in BOOLEAN /\ (ours' => ours /\ profile'[Player] = "fresh")
  BY DEF TimePasses, RefreshInv, RefreshTypes
<1>2. PICK p \in Players : EnrichTime(p)
  BY DEF TimePasses, RefreshInv, RefreshTypes, RefreshConstants
<1>3. /\ profile \in [Players -> {"absent", "stale", "fresh"}] /\ entry \in [Players -> Entries]
      /\ present \subseteq Players /\ audited \subseteq Players /\ denied \subseteq Players
      /\ faults \in 0 .. MaxFaults /\ EnrichKnows
  BY DEF RefreshInv, RefreshTypes
<1>4. /\ UNCHANGED <<job, denied, faults>>
      /\ present' \subseteq present /\ audited' \subseteq audited
  BY <1>2 DEF EnrichTime, LeaseOver, RetryTime, ProfileExpires, WrittenElsewhere, Leaves, enrichment
<1>5. /\ profile' \in [Players -> {"absent", "stale", "fresh"}]
      /\ \A x \in Players : profile[x] # "absent" => profile'[x] # "absent"
  BY <1>2, <1>3 DEF EnrichTime, LeaseOver, RetryTime, ProfileExpires, WrittenElsewhere, Leaves
<1>6. /\ entry' \in [Players -> Entries]
      /\ \A x \in Players : entry'[x].status = entry[x].status
  <2>1. PICK e \in Entries : e.status = entry[p].status
                             /\ (entry' = entry \/ entry' = [entry EXCEPT ![p] = e])
    <3>1. entry[p] \in Entries
      BY <1>3
    <3>2. CASE LeaseOver(p)
      BY <3>1, <3>2, EntryFields DEF LeaseOver
    <3>3. CASE RetryTime(p)
      BY <3>1, <3>3, EntryFields DEF RetryTime
    <3>4. CASE UNCHANGED entry
      BY <3>1, <3>4
    <3>. QED
      BY <1>2, <3>2, <3>3, <3>4 DEF EnrichTime, ProfileExpires, WrittenElsewhere, Leaves, enrichment
  <2>. QED
    BY <1>3, <2>1
<1>7. EnrichKnows'
  BY <1>3, <1>4, <1>5, <1>6, TimeKeeps
<1>8. /\ present' \subseteq Players /\ audited' \subseteq Players
      /\ denied \subseteq denied' /\ denied' \subseteq Players /\ faults' \in 0 .. MaxFaults
  BY <1>3, <1>4
<1>. QED
  BY <1>1, <1>5, <1>6, <1>7, <1>8, JobMoves

(* A step of one run.                                                         *)
LEMMA RunMoves ==
    ASSUME RefreshInv, NEW w \in Workers, UNCHANGED refreshVars,
           NEW j \in JobStates, job' = [job EXCEPT ![w] = j], JobKnows(j)',
           profile' \in [Players -> {"absent", "stale", "fresh"}],
           \A p \in Players : profile'[p] = profile[p] \/ profile'[p] = "fresh",
           present' \subseteq Players, audited' \subseteq Players,
           denied \subseteq denied', denied' \subseteq Players,
           entry' \in [Players -> Entries], faults' \in 0 .. MaxFaults,
           EntriesKnow', OneWorker => UnavailableKnows' /\ AuditFits(j)'
    PROVE  RefreshInv'
<1>1. EnrichKnows /\ UNCHANGED <<req, pool, answers, said, ours, cast>>
  BY DEF RefreshInv, refreshVars
<1>2. job' \in [Workers -> JobStates] /\ job'[w] = j
  BY <1>1 DEF EnrichKnows
<1>3. ASSUME NEW v \in Workers PROVE JobKnows(job[v])'
  <2>1. CASE v = w
    BY <1>2, <2>1 DEF JobKnows
  <2>2. CASE v # w
    <3>1. JobKnows(job[v]) /\ job'[v] = job[v] /\ job[v] \in JobStates
      BY <1>1, <2>2 DEF EnrichKnows
    <3>2. job[v].batches # <<>> => job[v].batches[1] \in Players
      BY <3>1, QueueFacts DEF JobStates
    <3>. QED
      BY <3>1, <3>2 DEF JobKnows
  <2>. QED
    BY <2>1, <2>2
<1>4. OneWorker => AuditKnows'
  <2>1. ASSUME OneWorker, NEW v \in Workers PROVE AuditFits(job[v])'
    <3>1. v = w /\ job'[v] = j
      BY <1>2, <2>1 DEF OneWorker
    <3>. QED
      BY <2>1, <3>1 DEF AuditFits
  <2>. QED
    BY <2>1 DEF AuditKnows
<1>5. EnrichKnows'
  BY <1>2, <1>3, <1>4 DEF EnrichKnows
<1>6. ours' \in BOOLEAN /\ (ours' => ours /\ profile'[Player] = "fresh")
  BY <1>1 DEF RefreshInv, RefreshTypes, RefreshConstants, CachesKnow
<1>. QED
  BY <1>1, <1>5, <1>6, JobMoves

LEMMA RunFacts ==
    ASSUME RefreshInv, NEW w \in Workers
    PROVE  /\ job \in [Workers -> JobStates] /\ job[w] \in JobStates
           /\ JobKnows(job[w]) /\ EntriesKnow
           /\ OneWorker => UnavailableKnows /\ AuditFits(job[w])
           /\ profile \in [Players -> {"absent", "stale", "fresh"}] /\ entry \in [Players -> Entries]
           /\ present \subseteq Players /\ audited \subseteq Players /\ denied \subseteq Players
           /\ faults \in 0 .. MaxFaults /\ RefreshConstants
           /\ job[w].batches \in Queue /\ job[w].todo \subseteq Players
           /\ job[w].answer \in {"none", "usable", "unusable", "not_persisted"}
           /\ job[w].batches # <<>> => /\ job[w].batches[1] \in Players
                                       /\ 1 \in DOMAIN job[w].batches
                                       /\ Batch(w) = job[w].batches[1]
<1>1. job \in [Workers -> JobStates] /\ job[w] \in JobStates
  BY DEF RefreshInv, EnrichKnows
<1>2. job[w].batches \in Queue /\ job[w].todo \subseteq Players
      /\ job[w].answer \in {"none", "usable", "unusable", "not_persisted"}
  BY <1>1 DEF JobStates
<1>3. job[w].batches # <<>> => /\ job[w].batches[1] \in Players /\ 1 \in DOMAIN job[w].batches
                               /\ Batch(w) = job[w].batches[1]
  BY <1>2, QueueFacts DEF Batch
<1>. QED
  BY <1>1, <1>2, <1>3 DEF RefreshInv, RefreshTypes, EnrichKnows, AuditKnows

LEMMA EntryTypes ==
    \A status \in Statuses :
        /\ Entry(status) \in Entries /\ Entry(status).status = status
        /\ [Entry(status) EXCEPT !.leased = TRUE] \in Entries
        /\ [Entry(status) EXCEPT !.leased = TRUE].status = status
        /\ [Entry(status) EXCEPT !.retry = TRUE] \in Entries
        /\ [Entry(status) EXCEPT !.retry = TRUE].status = status
BY DEF Entry, Entries

LEMMA StatusNames ==
    {"none", "pending", "fetching", "success", "unavailable", "failed", "skipped_recent"} \subseteq Statuses
BY DEF Statuses

LEMMA ReconcileStep ==
    ASSUME RefreshInv, NEW w \in Workers, Reconcile(w), UNCHANGED refreshVars
    PROVE  RefreshInv'
<1>1. PICK j : j = [job[w] EXCEPT !.pc = "replay"]
  OBVIOUS
<1>2. /\ j \in JobStates /\ j.pc = "replay" /\ job' = [job EXCEPT ![w] = j]
  BY <1>1, RunFacts DEF Reconcile, Go, JobStates
<1>3. UNCHANGED <<profile, entry, audited, denied, faults>> /\ present' \subseteq Players
  BY RunFacts DEF Reconcile
<1>4. JobKnows(j)' /\ (AuditFits(j))'
  BY <1>2 DEF JobKnows, AuditFits, Working
<1>5. EntriesKnow' /\ (OneWorker => UnavailableKnows')
  BY <1>3, RunFacts DEF EntriesKnow, SuccessMeansStored, UnavailableKnows
<1>. QED
  BY <1>2, <1>3, <1>4, <1>5, RunFacts, RunMoves

LEMMA ReplayQueryStep ==
    ASSUME RefreshInv, NEW w \in Workers, ReplayQuery(w), UNCHANGED refreshVars
    PROVE  RefreshInv'
<1>1. PICK todo \in SUBSET Players : todo = Replayable
  BY RunFacts DEF Replayable
<1>2. PICK j : j = [job[w] EXCEPT !.pc = "replaying", !.todo = todo]
  OBVIOUS
<1>3. /\ j \in JobStates /\ j.pc = "replaying" /\ job' = [job EXCEPT ![w] = j]
  <2>1. j \in JobStates /\ j.pc = "replaying"
    BY <1>2, RunFacts DEF JobStates
  <2>. QED
    BY <1>1, <1>2, <2>1, RunFacts DEF ReplayQuery
<1>4. UNCHANGED <<profile, present, entry, audited, denied, faults>>
  BY DEF ReplayQuery
<1>5. JobKnows(j)' /\ (AuditFits(j))'
  BY <1>3 DEF JobKnows, AuditFits, Working
<1>6. EntriesKnow' /\ (OneWorker => UnavailableKnows')
  BY <1>4, RunFacts DEF EntriesKnow, SuccessMeansStored, UnavailableKnows
<1>. QED
  BY <1>3, <1>4, <1>5, <1>6, RunFacts, RunMoves

LEMMA ReplayPersistStep ==
    ASSUME RefreshInv, NEW w \in Workers, NEW p \in Players, ReplayPersist(w, p), UNCHANGED refreshVars
    PROVE  RefreshInv'
<1>1. /\ UNCHANGED <<present, entry, audited, denied>> /\ faults' \in 0 .. MaxFaults
      /\ job[w].pc = "replaying"
  BY RunFacts, FaultTypes DEF ReplayPersist, At
<1>2. CASE /\ profile' = [profile EXCEPT ![p] = "fresh"]
           /\ job' = [job EXCEPT ![w].pc = "replayed", ![w].todo = @ \ {p}, ![w].batches = <<p>>]
  <2>1. PICK j : j = [job[w] EXCEPT !.pc = "replayed", !.todo = @ \ {p}, !.batches = <<p>>]
    OBVIOUS
  <2>2. <<p>> \in Queue /\ <<p>> # <<>> /\ <<p>>[1] = p
    BY RunFacts, QueueMakes
  <2>3. job[w].todo \ {p} \in SUBSET Players
    BY RunFacts
  <2>4. /\ j \in JobStates /\ j.pc = "replayed" /\ j.batches = <<p>> /\ job' = [job EXCEPT ![w] = j]
    <3>1. PICK b \in Queue : b = <<p>>
      BY <2>2
    <3>2. PICK todo \in SUBSET Players : todo = job[w].todo \ {p}
      BY <2>3
    <3>3. j = [job[w] EXCEPT !.pc = "replayed", !.todo = todo, !.batches = b]
      BY <2>1, <3>1, <3>2
    <3>4. j \in JobStates /\ j.pc = "replayed" /\ j.batches = b
      BY <3>3, RunFacts DEF JobStates
    <3>5. job' = [job EXCEPT ![w] = j]
      BY <1>2, <2>1, RunFacts
    <3>. QED
      BY <3>1, <3>4, <3>5
  <2>5. /\ profile' \in [Players -> {"absent", "stale", "fresh"}] /\ profile'[p] = "fresh"
        /\ \A x \in Players : profile'[x] = profile[x] \/ profile'[x] = "fresh"
    BY <1>2, RunFacts
  <2>6. JobKnows(j)' /\ (AuditFits(j))'
    BY <2>2, <2>4, <2>5 DEF JobKnows, AuditFits, Working
  <2>7. EntriesKnow' /\ (OneWorker => UnavailableKnows')
    BY <1>1, <2>5, RunFacts DEF EntriesKnow, SuccessMeansStored, UnavailableKnows
  <2>. QED
    BY <1>1, <2>4, <2>5, <2>6, <2>7, RunFacts, RunMoves
<1>3. CASE job' = [job EXCEPT ![w].todo = @ \ {p}] /\ UNCHANGED profile
  <2>1. PICK j : j = [job[w] EXCEPT !.todo = @ \ {p}]
    OBVIOUS
  <2>2. job[w].todo \ {p} \in SUBSET Players
    BY RunFacts
  <2>3. /\ j \in JobStates /\ j.pc = "replaying" /\ job' = [job EXCEPT ![w] = j]
    BY <1>1, <1>3, <2>1, <2>2, RunFacts DEF JobStates
  <2>4. JobKnows(j)' /\ (AuditFits(j))'
    BY <2>3 DEF JobKnows, AuditFits, Working
  <2>5. EntriesKnow' /\ (OneWorker => UnavailableKnows')
    BY <1>1, <1>3, RunFacts DEF EntriesKnow, SuccessMeansStored, UnavailableKnows
  <2>. QED
    BY <1>1, <1>3, <2>3, <2>4, <2>5, RunFacts, RunMoves
<1>. QED
  BY <1>2, <1>3 DEF ReplayPersist

LEMMA ReplayMarkStep ==
    ASSUME RefreshInv, NEW w \in Workers, ReplayMark(w), UNCHANGED refreshVars
    PROVE  RefreshInv'
<1>1. UNCHANGED <<profile, present, audited, denied, faults>> /\ job[w].pc = "replayed"
  BY DEF ReplayMark, At
<1>2. job[w].batches # <<>> /\ profile[job[w].batches[1]] # "absent"
  BY <1>1, RunFacts DEF JobKnows
<1>3. PICK p \in Players : p = job[w].batches[1] /\ p = Head(job[w].batches)
  BY <1>2, RunFacts DEF Batch
<1>4. PICK e \in Entries : e = Entry("success") /\ e.status = "success"
  BY EntryTypes, StatusNames
<1>5. entry' = entry \/ entry' = [entry EXCEPT ![p] = e]
  BY <1>3, <1>4 DEF ReplayMark
<1>6. /\ entry' \in [Players -> Entries]
      /\ \A x \in Players : entry'[x] = entry[x] \/ (x = p /\ entry'[x].status = "success")
  BY <1>4, <1>5, RunFacts
<1>7. PICK j : j = [job[w] EXCEPT !.pc = "replaying", !.batches = <<>>]
  OBVIOUS
<1>8. /\ j \in JobStates /\ j.pc = "replaying" /\ job' = [job EXCEPT ![w] = j]
  <2>1. <<>> \in Queue
    BY RunFacts, QueueMakes
  <2>. QED
    BY <1>7, <2>1, RunFacts DEF ReplayMark, JobStates
<1>9. JobKnows(j)' /\ (AuditFits(j))'
  BY <1>8 DEF JobKnows, AuditFits, Working
<1>10. EntriesKnow' /\ (OneWorker => UnavailableKnows')
  BY <1>1, <1>2, <1>3, <1>6, RunFacts DEF EntriesKnow, SuccessMeansStored, UnavailableKnows
<1>. QED
  BY <1>1, <1>6, <1>8, <1>9, <1>10, RunFacts, RunMoves

LEMMA ClaimStep ==
    ASSUME RefreshInv, NEW w \in Workers, Claim(w), UNCHANGED refreshVars
    PROVE  RefreshInv'
<1>1. UNCHANGED <<profile, present, denied, faults>>
  BY DEF Claim
<1>2. PICK claimed \in SUBSET Players :
         /\ \E order \in Orders(claimed) :
               job' = [job EXCEPT ![w].pc = "filter", ![w].batches = order]
         /\ entry' = [p \in Players |->
                        IF p \in claimed THEN [Entry("fetching") EXCEPT !.leased = TRUE]
                        ELSE IF p \in present /\ entry[p].status = "none" THEN Entry("pending")
                        ELSE entry[p]]
         /\ audited' = audited \ claimed
  BY DEF Claim
<1>3. PICK order \in Orders(claimed) : job' = [job EXCEPT ![w].pc = "filter", ![w].batches = order]
  BY <1>2
<1>4. /\ order \in Queue
      /\ \A i, k \in DOMAIN order : order[i] = order[k] => i = k
      /\ \A i \in DOMAIN order : order[i] \in claimed
  BY RunFacts, QueueMakes
<1>5. PICK j : j = [job[w] EXCEPT !.pc = "filter", !.batches = order]
  OBVIOUS
<1>6. /\ j \in JobStates /\ j.pc = "filter" /\ j.batches = order /\ job' = [job EXCEPT ![w] = j]
  BY <1>3, <1>4, <1>5, RunFacts DEF JobStates
<1>7. /\ entry' \in [Players -> Entries]
      /\ \A p \in Players : /\ p \in claimed => entry'[p].status = "fetching"
                            /\ p \notin claimed => \/ entry'[p].status = "pending"
                                                   \/ entry'[p].status = entry[p].status
  BY <1>2, RunFacts, EntryTypes, StatusNames
<1>8. JobKnows(j)' /\ (AuditFits(j))'
  BY <1>4, <1>6, <1>7 DEF JobKnows, AuditFits
<1>9. EntriesKnow' /\ (OneWorker => UnavailableKnows')
  BY <1>1, <1>2, <1>7, RunFacts DEF EntriesKnow, SuccessMeansStored, UnavailableKnows
<1>10. audited' \subseteq Players
  BY <1>2, RunFacts
<1>. QED
  BY <1>1, <1>6, <1>7, <1>8, <1>9, <1>10, RunFacts, RunMoves

(* The entry of the batch in hand is written and the next batch taken.        *)
LEMMA Advances ==
    ASSUME RefreshInv, NEW w \in Workers, UNCHANGED refreshVars, NextBatch(w),
           job[w].pc \in {"filter", "finish"}, job[w].batches # <<>>,
           NEW e \in Entries, entry' = [entry EXCEPT ![Batch(w)] = e],
           UNCHANGED <<profile, present, audited, denied, faults>>,
           e.status \in {"success", "skipped_recent"} => profile[Batch(w)] # "absent",
           e.status = "unavailable" => Batch(w) \in denied /\ (OneWorker => Batch(w) \notin audited)
    PROVE  RefreshInv'
<1>1. PICK b \in Queue : b = job[w].batches
  BY RunFacts
<1>2. PICK p \in Players : p = Batch(w) /\ p = b[1] /\ 1 \in DOMAIN b
  BY <1>1, RunFacts
<1>3. /\ Tail(b) \in Queue
      /\ \A i \in DOMAIN Tail(b) : i + 1 \in DOMAIN b /\ Tail(b)[i] = b[i + 1] /\ i \in Nat \ {0}
  BY <1>1, RunFacts, TailFacts
<1>4. PICK t \in Queue : t = Tail(b)
  BY <1>3
<1>5. PICK j : j = [job[w] EXCEPT !.pc = "filter", !.batches = t, !.answer = "none"]
  OBVIOUS
<1>6. /\ j \in JobStates /\ j.pc = "filter" /\ j.batches = t /\ job' = [job EXCEPT ![w] = j]
  BY <1>1, <1>4, <1>5, RunFacts DEF NextBatch, JobStates
<1>7. /\ entry' \in [Players -> Entries] /\ entry'[p] = e
      /\ \A x \in Players \ {p} : entry'[x] = entry[x]
  BY <1>2, RunFacts
<1>8. JobKnows(j)'
  BY <1>6 DEF JobKnows
<1>9. OneWorker => AuditFits(j)'
  <2>1. SUFFICES ASSUME OneWorker PROVE AuditFits(j)'
    OBVIOUS
  <2>2. /\ \A i \in DOMAIN b : entry[b[i]].status = "fetching"
        /\ \A i, k \in DOMAIN b : b[i] = b[k] => i = k
    BY <1>1, <2>1, RunFacts DEF AuditFits, Working
  <2>3. ASSUME NEW i \in DOMAIN t PROVE entry'[t[i]].status = "fetching"
    <3>1. i + 1 \in DOMAIN b /\ t[i] = b[i + 1] /\ i + 1 # 1
      BY <1>3, <1>4
    <3>2. b[i + 1] # p /\ b[i + 1] \in Players
      BY <1>2, <2>2, <3>1, QueueFacts
    <3>. QED
      BY <1>7, <2>2, <3>1, <3>2
  <2>4. ASSUME NEW i \in DOMAIN t, NEW k \in DOMAIN t, t[i] = t[k] PROVE i = k
    <3>1. i + 1 = k + 1 /\ i \in Nat /\ k \in Nat
      BY <1>3, <1>4, <2>2, <2>4
    <3>. QED
      BY <3>1
  <2>. QED
    BY <1>6, <2>3, <2>4 DEF AuditFits
<1>10. EntriesKnow'
  BY <1>2, <1>7, RunFacts DEF EntriesKnow, SuccessMeansStored
<1>11. OneWorker => UnavailableKnows'
  BY <1>2, <1>7, RunFacts DEF UnavailableKnows
<1>. QED
  BY <1>6, <1>7, <1>8, <1>9, <1>10, <1>11, RunFacts, RunMoves

LEMMA FilterStep ==
    ASSUME RefreshInv, NEW w \in Workers, Filter(w), UNCHANGED refreshVars
    PROVE  RefreshInv'
<1>1. /\ UNCHANGED <<profile, present, audited, denied, faults>>
      /\ job[w].pc = "filter" /\ job[w].batches # <<>>
  BY DEF Filter, At
<1>2. CASE profile[Batch(w)] = "fresh"
  <2>1. PICK e \in Entries : e = Entry("skipped_recent") /\ e.status = "skipped_recent"
    BY EntryTypes, StatusNames
  <2>2. entry' = [entry EXCEPT ![Batch(w)] = e] /\ NextBatch(w)
    BY <1>2, <2>1 DEF Filter
  <2>. QED
    BY <1>1, <1>2, <2>1, <2>2, Advances
<1>3. CASE profile[Batch(w)] # "fresh"
  <2>1. PICK j : j = [job[w] EXCEPT !.pc = "call"]
    OBVIOUS
  <2>2. /\ j \in JobStates /\ j.pc = "call" /\ j.batches = job[w].batches
        /\ job' = [job EXCEPT ![w] = j] /\ entry' = entry
    BY <1>3, <2>1, RunFacts DEF Filter, Go, JobStates
  <2>3. JobKnows(j)'
    BY <1>1, <2>2 DEF JobKnows
  <2>4. OneWorker => AuditFits(j)'
    BY <1>1, <2>2, RunFacts DEF AuditFits, Working
  <2>5. EntriesKnow' /\ (OneWorker => UnavailableKnows')
    BY <1>1, <2>2, RunFacts DEF EntriesKnow, SuccessMeansStored, UnavailableKnows
  <2>. QED
    BY <1>1, <2>2, <2>3, <2>4, <2>5, RunFacts, RunMoves
<1>. QED
  BY <1>2, <1>3

(* A run that gives up writes the entry in hand, and those behind it one by   *)
(* one.                                                                       *)
LEMMA ReleaseMoves ==
    ASSUME RefreshInv, NEW w \in Workers, UNCHANGED refreshVars, job[w].batches # <<>>,
           NEW e \in Entries, e.status \in {"failed", "pending"},
           entry' = [entry EXCEPT ![Batch(w)] = e],
           job' = [job EXCEPT ![w] = [job[w] EXCEPT !.pc = "release", !.batches = Tail(@)]],
           UNCHANGED <<profile, present, audited, denied>>, faults' \in 0 .. MaxFaults
    PROVE  RefreshInv'
<1>1. PICK t \in Queue : t = Tail(job[w].batches)
  BY RunFacts, TailFacts
<1>2. PICK j : j = [job[w] EXCEPT !.pc = "release", !.batches = t]
  OBVIOUS
<1>3. j \in JobStates /\ j.pc = "release" /\ job' = [job EXCEPT ![w] = j]
  BY <1>1, <1>2, RunFacts DEF JobStates
<1>4. /\ entry' \in [Players -> Entries]
      /\ \A p \in Players : entry'[p] = entry[p] \/ entry'[p].status \in {"failed", "pending"}
  BY RunFacts
<1>5. JobKnows(j)' /\ AuditFits(j)'
  BY <1>3 DEF JobKnows, AuditFits, Working
<1>6. EntriesKnow' /\ (OneWorker => UnavailableKnows')
  BY <1>4, RunFacts DEF EntriesKnow, SuccessMeansStored, UnavailableKnows
<1>. QED
  BY <1>3, <1>4, <1>5, <1>6, RunFacts, RunMoves

LEMMA GiveUpStep ==
    ASSUME RefreshInv, NEW w \in Workers, GiveUp(w), Fault, UNCHANGED refreshVars,
           job[w].batches # <<>>, UNCHANGED <<profile, present, audited, denied>>
    PROVE  RefreshInv'
<1>1. PICK e \in Entries : e = Entry("failed") /\ e.status = "failed"
  BY EntryTypes, StatusNames
<1>2. entry' = [entry EXCEPT ![Batch(w)] = e]
  BY <1>1 DEF GiveUp
<1>3. job' = [job EXCEPT ![w] = [job[w] EXCEPT !.pc = "release", !.batches = Tail(@)]]
  BY RunFacts DEF GiveUp, JobStates
<1>. QED
  BY <1>1, <1>2, <1>3, FaultTypes, ReleaseMoves

LEMMA ReleaseStep ==
    ASSUME RefreshInv, NEW w \in Workers, ReleaseUnprocessed(w), UNCHANGED refreshVars
    PROVE  RefreshInv'
<1>1. PICK e \in Entries : e = [Entry("pending") EXCEPT !.retry = TRUE] /\ e.status = "pending"
  BY EntryTypes, StatusNames
<1>2. /\ UNCHANGED <<profile, present, audited, denied, faults>>
      /\ job[w].batches # <<>> /\ job[w].pc = "release"
      /\ entry' = [entry EXCEPT ![Batch(w)] = e]
  BY <1>1 DEF ReleaseUnprocessed, At
<1>3. job' = [job EXCEPT ![w] = [job[w] EXCEPT !.pc = "release", !.batches = Tail(@)]]
  <2>1. [job[w] EXCEPT !.batches = Tail(@)] = [job[w] EXCEPT !.pc = "release", !.batches = Tail(@)]
    BY <1>2, RunFacts DEF JobStates
  <2>. QED
    BY <2>1, RunFacts DEF ReleaseUnprocessed
<1>. QED
  BY <1>1, <1>2, <1>3, FaultTypes, ReleaseMoves

LEMMA CallStep ==
    ASSUME RefreshInv, NEW w \in Workers, CallBatch(w), UNCHANGED refreshVars
    PROVE  RefreshInv'
<1>1. UNCHANGED <<profile, present, audited>> /\ job[w].pc = "call" /\ job[w].batches # <<>>
  BY RunFacts DEF CallBatch, At, JobKnows
<1>2. CASE Fault /\ GiveUp(w) /\ UNCHANGED denied
  BY <1>1, <1>2, GiveUpStep
<1>3. ASSUME NEW answer \in {"usable", "unusable"},
             job' = [job EXCEPT ![w].pc = "audit", ![w].answer = answer],
             denied' = IF answer = "unusable" THEN denied \cup {Batch(w)} ELSE denied,
             UNCHANGED <<entry, faults>>
      PROVE  RefreshInv'
  <2>1. PICK j : j = [job[w] EXCEPT !.pc = "audit", !.answer = answer]
    OBVIOUS
  <2>2. /\ j \in JobStates /\ j.pc = "audit" /\ j.answer = answer /\ j.batches = job[w].batches
        /\ job' = [job EXCEPT ![w] = j]
    BY <1>3, <2>1, RunFacts DEF JobStates
  <2>3. denied \subseteq denied' /\ denied' \subseteq Players
        /\ (answer = "unusable" => job[w].batches[1] \in denied')
    BY <1>1, <1>3, RunFacts
  <2>4. JobKnows(j)'
    BY <1>1, <1>3, <2>2, <2>3 DEF JobKnows
  <2>5. OneWorker => AuditFits(j)'
    BY <1>1, <1>3, <2>2, RunFacts DEF AuditFits, Working
  <2>6. EntriesKnow' /\ (OneWorker => UnavailableKnows')
    BY <1>1, <1>3, <2>3, RunFacts DEF EntriesKnow, SuccessMeansStored, UnavailableKnows
  <2>. QED
    BY <1>1, <1>3, <2>2, <2>3, <2>4, <2>5, <2>6, RunFacts, RunMoves
<1>. QED
  BY <1>2, <1>3 DEF CallBatch

LEMMA AuditStep ==
    ASSUME RefreshInv, NEW w \in Workers, Audit(w), UNCHANGED refreshVars
    PROVE  RefreshInv'
<1>1. /\ UNCHANGED <<profile, present, denied>> /\ job[w].pc = "audit" /\ job[w].batches # <<>>
      /\ job[w].answer \in {"usable", "unusable"}
      /\ job[w].answer = "unusable" => job[w].batches[1] \in denied
  BY RunFacts DEF Audit, At, JobKnows
<1>2. CASE Fault /\ GiveUp(w) /\ UNCHANGED audited
  BY <1>1, <1>2, GiveUpStep
<1>3. CASE /\ audited' = IF job[w].answer = "usable" THEN audited \cup {Batch(w)}
                         ELSE audited \ {Batch(w)}
           /\ Go(w, "persist") /\ UNCHANGED <<entry, faults>>
  <2>1. PICK j : j = [job[w] EXCEPT !.pc = "persist"]
    OBVIOUS
  <2>2. /\ j \in JobStates /\ j.pc = "persist" /\ j.answer = job[w].answer
        /\ j.batches = job[w].batches /\ job' = [job EXCEPT ![w] = j]
    BY <1>3, <2>1, RunFacts DEF JobStates, Go
  <2>3. /\ audited' \subseteq Players
        /\ job[w].answer = "unusable" => job[w].batches[1] \notin audited'
        /\ \A p \in Players : p \in audited' => p \in audited \/ p = job[w].batches[1]
    BY <1>1, <1>3, RunFacts
  <2>4. JobKnows(j)'
    BY <1>1, <2>2 DEF JobKnows
  <2>5. OneWorker => entry[job[w].batches[1]].status = "fetching"
    BY <1>1, RunFacts DEF AuditFits, Working
  <2>6. OneWorker => AuditFits(j)'
    BY <1>1, <1>3, <2>2, <2>3, RunFacts DEF AuditFits, Working
  <2>7. EntriesKnow'
    BY <1>1, <1>3, RunFacts DEF EntriesKnow, SuccessMeansStored
  <2>8. OneWorker => UnavailableKnows'
    BY <1>3, <2>3, <2>5, RunFacts DEF UnavailableKnows
  <2>. QED
    BY <1>1, <1>3, <2>2, <2>3, <2>4, <2>6, <2>7, <2>8, RunFacts, RunMoves
<1>. QED
  BY <1>2, <1>3 DEF Audit

LEMMA PersistStep ==
    ASSUME RefreshInv, NEW w \in Workers, Persist(w), UNCHANGED refreshVars
    PROVE  RefreshInv'
<1>1. /\ UNCHANGED <<present, entry, audited, denied>> /\ job[w].pc = "persist"
      /\ job[w].batches # <<>> /\ job[w].answer \in {"usable", "unusable"}
      /\ job[w].answer = "unusable" => job[w].batches[1] \in denied
      /\ faults' \in 0 .. MaxFaults
  BY RunFacts, FaultTypes DEF Persist, At, JobKnows
<1>2. PICK answer \in {"usable", "unusable", "not_persisted"} :
         /\ job' = [job EXCEPT ![w] = [job[w] EXCEPT !.pc = "finish", !.answer = answer]]
         /\ answer = "unusable" => job[w].answer = "unusable"
         /\ \/ profile' = profile /\ answer # "usable"
            \/ answer = "usable" /\ profile' = [profile EXCEPT ![Batch(w)] = "fresh"]
  <2>1. CASE Go(w, "finish") /\ profile' = IF job[w].answer = "usable"
                                           THEN [profile EXCEPT ![Batch(w)] = "fresh"] ELSE profile
    <3>1. [job[w] EXCEPT !.pc = "finish"] = [job[w] EXCEPT !.pc = "finish", !.answer = job[w].answer]
      BY RunFacts DEF JobStates
    <3>2. job' = [job EXCEPT ![w] = [job[w] EXCEPT !.pc = "finish", !.answer = job[w].answer]]
      BY <2>1, <3>1, RunFacts DEF Go
    <3>. QED
      BY <1>1, <2>1, <3>2
  <2>2. CASE job' = [job EXCEPT ![w].pc = "finish", ![w].answer = "not_persisted"] /\ UNCHANGED profile
    <3>1. job' = [job EXCEPT ![w] = [job[w] EXCEPT !.pc = "finish", !.answer = "not_persisted"]]
      BY <2>2, RunFacts
    <3>. QED
      BY <2>2, <3>1
  <2>. QED
    BY <2>1, <2>2 DEF Persist
<1>3. PICK j : j = [job[w] EXCEPT !.pc = "finish", !.answer = answer]
  OBVIOUS
<1>4. /\ j \in JobStates /\ j.pc = "finish" /\ j.answer = answer /\ j.batches = job[w].batches
      /\ job' = [job EXCEPT ![w] = j]
  <2>1. job' = [job EXCEPT ![w] = j]
    BY <1>2, <1>3
  <2>2. j \in JobStates /\ j.pc = "finish" /\ j.answer = answer /\ j.batches = job[w].batches
    BY <1>3, RunFacts DEF JobStates
  <2>. QED
    BY <2>1, <2>2
<1>5. /\ profile' \in [Players -> {"absent", "stale", "fresh"}]
      /\ \A p \in Players : profile'[p] = profile[p] \/ profile'[p] = "fresh"
      /\ answer = "usable" => profile'[job[w].batches[1]] = "fresh"
  BY <1>1, <1>2, RunFacts
<1>6. JobKnows(j)'
  BY <1>1, <1>2, <1>4, <1>5 DEF JobKnows
<1>7. OneWorker => AuditFits(j)'
  BY <1>1, <1>2, <1>4, RunFacts DEF AuditFits, Working
<1>8. EntriesKnow' /\ (OneWorker => UnavailableKnows')
  BY <1>1, <1>5, RunFacts DEF EntriesKnow, SuccessMeansStored, UnavailableKnows
<1>. QED
  BY <1>1, <1>4, <1>5, <1>6, <1>7, <1>8, RunFacts, RunMoves

LEMMA FinishStep ==
    ASSUME RefreshInv, NEW w \in Workers, Finish(w), UNCHANGED refreshVars
    PROVE  RefreshInv'
<1>1. /\ UNCHANGED <<profile, present, audited, denied, faults>> /\ job[w].pc = "finish"
      /\ job[w].batches # <<>> /\ job[w].answer \in {"usable", "unusable", "not_persisted"}
      /\ job[w].answer = "unusable" => job[w].batches[1] \in denied
      /\ job[w].answer = "usable" => profile[job[w].batches[1]] # "absent"
  BY RunFacts DEF Finish, At, JobKnows
<1>2. OneWorker /\ job[w].answer = "unusable" => job[w].batches[1] \notin audited
  BY <1>1, RunFacts DEF AuditFits, Working
<1>3. PICK status \in {"failed", "unavailable", "success"} :
         /\ entry' = [entry EXCEPT ![Batch(w)] = Entry(status)]
         /\ status = "unavailable" => job[w].answer = "unusable"
         /\ status = "success" => job[w].answer = "usable"
  BY <1>1 DEF Finish
<1>4. PICK e \in Entries : e = Entry(status) /\ e.status = status
  BY EntryTypes, StatusNames
<1>5. Batch(w) = job[w].batches[1]
  BY <1>1, RunFacts
<1>6. /\ entry' = [entry EXCEPT ![Batch(w)] = e] /\ NextBatch(w)
      /\ e.status \in {"success", "skipped_recent"} => profile[Batch(w)] # "absent"
      /\ e.status = "unavailable" => Batch(w) \in denied /\ (OneWorker => Batch(w) \notin audited)
  BY <1>1, <1>2, <1>3, <1>4, <1>5 DEF Finish
<1>. QED
  BY <1>1, <1>6, Advances

LEMMA EndSteps ==
    ASSUME RefreshInv, NEW w \in Workers, Clean(w) \/ RunFails(w), UNCHANGED refreshVars
    PROVE  RefreshInv'
<1>1. UNCHANGED <<profile, present, audited, denied>> /\ faults' \in 0 .. MaxFaults
  BY RunFacts, FaultTypes DEF Clean, RunFails
<1>2. PICK j : j = NoJob
  OBVIOUS
<1>3. /\ j \in JobStates /\ j.pc = "idle" /\ job' = [job EXCEPT ![w] = j]
  <2>1. <<>> \in Queue
    BY RunFacts, QueueMakes
  <2>. QED
    BY <1>2, <2>1 DEF NoJob, JobStates, Clean, RunFails
<1>4. /\ entry' \in [Players -> Entries]
      /\ \A p \in Players : entry'[p] = entry[p] \/ entry'[p].status = "none"
  BY RunFacts, EntryTypes, StatusNames DEF Clean, RunFails
<1>5. JobKnows(j)' /\ AuditFits(j)'
  BY <1>3 DEF JobKnows, AuditFits, Working
<1>6. EntriesKnow' /\ (OneWorker => UnavailableKnows')
  BY <1>1, <1>4, RunFacts DEF EntriesKnow, SuccessMeansStored, UnavailableKnows
<1>. QED
  BY <1>1, <1>3, <1>4, <1>5, <1>6, RunFacts, RunMoves

LEMMA RefreshStart == RefreshConstants /\ Init => RefreshInv
<1> SUFFICES ASSUME RefreshConstants, Init PROVE RefreshInv
  OBVIOUS
<1>1. NoRequest \in RefreshReqs /\ NoRequest.conn = Nobody /\ NoRequest.pc = "idle"
  BY DEF NoRequest, RefreshReqs, Pcs
<1>2. <<>> \in Queue
  BY QueueMakes
<1>3. NoJob \in JobStates /\ NoJob.pc = "idle"
  BY <1>2 DEF NoJob, JobStates
<1>4. profile \in [Players -> {"absent", "stale", "fresh"}]
  BY DEF Init, EnrichInit
<1>5. entry \in [Players -> Entries] /\ \A p \in Players : entry[p].status = "none"
  BY EntryTypes, StatusNames DEF Init, EnrichInit
<1>6. 0 \in 0 .. MaxFaults
  BY DEF RefreshConstants
<1>7. RefreshTypes
  BY <1>1, <1>4, <1>5, <1>6 DEF Init, EnrichInit, RefreshTypes
<1>8. ASSUME NEW r \in Requests PROVE RequestKnows(r, req[r])
  <2>1. req[r] = NoRequest
    BY DEF Init
  <2>. QED
    BY <1>1, <2>1 DEF RequestKnows, Critical
<1>9. CachesKnow
  BY DEF Init, CachesKnow, FreshLoadoutsAreThere
<1>10. EnrichKnows
  <2>1. job \in [Workers -> JobStates] /\ \A w \in Workers : job[w] = NoJob
    BY <1>3 DEF Init, EnrichInit
  <2>2. \A w \in Workers : JobKnows(job[w]) /\ AuditFits(job[w])
    BY <1>3, <2>1 DEF JobKnows, AuditFits, Working
  <2>3. EntriesKnow /\ UnavailableKnows
    BY <1>5 DEF EntriesKnow, SuccessMeansStored, UnavailableKnows
  <2>. QED
    BY <2>1, <2>2, <2>3 DEF EnrichKnows, AuditKnows
<1>. QED
  BY <1>7, <1>8, <1>9, <1>10 DEF RefreshInv

LEMMA RefreshNext == RefreshInv /\ [Next]_vars => RefreshInv'
<1> SUFFICES ASSUME RefreshInv, [Next]_vars PROVE RefreshInv'
  OBVIOUS
<1>1. ASSUME NEW r \in Requests, Step(r) PROVE RefreshInv'
  BY <1>1, ReadSteps, ProviderSteps, CacheSteps, TakeSteps, LockStep, StoreStep, PoolSteps, DeleteStep
     DEF Step
<1>2. ASSUME NEW r \in Requests, Arrive(r) \/ Fails(r) \/ ClientLeaves(r) PROVE RefreshInv'
  BY <1>2, ArriveStep, FailStep, ClientStep
<1>3. ASSUME NEW w \in Workers, Job(w) PROVE RefreshInv'
  BY <1>3, ReconcileStep, ReplayQueryStep, ReplayPersistStep, ReplayMarkStep, ClaimStep, FilterStep,
     CallStep, AuditStep, PersistStep, FinishStep, ReleaseStep, EndSteps DEF Job, EnrichStep, JobStep
<1>4. ASSUME NEW c \in Conns, OrphanEnds(c) PROVE RefreshInv'
  BY <1>4, OrphanStep
<1>5. CASE UNCHANGED vars
  <2>1. UNCHANGED <<profile, present, entry, audited, job, denied, faults, req, conn, lock, loadout, decks,
                    lookup, found, history, said, ours, cast>> /\ UNCHANGED enrichment
    BY <1>5 DEF vars, enrichVars, refreshVars, enrichment, pool, answers
  <2>2. ASSUME NEW s \in Requests PROVE RequestKnows(s, req[s])'
    BY <2>1 DEF RefreshInv, RequestKnows
  <2>3. RefreshTypes'
    BY <2>1 DEF RefreshInv, RefreshTypes
  <2>4. CachesKnow'
    BY <2>1 DEF RefreshInv, CachesKnow, FreshLoadoutsAreThere
  <2>5. EnrichKnows'
    BY <2>1, JobKeeps DEF RefreshInv
  <2>. QED
    BY <2>2, <2>3, <2>4, <2>5 DEF RefreshInv
<1>. QED
  BY <1>1, <1>2, <1>3, <1>4, <1>5, AgeStep, TimeStep DEF Next

(* The lock of a profile does what it is taken for, for any number of         *)
(* requests and connections, whatever statements fail, clients leave and      *)
(* locks stay behind in the pool: one refresh of a profile at a time, and a   *)
(* refresh that is not forced asks the provider only if none before it made   *)
(* the profile fresh (refresh_profile_record, fetch_profile).                 *)
THEOREM RefreshesExclude == Spec => []RefreshExcludes
<1>1. Init => RefreshInv
  BY ConstantsFit, RefreshStart
<1>2. RefreshInv /\ [Next]_vars => RefreshInv'
  BY RefreshNext
<1>3. RefreshInv => RefreshExcludes
  <2>1. SUFFICES ASSUME RefreshInv PROVE RefreshExcludes
    OBVIOUS
  <2>2. ASSUME NEW r \in Requests, req[r].pc \in Critical
        PROVE  lock.by = req[r].conn /\ \A s \in Requests \ {r} : req[s].pc \notin Critical
    BY <2>1, <2>2, Apart DEF RefreshInv, RequestKnows
  <2>3. NoNeedlessFetch
    BY <2>1 DEF RefreshInv, RequestKnows, NoNeedlessFetch
  <2>. QED
    BY <2>2, <2>3 DEF RefreshExcludes, OneRefresher
<1>. QED
  BY <1>1, <1>2, <1>3, PTL DEF Spec

(* What is remembered about a player is what the provider said and what the   *)
(* database holds, for any number of requests beside one run of the           *)
(* enrichment job, whichever call or statement fails: no error becomes a      *)
(* remembered absence, and a success means a stored profile.  Two runs at     *)
(* once would not do: one may write its old refusal over the other's audit.   *)
THEOREM CachesStayTrue == OneWorker /\ Spec => []CachesAreTrue
<1>1. Init => RefreshInv
  BY ConstantsFit, RefreshStart
<1>2. RefreshInv /\ [Next]_vars => RefreshInv'
  BY RefreshNext
<1>3. RefreshInv /\ OneWorker => CachesAreTrue
  <2>1. SUFFICES ASSUME RefreshInv, OneWorker PROVE CachesAreTrue
    OBVIOUS
  <2>2. ASSUME NEW w \in Workers
        PROVE  job[w].todo \subseteq Players /\ Len(job[w].batches) <= Cardinality(Players)
    <3>1. job[w].batches \in Queue /\ job[w].todo \subseteq Players /\ RefreshConstants
      BY <2>1, RunFacts
    <3>2. PICK n \in 0 .. Cardinality(Players) : job[w].batches \in [1 .. n -> Players]
      BY <3>1 DEF Queue
    <3>3. Cardinality(Players) \in Nat
      BY <3>1, CountFacts
    <3>4. Len(job[w].batches) = n
      BY <3>2, <3>3
    <3>. QED
      BY <3>1, <3>2, <3>3, <3>4
  <2>3. EnrichTypeOK
    BY <2>1, <2>2 DEF RefreshInv, RefreshTypes, EnrichTypeOK, Entries
  <2>4. ASSUME NEW r \in Requests
        PROVE  /\ req[r].pc \in Pcs /\ req[r].conn \in Conns \cup {Nobody}
               /\ (req[r].conn # Nobody) = (req[r].pc \in Critical \cup {"locking", "delete", "commit"})
    <3>1. req[r] \in RefreshReqs /\ RequestKnows(r, req[r])
      BY <2>1 DEF RefreshInv, RefreshTypes
    <3>. QED
      BY <3>1 DEF RefreshReqs, RequestKnows
  <2>5. TypeOK
    BY <2>1, <2>3, <2>4 DEF RefreshInv, RefreshTypes, CachesKnow, TypeOK
  <2>6. NegativeIsTrue
    BY <2>1 DEF RefreshInv, CachesKnow, EnrichKnows, EntriesKnow, AuditKnows, UnavailableKnows, NegativeIsTrue
  <2>7. FreshLoadoutsAreThere /\ SuccessMeansStored
    BY <2>1 DEF RefreshInv, CachesKnow, EnrichKnows, EntriesKnow
  <2>. QED
    BY <2>5, <2>6, <2>7 DEF CachesAreTrue
<1>4. OneWorker => OneWorker'
  BY DEF OneWorker
<1>. QED
  BY <1>1, <1>2, <1>3, <1>4, PTL DEF Spec
=============================================================================
