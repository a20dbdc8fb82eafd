-------------------------- MODULE MatchIngestProofs --------------------------
(* Proofs about MatchIngest, for any number of matches, hours, drains and     *)
(* lookups and for every number of faults, and about the counting in          *)
(* MatchFacts, for any number of matches, finalizers and transactions.        *)
EXTENDS MatchIngest, MatchFacts, FiniteSetTheorems, TLAPS

Statuses == {"absent", "processing", "partial", "limited", "complete"}
States == {"none", "discovered", "facts_ready", "limited", "unavailable", "recovery_pending",
           "complete"}
MatchRows == [status : Statuses, state : States, terminal : BOOLEAN, facts : BOOLEAN,
         limited : BOOLEAN, projected : BOOLEAN, resumable : BOOLEAN, adopted : BOOLEAN,
         lease : {"nobody"} \cup Tasks]

HourStatuses == {"absent", "fetching", "empty", "complete", "failed"}
HourRows == [status : HourStatuses, fetched : BOOLEAN, succeeded : BOOLEAN, live : BOOLEAN]

TaskPCs == {"idle", "ids", "claim", "search", "empty", "select", "batch", "store", "count",
            "reselect", "resume", "mark", "known", "register", "lease", "fetch", "finalize",
            "project", "ensure", "terminal"}
TaskStates == [pc : TaskPCs, hour : Nat, batch : SUBSET Matches, resume : SUBSET Matches,
               bad : BOOLEAN, match : Matches \cup {"none"}, out : {"none", "full", "limited"},
               ready : SUBSET Matches]

IngestTypes ==
    /\ hour \in [Hours -> HourRows] /\ searches \in [Hours -> Nat] /\ seen \subseteq Matches
    /\ row \in [Matches -> MatchRows] /\ task \in [Tasks -> TaskStates]
    /\ faults \in 0 .. MaxFaults /\ runs \in 0 .. MaxRuns

(* A match of which the hour need not know any more.                          *)
Done(r) == r.facts \/ r.terminal \/ (r.adopted /\ r.status = "limited")

(* What holds in every row: complete and projected matches have facts, the    *)
(* adoption leaves no row unavailable, and a limited row that is not          *)
(* unavailable has facts or was adopted.                                      *)
RowFits(r) ==
    /\ r.status = "complete" => r.facts
    /\ r.projected => r.facts
    /\ r.status = "absent" => ~r.facts /\ ~r.terminal /\ ~r.adopted
    /\ r.adopted /\ r.state = "unavailable" => r.terminal
    /\ r.status = "limited" /\ r.state # "unavailable" => Done(r)

RowsFit == \A m \in Matches : RowFits(row[m])

(* The search of an hour marks it as fetched, for ever.                       *)
SearchIsNoted == \A h \in Hours : searches[h] = 0 \/ (searches[h] = 1 /\ hour[h].fetched)

(* The IDs of an hour are recorded all at once.                               *)
HoursAreWhole == \A h \in Hours : SeenOf(h) = {} \/ MatchesOf(h) \subseteq seen

HoursArePaid ==
    \A h \in Hours : hour[h].status = "complete" => \A m \in MatchesOf(h) : Done(row[m])

MatchPCs == {"store", "count"} \cup LifecyclePCs
LookupPCs == {"idle"} \cup (LifecyclePCs \ {"terminal"})
WorkPCs == {"batch", "reselect", "resume", "mark"} \cup MatchPCs

(* The matches a drain still has to see to, from what it has selected.        *)
Owed(u) ==
    CASE u.pc = "batch" -> u.batch \cup u.resume
      [] u.pc \in {"store", "count"} -> u.batch \cup u.resume \cup {u.match}
      [] u.pc \in {"reselect", "resume"} -> u.resume
      [] u.pc \in LifecyclePCs -> u.resume \cup {u.match}
      [] OTHER -> {}

(* A drain that has met no error has done every match of its hour but those   *)
(* it still owes.                                                             *)
TaskFits(t, u) ==
    /\ t \in Lookups => u.pc \in LookupPCs
    /\ t \in Drains /\ u.pc # "idle" => u.hour \in Hours
    /\ u.pc \in MatchPCs => u.match \in Matches
    /\ u.pc = "select" => MatchesOf(u.hour) \subseteq seen
    /\ t \in Drains /\ u.pc \in WorkPCs /\ ~u.bad =>
           \A m \in MatchesOf(u.hour) : Done(row[m]) \/ m \in Owed(u)
    /\ t \in Lookups => \A m \in u.ready : row[m].projected

TasksFit == \A t \in Tasks : TaskFits(t, task[t])

IngestInv ==
    /\ IngestTypes /\ RowsFit /\ SearchIsNoted /\ HoursAreWhole /\ HoursArePaid /\ TasksFit


-----------------------------------------------------------------------------
(* Rows *)

(* What becomes of a row in one step: nothing that matters is taken back.     *)
RowStep(r, s) ==
    /\ s \in MatchRows /\ RowFits(s)
    /\ r.status = "complete" => s.status = "complete"
    /\ r.facts => s.facts
    /\ r.projected => s.projected
    /\ Done(r) => Done(s)

LEMMA SettledIsDone == \A r \in MatchRows : RowFits(r) /\ Settled(r) => Done(r)
BY DEF MatchRows, RowFits, Settled, Done

LEMMA SameRow == \A r \in MatchRows : RowFits(r) => RowStep(r, r)
BY DEF RowStep

LEMMA LeaseStep ==
    \A r \in MatchRows : \A who \in {"nobody"} \cup Tasks :
        RowFits(r) => RowStep(r, [r EXCEPT !.lease = who])
<1> SUFFICES ASSUME NEW r \in MatchRows, NEW who \in {"nobody"} \cup Tasks, RowFits(r)
             PROVE  RowStep(r, [r EXCEPT !.lease = who])
  OBVIOUS
<1> DEFINE s == [r EXCEPT !.lease = who]
<1>1. /\ s \in MatchRows /\ s.status = r.status /\ s.state = r.state /\ s.terminal = r.terminal
      /\ s.facts = r.facts /\ s.projected = r.projected /\ s.adopted = r.adopted
  BY DEF MatchRows
<1> HIDE DEF s
<1>2. RowStep(r, s)  BY <1>1 DEF RowStep, RowFits, Done
<1> QED BY <1>2 DEF s

LEMMA ReleasedStep ==
    \A r \in MatchRows : \A t \in Tasks : RowFits(r) => RowStep(r, Released(r, t))
BY LeaseStep, SameRow DEF Released

LEMMA RegisteredStep ==
    \A r \in MatchRows : RowFits(r) =>
        /\ RowStep(r, Registered(r))
        /\ Registered(r).facts => r.facts
<1> SUFFICES ASSUME NEW r \in MatchRows, RowFits(r)
             PROVE  RowStep(r, Registered(r)) /\ (Registered(r).facts => r.facts)
  OBVIOUS
<1>1. CASE r.status = "absent"
  <2>1. Registered(r) = Fresh  BY <1>1 DEF Registered
  <2>2. /\ Fresh \in MatchRows /\ ~Fresh.facts /\ ~Fresh.projected /\ ~Fresh.adopted
        /\ Fresh.status = "processing" /\ ~Fresh.terminal
    BY DEF Fresh, NoRow, MatchRows, Statuses, States
  <2>3. ~r.facts /\ ~r.terminal /\ ~r.adopted /\ ~r.projected  BY <1>1 DEF RowFits
  <2> QED BY <1>1, <2>1, <2>2, <2>3 DEF RowStep, RowFits, Done
<1>2. CASE r.status = "limited" /\ r.state = "unavailable" /\ ~r.terminal
  <2> DEFINE s == [r EXCEPT !.status = "processing", !.state = "discovered"]
  <2>1. Registered(r) = s  BY <1>2 DEF Registered
  <2>2. /\ s \in MatchRows /\ s.status = "processing" /\ s.state = "discovered"
        /\ s.terminal = r.terminal /\ s.facts = r.facts /\ s.projected = r.projected
        /\ s.adopted = r.adopted
    BY DEF MatchRows, Statuses, States
  <2> HIDE DEF s
  <2>3. ~r.adopted  BY <1>2 DEF RowFits
  <2> QED BY <1>2, <2>1, <2>2, <2>3 DEF RowStep, RowFits, Done
<1>3. CASE r.status # "absent" /\ ~(r.status = "limited" /\ r.state = "unavailable" /\ ~r.terminal)
  <2>1. Registered(r) = r  BY <1>3 DEF Registered
  <2> QED BY <2>1, SameRow
<1> QED BY <1>1, <1>2, <1>3

LEMMA FinalizedStep ==
    \A r \in MatchRows : \A limited \in BOOLEAN : RowFits(r) =>
        RowStep(r, Finalized(r, limited)) /\ Finalized(r, limited).facts
<1> SUFFICES ASSUME NEW r \in MatchRows, NEW limited \in BOOLEAN, RowFits(r)
             PROVE  RowStep(r, Finalized(r, limited)) /\ Finalized(r, limited).facts
  OBVIOUS
<1> DEFINE s == Finalized(r, limited)
<1>1. /\ s \in MatchRows /\ s.facts /\ s.projected = r.projected
      /\ s.status # "absent" /\ (r.status = "complete" => s.status = "complete")
      /\ s.state # "unavailable"
  BY DEF Finalized, MatchRows, Statuses, States
<1> HIDE DEF s
<1>2. RowStep(r, s)  BY <1>1 DEF RowStep, RowFits, Done
<1> QED BY <1>1, <1>2 DEF s

LEMMA ProjectedStep ==
    \A r \in MatchRows : RowFits(r) /\ r.facts =>
        RowStep(r, Projected(r)) /\ Projected(r).projected /\ Projected(r).facts
<1> SUFFICES ASSUME NEW r \in MatchRows, RowFits(r), r.facts
             PROVE  RowStep(r, Projected(r)) /\ Projected(r).projected /\ Projected(r).facts
  OBVIOUS
<1> DEFINE s == Projected(r)
<1>1. /\ s \in MatchRows /\ s.facts /\ s.projected /\ s.status = "complete" /\ s.state = "complete"
  BY DEF Projected, MatchRows, Statuses, States
<1> HIDE DEF s
<1>2. RowStep(r, s)  BY <1>1 DEF RowStep, RowFits, Done
<1> QED BY <1>1, <1>2 DEF s

LEMMA TerminalStep ==
    \A r \in MatchRows : RowFits(r) =>
        RowStep(r, TerminallyUnavailable(r)) /\ Done(TerminallyUnavailable(r))
<1> SUFFICES ASSUME NEW r \in MatchRows, RowFits(r)
             PROVE  RowStep(r, TerminallyUnavailable(r)) /\ Done(TerminallyUnavailable(r))
  OBVIOUS
<1>1. CASE r.status = "complete"
  <2>1. TerminallyUnavailable(r) = r  BY <1>1 DEF TerminallyUnavailable
  <2> QED BY <1>1, <2>1, SameRow DEF RowFits, Done
<1>2. CASE r.status # "complete"
  <2> DEFINE s == [r EXCEPT !.status = "limited", !.state = "unavailable", !.terminal = TRUE,
                            !.lease = "nobody"]
  <2>1. TerminallyUnavailable(r) = s  BY <1>2 DEF TerminallyUnavailable
  <2>2. /\ s \in MatchRows /\ s.status = "limited" /\ s.state = "unavailable" /\ s.terminal
        /\ s.facts = r.facts /\ s.projected = r.projected
    BY DEF MatchRows, Statuses, States
  <2> HIDE DEF s
  <2> QED BY <1>2, <2>1, <2>2 DEF RowStep, RowFits, Done
<1> QED BY <1>1, <1>2

LEMMA AdoptedStep ==
    \A r \in MatchRows : \A legacy \in {"facts", "roster", "nothing"} :
        RowFits(r) => RowStep(r, Adopted(r, legacy))
<1> SUFFICES ASSUME NEW r \in MatchRows, NEW legacy \in {"facts", "roster", "nothing"}, RowFits(r)
             PROVE  RowStep(r, Adopted(r, legacy))
  OBVIOUS
<1> DEFINE base == IF r.status = "absent" THEN Fresh ELSE r
           s == Adopted(r, legacy)
<1>1. Fresh \in MatchRows /\ ~Fresh.terminal /\ Fresh.status = "processing" /\ ~Fresh.projected
  BY DEF Fresh, NoRow, MatchRows, Statuses, States
<1>2. /\ base \in MatchRows /\ base.status # "absent"
      /\ r.status # "absent" => base = r
      /\ r.status = "absent" => base = Fresh /\ ~r.facts /\ ~r.projected /\ ~r.terminal /\ ~r.adopted
  BY <1>1 DEF RowFits
<1>3. s = [base EXCEPT !.adopted = TRUE,
                     !.facts = @ \/ legacy = "facts",
                     !.resumable = @ \/ legacy = "roster",
                     !.state = IF @ = "complete" THEN @
                               ELSE CASE legacy = "facts" -> "facts_ready"
                                      [] legacy = "roster" -> "recovery_pending"
                                      [] OTHER -> "discovered"]
  BY DEF Adopted
<1> HIDE DEF base, s
<1>4. /\ s.adopted /\ s.status = base.status /\ s.terminal = base.terminal
      /\ s.projected = base.projected /\ (base.facts => s.facts) /\ s.state # "unavailable"
  BY <1>2, <1>3 DEF MatchRows
<1>5. s \in MatchRows
  <2> DEFINE state == IF base.state = "complete" THEN base.state
                      ELSE CASE legacy = "facts" -> "facts_ready"
                             [] legacy = "roster" -> "recovery_pending"
                             [] OTHER -> "discovered"
  <2>1. state \in States  BY <1>2 DEF MatchRows, States
  <2>2. s = [base EXCEPT !.adopted = TRUE, !.facts = @ \/ legacy = "facts",
                         !.resumable = @ \/ legacy = "roster", !.state = state]
    BY <1>2, <1>3 DEF MatchRows
  <2> HIDE DEF state
  <2> QED BY <1>2, <2>1, <2>2 DEF MatchRows
<1>6. ASSUME r.status = "absent" PROVE RowStep(r, s)
  BY <1>1, <1>2, <1>4, <1>5, <1>6 DEF RowStep, RowFits, Done
<1>7. ASSUME r.status # "absent" PROVE RowStep(r, s)
  BY <1>2, <1>4, <1>5, <1>7 DEF RowStep, RowFits, Done
<1>8. RowStep(r, s)  BY <1>6, <1>7
<1> QED BY <1>8 DEF s


RowsGo == row' \in [Matches -> MatchRows] /\ \A m \in Matches : RowStep(row[m], row'[m])

LEMMA RowKept == IngestTypes /\ RowsFit /\ UNCHANGED row => RowsGo
BY SameRow DEF IngestTypes, RowsFit, RowsGo

LEMMA RowSet ==
    ASSUME IngestTypes, RowsFit, NEW n \in Matches, NEW s, RowStep(row[n], s), SetRow(n, s)
    PROVE  RowsGo /\ row'[n] = s
<1>1. row \in [Matches -> MatchRows] /\ s \in MatchRows  BY DEF IngestTypes, RowStep
<1>2. row' = [row EXCEPT ![n] = s]  BY DEF SetRow
<1>3. row' \in [Matches -> MatchRows] /\ row'[n] = s  BY <1>1, <1>2
<1>4. ASSUME NEW m \in Matches PROVE RowStep(row[m], row'[m])
  <2>1. CASE m = n  BY <1>3, <2>1
  <2>2. CASE m # n
    <3>1. row'[m] = row[m] /\ row[m] \in MatchRows  BY <1>1, <1>2, <2>2
    <3>2. RowFits(row[m])  BY DEF RowsFit
    <3> QED BY <3>1, <3>2, SameRow
  <2> QED BY <2>1, <2>2
<1> QED BY <1>3, <1>4 DEF RowsGo

(* Every step of every task, process and adoption moves rows only forwards.   *)
LEMMA RowsMove == IngestTypes /\ RowsFit /\ TasksFit /\ [Next]_vars => RowsGo
<1> SUFFICES ASSUME IngestTypes, RowsFit, TasksFit, [Next]_vars PROVE RowsGo
  OBVIOUS
<1>0. \A m \in Matches : row[m] \in MatchRows /\ RowFits(row[m])  BY DEF IngestTypes, RowsFit
<1>1. ASSUME NEW t \in Tasks, task[t].pc \in MatchPCs PROVE task[t].match \in Matches
  BY <1>1 DEF TasksFit, TaskFits
<1>2. ASSUME NEW t \in Tasks,
             OperatorClaims(t) \/ GapClaims(t) \/ ClaimHourFails(t) \/ Lookup(t)
      PROVE  RowsGo
  BY <1>2, RowKept DEF OperatorClaims, GapClaims, ClaimHour, ClaimHourFails, Lookup
<1>3. ASSUME NEW t \in Tasks, DrainStep(t) PROVE RowsGo
  <2>1. CASE StoreFacts(t)
    <3>1. task[t].match \in Matches  BY <1>1, <2>1 DEF StoreFacts, MatchPCs
    <3> DEFINE limited == task[t].out = "limited"
    <3>2. limited \in BOOLEAN  OBVIOUS
    <3>3. SetRow(task[t].match, Finalized(row[task[t].match], limited))  BY <2>1 DEF StoreFacts
    <3> HIDE DEF limited
    <3>4. RowStep(row[task[t].match], Finalized(row[task[t].match], limited))
      BY <1>0, <3>1, <3>2, FinalizedStep
    <3> QED BY <3>1, <3>3, <3>4, RowSet
  <2>2. CASE CountFacts(t)
    <3>1. task[t].match \in Matches  BY <1>1, <2>2 DEF CountFacts, MatchPCs
    <3>2. CASE Projectable(task[t].match)
      <4>1. SetRow(task[t].match, Projected(row[task[t].match]))  BY <2>2, <3>2 DEF CountFacts
      <4>2. RowStep(row[task[t].match], Projected(row[task[t].match]))
        BY <1>0, <3>1, <3>2, ProjectedStep DEF Projectable
      <4> QED BY <3>1, <4>1, <4>2, RowSet
    <3>3. CASE ~Projectable(task[t].match)  BY <2>2, <3>3, RowKept DEF CountFacts
    <3> QED BY <3>2, <3>3
  <2>3. CASE \/ LoadIds(t) \/ ClaimSearch(t) \/ SearchAnswers(t) \/ MarkEmpty(t) \/ Select(t)
             \/ BatchFetches(t) \/ BatchesEnd(t) \/ Reselect(t) \/ ResumeMatch(t)
             \/ ResumeEnds(t) \/ MarkHour(t)
    BY <2>3, RowKept
       DEF LoadIds, ClaimSearch, SearchAnswers, MarkEmpty, Select, BatchFetches, BatchesEnd,
           Reselect, ResumeMatch, ResumeEnds, MarkHour
  <2> QED BY <1>3, <2>1, <2>2, <2>3 DEF DrainStep
<1>4. ASSUME NEW t \in Tasks, LifecycleStep(t) PROVE RowsGo
  <2> DEFINE n == task[t].match
  <2>1. n \in Matches
    BY <1>1, <1>4
       DEF LifecycleStep, FactsKnown, RegisterDiscovery, ClaimMatch, FetchMatch, FinalizeMatch,
           ProjectMatch, EnsureProjected, MarkTerminal, MatchPCs, LifecyclePCs
  <2>2. row[n] \in MatchRows /\ RowFits(row[n])  BY <1>0, <2>1
  <2>p. ASSUME NEW s, RowStep(row[n], s), SetRow(n, s) PROVE RowsGo
    BY <2>1, <2>p, RowSet
  <2>3. CASE FactsKnown(t)  BY <2>3, RowKept DEF FactsKnown
  <2>4. CASE RegisterDiscovery(t)
    <3>1. SetRow(n, Registered(row[n]))  BY <2>4 DEF RegisterDiscovery
    <3> QED BY <2>2, <2>p, <3>1, RegisteredStep
  <2>5. CASE ClaimMatch(t)
    <3>1. \/ UNCHANGED row \/ SetRow(n, Claimed(row[n], t))
          \/ SetRow(n, [row[n] EXCEPT !.lease = "nobody"])
      BY <2>5 DEF ClaimMatch
    <3>2. RowStep(row[n], Claimed(row[n], t))  BY <2>2, LeaseStep DEF Claimed
    <3>3. RowStep(row[n], [row[n] EXCEPT !.lease = "nobody"])  BY <2>2, LeaseStep
    <3> QED BY <2>p, <3>1, <3>2, <3>3, RowKept
  <2>6. CASE FetchMatch(t)
    <3>1. UNCHANGED row \/ SetRow(n, Released(row[n], t))  BY <2>6 DEF FetchMatch
    <3> QED BY <2>2, <2>p, <3>1, RowKept, ReleasedStep
  <2>7. CASE FinalizeMatch(t)
    <3> DEFINE limited == task[t].out = "limited"
    <3>1. limited \in BOOLEAN /\ SetRow(n, Finalized(row[n], limited))  BY <2>7 DEF FinalizeMatch
    <3> HIDE DEF limited, n
    <3> QED BY <2>2, <2>p, <3>1, FinalizedStep
  <2>8. CASE ProjectMatch(t)
    <3>1. CASE Projectable(n)
      <4>1. SetRow(n, Projected(row[n]))  BY <2>8, <3>1 DEF ProjectMatch
      <4>2. row[n].facts  BY <3>1 DEF Projectable
      <4> QED BY <2>2, <2>p, <4>1, <4>2, ProjectedStep
    <3>2. CASE ~Projectable(n)
      <4>1. SetRow(n, Released(row[n], t))  BY <2>8, <3>2 DEF ProjectMatch
      <4> QED BY <2>2, <2>p, <4>1, ReleasedStep
    <3> QED BY <3>1, <3>2
  <2>9. CASE EnsureProjected(t)
    <3>1. CASE ~row[n].projected /\ Projectable(n)
      <4>1. SetRow(n, Projected(row[n]))  BY <2>9, <3>1 DEF EnsureProjected
      <4>2. row[n].facts  BY <3>1 DEF Projectable
      <4> QED BY <2>2, <2>p, <4>1, <4>2, ProjectedStep
    <3>2. CASE ~(~row[n].projected /\ Projectable(n))
      BY <2>9, <3>2, RowKept DEF EnsureProjected
    <3> QED BY <3>1, <3>2
  <2>10. CASE MarkTerminal(t)
    <3>1. SetRow(n, TerminallyUnavailable(row[n]))  BY <2>10 DEF MarkTerminal
    <3> QED BY <2>2, <2>p, <3>1, TerminalStep
  <2> QED BY <1>4, <2>3, <2>4, <2>5, <2>6, <2>7, <2>8, <2>9, <2>10 DEF LifecycleStep
<1>5. ASSUME NEW t \in Tasks, Failure(t) PROVE RowsGo
  <2>1. CASE LifecycleFails(t)
    <3>1. task[t].match \in Matches  BY <1>1, <2>1 DEF LifecycleFails, MatchPCs
    <3>2. SetRow(task[t].match, Released(row[task[t].match], t))  BY <2>1 DEF LifecycleFails
    <3>3. RowStep(row[task[t].match], Released(row[task[t].match], t))
      BY <1>0, <3>1, ReleasedStep
    <3> QED BY <3>1, <3>2, <3>3, RowSet
  <2>2. CASE \/ SearchFails(t) \/ CheckpointFails(t) \/ BatchesFail(t)
             \/ DrainStatementFails(t) \/ Crash(t)
    BY <2>2, RowKept DEF SearchFails, CheckpointFails, BatchesFail, DrainStatementFails, Crash
  <2> QED BY <1>5, <2>1, <2>2 DEF Failure
<1>6. ASSUME NEW h \in Hours, HourLeaseDue(h) PROVE RowsGo
  BY <1>6, RowKept DEF HourLeaseDue
<1>7. ASSUME NEW m \in Matches, RowLeaseExpires(m) PROVE RowsGo
  <2>1. SetRow(m, [row[m] EXCEPT !.lease = "nobody"])  BY <1>7 DEF RowLeaseExpires
  <2>2. RowStep(row[m], [row[m] EXCEPT !.lease = "nobody"])  BY <1>0, LeaseStep
  <2> QED BY <2>1, <2>2, RowSet
<1>8. ASSUME NEW m \in Matches, AdoptNonranked(m) PROVE RowsGo
  <2>1. PICK legacy \in {"facts", "roster", "nothing"} : SetRow(m, Adopted(row[m], legacy))
    BY <1>8 DEF AdoptNonranked
  <2>2. RowStep(row[m], Adopted(row[m], legacy))  BY <1>0, AdoptedStep
  <2> QED BY <2>1, <2>2, RowSet
<1>9. CASE UNCHANGED vars  BY <1>9, RowKept DEF vars
<1> QED BY <1>2, <1>3, <1>4, <1>5, <1>6, <1>7, <1>8, <1>9 DEF Next


-----------------------------------------------------------------------------
(* Hours *)

Paid(h) == \A m \in MatchesOf(h) : Done(row[m])

(* What becomes of the hours in one step: the search stays noted, and an hour *)
(* becomes complete only when it is paid.                                     *)
HoursGo ==
    /\ hour' \in [Hours -> HourRows]
    /\ \A h \in Hours : /\ hour[h].fetched => hour'[h].fetched
                        /\ hour'[h].status = "complete" => hour[h].status = "complete" \/ Paid(h)

LEMMA HourKept == IngestTypes /\ UNCHANGED hour => HoursGo
BY DEF IngestTypes, HoursGo

LEMMA HourSet ==
    ASSUME IngestTypes, NEW h \in Hours, NEW r \in HourRows, hour' = [hour EXCEPT ![h] = r],
           hour[h].fetched => r.fetched,
           r.status = "complete" => hour[h].status = "complete" \/ Paid(h)
    PROVE  HoursGo
<1>1. hour \in [Hours -> HourRows]  BY DEF IngestTypes
<1>2. hour' \in [Hours -> HourRows]  BY <1>1
<1>3. hour'[h] = r  BY <1>1
<1>4. \A g \in Hours : g # h => hour'[g] = hour[g]  BY <1>1
<1> QED BY <1>2, <1>3, <1>4 DEF HoursGo

LEMMA LeaseRefreshGoes ==
    ASSUME IngestTypes, NEW h \in Hours, hour' = LeaseRefreshed(h) PROVE HoursGo
<1> DEFINE r == [hour[h] EXCEPT !.live = @ \/ hour[h].status = "fetching"]
<1>1. hour[h] \in HourRows  BY DEF IngestTypes
<1>2. r \in HourRows /\ r.fetched = hour[h].fetched /\ r.status = hour[h].status
  BY <1>1 DEF HourRows
<1>3. hour' = [hour EXCEPT ![h] = r]  BY DEF LeaseRefreshed, IngestTypes
<1> HIDE DEF r
<1> QED BY <1>2, <1>3, HourSet

(* A drain at work has a claimed hour.                                        *)
LEMMA DrainHour ==
    ASSUME IngestTypes, TasksFit, NEW t \in Tasks,
           task[t].pc \in TaskPCs \ LookupPCs
    PROVE  t \in Drains /\ task[t].hour \in Hours
<1>1. TaskFits(t, task[t])  BY DEF TasksFit
<1>2. t \in Drains  BY <1>1 DEF TaskFits, Tasks
<1> QED BY <1>1, <1>2 DEF TaskFits, LookupPCs

LEMMA HoursMove == IngestTypes /\ RowsFit /\ TasksFit /\ [Next]_vars => HoursGo
<1> SUFFICES ASSUME IngestTypes, RowsFit, TasksFit, [Next]_vars PROVE HoursGo
  OBVIOUS
<1>0. hour \in [Hours -> HourRows]  BY DEF IngestTypes
<1>1. ASSUME NEW t \in Tasks, NEW h \in Hours, ClaimHour(t, h) PROVE HoursGo
  <2> DEFINE r == [hour[h] EXCEPT !.status = "fetching", !.live = TRUE]
  <2>1. r \in HourRows /\ r.fetched = hour[h].fetched /\ r.status = "fetching"
    BY <1>0 DEF HourRows, HourStatuses
  <2>2. hour' = [hour EXCEPT ![h] = r]  BY <1>0, <1>1 DEF ClaimHour
  <2> HIDE DEF r
  <2> QED BY <2>1, <2>2, HourSet
<1>2. ASSUME NEW t \in Tasks,
             OperatorClaims(t) \/ GapClaims(t) \/ ClaimHourFails(t) \/ Lookup(t)
      PROVE  HoursGo
  <2>1. CASE ClaimHourFails(t) \/ Lookup(t)  BY <2>1, HourKept DEF ClaimHourFails, Lookup
  <2>2. CASE OperatorClaims(t)  BY <1>1, <2>2 DEF OperatorClaims
  <2>3. CASE GapClaims(t)
    <3>1. PICK h \in GapCandidates : ClaimHour(t, h)  BY <2>3 DEF GapClaims
    <3>2. h \in Hours  BY <3>1 DEF GapCandidates
    <3> QED BY <1>1, <3>1, <3>2
  <2> QED BY <1>2, <2>1, <2>2, <2>3
<1>3. ASSUME NEW t \in Tasks, DrainStep(t) PROVE HoursGo
  <2> DEFINE h == task[t].hour
  <2>1. CASE \/ LoadIds(t) \/ Select(t) \/ StoreFacts(t) \/ CountFacts(t) \/ BatchesEnd(t)
             \/ Reselect(t) \/ ResumeEnds(t)
    BY <2>1, HourKept
       DEF LoadIds, Select, StoreFacts, CountFacts, BatchesEnd, Reselect, ResumeEnds
  <2>2. ASSUME task[t].pc \in {"claim", "search", "empty", "batch", "resume", "mark"}
        PROVE  t \in Drains /\ h \in Hours /\ hour[h] \in HourRows
    BY <1>0, <2>2, DrainHour DEF TaskPCs, LookupPCs, LifecyclePCs
  <2>3. CASE ClaimSearch(t)
    <3>1. CASE UNCHANGED hour  BY <3>1, HourKept
    <3>2. CASE hour' = [hour EXCEPT ![h].fetched = TRUE, ![h].succeeded = FALSE]
      <4> DEFINE r == [hour[h] EXCEPT !.fetched = TRUE, !.succeeded = FALSE]
      <4>1. h \in Hours /\ hour[h] \in HourRows  BY <2>2, <2>3 DEF ClaimSearch
      <4>2. r \in HourRows /\ r.fetched /\ r.status = hour[h].status  BY <4>1 DEF HourRows
      <4>3. hour' = [hour EXCEPT ![h] = r]  BY <1>0, <3>2, <4>1
      <4> HIDE DEF r
      <4> QED BY <4>1, <4>2, <4>3, HourSet
    <3> QED BY <2>3, <3>1, <3>2 DEF ClaimSearch
  <2>4. CASE SearchAnswers(t)
    <3> DEFINE r == [hour[h] EXCEPT !.succeeded = @ \/ hour[h].status = "fetching"]
    <3>1. h \in Hours /\ hour[h] \in HourRows  BY <2>2, <2>4 DEF SearchAnswers
    <3>2. r \in HourRows /\ r.fetched = hour[h].fetched /\ r.status = hour[h].status
      BY <3>1 DEF HourRows
    <3>3. hour' = [hour EXCEPT ![h] = r]  BY <1>0, <2>4, <3>1 DEF SearchAnswers
    <3> HIDE DEF r
    <3> QED BY <3>1, <3>2, <3>3, HourSet
  <2>5. CASE MarkEmpty(t)
    <3> DEFINE r == [status |-> "empty", fetched |-> TRUE, succeeded |-> TRUE, live |-> FALSE]
    <3>1. h \in Hours  BY <2>2, <2>5 DEF MarkEmpty
    <3>2. r \in HourRows /\ r.fetched /\ r.status = "empty"  BY DEF HourRows, HourStatuses
    <3>3. hour' = [hour EXCEPT ![h] = r]  BY <2>5 DEF MarkEmpty
    <3> HIDE DEF r
    <3> QED BY <3>1, <3>2, <3>3, HourSet
  <2>6. CASE BatchFetches(t)
    <3>1. h \in Hours  BY <2>2, <2>6 DEF BatchFetches
    <3>2. hour' = LeaseRefreshed(h)  BY <2>6 DEF BatchFetches
    <3> QED BY <3>1, <3>2, LeaseRefreshGoes
  <2>7. CASE ResumeMatch(t)
    <3>1. h \in Hours  BY <2>2, <2>7 DEF ResumeMatch
    <3>2. hour' = LeaseRefreshed(h)  BY <2>7 DEF ResumeMatch
    <3> QED BY <3>1, <3>2, LeaseRefreshGoes
  <2>8. CASE MarkHour(t)
    <3>1. t \in Drains /\ h \in Hours /\ hour[h] \in HourRows  BY <2>2, <2>8 DEF MarkHour
    <3>2. CASE hour[h].status = "absent"
      <4>1. hour' = [hour EXCEPT ![h] = hour[h]]  BY <2>8, <3>2 DEF MarkHour
      <4> QED BY <3>1, <4>1, HourSet
    <3>3. CASE hour[h].status # "absent" /\ task[t].bad
      <4> DEFINE r == [hour[h] EXCEPT !.status = "failed", !.live = FALSE]
      <4>1. r \in HourRows /\ r.fetched = hour[h].fetched /\ r.status = "failed"
        BY <3>1 DEF HourRows, HourStatuses
      <4>2. hour' = [hour EXCEPT ![h] = r]  BY <2>8, <3>3 DEF MarkHour
      <4> HIDE DEF r
      <4> QED BY <3>1, <4>1, <4>2, HourSet
    <3>4. CASE hour[h].status # "absent" /\ ~task[t].bad
      <4> DEFINE r == [status |-> "complete", fetched |-> TRUE, succeeded |-> TRUE, live |-> FALSE]
      <4>1. r \in HourRows /\ r.fetched  BY DEF HourRows, HourStatuses
      <4>2. hour' = [hour EXCEPT ![h] = r]  BY <2>8, <3>4 DEF MarkHour
      <4>3. TaskFits(t, task[t])  BY DEF TasksFit
      <4>4. task[t].pc = "mark" /\ Owed(task[t]) = {}
        BY <2>8 DEF MarkHour, Owed, LifecyclePCs
      <4>5. Paid(h)  BY <3>1, <3>4, <4>3, <4>4 DEF TaskFits, WorkPCs, Paid
      <4> HIDE DEF r
      <4> QED BY <3>1, <4>1, <4>2, <4>5, HourSet
    <3> QED BY <3>2, <3>3, <3>4
  <2> QED BY <1>3, <2>1, <2>3, <2>4, <2>5, <2>6, <2>7, <2>8 DEF DrainStep
<1>4. ASSUME NEW t \in Tasks, LifecycleStep(t) \/ Failure(t) PROVE HoursGo
  BY <1>4, HourKept
     DEF LifecycleStep, FactsKnown, RegisterDiscovery, ClaimMatch, FetchMatch, FinalizeMatch,
         ProjectMatch, EnsureProjected, MarkTerminal, Failure, SearchFails, CheckpointFails,
         BatchesFail, DrainStatementFails, LifecycleFails, Crash
<1>5. ASSUME NEW h \in Hours, HourLeaseDue(h) PROVE HoursGo
  <2> DEFINE r == [hour[h] EXCEPT !.live = FALSE]
  <2>1. r \in HourRows /\ r.fetched = hour[h].fetched /\ r.status = hour[h].status
    BY <1>0 DEF HourRows
  <2>2. hour' = [hour EXCEPT ![h] = r]  BY <1>0, <1>5 DEF HourLeaseDue
  <2> HIDE DEF r
  <2> QED BY <2>1, <2>2, HourSet
<1>6. ASSUME NEW m \in Matches, RowLeaseExpires(m) \/ AdoptNonranked(m) PROVE HoursGo
  BY <1>6, HourKept DEF RowLeaseExpires, AdoptNonranked
<1>7. CASE UNCHANGED vars  BY <1>7, HourKept DEF vars
<1> QED BY <1>2, <1>3, <1>4, <1>5, <1>6, <1>7 DEF Next

(* The one search of an hour, and what it records.                            *)
LEMMA SearchStep ==
    ASSUME IngestInv, [Next]_vars
    PROVE  /\ searches' \in [Hours -> Nat] /\ SearchIsNoted'
           /\ seen' \subseteq Matches /\ seen \subseteq seen' /\ HoursAreWhole'
<1>0. /\ IngestTypes /\ searches \in [Hours -> Nat] /\ seen \subseteq Matches /\ SearchIsNoted
      /\ HoursAreWhole /\ TasksFit
  BY DEF IngestInv, IngestTypes
<1>1. HoursGo  BY HoursMove DEF IngestInv
<1>2. ASSUME UNCHANGED searches PROVE searches' \in [Hours -> Nat] /\ SearchIsNoted'
  BY <1>0, <1>1, <1>2 DEF SearchIsNoted, HoursGo
<1>3. ASSUME UNCHANGED seen
      PROVE  seen' \subseteq Matches /\ seen \subseteq seen' /\ HoursAreWhole'
  BY <1>0, <1>3 DEF HoursAreWhole, SeenOf
<1>4. ASSUME NEW t \in Tasks, ClaimSearch(t)
      PROVE  searches' \in [Hours -> Nat] /\ SearchIsNoted'
  <2> DEFINE h == task[t].hour
  <2>1. h \in Hours
    BY <1>0, <1>4, DrainHour DEF ClaimSearch, TaskPCs, LookupPCs, LifecyclePCs
  <2>2. CASE UNCHANGED searches  BY <1>2, <2>2
  <2>3. CASE /\ ~hour[h].fetched /\ searches' = [searches EXCEPT ![h] = @ + 1]
             /\ hour' = [hour EXCEPT ![h].fetched = TRUE, ![h].succeeded = FALSE]
    <3>1. searches[h] = 0  BY <1>0, <2>1, <2>3 DEF SearchIsNoted
    <3>2. searches' \in [Hours -> Nat] /\ searches'[h] = 1  BY <1>0, <2>1, <2>3, <3>1
    <3>3. hour \in [Hours -> HourRows]  BY <1>0 DEF IngestTypes
    <3>4. hour'[h].fetched  BY <2>1, <2>3, <3>3 DEF HourRows
    <3>5. \A g \in Hours : g # h => searches'[g] = searches[g]  BY <1>0, <2>3
    <3> QED BY <1>0, <1>1, <3>2, <3>4, <3>5 DEF SearchIsNoted, HoursGo
  <2> QED BY <1>4, <2>2, <2>3 DEF ClaimSearch
<1>5. ASSUME NEW t \in Tasks, SearchAnswers(t)
      PROVE  seen' \subseteq Matches /\ seen \subseteq seen' /\ HoursAreWhole'
  <2> DEFINE h == task[t].hour
  <2>1. seen' = seen \cup MatchesOf(h) \/ seen' = seen  BY <1>5 DEF SearchAnswers
  <2>2. CASE seen' = seen  BY <1>3, <2>2
  <2>3. CASE seen' = seen \cup MatchesOf(h)
    <3>1. seen' \subseteq Matches /\ seen \subseteq seen'  BY <1>0, <2>3 DEF MatchesOf
    <3>2. ASSUME NEW g \in Hours PROVE seen' \cap MatchesOf(g) = {} \/ MatchesOf(g) \subseteq seen'
      <4>1. CASE g = h  BY <2>3, <4>1
      <4>2. CASE g # h
        <5>1. MatchesOf(h) \cap MatchesOf(g) = {}  BY <4>2 DEF MatchesOf
        <5>2. seen \cap MatchesOf(g) = {} \/ MatchesOf(g) \subseteq seen
          BY <1>0 DEF HoursAreWhole, SeenOf
        <5> QED BY <2>3, <5>1, <5>2
      <4> QED BY <4>1, <4>2
    <3> QED BY <3>1, <3>2 DEF HoursAreWhole, SeenOf, MatchesOf
  <2> QED BY <2>1, <2>2, <2>3
<1>6. ASSUME NEW t \in Tasks PROVE ClaimSearch(t) => UNCHANGED seen
  BY DEF ClaimSearch
<1>7. ASSUME NEW t \in Tasks PROVE SearchAnswers(t) => UNCHANGED searches
  BY DEF SearchAnswers
<1>8. \/ UNCHANGED <<searches, seen>>
      \/ \E t \in Tasks : ClaimSearch(t) \/ SearchAnswers(t)
  <2>1. ASSUME NEW t \in Tasks,
               OperatorClaims(t) \/ GapClaims(t) \/ ClaimHourFails(t) \/ Lookup(t)
        PROVE  UNCHANGED <<searches, seen>>
    BY <2>1 DEF OperatorClaims, GapClaims, ClaimHour, ClaimHourFails, Lookup
  <2>2. ASSUME NEW t \in Tasks, DrainStep(t), ~ClaimSearch(t), ~SearchAnswers(t)
        PROVE  UNCHANGED <<searches, seen>>
    BY <2>2 DEF DrainStep, LoadIds, MarkEmpty, Select, BatchFetches, StoreFacts, CountFacts,
                BatchesEnd, Reselect, ResumeMatch, ResumeEnds, MarkHour
  <2>3. ASSUME NEW t \in Tasks, LifecycleStep(t) PROVE UNCHANGED <<searches, seen>>
    BY <2>3 DEF LifecycleStep, FactsKnown, RegisterDiscovery, ClaimMatch, FetchMatch,
                FinalizeMatch, ProjectMatch, EnsureProjected, MarkTerminal
  <2>4. ASSUME NEW t \in Tasks, Failure(t) PROVE UNCHANGED <<searches, seen>>
    BY <2>4 DEF Failure, SearchFails, CheckpointFails, BatchesFail, DrainStatementFails,
                LifecycleFails, Crash
  <2>5. ASSUME NEW h \in Hours, HourLeaseDue(h) PROVE UNCHANGED <<searches, seen>>
    BY <2>5 DEF HourLeaseDue
  <2>6. ASSUME NEW m \in Matches, RowLeaseExpires(m) \/ AdoptNonranked(m)
        PROVE  UNCHANGED <<searches, seen>>
    BY <2>6 DEF RowLeaseExpires, AdoptNonranked
  <2>7. CASE UNCHANGED vars  BY <2>7 DEF vars
  <2> QED BY <2>1, <2>2, <2>3, <2>4, <2>5, <2>6, <2>7 DEF Next
<1> QED BY <1>2, <1>3, <1>4, <1>5, <1>6, <1>7, <1>8


-----------------------------------------------------------------------------
(* Tasks *)

LEMMA AnswerVerdict ==
    \A m \in Matches, hint \in BOOLEAN :
        Answer[m][hint] \subseteq [verdict : {"dropped", "limited", "unusable", "full"},
                                   failed : BOOLEAN]
<1> SUFFICES ASSUME NEW m \in Matches, NEW hint \in BOOLEAN
             PROVE  Answer[m][hint] \subseteq
                        [verdict : {"dropped", "limited", "unusable", "full"}, failed : BOOLEAN]
  OBVIOUS
<1>1. Answer[m][hint] =
        {v \in [verdict : {"dropped", "limited", "unusable", "full"}, failed : BOOLEAN] :
            v.verdict \in Verdicts(m, hint, v.failed)}
  BY DEF Answer
<1> QED BY <1>1

LEMMA ResumeVerdict ==
    \A m \in Matches : \A a \in ResumeAnswer[m] :
        a.verdict \in {"dropped", "limited", "unusable", "full"}
<1>1. \A r : Verdict(r) \in {"dropped", "limited", "unusable", "full"}  BY DEF Verdict
<1> QED BY <1>1 DEF ResumeAnswer

(* What a step of one task leaves of the others, and what it becomes itself.  *)
TaskGoes(t, u) == task' = [task EXCEPT ![t] = u] /\ u \in TaskStates

LEMMA LeftGoes ==
    ASSUME IngestTypes, NEW t \in Tasks, NEW ok \in BOOLEAN, task' = Left(t, ok),
           task[t].match \in Matches
    PROVE  \E u \in TaskStates :
              /\ TaskGoes(t, u)
              /\ t \in Drains =>
                    /\ u.pc = "resume" /\ u.hour = task[t].hour /\ u.resume = task[t].resume
                    /\ u.bad = (task[t].bad \/ ~ok)
              /\ t \notin Drains =>
                    /\ u.pc = "idle"
                    /\ u.ready = IF ok THEN task[t].ready \cup {task[t].match} ELSE task[t].ready
<1>0. task \in [Tasks -> TaskStates] /\ task[t] \in TaskStates  BY DEF IngestTypes
<1>1. CASE t \in Drains
  <2> DEFINE u == [task[t] EXCEPT !.pc = "resume", !.match = "none", !.out = "none",
                                  !.bad = @ \/ ~ok]
  <2>1. /\ u \in TaskStates /\ u.pc = "resume" /\ u.hour = task[t].hour
        /\ u.resume = task[t].resume /\ u.bad = (task[t].bad \/ ~ok)
    BY <1>0 DEF TaskStates, TaskPCs
  <2>2. task' = [task EXCEPT ![t] = u]  BY <1>0, <1>1 DEF Left
  <2> HIDE DEF u
  <2> QED BY <1>1, <2>1, <2>2 DEF TaskGoes
<1>2. CASE t \notin Drains
  <2> DEFINE ready == IF ok THEN task[t].ready \cup {task[t].match} ELSE task[t].ready
             u == [Resting EXCEPT !.ready = ready]
  <2>1. ready \subseteq Matches  BY <1>0 DEF TaskStates
  <2>2. task' = [task EXCEPT ![t] = u]  BY <1>2 DEF Left
  <2>3. u.ready = ready /\ u.pc = "idle"  BY DEF Resting
  <2> HIDE DEF ready
  <2>4. u \in TaskStates  BY <2>1 DEF Resting, TaskStates, TaskPCs
  <2> HIDE DEF u
  <2> QED BY <1>2, <2>2, <2>3, <2>4 DEF TaskGoes, ready
<1> QED BY <1>1, <1>2

LEMMA GotoGoes ==
    ASSUME IngestTypes, NEW t \in Tasks, NEW pc \in TaskPCs, Goto(t, pc)
    PROVE  \E u \in TaskStates :
              /\ TaskGoes(t, u) /\ u.pc = pc /\ u.hour = task[t].hour /\ u.batch = task[t].batch
              /\ u.resume = task[t].resume /\ u.bad = task[t].bad /\ u.match = task[t].match
              /\ u.ready = task[t].ready
<1> DEFINE u == [task[t] EXCEPT !.pc = pc]
<1>0. task \in [Tasks -> TaskStates] /\ task[t] \in TaskStates  BY DEF IngestTypes
<1>1. /\ u \in TaskStates /\ u.pc = pc /\ u.hour = task[t].hour /\ u.batch = task[t].batch
      /\ u.resume = task[t].resume /\ u.bad = task[t].bad /\ u.match = task[t].match
      /\ u.ready = task[t].ready
  BY <1>0 DEF TaskStates
<1>2. task' = [task EXCEPT ![t] = u]  BY <1>0 DEF Goto
<1> HIDE DEF u
<1> QED BY <1>1, <1>2 DEF TaskGoes

LEMMA FailingGoes ==
    ASSUME IngestTypes, NEW t \in Tasks, DrainFails(t)
    PROVE  \E u \in TaskStates :
              TaskGoes(t, u) /\ u.pc = "mark" /\ u.hour = task[t].hour /\ u.bad
<1> DEFINE u == [task[t] EXCEPT !.pc = "mark", !.bad = TRUE]
<1>0. task \in [Tasks -> TaskStates] /\ task[t] \in TaskStates  BY DEF IngestTypes
<1>1. u \in TaskStates /\ u.pc = "mark" /\ u.hour = task[t].hour /\ u.bad
  BY <1>0 DEF TaskStates, TaskPCs
<1>2. task' = [task EXCEPT ![t] = u]  BY <1>0 DEF DrainFails
<1> HIDE DEF u
<1> QED BY <1>1, <1>2 DEF TaskGoes


LEMMA OwedIs ==
    ASSUME NEW u
    PROVE  /\ u.pc = "batch" => Owed(u) = u.batch \cup u.resume
           /\ u.pc \in {"store", "count"} => Owed(u) = u.batch \cup u.resume \cup {u.match}
           /\ u.pc \in {"reselect", "resume"} => Owed(u) = u.resume
           /\ u.pc \in LifecyclePCs => Owed(u) = u.resume \cup {u.match}
           /\ u.pc = "mark" => Owed(u) = {}
BY DEF Owed, LifecyclePCs

(* TaskFits of what a task becomes, after the step. *)
FitsNext(t, u) ==
    /\ t \in Lookups => u.pc \in LookupPCs
    /\ t \in Drains /\ u.pc # "idle" => u.hour \in Hours
    /\ u.pc \in MatchPCs => u.match \in Matches
    /\ u.pc = "select" => MatchesOf(u.hour) \subseteq seen'
    /\ t \in Drains /\ u.pc \in WorkPCs /\ ~u.bad =>
           \A m \in MatchesOf(u.hour) : Done(row'[m]) \/ m \in Owed(u)
    /\ t \in Lookups => \A m \in u.ready : row'[m].projected

TasksGo == task' \in [Tasks -> TaskStates] /\ TasksFit'

LEMMA FitsStays ==
    ASSUME IngestTypes, RowsGo, seen \subseteq seen', NEW t \in Tasks, TaskFits(t, task[t])
    PROVE  FitsNext(t, task[t])
<1>1. \A m \in MatchesOf(task[t].hour) : Done(row[m]) => Done(row'[m])
  BY DEF MatchesOf, RowsGo, RowStep
<1>2. task[t].ready \subseteq Matches  BY DEF IngestTypes, TaskStates
<1>3. \A m \in task[t].ready : row[m].projected => row'[m].projected
  BY <1>2 DEF RowsGo, RowStep
<1> QED BY <1>1, <1>3 DEF TaskFits, FitsNext

LEMMA TaskMoves ==
    ASSUME IngestTypes, TasksFit, RowsGo, seen \subseteq seen', NEW t \in Tasks,
           NEW u, TaskGoes(t, u), FitsNext(t, u)
    PROVE  TasksGo
<1>0. task \in [Tasks -> TaskStates]  BY DEF IngestTypes
<1>1. u \in TaskStates /\ task' = [task EXCEPT ![t] = u]  BY DEF TaskGoes
<1>2. task' \in [Tasks -> TaskStates] /\ task'[t] = u  BY <1>0, <1>1
<1>3. ASSUME NEW v \in Tasks PROVE FitsNext(v, task'[v])
  <2>1. CASE v = t  BY <1>2, <2>1
  <2>2. CASE v # t
    <3>1. task'[v] = task[v]  BY <1>0, <1>1, <2>2
    <3>2. TaskFits(v, task[v])  BY DEF TasksFit
    <3> QED BY <3>1, <3>2, FitsStays
  <2> QED BY <2>1, <2>2
<1>4. TasksFit'  BY <1>3 DEF TasksFit, TaskFits, FitsNext, MatchesOf, Owed
<1> QED BY <1>2, <1>4 DEF TasksGo

LEMMA TasksKept ==
    ASSUME IngestTypes, TasksFit, RowsGo, seen \subseteq seen', UNCHANGED task PROVE TasksGo
<1>1. \A v \in Tasks : FitsNext(v, task'[v])  BY FitsStays DEF TasksFit
<1>2. TasksFit'  BY <1>1 DEF TasksFit, TaskFits, FitsNext, MatchesOf, Owed
<1> QED BY <1>2 DEF TasksGo, IngestTypes

LEMMA DrainsApart == \A t \in Drains : t \notin Lookups /\ t \in Tasks
BY MatchIngestConstants DEF Drains, Tasks

(* A drain that fails, and a task of the lifecycle that goes on or is left.   *)
LEMMA DrainFailsFits ==
    ASSUME IngestTypes, TasksFit, RowsGo, seen \subseteq seen', NEW t \in Tasks,
           task[t].pc \in TaskPCs \ LookupPCs, DrainFails(t)
    PROVE  TasksGo
<1>1. t \in Drains /\ task[t].hour \in Hours  BY DrainHour
<1>2. PICK u \in TaskStates : TaskGoes(t, u) /\ u.pc = "mark" /\ u.hour = task[t].hour /\ u.bad
  BY FailingGoes
<1>3. FitsNext(t, u)
  BY <1>1, <1>2, DrainsApart DEF FitsNext, MatchPCs, LifecyclePCs
<1> QED BY <1>2, <1>3, TaskMoves

LEMMA LifecycleFits ==
    ASSUME IngestTypes, TasksFit, RowsGo, seen \subseteq seen', NEW t \in Tasks,
           task[t].pc \in LifecyclePCs, NEW u \in TaskStates, TaskGoes(t, u),
           u.pc \in LifecyclePCs, u.pc = "terminal" => t \in Drains,
           u.hour = task[t].hour, u.resume = task[t].resume, u.bad = task[t].bad,
           u.match = task[t].match, u.ready = task[t].ready
    PROVE  TasksGo
<1>1. TaskFits(t, task[t])  BY DEF TasksFit
<1>2. FitsNext(t, task[t])  BY <1>1, FitsStays
<1>3. Owed(u) = Owed(task[t])  BY OwedIs
<1>4. u.pc # "select" /\ u.pc # "idle" /\ task[t].pc # "idle"  BY DEF LifecyclePCs
<1>5. t \in Lookups => u.pc \in LookupPCs  BY DrainsApart DEF LookupPCs
<1>6. u.pc \in WorkPCs /\ u.pc \in MatchPCs /\ task[t].pc \in WorkPCs /\ task[t].pc \in MatchPCs
  BY DEF WorkPCs, MatchPCs
<1>7. FitsNext(t, u)  BY <1>2, <1>3, <1>4, <1>5, <1>6 DEF FitsNext
<1> QED BY <1>7, TaskMoves

LEMMA LeftFits ==
    ASSUME IngestTypes, TasksFit, RowsGo, seen \subseteq seen', NEW t \in Tasks,
           task[t].pc \in LifecyclePCs, NEW ok \in BOOLEAN, task' = Left(t, ok),
           ok => Done(row'[task[t].match]),
           ok /\ t \in Lookups => row'[task[t].match].projected
    PROVE  TasksGo
<1>1. TaskFits(t, task[t])  BY DEF TasksFit
<1>2. FitsNext(t, task[t])  BY <1>1, FitsStays
<1>3. task[t].match \in Matches /\ task[t].pc # "idle" /\ task[t].pc \in WorkPCs
  BY <1>1 DEF TaskFits, MatchPCs, WorkPCs, LifecyclePCs
<1>4. PICK u \in TaskStates :
              /\ TaskGoes(t, u)
              /\ t \in Drains =>
                    /\ u.pc = "resume" /\ u.hour = task[t].hour /\ u.resume = task[t].resume
                    /\ u.bad = (task[t].bad \/ ~ok)
              /\ t \notin Drains =>
                    /\ u.pc = "idle"
                    /\ u.ready = IF ok THEN task[t].ready \cup {task[t].match} ELSE task[t].ready
  BY <1>3, LeftGoes
<1>5. CASE t \in Drains
  <2>1. t \notin Lookups /\ u.pc = "resume" /\ u.hour \in Hours  BY <1>1, <1>3, <1>4, <1>5, DrainsApart DEF TaskFits
  <2>2. Owed(u) = u.resume /\ Owed(task[t]) = task[t].resume \cup {task[t].match}
    BY <2>1, OwedIs
  <2>3. ~u.bad => ~task[t].bad /\ ok  BY <1>4, <1>5
  <2>4. ASSUME ~u.bad, NEW m \in MatchesOf(u.hour) PROVE Done(row'[m]) \/ m \in Owed(u)
    <3>1. Done(row'[m]) \/ m \in Owed(task[t])
      BY <1>2, <1>3, <1>4, <1>5, <2>3, <2>4 DEF FitsNext
    <3> QED BY <1>4, <1>5, <2>2, <2>3, <2>4, <3>1
  <2>5. FitsNext(t, u)
    BY <2>1, <2>4 DEF FitsNext, MatchPCs, LifecyclePCs
  <2> QED BY <1>4, <2>5, TaskMoves
<1>6. CASE t \notin Drains
  <2>1. u.pc = "idle" /\ (u.ready = task[t].ready \/ (ok /\ u.ready = task[t].ready \cup {task[t].match}))
    BY <1>4, <1>6
  <2>2. t \in Lookups => \A m \in u.ready : row'[m].projected
    BY <1>2, <2>1 DEF FitsNext
  <2>3. FitsNext(t, u)
    BY <1>6, <2>1, <2>2 DEF FitsNext, MatchPCs, LifecyclePCs, LookupPCs
  <2> QED BY <1>4, <2>3, TaskMoves
<1> QED BY <1>5, <1>6


(* The steps of a drain.                                                      *)
LEMMA DrainTasks ==
    ASSUME IngestInv, RowsGo, seen \subseteq seen', NEW t \in Tasks, DrainStep(t)
    PROVE  TasksGo
<1> DEFINE k == task[t]
<1>0. IngestTypes /\ TasksFit /\ RowsFit /\ HoursAreWhole /\ TaskFits(t, k) /\ k \in TaskStates
  BY DEF IngestInv, IngestTypes, TasksFit
<1>1. FitsNext(t, k)  BY <1>0, FitsStays
<1>2. k.pc \in TaskPCs \ LookupPCs
  BY DEF DrainStep, LoadIds, ClaimSearch, SearchAnswers, MarkEmpty, Select, BatchFetches,
         StoreFacts, CountFacts, BatchesEnd, Reselect, ResumeMatch, ResumeEnds, MarkHour,
         TaskPCs, LookupPCs, LifecyclePCs
<1>3. t \in Drains /\ t \notin Lookups /\ k.hour \in Hours  BY <1>0, <1>2, DrainHour, DrainsApart
<1>4. \A m \in MatchesOf(k.hour) : m \in Matches /\ row[m] \in MatchRows /\ RowFits(row[m])
  BY <1>0 DEF MatchesOf, IngestTypes, RowsFit
<1>5. ASSUME NEW u \in TaskStates, TaskGoes(t, u), u.hour = k.hour,
             u.pc \in MatchPCs => u.match \in Matches,
             u.pc = "select" => MatchesOf(k.hour) \subseteq seen',
             u.pc \in WorkPCs /\ ~u.bad =>
                 \A m \in MatchesOf(k.hour) : Done(row'[m]) \/ m \in Owed(u)
      PROVE  TasksGo
  <2>1. FitsNext(t, u)  BY <1>3, <1>5 DEF FitsNext
  <2> QED BY <1>0, <1>5, <2>1, TaskMoves
<1>6. ASSUME NEW pc \in TaskPCs, Goto(t, pc), pc \notin MatchPCs,
             pc = "select" => MatchesOf(k.hour) \subseteq seen', pc \notin WorkPCs
      PROVE  TasksGo
  <2>1. PICK u \in TaskStates : TaskGoes(t, u) /\ u.pc = pc /\ u.hour = k.hour
    BY <1>0, <1>6, GotoGoes
  <2> QED BY <1>5, <1>6, <2>1
<1>7. ASSUME k.pc \in WorkPCs, ~k.bad PROVE \A m \in MatchesOf(k.hour) : Done(row'[m]) \/ m \in Owed(k)
  BY <1>1, <1>3, <1>7 DEF FitsNext
<1>8. CASE LoadIds(t)
  <2>1. CASE SeenOf(k.hour) # {}
    <3>1. MatchesOf(k.hour) \subseteq seen  BY <1>0, <1>3, <2>1 DEF HoursAreWhole
    <3>2. Goto(t, "select")  BY <1>8, <2>1 DEF LoadIds
    <3> QED BY <1>6, <3>1, <3>2 DEF TaskPCs, WorkPCs, MatchPCs, LifecyclePCs
  <2>2. CASE SeenOf(k.hour) = {}
    <3>1. Goto(t, "claim")  BY <1>8, <2>2 DEF LoadIds
    <3> QED BY <1>6, <3>1 DEF TaskPCs, WorkPCs, MatchPCs, LifecyclePCs
  <2> QED BY <2>1, <2>2
<1>9. CASE ClaimSearch(t)
  <2>1. CASE Goto(t, "search")  BY <1>6, <2>1 DEF TaskPCs, WorkPCs, MatchPCs, LifecyclePCs
  <2>2. CASE DrainFails(t)  BY <1>0, <1>2, <2>2, DrainFailsFits
  <2> QED BY <1>9, <2>1, <2>2 DEF ClaimSearch
<1>10. CASE SearchAnswers(t)
  <2>1. CASE Goto(t, "empty")  BY <1>6, <2>1 DEF TaskPCs, WorkPCs, MatchPCs, LifecyclePCs
  <2>2. CASE Goto(t, "select") /\ seen' = seen \cup MatchesOf(k.hour)
    <3>1. MatchesOf(k.hour) \subseteq seen'  BY <2>2
    <3> QED BY <1>6, <2>2, <3>1 DEF TaskPCs, WorkPCs, MatchPCs, LifecyclePCs
  <2> QED BY <1>10, <2>1, <2>2 DEF SearchAnswers
<1>11. CASE MarkEmpty(t)
  <2>1. Goto(t, "idle")  BY <1>11 DEF MarkEmpty
  <2> QED BY <1>6, <2>1 DEF TaskPCs, WorkPCs, MatchPCs, LifecyclePCs
<1>12. CASE Select(t)
  <2> DEFINE open == {m \in SeenOf(k.hour) : ~Settled(row[m])}
             batch == {m \in open : row[m].status = "absent"}
             resume == {m \in open : row[m].status # "absent"}
             u == [k EXCEPT !.pc = "batch", !.batch = batch, !.resume = resume]
  <2>1. task' = [task EXCEPT ![t] = u]  BY <1>0, <1>12 DEF Select, IngestTypes
  <2>2. batch \subseteq Matches /\ resume \subseteq Matches /\ open = batch \cup resume
    BY DEF SeenOf, MatchesOf
  <2>3. UNCHANGED row  BY <1>12 DEF Select
  <2>4. MatchesOf(k.hour) \subseteq seen  BY <1>0, <1>12 DEF Select, TaskFits
  <2>5. \A m \in MatchesOf(k.hour) : Done(row[m]) \/ m \in open
    BY <1>4, <2>4, SettledIsDone DEF SeenOf
  <2> HIDE DEF open, batch, resume, k
  <2>6. /\ u \in TaskStates /\ u.pc = "batch" /\ u.hour = k.hour /\ u.batch = batch
        /\ u.resume = resume
    BY <1>0, <2>2 DEF TaskStates, TaskPCs
  <2> HIDE DEF u
  <2>7. Owed(u) = open  BY <2>2, <2>6, OwedIs
  <2>8. u.pc \notin MatchPCs /\ u.pc # "select"  BY <2>6 DEF MatchPCs, LifecyclePCs
  <2> QED BY <1>5, <2>1, <2>3, <2>5, <2>6, <2>7, <2>8 DEF TaskGoes
<1>13. CASE BatchFetches(t)
  <2>1. PICK m \in k.batch : \E a \in Answer[m][TRUE] :
            task' = [task EXCEPT ![t].batch = @ \ {m},
                        ![t].pc = IF a.verdict \in {"full", "limited"} THEN "store" ELSE "batch",
                        ![t].match = IF a.verdict \in {"full", "limited"} THEN m ELSE @,
                        ![t].out = IF a.verdict \in {"full", "limited"} THEN a.verdict ELSE @,
                        ![t].bad = @ \/ a.verdict \notin {"full", "limited"}]
    BY <1>13 DEF BatchFetches
  <2>a. PICK a \in Answer[m][TRUE] :
            task' = [task EXCEPT ![t].batch = @ \ {m},
                        ![t].pc = IF a.verdict \in {"full", "limited"} THEN "store" ELSE "batch",
                        ![t].match = IF a.verdict \in {"full", "limited"} THEN m ELSE @,
                        ![t].out = IF a.verdict \in {"full", "limited"} THEN a.verdict ELSE @,
                        ![t].bad = @ \/ a.verdict \notin {"full", "limited"}]
    BY <2>1
  <2>2. k.pc = "batch" /\ m \in Matches /\ k.pc \in WorkPCs
    BY <1>0, <1>13, <2>1 DEF BatchFetches, TaskStates, WorkPCs
  <2> DEFINE usable == a.verdict \in {"full", "limited"}
             w == [k EXCEPT !.batch = @ \ {m}, !.pc = IF usable THEN "store" ELSE "batch",
                            !.match = IF usable THEN m ELSE @,
                            !.out = IF usable THEN a.verdict ELSE @, !.bad = @ \/ ~usable]
  <2>b. task' = [task EXCEPT ![t] = w]  BY <1>0, <2>a DEF IngestTypes, TaskStates
  <2>3. Owed(k) = k.batch \cup k.resume  BY <2>2, OwedIs
  <2>4. CASE a.verdict \in {"full", "limited"}
    <3> DEFINE u == [k EXCEPT !.batch = @ \ {m}, !.pc = "store", !.match = m, !.out = a.verdict]
    <3>1. task' = [task EXCEPT ![t] = u]
      <4>1. w = u  BY <1>0, <2>4 DEF TaskStates
      <4> QED BY <2>b, <4>1
    <3> HIDE DEF k
    <3>2. /\ u \in TaskStates /\ u.pc = "store" /\ u.hour = k.hour /\ u.batch = k.batch \ {m}
          /\ u.resume = k.resume /\ u.match = m /\ u.bad = k.bad
      BY <1>0, <2>2, <2>4 DEF TaskStates, TaskPCs
    <3> HIDE DEF u
    <3>3. Owed(u) = u.batch \cup u.resume \cup {u.match}  BY <3>2, OwedIs
    <3>4. \A n : n \in Owed(k) => n \in Owed(u)  BY <2>3, <3>2, <3>3
    <3>5. u.pc # "select" /\ u.match \in Matches  BY <2>2, <3>2
    <3> QED BY <1>5, <1>7, <2>2, <3>1, <3>2, <3>4, <3>5 DEF TaskGoes
  <2>5. CASE a.verdict \notin {"full", "limited"}
    <3> DEFINE u == [k EXCEPT !.batch = @ \ {m}, !.bad = TRUE]
    <3>1. task' = [task EXCEPT ![t] = u]
      <4>1. w = u  BY <1>0, <2>2, <2>5 DEF TaskStates
      <4> QED BY <2>b, <4>1
    <3> HIDE DEF k
    <3>2. u \in TaskStates /\ u.pc = "batch" /\ u.hour = k.hour /\ u.bad
      BY <1>0, <2>2 DEF TaskStates
    <3> HIDE DEF u
    <3>3. u.pc \notin MatchPCs /\ u.pc # "select"  BY <3>2 DEF MatchPCs, LifecyclePCs
    <3> QED BY <1>5, <3>1, <3>2, <3>3 DEF TaskGoes
  <2> QED BY <2>4, <2>5
<1>14. CASE StoreFacts(t)
  <2>1. Goto(t, "count") /\ k.pc = "store"  BY <1>14 DEF StoreFacts
  <2>2. PICK u \in TaskStates :
              /\ TaskGoes(t, u) /\ u.pc = "count" /\ u.hour = k.hour /\ u.batch = k.batch
              /\ u.resume = k.resume /\ u.bad = k.bad /\ u.match = k.match
    BY <1>0, <2>1, GotoGoes DEF TaskPCs
  <2>3. Owed(u) = Owed(k)
    <3>1. Owed(u) = u.batch \cup u.resume \cup {u.match}  BY <2>2, OwedIs
    <3>2. Owed(k) = k.batch \cup k.resume \cup {k.match}  BY <2>1, OwedIs
    <3> QED BY <2>2, <3>1, <3>2
  <2>4. u.match \in Matches /\ k.pc \in WorkPCs
    BY <1>0, <2>1, <2>2 DEF TaskFits, MatchPCs, WorkPCs
  <2> QED BY <1>5, <1>7, <2>2, <2>3, <2>4
<1>15. CASE CountFacts(t)
  <2> DEFINE u == [k EXCEPT !.pc = "batch", !.match = "none", !.out = "none",
                            !.bad = @ \/ ~Projectable(k.match)]
  <2>1. task' = [task EXCEPT ![t] = u]  BY <1>0, <1>15 DEF CountFacts, IngestTypes, TaskStates
  <2>2. k.pc = "count" /\ k.match \in Matches /\ k.pc \in WorkPCs
    BY <1>0, <1>15 DEF CountFacts, TaskFits, MatchPCs, WorkPCs
  <2>3. Projectable(k.match) => Done(row'[k.match])
    <3>1. Projectable(k.match) => row[k.match].facts  BY DEF Projectable
    <3> QED BY <2>2, <3>1 DEF RowsGo, RowStep, Done
  <2> HIDE DEF k
  <2>4. /\ u \in TaskStates /\ u.pc = "batch" /\ u.hour = k.hour /\ u.batch = k.batch
        /\ u.resume = k.resume /\ u.bad = (k.bad \/ ~Projectable(k.match))
    BY <1>0 DEF TaskStates, TaskPCs
  <2> HIDE DEF u
  <2>5. Owed(u) = u.batch \cup u.resume /\ Owed(k) = k.batch \cup k.resume \cup {k.match}
    BY <2>2, <2>4, OwedIs
  <2>6. u.pc \notin MatchPCs /\ u.pc # "select"  BY <2>4 DEF MatchPCs, LifecyclePCs
  <2>7. ~u.bad => \A m \in MatchesOf(k.hour) : Done(row'[m]) \/ m \in Owed(u)
    BY <1>7, <2>2, <2>3, <2>4, <2>5
  <2> QED BY <1>5, <2>1, <2>4, <2>6, <2>7 DEF TaskGoes
<1>16. CASE BatchesEnd(t)
  <2>1. Goto(t, "reselect") /\ k.pc = "batch" /\ k.batch = {}  BY <1>16 DEF BatchesEnd
  <2>2. PICK u \in TaskStates :
              /\ TaskGoes(t, u) /\ u.pc = "reselect" /\ u.hour = k.hour
              /\ u.resume = k.resume /\ u.bad = k.bad
    BY <1>0, <2>1, GotoGoes DEF TaskPCs
  <2>3. Owed(u) = Owed(k)  BY <2>1, <2>2, OwedIs
  <2>4. u.pc \notin MatchPCs /\ u.pc # "select" /\ k.pc \in WorkPCs
    BY <2>1, <2>2 DEF MatchPCs, LifecyclePCs, WorkPCs
  <2> QED BY <1>5, <1>7, <2>2, <2>3, <2>4
<1>17. CASE Reselect(t)
  <2> DEFINE resume == {m \in k.resume : ~Settled(row[m])}
             u == [k EXCEPT !.pc = "resume", !.resume = resume]
  <2>1. task' = [task EXCEPT ![t] = u]  BY <1>0, <1>17 DEF Reselect, IngestTypes, TaskStates
  <2>2. k.pc = "reselect" /\ k.pc \in WorkPCs /\ UNCHANGED row  BY <1>17 DEF Reselect, WorkPCs
  <2>3. \A m \in MatchesOf(k.hour) : m \in k.resume => Done(row[m]) \/ m \in resume
    BY <1>4, SettledIsDone
  <2>4. resume \subseteq k.resume  OBVIOUS
  <2> HIDE DEF resume, k
  <2>5. u \in TaskStates /\ u.pc = "resume" /\ u.hour = k.hour /\ u.resume = resume /\ u.bad = k.bad
    BY <1>0, <2>4 DEF TaskStates, TaskPCs
  <2> HIDE DEF u
  <2>6. Owed(u) = resume /\ Owed(k) = k.resume  BY <2>2, <2>5, OwedIs
  <2>7. u.pc \notin MatchPCs /\ u.pc # "select"  BY <2>5 DEF MatchPCs, LifecyclePCs
  <2> QED BY <1>5, <1>7, <2>1, <2>2, <2>3, <2>5, <2>6, <2>7 DEF TaskGoes
<1>18. CASE ResumeMatch(t)
  <2>1. PICK m \in k.resume :
            task' = [task EXCEPT ![t].pc = "known", ![t].match = m, ![t].resume = @ \ {m}]
    BY <1>18 DEF ResumeMatch
  <2> DEFINE u == [k EXCEPT !.pc = "known", !.match = m, !.resume = @ \ {m}]
  <2>2. task' = [task EXCEPT ![t] = u]  BY <1>0, <2>1 DEF IngestTypes, TaskStates
  <2>3. k.pc = "resume" /\ k.pc \in WorkPCs /\ m \in Matches
    BY <1>0, <1>18, <2>1 DEF ResumeMatch, WorkPCs, TaskStates
  <2> HIDE DEF k
  <2>4. /\ u \in TaskStates /\ u.pc = "known" /\ u.hour = k.hour /\ u.resume = k.resume \ {m}
        /\ u.match = m /\ u.bad = k.bad
    BY <1>0, <2>3 DEF TaskStates, TaskPCs
  <2> HIDE DEF u
  <2>5. u.pc \in LifecyclePCs /\ u.pc # "select"  BY <2>4 DEF LifecyclePCs
  <2>6. Owed(u) = u.resume \cup {u.match} /\ Owed(k) = k.resume  BY <2>3, <2>5, OwedIs
  <2>7. \A n : n \in Owed(k) => n \in Owed(u)  BY <2>4, <2>6
  <2> QED BY <1>5, <1>7, <2>2, <2>3, <2>4, <2>5, <2>7 DEF TaskGoes
<1>19. CASE ResumeEnds(t)
  <2>1. Goto(t, "mark") /\ k.pc = "resume" /\ k.resume = {}  BY <1>19 DEF ResumeEnds
  <2>2. PICK u \in TaskStates : TaskGoes(t, u) /\ u.pc = "mark" /\ u.hour = k.hour /\ u.bad = k.bad
    BY <1>0, <2>1, GotoGoes DEF TaskPCs
  <2>3. Owed(u) = Owed(k)  BY <2>1, <2>2, OwedIs
  <2>4. u.pc \notin MatchPCs /\ u.pc # "select" /\ k.pc \in WorkPCs
    BY <2>1, <2>2 DEF MatchPCs, LifecyclePCs, WorkPCs
  <2> QED BY <1>5, <1>7, <2>2, <2>3, <2>4
<1>20. CASE MarkHour(t)
  <2>1. TaskGoes(t, Resting)
    BY <1>20 DEF MarkHour, TaskGoes, Resting, TaskStates, TaskPCs
  <2>2. FitsNext(t, Resting)
    BY <1>3 DEF FitsNext, Resting, MatchPCs, WorkPCs, LifecyclePCs
  <2> QED BY <1>0, <2>1, <2>2, TaskMoves
<1> QED BY <1>8, <1>9, <1>10, <1>11, <1>12, <1>13, <1>14, <1>15, <1>16, <1>17, <1>18, <1>19,
           <1>20 DEF DrainStep


(* The steps of ingest_discovery, for a drain and for a lookup.               *)
LEMMA LifecycleTasks ==
    ASSUME IngestInv, RowsGo, seen \subseteq seen', NEW t \in Tasks, LifecycleStep(t)
    PROVE  TasksGo
<1> DEFINE k == task[t]
           n == task[t].match
<1>0. IngestTypes /\ TasksFit /\ RowsFit /\ TaskFits(t, k) /\ k \in TaskStates
  BY DEF IngestInv, IngestTypes, TasksFit
<1>1. k.pc \in LifecyclePCs
  BY DEF LifecycleStep, FactsKnown, RegisterDiscovery, ClaimMatch, FetchMatch, FinalizeMatch,
         ProjectMatch, EnsureProjected, MarkTerminal, LifecyclePCs
<1>2. n \in Matches /\ row[n] \in MatchRows /\ RowFits(row[n])
  BY <1>0, <1>1 DEF TaskFits, MatchPCs, IngestTypes, RowsFit
<1>3. ASSUME NEW pc \in LifecyclePCs \ {"terminal"}, Goto(t, pc) PROVE TasksGo
  <2>1. pc \in TaskPCs  BY DEF LifecyclePCs, TaskPCs
  <2>2. PICK u \in TaskStates :
              /\ TaskGoes(t, u) /\ u.pc = pc /\ u.hour = task[t].hour
              /\ u.resume = task[t].resume /\ u.bad = task[t].bad /\ u.match = task[t].match
              /\ u.ready = task[t].ready
    BY <1>0, <1>3, <2>1, GotoGoes
  <2> QED BY <1>0, <1>1, <2>2, LifecycleFits
<1>4. ASSUME task' = Left(t, FALSE) PROVE TasksGo
  BY <1>0, <1>1, <1>4, LeftFits
<1>5. CASE FactsKnown(t)
  <2>1. Goto(t, "ensure") \/ Goto(t, "register")  BY <1>5 DEF FactsKnown
  <2> QED BY <1>3, <2>1 DEF LifecyclePCs
<1>6. CASE RegisterDiscovery(t)
  <2>1. Goto(t, "ensure") \/ Goto(t, "lease")  BY <1>6 DEF RegisterDiscovery
  <2> QED BY <1>3, <2>1 DEF LifecyclePCs
<1>7. CASE ClaimMatch(t)
  <2>1. Goto(t, "fetch") \/ Goto(t, "ensure") \/ task' = Left(t, FALSE)  BY <1>7 DEF ClaimMatch
  <2> QED BY <1>3, <1>4, <2>1 DEF LifecyclePCs
<1>8. CASE FetchMatch(t)
  <2> DEFINE answers == IF row[n].resumable
                        THEN ResumeAnswer[n]
                        ELSE Answer[n][TRUE] \cup (IF t \in Lookups THEN Answer[n][FALSE] ELSE {})
  <2>1. PICK a \in answers :
          CASE a.verdict = "dropped" ->
                    /\ SetRow(n, Released(row[n], t))
                    /\ IF t \in Drains THEN Goto(t, "terminal") ELSE task' = Left(t, FALSE)
             [] a.verdict = "unusable" -> SetRow(n, Released(row[n], t)) /\ task' = Left(t, FALSE)
             [] OTHER -> /\ task' = [task EXCEPT ![t].pc = "finalize", ![t].out = a.verdict]
                         /\ UNCHANGED row
    BY <1>8 DEF FetchMatch
  <2>2. a.verdict \in {"dropped", "limited", "unusable", "full"}
    <3>1. CASE row[n].resumable  BY <1>2, <3>1, ResumeVerdict
    <3>2. CASE ~row[n].resumable
      <4>1. a \in Answer[n][TRUE] \cup Answer[n][FALSE]  BY <3>2
      <4> QED BY <1>2, <4>1, AnswerVerdict
    <3> QED BY <3>1, <3>2
  <2> HIDE DEF answers
  <2>3. CASE a.verdict = "dropped"
    <3>1. CASE t \in Drains
      <4>1. Goto(t, "terminal") /\ "terminal" \in LifecyclePCs  BY <2>1, <2>3, <3>1 DEF LifecyclePCs
      <4>2. PICK u \in TaskStates :
                /\ TaskGoes(t, u) /\ u.pc = "terminal" /\ u.hour = task[t].hour
                /\ u.resume = task[t].resume /\ u.bad = task[t].bad /\ u.match = task[t].match
                /\ u.ready = task[t].ready
        BY <1>0, <4>1, GotoGoes DEF TaskPCs
      <4> QED BY <1>0, <1>1, <3>1, <4>1, <4>2, LifecycleFits
    <3>2. CASE t \notin Drains  BY <1>4, <2>1, <2>3, <3>2
    <3> QED BY <3>1, <3>2
  <2>4. CASE a.verdict = "unusable"  BY <1>4, <2>1, <2>4
  <2>5. CASE a.verdict \in {"full", "limited"}
    <3> DEFINE u == [k EXCEPT !.pc = "finalize", !.out = a.verdict]
    <3>1. task' = [task EXCEPT ![t].pc = "finalize", ![t].out = a.verdict]  BY <2>1, <2>5
    <3>2. task' = [task EXCEPT ![t] = u]  BY <1>0, <3>1 DEF IngestTypes
    <3> HIDE DEF k
    <3>3. /\ u \in TaskStates /\ u.pc = "finalize" /\ u.hour = k.hour /\ u.resume = k.resume
          /\ u.bad = k.bad /\ u.match = k.match /\ u.ready = k.ready
      BY <1>0, <2>5 DEF TaskStates, TaskPCs
    <3> HIDE DEF u
    <3>4. u.pc \in LifecyclePCs  BY <3>3 DEF LifecyclePCs
    <3>5. /\ TaskGoes(t, u) /\ u.hour = task[t].hour /\ u.resume = task[t].resume
          /\ u.bad = task[t].bad /\ u.match = task[t].match /\ u.ready = task[t].ready
      BY <3>2, <3>3 DEF TaskGoes, k
    <3>6. task[t].pc \in LifecyclePCs  BY <1>1 DEF k
    <3> QED BY <1>0, <3>3, <3>4, <3>5, <3>6, LifecycleFits
  <2> QED BY <2>2, <2>3, <2>4, <2>5
<1>9. CASE FinalizeMatch(t)
  <2>1. Goto(t, "project")  BY <1>9 DEF FinalizeMatch
  <2> QED BY <1>3, <2>1 DEF LifecyclePCs
<1>10. CASE ProjectMatch(t)
  <2>1. CASE Projectable(n)
    <3>1. task' = Left(t, TRUE)
      <4>1. Projectable(n) = TRUE  BY <2>1 DEF Projectable
      <4> QED BY <1>10, <4>1 DEF ProjectMatch
    <3>2. SetRow(n, Projected(row[n])) /\ row[n].facts  BY <1>10, <2>1 DEF ProjectMatch, Projectable
    <3>3. row'[n] = Projected(row[n])  BY <1>0, <1>2, <3>2 DEF SetRow, IngestTypes
    <3>4. Projected(row[n]).facts /\ Projected(row[n]).projected  BY <1>2, <3>2, ProjectedStep
    <3>5. row'[n].projected /\ Done(row'[n])  BY <3>3, <3>4 DEF Done
    <3> QED BY <1>0, <1>1, <3>1, <3>5, LeftFits
  <2>2. CASE ~Projectable(n)
    <3>1. Projectable(n) = FALSE  BY <1>2, <2>2 DEF Projectable, MatchRows
    <3>2. task' = Left(t, FALSE)  BY <1>10, <3>1 DEF ProjectMatch
    <3> QED BY <1>4, <3>2
  <2> QED BY <2>1, <2>2
<1>11. CASE EnsureProjected(t)
  <2> DEFINE counted == row[n].projected \/ Projectable(n)
  <2>1. counted \in BOOLEAN /\ task' = Left(t, counted)  BY <1>11 DEF EnsureProjected
  <2>2. counted => row'[n].projected /\ Done(row'[n])
    <3>1. CASE row[n].projected
      <4>1. row'[n].projected /\ RowFits(row'[n])  BY <1>2, <3>1 DEF RowsGo, RowStep
      <4> QED BY <4>1 DEF RowFits, Done
    <3>2. CASE ~row[n].projected /\ Projectable(n)
      <4>1. SetRow(n, Projected(row[n])) /\ row[n].facts
        BY <1>11, <3>2 DEF EnsureProjected, Projectable
      <4>2. row'[n] = Projected(row[n])  BY <1>0, <1>2, <4>1 DEF SetRow, IngestTypes
      <4>3. Projected(row[n]).facts /\ Projected(row[n]).projected  BY <1>2, <4>1, ProjectedStep
      <4> QED BY <4>2, <4>3 DEF Done
    <3> QED BY <3>1, <3>2
  <2> HIDE DEF counted
  <2> QED BY <1>0, <1>1, <2>1, <2>2, LeftFits
<1>12. CASE MarkTerminal(t)
  <2>1. task' = Left(t, TRUE) /\ SetRow(n, TerminallyUnavailable(row[n])) /\ k.pc = "terminal"
    BY <1>12 DEF MarkTerminal
  <2>2. row'[n] = TerminallyUnavailable(row[n])  BY <1>0, <1>2, <2>1 DEF SetRow, IngestTypes
  <2>3. Done(row'[n])  BY <1>2, <2>2, TerminalStep
  <2>4. t \notin Lookups  BY <1>0, <2>1 DEF TaskFits, LookupPCs
  <2> QED BY <1>0, <1>1, <2>1, <2>3, <2>4, LeftFits
<1> QED BY <1>5, <1>6, <1>7, <1>8, <1>9, <1>10, <1>11, <1>12 DEF LifecycleStep

LEMMA FailureTasks ==
    ASSUME IngestInv, RowsGo, seen \subseteq seen', NEW t \in Tasks, Failure(t)
    PROVE  TasksGo
<1> DEFINE k == task[t]
<1>0. IngestTypes /\ TasksFit /\ TaskFits(t, k) /\ k \in TaskStates
  BY DEF IngestInv, IngestTypes, TasksFit
<1>1. CASE SearchFails(t)
  BY <1>0, <1>1, DrainFailsFits DEF SearchFails, TaskPCs, LookupPCs, LifecyclePCs
<1>2. CASE DrainStatementFails(t)
  BY <1>0, <1>2, DrainFailsFits DEF DrainStatementFails, TaskPCs, LookupPCs, LifecyclePCs
<1>3. ASSUME k.pc \in {"store", "count", "batch"}, NEW u \in TaskStates, TaskGoes(t, u),
             u.hour = k.hour, u.bad, u.pc \in {"batch", "reselect"}
      PROVE  TasksGo
  <2>1. k.pc \in TaskPCs \ LookupPCs  BY <1>3 DEF TaskPCs, LookupPCs, LifecyclePCs
  <2>2. t \in Drains /\ t \notin Lookups /\ k.hour \in Hours  BY <1>0, <2>1, DrainHour, DrainsApart
  <2>3. FitsNext(t, u)  BY <1>3, <2>2 DEF FitsNext, MatchPCs, LifecyclePCs
  <2> QED BY <1>0, <1>3, <2>3, TaskMoves
<1>4. CASE CheckpointFails(t)
  <2> DEFINE u == [k EXCEPT !.pc = "batch", !.match = "none", !.out = "none", !.bad = TRUE]
  <2>1. task' = [task EXCEPT ![t] = u] /\ k.pc \in {"store", "count", "batch"}
    BY <1>0, <1>4 DEF CheckpointFails, IngestTypes
  <2>2. u \in TaskStates /\ u.hour = k.hour /\ u.bad /\ u.pc = "batch"
    BY <1>0 DEF TaskStates, TaskPCs
  <2> HIDE DEF u
  <2> QED BY <1>3, <2>1, <2>2 DEF TaskGoes
<1>5. CASE BatchesFail(t)
  <2> DEFINE u == [k EXCEPT !.pc = "reselect", !.batch = {}, !.bad = TRUE]
  <2>1. task' = [task EXCEPT ![t] = u] /\ k.pc \in {"store", "count", "batch"}
    BY <1>0, <1>5 DEF BatchesFail, IngestTypes
  <2>2. u \in TaskStates /\ u.hour = k.hour /\ u.bad /\ u.pc = "reselect"
    BY <1>0 DEF TaskStates, TaskPCs
  <2> HIDE DEF u
  <2> QED BY <1>3, <2>1, <2>2 DEF TaskGoes
<1>6. CASE LifecycleFails(t)
  BY <1>0, <1>6, LeftFits DEF LifecycleFails
<1>7. CASE Crash(t)
  <2> DEFINE u == [Resting EXCEPT !.ready = k.ready]
  <2>1. task' = [task EXCEPT ![t] = u]  BY <1>7 DEF Crash
  <2>2. k.ready \subseteq Matches  BY <1>0 DEF TaskStates
  <2> HIDE DEF k
  <2>3. u \in TaskStates /\ u.pc = "idle" /\ u.ready = k.ready
    BY <2>2 DEF Resting, TaskStates, TaskPCs
  <2> HIDE DEF u
  <2>4. FitsNext(t, k)  BY <1>0, FitsStays DEF k
  <2>5. FitsNext(t, u)
    BY <2>3, <2>4 DEF FitsNext, MatchPCs, WorkPCs, LifecyclePCs, LookupPCs
  <2> QED BY <1>0, <2>1, <2>3, <2>5, TaskMoves DEF TaskGoes
<1> QED BY <1>1, <1>2, <1>4, <1>5, <1>6, <1>7 DEF Failure

LEMMA StartTasks ==
    ASSUME IngestInv, RowsGo, seen \subseteq seen', NEW t \in Tasks,
           OperatorClaims(t) \/ GapClaims(t) \/ ClaimHourFails(t) \/ Lookup(t)
    PROVE  TasksGo
<1>0. IngestTypes /\ TasksFit /\ TaskFits(t, task[t]) /\ task[t] \in TaskStates
  BY DEF IngestInv, IngestTypes, TasksFit
<1>1. ASSUME t \in Drains, NEW h \in Hours,
             task' = [task EXCEPT ![t] = [Resting EXCEPT !.pc = "ids", !.hour = h]]
      PROVE  TasksGo
  <2> DEFINE u == [Resting EXCEPT !.pc = "ids", !.hour = h]
  <2>1. h \in Nat  BY MatchIngestConstants
  <2>2. u \in TaskStates /\ u.pc = "ids" /\ u.hour = h
    BY <2>1 DEF Resting, TaskStates, TaskPCs
  <2>3. task' = [task EXCEPT ![t] = u]  BY <1>1
  <2> HIDE DEF u
  <2>4. FitsNext(t, u)
    BY <1>1, <2>2, DrainsApart DEF FitsNext, MatchPCs, WorkPCs, LifecyclePCs
  <2> QED BY <1>0, <2>2, <2>3, <2>4, TaskMoves DEF TaskGoes
<1>2. CASE OperatorClaims(t)
  BY <1>1, <1>2 DEF OperatorClaims, ClaimHour, Drains
<1>3. CASE GapClaims(t)
  <2>1. PICK h \in GapCandidates : ClaimHour(t, h)  BY <1>3 DEF GapClaims
  <2>2. h \in Hours /\ t \in Drains  BY <1>3, <2>1 DEF GapCandidates, GapClaims, Drains
  <2> QED BY <1>1, <2>1, <2>2 DEF ClaimHour
<1>4. CASE ClaimHourFails(t)
  <2>1. PICK h \in Hours : task' = [task EXCEPT ![t] =
                               [Resting EXCEPT !.pc = "mark", !.hour = h, !.bad = TRUE]]
    BY <1>4 DEF ClaimHourFails
  <2> DEFINE u == [Resting EXCEPT !.pc = "mark", !.hour = h, !.bad = TRUE]
  <2>2. h \in Nat /\ t \in Drains  BY <1>4, MatchIngestConstants DEF ClaimHourFails
  <2>3. u \in TaskStates /\ u.pc = "mark" /\ u.hour = h /\ u.bad
    BY <2>2 DEF Resting, TaskStates, TaskPCs
  <2>4. task' = [task EXCEPT ![t] = u]  BY <2>1
  <2> HIDE DEF u
  <2>5. FitsNext(t, u)
    BY <2>2, <2>3, DrainsApart DEF FitsNext, MatchPCs, LifecyclePCs
  <2> QED BY <1>0, <2>3, <2>4, <2>5, TaskMoves DEF TaskGoes
<1>5. CASE Lookup(t)
  <2>1. PICK m \in Matches : task' = [task EXCEPT ![t].pc = "known", ![t].match = m]
    BY <1>5 DEF Lookup
  <2> DEFINE u == [task[t] EXCEPT !.pc = "known", !.match = m]
  <2>2. task' = [task EXCEPT ![t] = u]  BY <1>0, <2>1 DEF IngestTypes
  <2>3. u \in TaskStates /\ u.pc = "known" /\ u.match = m /\ u.ready = task[t].ready
    BY <1>0 DEF TaskStates, TaskPCs
  <2> HIDE DEF u
  <2>4. t \notin Drains /\ t \in Lookups  BY <1>5, DrainsApart DEF Lookup
  <2>5. FitsNext(t, task[t])  BY <1>0, FitsStays
  <2>6. FitsNext(t, u)
    BY <2>3, <2>4, <2>5 DEF FitsNext, LookupPCs, LifecyclePCs
  <2> QED BY <1>0, <2>2, <2>3, <2>6, TaskMoves DEF TaskGoes
<1> QED BY <1>2, <1>3, <1>4, <1>5


-----------------------------------------------------------------------------
(* The invariant and what follows from it *)

LEMMA BoundsStep ==
    ASSUME IngestTypes, [Next]_vars PROVE faults' \in 0 .. MaxFaults /\ runs' \in 0 .. MaxRuns
<1>0. /\ faults \in 0 .. MaxFaults /\ runs \in 0 .. MaxRuns
      /\ MaxFaults \in Nat /\ MaxRuns \in Nat
  BY MatchIngestConstants DEF IngestTypes
<1>1. Fault \/ NoFault => faults' \in 0 .. MaxFaults  BY <1>0 DEF Fault, NoFault
<1>2. Start \/ UNCHANGED runs => runs' \in 0 .. MaxRuns  BY <1>0 DEF Start
<1>3. ASSUME NEW t \in Tasks,
             OperatorClaims(t) \/ GapClaims(t) \/ ClaimHourFails(t) \/ Lookup(t)
      PROVE  (Fault \/ NoFault) /\ Start
  BY <1>3 DEF OperatorClaims, GapClaims, ClaimHour, ClaimHourFails, Lookup
<1>4. ASSUME NEW t \in Tasks, DrainStep(t) PROVE Fault \/ NoFault
  BY <1>4 DEF DrainStep, LoadIds, ClaimSearch, SearchAnswers, MarkEmpty, Select, BatchFetches,
              StoreFacts, CountFacts, BatchesEnd, Reselect, ResumeMatch, ResumeEnds, MarkHour,
              CountFault
<1>5. ASSUME NEW t \in Tasks, LifecycleStep(t) PROVE Fault \/ NoFault
  BY <1>5 DEF LifecycleStep, FactsKnown, RegisterDiscovery, ClaimMatch, FetchMatch,
              FinalizeMatch, ProjectMatch, EnsureProjected, MarkTerminal, CountFault
<1>6. ASSUME NEW t \in Tasks, Failure(t) PROVE Fault
  BY <1>6 DEF Failure, SearchFails, CheckpointFails, BatchesFail, DrainStatementFails,
              LifecycleFails, Crash
<1>7. ASSUME NEW h \in Hours, HourLeaseDue(h) PROVE NoFault /\ UNCHANGED runs
  BY <1>7 DEF HourLeaseDue
<1>8. ASSUME NEW m \in Matches, RowLeaseExpires(m) \/ AdoptNonranked(m)
      PROVE  NoFault /\ UNCHANGED runs
  BY <1>8 DEF RowLeaseExpires, AdoptNonranked
<1>9. CASE UNCHANGED vars  BY <1>0, <1>9 DEF vars
<1> HIDE DEF Fault, NoFault, Start
<1> QED BY <1>1, <1>2, <1>3, <1>4, <1>5, <1>6, <1>7, <1>8, <1>9 DEF Next

LEMMA IngestInit == Init => IngestInv
<1> SUFFICES ASSUME Init PROVE IngestInv
  OBVIOUS
<1>1. hour \in [Hours -> HourRows] /\ \A h \in Hours : hour[h].status = "absent"
  BY DEF Init, Unclaimed, HourRows, HourStatuses
<1>2. NoRow \in MatchRows /\ LegacyUnavailable \in MatchRows
  BY DEF NoRow, LegacyUnavailable, MatchRows, Statuses, States
<1>3. row \in [Matches -> MatchRows]  BY <1>2 DEF Init
<1>4. RowFits(NoRow) /\ RowFits(LegacyUnavailable)
  BY DEF RowFits, Done, NoRow, LegacyUnavailable
<1>5. RowsFit  BY <1>4 DEF Init, RowsFit
<1>6. Resting \in TaskStates /\ Resting.pc = "idle" /\ Resting.ready = {}
  BY DEF Resting, TaskStates, TaskPCs
<1>7. task \in [Tasks -> TaskStates] /\ \A t \in Tasks : task[t] = Resting  BY <1>6 DEF Init
<1>8. TasksFit
  BY <1>6, <1>7 DEF TasksFit, TaskFits, LookupPCs, MatchPCs, WorkPCs, LifecyclePCs
<1>9. searches \in [Hours -> Nat] /\ SearchIsNoted  BY DEF Init, SearchIsNoted
<1>10. seen \subseteq Matches /\ HoursAreWhole  BY DEF Init, HoursAreWhole, SeenOf
<1>11. HoursArePaid  BY <1>1 DEF HoursArePaid
<1>12. faults \in 0 .. MaxFaults /\ runs \in 0 .. MaxRuns  BY MatchIngestConstants DEF Init
<1> QED BY <1>1, <1>3, <1>5, <1>7, <1>8, <1>9, <1>10, <1>11, <1>12 DEF IngestInv, IngestTypes

LEMMA IngestStep == IngestInv /\ [Next]_vars => IngestInv'
<1> SUFFICES ASSUME IngestInv, [Next]_vars PROVE IngestInv'
  OBVIOUS
<1>0. IngestTypes /\ RowsFit /\ TasksFit /\ HoursArePaid  BY DEF IngestInv
<1>1. RowsGo  BY <1>0, RowsMove
<1>2. HoursGo  BY <1>0, HoursMove
<1>3. /\ searches' \in [Hours -> Nat] /\ SearchIsNoted'
      /\ seen' \subseteq Matches /\ seen \subseteq seen' /\ HoursAreWhole'
  BY SearchStep
<1>4. faults' \in 0 .. MaxFaults /\ runs' \in 0 .. MaxRuns  BY <1>0, BoundsStep
<1>5. TasksGo
  <2>0. ASSUME UNCHANGED task PROVE TasksGo  BY <1>0, <1>1, <1>3, <2>0, TasksKept
  <2>1. ASSUME NEW h \in Hours, HourLeaseDue(h) PROVE TasksGo  BY <2>0, <2>1 DEF HourLeaseDue
  <2>2. ASSUME NEW m \in Matches, RowLeaseExpires(m) \/ AdoptNonranked(m) PROVE TasksGo
    BY <2>0, <2>2 DEF RowLeaseExpires, AdoptNonranked
  <2>3. CASE UNCHANGED vars  BY <2>0, <2>3 DEF vars
  <2> QED BY <1>1, <1>3, <2>1, <2>2, <2>3, StartTasks, DrainTasks, LifecycleTasks, FailureTasks
             DEF Next
<1>6. RowsFit'  BY <1>1 DEF RowsGo, RowStep, RowsFit
<1>7. ASSUME NEW h \in Hours, hour'[h].status = "complete", NEW m \in MatchesOf(h)
      PROVE  Done(row'[m])
  <2>1. m \in Matches  BY DEF MatchesOf
  <2>2. hour[h].status = "complete" \/ Paid(h)  BY <1>2, <1>7 DEF HoursGo
  <2>3. Done(row[m])  BY <1>0, <1>7, <2>2 DEF HoursArePaid, Paid
  <2> QED BY <1>1, <2>1, <2>3 DEF RowsGo, RowStep
<1>8. HoursArePaid'  BY <1>7 DEF HoursArePaid, MatchesOf
<1>9. IngestTypes'  BY <1>1, <1>2, <1>3, <1>4, <1>5 DEF IngestTypes, RowsGo, HoursGo, TasksGo
<1> QED BY <1>3, <1>5, <1>6, <1>8, <1>9 DEF IngestInv, TasksGo

LEMMA IngestAlways == Spec => []IngestInv
BY IngestInit, IngestStep, PTL DEF Spec

(* Hours, rows and tasks keep their types, and what is projected has facts.   *)
THEOREM TypeCorrect == Spec => []TypeOK
<1>1. ASSUME IngestInv PROVE TypeOK
  <2>0. IngestTypes /\ RowsFit  BY <1>1 DEF IngestInv
  <2>1. ASSUME NEW m \in Matches
        PROVE  /\ row[m].status \in Statuses /\ row[m].state \in States
               /\ {row[m].terminal, row[m].facts, row[m].limited, row[m].projected,
                   row[m].resumable, row[m].adopted} \subseteq BOOLEAN
               /\ row[m].lease \in {"nobody"} \cup Tasks
               /\ row[m].projected => row[m].facts
    <3>1. row[m] \in MatchRows /\ RowFits(row[m])  BY <2>0 DEF IngestTypes, RowsFit
    <3> QED BY <3>1 DEF MatchRows, RowFits
  <2>2. ASSUME NEW t \in Tasks
        PROVE  /\ task[t].pc \in TaskPCs
               /\ task[t].batch \cup task[t].resume \cup task[t].ready \subseteq Matches
    <3>1. task[t] \in TaskStates  BY <2>0 DEF IngestTypes
    <3> QED BY <3>1 DEF TaskStates
  <2>3. hour \in [Hours -> [status : {"absent", "fetching", "empty", "complete", "failed"},
                            fetched : BOOLEAN, succeeded : BOOLEAN, live : BOOLEAN]]
    BY <2>0 DEF IngestTypes, HourRows, HourStatuses
  <2> QED BY <2>0, <2>1, <2>2, <2>3 DEF TypeOK, IngestTypes, Statuses, States, TaskPCs
<1> QED BY <1>1, IngestAlways, PTL

(* A complete hour owes no match and the search of an hour is made once, for  *)
(* any number of drains of one hour whose leases run out under them, lookups, *)
(* failed calls and crashes.                                                  *)
THEOREM HoursHonest == Spec => []HoursAreHonest
<1>1. ASSUME IngestInv PROVE HoursAreHonest
  <2>1. HourCompleteMeansDurable
    BY <1>1 DEF IngestInv, HoursArePaid, HourCompleteMeansDurable, SeenOf, Done
  <2>2. SearchedOnce
    BY <1>1 DEF IngestInv, SearchIsNoted, SearchedOnce
  <2> QED BY <2>1, <2>2 DEF HoursAreHonest
<1> QED BY <1>1, IngestAlways, PTL

(* What a lookup answered as ready is counted, and stays so.                  *)
THEOREM ReadyIsCounted == Spec => []ReadyMeansCounted
<1>1. ASSUME IngestInv PROVE ReadyMeansCounted
  <2>1. \A t \in Lookups : TaskFits(t, task[t])  BY <1>1 DEF IngestInv, TasksFit, Tasks
  <2> QED BY <2>1 DEF TaskFits, ReadyMeansCounted
<1> QED BY <1>1, IngestAlways, PTL

(* No drain, lookup, adoption or terminal verdict takes a complete row or     *)
(* durable facts back.                                                        *)
THEOREM RowsAreFinal == Spec => CompleteIsFinal
<1> DEFINE Kept == \A m \in Matches : /\ row[m].status = "complete" => row'[m].status = "complete"
                                      /\ row[m].facts => row'[m].facts
<1>1. ASSUME IngestInv, [Next]_vars PROVE Kept
  <2>1. RowsGo  BY <1>1, RowsMove DEF IngestInv
  <2> QED BY <2>1 DEF RowsGo, RowStep
<1>2. IngestInv /\ [Next]_vars => [Kept]_vars  BY <1>1
<1>3. CompleteIsFinal <=> [][Kept]_vars  BY DEF CompleteIsFinal
<1> HIDE DEF Kept
<1>4. []IngestInv /\ [][Next]_vars => [][Kept]_vars  BY <1>2, PTL
<1> QED BY <1>3, <1>4, IngestAlways, PTL DEF Spec

-----------------------------------------------------------------------------
(* MatchFacts: what the finalizations of a match leave behind.  The private   *)
(* identities, which a commit also resolves, have no part in it.              *)

StoredFacts ==
    [stages : SUBSET FactStages, limited : BOOLEAN, party : BOOLEAN, rows : SUBSET Rows]

Transactions ==
    [pc : {"idle", "count", "hour", "facts"}, match : SeenMatches \cup {NoMatch},
     limited : BOOLEAN, count : Nat, wrote : BOOLEAN]

(* A transaction knows its match; a ranked match with its core facts has its  *)
(* party facts too.  PartyCountedOnce and FactsStay both rest on it.          *)
FinalizeInv ==
    /\ stored \in [SeenMatches -> StoredFacts] /\ stack \in Nat
    /\ tx \in [Finalizers -> Transactions]
    /\ \A p \in Finalizers : tx[p].pc # "idle" => tx[p].match \in SeenMatches
    /\ \A m \in RankedMatches : "core" \in stored[m].stages => stored[m].party
    /\ PartyCountedOnce

(* The statements that write the facts of a match: all the stages are done,   *)
(* the party facts are there for a ranked match, and where they were done and *)
(* there before, nothing has changed.                                         *)
LEMMA PersistFacts ==
    ASSUME NEW r \in StoredFacts, NEW m, NEW limited \in BOOLEAN
    PROVE  LET q == PersistBans(PersistPartyGroups(
                        PersistPlayerFacts(PersistMatch(r, m, limited), m), m))
           IN  /\ q \in StoredFacts
               /\ q.party = (r.party \/ m \in RankedMatches)
               /\ r.stages = FactStages /\ (m \in RankedMatches => r.party) => q = r
<1>1. PICK a : a = PersistMatch(r, m, limited)
  OBVIOUS
<1>2. a \in StoredFacts /\ a.party = r.party /\ (r.stages = FactStages => a = r)
  BY <1>1 DEF PersistMatch, AddStage, StoredFacts, FactStages, Rows
<1>3. PICK b : b = PersistPlayerFacts(a, m)
  OBVIOUS
<1>4. b \in StoredFacts /\ b.party = a.party /\ (a.stages = FactStages => b = a)
  BY <1>2, <1>3 DEF PersistPlayerFacts, RankedPlayerFacts, NonrankedPlayerFacts,
                    AddStage, StoredFacts, FactStages, Rows
<1>5. PICK c : c = PersistPartyGroups(b, m)
  OBVIOUS
<1>6. /\ c \in StoredFacts /\ c.party = (b.party \/ m \in RankedMatches)
      /\ c.stages = b.stages /\ ((m \in RankedMatches => b.party) => c = b)
  <2>1. CASE m \in RankedMatches
    <3>1. c = [b EXCEPT !.party = TRUE]
      BY <1>5, <2>1 DEF PersistPartyGroups
    <3>2. b.party = TRUE => c = b
      BY <1>4, <3>1 DEF StoredFacts
    <3>. QED
      BY <1>4, <2>1, <3>1, <3>2 DEF StoredFacts
  <2>2. CASE m \notin RankedMatches
    BY <1>4, <1>5, <2>2 DEF PersistPartyGroups, StoredFacts
  <2>. QED
    BY <2>1, <2>2
<1>7. PICK d : d = PersistBans(c)
  OBVIOUS
<1>8. d \in StoredFacts /\ d.party = c.party /\ (c.stages = FactStages => d = c)
  BY <1>6, <1>7 DEF PersistBans, AddStage, StoredFacts, FactStages, Rows
<1>9. d = PersistBans(PersistPartyGroups(
              PersistPlayerFacts(PersistMatch(r, m, limited), m), m))
  BY <1>1, <1>3, <1>5, <1>7
<1>. QED
  BY <1>2, <1>4, <1>6, <1>8, <1>9

WithParty == {m \in SeenMatches : stored[m].party}

LEMMA PartyCount ==
    ASSUME FinalizeInv
    PROVE  IsFiniteSet(WithParty) /\ stack = Cardinality(WithParty)
<1>1. WithParty \in SUBSET SeenMatches
  BY DEF WithParty
<1>2. IsFiniteSet(WithParty)
  BY <1>1, MatchFactsConstants, FS_Subset
<1>. QED
  BY <1>2 DEF FinalizeInv, PartyCountedOnce, WithParty

(* A step that writes no facts.                                               *)
LEMMA FactsRest ==
    ASSUME FinalizeInv, UNCHANGED <<stored, stack>>, tx' \in [Finalizers -> Transactions],
           \A p \in Finalizers : tx'[p].pc # "idle" => tx'[p].match \in SeenMatches
    PROVE  FinalizeInv'
<1>1. PartyCountedOnce'
  BY DEF FinalizeInv, PartyCountedOnce
<1>. QED
  BY <1>1 DEF FinalizeInv

(* A transaction that goes on, or ends without a trace.                       *)
LEMMA TransactionMoves ==
    ASSUME FinalizeInv, NEW p \in Finalizers, NEW t \in Transactions,
           t.pc # "idle" => t.match \in SeenMatches,
           tx' = [tx EXCEPT ![p] = t]
    PROVE  /\ tx' \in [Finalizers -> Transactions]
           /\ \A q \in Finalizers : tx'[q].pc # "idle" => tx'[q].match \in SeenMatches
BY DEF FinalizeInv

LEMMA CommitStep ==
    ASSUME FinalizeInv, NEW p \in Finalizers, Commit(p)
    PROVE  /\ FinalizeInv'
           /\ \A m \in SeenMatches : stored[m].stages = FactStages => stored'[m] = stored[m]
<1>1. PICK m : m = tx[p].match
  OBVIOUS
<1>2. tx[p] \in Transactions /\ tx[p].pc = "facts" /\ m \in SeenMatches
  BY <1>1 DEF FinalizeInv, Commit
<1>3. tx[p].limited \in BOOLEAN /\ stored[m] \in StoredFacts /\ stored[m].party \in BOOLEAN
  BY <1>2 DEF FinalizeInv, Transactions, StoredFacts
<1>4. PICK q : q = PersistBans(PersistPartyGroups(
                       PersistPlayerFacts(PersistMatch(stored[m], m, tx[p].limited), m), m))
  OBVIOUS
<1>5. /\ q \in StoredFacts /\ q.party = (stored[m].party \/ m \in RankedMatches)
      /\ stored[m].stages = FactStages /\ (m \in RankedMatches => stored[m].party)
         => q = stored[m]
  BY <1>3, <1>4, PersistFacts
<1>6. stored' = [stored EXCEPT ![m] = q]
  BY <1>1, <1>2, <1>4 DEF Commit, FinalizeInv
<1>7. stored' \in [SeenMatches -> StoredFacts]
  BY <1>5, <1>6 DEF FinalizeInv
<1>8. stored'[m] = q /\ \A n \in SeenMatches : n # m => stored'[n] = stored[n]
  BY <1>2, <1>6 DEF FinalizeInv
<1>9. RankedMatches \subseteq SeenMatches
  BY DEF RankedMatches
<1>10. \A n \in RankedMatches : "core" \in stored'[n].stages => stored'[n].party
  BY <1>5, <1>8, <1>9 DEF FinalizeInv
<1>11. IsFiniteSet(WithParty) /\ stack = Cardinality(WithParty) /\ stack \in Nat
  BY PartyCount DEF FinalizeInv
<1>12. stack' \in Nat /\ stack' = Cardinality(WithParty')
  <2>1. CASE m \in RankedMatches /\ ~stored[m].party
    <3>1. stack' = stack + 1
      BY <1>1, <2>1 DEF Commit, NewPartyFacts
    <3>2. WithParty' = WithParty \cup {m} /\ m \notin WithParty
      BY <1>2, <1>5, <1>8, <2>1 DEF WithParty
    <3>3. Cardinality(WithParty \cup {m}) = Cardinality(WithParty) + 1
      BY <1>11, <3>2, FS_AddElement
    <3>. QED
      BY <1>11, <3>1, <3>2, <3>3
  <2>2. CASE ~(m \in RankedMatches /\ ~stored[m].party)
    <3>1. stack' = stack
      BY <1>1, <2>2 DEF Commit, NewPartyFacts
    <3>2. q.party = stored[m].party
      BY <1>3, <1>5, <2>2
    <3>3. WithParty' = WithParty
      BY <1>2, <1>8, <3>2 DEF WithParty
    <3>. QED
      BY <1>11, <3>1, <3>3
  <2>. QED
    BY <2>1, <2>2
<1>13. PartyCountedOnce'
  BY <1>12 DEF PartyCountedOnce, WithParty
<1>14. tx' = [tx EXCEPT ![p] = Idle] /\ Idle \in Transactions /\ Idle.pc = "idle"
  BY DEF Commit, Idle, Transactions
<1>15. /\ tx' \in [Finalizers -> Transactions]
       /\ \A s \in Finalizers : tx'[s].pc # "idle" => tx'[s].match \in SeenMatches
  BY <1>14, TransactionMoves
<1>16. FinalizeInv'
  BY <1>7, <1>10, <1>12, <1>13, <1>15 DEF FinalizeInv
<1>17. ASSUME NEW n \in SeenMatches, stored[n].stages = FactStages
       PROVE  stored'[n] = stored[n]
  <2>1. CASE n = m
    <3>1. m \in RankedMatches => stored[m].party
      BY <1>17, <2>1 DEF FinalizeInv, FactStages
    <3>. QED
      BY <1>5, <1>8, <1>17, <2>1, <3>1
  <2>2. CASE n # m
    BY <1>8, <2>2
  <2>. QED
    BY <2>1, <2>2
<1>. QED
  BY <1>16, <1>17

(* The other steps of a finalizer.                                            *)
LEMMA FinalizerStep ==
    ASSUME FinalizeInv, NEW p \in Finalizers,
           \/ \E m \in SeenMatches : Begin(p, m)
           \/ CountHour(p) \/ WriteHour(p) \/ Abort(p)
    PROVE  FinalizeInv' /\ stored' = stored
<1>0. tx \in [Finalizers -> Transactions] /\ (tx[p].pc # "idle" => tx[p].match \in SeenMatches)
  BY DEF FinalizeInv
<1>1. tx[p] \in Transactions
  BY <1>0
<1>t. ASSUME NEW t \in Transactions, t.pc # "idle" => t.match \in SeenMatches,
             tx' = [tx EXCEPT ![p] = t], UNCHANGED <<stored, stack>>
      PROVE  FinalizeInv'
  BY <1>t, TransactionMoves, FactsRest
<1>2. ASSUME NEW m \in SeenMatches, Begin(p, m) PROVE FinalizeInv' /\ stored' = stored
  <2>1. PICK limited \in BOOLEAN :
           tx' = [tx EXCEPT ![p] =
               [pc |-> IF "core" \notin stored[m].stages /\ m \in RankedMatches
                       THEN "count" ELSE "facts",
                match |-> m, limited |-> limited, count |-> 0, wrote |-> FALSE]]
    BY <1>2 DEF Begin
  <2>2. PICK t : t = [pc |-> IF "core" \notin stored[m].stages /\ m \in RankedMatches
                             THEN "count" ELSE "facts",
                      match |-> m, limited |-> limited, count |-> 0, wrote |-> FALSE]
    OBVIOUS
  <2>3. t \in Transactions /\ t.match = m
    BY <2>2 DEF Transactions
  <2>4. tx' = [tx EXCEPT ![p] = t] /\ UNCHANGED <<stored, stack>>
    BY <1>2, <2>1, <2>2 DEF Begin
  <2>. QED
    BY <1>t, <2>3, <2>4
<1>3. ASSUME CountHour(p) PROVE FinalizeInv' /\ stored' = stored
  <2>1. PICK n : tx' = [tx EXCEPT ![p].pc = "hour", ![p].count = n]
                 /\ n = Cardinality(InHour(Hour) \cap
                            ({m \in SeenMatches : Counted(m)}
                                \cup IF tx[p].limited THEN {} ELSE {tx[p].match}))
    BY <1>3 DEF CountHour
  <2>2. n \in Nat
    <3>1. InHour(Hour) \in SUBSET SeenMatches
      BY DEF InHour, RankedMatches
    <3>2. PICK S : S = InHour(Hour) \cap
                            ({m \in SeenMatches : Counted(m)}
                                \cup IF tx[p].limited THEN {} ELSE {tx[p].match})
      OBVIOUS
    <3>3. S \in SUBSET SeenMatches
      BY <3>1, <3>2
    <3>4. IsFiniteSet(S)
      BY <3>3, MatchFactsConstants, FS_Subset
    <3>. QED
      BY <2>1, <3>2, <3>4, FS_CardinalityType
  <2>3. PICK t : t = [tx[p] EXCEPT !.pc = "hour", !.count = n]
    OBVIOUS
  <2>4. t \in Transactions /\ t.match = tx[p].match
    BY <1>1, <2>2, <2>3 DEF Transactions
  <2>5. tx' = [tx EXCEPT ![p] = t] /\ UNCHANGED <<stored, stack>> /\ tx[p].pc # "idle"
    BY <1>0, <1>3, <2>1, <2>3 DEF CountHour
  <2>. QED
    BY <1>0, <1>t, <2>4, <2>5
<1>4. ASSUME WriteHour(p) PROVE FinalizeInv' /\ stored' = stored
  <2>1. PICK t : t = [tx[p] EXCEPT !.pc = "facts", !.wrote = TRUE]
    OBVIOUS
  <2>2. t \in Transactions /\ t.match = tx[p].match
    BY <1>1, <2>1 DEF Transactions
  <2>3. tx' = [tx EXCEPT ![p] = t] /\ UNCHANGED <<stored, stack>> /\ tx[p].pc # "idle"
    BY <1>0, <1>4, <2>1 DEF WriteHour
  <2>. QED
    BY <1>0, <1>t, <2>2, <2>3
<1>5. ASSUME Abort(p) PROVE FinalizeInv' /\ stored' = stored
  <2>1. Idle \in Transactions /\ Idle.pc = "idle"
    BY DEF Idle, Transactions
  <2>2. tx' = [tx EXCEPT ![p] = Idle] /\ UNCHANGED <<stored, stack>>
    BY <1>5 DEF Abort
  <2>. QED
    BY <1>t, <2>1, <2>2
<1>. QED
  BY <1>2, <1>3, <1>4, <1>5

LEMMA FinalizeStep ==
    ASSUME FinalizeInv, [FactsNext]_matchFactVars
    PROVE  /\ FinalizeInv'
           /\ \A m \in SeenMatches : stored[m].stages = FactStages => stored'[m] = stored[m]
<1>1. ASSUME NEW p \in Finalizers, Commit(p)
      PROVE  /\ FinalizeInv'
             /\ \A m \in SeenMatches : stored[m].stages = FactStages => stored'[m] = stored[m]
  BY <1>1, CommitStep
<1>2. ASSUME NEW p \in Finalizers,
             \/ \E m \in SeenMatches : Begin(p, m)
             \/ CountHour(p) \/ WriteHour(p) \/ Abort(p)
      PROVE  FinalizeInv' /\ stored' = stored
  BY <1>2, FinalizerStep
<1>3. ASSUME UNCHANGED factVars PROVE FinalizeInv' /\ stored' = stored
  <2>1. UNCHANGED <<stored, stack, tx>>
    BY <1>3 DEF factVars
  <2>. QED
    BY <2>1, FactsRest DEF FinalizeInv
<1>4. UNCHANGED matchFactVars => UNCHANGED factVars
  BY DEF matchFactVars
<1>. QED
  BY <1>1, <1>2, <1>3, <1>4 DEF FactsNext

LEMMA FinalizeInit == FactsInit => FinalizeInv
<1> SUFFICES ASSUME FactsInit PROVE FinalizeInv
  OBVIOUS
<1>1. /\ NoFacts \in StoredFacts /\ ~NoFacts.party /\ "core" \notin NoFacts.stages
      /\ AdoptedFacts \in StoredFacts /\ ~AdoptedFacts.party
      /\ "core" \notin AdoptedFacts.stages
  BY DEF NoFacts, AdoptedFacts, StoredFacts, FactStages, Rows
<1>2. stored \in [SeenMatches -> {NoFacts, AdoptedFacts}] /\ stack = 0
  BY DEF FactsInit
<1>3. \A m \in SeenMatches : stored[m] \in StoredFacts /\ ~stored[m].party /\ "core" \notin stored[m].stages
  BY <1>1, <1>2
<1>4. PartyCountedOnce
  <2>1. {m \in SeenMatches : stored[m].party} = {}
    BY <1>3
  <2>2. Cardinality({}) = 0
    BY FS_EmptySet
  <2>. QED
    BY <1>2, <2>1, <2>2 DEF PartyCountedOnce
<1>5. Idle \in Transactions /\ Idle.pc = "idle"
  BY DEF Idle, Transactions
<1>6. tx = [p \in Finalizers |-> Idle]
  BY DEF FactsInit
<1>7. RankedMatches \subseteq SeenMatches
  BY DEF RankedMatches
<1>8. stored \in [SeenMatches -> StoredFacts]
  BY <1>1, <1>2
<1>. QED
  BY <1>2, <1>3, <1>4, <1>5, <1>6, <1>7, <1>8 DEF FinalizeInv

(* A stack is counted once for each match it played, for any number of        *)
(* matches (finitely many), finalizers and transactions, whichever of them    *)
(* fail and however often a match is finalized.                               *)
THEOREM PartiesCounted == FactsSpec => []PartyCountedOnce
<1>1. FinalizeInv /\ [FactsNext]_matchFactVars => FinalizeInv'
  BY FinalizeStep
<1>2. FinalizeInv => PartyCountedOnce
  BY DEF FinalizeInv
<1>. QED
  BY <1>1, <1>2, FinalizeInit, PTL DEF FactsSpec

(* Facts are immutable: a match that has all its stages is the same after     *)
(* every later finalization, with a better or a worse answer.                 *)
THEOREM FactsAreFinal == FactsSpec => FactsStay
<1>1. FinalizeInv /\ [FactsNext]_matchFactVars => FinalizeInv'
  BY FinalizeStep
<1>2. FinalizeInv /\ [FactsNext]_matchFactVars =>
         [\A m \in SeenMatches : stored[m].stages = FactStages => stored'[m] = stored[m]]_stored
  BY FinalizeStep
<1>. QED
  BY <1>1, <1>2, FinalizeInit, PTL DEF FactsSpec, FactsStay
=============================================================================
