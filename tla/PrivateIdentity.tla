--------------------------- MODULE PrivateIdentity ---------------------------
(* Private accounts: what private_identity.rs infers about the players that   *)
(* hide their account, and what operators and users do to the inferred        *)
(* identities.  An observation is one private slot of one match.  Resolving a *)
(* match and reconciling split identities hold PRIVATE_RESOLVER_LOCK until    *)
(* they commit and are therefore one step each.                               *)
EXTENDS PrivateScore, SequencesExt

CONSTANTS
    Slots,        \* for each match its private slots, in order; a match ID is also its time
    PrivateEvidence,  \* what the provider says about each private slot
    Users,        \* who can report a private account
    MaxActs       \* bound: what operators and users do

SeenMatches == DOMAIN Slots
Observations == UNION {{<<m, s>> : s \in Range(Slots[m])} : m \in SeenMatches}

(* players_private.id: one for each observation is always enough. *)
Ids == 1 .. Cardinality(Observations)
Nobody == 0

LinkThreshold == 68
Margin == 12

ASSUME PrivateIdentityConstants ==
    /\ SeenMatches \subseteq Nat \ {0}
    /\ \A o \in Observations : PrivateEvidence[o].match = o[1] /\ PrivateEvidence[o].time = o[1]

Minimal == {o \in Observations : ~HasEvidence(PrivateEvidence[o])}
RankedMatches == {m \in SeenMatches : \A s \in Range(Slots[m]) : PrivateEvidence[m, s].scope = "ranked"}

Conflict == -1

(* IdentityScore of two observations. *)
Score == [p \in Observations \X Observations |->
             IF HardConflict(PrivateEvidence[p[1]], PrivateEvidence[p[2]]) THEN Conflict
             ELSE ScorePrivateIdentity(PrivateEvidence[p[1]], PrivateEvidence[p[2]])]

RelatedTo == [o \in Observations |-> {c \in Observations : Related(PrivateEvidence[o], PrivateEvidence[c])}]

VARIABLES
    book,      \* private_account_observations, the links of the player facts, players_private
    backfill,  \* where a backfill is, and the matches it has yet to resolve
    report,    \* reports on their way
    acts       \* what operators and users have done so far

identityVars == <<book, backfill, report, acts>>

NoIdentity ==
    [made |-> FALSE, active |-> FALSE, verified |-> FALSE, into |-> Nobody, count |-> 0,
     cheater |-> FALSE, votes |-> {}]

EmptyBook ==
    [status |-> [o \in Observations |-> "none"],      \* resolution_status
     who |-> [o \in Observations |-> Nobody],         \* private_player_id of the observation
     link |-> [o \in Observations |-> Nobody],        \* private_player_id of the player fact
     ident |-> [i \in Ids |-> NoIdentity]]

IdentityTypeOK ==
    /\ book.status \in [Observations -> {"none", "unresolved", "minimal", "ambiguous", "linked",
                                         "new_identity"}]
    /\ book.who \in [Observations -> Ids \cup {Nobody}]
    /\ book.link \in [Observations -> Ids \cup {Nobody}]
    /\ \A o \in Observations :
           book.status[o] \in {"linked", "new_identity"} <=> book.who[o] # Nobody
    /\ \A i \in Ids : /\ book.ident[i].into \in Ids \cup {Nobody}
                      /\ book.ident[i].count \in 0 .. Cardinality(Observations)
                      /\ book.ident[i].votes \subseteq Users
                      /\ book.ident[i].active => book.ident[i].made
    /\ backfill.pc \in {"idle", "resolve", "repair"} /\ backfill.todo \subseteq SeenMatches
    /\ \A u \in Users : report[u] \in Ids \cup {Nobody}
    /\ acts \in 0 .. MaxActs

IdentityInit ==
    /\ book = EmptyBook /\ backfill = [pc |-> "idle", todo |-> {}]
    /\ report = [u \in Users |-> Nobody] /\ acts = 0

-----------------------------------------------------------------------------
ObservationsOf(b, i) == {o \in Observations : b.who[o] = i}

(* refresh_identity: the aggregate over the identity's observations. *)
RefreshIdentity(b, i) ==
    [b EXCEPT !.ident[i].count = Cardinality(ObservationsOf(b, i))]

(* create_identity *)
CreateIdentity(b, i) == [b EXCEPT !.ident[i] = [NoIdentity EXCEPT !.made = TRUE, !.active = TRUE]]

(* link_match_player, in whichever of the three tables the fact is. *)
LinkMatchPlayer(b, o, i) == [b EXCEPT !.link[o] = i]

(* link_observation *)
LinkObservation(b, o, i, status) ==
    RefreshIdentity(LinkMatchPlayer([b EXCEPT !.who[o] = i, !.status[o] = status], o, i), i)

(* candidate_observations: the related observations of active identities that *)
(* the match does not have already.                                           *)
CandidateObservations(b, o, i) ==
    IF b.ident[i].active /\ \A u \in ObservationsOf(b, i) : u[1] # o[1]
    THEN ObservationsOf(b, i) \cap RelatedTo[o]
    ELSE {}

(* score_candidate: no conflict with the neighbours in time, and the best     *)
(* score of all.                                                              *)
ScoreCandidate(o, S) ==
    LET before == {c \in S : c[1] <= o[1] /\ \A d \in S : d[1] <= o[1] => d[1] <= c[1]}
        after == {c \in S : c[1] > o[1] /\ \A d \in S : d[1] > o[1] => d[1] >= c[1]}
        scores == {Score[o, c] : c \in S} \ {Conflict}
    IN  IF \E c \in before \cup after : Score[o, c] = Conflict THEN Conflict
        ELSE IF scores = {} THEN 0 ELSE Max(scores)

Candidates(b, o) ==
    {i \in Ids : /\ CandidateObservations(b, o, i) # {}
                 /\ ScoreCandidate(o, CandidateObservations(b, o, i)) # Conflict}

(* The best of some candidates, if it is far enough above the others; of two  *)
(* with the same score there is no best, whichever is sorted first.           *)
Chosen(b, o, S) ==
    LET score(i) == ScoreCandidate(o, CandidateObservations(b, o, i))
    IN  {i \in S : /\ score(i) >= LinkThreshold
                   /\ \A j \in S \ {i} : score(i) - score(j) >= Margin}

(* resolve_observation: linked to the best candidate, left ambiguous outside  *)
(* ranked play, or a new identity.                                            *)
ResolveObservation(b, o) ==
    LET candidates == Candidates(b, o)
        chosen == Chosen(b, o, candidates)
        fresh == CHOOSE i \in Ids : ~b.ident[i].made /\ \A j \in Ids : ~b.ident[j].made => i <= j
    IN  IF o \in Minimal THEN [b EXCEPT !.status[o] = "minimal"]
        ELSE IF b.who[o] # Nobody
             THEN RefreshIdentity(LinkMatchPlayer(b, o, b.who[o]), b.who[o])
        ELSE IF chosen # {}
             THEN LinkObservation(b, o, CHOOSE i \in chosen : TRUE, "linked")
        ELSE IF o[1] \notin RankedMatches /\ candidates # {}
             THEN [b EXCEPT !.status[o] = "ambiguous"]
        ELSE LinkObservation(CreateIdentity(b, fresh), o, fresh, "new_identity")

(* The observations of a match are written whatever becomes of them: a slot   *)
(* that has an identity keeps it.  The evidence of a slot is a constant here: *)
(* the code overwrites it with that of the payload in hand, whose private     *)
(* players are numbered anew, and this module has every payload of a match    *)
(* say the same of its slots.                                                 *)
PersistObservations(b, m) ==
    [b EXCEPT !.status = [o \in Observations |->
        IF o[1] = m /\ b.who[o] = Nobody
        THEN IF o \in Minimal THEN "minimal" ELSE "unresolved"
        ELSE b.status[o]]]

ResolveMatch(b, m) ==
    FoldLeft(LAMBDA acc, s : ResolveObservation(acc, <<m, s>>), b, Slots[m])

(* persist_and_resolve_private_identities: a limited match is not resolved. *)
PersistAndResolve(b, m, limited) ==
    IF limited THEN PersistObservations(b, m) ELSE ResolveMatch(PersistObservations(b, m), m)

-----------------------------------------------------------------------------
(* reconcile_split_private_identities                                         *)

FirstOf(b, i) ==
    CHOOSE o \in ObservationsOf(b, i) : \A p \in ObservationsOf(b, i) : o[1] <= p[1]

(* Mutant: the collision of the two histories is not looked for. *)
MergeTargetsUnchecked(b, i) ==
    LET first == FirstOf(b, i)
        earlier == {j \in Candidates(b, first) \ {i} :
                        \E c \in CandidateObservations(b, first, j) : c[1] <= first[1]}
    IN  Chosen(b, first, earlier)

(* Where an identity is merged into: the best candidate of its first          *)
(* observation that was seen no later, if none of its observations conflicts  *)
(* with it and they are never in one match.                                   *)
MergeTargets(b, i) ==
    LET first == FirstOf(b, i)
        earlier == {j \in Candidates(b, first) \ {i} :
                        \E c \in CandidateObservations(b, first, j) : c[1] <= first[1]}
    IN  {j \in Chosen(b, first, earlier) :
            /\ \A o \in ObservationsOf(b, i) :
                   ScoreCandidate(o, CandidateObservations(b, first, j)) # Conflict
            /\ \A o \in ObservationsOf(b, i), p \in ObservationsOf(b, j) : o[1] # p[1]}

(* Mutant: the merge leaves the player facts to repair_private_match_links,   *)
(* and the reports where they are.                                            *)
MergeObservationsOnly(b, i, j) ==
    RefreshIdentity(
        [b EXCEPT !.who = [o \in Observations |-> IF b.who[o] = i THEN j ELSE b.who[o]],
                  !.ident[i].active = FALSE, !.ident[i].into = j], j)

(* Mutant: identities are merged that an operator has put a name on. *)
MergeableVerified(b, i) ==
    /\ b.ident[i].active /\ ObservationsOf(b, i) # {}
    /\ MergeTargets(b, i) # {}

Mergeable(b, i) ==
    /\ b.ident[i].active /\ ~b.ident[i].verified /\ ObservationsOf(b, i) # {}
    /\ MergeTargets(b, i) # {}

(* Player facts, observations, votes and the cheater mark go over, and the    *)
(* target is refreshed.                                                       *)
Merge(b, i, j) ==
    RefreshIdentity(
        [b EXCEPT !.who = [o \in Observations |-> IF b.who[o] = i THEN j ELSE b.who[o]],
                  !.status = [o \in Observations |->
                                  IF b.who[o] = i THEN "linked" ELSE b.status[o]],
                  !.link = [o \in Observations |->
                                IF b.link[o] = i \/ (b.who[o] = i /\ b.link[o] # Nobody)
                                THEN j ELSE b.link[o]],
                  !.ident[j].votes = @ \cup b.ident[i].votes,
                  !.ident[j].cheater = @ \/ b.ident[i].cheater,
                  !.ident[i].votes = {}, !.ident[i].active = FALSE, !.ident[i].into = j],
        j)

MergeAll(b) ==
    LET sources == {i \in Ids : b.ident[i].active /\ ObservationsOf(b, i) # {}}
        order == SetToSortSeq(sources, LAMBDA i, j :
                     \/ FirstOf(b, i)[1] < FirstOf(b, j)[1]
                     \/ FirstOf(b, i)[1] = FirstOf(b, j)[1] /\ i < j)
    IN  FoldLeft(LAMBDA acc, i :
                     IF Mergeable(acc, i)
                     THEN Merge(acc, i, CHOOSE j \in MergeTargets(acc, i) : TRUE) ELSE acc,
                 b, order)

(* repair_private_match_links *)
RepairLinks(b) ==
    [b EXCEPT !.link = [o \in Observations |->
        IF b.link[o] # Nobody /\ b.who[o] # Nobody THEN b.who[o] ELSE b.link[o]]]

(* backfill_private_account_identities: the links are repaired and the open   *)
(* matches listed; they are resolved by time, each in a transaction; then the *)
(* split identities are merged, and the links are repaired once more.         *)
OpenMatches(b) == {m \in SeenMatches : \E s \in Range(Slots[m]) :
                      b.who[<<m, s>>] = Nobody /\ b.status[<<m, s>>] \in {"unresolved", "ambiguous"}}

BackfillStarts ==
    /\ backfill.pc = "idle"
    /\ book' = RepairLinks(book)
    /\ backfill' = [pc |-> "resolve", todo |-> OpenMatches(book)]
    /\ UNCHANGED <<report, acts>>

BackfillMatch ==
    /\ backfill.pc = "resolve" /\ backfill.todo # {}
    /\ LET m == CHOOSE m \in backfill.todo : \A n \in backfill.todo : m <= n
       IN  /\ book' = ResolveMatch(book, m)
           /\ backfill' = [backfill EXCEPT !.todo = @ \ {m}]
    /\ UNCHANGED <<report, acts>>

ReconcileSplit ==
    /\ backfill.pc = "resolve" /\ backfill.todo = {}
    /\ book' = MergeAll(book) /\ backfill' = [backfill EXCEPT !.pc = "repair"]
    /\ UNCHANGED <<report, acts>>

BackfillEnds ==
    /\ backfill.pc = "repair"
    /\ book' = RepairLinks(book) /\ backfill' = [pc |-> "idle", todo |-> {}]
    /\ UNCHANGED <<report, acts>>

(* A statement of the backfill fails, or its process does. *)
BackfillFails ==
    /\ backfill.pc # "idle"
    /\ backfill' = [pc |-> "idle", todo |-> {}] /\ UNCHANGED <<book, report, acts>>

-----------------------------------------------------------------------------
(* Operators and users.                                                       *)

Act == acts < MaxActs /\ acts' = acts + 1

(* verify_name: an active identity gets its name; the row lock makes it wait  *)
(* for a merge and then see it.                                               *)
VerifyName(i) ==
    /\ book.ident[i].active
    /\ book' = [book EXCEPT !.ident[i].verified = TRUE]
    /\ Act /\ UNCHANGED <<backfill, report>>

(* The identity a merged one stands for now, at most 16 merges away. *)
MaxHops == 16

Canonical(b, i) ==
    FoldLeft(LAMBDA j, n : IF b.ident[j].into = Nobody THEN j ELSE b.ident[j].into,
             i, [n \in 1 .. MaxHops |-> n])

(* moderation: the cheater mark of the canonical identity. *)
Moderate(i, cheater) ==
    /\ book.ident[i].made /\ book.ident[Canonical(book, i)].active
    /\ book' = [book EXCEPT !.ident[Canonical(book, i)].cheater = cheater]
    /\ Act /\ UNCHANGED <<backfill, report>>

(* report_private_account looks up the canonical identity and votes in a      *)
(* second statement.                                                          *)
ReadCanonical(u, i) ==
    /\ report[u] = Nobody /\ book.ident[i].made
    /\ report' = [report EXCEPT ![u] = Canonical(book, i)]
    /\ Act /\ UNCHANGED <<book, backfill>>

Vote(u) ==
    /\ report[u] # Nobody
    /\ \E cheater \in BOOLEAN :
        book' = [book EXCEPT !.ident[report[u]].votes = @ \cup {u},
                             !.ident[report[u]].cheater = @ \/ cheater]
    /\ report' = [report EXCEPT ![u] = Nobody] /\ UNCHANGED <<backfill, acts>>

IdentityNext ==
    \/ BackfillStarts \/ BackfillMatch \/ ReconcileSplit \/ BackfillEnds \/ BackfillFails
    \/ \E i \in Ids : VerifyName(i) \/ \E c \in BOOLEAN : Moderate(i, c)
    \/ \E u \in Users : Vote(u) \/ \E i \in Ids : ReadCanonical(u, i)

-----------------------------------------------------------------------------
(* Two private players of one match are never the same person: not by         *)
(* resolution, whatever order the matches come in, not by merging identities  *)
(* that were split (same_match_conflict, collision).                          *)
SlotsApart ==
    \A o, p \in Observations : o # p /\ o[1] = p[1] /\ book.who[o] # Nobody =>
        book.who[o] # book.who[p]

(* An observation belongs to an identity that is in use: a merge leaves none  *)
(* behind.                                                                    *)
LinkedToActive == \A o \in Observations : book.who[o] # Nobody => book.ident[book.who[o]].active

(* What an identity says about itself (match_count) agrees with its           *)
(* observations.                                                              *)
CountsAgree ==
    \A i \in Ids : book.ident[i].active => book.ident[i].count = Cardinality(ObservationsOf(book, i))

(* The identity an operator put a name on is never merged away.               *)
VerifiedStays == [][\A i \in Ids : book.ident[i].verified => book'.ident[i].active]_book

(* The link of a player fact never disagrees with the observation it was      *)
(* resolved by, also while identities are merged and before the links are     *)
(* repaired.                                                                  *)
FactLinkAgrees == \A o \in Observations : book.link[o] \in {Nobody, book.who[o]}

(* Merging identities loses neither the reports nor the cheater mark of the   *)
(* one that goes: they are found on the identity it stands for now.           *)
MarksSurviveMerge ==
    [][\A i \in Ids : book.ident[i].active /\ ~book'.ident[i].active =>
           LET j == Canonical(book', i)
           IN  /\ book'.ident[j].active /\ book.ident[i].votes \subseteq book'.ident[j].votes
               /\ book.ident[i].cheater => book'.ident[j].cheater]_book
=============================================================================
