----------------------------- MODULE Community -----------------------------
(***************************************************************************)
(* What signed-in users do together: votes on players and the tags shown   *)
(* for them (routes/players/moderation.rs and the triggers of              *)
(* 124_reconcile_moderation_tag_projections.sql), likes of a post and the  *)
(* view counter (routes/community.rs, drain_view_counts of                 *)
(* scheduler_host.rs).                                                     *)
(*                                                                         *)
(* PostgreSQL runs these under READ COMMITTED: a statement sees what was   *)
(* committed when it began and what its own transaction did, and a row     *)
(* that another transaction has locked is waited for and then written from *)
(* what the statement has seen.  So a statement that may wait is two       *)
(* steps, its snapshot and its write.  A transaction that waits in a cycle *)
(* is aborted.  The votes are on one player; relations have two.           *)
(***************************************************************************)
EXTENDS Discussion

CONSTANTS
    Casts,         \* bound: the kinds of request that take part in a behaviour
    MaxViews       \* bound: views of the post

Kinds == {"identity", "transaction", "link", "vote", "relation", "like", "view", "discussion"}

ASSUME CommunityAssumption ==
    Casts \subseteq SUBSET Kinds /\ MaxViews \in Nat /\ Targets # {}

VARIABLES
    \* player_community_votes, a vote being <<user, type>>, and the columns of players
    votes, tag,
    \* player_alt_account_votes, a vote being <<user, alt>>, and players.alt_account
    relation, alt,
    \* who has locked which row of players
    rowlock,
    \* user_post_likes and posts.likes of one post, user_build_likes and builds.likes of one build
    likeRows, likes,
    \* its views, the counter in Redis, posts.view_count and the job that drains
    views, counter, viewCount, drain, undrained,
    cast

tags == <<votes, tag, relation, alt, rowlock>>
post == <<likeRows, likes, views, counter, viewCount, drain, undrained>>
vars == <<accountVars, discussion, tags, post, cast>>

\* Types of vote: suspicious stands for weirdo and hall_of_fame, which are counted,
\* dropper for afk_wintrade, which is flagged.  cheater is not a projection.
Projected == {"suspicious", "dropper"}

Liked == {"post", "build"}

Types == Projected \cup {"cheater"}

\* Who has which account matters to the identities alone, elsewhere all are signed in;
\* verifications matter to the links, earlier likes to the likes, and so on.
Init ==
    /\ AccountsInit /\ DiscussionInit
    /\ cast \in Casts
    /\ \/ "identity" \in cast
       \/ sessions = Users /\ \A u \in Users : holder[u] = "legacy"
    /\ "link" \in cast \/ \A u \in Users : verif[u] = NoRow
    /\ "discussion" \in cast \/ \A w \in Places : thread[w] = NoThread
    /\ votes = {} /\ tag = [t \in Types |-> 0]
    /\ relation = {} /\ alt = [p \in Targets |-> FALSE]
    /\ rowlock = [p \in Targets |-> Nobody]
    /\ likeRows \in [Liked -> IF "like" \in cast THEN SUBSET Users ELSE {{}}]
    /\ likes = [w \in Liked |-> Cardinality(likeRows[w])]
    /\ views = 0 /\ counter = 0 /\ viewCount = 0 /\ undrained = FALSE
    /\ drain = [pc |-> "idle", count |-> 0]

Votes(vs, t) == Cardinality({v \in vs : v[2] = t})

Flag(n) == IF n > 0 THEN 1 ELSE 0

\* sync_player_community_vote_projection.
Projection(vs, t) == IF t = "suspicious" THEN Votes(vs, t) ELSE Flag(Votes(vs, t))

Subject == CHOOSE p \in Targets : TRUE

----------------------------------------------------------------------------
\* report.

\* The session, the player, and the snapshot of the statement.
Report(r) ==
    /\ \E u \in Users, t \in Types :
         /\ Authenticated(u)
         /\ BeginWith(r, "insert_vote", "vote", u, t, Votes(votes, t))
    /\ UNCHANGED <<identities, transactions, links, faults, tags, post, cast>>

\* ON CONFLICT DO NOTHING waits for an insert of the same vote that is not committed.
\* The votes that only set a flag lock the player first, with RETURNING EXISTS, and
\* insert then; here every vote inserts first, which leaves more orders open.
InsertVote(r) ==
    /\ On(r, "insert_vote")
    /\ \A q \in Requests \ {r} :
         ~(On(q, "count_new") /\ call[q].who = call[r].who /\ call[q].arg = call[r].arg)
    /\ To(r, IF <<call[r].who, call[r].arg>> \in votes THEN "count_old" ELSE "count_new")
    /\ UNCHANGED <<identities, transactions, links, faults, tags, post, cast>>

RowFree(p) == rowlock[p] = Nobody

\* What the statement writes itself, from its snapshot.
Written(r, new) ==
    [tag EXCEPT ![call[r].arg] = IF call[r].arg = "suspicious" THEN call[r].got + new ELSE 1]

\* A vote that was there already: the update, and no trigger.
CountOld(r) ==
    /\ On(r, "count_old") /\ RowFree(Subject)
    /\ tag' = Written(r, 0)
    /\ Done(r)
    /\ UNCHANGED <<identities, transactions, links, faults, votes, relation, alt, rowlock, post, cast>>

\* Mutant: without the trigger of migration 124.
CountNewAlone(r) ==
    /\ On(r, "count_new") /\ RowFree(Subject)
    /\ votes' = votes \cup {<<call[r].who, call[r].arg>>}
    /\ tag' = Written(r, 1)
    /\ Done(r)
    /\ UNCHANGED <<identities, transactions, links, faults, relation, alt, rowlock, post, cast>>

\* A new vote: the update, then the trigger, which counts anew.
CountNew(r) ==
    /\ On(r, "count_new") /\ RowFree(Subject)
    /\ votes' = votes \cup {<<call[r].who, call[r].arg>>}
    /\ tag' = [t \in Types |-> IF t \in Projected THEN Projection(votes', t) ELSE Written(r, 1)[t]]
    /\ Done(r)
    /\ UNCHANGED <<identities, transactions, links, faults, relation, alt, rowlock, post, cast>>

\* approve: a moderator's decision.
Approve(u) ==
    /\ Authenticated(u) /\ RowFree(Subject)
    /\ tag' = [tag EXCEPT !["cheater"] = 1]
    /\ UNCHANGED <<accountVars, votes, relation, alt, rowlock, post, cast>>

----------------------------------------------------------------------------
\* clear_tag, by an administrator: SELECT ... FOR UPDATE, then the rest.

ClearVotes(r) ==
    /\ RowFree(Subject)
    /\ \E u \in Users, t \in Types : Authenticated(u) /\ Begin(r, "clear_votes", "clear", u, t)
    /\ rowlock' = [rowlock EXCEPT ![Subject] = r]
    /\ UNCHANGED <<identities, transactions, links, faults, votes, tag, relation, alt, post, cast>>

\* The delete does not see votes that are not committed.  The trigger counts anew for
\* every vote deleted.
CommitClear(r) ==
    /\ On(r, "clear_votes")
    /\ votes' = {v \in votes : v[2] # call[r].arg}
    /\ tag' = [t \in Types |-> IF t = call[r].arg THEN 0
                               ELSE IF t \in Projected /\ votes' # votes THEN Projection(votes', t)
                               ELSE tag[t]]
    /\ rowlock' = [rowlock EXCEPT ![Subject] = Nobody]
    /\ Done(r)
    /\ UNCHANGED <<identities, transactions, links, faults, relation, alt, post, cast>>

----------------------------------------------------------------------------
\* create_alt_account_relation and delete_alt_account_relation: transactions of two or
\* three statements.  call[r].got is the vote deleted, then the snapshot of the last
\* statement; what is locked is known from rowlock.

Mine(u, rows) == {v \in rows : v[1] = u}

\* The transactions of relations that have deleted a vote, or inserted one.
Deleting(r) == IF call[r].kind \in {"relate", "unrelate"} /\ call[r].pc \notin {"relate", "done"}
               THEN call[r].got.del ELSE {}

Relate(r) ==
    /\ \E u \in Users, p \in Targets :
         /\ Authenticated(u)
         /\ Begin(r, "relate", "relate", u, p) \/ Begin(r, "relate", "unrelate", u, p)
    /\ UNCHANGED <<identities, transactions, links, faults, tags, post, cast>>

\* The delete; a vote that another transaction is deleting is waited for.
DeleteRelation(r) ==
    /\ On(r, "relate")
    /\ LET rows == Mine(call[r].who, relation)
       IN /\ \A q \in Requests \ {r} : Deleting(q) \cap rows = {}
          /\ Read(r, "sync_old", [del |-> rows, snap |-> {}])
    /\ UNCHANGED <<identities, transactions, links, faults, tags, post, cast>>

\* The trigger updates the rows of players whose votes changed, and so has them locked.
\* What it writes, the last statement writes again.
Sync(r, rows) ==
    LET changed == {v[2] : v \in rows}
    IN /\ \A p \in changed : rowlock[p] \in {Nobody, r}
       /\ rowlock' = [p \in Targets |-> IF p \in changed THEN r ELSE rowlock[p]]

SyncOld(r) ==
    /\ On(r, "sync_old")
    /\ Sync(r, call[r].got.del)
    /\ To(r, IF call[r].kind = "relate" THEN "insert_relation" ELSE "flags")
    /\ UNCHANGED <<identities, transactions, links, faults, votes, tag, relation, alt, post, cast>>

\* The insert; the unique index waits for another vote of the user on the pair, and
\* refuses this one if it is there.
InsertRelation(r) ==
    /\ On(r, "insert_relation")
    /\ \A q \in Requests \ {r} :
         ~(call[q].kind = "relate" /\ call[q].who = call[r].who /\ call[q].pc \in {"sync_new", "flags", "write"})
    /\ Mine(call[r].who, relation) \subseteq call[r].got.del
    /\ To(r, "sync_new")
    /\ UNCHANGED <<identities, transactions, links, faults, tags, post, cast>>

New(r) == IF call[r].kind = "relate" THEN {<<call[r].who, call[r].arg>>} ELSE {}

SyncNew(r) ==
    /\ On(r, "sync_new")
    /\ Sync(r, New(r))
    /\ To(r, "flags")
    /\ UNCHANGED <<identities, transactions, links, faults, votes, tag, relation, alt, post, cast>>

\* The update of both players: the snapshot.
Flags(r) ==
    /\ On(r, "flags")
    /\ call' = [call EXCEPT ![r].pc = "write", ![r].got.snap = relation]
    /\ UNCHANGED <<identities, transactions, links, faults, tags, post, cast>>

\* The write, when both rows are free, and the commit.
WriteFlags(r) ==
    /\ On(r, "write")
    /\ \A p \in Targets : rowlock[p] \in {Nobody, r}
    /\ LET after(rows) == (rows \ call[r].got.del) \cup New(r)
       IN /\ relation' = after(relation)
          /\ alt' = [p \in Targets |-> \E v \in after(call[r].got.snap) : v[2] = p]
    /\ rowlock' = [p \in Targets |-> IF rowlock[p] = r THEN Nobody ELSE rowlock[p]]
    /\ Done(r)
    /\ UNCHANGED <<identities, transactions, links, faults, votes, tag, post, cast>>

\* clear_tag of alt_account.
ClearAlt(r) ==
    /\ \E u \in Users, p \in Targets :
         /\ Authenticated(u) /\ RowFree(p)
         /\ Begin(r, "clear_alt", "clear", u, p)
         /\ rowlock' = [rowlock EXCEPT ![p] = r]
    /\ UNCHANGED <<identities, transactions, links, faults, votes, tag, relation, alt, post, cast>>

CommitClearAlt(r) ==
    /\ On(r, "clear_alt")
    /\ LET rows == {v \in relation : v[2] = call[r].arg}
       IN /\ \A q \in Requests \ {r} : Deleting(q) \cap rows = {}
          /\ relation' = relation \ rows
    /\ alt' = [alt EXCEPT ![call[r].arg] = FALSE]
    /\ rowlock' = [rowlock EXCEPT ![call[r].arg] = Nobody]
    /\ Done(r)
    /\ UNCHANGED <<identities, transactions, links, faults, votes, tag, post, cast>>

\* A transaction that waits is aborted: a deadlock, a vote that is there already, or a
\* statement that fails.  Nothing of it is left.
Abort(r) ==
    /\ call[r].pc \notin {"idle", "done"} /\ call[r].kind \in {"relate", "unrelate", "clear"}
    /\ rowlock' = [p \in Targets |-> IF rowlock[p] = r THEN Nobody ELSE rowlock[p]]
    /\ Done(r)
    /\ UNCHANGED <<identities, transactions, links, faults, votes, tag, relation, alt, post, cast>>

----------------------------------------------------------------------------
\* like_post, and like of a build.

\* A like that a transaction has locked is waited for.
LikeFree(u, w) ==
    \A q \in Requests : ~(call[q].kind = "like" /\ call[q].who = u /\ call[q].arg = w /\ On(q, "unlike"))

Like(r) ==
    /\ \E u \in Users, w \in Liked :
         /\ Authenticated(u)
         /\ LikeFree(u, w)
         /\ Begin(r, IF u \in likeRows[w] THEN "unlike" ELSE "like", "like", u, w)
    /\ UNCHANGED <<identities, transactions, links, faults, tags, post, cast>>

\* If the like is there by now, the insert for a post does nothing and the count is
\* written all the same; for a build it is refused, and the transaction with it.
CommitLike(r) ==
    /\ On(r, "like")
    /\ LET u == call[r].who  w == call[r].arg
       IN IF w = "build" /\ u \in likeRows[w]
          THEN UNCHANGED <<likeRows, likes>>
          ELSE /\ likeRows' = [likeRows EXCEPT ![w] = @ \cup {u}]
               /\ likes' = [likes EXCEPT ![w] = @ + 1]
    /\ Done(r)
    /\ UNCHANGED <<identities, transactions, links, faults, tags, views, counter, viewCount, drain, undrained, cast>>

CommitUnlike(r) ==
    /\ On(r, "unlike")
    /\ likeRows' = [likeRows EXCEPT ![call[r].arg] = @ \ {call[r].who}]
    /\ likes' = [likes EXCEPT ![call[r].arg] = IF @ > 0 THEN @ - 1 ELSE 0]
    /\ Done(r)
    /\ UNCHANGED <<identities, transactions, links, faults, tags, views, counter, viewCount, drain, undrained, cast>>

----------------------------------------------------------------------------
\* post_detail and drain_view_counts.

\* incr, at best.
View ==
    /\ views < MaxViews
    /\ views' = views + 1
    /\ counter' = counter + 1 \/ counter' = counter
    /\ UNCHANGED <<accountVars, tags, likeRows, likes, viewCount, drain, undrained, cast>>

DrainRead ==
    /\ drain.pc = "idle" /\ counter > 0
    /\ drain' = [pc |-> "add", count |-> counter]
    /\ UNCHANGED <<accountVars, tags, likeRows, likes, views, counter, viewCount, undrained, cast>>

\* An update that fails is not looked at.
DrainAdd ==
    /\ drain.pc = "add"
    /\ viewCount' = viewCount + drain.count \/ viewCount' = viewCount
    /\ drain' = [drain EXCEPT !.pc = "del"]
    /\ UNCHANGED <<accountVars, tags, likeRows, likes, views, counter, undrained, cast>>

\* Mutant: the counter stays and goes on counting.
DrainDelNot ==
    /\ drain.pc = "del"
    /\ drain' = [pc |-> "idle", count |-> 0]
    /\ UNCHANGED <<accountVars, tags, likeRows, likes, views, counter, viewCount, undrained, cast>>

\* The key is deleted, with the views counted since it was read, or that fails.
DrainDel ==
    /\ drain.pc = "del"
    /\ \/ counter' = 0 /\ UNCHANGED <<undrained, faults>>
       \/ Fault /\ undrained' = TRUE /\ UNCHANGED counter
    /\ drain' = [pc |-> "idle", count |-> 0]
    /\ UNCHANGED <<call, identities, transactions, links, tags, likeRows, likes, views, viewCount, cast>>

----------------------------------------------------------------------------
VoteStep ==
    \/ \E r \in Requests :
         \/ Report(r) \/ InsertVote(r) \/ CountOld(r) \/ CountNew(r)
         \/ ClearVotes(r) \/ CommitClear(r)
    \/ \E u \in Users : Approve(u)

RelationStep ==
    \E r \in Requests :
        \/ Relate(r) \/ DeleteRelation(r) \/ SyncOld(r) \/ InsertRelation(r) \/ SyncNew(r)
        \/ Flags(r) \/ WriteFlags(r) \/ ClearAlt(r) \/ CommitClearAlt(r) \/ Abort(r)

LikeStep == \E r \in Requests : Like(r) \/ CommitLike(r) \/ CommitUnlike(r)

Account(step) == step /\ UNCHANGED <<discussion, tags, post, cast>>

\* The transactions that lock players fail with Abort.
Failure == \E r \in Requests : call[r].kind \notin {"relate", "unrelate", "clear"} /\ Fails(r)

Public(step) == step /\ UNCHANGED discussion

Next ==
    \/ "identity" \in cast /\ Account(IdentityStep)
    \/ "transaction" \in cast /\ Account(TransactionStep)
    \/ "link" \in cast /\ Account(LinkStep)
    \/ cast \cap {"identity", "transaction", "link", "discussion"} # {} /\ Account(Failure)
    \/ "vote" \in cast /\ Public(VoteStep)
    \/ "relation" \in cast /\ Public(RelationStep)
    \/ "like" \in cast /\ Public(LikeStep)
    \/ "view" \in cast /\ Public(View \/ DrainRead \/ DrainAdd \/ DrainDel)
    \/ "discussion" \in cast /\ DiscussionStep /\ UNCHANGED <<tags, post, cast>>

Spec == Init /\ [][Next]_vars

----------------------------------------------------------------------------
TypeOK ==
    /\ AccountsTypeOK /\ DiscussionTypeOK
    /\ votes \subseteq Users \X Types /\ tag \in [Types -> 0..Cardinality(Users)]
    /\ relation \subseteq Users \X Targets /\ alt \in [Targets -> BOOLEAN]
    /\ \A v, w \in relation : v[1] = w[1] => v = w
    /\ rowlock \in [Targets -> Requests \cup {Nobody}]
    /\ likeRows \in [Liked -> SUBSET Users] /\ likes \in [Liked -> Nat]
    /\ drain.pc \in {"idle", "add", "del"}

Related(p) == {v \in relation : v[2] = p}

\* Whatever transaction changes the votes on a player leaves the tags they are
\* projected to equal to the votes, however many others wait beside it: the trigger
\* takes the row and counts after it has it.
VotesAreProjected ==
    [][ /\ votes' # votes => \A t \in Projected : tag'[t] = Projection(votes', t)
        /\ \A p \in Targets : Related(p)' # Related(p) => (alt'[p] <=> Related(p)' # {}) ]_vars

\* The projections are kept synchronised at the database boundary
\* (124_reconcile_moderation_tag_projections.sql).
TagsInSync == \A t \in Projected : tag[t] = Projection(votes, t)

\* A build shows as many likes as there are users who like it, and a post not fewer,
\* however often they click.
LikesCoverRows ==
    /\ likes["build"] = Cardinality(likeRows["build"])
    /\ likes["post"] >= Cardinality(likeRows["post"])

\* A view is counted at most once, unless a counter could not be deleted.
ViewsNotInvented == undrained \/ viewCount <= views

\* Whoever signs in, signs in as himself: promote_oidc_identity, the one-use
\* transactions of the BFF and the links to players, whatever runs beside them.
AccountsAreOwn == OwnAccount /\ CollisionIsForeign /\ OneUse /\ LinkIsProven

\* The counters that readers see never fall below the rows, nor rise above the views,
\* that they stand for.  That views are drained once rests on the lease of the job.
CountersAreTrue == TypeOK /\ LikesCoverRows /\ ViewsNotInvented
=============================================================================
