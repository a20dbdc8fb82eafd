--------------------------- MODULE CommunityProofs ---------------------------
(***************************************************************************)
(* Proofs about Community and the modules it is made of, for every set of  *)
(* users, subjects, players and requests, and for every cast: requests of  *)
(* all the families run beside each other, which the runs of TLC do not    *)
(* reach.                                                                  *)
(*                                                                         *)
(* A request says by its kind to which family it belongs, and a step of    *)
(* one family leaves the requests and the tables of the others alone.  So  *)
(* each family has an invariant of its own about its tables and what its   *)
(* requests know, proved for the steps of the family one by one and for    *)
(* all others at once.                                                     *)
(***************************************************************************)
EXTENDS Community, FiniteSetTheorems, TLAPS

\* Where a request is tells its kind.
PcFits(c) ==
    /\ c.kind = "none" => c.pc \in {"idle", "done"}
    /\ c.pc \in {"look", "register", "session"} => c.kind = "exchange"
    /\ c.pc \in {"get", "del", "release"} => c.kind = "consume"
    /\ c.pc \in {"taken", "code"} => c.kind = "link"
    /\ c.pc \in {"loadouts", "drop", "missing", "other", "commit_link"} => c.kind = "check"
    /\ c.pc \in {"insert_vote", "count_old", "count_new"} => c.kind = "vote"
    /\ c.pc \in {"clear_votes", "clear_alt"} => c.kind = "clear"
    /\ c.pc \in {"relate", "sync_old", "flags", "write"} => c.kind \in {"relate", "unrelate"}
    /\ c.pc \in {"insert_relation", "sync_new"} => c.kind = "relate"
    /\ c.pc \in {"like", "unlike"} => c.kind = "like"
    /\ c.pc = "tell_staff" => c.kind = "open"
    /\ c.pc \in {"comment", "tell"} => c.kind = "comment"
    /\ c.pc \in {"status", "tell_status"} => c.kind = "status"
    /\ c.pc \in {"update_post", "delete_post", "delete_comment"} => c.kind = "edit"

\* Its kind tells for whom and about what it is.
KindFits(c) ==
    /\ c.kind = "exchange" => c.who \in Subjects /\ c.arg \in Users
    /\ c.kind \in {"link", "relate", "unrelate"} => c.who \in Users /\ c.arg \in Targets
    /\ c.kind \in {"check", "open"} => c.who \in Users
    /\ c.kind = "vote" => c.who \in Users /\ c.arg \in Types
    /\ c.pc = "clear_votes" => c.arg \in Types
    /\ c.pc = "clear_alt" => c.arg \in Targets
    /\ c.kind = "like" => c.who \in Users /\ c.arg \in Liked
    /\ c.kind = "comment" => c.who \in Users /\ c.arg \in Places
    /\ c.kind = "status" => c.who \in Staff

IsCall(c) == c = [pc |-> c.pc, kind |-> c.kind, who |-> c.who, arg |-> c.arg, got |-> c.got]

CallsFit ==
    /\ call = [r \in Requests |-> call[r]]
    /\ \A r \in Requests : IsCall(call[r]) /\ PcFits(call[r]) /\ KindFits(call[r])

\* A step changes requests of the kinds K alone, or ends them.
Only(K) == \A q \in Requests : call'[q] = call[q] \/ call'[q].kind \in K \cup {"none"}

----------------------------------------------------------------------------
\* Identities.  An account has one subject and a subject one account; while a request
\* registers a subject nobody else does, and what a session is made for is its own.
IdentityTables ==
    /\ holder \in [Users -> {Nobody, "legacy"} \cup Subjects]
    /\ identity \in [Subjects -> {"none", "linked", "disabled"}]
    /\ sessions \subseteq {u \in Users : holder[u] # Nobody}
    /\ \A u, v \in Users : holder[u] = holder[v] /\ holder[u] \in Subjects => u = v
    /\ \A s \in Subjects : identity[s] # "none" <=> \E u \in Users : holder[u] = s
    /\ entered \subseteq Subjects \X Users
    /\ OwnAccount

IdentityKnown(r) ==
    /\ On(r, "session") => /\ call[r].got \in Users
                           /\ holder[call[r].got] = call[r].who
                           /\ identity[call[r].who] = "linked"
    /\ On(r, "register") => identity[call[r].who] = "none"
    /\ On(r, "done") /\ call[r].kind = "exchange" /\ call[r].got = "collision" =>
         holder[call[r].arg] \notin {Nobody, call[r].who}

IdentityWork ==
    /\ \A r \in Requests : IdentityKnown(r)
    /\ \A r, q \in Requests :
         On(r, "register") /\ On(q, "register") /\ call[r].who = call[q].who => r = q

IdentityInv == IdentityTables /\ IdentityWork

\* Transactions.  Who has been given transaction n, or will be.
Takers(n) == {r \in Requests : <<r, n>> \in handed \/ (On(r, "release") /\ call[r].got = n)}

\* A transaction that is given to somebody and can be had again could not be deleted.
TransactionInv ==
    /\ made \in Nat /\ txn \in 0..made /\ lease \in Requests \cup {Nobody}
    /\ handed \subseteq Requests \X (1..made)
    /\ \A r \in Requests : /\ call[r].pc \in {"get", "del"} => lease = r
                           /\ call[r].pc \in {"del", "release"} => call[r].got \in 0..made
    /\ \A n \in 1..made :
         /\ Takers(n) # {} /\ txn = n => n \in undeleted
         /\ \A q \in Requests : Takers(n) # {} /\ On(q, "del") /\ call[q].got = n => n \in undeleted
         /\ \A a, b \in Takers(n) : a # b => n \in undeleted

\* Links.
VerifRows ==
    [player : Targets \cup {Nobody}, attempts : 0..LINK_MAX_ATTEMPTS, cooling : BOOLEAN,
     locked : BOOLEAN, over : BOOLEAN]

LinkInv ==
    /\ verif \in [Users -> VerifRows]
    /\ \A u \in Users : ~(verif[u].locked /\ verif[u].over)
    /\ linked \in [Users -> Targets \cup {Nobody}]
    /\ LinkIsProven
    /\ \A r \in Requests :
         /\ call[r].pc \in {"loadouts", "other", "commit_link"} => call[r].arg \in Targets
         /\ call[r].pc \in {"other", "commit_link"} => <<call[r].who, call[r].arg>> \in proven

FaultInv == faults \in 0..MaxFaults

----------------------------------------------------------------------------
\* Votes: what a statement has counted is no more than there are users.
VoteInv ==
    /\ votes \subseteq Users \X Types
    /\ tag \in [Types -> 0..Cardinality(Users)]
    /\ \A r \in Requests : call[r].kind = "vote" /\ call[r].pc # "done" => call[r].got \in 0..Cardinality(Users)

\* Relations.  A transaction that has deleted or inserted votes has the rows of their
\* players locked, so the snapshot of its last statement is true of them; one
\* transaction at a time has a new vote of a user.
Inserted(r) == call[r].kind = "relate" /\ call[r].pc \in {"sync_new", "flags", "write"}

Past(r) == call[r].kind \in {"relate", "unrelate"} /\ call[r].pc \notin {"relate", "done"}

RelationTables ==
    /\ relation \subseteq Users \X Targets /\ alt \in [Targets -> BOOLEAN]
    /\ \A v, w \in relation : v[1] = w[1] => v = w
    /\ rowlock \in [Targets -> Requests \cup {Nobody}]

RelationKnown(r) ==
    /\ On(r, "clear_votes") => rowlock[Subject] = r
    /\ On(r, "clear_alt") => rowlock[call[r].arg] = r
    /\ Past(r) =>
         /\ call[r].got = [del |-> call[r].got.del, snap |-> call[r].got.snap]
         /\ call[r].got.del \subseteq Users \X Targets
    /\ Past(r) /\ ~On(r, "sync_old") => \A v \in call[r].got.del : rowlock[v[2]] = r
    /\ call[r].pc \in {"flags", "write"} => \A v \in New(r) : rowlock[v[2]] = r
    /\ Inserted(r) => Mine(call[r].who, relation) \subseteq call[r].got.del
    /\ On(r, "write") =>
         /\ call[r].got.snap \subseteq Users \X Targets
         /\ \A v \in Users \X Targets : rowlock[v[2]] = r => (v \in call[r].got.snap <=> v \in relation)

OneInserts == \A r, q \in Requests : Inserted(r) /\ Inserted(q) /\ call[r].who = call[q].who => r = q

RelationInv == RelationTables /\ (\A r \in Requests : RelationKnown(r)) /\ OneInserts

\* Likes: who takes a like back has it, and nobody else takes it back.
LikeInv ==
    /\ likeRows \in [Liked -> SUBSET Users] /\ likes \in [Liked -> Nat]
    /\ LikesCoverRows
    /\ \A r \in Requests : On(r, "unlike") => call[r].who \in likeRows[call[r].arg]
    /\ \A r, q \in Requests :
         On(r, "unlike") /\ On(q, "unlike") /\ call[r].who = call[q].who /\ call[r].arg = call[q].arg
           => r = q

\* Views: what the counter holds beyond what is being drained has been viewed and not
\* been added.
ViewInv ==
    /\ views \in Nat /\ counter \in Nat /\ viewCount \in Nat /\ undrained \in BOOLEAN
    /\ drain \in [pc : {"idle", "add", "del"}, count : Nat]
    /\ ~undrained =>
         /\ viewCount + counter <= views + (IF drain.pc = "del" THEN drain.count ELSE 0)
         /\ drain.pc # "idle" => drain.count <= counter

----------------------------------------------------------------------------
\* Discussion.  A comment or a change of status has been told, or a request is about to
\* tell it.
Owner(w) == thread[w].owner

Telling(pc, w, by, id) ==
    \E r \in Requests : On(r, pc) /\ call[r].got = id /\ (pc = "tell" => call[r].who = by /\ call[r].arg = w)

CommentHeard(c) ==
    /\ c.by # Owner(c.on) => Told(Owner(c.on), "comment", c.id)
    /\ c.on = "ticket" /\ c.by \notin Staff => \A u \in Staff : Told(u, "comment", c.id)

StatusHeard(i) == Told(Owner("ticket"), "status", i)

ThreadsFit ==
    /\ thread \in [Places -> [owner : Users \cup {Nobody}, state : States \cup {"none", "deleted"}]]
    /\ \A w \in Places : Owner(w) = Nobody <=> thread[w].state = "none"
    /\ commented \in 0..MaxComments /\ changes \in Nat
    /\ thread["ticket"].state = "none" => changes = 0

CommentsFit ==
    /\ comments \subseteq [id : 1..commented, on : Places, by : Users, parent : 0..commented]
    /\ \A c, d \in comments : c.id = d.id => c = d
    /\ \A c \in comments : Exists(c.on) /\ (c.on = "ticket" => c.by \in Staff \/ c.by = Owner("ticket"))

NoteKinds == {"comment", "status", "ticket"}

Notes == [to : Users, kind : NoteKinds, id : Nat, read : BOOLEAN]

InboxFits ==
    /\ inbox \subseteq Notes
    /\ \A n \in inbox : n.kind = "comment" => \E c \in comments : c.id = n.id

DiscussionKnown(r) ==
    /\ call[r].pc \in {"comment", "tell"} =>
         /\ thread[call[r].arg].state # "none"
         /\ call[r].arg = "ticket" => call[r].who \in Staff \/ call[r].who = Owner("ticket")
    /\ On(r, "tell") =>
         /\ call[r].got \in 1..commented
         /\ \A c \in comments : c.id = call[r].got => call[r].who = c.by /\ call[r].arg = c.on
    /\ On(r, "status") => call[r].got \in States
    /\ On(r, "tell_status") => call[r].got \in 1..changes
    /\ On(r, "delete_post") => thread["post"].state # "none"

DiscussionInv == ThreadsFit /\ CommentsFit /\ InboxFits /\ \A r \in Requests : DiscussionKnown(r)

NewsInv ==
    faults = 0 =>
        /\ \A c \in comments : CommentHeard(c) \/ Telling("tell", c.on, c.by, c.id)
        /\ Exists("ticket") /\ Owner("ticket") \notin Staff =>
             \A i \in 1..changes : StatusHeard(i) \/ Telling("tell_status", "ticket", Nobody, i)

CommunityInv ==
    /\ CallsFit /\ FaultInv
    /\ IdentityInv /\ TransactionInv /\ LinkInv
    /\ VoteInv /\ RelationInv /\ LikeInv /\ ViewInv
    /\ DiscussionInv /\ NewsInv

----------------------------------------------------------------------------
\* What a step does to the requests.

Becomes(r, pc, kind, who, arg, got) ==
    /\ call' = [q \in Requests |-> call'[q]]
    /\ call'[r] = [pc |-> pc, kind |-> kind, who |-> who, arg |-> arg, got |-> got]
    /\ \A q \in Requests \ {r} : call'[q] = call[q]

LEMMA BeginSets ==
    ASSUME CallsFit, NEW r \in Requests, NEW pc, NEW kind, NEW who, NEW arg, NEW got,
           BeginWith(r, pc, kind, who, arg, got)
    PROVE  On(r, "idle") /\ Becomes(r, pc, kind, who, arg, got)
  BY DEF CallsFit, BeginWith, Becomes

LEMMA ToSets ==
    ASSUME CallsFit, NEW r \in Requests, NEW pc, To(r, pc)
    PROVE  Becomes(r, pc, call[r].kind, call[r].who, call[r].arg, call[r].got)
  BY DEF CallsFit, IsCall, To, Becomes

LEMMA CallExcept ==
    ASSUME NEW c, IsCall(c), NEW pc, NEW got
    PROVE  [c EXCEPT !.pc = pc, !.got = got] =
             [pc |-> pc, kind |-> c.kind, who |-> c.who, arg |-> c.arg, got |-> got]
<1>. DEFINE d == [c EXCEPT !.pc = pc]
<1>1. d = [pc |-> pc, kind |-> c.kind, who |-> c.who, arg |-> c.arg, got |-> c.got]
  BY DEF IsCall
<1>. HIDE DEF d
<1>2. [d EXCEPT !.got = got] = [pc |-> pc, kind |-> c.kind, who |-> c.who, arg |-> c.arg, got |-> got]
  BY <1>1
<1>. QED
  BY <1>2 DEF d

LEMMA ReadSets ==
    ASSUME CallsFit, NEW r \in Requests, NEW pc, NEW got, Read(r, pc, got)
    PROVE  Becomes(r, pc, call[r].kind, call[r].who, call[r].arg, got)
<1>1. call' = [call EXCEPT ![r] = [@ EXCEPT !.pc = pc, !.got = got]]
  BY DEF Read
<1>2. IsCall(call[r])
  BY DEF CallsFit
<1>3. call' = [call EXCEPT ![r] = [pc |-> pc, kind |-> call[r].kind, who |-> call[r].who,
                                   arg |-> call[r].arg, got |-> got]]
  BY <1>1, <1>2, CallExcept
<1>. QED
  BY <1>3 DEF CallsFit, Becomes

LEMMA DoneSets ==
    ASSUME CallsFit, NEW r \in Requests, Done(r)
    PROVE  Becomes(r, "done", "none", Nobody, Nobody, Nobody)
  BY DEF CallsFit, NoCall, Done, Becomes

LEMMA RefusedSets ==
    ASSUME CallsFit, NEW r \in Requests, NEW why, Refused(r, why)
    PROVE  Becomes(r, "done", call[r].kind, call[r].who, call[r].arg, why)
<1>1. Read(r, "done", why)
  BY DEF Refused, Read
<1>. QED
  BY <1>1, ReadSets

\* A request that goes on fits, if the place it goes to is one of its kind.
LEMMA BecomesFits ==
    ASSUME CallsFit, NEW r \in Requests, NEW pc, NEW kind, NEW who, NEW arg, NEW got,
           Becomes(r, pc, kind, who, arg, got),
           LET c == [pc |-> pc, kind |-> kind, who |-> who, arg |-> arg, got |-> got]
           IN  PcFits(c) /\ KindFits(c)
    PROVE  CallsFit' /\ Only({kind})
<1>. DEFINE c == [pc |-> pc, kind |-> kind, who |-> who, arg |-> arg, got |-> got]
<1>1. call'[r] = c /\ c.kind = kind
  BY DEF Becomes
<1>2. IsCall(c)
  BY DEF IsCall
<1>3. ASSUME NEW q \in Requests
      PROVE  IsCall(call'[q]) /\ PcFits(call'[q]) /\ KindFits(call'[q])
  BY <1>1, <1>2 DEF Becomes, CallsFit
<1>4. Only({kind})
  BY <1>1 DEF Becomes, Only
<1>. QED
  BY <1>3, <1>4 DEF Becomes, CallsFit, IsCall, PcFits, KindFits

LEMMA BeginFits ==
    ASSUME CallsFit, NEW r \in Requests, NEW K, NEW pc, NEW kind \in K, NEW who, NEW arg, NEW got,
           BeginWith(r, pc, kind, who, arg, got),
           PcFits([pc |-> pc, kind |-> kind, who |-> who, arg |-> arg, got |-> got]),
           KindFits([pc |-> pc, kind |-> kind, who |-> who, arg |-> arg, got |-> got])
    PROVE  CallsFit' /\ Only(K)
<1>1. Becomes(r, pc, kind, who, arg, got)
  BY BeginSets
<1>2. CallsFit' /\ Only({kind})
  BY <1>1, BecomesFits
<1>. QED
  BY <1>2 DEF Only

LEMMA GoOnFits ==
    ASSUME CallsFit, NEW r \in Requests, NEW K, call[r].kind \in K, NEW pc, NEW got,
           Becomes(r, pc, call[r].kind, call[r].who, call[r].arg, got),
           pc \notin {"clear_votes", "clear_alt"},
           PcFits([pc |-> pc, kind |-> call[r].kind, who |-> call[r].who, arg |-> call[r].arg,
                   got |-> got])
    PROVE  CallsFit' /\ Only(K)
<1>1. KindFits([pc |-> pc, kind |-> call[r].kind, who |-> call[r].who, arg |-> call[r].arg, got |-> got])
  BY DEF CallsFit, KindFits
<1>2. CallsFit' /\ Only({call[r].kind})
  BY <1>1, BecomesFits
<1>. QED
  BY <1>2 DEF Only

LEMMA DoneFits ==
    ASSUME CallsFit, NEW r \in Requests, NEW K, Done(r)
    PROVE  CallsFit' /\ Only(K)
<1>1. Becomes(r, "done", "none", Nobody, Nobody, Nobody)
  BY DoneSets
<1>2. CallsFit' /\ Only({"none"})
  BY <1>1, BecomesFits DEF PcFits, KindFits
<1>. QED
  BY <1>2 DEF Only

LEMMA StayFits ==
    ASSUME CallsFit, NEW K, UNCHANGED call
    PROVE  CallsFit' /\ Only(K)
<1>1. ASSUME NEW q \in Requests
      PROVE  IsCall(call'[q]) /\ PcFits(call'[q]) /\ KindFits(call'[q])
  BY DEF CallsFit
<1>2. call' = [q \in Requests |-> call'[q]] /\ Only(K)
  BY DEF CallsFit, Only
<1>. QED
  BY <1>1, <1>2 DEF CallsFit, IsCall, PcFits, KindFits

LEMMA IdentityCalls ==
    ASSUME CallsFit, IdentityStep
    PROVE  CallsFit' /\ Only({"exchange"})
<1>1. ASSUME NEW r \in Requests, Exchange(r)
      PROVE  CallsFit' /\ Only({"exchange"})
  <2>1. PICK s \in Subjects, u \in Users : BeginWith(r, "look", "exchange", s, u, Nobody)
    BY <1>1 DEF Exchange, Begin
  <2>. QED
    BY <2>1, BeginFits DEF PcFits, KindFits
<1>2. ASSUME NEW r \in Requests, Look(r)
      PROVE  CallsFit' /\ Only({"exchange"})
  <2>1. call[r].kind = "exchange"
    BY <1>2 DEF Look, On, CallsFit, PcFits
  <2>2. \E got : \E pc \in {"session", "register", "done"} :
            Becomes(r, pc, call[r].kind, call[r].who, call[r].arg, got)
    BY <1>2, ToSets, ReadSets, RefusedSets DEF Look
  <2>. QED
    BY <2>1, <2>2, GoOnFits DEF PcFits
<1>3. ASSUME NEW r \in Requests, Register(r)
      PROVE  CallsFit' /\ Only({"exchange"})
  <2>1. call[r].kind = "exchange"
    BY <1>3 DEF Register, On, CallsFit, PcFits
  <2>2. \E got : \E pc \in {"session", "done"} :
            Becomes(r, pc, call[r].kind, call[r].who, call[r].arg, got)
    BY <1>3, ReadSets, RefusedSets DEF Register
  <2>. QED
    BY <2>1, <2>2, GoOnFits DEF PcFits
<1>4. ASSUME NEW r \in Requests, CreateSession(r)
      PROVE  CallsFit' /\ Only({"exchange"})
  BY <1>4, DoneFits DEF CreateSession
<1>5. ASSUME NEW u \in Users, LegacyRegister(u) \/ Login(u) \/ Logout(u)
      PROVE  CallsFit' /\ Only({"exchange"})
  BY <1>5, StayFits DEF LegacyRegister, Login, Logout
<1>. QED
  BY <1>1, <1>2, <1>3, <1>4, <1>5 DEF IdentityStep

LEMMA FlagsSets ==
    ASSUME CallsFit, NEW r \in Requests, Flags(r)
    PROVE  Becomes(r, "write", call[r].kind, call[r].who, call[r].arg, [call[r].got EXCEPT !.snap = relation])
<1>1. call' = [call EXCEPT ![r] = [@ EXCEPT !.pc = "write", !.got = [call[r].got EXCEPT !.snap = relation]]]
  BY DEF Flags, CallsFit, IsCall
<1>2. IsCall(call[r])
  BY DEF CallsFit
<1>3. call' = [call EXCEPT ![r] = [pc |-> "write", kind |-> call[r].kind, who |-> call[r].who,
                                   arg |-> call[r].arg, got |-> [call[r].got EXCEPT !.snap = relation]]]
  BY <1>1, <1>2, CallExcept
<1>. QED
  BY <1>3 DEF CallsFit, Becomes

LEMMA TransactionCalls ==
    ASSUME CallsFit, TransactionStep
    PROVE  CallsFit' /\ Only({"consume"})
<1>1. ASSUME NEW r \in Requests, Consume(r)
      PROVE  CallsFit' /\ Only({"consume"})
  <2>1. BeginWith(r, "get", "consume", Nobody, Nobody, Nobody)
    BY <1>1 DEF Consume, Begin
  <2>. QED
    BY <2>1, BeginFits DEF PcFits, KindFits
<1>2. ASSUME NEW r \in Requests, GetTxn(r)
      PROVE  CallsFit' /\ Only({"consume"})
  <2>1. call[r].kind = "consume"
    BY <1>2 DEF GetTxn, On, CallsFit, PcFits
  <2>2. \E got : \E pc \in {"del"} :
            Becomes(r, pc, call[r].kind, call[r].who, call[r].arg, got)
    BY <1>2, ToSets, ReadSets DEF GetTxn
  <2>. QED
    BY <2>1, <2>2, GoOnFits DEF PcFits
<1>3. ASSUME NEW r \in Requests, DelTxn(r)
      PROVE  CallsFit' /\ Only({"consume"})
  <2>1. call[r].kind = "consume"
    BY <1>3 DEF DelTxn, On, CallsFit, PcFits
  <2>2. \E got : \E pc \in {"release"} :
            Becomes(r, pc, call[r].kind, call[r].who, call[r].arg, got)
    BY <1>3, ToSets, ReadSets DEF DelTxn
  <2>. QED
    BY <2>1, <2>2, GoOnFits DEF PcFits
<1>4. ASSUME NEW r \in Requests, ReleaseTxn(r)
      PROVE  CallsFit' /\ Only({"consume"})
  BY <1>4, DoneFits DEF ReleaseTxn
<1>5. ASSUME CreateTxn \/ LeaseOver \/ TxnOver
      PROVE  CallsFit' /\ Only({"consume"})
  BY <1>5, StayFits DEF CreateTxn, LeaseOver, TxnOver
<1>. QED
  BY <1>1, <1>2, <1>3, <1>4, <1>5 DEF TransactionStep

LEMMA LinkCalls ==
    ASSUME CallsFit, LinkStep
    PROVE  CallsFit' /\ Only({"link", "check"})
<1>1. ASSUME NEW r \in Requests, AskLink(r)
      PROVE  CallsFit' /\ Only({"link", "check"})
  <2>1. PICK u \in Users, p \in Targets : BeginWith(r, "taken", "link", u, p, Nobody)
    BY <1>1 DEF AskLink, Begin
  <2>. QED
    BY <2>1, BeginFits DEF PcFits, KindFits
<1>2. ASSUME NEW r \in Requests, LinkTaken(r)
      PROVE  CallsFit' /\ Only({"link", "check"})
  <2>1. call[r].kind = "link"
    BY <1>2 DEF LinkTaken, On, CallsFit, PcFits
  <2>2. Done(r) \/ \E got : \E pc \in {"code"} :
            Becomes(r, pc, call[r].kind, call[r].who, call[r].arg, got)
    BY <1>2, ToSets, ReadSets DEF LinkTaken
  <2>. QED
    BY <2>1, <2>2, GoOnFits, DoneFits DEF PcFits
<1>3. ASSUME NEW r \in Requests, CheckLink(r)
      PROVE  CallsFit' /\ Only({"link", "check"})
  <2>1. PICK arg, got : \E u \in Users :
            \/ BeginWith(r, "loadouts", "check", u, arg, got)
            \/ BeginWith(r, "drop", "check", u, arg, got)
    BY <1>3 DEF CheckLink, Begin
  <2>. QED
    BY <2>1, BeginFits DEF PcFits, KindFits
<1>4. ASSUME NEW r \in Requests, Loadouts(r)
      PROVE  CallsFit' /\ Only({"link", "check"})
  <2>1. call[r].kind = "check"
    BY <1>4 DEF Loadouts, On, CallsFit, PcFits
  <2>2. Done(r) \/ \E got : \E pc \in {"other", "missing"} :
            Becomes(r, pc, call[r].kind, call[r].who, call[r].arg, got)
    BY <1>4, ToSets, ReadSets DEF Loadouts
  <2>. QED
    BY <2>1, <2>2, GoOnFits, DoneFits DEF PcFits
<1>5. ASSUME NEW r \in Requests, OtherAccount(r)
      PROVE  CallsFit' /\ Only({"link", "check"})
  <2>1. call[r].kind = "check"
    BY <1>5 DEF OtherAccount, On, CallsFit, PcFits
  <2>2. Done(r) \/ \E got : \E pc \in {"commit_link"} :
            Becomes(r, pc, call[r].kind, call[r].who, call[r].arg, got)
    BY <1>5, ToSets, ReadSets DEF OtherAccount
  <2>. QED
    BY <2>1, <2>2, GoOnFits, DoneFits DEF PcFits
<1>6. ASSUME NEW r \in Requests, CreateLink(r) \/ DropLink(r) \/ MissingCode(r) \/ CommitLink(r)
      PROVE  CallsFit' /\ Only({"link", "check"})
  BY <1>6, DoneFits DEF CreateLink, DropLink, MissingCode, CommitLink
<1>7. ASSUME NEW u \in Users, CancelLink(u) \/ Unlink(u) \/ LinkTime(u)
      PROVE  CallsFit' /\ Only({"link", "check"})
  BY <1>7, StayFits DEF CancelLink, Unlink, LinkTime
<1>8. ASSUME SweepLinks
      PROVE  CallsFit' /\ Only({"link", "check"})
  BY <1>8, StayFits DEF SweepLinks
<1>. QED
  BY <1>1, <1>2, <1>3, <1>4, <1>5, <1>6, <1>7, <1>8 DEF LinkStep

LEMMA FailureCalls ==
    ASSUME CallsFit, Failure
    PROVE  CallsFit' /\ Only({})
<1>1. ASSUME NEW r \in Requests, Fails(r)
      PROVE  CallsFit' /\ Only({})
  BY <1>1, DoneFits DEF Fails
<1>. QED
  BY <1>1 DEF Failure

LEMMA VoteCalls ==
    ASSUME CallsFit, VoteStep
    PROVE  CallsFit' /\ Only({"vote", "clear"})
<1>1. ASSUME NEW r \in Requests, Report(r)
      PROVE  CallsFit' /\ Only({"vote", "clear"})
  <2>1. PICK u \in Users, t \in Types : BeginWith(r, "insert_vote", "vote", u, t, Votes(votes, t))
    BY <1>1 DEF Report, Begin
  <2>. QED
    BY <2>1, BeginFits DEF PcFits, KindFits
<1>2. ASSUME NEW r \in Requests, InsertVote(r)
      PROVE  CallsFit' /\ Only({"vote", "clear"})
  <2>1. call[r].kind = "vote"
    BY <1>2 DEF InsertVote, On, CallsFit, PcFits
  <2>2. \E got : \E pc \in {"count_old", "count_new"} :
            Becomes(r, pc, call[r].kind, call[r].who, call[r].arg, got)
    BY <1>2, ToSets, ReadSets DEF InsertVote
  <2>. QED
    BY <2>1, <2>2, GoOnFits DEF PcFits
<1>3. ASSUME NEW r \in Requests, ClearVotes(r)
      PROVE  CallsFit' /\ Only({"vote", "clear"})
  <2>1. PICK u \in Users, t \in Types : BeginWith(r, "clear_votes", "clear", u, t, Nobody)
    BY <1>3 DEF ClearVotes, Begin
  <2>. QED
    BY <2>1, BeginFits DEF PcFits, KindFits
<1>4. ASSUME NEW r \in Requests, CountOld(r) \/ CountNew(r) \/ CommitClear(r)
      PROVE  CallsFit' /\ Only({"vote", "clear"})
  BY <1>4, DoneFits DEF CountOld, CountNew, CommitClear
<1>5. ASSUME NEW u \in Users, Approve(u)
      PROVE  CallsFit' /\ Only({"vote", "clear"})
  BY <1>5, StayFits DEF Approve, accountVars
<1>. QED
  BY <1>1, <1>2, <1>3, <1>4, <1>5 DEF VoteStep

LEMMA RelationCalls ==
    ASSUME CallsFit, RelationStep
    PROVE  CallsFit' /\ Only({"relate", "unrelate", "clear"})
<1>1. ASSUME NEW r \in Requests, Relate(r)
      PROVE  CallsFit' /\ Only({"relate", "unrelate", "clear"})
  <2>1. PICK u \in Users, p \in Targets, kind \in {"relate", "unrelate"} :
            BeginWith(r, "relate", kind, u, p, Nobody)
    BY <1>1 DEF Relate, Begin
  <2>. QED
    BY <2>1, BeginFits DEF PcFits, KindFits
<1>2. ASSUME NEW r \in Requests, DeleteRelation(r)
      PROVE  CallsFit' /\ Only({"relate", "unrelate", "clear"})
  <2>1. call[r].kind \in {"relate", "unrelate"}
    BY <1>2 DEF DeleteRelation, On, CallsFit, PcFits
  <2>2. \E got : \E pc \in {"sync_old"} :
            Becomes(r, pc, call[r].kind, call[r].who, call[r].arg, got)
    BY <1>2, ToSets, ReadSets DEF DeleteRelation
  <2>. QED
    BY <2>1, <2>2, GoOnFits DEF PcFits
<1>3. ASSUME NEW r \in Requests, SyncOld(r)
      PROVE  CallsFit' /\ Only({"relate", "unrelate", "clear"})
  <2>1. call[r].kind \in {"relate", "unrelate"}
    BY <1>3 DEF SyncOld, On, CallsFit, PcFits
  <2>2. \E got : \E pc \in {"insert_relation", "flags"} :
            /\ Becomes(r, pc, call[r].kind, call[r].who, call[r].arg, got)
            /\ pc = "insert_relation" => call[r].kind = "relate"
    BY <1>3, ToSets DEF SyncOld
  <2>. QED
    BY <2>1, <2>2, GoOnFits DEF PcFits
<1>4. ASSUME NEW r \in Requests, InsertRelation(r)
      PROVE  CallsFit' /\ Only({"relate", "unrelate", "clear"})
  <2>1. call[r].kind = "relate"
    BY <1>4 DEF InsertRelation, On, CallsFit, PcFits
  <2>2. \E got : \E pc \in {"sync_new"} :
            Becomes(r, pc, call[r].kind, call[r].who, call[r].arg, got)
    BY <1>4, ToSets, ReadSets DEF InsertRelation
  <2>. QED
    BY <2>1, <2>2, GoOnFits DEF PcFits
<1>5. ASSUME NEW r \in Requests, SyncNew(r)
      PROVE  CallsFit' /\ Only({"relate", "unrelate", "clear"})
  <2>1. call[r].kind = "relate"
    BY <1>5 DEF SyncNew, On, CallsFit, PcFits
  <2>2. \E got : \E pc \in {"flags"} :
            Becomes(r, pc, call[r].kind, call[r].who, call[r].arg, got)
    BY <1>5, ToSets, ReadSets DEF SyncNew
  <2>. QED
    BY <2>1, <2>2, GoOnFits DEF PcFits
<1>6. ASSUME NEW r \in Requests, Flags(r)
      PROVE  CallsFit' /\ Only({"relate", "unrelate", "clear"})
  <2>1. call[r].kind \in {"relate", "unrelate"}
    BY <1>6 DEF Flags, On, CallsFit, PcFits
  <2>2. \E got : \E pc \in {"write"} : Becomes(r, pc, call[r].kind, call[r].who, call[r].arg, got)
    BY <1>6, FlagsSets
  <2>. QED
    BY <2>1, <2>2, GoOnFits DEF PcFits
<1>7. ASSUME NEW r \in Requests, ClearAlt(r)
      PROVE  CallsFit' /\ Only({"relate", "unrelate", "clear"})
  <2>1. PICK u \in Users, p \in Targets : BeginWith(r, "clear_alt", "clear", u, p, Nobody)
    BY <1>7 DEF ClearAlt, Begin
  <2>. QED
    BY <2>1, BeginFits DEF PcFits, KindFits
<1>8. ASSUME NEW r \in Requests, WriteFlags(r) \/ CommitClearAlt(r) \/ Abort(r)
      PROVE  CallsFit' /\ Only({"relate", "unrelate", "clear"})
  BY <1>8, DoneFits DEF WriteFlags, CommitClearAlt, Abort
<1>. QED
  BY <1>1, <1>2, <1>3, <1>4, <1>5, <1>6, <1>7, <1>8 DEF RelationStep

LEMMA LikeCalls ==
    ASSUME CallsFit, LikeStep
    PROVE  CallsFit' /\ Only({"like"})
<1>1. ASSUME NEW r \in Requests, Like(r)
      PROVE  CallsFit' /\ Only({"like"})
  <2>1. PICK u \in Users, w \in Liked, pc \in {"like", "unlike"} : BeginWith(r, pc, "like", u, w, Nobody)
    BY <1>1 DEF Like, Begin
  <2>. QED
    BY <2>1, BeginFits DEF PcFits, KindFits
<1>2. ASSUME NEW r \in Requests, CommitLike(r) \/ CommitUnlike(r)
      PROVE  CallsFit' /\ Only({"like"})
  BY <1>2, DoneFits DEF CommitLike, CommitUnlike
<1>. QED
  BY <1>1, <1>2 DEF LikeStep

LEMMA DiscussionCalls ==
    ASSUME CallsFit, DiscussionStep
    PROVE  CallsFit' /\ Only({"open", "comment", "status", "delete", "edit"})
<1>1. ASSUME NEW r \in Requests, Open(r)
      PROVE  CallsFit' /\ Only({"open", "comment", "status", "delete", "edit"})
  <2>1. PICK u \in Users, w \in Places, pc \in {"tell_staff", "done"} : BeginWith(r, pc, "open", u, w, Nobody)
    BY <1>1 DEF Open, Begin
  <2>. QED
    BY <2>1, BeginFits DEF PcFits, KindFits
<1>2. ASSUME NEW r \in Requests, AskComment(r)
      PROVE  CallsFit' /\ Only({"open", "comment", "status", "delete", "edit"})
  <2>1. PICK u \in Users, w \in Places : BeginWith(r, "comment", "comment", u, w, Nobody)
    BY <1>2 DEF AskComment, Begin
  <2>. QED
    BY <2>1, BeginFits DEF PcFits, KindFits
<1>3. ASSUME NEW r \in Requests, Comment(r)
      PROVE  CallsFit' /\ Only({"open", "comment", "status", "delete", "edit"})
  <2>1. call[r].kind = "comment"
    BY <1>3 DEF Comment, On, CallsFit, PcFits
  <2>2. Done(r) \/ \E got : \E pc \in {"tell"} :
            Becomes(r, pc, call[r].kind, call[r].who, call[r].arg, got)
    BY <1>3, ToSets, ReadSets DEF Comment
  <2>. QED
    BY <2>1, <2>2, GoOnFits, DoneFits DEF PcFits
<1>4. ASSUME NEW r \in Requests, Status(r)
      PROVE  CallsFit' /\ Only({"open", "comment", "status", "delete", "edit"})
  <2>1. PICK u \in Staff, s \in States : BeginWith(r, "status", "status", u, "ticket", s)
    BY <1>4 DEF Status, Begin
  <2>. QED
    BY <2>1, BeginFits DEF PcFits, KindFits
<1>5. ASSUME NEW r \in Requests, SetStatus(r)
      PROVE  CallsFit' /\ Only({"open", "comment", "status", "delete", "edit"})
  <2>1. call[r].kind = "status"
    BY <1>5 DEF SetStatus, On, CallsFit, PcFits
  <2>2. Done(r) \/ \E got : \E pc \in {"tell_status"} :
            Becomes(r, pc, call[r].kind, call[r].who, call[r].arg, got)
    BY <1>5, ToSets, ReadSets DEF SetStatus
  <2>. QED
    BY <2>1, <2>2, GoOnFits, DoneFits DEF PcFits
<1>6. ASSUME NEW r \in Requests, DeleteTicket(r)
      PROVE  CallsFit' /\ Only({"open", "comment", "status", "delete", "edit"})
  <2>1. PICK u \in Staff : BeginWith(r, "done", "delete", u, "ticket", Nobody)
    BY <1>6 DEF DeleteTicket, Begin
  <2>. QED
    BY <2>1, BeginFits DEF PcFits, KindFits
<1>7. ASSUME NEW r \in Requests, EditPermission(r)
      PROVE  CallsFit' /\ Only({"open", "comment", "status", "delete", "edit"})
  <2>1. PICK got : \E u \in Users, pc \in {"update_post", "delete_post", "delete_comment"} :
            BeginWith(r, pc, "edit", u, "post", got)
    BY <1>7 DEF EditPermission, Begin
  <2>. QED
    BY <2>1, BeginFits DEF PcFits, KindFits
<1>8. ASSUME NEW r \in Requests, TellStaff(r) \/ TellComment(r) \/ TellStatus(r) \/ UpdatePost(r) \/ DeletePost(r) \/ DeleteComment(r)
      PROVE  CallsFit' /\ Only({"open", "comment", "status", "delete", "edit"})
  BY <1>8, DoneFits DEF TellStaff, TellComment, TellStatus, UpdatePost, DeletePost, DeleteComment
<1>9. ASSUME NEW u \in Users, ReadNotification(u) \/ ReadAll(u)
      PROVE  CallsFit' /\ Only({"open", "comment", "status", "delete", "edit"})
  BY <1>9, StayFits DEF ReadNotification, ReadAll, MarkRead, accountVars
<1>. QED
  BY <1>1, <1>2, <1>3, <1>4, <1>5, <1>6, <1>7, <1>8, <1>9 DEF DiscussionStep

----------------------------------------------------------------------------
\* Identities.

LEMMA Fitting ==
    ASSUME CallsFit, NEW r \in Requests
    PROVE  PcFits(call[r]) /\ KindFits(call[r])
  BY DEF CallsFit

LEMMA FittingNext ==
    ASSUME CallsFit', NEW r \in Requests
    PROVE  PcFits(call'[r]) /\ KindFits(call'[r])
  BY DEF CallsFit, PcFits, KindFits

LEMMA IdentityElsewhere ==
    ASSUME IdentityInv, CallsFit', NEW K, "exchange" \notin K, Only(K), UNCHANGED identities
    PROVE  IdentityInv'
<1>1. ASSUME NEW q \in Requests,
             \/ call'[q].pc \in {"session", "register"}
             \/ call'[q].kind = "exchange"
      PROVE  call'[q] = call[q]
  BY <1>1, FittingNext DEF Only, PcFits
<1>. QED
  BY <1>1 DEF IdentityInv, IdentityTables, IdentityWork, IdentityKnown, OwnAccount, On, identities

\* A subject's account is the one that it holds.
LEMMA AccountOfHolds ==
    ASSUME IdentityInv, NEW s \in Subjects, identity[s] # "none"
    PROVE  AccountOf(s) \in Users /\ holder[AccountOf(s)] = s
  BY DEF IdentityInv, IdentityTables, AccountOf

LEMMA IdentitySteps ==
    ASSUME CallsFit, IdentityInv, IdentityStep
    PROVE  IdentityInv'
<1>. USE AccountsAssumption
<1>1. ASSUME NEW r \in Requests, Exchange(r)
      PROVE  IdentityInv'
  <2>1. PICK s \in Subjects, u \in Users : Becomes(r, "look", "exchange", s, u, Nobody)
    BY <1>1, BeginSets DEF Exchange, Begin
  <2>. QED
    BY <1>1, <2>1 DEF Exchange, Becomes, IdentityInv, IdentityTables, IdentityWork, IdentityKnown, OwnAccount, On, identities
<1>2. ASSUME NEW r \in Requests, Look(r)
      PROVE  IdentityInv'
  <2>1. call[r].who \in Subjects /\ call[r].arg \in Users
    BY <1>2, Fitting DEF Look, On, PcFits, KindFits
  <2>2. CASE identity[call[r].who] = "linked"
    <3>1. Becomes(r, "session", call[r].kind, call[r].who, call[r].arg, AccountOf(call[r].who))
      BY <1>2, <2>2, ReadSets DEF Look
    <3>. QED
      BY <1>2, <2>1, <2>2, <3>1, AccountOfHolds DEF Look, Becomes, IdentityInv, IdentityTables, IdentityWork, IdentityKnown, OwnAccount, On, identities
  <2>3. CASE identity[call[r].who] = "disabled"
    <3>1. Becomes(r, "done", call[r].kind, call[r].who, call[r].arg, "unlinked")
      BY <1>2, <2>3, RefusedSets DEF Look
    <3>. QED
      BY <1>2, <2>1, <2>3, <3>1 DEF Look, Becomes, IdentityInv, IdentityTables, IdentityWork, IdentityKnown, OwnAccount, On, identities
  <2>4. CASE identity[call[r].who] = "none"
    <3>1. \/ Becomes(r, "register", call[r].kind, call[r].who, call[r].arg, call[r].got)
          \/ Becomes(r, "done", call[r].kind, call[r].who, call[r].arg, "claims_required")
      BY <1>2, <2>4, RefusedSets, ToSets DEF Look
    <3>2. SubjectFree(r) /\ UNCHANGED identities
      BY <1>2 DEF Look
    <3>3. IdentityTables'
      BY <3>2 DEF IdentityInv, IdentityTables, OwnAccount, identities
    <3>4. \A q \in Requests \ {r} : ~(On(q, "register") /\ call[q].who = call[r].who)
      BY <3>2 DEF SubjectFree, On
    <3>5. \/ call'[r].pc = "register" /\ call'[r].who = call[r].who
          \/ call'[r].pc = "done" /\ call'[r].got = "claims_required"
      <4>1. CASE Becomes(r, "register", call[r].kind, call[r].who, call[r].arg, call[r].got)
        BY <4>1 DEF Becomes
      <4>2. CASE Becomes(r, "done", call[r].kind, call[r].who, call[r].arg, "claims_required")
        <5>1. call'[r].pc = "done"
          BY <4>2 DEF Becomes
        <5>2. call'[r].got = "claims_required"
          BY <4>2 DEF Becomes
        <5>. QED
          BY <5>1, <5>2
      <4>. QED
        BY <3>1, <4>1, <4>2
    <3>6. ASSUME NEW q \in Requests \ {r} PROVE call'[q] = call[q]
      BY <3>1 DEF Becomes
    <3>7. ASSUME NEW q \in Requests PROVE IdentityKnown(q)'
      BY <2>1, <2>4, <3>2, <3>5, <3>6 DEF IdentityInv, IdentityWork, IdentityKnown, On, identities
    <3>8. ASSUME NEW q \in Requests, NEW t \in Requests,
                 On(q, "register")', On(t, "register")', call'[q].who = call'[t].who
          PROVE  q = t
      BY <3>4, <3>5, <3>6, <3>8 DEF IdentityInv, IdentityWork, On
    <3>9. IdentityWork'
      BY <3>7, <3>8 DEF IdentityWork
    <3>. QED
      BY <3>3, <3>9 DEF IdentityInv
  <2>. QED
    BY <2>1, <2>2, <2>3, <2>4 DEF IdentityInv, IdentityTables
<1>3. ASSUME NEW r \in Requests, Register(r)
      PROVE  IdentityInv'
  <2>. DEFINE s == call[r].who
              u == call[r].arg
  <2>1. s \in Subjects /\ u \in Users /\ identity[s] = "none"
    BY <1>3, Fitting DEF Register, On, PcFits, KindFits, IdentityInv, IdentityWork, IdentityKnown
  <2>2. CASE holder[u] # Nobody
    <3>1. Becomes(r, "done", call[r].kind, s, u, "collision")
      BY <1>3, <2>2, RefusedSets DEF Register
    <3>2. holder[u] # s
      BY <2>1 DEF IdentityInv, IdentityTables
    <3>. QED
      BY <1>3, <2>1, <2>2, <3>1, <3>2 DEF Register, Becomes, IdentityInv, IdentityTables, IdentityWork, IdentityKnown, OwnAccount, On, identities
  <2>3. CASE holder[u] = Nobody
    <3>1. Becomes(r, "session", call[r].kind, s, u, u)
      BY <1>3, <2>3, ReadSets DEF Register
    <3>2. /\ holder' = [holder EXCEPT ![u] = s] /\ identity' = [identity EXCEPT ![s] = "linked"]
          /\ UNCHANGED <<sessions, entered>>
      BY <1>3, <2>3 DEF Register
    <3>3. /\ On(r, "register")
          /\ \A q \in Requests \ {r} : ~(On(q, "register") /\ call[q].who = s)
      BY <1>3 DEF Register, IdentityInv, IdentityWork
    <3>4. \A v \in Users : holder[v] # s
      BY <2>1 DEF IdentityInv, IdentityTables
    <3>5. /\ holder' \in [Users -> {Nobody, "legacy"} \cup Subjects]
          /\ identity' \in [Subjects -> {"none", "linked", "disabled"}]
          /\ \A v \in Users : holder'[v] = IF v = u THEN s ELSE holder[v]
          /\ \A t \in Subjects : identity'[t] = IF t = s THEN "linked" ELSE identity[t]
      BY <2>1, <3>2 DEF IdentityInv, IdentityTables
    <3>6. IdentityTables'
      BY <2>1, <2>3, <3>2, <3>4, <3>5 DEF IdentityInv, IdentityTables, OwnAccount
    <3>7. IdentityWork'
      <4>1. ASSUME NEW q \in Requests PROVE IdentityKnown(q)'
        <5>1. CASE q = r
          BY <2>1, <2>3, <3>1, <3>5, <5>1 DEF Becomes, IdentityKnown, On
        <5>2. CASE q # r
          <6>1. call'[q] = call[q] /\ PcFits(call[q]) /\ KindFits(call[q])
            BY <3>1, <5>2, Fitting DEF Becomes
          <6>2. IdentityKnown(q)
            BY DEF IdentityInv, IdentityWork
          <6>3. call[q].kind = "exchange" => call[q].who \in Subjects /\ call[q].arg \in Users
            BY <6>1 DEF KindFits
          <6>4. call[q].pc \in {"session", "register"} => call[q].kind = "exchange"
            BY <6>1 DEF PcFits
          <6>. QED
            BY <2>1, <2>3, <3>3, <3>5, <5>2, <6>1, <6>2, <6>3, <6>4 DEF IdentityKnown, On
        <5>. QED
          BY <5>1, <5>2
      <4>2. ASSUME NEW q \in Requests, NEW t \in Requests,
                   On(q, "register")', On(t, "register")', call'[q].who = call'[t].who
            PROVE  q = t
        BY <3>1, <4>2 DEF Becomes, IdentityInv, IdentityWork, On
      <4>. QED
        BY <4>1, <4>2 DEF IdentityWork
    <3>. QED
      BY <3>6, <3>7 DEF IdentityInv
  <2>. QED
    BY <2>2, <2>3
<1>4. ASSUME NEW r \in Requests, CreateSession(r)
      PROVE  IdentityInv'
  <2>1. Becomes(r, "done", "none", Nobody, Nobody, Nobody)
    BY <1>4, DoneSets DEF CreateSession
  <2>2. call[r].who \in Subjects
    BY <1>4, Fitting DEF CreateSession, On, PcFits, KindFits
  <2>. QED
    BY <1>4, <2>1, <2>2 DEF CreateSession, Becomes, IdentityInv, IdentityTables, IdentityWork, IdentityKnown, OwnAccount, On
<1>5. ASSUME NEW u \in Users, LegacyRegister(u)
      PROVE  IdentityInv'
  <2>1. \A v \in Users : holder'[v] = IF v = u THEN "legacy" ELSE holder[v]
    BY <1>5 DEF LegacyRegister, IdentityInv, IdentityTables
  <2>2. IdentityTables'
    BY <1>5, <2>1 DEF LegacyRegister, IdentityInv, IdentityTables, OwnAccount
  <2>3. \A r \in Requests :
            /\ call[r].kind = "exchange" => call[r].who \in Subjects /\ call[r].arg \in Users
            /\ On(r, "session") => call[r].kind = "exchange"
    BY Fitting DEF PcFits, KindFits, On
  <2>4. IdentityWork'
    BY <1>5, <2>1, <2>3 DEF LegacyRegister, IdentityInv, IdentityWork, IdentityKnown, On
  <2>. QED
    BY <2>2, <2>4 DEF IdentityInv
<1>6. ASSUME NEW u \in Users, Login(u) \/ Logout(u)
      PROVE  IdentityInv'
  <2>1. IdentityTables'
    BY <1>6 DEF Login, Logout, IdentityInv, IdentityTables, OwnAccount
  <2>2. IdentityWork'
    BY <1>6 DEF Login, Logout, IdentityInv, IdentityWork, IdentityKnown, On
  <2>. QED
    BY <2>1, <2>2 DEF IdentityInv
<1>. QED
  BY <1>1, <1>2, <1>3, <1>4, <1>5, <1>6 DEF IdentityStep

----------------------------------------------------------------------------
\* Transactions.

\* The requests that take part are the same, and so is what they hold.
LEMMA TransactionElsewhere ==
    ASSUME TransactionInv, CallsFit, CallsFit', NEW K, "consume" \notin K, Only(K), UNCHANGED transactions
    PROVE  TransactionInv'
<1>1. ASSUME NEW q \in Requests, call'[q].pc \in {"get", "del", "release"}
      PROVE  call'[q] = call[q]
  BY <1>1, FittingNext DEF Only, PcFits
<1>2. \A n : Takers(n)' \subseteq Takers(n)
  BY <1>1 DEF Takers, On, transactions
<1>. QED
  BY <1>1, <1>2 DEF TransactionInv, On, transactions

LEMMA TransactionSteps ==
    ASSUME CallsFit, TransactionInv, TransactionStep
    PROVE  TransactionInv'
<1>1. ASSUME NEW r \in Requests, Consume(r)
      PROVE  TransactionInv'
  <2>1. Becomes(r, "get", "consume", Nobody, Nobody, Nobody)
    BY <1>1, BeginSets DEF Consume, Begin
  <2>2. \A q \in Requests : call[q].pc \notin {"get", "del"}
    BY <1>1, AccountsAssumption DEF Consume, TransactionInv
  <2>3. \A n : Takers(n)' \subseteq Takers(n)
    BY <1>1, <2>1 DEF Consume, Becomes, Takers, On
  <2>4. \A q \in Requests : /\ call'[q].pc \in {"get", "del"} => q = r
                            /\ call'[q].pc # "del"
                            /\ call'[q].pc = "release" => call'[q] = call[q]
    BY <2>1, <2>2 DEF Becomes
  <2>. QED
    BY <1>1, <2>3, <2>4 DEF Consume, TransactionInv, On
<1>2. ASSUME NEW r \in Requests, GetTxn(r)
      PROVE  TransactionInv'
  <2>1. PICK n \in {txn, 0} : Becomes(r, "del", call[r].kind, call[r].who, call[r].arg, n)
    BY <1>2, ReadSets DEF GetTxn
  <2>2. UNCHANGED transactions /\ On(r, "get") /\ lease = r
    BY <1>2 DEF GetTxn, TransactionInv, On
  <2>3. \A m : Takers(m)' \subseteq Takers(m)
    BY <2>1, <2>2 DEF Becomes, Takers, On, transactions
  <2>4. /\ call'[r].pc = "del" /\ call'[r].got = n
        /\ \A q \in Requests \ {r} : call'[q] = call[q]
    BY <2>1 DEF Becomes
  <2>. QED
    BY <2>2, <2>3, <2>4 DEF TransactionInv, On, transactions
<1>3. ASSUME NEW r \in Requests, DelTxn(r)
      PROVE  TransactionInv'
  <2>1. Becomes(r, "release", call[r].kind, call[r].who, call[r].arg, call[r].got)
    BY <1>3, ToSets DEF DelTxn
  <2>2. /\ On(r, "del") /\ lease = r /\ call[r].got \in 0..made
        /\ UNCHANGED <<lease, made, handed>>
        /\ undeleted \subseteq undeleted' /\ txn' \in {0, txn}
        /\ txn' = 0 \/ call[r].got \in undeleted'
    BY <1>3 DEF DelTxn, TransactionInv, On
  <2>3. /\ call'[r].pc = "release" /\ call'[r].got = call[r].got
        /\ \A q \in Requests \ {r} : call'[q] = call[q] /\ call[q].pc \notin {"get", "del"}
    BY <2>1, <2>2 DEF Becomes, TransactionInv
  <2>4. \A n : Takers(n)' \subseteq IF n = call[r].got THEN Takers(n) \cup {r} ELSE Takers(n)
    BY <2>2, <2>3 DEF Takers, On
  <2>5. ASSUME NEW n \in 1..made'
        PROVE  /\ Takers(n)' # {} /\ txn' = n => n \in undeleted'
               /\ \A q \in Requests : ~On(q, "del")'
               /\ \A a, b \in Takers(n)' : a # b => n \in undeleted'
    <3>1. n \in 1..made /\ (Takers(n) # {} /\ txn = n => n \in undeleted)
      BY <2>2 DEF TransactionInv
    <3>2. Takers(n) # {} /\ call[r].got = n => n \in undeleted
      BY <2>2, <3>1 DEF TransactionInv
    <3>3. \A a, b \in Takers(n) : a # b => n \in undeleted
      BY <3>1 DEF TransactionInv
    <3>4. \A q \in Requests : ~On(q, "del")'
      BY <2>3 DEF On
    <3>5. Takers(n)' # {} /\ txn' = n => n \in undeleted'
      BY <2>2, <2>4, <3>1
    <3>6. \A a, b \in Takers(n)' : a # b => n \in undeleted'
      BY <2>2, <2>4, <3>2, <3>3
    <3>. QED
      BY <3>4, <3>5, <3>6
  <2>. QED
    BY <2>2, <2>3, <2>5 DEF TransactionInv, On
<1>4. ASSUME NEW r \in Requests, ReleaseTxn(r)
      PROVE  TransactionInv'
  <2>1. Becomes(r, "done", "none", Nobody, Nobody, Nobody)
    BY <1>4, DoneSets DEF ReleaseTxn
  <2>2. /\ On(r, "release") /\ call[r].got \in 0..made
        /\ lease' = lease \/ (lease = r /\ lease' = Nobody)
        /\ handed' = IF call[r].got = 0 THEN handed ELSE handed \cup {<<r, call[r].got>>}
        /\ UNCHANGED <<txn, made, undeleted>>
    BY <1>4 DEF ReleaseTxn, TransactionInv, On
  <2>3. call'[r].pc = "done" /\ \A q \in Requests \ {r} : call'[q] = call[q]
    BY <2>1 DEF Becomes
  <2>4. \A n : Takers(n)' \subseteq Takers(n)
    BY <2>2, <2>3 DEF Takers, On
  <2>5. handed' \subseteq Requests \X (1..made)
    BY <2>2 DEF TransactionInv
  <2>. QED
    BY <2>2, <2>3, <2>4, <2>5 DEF TransactionInv, On
<1>5. ASSUME CreateTxn
      PROVE  TransactionInv'
  <2>1. made \in Nat /\ made' = made + 1 /\ txn' = made + 1 /\ UNCHANGED <<call, lease, handed, undeleted>>
    BY <1>5 DEF CreateTxn, TransactionInv
  <2>2. \A n : Takers(n)' = Takers(n)
    BY <2>1 DEF Takers, On
  <2>3. Takers(made + 1) = {} /\ \A q \in Requests : ~(On(q, "del") /\ call[q].got = made + 1)
    BY <2>1 DEF Takers, TransactionInv, On
  <2>. QED
    BY <2>1, <2>2, <2>3 DEF TransactionInv, On
<1>6. ASSUME LeaseOver
      PROVE  TransactionInv'
  <2>1. \A n : Takers(n)' = Takers(n)
    BY <1>6 DEF LeaseOver, Takers, On
  <2>. QED
    BY <1>6, <2>1 DEF LeaseOver, TransactionInv, On
<1>7. ASSUME TxnOver
      PROVE  TransactionInv'
  <2>1. \A n : Takers(n)' = Takers(n)
    BY <1>7 DEF TxnOver, Takers, On
  <2>. QED
    BY <1>7, <2>1 DEF TxnOver, TransactionInv, On
<1>. QED
  BY <1>1, <1>2, <1>3, <1>4, <1>5, <1>6, <1>7 DEF TransactionStep

----------------------------------------------------------------------------
\* Links.

LEMMA LinkElsewhere ==
    ASSUME LinkInv, CallsFit', NEW K, K \cap {"link", "check"} = {}, Only(K), UNCHANGED links
    PROVE  LinkInv'
<1>1. ASSUME NEW q \in Requests, call'[q].pc \in {"loadouts", "other", "commit_link"}
      PROVE  call'[q] = call[q]
  BY <1>1, FittingNext DEF Only, PcFits
<1>. QED
  BY <1>1 DEF LinkInv, LinkIsProven, On, links

LEMMA NoRowIsRow == NoRow \in VerifRows /\ ~NoRow.locked
  BY AccountsAssumption DEF NoRow, VerifRows

\* What requests know stays known when they end, and proofs only grow.
LEMMA LinkEnds ==
    ASSUME LinkInv, NEW r \in Requests, Becomes(r, "done", "none", Nobody, Nobody, Nobody),
           UNCHANGED proven
    PROVE  \A q \in Requests :
             /\ call'[q].pc \in {"loadouts", "other", "commit_link"} => call'[q].arg \in Targets
             /\ call'[q].pc \in {"other", "commit_link"} => <<call'[q].who, call'[q].arg>> \in proven'
  BY DEF LinkInv, Becomes

LEMMA RowFits ==
    ASSUME LinkInv, NEW u \in Users, NEW row \in VerifRows, ~(row.locked /\ row.over),
           verif' = [verif EXCEPT ![u] = row]
    PROVE  verif' \in [Users -> VerifRows] /\ \A v \in Users : ~(verif'[v].locked /\ verif'[v].over)
  BY DEF LinkInv

LEMMA RowLocks ==
    ASSUME NEW v \in VerifRows
    PROVE  /\ [v EXCEPT !.locked = TRUE, !.over = FALSE] \in VerifRows
           /\ ~[v EXCEPT !.locked = TRUE, !.over = FALSE].over
<1>. DEFINE d == [v EXCEPT !.locked = TRUE]
<1>1. d \in VerifRows
  BY DEF VerifRows
<1>. HIDE DEF d
<1>2. [d EXCEPT !.over = FALSE] \in VerifRows /\ ~[d EXCEPT !.over = FALSE].over
  BY <1>1 DEF VerifRows
<1>. QED
  BY <1>2 DEF d

LEMMA LinkSteps ==
    ASSUME CallsFit, LinkInv, LinkStep
    PROVE  LinkInv'
<1>. USE AccountsAssumption
<1>1. ASSUME NEW r \in Requests, AskLink(r)
      PROVE  LinkInv'
  <2>1. PICK u \in Users, p \in Targets : Becomes(r, "taken", "link", u, p, Nobody)
    BY <1>1, BeginSets DEF AskLink, Begin
  <2>. QED
    BY <1>1, <2>1 DEF AskLink, Becomes, LinkInv, LinkIsProven, links
<1>2. ASSUME NEW r \in Requests, LinkTaken(r)
      PROVE  LinkInv'
  <2>1. \E pc \in {"code", "done"} : \E kind, who, arg, got : Becomes(r, pc, kind, who, arg, got)
    BY <1>2, ToSets, DoneSets DEF LinkTaken
  <2>. QED
    BY <1>2, <2>1 DEF LinkTaken, Becomes, LinkInv, LinkIsProven, links
<1>3. ASSUME NEW r \in Requests, CreateLink(r) \/ DropLink(r)
      PROVE  LinkInv'
  <2>1. Becomes(r, "done", "none", Nobody, Nobody, Nobody) /\ UNCHANGED <<linked, proven>>
    BY <1>3, DoneSets DEF CreateLink, DropLink
  <2>2. call[r].who \in Users /\ (On(r, "code") => call[r].arg \in Targets)
    BY <1>3, Fitting DEF CreateLink, DropLink, On, PcFits, KindFits
  <2>3. PICK row \in VerifRows : ~row.locked /\ verif' = [verif EXCEPT ![call[r].who] = row]
    BY <1>3, <2>2, NoRowIsRow DEF CreateLink, DropLink, NoRow, VerifRows
  <2>. QED
    BY <2>1, <2>2, <2>3, LinkEnds DEF LinkInv, LinkIsProven, On
<1>4. ASSUME NEW r \in Requests, CheckLink(r)
      PROVE  LinkInv'
  <2>1. PICK u \in Users :
            /\ UNCHANGED <<linked, proven>>
            /\ \/ /\ MayAttempt(verif[u])
                  /\ BeginWith(r, "loadouts", "check", u, verif[u].player, verif[u].attempts + 1)
                  /\ verif' = [verif EXCEPT ![u].attempts = @ + 1, ![u].cooling = TRUE]
               \/ BeginWith(r, "drop", "check", u, Nobody, Nobody) /\ UNCHANGED verif
    BY <1>4 DEF CheckLink, Begin
  <2>2. CASE BeginWith(r, "drop", "check", u, Nobody, Nobody) /\ UNCHANGED verif
    <3>1. Becomes(r, "drop", "check", u, Nobody, Nobody)
      BY <2>2, BeginSets
    <3>. QED
      BY <2>1, <2>2, <3>1 DEF Becomes, LinkInv, LinkIsProven
  <2>3. CASE /\ MayAttempt(verif[u])
             /\ BeginWith(r, "loadouts", "check", u, verif[u].player, verif[u].attempts + 1)
             /\ verif' = [verif EXCEPT ![u].attempts = @ + 1, ![u].cooling = TRUE]
    <3>1. Becomes(r, "loadouts", "check", u, verif[u].player, verif[u].attempts + 1)
      BY <2>3, BeginSets
    <3>2. verif[u] \in VerifRows /\ verif[u].player \in Targets /\ verif[u].attempts + 1 \in 0..LINK_MAX_ATTEMPTS
      BY <2>3 DEF MayAttempt, LinkInv, VerifRows
    <3>3. [verif[u] EXCEPT !.attempts = @ + 1, !.cooling = TRUE] \in VerifRows
      BY <3>2 DEF VerifRows
    <3>4. verif' \in [Users -> VerifRows] /\ \A v \in Users : ~(verif'[v].locked /\ verif'[v].over)
      BY <2>3, <3>2, <3>3 DEF LinkInv, VerifRows
    <3>. QED
      BY <2>1, <3>1, <3>2, <3>4 DEF Becomes, LinkInv, LinkIsProven
  <2>. QED
    BY <2>1, <2>2, <2>3
<1>5. ASSUME NEW r \in Requests, Loadouts(r)
      PROVE  LinkInv'
  <2>1. On(r, "loadouts") /\ call[r].arg \in Targets /\ UNCHANGED <<verif, linked>>
    BY <1>5 DEF Loadouts, LinkInv, On
  <2>2. \/ Becomes(r, "done", "none", Nobody, Nobody, Nobody) /\ UNCHANGED proven
        \/ /\ Becomes(r, "other", call[r].kind, call[r].who, call[r].arg, call[r].got)
           /\ proven' = proven \cup {<<call[r].who, call[r].arg>>}
        \/ Becomes(r, "missing", call[r].kind, call[r].who, call[r].arg, call[r].got) /\ UNCHANGED proven
    BY <1>5, DoneSets, ToSets DEF Loadouts
  <2>. QED
    BY <2>1, <2>2 DEF Becomes, LinkInv, LinkIsProven
<1>6. ASSUME NEW r \in Requests, MissingCode(r)
      PROVE  LinkInv'
  <2>1. Becomes(r, "done", "none", Nobody, Nobody, Nobody) /\ UNCHANGED <<linked, proven>>
    BY <1>6, DoneSets DEF MissingCode
  <2>2. call[r].who \in Users
    BY <1>6, Fitting DEF MissingCode, On, PcFits, KindFits
  <2>. DEFINE row == [verif[call[r].who] EXCEPT !.locked = TRUE, !.over = FALSE]
  <2>3. verif' = verif \/ verif' = [verif EXCEPT ![call[r].who] = row]
    BY <1>6, <2>2 DEF MissingCode, LinkInv
  <2>5. row \in VerifRows /\ ~row.over
    BY <2>2, RowLocks DEF LinkInv
  <2>4. verif' \in [Users -> VerifRows] /\ \A v \in Users : ~(verif'[v].locked /\ verif'[v].over)
    <3>. HIDE DEF row
    <3>. QED
      BY <2>2, <2>3, <2>5, RowFits DEF LinkInv
  <2>. QED
    BY <2>1, <2>4, LinkEnds DEF LinkInv, LinkIsProven
<1>7. ASSUME NEW r \in Requests, OtherAccount(r)
      PROVE  LinkInv'
  <2>1. \/ Becomes(r, "done", "none", Nobody, Nobody, Nobody)
        \/ Becomes(r, "commit_link", call[r].kind, call[r].who, call[r].arg, call[r].got)
    BY <1>7, DoneSets, ToSets DEF OtherAccount
  <2>. QED
    BY <1>7, <2>1 DEF OtherAccount, Becomes, LinkInv, LinkIsProven, On, links
<1>8. ASSUME NEW r \in Requests, CommitLink(r)
      PROVE  LinkInv'
  <2>1. Becomes(r, "done", "none", Nobody, Nobody, Nobody) /\ UNCHANGED proven
    BY <1>8, DoneSets DEF CommitLink
  <2>2. call[r].who \in Users /\ call[r].arg \in Targets /\ <<call[r].who, call[r].arg>> \in proven
    BY <1>8, Fitting DEF CommitLink, On, PcFits, KindFits, LinkInv
  <2>. QED
    BY <1>8, <2>1, <2>2, LinkEnds, NoRowIsRow DEF CommitLink, LinkInv, LinkIsProven
<1>9. ASSUME NEW u \in Users, CancelLink(u) \/ Unlink(u)
      PROVE  LinkInv'
  BY <1>9, NoRowIsRow DEF CancelLink, Unlink, LinkInv, LinkIsProven
<1>10. ASSUME NEW u \in Users, LinkTime(u)
       PROVE  LinkInv'
  <2>1. verif \in [Users -> VerifRows] /\ verif[u] \in VerifRows /\ ~(verif[u].locked /\ verif[u].over)
    BY DEF LinkInv
  <2>2. verif' \in [Users -> VerifRows] /\ \A v \in Users : ~(verif'[v].locked /\ verif'[v].over)
    <3>1. CASE verif' = [verif EXCEPT ![u].cooling = FALSE]
      <4>1. [verif[u] EXCEPT !.cooling = FALSE] \in VerifRows
        BY <2>1 DEF VerifRows
      <4>. QED
        BY <2>1, <3>1, <4>1 DEF LinkInv, VerifRows
    <3>2. CASE verif' = [verif EXCEPT ![u].locked = FALSE]
      <4>1. [verif[u] EXCEPT !.locked = FALSE] \in VerifRows
        BY <2>1 DEF VerifRows
      <4>. QED
        BY <2>1, <3>2, <4>1 DEF LinkInv, VerifRows
    <3>3. CASE verif' = [verif EXCEPT ![u].over = TRUE] /\ ~verif[u].locked
      <4>1. [verif[u] EXCEPT !.over = TRUE] \in VerifRows
        BY <2>1 DEF VerifRows
      <4>. QED
        BY <2>1, <3>3, <4>1 DEF LinkInv, VerifRows
    <3>. QED
      BY <1>10, <3>1, <3>2, <3>3 DEF LinkTime
  <2>. QED
    BY <1>10, <2>2 DEF LinkTime, LinkInv, LinkIsProven
<1>11. ASSUME SweepLinks
       PROVE  LinkInv'
  BY <1>11, NoRowIsRow DEF SweepLinks, LinkInv, LinkIsProven
<1>. QED
  BY <1>1, <1>2, <1>3, <1>4, <1>5, <1>6, <1>7, <1>8, <1>9, <1>10, <1>11 DEF LinkStep

----------------------------------------------------------------------------
\* Votes.

LEMMA SomeUsers == Cardinality(Users) \in Nat /\ (Users # {} => Cardinality(Users) >= 1)
  BY AccountsAssumption, FS_CardinalityType, FS_EmptySet

\* There are no more votes of a type than there are users.
LEMMA VotesBounded ==
    ASSUME NEW vs, vs \subseteq Users \X Types, NEW t
    PROVE  Votes(vs, t) \in 0..Cardinality(Users)
<1>. DEFINE S == {v \in vs : v[2] = t}
            f == [v \in S |-> v[1]]
<1>1. f \in Injection(S, Users)
  BY DEF Injection, IsInjective
<1>2. IsFiniteSet(S) /\ Cardinality(S) <= Cardinality(Users)
  BY <1>1, FS_Injection, AccountsAssumption
<1>3. Cardinality(S) \in Nat
  BY <1>2, FS_CardinalityType
<1>. QED
  BY <1>2, <1>3, SomeUsers DEF Votes

LEMMA ProjectionBounded ==
    ASSUME NEW vs, vs \subseteq Users \X Types, NEW t, Users # {}
    PROVE  Projection(vs, t) \in 0..Cardinality(Users)
  BY VotesBounded, SomeUsers DEF Projection, Flag

LEMMA VoteElsewhere ==
    ASSUME VoteInv, CallsFit', NEW K, "vote" \notin K, Only(K), UNCHANGED <<votes, tag>>
    PROVE  VoteInv'
  BY DEF VoteInv, Only

LEMMA VoteSteps ==
    ASSUME CallsFit, VoteInv, VoteStep
    PROVE  VoteInv'
<1>. DEFINE N == Cardinality(Users)
<1>0. N \in Nat /\ (Users # {} => N >= 1)
  BY SomeUsers
<1>. HIDE DEF N
<1>1. ASSUME NEW r \in Requests, Report(r)
      PROVE  VoteInv'
  <2>1. PICK u \in Users, t \in Types : Becomes(r, "insert_vote", "vote", u, t, Votes(votes, t))
    BY <1>1, BeginSets DEF Report
  <2>2. Votes(votes, t) \in 0..Cardinality(Users)
    BY VotesBounded DEF VoteInv
  <2>. QED
    BY <1>1, <2>1, <2>2 DEF Report, Becomes, VoteInv, tags
<1>2. ASSUME NEW r \in Requests, InsertVote(r)
      PROVE  VoteInv'
  <2>1. PICK pc \in {"count_old", "count_new"} :
            Becomes(r, pc, call[r].kind, call[r].who, call[r].arg, call[r].got)
    BY <1>2, ToSets DEF InsertVote
  <2>. QED
    BY <1>2, <2>1 DEF InsertVote, On, Becomes, VoteInv, tags
<1>3. ASSUME NEW r \in Requests, CountOld(r) \/ CountNew(r)
      PROVE  VoteInv'
  <2>1. Becomes(r, "done", "none", Nobody, Nobody, Nobody)
    BY <1>3, DoneSets DEF CountOld, CountNew
  <2>2. call[r].who \in Users /\ call[r].arg \in Types /\ call[r].got \in 0..N
    BY <1>3, Fitting DEF CountOld, CountNew, On, PcFits, KindFits, VoteInv, N
  <2>3. CASE CountOld(r)
    <3>1. tag' = [tag EXCEPT ![call[r].arg] = IF call[r].arg = "suspicious" THEN call[r].got + 0 ELSE 1]
      BY <2>3 DEF CountOld, Written
    <3>2. tag' \in [Types -> 0..N]
      BY <1>0, <2>2, <3>1 DEF VoteInv, N
    <3>. QED
      BY <2>1, <2>3, <3>2 DEF CountOld, Becomes, VoteInv, N
  <2>4. CASE CountNew(r)
    <3>1. votes' \subseteq Users \X Types
      BY <2>2, <2>4 DEF CountNew, VoteInv
    <3>2. \A t \in Types : Projection(votes', t) \in 0..N
      BY <2>2, <3>1, ProjectionBounded DEF N
    <3>3. \A t \in Types \ Projected : Written(r, 1)[t] \in 0..N
      BY <1>0, <2>2 DEF Written, VoteInv, N, Projected
    <3>4. tag' \in [Types -> 0..N]
      BY <2>4, <3>2, <3>3 DEF CountNew
    <3>. QED
      BY <2>1, <3>1, <3>4 DEF Becomes, VoteInv, N
  <2>. QED
    BY <1>3, <2>3, <2>4
<1>4. ASSUME NEW r \in Requests, ClearVotes(r)
      PROVE  VoteInv'
  <2>1. PICK u \in Users, t \in Types : Becomes(r, "clear_votes", "clear", u, t, Nobody)
    BY <1>4, BeginSets DEF ClearVotes, Begin
  <2>. QED
    BY <1>4, <2>1 DEF ClearVotes, Becomes, VoteInv
<1>5. ASSUME NEW r \in Requests, CommitClear(r)
      PROVE  VoteInv'
  <2>1. Becomes(r, "done", "none", Nobody, Nobody, Nobody)
    BY <1>5, DoneSets DEF CommitClear
  <2>2. votes' \subseteq Users \X Types /\ votes' \subseteq votes
    BY <1>5 DEF CommitClear, VoteInv
  <2>3. ASSUME NEW t \in Types, votes' # votes
        PROVE  Projection(votes', t) \in 0..N
    BY <2>2, <2>3, ProjectionBounded DEF VoteInv, N
  <2>4. tag' \in [Types -> 0..N]
    BY <1>0, <1>5, <2>3 DEF CommitClear, VoteInv, N
  <2>. QED
    BY <2>1, <2>2, <2>4 DEF Becomes, VoteInv, N
<1>6. ASSUME NEW u \in Users, Approve(u)
      PROVE  VoteInv'
  <2>1. tag' \in [Types -> 0..N]
    BY <1>0, <1>6 DEF Approve, VoteInv, N, Types
  <2>. QED
    BY <1>6, <2>1 DEF Approve, VoteInv, N, accountVars
<1>. QED
  BY <1>1, <1>2, <1>3, <1>4, <1>5, <1>6 DEF VoteStep

----------------------------------------------------------------------------
\* Relations.

LEMMA SubjectIsTarget == Subject \in Targets
  BY CommunityAssumption DEF Subject

\* A request keeps what it knows as long as its locks are its own and the votes on the
\* players it has locked stay as they are.
LEMMA KnownStays ==
    ASSUME CallsFit, RelationInv, NEW q \in Requests, call'[q] = call[q],
           \A p \in Targets : rowlock'[p] = q <=> rowlock[p] = q,
           \A v \in Users \X Targets : rowlock[v[2]] = q => (v \in relation' <=> v \in relation),
           Inserted(q) => Mine(call[q].who, relation') \subseteq Mine(call[q].who, relation)
    PROVE  RelationKnown(q)'
<1>1. RelationKnown(q) /\ PcFits(call[q]) /\ KindFits(call[q])
  BY Fitting DEF RelationInv
<1>2. Past(q)' = Past(q) /\ Inserted(q)' = Inserted(q) /\ New(q)' = New(q)
  BY DEF Past, Inserted, New
<1>3. call[q].kind \in {"relate", "unrelate"} => call[q].arg \in Targets
  BY <1>1 DEF KindFits
<1>4. \A v \in New(q) : v[2] \in Targets
  BY <1>3 DEF New
<1>5. (On(q, "clear_votes") => rowlock[Subject] = q)' /\ (On(q, "clear_alt") => rowlock[call[q].arg] = q)'
  BY <1>1, SubjectIsTarget DEF RelationKnown, KindFits, On
<1>6. (Past(q) /\ ~On(q, "sync_old") => \A v \in call[q].got.del : rowlock[v[2]] = q)'
  BY <1>1, <1>2 DEF RelationKnown, On
<1>7. (call[q].pc \in {"flags", "write"} => \A v \in New(q) : rowlock[v[2]] = q)'
  BY <1>1, <1>2, <1>4 DEF RelationKnown
<1>8. (Inserted(q) => Mine(call[q].who, relation) \subseteq call[q].got.del)'
  BY <1>1, <1>2 DEF RelationKnown
<1>9. (On(q, "write") =>
         /\ call[q].got.snap \subseteq Users \X Targets
         /\ \A v \in Users \X Targets : rowlock[v[2]] = q => (v \in call[q].got.snap <=> v \in relation))'
  BY <1>1 DEF RelationKnown, On
<1>. QED
  BY <1>1, <1>2, <1>5, <1>6, <1>7, <1>8, <1>9 DEF RelationKnown

LEMMA RelationElsewhere ==
    ASSUME CallsFit, CallsFit', RelationInv, NEW K, K \cap {"relate", "unrelate", "clear"} = {}, Only(K),
           UNCHANGED <<relation, alt, rowlock>>
    PROVE  RelationInv'
<1>1. ASSUME NEW q \in Requests, call'[q] # call[q]
      PROVE  call'[q].kind \notin {"relate", "unrelate", "clear"}
  BY <1>1 DEF Only
<1>2. ASSUME NEW q \in Requests
      PROVE  RelationKnown(q)'
  <2>1. CASE call'[q] = call[q]
    BY <2>1, KnownStays
  <2>2. CASE call'[q] # call[q]
    BY <1>1, <2>2, FittingNext DEF RelationKnown, Past, Inserted, New, On, PcFits
  <2>. QED
    BY <2>1, <2>2
<1>3. OneInserts'
  BY <1>1 DEF RelationInv, OneInserts, Inserted
<1>. QED
  BY <1>2, <1>3 DEF RelationInv, RelationTables

\* The locks of the others are not touched when one request takes or gives back its own.
LEMMA LocksOfOthers ==
    ASSUME RelationInv, NEW r \in Requests, NEW S, rowlock' = [p \in Targets |-> IF p \in S THEN r ELSE rowlock[p]],
           \A p \in S \cap Targets : rowlock[p] \in {Nobody, r}
    PROVE  /\ \A q \in Requests \ {r} : \A p \in Targets : rowlock'[p] = q <=> rowlock[p] = q
           /\ rowlock' \in [Targets -> Requests \cup {Nobody}]
  BY AccountsAssumption DEF RelationInv, RelationTables

LEMMA LocksGivenBack ==
    ASSUME RelationInv, NEW r \in Requests, NEW S, rowlock' = [p \in Targets |-> IF p \in S THEN Nobody ELSE rowlock[p]],
           \A p \in S \cap Targets : rowlock[p] = r
    PROVE  /\ \A q \in Requests \ {r} : \A p \in Targets : rowlock'[p] = q <=> rowlock[p] = q
           /\ rowlock' \in [Targets -> Requests \cup {Nobody}]
  BY AccountsAssumption DEF RelationInv, RelationTables

\* A request that ends knows nothing.
LEMMA EndedKnowsNothing ==
    ASSUME NEW r \in Requests, Becomes(r, "done", "none", Nobody, Nobody, Nobody)
    PROVE  RelationKnown(r)' /\ (RelationInv => OneInserts')
<1>1. call'[r].pc = "done" /\ call'[r].kind = "none" /\ \A q \in Requests \ {r} : call'[q] = call[q]
  BY DEF Becomes
<1>2. RelationKnown(r)'
  BY <1>1 DEF RelationKnown, Past, Inserted, On
<1>. QED
  BY <1>1, <1>2 DEF RelationInv, OneInserts, Inserted

\* The steps of the votes: clear_tag locks the player and gives the row back.
LEMMA RelationBesideVotes ==
    ASSUME CallsFit, CallsFit', RelationInv, VoteStep
    PROVE  RelationInv'
<1>1. ASSUME NEW r \in Requests, ClearVotes(r)
      PROVE  RelationInv'
  <2>1. PICK u \in Users, t \in Types : Becomes(r, "clear_votes", "clear", u, t, Nobody)
    BY <1>1, BeginSets DEF ClearVotes, Begin
  <2>2. /\ UNCHANGED <<relation, alt>>
        /\ rowlock' = [p \in Targets |-> IF p \in {Subject} THEN r ELSE rowlock[p]]
        /\ rowlock[Subject] = Nobody
    BY <1>1 DEF ClearVotes, RowFree, RelationInv, RelationTables
  <2>3. call'[r].pc = "clear_votes" /\ call'[r].kind = "clear" /\ \A q \in Requests \ {r} : call'[q] = call[q]
    BY <2>1 DEF Becomes
  <2>4. RelationTables' /\ \A q \in Requests \ {r} : RelationKnown(q)'
    BY <2>2, <2>3, LocksOfOthers, KnownStays DEF RelationInv, RelationTables
  <2>5. RelationKnown(r)'
    BY <2>2, <2>3, SubjectIsTarget DEF RelationKnown, Past, Inserted, On
  <2>6. OneInserts'
    BY <2>3 DEF RelationInv, OneInserts, Inserted
  <2>. QED
    BY <2>4, <2>5, <2>6 DEF RelationInv
<1>2. ASSUME NEW r \in Requests, CommitClear(r)
      PROVE  RelationInv'
  <2>1. Becomes(r, "done", "none", Nobody, Nobody, Nobody)
    BY <1>2, DoneSets DEF CommitClear
  <2>2. /\ UNCHANGED <<relation, alt>>
        /\ rowlock' = [p \in Targets |-> IF p \in {Subject} THEN Nobody ELSE rowlock[p]]
        /\ rowlock[Subject] = r
    BY <1>2 DEF CommitClear, RelationInv, RelationTables, RelationKnown
  <2>3. \A q \in Requests \ {r} : call'[q] = call[q]
    BY <2>1 DEF Becomes
  <2>5. /\ \A q \in Requests \ {r} : \A p \in Targets : rowlock'[p] = q <=> rowlock[p] = q
        /\ rowlock' \in [Targets -> Requests \cup {Nobody}]
    BY <2>2, LocksGivenBack
  <2>4. RelationTables' /\ \A q \in Requests \ {r} : RelationKnown(q)'
    BY <2>2, <2>3, <2>5, KnownStays DEF RelationInv, RelationTables
  <2>. QED
    BY <2>1, <2>4, EndedKnowsNothing DEF RelationInv
<1>3. ASSUME NEW r \in Requests, Report(r) \/ InsertVote(r) \/ CountOld(r) \/ CountNew(r)
      PROVE  RelationInv'
  <2>1. UNCHANGED <<relation, alt, rowlock>>
    BY <1>3 DEF Report, InsertVote, CountOld, CountNew, tags
  <2>2. Only({"vote"})
    <3>1. CASE Report(r)
      <4>1. PICK u \in Users, t \in Types : Becomes(r, "insert_vote", "vote", u, t, Votes(votes, t))
        BY <3>1, BeginSets DEF Report
      <4>. QED
        BY <4>1 DEF Becomes, Only
    <3>2. CASE InsertVote(r)
      <4>1. PICK pc \in {"count_old", "count_new"} :
                Becomes(r, pc, call[r].kind, call[r].who, call[r].arg, call[r].got)
        BY <3>2, ToSets DEF InsertVote
      <4>2. call[r].kind = "vote"
        BY <3>2, Fitting DEF InsertVote, On, PcFits
      <4>. QED
        BY <4>1, <4>2 DEF Becomes, Only
    <3>3. CASE CountOld(r) \/ CountNew(r)
      <4>1. Becomes(r, "done", "none", Nobody, Nobody, Nobody)
        BY <3>3, DoneSets DEF CountOld, CountNew
      <4>. QED
        BY <4>1 DEF Becomes, Only
    <3>. QED
      BY <1>3, <3>1, <3>2, <3>3
  <2>. QED
    BY <2>1, <2>2, RelationElsewhere
<1>4. ASSUME NEW u \in Users, Approve(u)
      PROVE  RelationInv'
  <2>1. Only({}) /\ UNCHANGED <<relation, alt, rowlock>>
    BY <1>4 DEF Approve, Only, accountVars
  <2>. QED
    BY <2>1, RelationElsewhere
<1>. QED
  BY <1>1, <1>2, <1>3, <1>4 DEF VoteStep

\* The step that writes: r has the players of its votes locked, so nobody else's
\* knowledge is touched, and every user has one vote after it.
LEMMA WriteFlagsKeeps ==
    ASSUME CallsFit, RelationInv, NEW r \in Requests, WriteFlags(r)
    PROVE  RelationInv'
<1>. DEFINE del == call[r].got.del
<1>1. /\ Becomes(r, "done", "none", Nobody, Nobody, Nobody)
      /\ \A q \in Requests \ {r} : call'[q] = call[q]
  BY DoneSets DEF WriteFlags, Becomes
<1>2. /\ On(r, "write") /\ call[r].kind \in {"relate", "unrelate"}
      /\ call[r].who \in Users /\ call[r].arg \in Targets
  BY Fitting DEF WriteFlags, On, PcFits, KindFits
<1>3. /\ del \subseteq Users \X Targets
      /\ \A v \in del \cup New(r) : rowlock[v[2]] = r
      /\ call[r].kind = "relate" => Mine(call[r].who, relation) \subseteq del
      /\ New(r) \subseteq Users \X Targets
  <2>1. RelationKnown(r) /\ Past(r) /\ (call[r].kind = "relate" => Inserted(r))
    BY <1>2 DEF RelationInv, Past, Inserted, On
  <2>2. /\ del \subseteq Users \X Targets
        /\ call[r].kind = "relate" => Mine(call[r].who, relation) \subseteq del
        /\ \A v \in del : rowlock[v[2]] = r
        /\ \A v \in New(r) : rowlock[v[2]] = r
    BY <1>2, <2>1 DEF RelationKnown, On
  <2>3. New(r) \subseteq Users \X Targets
    BY <1>2 DEF New
  <2>. QED
    BY <2>2, <2>3
<1>4. /\ relation' = (relation \ del) \cup New(r)
      /\ alt' \in [Targets -> BOOLEAN]
      /\ rowlock' = [p \in Targets |-> IF p \in {t \in Targets : rowlock[t] = r} THEN Nobody ELSE rowlock[p]]
  BY DEF WriteFlags
<1>5. /\ \A q \in Requests \ {r} : \A p \in Targets : rowlock'[p] = q <=> rowlock[p] = q
      /\ rowlock' \in [Targets -> Requests \cup {Nobody}]
  BY <1>4, LocksGivenBack
<1>6. relation' \subseteq Users \X Targets
  BY <1>3, <1>4 DEF RelationInv, RelationTables
<1>7. ASSUME NEW v \in relation', NEW w \in relation', v[1] = w[1]
      PROVE  v = w
  <2>1. CASE v \in relation /\ w \in relation
    BY <1>7, <2>1 DEF RelationInv, RelationTables
  <2>2. CASE v \in New(r) /\ w \in New(r)
    BY <2>2 DEF New
  <2>3. ASSUME NEW x \in relation \ del, NEW y \in New(r)
        PROVE  x[1] # y[1]
    BY <1>3, <2>3 DEF New, Mine
  <2>. QED
    BY <1>4, <1>7, <2>1, <2>2, <2>3
<1>8. ASSUME NEW q \in Requests \ {r}
      PROVE  RelationKnown(q)'
  <2>1. \A v \in Users \X Targets : rowlock[v[2]] = q => (v \in relation' <=> v \in relation)
    BY <1>3, <1>4
  <2>2. Inserted(q) => Mine(call[q].who, relation') \subseteq Mine(call[q].who, relation)
    <3>1. ASSUME Inserted(q) PROVE \A v \in New(r) : v[1] # call[q].who
      <4>1. CASE call[r].kind = "relate"
        <5>1. Inserted(r)
          BY <1>2, <4>1 DEF Inserted, On
        <5>2. call[r].who # call[q].who
          BY <3>1, <5>1 DEF RelationInv, OneInserts
        <5>. QED
          BY <5>2 DEF New
      <4>2. CASE call[r].kind # "relate"
        BY <4>2 DEF New
      <4>. QED
        BY <4>1, <4>2
    <3>. QED
      BY <1>4, <3>1 DEF Mine
  <2>. QED
    BY <1>1, <1>5, <2>1, <2>2, KnownStays
<1>. QED
  BY <1>1, <1>4, <1>5, <1>6, <1>7, <1>8, EndedKnowsNothing DEF RelationInv, RelationTables


LEMMA SyncLocks ==
    ASSUME RelationInv, NEW r \in Requests, NEW rows, rows \subseteq Users \X Targets, Sync(r, rows)
    PROVE  /\ \A q \in Requests \ {r} : \A p \in Targets : rowlock'[p] = q <=> rowlock[p] = q
           /\ rowlock' \in [Targets -> Requests \cup {Nobody}]
           /\ \A p \in Targets : rowlock[p] = r => rowlock'[p] = r
           /\ \A v \in rows : rowlock'[v[2]] = r
<1>. DEFINE S == {v[2] : v \in rows}
<1>1. S \subseteq Targets /\ \A v \in rows : v[2] \in S
  OBVIOUS
<1>2. /\ rowlock' = [p \in Targets |-> IF p \in S THEN r ELSE rowlock[p]]
      /\ \A p \in S \cap Targets : rowlock[p] \in {Nobody, r}
  BY DEF Sync
<1>3. /\ \A q \in Requests \ {r} : \A p \in Targets : rowlock'[p] = q <=> rowlock[p] = q
      /\ rowlock' \in [Targets -> Requests \cup {Nobody}]
  BY <1>2, LocksOfOthers
<1>. QED
  BY <1>1, <1>2, <1>3

LEMMA RelationSteps ==
    ASSUME CallsFit, RelationInv, RelationStep
    PROVE  RelationInv'
<1>1. ASSUME NEW r \in Requests, Relate(r)
      PROVE  RelationInv'
  <2>1. PICK u \in Users, p \in Targets, kind \in {"relate", "unrelate"} :
            Becomes(r, "relate", kind, u, p, Nobody)
    BY <1>1, BeginSets DEF Relate, Begin
  <2>2. UNCHANGED <<relation, alt, rowlock>>
    BY <1>1 DEF Relate, tags
  <2>3. call'[r].pc = "relate" /\ \A q \in Requests \ {r} : call'[q] = call[q]
    BY <2>1 DEF Becomes
  <2>4. \A q \in Requests \ {r} : RelationKnown(q)'
    BY <2>2, <2>3, KnownStays
  <2>5. RelationKnown(r)' /\ OneInserts'
    BY <2>3 DEF RelationKnown, RelationInv, OneInserts, Past, Inserted, On
  <2>. QED
    BY <2>2, <2>4, <2>5 DEF RelationInv, RelationTables
<1>2. ASSUME NEW r \in Requests, DeleteRelation(r)
      PROVE  RelationInv'
  <2>. DEFINE rows == Mine(call[r].who, relation)
              got == [del |-> rows, snap |-> {}]
  <2>1. Becomes(r, "sync_old", call[r].kind, call[r].who, call[r].arg, got) /\ UNCHANGED <<relation, alt, rowlock>>
    BY <1>2, ReadSets DEF DeleteRelation, tags
  <2>2. rows \subseteq Users \X Targets
    BY DEF Mine, RelationInv, RelationTables
  <2>3. call'[r].pc = "sync_old" /\ call'[r].got = got /\ \A q \in Requests \ {r} : call'[q] = call[q]
    BY <2>1 DEF Becomes
  <2>4. \A q \in Requests \ {r} : RelationKnown(q)'
    BY <2>1, <2>3, KnownStays
  <2>5. got = [del |-> got.del, snap |-> got.snap] /\ got.del \subseteq Users \X Targets
    BY <2>2
  <2>. HIDE DEF got
  <2>6. RelationKnown(r)'
    BY <2>3, <2>5 DEF RelationKnown, Past, Inserted, On
  <2>7. OneInserts'
    BY <2>3 DEF RelationInv, OneInserts, Inserted
  <2>. QED
    BY <2>1, <2>4, <2>6, <2>7 DEF RelationInv, RelationTables
<1>3. ASSUME NEW r \in Requests, SyncOld(r)
      PROVE  RelationInv'
  <2>1. PICK pc \in {"insert_relation", "flags"} :
            /\ Becomes(r, pc, call[r].kind, call[r].who, call[r].arg, call[r].got)
            /\ pc = "insert_relation" <=> call[r].kind = "relate"
    BY <1>3, ToSets DEF SyncOld
  <2>2. On(r, "sync_old") /\ call[r].kind \in {"relate", "unrelate"} /\ Past(r)
    BY <1>3, Fitting DEF SyncOld, On, PcFits, Past
  <2>3. /\ call[r].got = [del |-> call[r].got.del, snap |-> call[r].got.snap]
        /\ call[r].got.del \subseteq Users \X Targets
    BY <2>2 DEF RelationInv, RelationKnown
  <2>4. /\ UNCHANGED <<relation, alt>>
        /\ \A q \in Requests \ {r} : \A p \in Targets : rowlock'[p] = q <=> rowlock[p] = q
        /\ rowlock' \in [Targets -> Requests \cup {Nobody}]
        /\ \A v \in call[r].got.del : rowlock'[v[2]] = r
    BY <1>3, <2>3, SyncLocks DEF SyncOld
  <2>5. /\ call'[r].pc = pc /\ call'[r].kind = call[r].kind /\ call'[r].got = call[r].got
        /\ \A q \in Requests \ {r} : call'[q] = call[q]
    BY <2>1 DEF Becomes
  <2>6. \A q \in Requests \ {r} : RelationKnown(q)'
    BY <2>4, <2>5, KnownStays
  <2>7. ~Inserted(r)' /\ New(r)' = IF pc = "flags" THEN {} ELSE New(r)'
    BY <2>1, <2>5 DEF Inserted, New
  <2>8. RelationKnown(r)'
    BY <2>1, <2>3, <2>4, <2>5, <2>7 DEF RelationKnown, On
  <2>9. OneInserts'
    BY <2>5, <2>7 DEF RelationInv, OneInserts, Inserted
  <2>. QED
    BY <2>4, <2>6, <2>8, <2>9 DEF RelationInv, RelationTables
<1>4. ASSUME NEW r \in Requests, InsertRelation(r)
      PROVE  RelationInv'
  <2>1. Becomes(r, "sync_new", call[r].kind, call[r].who, call[r].arg, call[r].got) /\ UNCHANGED <<relation, alt, rowlock>>
    BY <1>4, ToSets DEF InsertRelation, tags
  <2>2. On(r, "insert_relation") /\ call[r].kind = "relate" /\ Past(r) /\ RelationKnown(r)
    BY <1>4, Fitting DEF InsertRelation, On, PcFits, Past, RelationInv
  <2>3. /\ \A q \in Requests \ {r} : ~(Inserted(q) /\ call[q].who = call[r].who)
        /\ Mine(call[r].who, relation) \subseteq call[r].got.del
    BY <1>4 DEF InsertRelation, Inserted
  <2>5. /\ call'[r].pc = "sync_new" /\ call'[r].kind = call[r].kind /\ call'[r].got = call[r].got /\ call'[r].who = call[r].who
        /\ \A q \in Requests \ {r} : call'[q] = call[q]
    BY <2>1 DEF Becomes
  <2>6. \A q \in Requests \ {r} : RelationKnown(q)'
    BY <2>1, <2>5, KnownStays
  <2>7. RelationKnown(r)'
    BY <2>1, <2>2, <2>3, <2>5 DEF RelationKnown, Past, Inserted, On
  <2>8. OneInserts'
    BY <2>3, <2>5 DEF RelationInv, OneInserts, Inserted
  <2>. QED
    BY <2>1, <2>6, <2>7, <2>8 DEF RelationInv, RelationTables
<1>5. ASSUME NEW r \in Requests, SyncNew(r)
      PROVE  RelationInv'
  <2>1. Becomes(r, "flags", call[r].kind, call[r].who, call[r].arg, call[r].got)
    BY <1>5, ToSets DEF SyncNew
  <2>2. /\ On(r, "sync_new") /\ call[r].kind = "relate" /\ Past(r) /\ Inserted(r) /\ RelationKnown(r)
        /\ call[r].who \in Users /\ call[r].arg \in Targets
    BY <1>5, Fitting DEF SyncNew, On, PcFits, KindFits, Past, Inserted, RelationInv
  <2>3. New(r) \subseteq Users \X Targets /\ \A v \in call[r].got.del : v[2] \in Targets /\ rowlock[v[2]] = r
    BY <2>2 DEF New, RelationKnown, On
  <2>4. /\ UNCHANGED <<relation, alt>>
        /\ \A q \in Requests \ {r} : \A p \in Targets : rowlock'[p] = q <=> rowlock[p] = q
        /\ rowlock' \in [Targets -> Requests \cup {Nobody}]
        /\ \A p \in Targets : rowlock[p] = r => rowlock'[p] = r
        /\ \A v \in New(r) : rowlock'[v[2]] = r
    BY <1>5, <2>3, SyncLocks DEF SyncNew
  <2>5. /\ call'[r].pc = "flags" /\ call'[r].kind = call[r].kind /\ call'[r].got = call[r].got /\ call'[r].who = call[r].who
        /\ call'[r].arg = call[r].arg
        /\ \A q \in Requests \ {r} : call'[q] = call[q]
    BY <2>1 DEF Becomes
  <2>6. \A q \in Requests \ {r} : RelationKnown(q)'
    BY <2>4, <2>5, KnownStays
  <2>7. New(r)' = New(r) /\ Inserted(r)'
    BY <2>2, <2>5 DEF New, Inserted
  <2>8. RelationKnown(r)'
    BY <2>2, <2>3, <2>4, <2>5, <2>7 DEF RelationKnown, On
  <2>9. OneInserts'
    BY <2>2, <2>5 DEF RelationInv, OneInserts, Inserted
  <2>. QED
    BY <2>4, <2>6, <2>8, <2>9 DEF RelationInv, RelationTables
<1>6. ASSUME NEW r \in Requests, Flags(r)
      PROVE  RelationInv'
  <2>. DEFINE got == [call[r].got EXCEPT !.snap = relation]
  <2>1. Becomes(r, "write", call[r].kind, call[r].who, call[r].arg, got) /\ UNCHANGED <<relation, alt, rowlock>>
    BY <1>6, FlagsSets DEF Flags, tags
  <2>2. On(r, "flags") /\ call[r].kind \in {"relate", "unrelate"} /\ Past(r) /\ RelationKnown(r)
    BY <1>6, Fitting DEF Flags, On, PcFits, Past, RelationInv
  <2>3. got = [del |-> call[r].got.del, snap |-> relation]
    BY <2>2 DEF RelationKnown
  <2>. HIDE DEF got
  <2>5. /\ call'[r].pc = "write" /\ call'[r].kind = call[r].kind /\ call'[r].got = got /\ call'[r].who = call[r].who
        /\ call'[r].arg = call[r].arg
        /\ \A q \in Requests \ {r} : call'[q] = call[q]
    BY <2>1 DEF Becomes
  <2>6. \A q \in Requests \ {r} : RelationKnown(q)'
    BY <2>1, <2>5, KnownStays
  <2>7. New(r)' = New(r) /\ Inserted(r)' = Inserted(r) /\ Past(r)' = Past(r)
    BY <2>2, <2>5 DEF New, Inserted, Past, On
  <2>8. /\ got.del = call[r].got.del /\ got.snap = relation /\ relation \subseteq Users \X Targets
        /\ got = [del |-> got.del, snap |-> got.snap]
    BY <2>3 DEF RelationInv, RelationTables
  <2>9. RelationKnown(r)'
    BY <2>1, <2>2, <2>5, <2>7, <2>8 DEF RelationKnown, On
  <2>10. OneInserts'
    BY <2>2, <2>5, <2>7 DEF RelationInv, OneInserts, Inserted
  <2>. QED
    BY <2>1, <2>6, <2>9, <2>10 DEF RelationInv, RelationTables
<1>7. ASSUME NEW r \in Requests, WriteFlags(r)
      PROVE  RelationInv'
  BY <1>7, WriteFlagsKeeps
<1>8. ASSUME NEW r \in Requests, ClearAlt(r)
      PROVE  RelationInv'
  <2>1. PICK u \in Users, p \in Targets : /\ Becomes(r, "clear_alt", "clear", u, p, Nobody)
                                          /\ rowlock[p] = Nobody
                                          /\ rowlock' = [rowlock EXCEPT ![p] = r]
    BY <1>8, BeginSets DEF ClearAlt, Begin, RowFree
  <2>2. /\ UNCHANGED <<relation, alt>>
        /\ rowlock' = [t \in Targets |-> IF t \in {p} THEN r ELSE rowlock[t]]
    BY <1>8, <2>1 DEF ClearAlt, RelationInv, RelationTables
  <2>3. /\ \A q \in Requests \ {r} : \A t \in Targets : rowlock'[t] = q <=> rowlock[t] = q
        /\ rowlock' \in [Targets -> Requests \cup {Nobody}]
    BY <2>1, <2>2, LocksOfOthers
  <2>4. /\ call'[r].pc = "clear_alt" /\ call'[r].kind = "clear" /\ call'[r].arg = p
        /\ \A q \in Requests \ {r} : call'[q] = call[q]
    BY <2>1 DEF Becomes
  <2>5. \A q \in Requests \ {r} : RelationKnown(q)'
    BY <2>2, <2>3, <2>4, KnownStays
  <2>6. RelationKnown(r)'
    BY <2>2, <2>4 DEF RelationKnown, Past, Inserted, On
  <2>7. OneInserts'
    BY <2>4 DEF RelationInv, OneInserts, Inserted
  <2>. QED
    BY <2>2, <2>3, <2>5, <2>6, <2>7 DEF RelationInv, RelationTables
<1>9. ASSUME NEW r \in Requests, CommitClearAlt(r)
      PROVE  RelationInv'
  <2>. DEFINE p == call[r].arg
  <2>1. /\ Becomes(r, "done", "none", Nobody, Nobody, Nobody)
        /\ \A q \in Requests \ {r} : call'[q] = call[q]
    BY <1>9, DoneSets DEF CommitClearAlt, Becomes
  <2>2. p \in Targets /\ rowlock[p] = r
    BY <1>9, Fitting DEF CommitClearAlt, On, KindFits, RelationInv, RelationKnown
  <2>3. /\ relation' = relation \ {v \in relation : v[2] = p}
        /\ alt' \in [Targets -> BOOLEAN]
        /\ rowlock' = [t \in Targets |-> IF t \in {p} THEN Nobody ELSE rowlock[t]]
    BY <1>9 DEF CommitClearAlt, RelationInv, RelationTables
  <2>4. /\ \A q \in Requests \ {r} : \A t \in Targets : rowlock'[t] = q <=> rowlock[t] = q
        /\ rowlock' \in [Targets -> Requests \cup {Nobody}]
    BY <2>2, <2>3, LocksGivenBack
  <2>5. ASSUME NEW q \in Requests \ {r}
        PROVE  RelationKnown(q)'
    <3>1. \A v \in Users \X Targets : rowlock[v[2]] = q => (v \in relation' <=> v \in relation)
      BY <2>2, <2>3
    <3>2. Mine(call[q].who, relation') \subseteq Mine(call[q].who, relation)
      BY <2>3 DEF Mine
    <3>. QED
      BY <2>1, <2>4, <3>1, <3>2, KnownStays
  <2>. QED
    BY <2>1, <2>3, <2>4, <2>5, EndedKnowsNothing DEF RelationInv, RelationTables
<1>10. ASSUME NEW r \in Requests, Abort(r)
       PROVE  RelationInv'
  <2>1. /\ Becomes(r, "done", "none", Nobody, Nobody, Nobody)
        /\ \A q \in Requests \ {r} : call'[q] = call[q]
    BY <1>10, DoneSets DEF Abort, Becomes
  <2>2. /\ UNCHANGED <<relation, alt>>
        /\ rowlock' = [p \in Targets |-> IF p \in {t \in Targets : rowlock[t] = r} THEN Nobody ELSE rowlock[p]]
    BY <1>10 DEF Abort
  <2>3. /\ \A q \in Requests \ {r} : \A t \in Targets : rowlock'[t] = q <=> rowlock[t] = q
        /\ rowlock' \in [Targets -> Requests \cup {Nobody}]
    BY <2>2, LocksGivenBack
  <2>4. \A q \in Requests \ {r} : RelationKnown(q)'
    BY <2>1, <2>2, <2>3, KnownStays
  <2>. QED
    BY <2>1, <2>2, <2>3, <2>4, EndedKnowsNothing DEF RelationInv, RelationTables
<1>. QED
  BY <1>1, <1>2, <1>3, <1>4, <1>5, <1>6, <1>7, <1>8, <1>9, <1>10 DEF RelationStep

----------------------------------------------------------------------------
\* Likes and views.

LEMMA LikeElsewhere ==
    ASSUME LikeInv, CallsFit', NEW K, "like" \notin K, Only(K), UNCHANGED <<likeRows, likes>>
    PROVE  LikeInv'
<1>1. ASSUME NEW q \in Requests, call'[q].pc = "unlike"
      PROVE  call'[q] = call[q]
  BY <1>1, FittingNext DEF Only, PcFits
<1>. QED
  BY <1>1 DEF LikeInv, LikesCoverRows, On

LEMMA RowsCounted ==
    ASSUME NEW S \in SUBSET Users, NEW u \in Users
    PROVE  /\ Cardinality(S) \in Nat
           /\ Cardinality(S \cup {u}) = IF u \in S THEN Cardinality(S) ELSE Cardinality(S) + 1
           /\ Cardinality(S \ {u}) = IF u \in S THEN Cardinality(S) - 1 ELSE Cardinality(S)
           /\ u \in S => Cardinality(S) >= 1
<1>1. IsFiniteSet(S)
  BY AccountsAssumption, FS_Subset
<1>2. Cardinality(S) \in Nat
  BY <1>1, FS_CardinalityType
<1>3. u \in S => Cardinality(S) # 0
  BY <1>1, FS_EmptySet
<1>4. Cardinality(S \cup {u}) = IF u \in S THEN Cardinality(S) ELSE Cardinality(S) + 1
  BY <1>1, FS_AddElement
<1>5. Cardinality(S \ {u}) = IF u \in S THEN Cardinality(S) - 1 ELSE Cardinality(S)
  BY <1>1, FS_RemoveElement
<1>. QED
  BY <1>2, <1>3, <1>4, <1>5

LEMMA LikeSteps ==
    ASSUME CallsFit, LikeInv, LikeStep
    PROVE  LikeInv'
<1>1. ASSUME NEW r \in Requests, Like(r)
      PROVE  LikeInv'
  <2>1. PICK u \in Users, w \in Liked :
            /\ LikeFree(u, w)
            /\ Begin(r, IF u \in likeRows[w] THEN "unlike" ELSE "like", "like", u, w)
    BY <1>1 DEF Like
  <2>2. PICK pc \in {"like", "unlike"} : /\ Becomes(r, pc, "like", u, w, Nobody)
                                         /\ pc = "unlike" => u \in likeRows[w]
    BY <2>1, BeginSets DEF Begin
  <2>3. /\ call'[r].pc = pc /\ call'[r].who = u /\ call'[r].arg = w
        /\ \A q \in Requests \ {r} : call'[q] = call[q]
    BY <2>2 DEF Becomes
  <2>4. \A q \in Requests : ~(call[q].who = u /\ call[q].arg = w /\ On(q, "unlike"))
    BY <2>1, Fitting DEF LikeFree, On, PcFits
  <2>5. UNCHANGED <<likeRows, likes>>
    BY <1>1 DEF Like, post
  <2>. QED
    BY <2>2, <2>3, <2>4, <2>5 DEF LikeInv, LikesCoverRows, On
<1>2. ASSUME NEW r \in Requests, CommitLike(r)
      PROVE  LikeInv'
  <2>. DEFINE u == call[r].who
              w == call[r].arg
  <2>1. u \in Users /\ w \in Liked
    BY <1>2, Fitting DEF CommitLike, On, PcFits, KindFits
  <2>2. /\ call'[r].pc = "done" /\ \A q \in Requests \ {r} : call'[q] = call[q]
    BY <1>2, DoneSets DEF CommitLike, Becomes
  <2>3. CASE UNCHANGED <<likeRows, likes>>
    BY <2>2, <2>3 DEF LikeInv, LikesCoverRows, On
  <2>4. CASE /\ ~(w = "build" /\ u \in likeRows[w])
             /\ likeRows' = [likeRows EXCEPT ![w] = @ \cup {u}]
             /\ likes' = [likes EXCEPT ![w] = @ + 1]
    <3>1. likeRows[w] \in SUBSET Users /\ likes[w] \in Nat
      BY <2>1 DEF LikeInv
    <3>2. /\ Cardinality(likeRows[w]) \in Nat
          /\ Cardinality(likeRows[w] \cup {u}) =
               IF u \in likeRows[w] THEN Cardinality(likeRows[w]) ELSE Cardinality(likeRows[w]) + 1
      BY <2>1, <3>1, RowsCounted
    <3>3. /\ likeRows'[w] = likeRows[w] \cup {u} /\ likes'[w] = likes[w] + 1
          /\ \A x \in Liked \ {w} : likeRows'[x] = likeRows[x] /\ likes'[x] = likes[x]
          /\ likeRows' \in [Liked -> SUBSET Users] /\ likes' \in [Liked -> Nat]
      BY <2>1, <2>4, <3>1 DEF LikeInv
    <3>4. LikesCoverRows'
      BY <2>1, <2>4, <3>1, <3>2, <3>3 DEF LikeInv, LikesCoverRows, Liked
    <3>5. \A q \in Requests : On(q, "unlike")' => call'[q].who \in likeRows'[call'[q].arg]
      <4>1. ASSUME NEW q \in Requests, On(q, "unlike")'
            PROVE  /\ q # r /\ call'[q] = call[q] /\ call[q].arg \in Liked
                   /\ call[q].who \in likeRows[call[q].arg]
        BY <2>2, <4>1, Fitting DEF On, PcFits, KindFits, LikeInv
      <4>. QED
        BY <3>3, <4>1
    <3>. QED
      BY <2>2, <3>3, <3>4, <3>5 DEF LikeInv, On
  <2>. QED
    BY <1>2, <2>3, <2>4 DEF CommitLike
<1>3. ASSUME NEW r \in Requests, CommitUnlike(r)
      PROVE  LikeInv'
  <2>. DEFINE u == call[r].who
              w == call[r].arg
  <2>1. u \in Users /\ w \in Liked /\ u \in likeRows[w] /\ On(r, "unlike")
    BY <1>3, Fitting DEF CommitUnlike, On, PcFits, KindFits, LikeInv
  <2>2. /\ call'[r].pc = "done" /\ \A q \in Requests \ {r} : call'[q] = call[q]
    BY <1>3, DoneSets DEF CommitUnlike, Becomes
  <2>3. likeRows[w] \in SUBSET Users /\ likes[w] \in Nat
    BY <2>1 DEF LikeInv
  <2>4. /\ Cardinality(likeRows[w]) \in Nat /\ Cardinality(likeRows[w]) >= 1
        /\ Cardinality(likeRows[w] \ {u}) = Cardinality(likeRows[w]) - 1
    BY <2>1, <2>3, RowsCounted
  <2>5. likes[w] >= Cardinality(likeRows[w])
    BY <2>1, <2>3, <2>4 DEF LikeInv, LikesCoverRows, Liked
  <2>10. likes[w] > 0 /\ likes[w] - 1 \in Nat
    BY <2>3, <2>4, <2>5
  <2>6. likes' = [likes EXCEPT ![w] = likes[w] - 1]
    BY <1>3, <2>1, <2>10 DEF CommitUnlike, LikeInv
  <2>7. /\ likeRows'[w] = likeRows[w] \ {u} /\ likes'[w] = likes[w] - 1
        /\ \A x \in Liked \ {w} : likeRows'[x] = likeRows[x] /\ likes'[x] = likes[x]
        /\ likeRows' \in [Liked -> SUBSET Users] /\ likes' \in [Liked -> Nat]
    BY <1>3, <2>1, <2>3, <2>6, <2>10 DEF CommitUnlike, LikeInv
  <2>8. LikesCoverRows'
    <3>1. CASE w = "build"
      BY <2>3, <2>4, <2>7, <3>1 DEF LikeInv, LikesCoverRows, Liked
    <3>2. CASE w = "post"
      <4>1. likes'["post"] >= Cardinality(likeRows'["post"])
        <5>1. Cardinality(likeRows'[w]) = Cardinality(likeRows[w]) - 1
          BY <2>4, <2>7
        <5>2. likes'[w] >= Cardinality(likeRows'[w])
          BY <2>3, <2>4, <2>5, <2>7, <5>1
        <5>. QED
          BY <3>2, <5>2
      <4>2. likes'["build"] = likes["build"] /\ likeRows'["build"] = likeRows["build"]
        BY <2>7, <3>2 DEF Liked
      <4>. QED
        BY <4>1, <4>2 DEF LikeInv, LikesCoverRows
    <3>. QED
      BY <2>1, <3>1, <3>2 DEF Liked
  <2>9. \A q \in Requests : On(q, "unlike")' => call'[q].who \in likeRows'[call'[q].arg]
    <3>1. ASSUME NEW q \in Requests, On(q, "unlike")'
          PROVE  /\ q # r /\ call'[q] = call[q] /\ call[q].arg \in Liked
                 /\ call[q].who \in likeRows[call[q].arg]
                 /\ ~(call[q].who = u /\ call[q].arg = w)
      BY <2>1, <2>2, <3>1, Fitting DEF On, PcFits, KindFits, LikeInv
    <3>. QED
      BY <2>7, <3>1
  <2>. QED
    BY <2>2, <2>7, <2>8, <2>9 DEF LikeInv, On
<1>. QED
  BY <1>1, <1>2, <1>3 DEF LikeStep

LEMMA ViewSteps ==
    ASSUME ViewInv, View \/ DrainRead \/ DrainAdd \/ DrainDel
    PROVE  ViewInv'
<1>1. CASE View
  BY <1>1 DEF View, ViewInv
<1>2. CASE DrainRead
  BY <1>2 DEF DrainRead, ViewInv
<1>3. CASE DrainAdd
  BY <1>3 DEF DrainAdd, ViewInv
<1>4. CASE DrainDel
  <2>1. drain' = [pc |-> "idle", count |-> 0] /\ UNCHANGED <<views, viewCount>> /\ drain.pc = "del"
    BY <1>4 DEF DrainDel
  <2>2. CASE counter' = 0 /\ UNCHANGED undrained
    <3>1. ~undrained => viewCount <= views
      BY <2>1 DEF ViewInv
    <3>. QED
      BY <2>1, <2>2, <3>1 DEF ViewInv
  <2>3. CASE undrained' = TRUE /\ UNCHANGED counter
    BY <2>1, <2>3 DEF ViewInv
  <2>. QED
    BY <1>4, <2>2, <2>3 DEF DrainDel
<1>. QED
  BY <1>1, <1>2, <1>3, <1>4

----------------------------------------------------------------------------
\* Discussion.

\* Threads and what has been said are not taken back: what a request knows stays true.
DiscussionGrows ==
    /\ commented <= commented' /\ changes <= changes'
    /\ \A w \in Places : thread[w].state # "none" =>
         thread'[w].state # "none" /\ thread'[w].owner = thread[w].owner
    /\ \A c \in comments' : c \in comments \/ c.id > commented

LEMMA DiscussionKnownStays ==
    ASSUME CallsFit, DiscussionInv, ThreadsFit', DiscussionGrows, NEW q \in Requests, call'[q] = call[q]
    PROVE  DiscussionKnown(q)'
<1>1. DiscussionKnown(q) /\ PcFits(call[q]) /\ KindFits(call[q])
  BY Fitting DEF DiscussionInv
<1>2. call[q].pc \in {"comment", "tell"} => call[q].arg \in Places
  BY <1>1 DEF PcFits, KindFits
<1>3. (call[q].pc \in {"comment", "tell"} =>
         /\ thread[call[q].arg].state # "none"
         /\ call[q].arg = "ticket" => call[q].who \in Staff \/ call[q].who = Owner("ticket"))'
  BY <1>1, <1>2 DEF DiscussionKnown, DiscussionGrows, Owner
<1>4. commented \in Nat /\ commented' \in Nat /\ changes \in Nat /\ changes' \in Nat
  BY DEF DiscussionInv, ThreadsFit
<1>5. (On(q, "tell") =>
         /\ call[q].got \in 1..commented
         /\ \A c \in comments : c.id = call[q].got => call[q].who = c.by /\ call[q].arg = c.on)'
  BY <1>1, <1>4 DEF DiscussionKnown, DiscussionGrows, On
<1>6. (On(q, "tell_status") => call[q].got \in 1..changes)'
  BY <1>1, <1>4 DEF DiscussionKnown, DiscussionGrows, On
<1>7. (On(q, "delete_post") => thread["post"].state # "none")' /\ (On(q, "status") => call[q].got \in States)'
  BY <1>1 DEF DiscussionKnown, DiscussionGrows, On, Places
<1>. QED
  BY <1>3, <1>5, <1>6, <1>7 DEF DiscussionKnown

LEMMA SilentKnowsNothing ==
    ASSUME NEW q \in Requests,
           call'[q].pc \notin {"comment", "tell", "status", "tell_status", "delete_post"}
    PROVE  DiscussionKnown(q)'
  BY DEF DiscussionKnown, On

LEMMA DiscussionElsewhere ==
    ASSUME CallsFit, CallsFit', DiscussionInv, NEW K, K \cap {"comment", "status", "edit"} = {}, Only(K),
           UNCHANGED discussion
    PROVE  DiscussionInv'
<1>1. UNCHANGED <<thread, comments, commented, inbox, changes>>
  BY DEF discussion
<1>2. ThreadsFit' /\ CommentsFit' /\ InboxFits'
  BY <1>1 DEF DiscussionInv, ThreadsFit, CommentsFit, InboxFits, Owner, Exists
<1>3. DiscussionGrows
  BY <1>1 DEF DiscussionGrows, DiscussionInv, ThreadsFit
<1>4. ASSUME NEW q \in Requests
      PROVE  DiscussionKnown(q)'
  <2>1. CASE call'[q] = call[q]
    BY <1>2, <1>3, <2>1, DiscussionKnownStays
  <2>2. CASE call'[q] # call[q]
    <3>1. call'[q].kind \notin {"comment", "status", "edit"}
      BY <2>2 DEF Only
    <3>2. call'[q].pc \notin {"comment", "tell", "status", "tell_status", "delete_post"}
      BY <3>1, FittingNext DEF PcFits
    <3>. QED
      BY <3>2, SilentKnowsNothing
  <2>. QED
    BY <2>1, <2>2
<1>. QED
  BY <1>2, <1>4 DEF DiscussionInv

\* Notifications and the requests that are about to make them stay, or nobody is to be told.
LEMMA NewsStays ==
    ASSUME NewsInv, UNCHANGED faults, comments' \subseteq comments, UNCHANGED changes,
           \A q \in Requests : call[q].pc \in {"tell", "tell_status"} => call'[q] = call[q],
           \A w : Owner(w)' = Owner(w), Exists("ticket")' => Exists("ticket"),
           \A c \in comments' : \A u : Told(u, "comment", c.id) => Told(u, "comment", c.id)',
           Exists("ticket")' => \A i, u : Told(u, "status", i) => Told(u, "status", i)'
    PROVE  NewsInv'
<1>. SUFFICES ASSUME faults' = 0
              PROVE  /\ \A c \in comments' : CommentHeard(c)' \/ Telling("tell", c.on, c.by, c.id)'
                     /\ Exists("ticket")' /\ Owner("ticket")' \notin Staff =>
                          \A i \in 1..changes' : StatusHeard(i)' \/ Telling("tell_status", "ticket", Nobody, i)'
  BY DEF NewsInv
<1>1. /\ \A c \in comments : CommentHeard(c) \/ Telling("tell", c.on, c.by, c.id)
      /\ Exists("ticket") /\ Owner("ticket") \notin Staff =>
           \A i \in 1..changes : StatusHeard(i) \/ Telling("tell_status", "ticket", Nobody, i)
  BY DEF NewsInv
<1>2. \A pc \in {"tell", "tell_status"} : \A w, by, id : Telling(pc, w, by, id) => Telling(pc, w, by, id)'
  BY DEF Telling, On
<1>3. \A c \in comments' : CommentHeard(c) => CommentHeard(c)'
  BY DEF CommentHeard
<1>4. Exists("ticket")' => \A i : StatusHeard(i) => StatusHeard(i)'
  BY DEF StatusHeard
<1>. QED
  BY <1>1, <1>2, <1>3, <1>4


LEMMA DiscussionGoesOn ==
    ASSUME CallsFit, DiscussionInv, ThreadsFit', CommentsFit', InboxFits', DiscussionGrows,
           NEW r \in Requests, \A q \in Requests \ {r} : call'[q] = call[q], DiscussionKnown(r)'
    PROVE  DiscussionInv'
  BY DiscussionKnownStays DEF DiscussionInv

\* A step that changes no table of the discussion.
LEMMA NothingSaid ==
    ASSUME CallsFit, DiscussionInv, UNCHANGED discussion
    PROVE  /\ ThreadsFit' /\ CommentsFit' /\ InboxFits' /\ DiscussionGrows
           /\ NewsInv /\ UNCHANGED faults
              /\ (\A q \in Requests : call[q].pc \in {"tell", "tell_status"} => call'[q] = call[q]) => NewsInv'
<1>1. UNCHANGED <<thread, comments, commented, inbox, changes>>
  BY DEF discussion
<1>2. ThreadsFit' /\ CommentsFit' /\ InboxFits'
  BY <1>1 DEF DiscussionInv, ThreadsFit, CommentsFit, InboxFits, Owner, Exists
<1>3. DiscussionGrows
  BY <1>1 DEF DiscussionGrows, DiscussionInv, ThreadsFit
<1>4. ASSUME NewsInv, UNCHANGED faults,
             \A q \in Requests : call[q].pc \in {"tell", "tell_status"} => call'[q] = call[q]
      PROVE  NewsInv'
  <2>1. /\ \A w : Owner(w)' = Owner(w)
        /\ Exists("ticket")' <=> Exists("ticket")
        /\ \A u, k, i : Told(u, k, i) => Told(u, k, i)'
    BY <1>1 DEF Owner, Exists, Told
  <2>. QED
    BY <1>1, <1>4, <2>1, NewsStays
<1>. QED
  BY <1>2, <1>3, <1>4

\* With comments go the notifications about them, and no others.
LEMMA Removal ==
    ASSUME DiscussionInv, NEW S \in SUBSET comments, comments' = comments \ S, inbox' \subseteq inbox,
           \A n \in inbox : n.kind = "comment" => (n \in inbox' <=> n \notin About(S))
    PROVE  /\ InboxFits'
           /\ \A c \in comments' : \A u : Told(u, "comment", c.id) => Told(u, "comment", c.id)'
<1>1. ASSUME NEW n \in inbox', n.kind = "comment"
      PROVE  \E c \in comments' : c.id = n.id
  <2>1. PICK c \in comments : c.id = n.id
    BY <1>1 DEF DiscussionInv, InboxFits
  <2>2. c \notin S
    BY <1>1, <2>1 DEF About
  <2>. QED
    BY <2>1, <2>2
<1>2. ASSUME NEW c \in comments', NEW u, Told(u, "comment", c.id)
      PROVE  Told(u, "comment", c.id)'
  <2>1. PICK n \in inbox : n.to = u /\ n.kind = "comment" /\ n.id = c.id
    BY <1>2 DEF Told
  <2>2. n \notin About(S)
    BY <2>1 DEF About, DiscussionInv, CommentsFit
  <2>. QED
    BY <2>1, <2>2 DEF Told
<1>. QED
  BY <1>1, <1>2 DEF DiscussionInv, InboxFits

LEMMA RemoveKeeps ==
    ASSUME DiscussionInv, NewsInv, UNCHANGED <<faults, commented, changes>>, NEW w \in Places,
           thread[w].state # "none", Remove(w),
           \A q \in Requests : call[q].pc \in {"tell", "tell_status"} => call'[q] = call[q]
    PROVE  ThreadsFit' /\ CommentsFit' /\ InboxFits' /\ DiscussionGrows /\ NewsInv'
<1>. DEFINE S == {c \in comments : c.on = w}
<1>1. /\ comments' = comments \ S
      /\ inbox' = {n \in inbox : n \notin About(S) /\ ~(w = "ticket" /\ n.kind # "comment")}
      /\ thread' = [thread EXCEPT ![w].state = "deleted"]
  BY DEF Remove
<1>2. /\ thread \in [Places -> [owner : Users \cup {Nobody}, state : States \cup {"none", "deleted"}]]
      /\ thread'[w].state = "deleted" /\ thread'[w].owner = thread[w].owner
      /\ \A x \in Places \ {w} : thread'[x] = thread[x]
      /\ thread' \in [Places -> [owner : Users \cup {Nobody}, state : States \cup {"none", "deleted"}]]
  BY <1>1 DEF DiscussionInv, ThreadsFit
<1>3. ThreadsFit'
  <2>1. \A x \in Places : thread'[x].owner = Nobody <=> thread'[x].state = "none"
    BY <1>2 DEF DiscussionInv, ThreadsFit, Owner
  <2>2. thread'["ticket"].state = "none" => changes' = 0
    BY <1>2 DEF DiscussionInv, ThreadsFit, Places
  <2>. QED
    BY <1>2, <2>1, <2>2 DEF DiscussionInv, ThreadsFit, Owner
<1>4. CommentsFit'
  <2>1. \A c \in comments' : c \in comments /\ c.on # w /\ c.on \in Places
    BY <1>1 DEF DiscussionInv, CommentsFit
  <2>. QED
    BY <1>2, <2>1 DEF DiscussionInv, CommentsFit, Exists, Owner
<1>5. /\ InboxFits'
      /\ \A c \in comments' : \A u : Told(u, "comment", c.id) => Told(u, "comment", c.id)'
  BY <1>1, Removal
<1>6. DiscussionGrows
  BY <1>1, <1>2 DEF DiscussionGrows, DiscussionInv, ThreadsFit
<1>7. \A x : Owner(x)' = Owner(x)
  BY <1>1 DEF Owner, DiscussionInv, ThreadsFit
<1>8. (Exists("ticket")' => Exists("ticket")) /\ (Exists("ticket")' => w # "ticket")
  BY <1>2 DEF Exists, States, Places
<1>9. w # "ticket" => \A i, u : Told(u, "status", i) => Told(u, "status", i)'
  BY <1>1 DEF Told, About
<1>10. NewsInv'
  BY <1>1, <1>5, <1>7, <1>8, <1>9, NewsStays
<1>. QED
  BY <1>3, <1>4, <1>5, <1>6, <1>10

LEMMA ThreadSteps ==
    ASSUME CallsFit, DiscussionInv, NewsInv, NEW r \in Requests,
           Open(r) \/ DeleteTicket(r) \/ UpdatePost(r) \/ DeletePost(r)
    PROVE  DiscussionInv' /\ NewsInv'
<1>1. CASE DeleteTicket(r)
  <2>1. PICK u \in Users : Becomes(r, "done", "delete", u, "ticket", Nobody)
    BY <1>1, BeginSets, DiscussionAssumption DEF DeleteTicket, Begin
  <2>2. On(r, "idle") /\ call'[r].pc = "done" /\ \A q \in Requests \ {r} : call'[q] = call[q]
    BY <1>1, <2>1 DEF Becomes, DeleteTicket, Begin, BeginWith
  <2>3. thread["ticket"].state # "none" /\ "ticket" \in Places
    BY <1>1 DEF DeleteTicket, Exists, States, Places
  <2>4. ThreadsFit' /\ CommentsFit' /\ InboxFits' /\ DiscussionGrows /\ NewsInv'
    BY <1>1, <2>2, <2>3, RemoveKeeps DEF DeleteTicket, On
  <2>. QED
    BY <2>2, <2>4, DiscussionGoesOn, SilentKnowsNothing
<1>2. CASE DeletePost(r)
  <2>1. On(r, "delete_post") /\ call'[r].pc = "done" /\ \A q \in Requests \ {r} : call'[q] = call[q]
    BY <1>2, DoneSets DEF DeletePost, Becomes
  <2>2. thread["post"].state # "none" /\ "post" \in Places
    BY <2>1 DEF DiscussionInv, DiscussionKnown, Places
  <2>3. ThreadsFit' /\ CommentsFit' /\ InboxFits' /\ DiscussionGrows /\ NewsInv'
    BY <1>2, <2>1, <2>2, RemoveKeeps DEF DeletePost, On
  <2>. QED
    BY <2>1, <2>3, DiscussionGoesOn, SilentKnowsNothing
<1>3. CASE UpdatePost(r)
  <2>1. On(r, "update_post") /\ call'[r].pc = "done" /\ \A q \in Requests \ {r} : call'[q] = call[q]
    BY <1>3, DoneSets DEF UpdatePost, Becomes
  <2>2. UNCHANGED <<faults, comments, commented, inbox, changes>>
    BY <1>3 DEF UpdatePost
  <2>3. /\ thread' \in [Places -> [owner : Users \cup {Nobody}, state : States \cup {"none", "deleted"}]]
        /\ \A w \in Places : /\ thread'[w].owner = thread[w].owner
                             /\ thread'[w].state = thread[w].state \/ (Exists(w) /\ thread'[w].state = "changed")
        /\ thread'["ticket"] = thread["ticket"]
    <3>1. CASE thread' = thread
      BY <3>1 DEF DiscussionInv, ThreadsFit
    <3>2. CASE Exists("post") /\ thread' = [thread EXCEPT !["post"].state = "changed"]
      BY <3>2 DEF DiscussionInv, ThreadsFit, Places, States
    <3>. QED
      BY <1>3, <3>1, <3>2 DEF UpdatePost
  <2>4. \A w \in Places : /\ thread'[w].state = "none" <=> thread[w].state = "none"
                          /\ Exists(w)' <=> Exists(w)
                          /\ Owner(w)' = Owner(w)
    BY <2>3 DEF Exists, States, Owner
  <2>5. ThreadsFit'
    BY <2>2, <2>3, <2>4 DEF DiscussionInv, ThreadsFit
  <2>6. CommentsFit' /\ InboxFits'
    BY <2>2, <2>4 DEF DiscussionInv, CommentsFit, InboxFits, Places
  <2>7. DiscussionGrows
    BY <2>2, <2>3, <2>4 DEF DiscussionGrows, DiscussionInv, ThreadsFit
  <2>8. \A w : Owner(w)' = Owner(w)
    BY <1>3 DEF UpdatePost, Owner, DiscussionInv, ThreadsFit
  <2>9. /\ \A q \in Requests : call[q].pc \in {"tell", "tell_status"} => call'[q] = call[q]
        /\ \A u, k, i : Told(u, k, i) => Told(u, k, i)'
    BY <2>1, <2>2 DEF On, Told
  <2>10. NewsInv'
    BY <2>2, <2>4, <2>8, <2>9, NewsStays DEF Places
  <2>. QED
    BY <2>1, <2>5, <2>6, <2>7, <2>10, DiscussionGoesOn, SilentKnowsNothing
<1>4. CASE Open(r)
  <2>1. PICK u \in Users, w \in Places :
            /\ thread[w].state = "none"
            /\ Begin(r, IF w = "ticket" THEN "tell_staff" ELSE "done", "open", u, w)
            /\ thread' = [thread EXCEPT ![w] = [owner |-> u, state |-> "first"]]
    BY <1>4 DEF Open
  <2>2. /\ On(r, "idle") /\ call'[r].pc \in {"tell_staff", "done"}
        /\ \A q \in Requests \ {r} : call'[q] = call[q]
    <3>1. PICK pc \in {"tell_staff", "done"} : BeginWith(r, pc, "open", u, w, Nobody)
      BY <2>1 DEF Begin
    <3>2. On(r, "idle") /\ Becomes(r, pc, "open", u, w, Nobody)
      BY <3>1, BeginSets
    <3>. QED
      BY <3>1, <3>2 DEF Becomes
  <2>3. UNCHANGED <<faults, comments, commented, inbox, changes>>
    BY <1>4 DEF Open
  <2>4. /\ thread' \in [Places -> [owner : Users \cup {Nobody}, state : States \cup {"none", "deleted"}]]
        /\ thread'[w] = [owner |-> u, state |-> "first"]
        /\ \A x \in Places \ {w} : thread'[x] = thread[x]
    BY <2>1 DEF DiscussionInv, ThreadsFit, States
  <2>5. ThreadsFit'
    BY <2>1, <2>3, <2>4, AccountsAssumption DEF DiscussionInv, ThreadsFit, Owner
  <2>6. \A c \in comments : c.on \in Places /\ c.on # w
    BY <2>1 DEF DiscussionInv, CommentsFit, Exists, States
  <2>7. CommentsFit' /\ InboxFits'
    BY <2>3, <2>4, <2>6 DEF DiscussionInv, CommentsFit, InboxFits, Exists, Owner
  <2>8. DiscussionGrows
    BY <2>1, <2>3, <2>4 DEF DiscussionGrows, DiscussionInv, ThreadsFit
  <2>9. NewsInv'
    <3>. SUFFICES ASSUME faults' = 0
                  PROVE  /\ \A c \in comments' : CommentHeard(c)' \/ Telling("tell", c.on, c.by, c.id)'
                         /\ Exists("ticket")' /\ Owner("ticket")' \notin Staff =>
                              \A i \in 1..changes' : StatusHeard(i)' \/ Telling("tell_status", "ticket", Nobody, i)'
      BY DEF NewsInv
    <3>1. \A pc \in {"tell", "tell_status"} : \A x, by, id : Telling(pc, x, by, id) => Telling(pc, x, by, id)'
      BY <2>2 DEF Telling, On
    <3>2. \A v, k, i : Told(v, k, i)' <=> Told(v, k, i)
      BY <2>3 DEF Told
    <3>3. \A c \in comments : CommentHeard(c) => CommentHeard(c)'
      BY <2>4, <2>6, <3>2 DEF CommentHeard, Owner
    <3>4. CASE w = "ticket"
      <4>1. changes' = 0
        BY <2>1, <2>3, <3>4 DEF DiscussionInv, ThreadsFit
      <4>2. 1..changes' = {}
        BY <4>1
      <4>. QED
        BY <2>3, <3>1, <3>3, <4>2 DEF NewsInv
    <3>5. CASE w # "ticket"
      <4>1. (Exists("ticket")' <=> Exists("ticket")) /\ Owner("ticket")' = Owner("ticket")
        BY <2>4, <3>5 DEF Exists, Owner, Places
      <4>. QED
        BY <2>3, <3>1, <3>2, <3>3, <4>1 DEF NewsInv, StatusHeard
    <3>. QED
      BY <3>4, <3>5
  <2>. QED
    BY <2>2, <2>5, <2>7, <2>8, <2>9, DiscussionGoesOn, SilentKnowsNothing
<1>. QED
  BY <1>1, <1>2, <1>3, <1>4


LEMMA AskSteps ==
    ASSUME CallsFit, DiscussionInv, NewsInv, NEW r \in Requests,
           AskComment(r) \/ Status(r) \/ EditPermission(r)
    PROVE  DiscussionInv' /\ NewsInv'
<1>1. UNCHANGED discussion /\ UNCHANGED faults
  BY DEF AskComment, Status, EditPermission
<1>2. ASSUME On(r, "idle"), \A q \in Requests \ {r} : call'[q] = call[q], DiscussionKnown(r)'
      PROVE  DiscussionInv' /\ NewsInv'
  BY <1>1, <1>2, NothingSaid, DiscussionGoesOn DEF On
<1>3. CASE AskComment(r)
  <2>1. PICK u \in Users, w \in Places :
            /\ Exists(w) /\ MayComment(u, w)
            /\ BeginWith(r, "comment", "comment", u, w, Nobody)
    BY <1>3 DEF AskComment, Begin
  <2>2. On(r, "idle") /\ Becomes(r, "comment", "comment", u, w, Nobody)
    BY <2>1, BeginSets
  <2>3. /\ call'[r].pc = "comment" /\ call'[r].who = u /\ call'[r].arg = w
        /\ \A q \in Requests \ {r} : call'[q] = call[q]
    BY <2>2 DEF Becomes
  <2>4. /\ thread'[w].state # "none" 
        /\ w = "ticket" => u \in Staff \/ u = Owner("ticket")'
    BY <1>1, <2>1 DEF discussion, Exists, States, MayComment, Owner
  <2>5. DiscussionKnown(r)'
    BY <2>3, <2>4 DEF DiscussionKnown, On
  <2>. QED
    BY <1>2, <2>2, <2>3, <2>5
<1>4. CASE Status(r)
  <2>1. PICK u \in Staff, s \in States : BeginWith(r, "status", "status", u, "ticket", s)
    BY <1>4 DEF Status
  <2>2. On(r, "idle") /\ Becomes(r, "status", "status", u, "ticket", s)
    BY <2>1, BeginSets
  <2>3. call'[r].pc = "status" /\ call'[r].got = s /\ \A q \in Requests \ {r} : call'[q] = call[q]
    BY <2>2 DEF Becomes
  <2>4. DiscussionKnown(r)'
    BY <2>3 DEF DiscussionKnown, On
  <2>. QED
    BY <1>2, <2>2, <2>3, <2>4
<1>5. CASE EditPermission(r)
  <2>1. \E u, got : \E pc \in {"update_post", "delete_post", "delete_comment"} :
            /\ BeginWith(r, pc, "edit", u, "post", got)
            /\ pc = "delete_post" => Exists("post")
    BY <1>5 DEF EditPermission, Begin
  <2>2. PICK u, got : \E pc \in {"update_post", "delete_post", "delete_comment"} :
            /\ BeginWith(r, pc, "edit", u, "post", got)
            /\ pc = "delete_post" => Exists("post")
    BY <2>1
  <2>3. PICK pc \in {"update_post", "delete_post", "delete_comment"} :
            /\ BeginWith(r, pc, "edit", u, "post", got)
            /\ pc = "delete_post" => Exists("post")
    BY <2>2
  <2>4. On(r, "idle") /\ Becomes(r, pc, "edit", u, "post", got)
    BY <2>3, BeginSets
  <2>5. call'[r].pc = pc /\ \A q \in Requests \ {r} : call'[q] = call[q]
    BY <2>4 DEF Becomes
  <2>6. DiscussionKnown(r)'
    BY <1>1, <2>3, <2>5 DEF DiscussionKnown, On, Exists, States, discussion
  <2>. QED
    BY <1>2, <2>4, <2>5, <2>6
<1>. QED
  BY <1>3, <1>4, <1>5

\* Notifications are added or marked as read, and stay about what they are about.
LEMMA InboxGrows ==
    ASSUME DiscussionInv, UNCHANGED <<thread, comments, commented, changes>>,
           \A n \in inbox' : n \in Notes,
           \A n \in inbox' : n.kind = "comment" => \E c \in comments : c.id = n.id
    PROVE  ThreadsFit' /\ CommentsFit' /\ InboxFits' /\ DiscussionGrows
<1>1. ThreadsFit' /\ CommentsFit'
  BY DEF DiscussionInv, ThreadsFit, CommentsFit, Owner, Exists
<1>2. InboxFits'
  BY DEF InboxFits
<1>3. DiscussionGrows
  BY DEF DiscussionGrows, DiscussionInv, ThreadsFit
<1>. QED
  BY <1>1, <1>2, <1>3

LEMMA NewsFits ==
    ASSUME NEW to, to \subseteq Users, NEW kind \in NoteKinds, NEW id \in Nat
    PROVE  /\ \A n \in News(to, kind, id) :
                /\ n \in Notes
                /\ n.kind = kind /\ n.id = id
           /\ \A u \in to : \E n \in News(to, kind, id) : n.to = u /\ n.kind = kind /\ n.id = id
<1>. DEFINE item(u) == [to |-> u, kind |-> kind, id |-> id, read |-> FALSE]
<1>1. News(to, kind, id) = {item(u) : u \in to}
  BY DEF News
<1>2. \A u \in to : /\ item(u) \in Notes
                    /\ item(u).to = u /\ item(u).kind = kind /\ item(u).id = id
  BY DEF Notes
<1>. HIDE DEF item
<1>. QED
  BY <1>1, <1>2

LEMMA DeleteCommentKeeps ==
    ASSUME CallsFit, DiscussionInv, NewsInv, NEW r \in Requests, DeleteComment(r)
    PROVE  DiscussionInv' /\ NewsInv'
<1>1. On(r, "delete_comment") /\ call'[r].pc = "done" /\ \A q \in Requests \ {r} : call'[q] = call[q]
  BY DoneSets DEF DeleteComment, Becomes
<1>2. UNCHANGED <<faults, thread, commented, changes>>
  BY DEF DeleteComment
<1>3. PICK S \in SUBSET comments : comments' = comments \ S /\ inbox' = inbox \ About(S)
  <2>1. CASE call[r].got \in comments
    <3>1. Subtree(call[r].got) \in SUBSET comments
      BY DEF Subtree
    <3>. QED
      BY <2>1, <3>1 DEF DeleteComment
  <2>2. CASE call[r].got \notin comments
    <3>1. About({}) = {}
      BY DEF About
    <3>. QED
      BY <2>2, <3>1 DEF DeleteComment
  <2>. QED
    BY <2>1, <2>2
<1>4. /\ InboxFits'
      /\ \A c \in comments' : \A u : Told(u, "comment", c.id) => Told(u, "comment", c.id)'
  BY <1>3, Removal
<1>5. ThreadsFit' /\ CommentsFit' /\ DiscussionGrows
  BY <1>2, <1>3 DEF DiscussionInv, ThreadsFit, CommentsFit, DiscussionGrows, Owner, Exists
<1>6. /\ \A w : Owner(w)' = Owner(w)
      /\ Exists("ticket")' <=> Exists("ticket")
      /\ \A i, u : Told(u, "status", i) => Told(u, "status", i)'
  BY <1>2, <1>3 DEF Owner, Exists, Told, About
<1>7. NewsInv'
  BY <1>1, <1>2, <1>3, <1>4, <1>6, NewsStays DEF On
<1>. QED
  BY <1>1, <1>4, <1>5, <1>7, DiscussionGoesOn, SilentKnowsNothing

LEMMA MarkReadKeeps ==
    ASSUME CallsFit, DiscussionInv, NewsInv, NEW u \in Users, ReadNotification(u) \/ ReadAll(u)
    PROVE  DiscussionInv' /\ NewsInv'
<1>1. PICK some : MarkRead(u, some)
  BY DEF ReadNotification, ReadAll
<1>2. UNCHANGED <<call, faults, thread, comments, commented, changes>>
  BY <1>1 DEF MarkRead, accountVars
<1>. DEFINE mark(n) == IF n \in some /\ n.to = u THEN [n EXCEPT !.read = TRUE] ELSE n
<1>3. inbox' = {mark(n) : n \in inbox}
  BY <1>1 DEF MarkRead
<1>4. \A n \in Notes : mark(n) \in Notes /\ mark(n).to = n.to /\ mark(n).kind = n.kind /\ mark(n).id = n.id
  BY DEF Notes
<1>5. \A n \in inbox : n \in Notes
  BY DEF DiscussionInv, InboxFits
<1>. HIDE DEF mark
<1>6. ThreadsFit' /\ CommentsFit' /\ InboxFits' /\ DiscussionGrows
  <2>1. \A n \in inbox' : n \in Notes
    BY <1>3, <1>4, <1>5
  <2>2. \A n \in inbox' : n.kind = "comment" => \E c \in comments : c.id = n.id
    BY <1>3, <1>4, <1>5 DEF DiscussionInv, InboxFits
  <2>. QED
    BY <1>2, <2>1, <2>2, InboxGrows
<1>7. \A v, k, i : Told(v, k, i) => Told(v, k, i)'
  BY <1>3, <1>4, <1>5 DEF Told
<1>8. NewsInv'
  <2>1. (\A w : Owner(w)' = Owner(w)) /\ (Exists("ticket")' <=> Exists("ticket"))
    BY <1>2 DEF Owner, Exists
  <2>. QED
    BY <1>2, <1>7, <2>1, NewsStays
<1>9. \A q \in Requests : DiscussionKnown(q)'
  BY <1>2, <1>6, DiscussionKnownStays
<1>. QED
  BY <1>6, <1>8, <1>9 DEF DiscussionInv


LEMMA TellStaffKeeps ==
    ASSUME CallsFit, DiscussionInv, NewsInv, NEW r \in Requests, TellStaff(r)
    PROVE  DiscussionInv' /\ NewsInv'
<1>1. On(r, "tell_staff") /\ call'[r].pc = "done" /\ \A q \in Requests \ {r} : call'[q] = call[q]
  BY DoneSets DEF TellStaff, Becomes
<1>2. UNCHANGED <<faults, thread, comments, commented, changes>>
  BY DEF TellStaff
<1>3. PICK more : inbox' = inbox \cup more /\ (more = {} \/ more = News(Staff \ {call[r].who}, "ticket", 0))
  BY DEF TellStaff
<1>4. \A n \in more : /\ n \in Notes
                      /\ n.kind = "ticket"
  <2>1. CASE more = {}
    BY <2>1
  <2>2. CASE more = News(Staff \ {call[r].who}, "ticket", 0)
    <3>1. PICK to : to = Staff \ {call[r].who} /\ to \subseteq Users
      BY DiscussionAssumption
    <3>2. \A n \in News(to, "ticket", 0) : n \in Notes /\ n.kind = "ticket"
      <4>1. "ticket" \in NoteKinds
        BY DEF NoteKinds
      <4>. QED
        BY <3>1, <4>1, NewsFits
    <3>. QED
      BY <2>2, <3>1, <3>2
  <2>. QED
    BY <1>3, <2>1, <2>2
<1>5. ThreadsFit' /\ CommentsFit' /\ InboxFits' /\ DiscussionGrows
  BY <1>2, <1>3, <1>4, InboxGrows DEF DiscussionInv, InboxFits
<1>6. /\ \A w : Owner(w)' = Owner(w)
      /\ Exists("ticket")' <=> Exists("ticket")
      /\ \A u, k, i : Told(u, k, i) => Told(u, k, i)'
  BY <1>2, <1>3 DEF Owner, Exists, Told
<1>7. NewsInv'
  BY <1>1, <1>2, <1>6, NewsStays DEF On
<1>. QED
  BY <1>1, <1>5, <1>7, DiscussionGoesOn, SilentKnowsNothing

\* The new comment is one that its request is about to tell of.
LEMMA CommentKeeps ==
    ASSUME CallsFit, DiscussionInv, NewsInv, NEW r \in Requests, Comment(r)
    PROVE  DiscussionInv' /\ NewsInv'
<1>. DEFINE w == call[r].arg
            u == call[r].who
<1>1. /\ On(r, "comment") /\ u \in Users /\ w \in Places /\ UNCHANGED <<faults, thread, inbox, changes>>
      /\ w = "ticket" => u \in Staff \/ u = Owner("ticket")
  BY Fitting DEF Comment, On, PcFits, KindFits, DiscussionInv, DiscussionKnown
<1>2. CASE Done(r) /\ UNCHANGED <<comments, commented>>
  <2>1. call'[r].pc = "done" /\ \A q \in Requests \ {r} : call'[q] = call[q]
    BY <1>2, DoneSets DEF Becomes
  <2>2. UNCHANGED discussion
    BY <1>1, <1>2 DEF discussion
  <2>3. \A q \in Requests : call[q].pc \in {"tell", "tell_status"} => call'[q] = call[q]
    BY <1>1, <2>1 DEF On
  <2>4. ThreadsFit' /\ CommentsFit' /\ InboxFits' /\ DiscussionGrows /\ NewsInv'
    BY <1>1, <2>2, <2>3, NothingSaid
  <2>. QED
    BY <2>1, <2>4, DiscussionGoesOn, SilentKnowsNothing
<1>3. CASE /\ Exists(w) /\ commented < MaxComments /\ commented' = commented + 1
           /\ Read(r, "tell", commented')
           /\ \E p \in {0} \cup {c.id : c \in {d \in comments : d.on = "post" /\ call[r].arg = "post"}} :
                comments' = comments \cup {[id |-> commented', on |-> w, by |-> u, parent |-> p]}
  <2>1. /\ call'[r].pc = "tell" /\ call'[r].got = commented + 1 /\ call'[r].who = u /\ call'[r].arg = w
        /\ \A q \in Requests \ {r} : call'[q] = call[q]
    <3>1. Becomes(r, "tell", call[r].kind, call[r].who, call[r].arg, commented')
      BY <1>3, ReadSets
    <3>. QED
      BY <1>3, <3>1 DEF Becomes
  <2>2. commented \in Nat /\ commented + 1 \in 0..MaxComments /\ commented' = commented + 1
    BY <1>3, DiscussionAssumption DEF DiscussionInv, ThreadsFit
  <2>3. PICK p \in 0..commented : comments' = comments \cup {[id |-> commented', on |-> w, by |-> u, parent |-> p]}
    BY <1>3, <2>2 DEF DiscussionInv, CommentsFit
  <2>4. PICK new : /\ comments' = comments \cup {new}
                   /\ new.id = commented + 1 /\ new.on = w /\ new.by = u
                   /\ new \in [id : 1..(commented + 1), on : Places, by : Users, parent : 0..(commented + 1)]
    <3>. DEFINE c == [id |-> commented + 1, on |-> w, by |-> u, parent |-> p]
    <3>1. /\ c.id = commented + 1 /\ c.on = w /\ c.by = u
          /\ c \in [id : 1..(commented + 1), on : Places, by : Users, parent : 0..(commented + 1)]
      BY <1>1, <2>2, <2>3
    <3>2. comments' = comments \cup {c}
      BY <2>2, <2>3
    <3>. HIDE DEF c
    <3>. QED
      BY <3>1, <3>2
  <2>5. \A c \in comments : /\ c \in [id : 1..commented, on : Places, by : Users, parent : 0..commented]
                            /\ c.id # commented + 1 /\ c.on \in Places
    BY <2>2 DEF DiscussionInv, CommentsFit
  <2>6. [id : 1..commented, on : Places, by : Users, parent : 0..commented] \subseteq
            [id : 1..(commented + 1), on : Places, by : Users, parent : 0..(commented + 1)]
    BY <2>2
  <2>7. ThreadsFit'
    BY <1>1, <2>2 DEF DiscussionInv, ThreadsFit, Owner
  <2>8. /\ \A x : Owner(x)' = Owner(x)
        /\ \A x : Exists(x)' <=> Exists(x)
        /\ \A v, k, i : Told(v, k, i) <=> Told(v, k, i)'
    BY <1>1 DEF Owner, Exists, Told
  <2>9. CommentsFit'
    <3>1. comments' \subseteq [id : 1..commented', on : Places, by : Users, parent : 0..commented']
      BY <2>2, <2>4, <2>5, <2>6
    <3>2. \A c, d \in comments' : c.id = d.id => c = d
      BY <2>4, <2>5 DEF DiscussionInv, CommentsFit
    <3>3. \A c \in comments' : Exists(c.on)' /\ (c.on = "ticket" => c.by \in Staff \/ c.by = Owner("ticket")')
      BY <1>1, <1>3, <2>4, <2>8 DEF DiscussionInv, CommentsFit
    <3>. QED
      BY <3>1, <3>2, <3>3 DEF CommentsFit
  <2>10. InboxFits'
    BY <1>1, <2>4 DEF DiscussionInv, InboxFits
  <2>11. DiscussionGrows
    BY <1>1, <2>2, <2>4 DEF DiscussionGrows, DiscussionInv, ThreadsFit
  <2>12. DiscussionKnown(r)'
    <3>1. thread'[w].state # "none" /\ (w = "ticket" => u \in Staff \/ u = Owner("ticket")')
      BY <1>1, <1>3, <2>8 DEF Exists, States
    <3>2. \A c \in comments' : c.id = commented + 1 => u = c.by /\ w = c.on
      BY <2>4, <2>5
    <3>3. commented + 1 \in 1..commented'
      BY <2>2
    <3>. QED
      BY <2>1, <3>1, <3>2, <3>3 DEF DiscussionKnown, On
  <2>13. NewsInv'
    <3>. SUFFICES ASSUME faults' = 0
                  PROVE  /\ \A c \in comments' : CommentHeard(c)' \/ Telling("tell", c.on, c.by, c.id)'
                         /\ Exists("ticket")' /\ Owner("ticket")' \notin Staff =>
                              \A i \in 1..changes' : StatusHeard(i)' \/ Telling("tell_status", "ticket", Nobody, i)'
      BY DEF NewsInv
    <3>1. \A pc \in {"tell", "tell_status"} : \A x, by, id : Telling(pc, x, by, id) => Telling(pc, x, by, id)'
      BY <1>1, <2>1 DEF Telling, On
    <3>2. Telling("tell", new.on, new.by, new.id)'
      BY <2>1, <2>4 DEF Telling, On
    <3>3. \A c \in comments : CommentHeard(c) => CommentHeard(c)'
      BY <2>8 DEF CommentHeard
    <3>4. \A c \in comments : CommentHeard(c)' \/ Telling("tell", c.on, c.by, c.id)'
      BY <1>1, <3>1, <3>3 DEF NewsInv
    <3>5. Exists("ticket")' /\ Owner("ticket")' \notin Staff =>
              \A i \in 1..changes' : StatusHeard(i)' \/ Telling("tell_status", "ticket", Nobody, i)'
      BY <1>1, <2>8, <3>1 DEF NewsInv, StatusHeard
    <3>. QED
      BY <2>4, <3>2, <3>4, <3>5
  <2>. QED
    BY <2>1, <2>7, <2>9, <2>10, <2>11, <2>12, <2>13, DiscussionGoesOn
<1>. QED
  BY <1>2, <1>3 DEF Comment


LEMMA TellCommentKeeps ==
    ASSUME CallsFit, DiscussionInv, NewsInv, NEW r \in Requests, TellComment(r)
    PROVE  DiscussionInv' /\ NewsInv'
<1>1. /\ On(r, "tell") /\ call'[r].pc = "done" /\ \A q \in Requests \ {r} : call'[q] = call[q]
      /\ UNCHANGED <<faults, thread, comments, commented, changes>>
  BY DoneSets DEF TellComment, Becomes
<1>2. PICK w, u, id : w = call[r].arg /\ u = call[r].who /\ id = call[r].got
  OBVIOUS
<1>3. /\ u \in Users /\ w \in Places /\ id \in Nat
      /\ thread[w].state # "none" /\ (w = "ticket" => u \in Staff \/ u = Owner("ticket"))
      /\ \A c \in comments : c.id = id => u = c.by /\ w = c.on
  <2>1. commented \in Nat
    BY DEF DiscussionInv, ThreadsFit
  <2>2. call[r].who \in Users /\ call[r].arg \in Places
    BY <1>1, Fitting DEF On, PcFits, KindFits
  <2>. QED
    BY <1>1, <1>2, <2>1, <2>2 DEF DiscussionInv, DiscussionKnown, On
<1>4. Owner(w) \in Users
  BY <1>3 DEF DiscussionInv, ThreadsFit, Owner
<1>5. Audience(u, w) \subseteq Users
  BY <1>4, DiscussionAssumption DEF Audience, Owner
<1>6. PICK more : /\ inbox' = inbox \cup more
                  /\ IF \E c \in comments : c.id = id THEN more = News(Audience(u, w), "comment", id) ELSE more = {}
  BY <1>2 DEF TellComment
<1>7. \A n \in more : /\ n \in Notes
                      /\ n.kind = "comment" /\ n.id = id /\ \E c \in comments : c.id = id
  <2>1. "comment" \in NoteKinds
    BY DEF NoteKinds
  <2>. QED
    BY <1>3, <1>5, <1>6, <2>1, NewsFits
<1>8. ThreadsFit' /\ CommentsFit' /\ InboxFits' /\ DiscussionGrows
  BY <1>1, <1>6, <1>7, InboxGrows DEF DiscussionInv, InboxFits
<1>9. /\ \A x : Owner(x)' = Owner(x)
      /\ \A x : Exists(x)' <=> Exists(x)
      /\ \A v, k, i : Told(v, k, i) => Told(v, k, i)'
  BY <1>1, <1>6 DEF Owner, Exists, Told
<1>10. ASSUME NEW c \in comments, c.id = id
       PROVE  CommentHeard(c)'
  <2>1. \A v \in Audience(u, w) : Told(v, "comment", id)'
    <3>1. \A v \in Audience(u, w) : \E n \in News(Audience(u, w), "comment", id) :
              n.to = v /\ n.kind = "comment" /\ n.id = id
      <4>1. "comment" \in NoteKinds
        BY DEF NoteKinds
      <4>. QED
        BY <1>3, <1>5, <4>1, NewsFits
    <3>2. News(Audience(u, w), "comment", id) \subseteq inbox'
      BY <1>6, <1>10
    <3>. QED
      BY <3>1, <3>2 DEF Told
  <2>2. c.by = u /\ c.on = w
    BY <1>3, <1>10
  <2>3. CASE w = "ticket" /\ u \notin Staff
    <3>1. Audience(u, w) = Staff /\ u = Owner(w)
      BY <1>3, <2>3 DEF Audience
    <3>. QED
      BY <1>9, <1>10, <2>1, <2>2, <3>1 DEF CommentHeard
  <2>4. CASE ~(w = "ticket" /\ u \notin Staff)
    <3>1. Audience(u, w) = {Owner(w)} \ {u}
      BY <2>4 DEF Audience, Owner
    <3>. QED
      BY <1>9, <1>10, <2>1, <2>2, <2>4, <3>1 DEF CommentHeard
  <2>. QED
    BY <2>3, <2>4
<1>11. NewsInv'
  <2>. SUFFICES ASSUME faults' = 0
                PROVE  /\ \A c \in comments' : CommentHeard(c)' \/ Telling("tell", c.on, c.by, c.id)'
                       /\ Exists("ticket")' /\ Owner("ticket")' \notin Staff =>
                            \A i \in 1..changes' : StatusHeard(i)' \/ Telling("tell_status", "ticket", Nobody, i)'
    BY DEF NewsInv
  <2>1. ASSUME NEW c \in comments, c.id # id, Telling("tell", c.on, c.by, c.id)
        PROVE  Telling("tell", c.on, c.by, c.id)'
    BY <1>1, <1>2, <2>1 DEF Telling, On
  <2>2. \A i : Telling("tell_status", "ticket", Nobody, i) => Telling("tell_status", "ticket", Nobody, i)'
    BY <1>1 DEF Telling, On
  <2>3. \A c \in comments : CommentHeard(c) => CommentHeard(c)'
    BY <1>9 DEF CommentHeard
  <2>4. \A c \in comments : CommentHeard(c)' \/ Telling("tell", c.on, c.by, c.id)'
    BY <1>1, <1>10, <2>1, <2>3 DEF NewsInv
  <2>5. Exists("ticket")' /\ Owner("ticket")' \notin Staff =>
            \A i \in 1..changes' : StatusHeard(i)' \/ Telling("tell_status", "ticket", Nobody, i)'
    BY <1>1, <1>9, <2>2 DEF NewsInv, StatusHeard
  <2>. QED
    BY <1>1, <2>4, <2>5
<1>. QED
  BY <1>1, <1>8, <1>11, DiscussionGoesOn, SilentKnowsNothing

LEMMA StatusKeeps ==
    ASSUME CallsFit, DiscussionInv, NewsInv, NEW r \in Requests, SetStatus(r)
    PROVE  DiscussionInv' /\ NewsInv'
<1>1. /\ On(r, "status") /\ call[r].got \in States /\ UNCHANGED <<faults, comments, commented, inbox>>
      /\ changes \in Nat
  BY DEF SetStatus, DiscussionInv, DiscussionKnown, ThreadsFit
<1>2. CASE Done(r) /\ UNCHANGED <<thread, changes>>
  <2>1. call'[r].pc = "done" /\ \A q \in Requests \ {r} : call'[q] = call[q]
    BY <1>2, DoneSets DEF Becomes
  <2>2. UNCHANGED discussion
    BY <1>1, <1>2 DEF discussion
  <2>3. \A q \in Requests : call[q].pc \in {"tell", "tell_status"} => call'[q] = call[q]
    BY <1>1, <2>1 DEF On
  <2>4. ThreadsFit' /\ CommentsFit' /\ InboxFits' /\ DiscussionGrows /\ NewsInv'
    BY <1>1, <2>2, <2>3, NothingSaid
  <2>. QED
    BY <2>1, <2>4, DiscussionGoesOn, SilentKnowsNothing
<1>3. CASE /\ Exists("ticket") /\ changes' = changes + 1 /\ Read(r, "tell_status", changes')
           /\ thread' = [thread EXCEPT !["ticket"].state = call[r].got]
  <2>1. /\ call'[r].pc = "tell_status" /\ call'[r].got = changes + 1
        /\ \A q \in Requests \ {r} : call'[q] = call[q]
    <3>1. Becomes(r, "tell_status", call[r].kind, call[r].who, call[r].arg, changes')
      BY <1>3, ReadSets
    <3>. QED
      BY <1>3, <3>1 DEF Becomes
  <2>2. /\ thread' \in [Places -> [owner : Users \cup {Nobody}, state : States \cup {"none", "deleted"}]]
        /\ thread'["ticket"].state \in States /\ thread["ticket"].state \in States
        /\ \A x \in Places : thread'[x].owner = thread[x].owner
        /\ thread'["post"] = thread["post"]
    BY <1>1, <1>3 DEF DiscussionInv, ThreadsFit, Places, Exists
  <2>3. /\ \A x \in Places : Owner(x)' = Owner(x)
        /\ \A x \in Places : Exists(x)' <=> Exists(x)
        /\ \A x \in Places : thread'[x].state = "none" <=> thread[x].state = "none"
        /\ \A v, k, i : Told(v, k, i)' <=> Told(v, k, i)
    BY <1>1, <2>2 DEF Owner, Exists, Told, Places, States
  <2>4. ThreadsFit'
    BY <1>1, <1>3, <2>2, <2>3 DEF DiscussionInv, ThreadsFit, States
  <2>5. CommentsFit' /\ InboxFits'
    BY <1>1, <2>3 DEF DiscussionInv, CommentsFit, InboxFits, Places
  <2>6. DiscussionGrows
    BY <1>1, <1>3, <2>2, <2>3 DEF DiscussionGrows, DiscussionInv, ThreadsFit
  <2>7. DiscussionKnown(r)'
    BY <1>1, <1>3, <2>1 DEF DiscussionKnown, On
  <2>8. NewsInv'
    <3>. SUFFICES ASSUME faults' = 0
                  PROVE  /\ \A c \in comments' : CommentHeard(c)' \/ Telling("tell", c.on, c.by, c.id)'
                         /\ Exists("ticket")' /\ Owner("ticket")' \notin Staff =>
                              \A i \in 1..changes' : StatusHeard(i)' \/ Telling("tell_status", "ticket", Nobody, i)'
      BY DEF NewsInv
    <3>1. \A pc \in {"tell", "tell_status"} : \A x, by, id : Telling(pc, x, by, id) => Telling(pc, x, by, id)'
      BY <1>1, <2>1 DEF Telling, On
    <3>2. \A i : i = changes + 1 => Telling("tell_status", "ticket", Nobody, i)'
      BY <2>1 DEF Telling, On
    <3>3. \A c \in comments : c.on \in Places
      BY DEF DiscussionInv, CommentsFit
    <3>4. \A c \in comments : CommentHeard(c) => CommentHeard(c)'
      BY <2>3, <3>3 DEF CommentHeard
    <3>5. \A c \in comments : CommentHeard(c)' \/ Telling("tell", c.on, c.by, c.id)'
      BY <1>1, <3>1, <3>4 DEF NewsInv
    <3>6. \A i : StatusHeard(i) => StatusHeard(i)'
      BY <2>3 DEF StatusHeard, Places
    <3>7. Exists("ticket") /\ Owner("ticket") \notin Staff =>
              \A i \in 1..changes : StatusHeard(i)' \/ Telling("tell_status", "ticket", Nobody, i)'
      BY <1>1, <3>1, <3>6 DEF NewsInv
    <3>8. \A i \in 1..changes' : i \in 1..changes \/ i = changes + 1
      BY <1>1, <1>3
    <3>. QED
      BY <1>1, <2>3, <3>2, <3>5, <3>7, <3>8 DEF Places
  <2>. QED
    BY <2>1, <2>4, <2>5, <2>6, <2>7, <2>8, DiscussionGoesOn
<1>. QED
  BY <1>2, <1>3 DEF SetStatus

LEMMA TellStatusKeeps ==
    ASSUME CallsFit, DiscussionInv, NewsInv, NEW r \in Requests, TellStatus(r)
    PROVE  DiscussionInv' /\ NewsInv'
<1>1. /\ On(r, "tell_status") /\ call'[r].pc = "done" /\ \A q \in Requests \ {r} : call'[q] = call[q]
      /\ UNCHANGED <<faults, thread, comments, commented, changes>>
  BY DoneSets DEF TellStatus, Becomes
<1>2. PICK u, id : u = call[r].who /\ id = call[r].got
  OBVIOUS
<1>3. u \in Staff /\ id \in Nat /\ changes \in Nat
  <2>1. changes \in Nat
    BY DEF DiscussionInv, ThreadsFit
  <2>2. call[r].who \in Staff
    BY <1>1, Fitting DEF On, PcFits, KindFits
  <2>. QED
    BY <1>1, <1>2, <2>1, <2>2 DEF DiscussionInv, DiscussionKnown, On
<1>4. PICK more : /\ inbox' = inbox \cup more
                  /\ IF Exists("ticket") THEN more = News({Owner("ticket")} \ {u}, "status", id) ELSE more = {}
  BY <1>2 DEF TellStatus, Owner
<1>5. Exists("ticket") => Owner("ticket") \in Users
  BY DEF DiscussionInv, ThreadsFit, Owner, Exists, States, Places
<1>6. \A n \in more : /\ n \in Notes
                      /\ n.kind = "status"
  <2>1. CASE ~Exists("ticket")
    BY <1>4, <2>1
  <2>2. CASE Exists("ticket")
    <3>1. PICK to : to = {Owner("ticket")} \ {u} /\ to \subseteq Users
      BY <1>5, <2>2
    <3>2. \A n \in News(to, "status", id) : n \in Notes /\ n.kind = "status"
      <4>1. "status" \in NoteKinds
        BY DEF NoteKinds
      <4>. QED
        BY <1>3, <3>1, <4>1, NewsFits
    <3>. QED
      BY <1>4, <2>2, <3>1, <3>2
  <2>. QED
    BY <2>1, <2>2
<1>7. ThreadsFit' /\ CommentsFit' /\ InboxFits' /\ DiscussionGrows
  BY <1>1, <1>4, <1>6, InboxGrows DEF DiscussionInv, InboxFits
<1>8. /\ \A x : Owner(x)' = Owner(x)
      /\ \A x : Exists(x)' <=> Exists(x)
      /\ \A v, k, i : Told(v, k, i) => Told(v, k, i)'
  BY <1>1, <1>4 DEF Owner, Exists, Told
<1>9. Exists("ticket") /\ Owner("ticket") \notin Staff => StatusHeard(id)'
  <2>. SUFFICES ASSUME Exists("ticket"), Owner("ticket") \notin Staff
                PROVE  StatusHeard(id)'
    OBVIOUS
  <2>1. PICK to : to = {Owner("ticket")} \ {u} /\ to \subseteq Users /\ Owner("ticket") \in to
    BY <1>3, <1>5
  <2>3. \A v \in to : \E n \in News(to, "status", id) : n.to = v /\ n.kind = "status" /\ n.id = id
    <3>1. "status" \in NoteKinds
      BY DEF NoteKinds
    <3>. QED
      BY <1>3, <2>1, <3>1, NewsFits
  <2>2. \E n \in more : n.to = Owner("ticket") /\ n.kind = "status" /\ n.id = id
    BY <1>4, <2>1, <2>3
  <2>. QED
    BY <1>4, <1>8, <2>2 DEF StatusHeard, Told
<1>10. NewsInv'
  <2>. SUFFICES ASSUME faults' = 0
                PROVE  /\ \A c \in comments' : CommentHeard(c)' \/ Telling("tell", c.on, c.by, c.id)'
                       /\ Exists("ticket")' /\ Owner("ticket")' \notin Staff =>
                            \A i \in 1..changes' : StatusHeard(i)' \/ Telling("tell_status", "ticket", Nobody, i)'
    BY DEF NewsInv
  <2>1. \A x, by, i : Telling("tell", x, by, i) => Telling("tell", x, by, i)'
    BY <1>1 DEF Telling, On
  <2>2. \A i : i # id /\ Telling("tell_status", "ticket", Nobody, i) => Telling("tell_status", "ticket", Nobody, i)'
    BY <1>1, <1>2 DEF Telling, On
  <2>3. \A c \in comments : CommentHeard(c) => CommentHeard(c)'
    BY <1>8 DEF CommentHeard
  <2>4. \A c \in comments : CommentHeard(c)' \/ Telling("tell", c.on, c.by, c.id)'
    BY <1>1, <2>1, <2>3 DEF NewsInv
  <2>5. \A i : StatusHeard(i) => StatusHeard(i)'
    BY <1>8 DEF StatusHeard
  <2>6. Exists("ticket") /\ Owner("ticket") \notin Staff =>
            \A i \in 1..changes : StatusHeard(i)' \/ Telling("tell_status", "ticket", Nobody, i)'
    BY <1>1, <1>9, <2>2, <2>5 DEF NewsInv
  <2>. QED
    BY <1>1, <1>8, <2>4, <2>6
<1>. QED
  BY <1>1, <1>7, <1>10, DiscussionGoesOn, SilentKnowsNothing

LEMMA DiscussionSteps ==
    ASSUME CallsFit, DiscussionInv, NewsInv, DiscussionStep
    PROVE  DiscussionInv' /\ NewsInv'
  BY ThreadSteps, AskSteps, TellStaffKeeps, CommentKeeps, TellCommentKeeps, StatusKeeps, TellStatusKeeps,
     DeleteCommentKeeps, MarkReadKeeps DEF DiscussionStep

----------------------------------------------------------------------------
\* All steps.

LEMMA FaultsCounted ==
    ASSUME FaultInv, UNCHANGED faults \/ Fault
    PROVE  FaultInv'
  BY AccountsAssumption DEF FaultInv, Fault

Silent == \A q \in Requests : call[q].pc \in {"tell", "tell_status"} => call'[q] = call[q]

\* A request of another family that goes on was not about to tell anything.
LEMMA StepIsSilent ==
    ASSUME CallsFit, NEW r \in Requests, call[r].pc \notin {"tell", "tell_status"},
           \A q \in Requests \ {r} : call'[q] = call[q]
    PROVE  Silent
  BY DEF Silent

LEMMA IdentitySilent == ASSUME CallsFit, IdentityStep PROVE Silent
<1>1. ASSUME NEW r \in Requests, Exchange(r) \/ Look(r) \/ Register(r) \/ CreateSession(r)
      PROVE  Silent
  <2>1. call[r].pc \notin {"tell", "tell_status"}
    BY <1>1 DEF Exchange, Begin, BeginWith, Look, Register, CreateSession, On
  <2>2. \A q \in Requests \ {r} : call'[q] = call[q]
    BY <1>1 DEF CallsFit, Exchange, Begin, BeginWith, Look, Register, CreateSession, Read, To, Done, Refused
  <2>. QED
    BY <2>1, <2>2, StepIsSilent
<1>2. ASSUME UNCHANGED call PROVE Silent
  BY <1>2 DEF Silent
<1>. QED
  BY <1>1, <1>2 DEF IdentityStep, LegacyRegister, Login, Logout

LEMMA TransactionSilent == ASSUME CallsFit, TransactionStep PROVE Silent
<1>1. ASSUME NEW r \in Requests, Consume(r) \/ GetTxn(r) \/ DelTxn(r) \/ ReleaseTxn(r)
      PROVE  Silent
  <2>1. call[r].pc \notin {"tell", "tell_status"}
    BY <1>1 DEF Consume, Begin, BeginWith, GetTxn, DelTxn, ReleaseTxn, On
  <2>2. \A q \in Requests \ {r} : call'[q] = call[q]
    BY <1>1 DEF CallsFit, Consume, Begin, BeginWith, GetTxn, DelTxn, ReleaseTxn, Read, To, Done
  <2>. QED
    BY <2>1, <2>2, StepIsSilent
<1>2. ASSUME UNCHANGED call PROVE Silent
  BY <1>2 DEF Silent
<1>. QED
  BY <1>1, <1>2 DEF TransactionStep, CreateTxn, LeaseOver, TxnOver

LEMMA LinkSilent == ASSUME CallsFit, LinkStep PROVE Silent
<1>1. ASSUME NEW r \in Requests,
             \/ AskLink(r) \/ LinkTaken(r) \/ CreateLink(r) \/ CheckLink(r) \/ DropLink(r)
             \/ Loadouts(r) \/ MissingCode(r) \/ OtherAccount(r) \/ CommitLink(r)
      PROVE  Silent
  <2>1. call[r].pc \notin {"tell", "tell_status"}
    BY <1>1 DEF AskLink, LinkTaken, CreateLink, CheckLink, DropLink, Loadouts, MissingCode, OtherAccount,
                CommitLink, Begin, BeginWith, On
  <2>2. \A q \in Requests \ {r} : call'[q] = call[q]
    BY <1>1 DEF CallsFit, AskLink, LinkTaken, CreateLink, CheckLink, DropLink, Loadouts, MissingCode,
                OtherAccount, CommitLink, Begin, BeginWith, To, Done
  <2>. QED
    BY <2>1, <2>2, StepIsSilent
<1>2. ASSUME UNCHANGED call PROVE Silent
  BY <1>2 DEF Silent
<1>. QED
  BY <1>1, <1>2 DEF LinkStep, CancelLink, Unlink, LinkTime, SweepLinks

LEMMA VoteSilent == ASSUME CallsFit, VoteStep PROVE Silent
<1>1. ASSUME NEW r \in Requests,
             \/ Report(r) \/ InsertVote(r) \/ CountOld(r) \/ CountNew(r)
             \/ ClearVotes(r) \/ CommitClear(r)
      PROVE  Silent
  <2>1. call[r].pc \notin {"tell", "tell_status"}
    BY <1>1 DEF Report, InsertVote, CountOld, CountNew, ClearVotes, CommitClear, Begin, BeginWith, On
  <2>2. \A q \in Requests \ {r} : call'[q] = call[q]
    BY <1>1 DEF CallsFit, Report, InsertVote, CountOld, CountNew, ClearVotes, CommitClear, Begin, BeginWith, To, Done
  <2>. QED
    BY <2>1, <2>2, StepIsSilent
<1>2. ASSUME UNCHANGED call PROVE Silent
  BY <1>2 DEF Silent
<1>. QED
  BY <1>1, <1>2 DEF VoteStep, Approve, accountVars

LEMMA RelationSilent == ASSUME CallsFit, RelationStep PROVE Silent
<1>1. ASSUME NEW r \in Requests,
             \/ Relate(r) \/ DeleteRelation(r) \/ SyncOld(r) \/ InsertRelation(r) \/ SyncNew(r)
             \/ Flags(r) \/ WriteFlags(r) \/ ClearAlt(r) \/ CommitClearAlt(r) \/ Abort(r)
      PROVE  Silent
  <2>1. call[r].pc \notin {"tell", "tell_status"}
    BY <1>1, Fitting DEF Relate, DeleteRelation, SyncOld, InsertRelation, SyncNew, Flags, WriteFlags, ClearAlt,
                CommitClearAlt, Abort, Begin, BeginWith, On, PcFits
  <2>2. \A q \in Requests \ {r} : call'[q] = call[q]
    BY <1>1 DEF CallsFit, Relate, DeleteRelation, SyncOld, InsertRelation, SyncNew, Flags, WriteFlags, ClearAlt,
                CommitClearAlt, Abort, Begin, BeginWith, To, Read, Done
  <2>. QED
    BY <2>1, <2>2, StepIsSilent
<1>. QED
  BY <1>1 DEF RelationStep

LEMMA LikeSilent == ASSUME CallsFit, LikeStep PROVE Silent
<1>1. ASSUME NEW r \in Requests, Like(r) \/ CommitLike(r) \/ CommitUnlike(r)
      PROVE  Silent
  <2>1. call[r].pc \notin {"tell", "tell_status"}
    BY <1>1 DEF Like, CommitLike, CommitUnlike, Begin, BeginWith, On
  <2>2. \A q \in Requests \ {r} : call'[q] = call[q]
    BY <1>1 DEF CallsFit, Like, CommitLike, CommitUnlike, Begin, BeginWith, Done
  <2>. QED
    BY <2>1, <2>2, StepIsSilent
<1>. QED
  BY <1>1 DEF LikeStep

LEMMA NewsElsewhere ==
    ASSUME CallsFit, FaultInv, DiscussionInv, NewsInv, UNCHANGED discussion,
           Fault \/ (UNCHANGED faults /\ Silent)
    PROVE  NewsInv'
<1>1. CASE Fault
  BY <1>1, AccountsAssumption DEF FaultInv, Fault, NewsInv
<1>2. CASE UNCHANGED faults /\ Silent
  BY <1>2, NothingSaid DEF Silent
<1>. QED
  BY <1>1, <1>2

LEMMA ViewElsewhere ==
    ASSUME ViewInv, UNCHANGED <<views, counter, viewCount, drain, undrained>>
    PROVE  ViewInv'
  BY DEF ViewInv

\* A step of a family keeps what the others rest on; K are the kinds of its requests.
LEMMA AccountFamily ==
    ASSUME CommunityInv, CallsFit', UNCHANGED <<discussion, tags, post>>, Fault \/ UNCHANGED faults,
           Fault \/ Silent, NEW K, Only(K), K \subseteq {"exchange", "consume", "link", "check"}
    PROVE  FaultInv' /\ VoteInv' /\ RelationInv' /\ LikeInv' /\ ViewInv' /\ DiscussionInv' /\ NewsInv'
<1>1. /\ UNCHANGED <<votes, tag>> /\ UNCHANGED <<relation, alt, rowlock>>
      /\ UNCHANGED <<likeRows, likes>> /\ UNCHANGED <<views, counter, viewCount, drain, undrained>>
  BY DEF tags, post
<1>2. /\ "vote" \notin K /\ "like" \notin K
      /\ K \cap {"relate", "unrelate", "clear"} = {} /\ K \cap {"comment", "status", "edit"} = {}
  OBVIOUS
<1>3. FaultInv' /\ NewsInv' /\ ViewInv'
  BY <1>1, FaultsCounted, NewsElsewhere, ViewElsewhere DEF CommunityInv
<1>4. VoteInv' /\ LikeInv'
  BY <1>1, <1>2, VoteElsewhere, LikeElsewhere DEF CommunityInv
<1>5. RelationInv' /\ DiscussionInv'
  BY <1>1, <1>2, RelationElsewhere, DiscussionElsewhere DEF CommunityInv
<1>. QED
  BY <1>3, <1>4, <1>5

LEMMA PublicFamily ==
    ASSUME CommunityInv, CallsFit', UNCHANGED <<identities, transactions, links>>, NEW K, Only(K),
           K \cap {"exchange", "consume", "link", "check"} = {}
    PROVE  IdentityInv' /\ TransactionInv' /\ LinkInv'
<1>1. UNCHANGED identities /\ UNCHANGED transactions /\ UNCHANGED links
  OBVIOUS
<1>2. "exchange" \notin K /\ "consume" \notin K /\ K \cap {"link", "check"} = {}
  OBVIOUS
<1>. QED
  BY <1>1, <1>2, IdentityElsewhere, TransactionElsewhere, LinkElsewhere DEF CommunityInv

LEMMA IdentityNext ==
    ASSUME CommunityInv, Account(IdentityStep)
    PROVE  CommunityInv'
<1>1. IdentityStep /\ UNCHANGED <<discussion, tags, post>>
  BY DEF Account
<1>2. UNCHANGED <<transactions, links, faults>>
  BY <1>1 DEF IdentityStep, Exchange, Look, Register, CreateSession, LegacyRegister, Login, Logout
<1>3. CallsFit' /\ Only({"exchange"}) /\ Silent
  BY <1>1, IdentityCalls, IdentitySilent DEF CommunityInv
<1>4. FaultInv' /\ VoteInv' /\ RelationInv' /\ LikeInv' /\ ViewInv' /\ DiscussionInv' /\ NewsInv'
  BY <1>1, <1>2, <1>3, AccountFamily
<1>5. IdentityInv'
  BY <1>1, <1>3, IdentitySteps DEF CommunityInv
<1>6. TransactionInv' /\ LinkInv'
  BY <1>2, <1>3, TransactionElsewhere, LinkElsewhere DEF CommunityInv
<1>. QED
  BY <1>3, <1>4, <1>5, <1>6 DEF CommunityInv

LEMMA TransactionNext ==
    ASSUME CommunityInv, Account(TransactionStep)
    PROVE  CommunityInv'
<1>1. TransactionStep /\ UNCHANGED <<discussion, tags, post>>
  BY DEF Account
<1>2. UNCHANGED <<identities, links>> /\ (UNCHANGED faults \/ Fault)
  BY <1>1 DEF TransactionStep, Consume, GetTxn, DelTxn, ReleaseTxn, CreateTxn, LeaseOver, TxnOver
<1>3. CallsFit' /\ Only({"consume"}) /\ Silent
  BY <1>1, TransactionCalls, TransactionSilent DEF CommunityInv
<1>4. FaultInv' /\ VoteInv' /\ RelationInv' /\ LikeInv' /\ ViewInv' /\ DiscussionInv' /\ NewsInv'
  BY <1>1, <1>2, <1>3, AccountFamily
<1>5. TransactionInv'
  BY <1>1, TransactionSteps DEF CommunityInv
<1>6. IdentityInv' /\ LinkInv'
  BY <1>2, <1>3, IdentityElsewhere, LinkElsewhere DEF CommunityInv
<1>. QED
  BY <1>3, <1>4, <1>5, <1>6 DEF CommunityInv

LEMMA LinkNext ==
    ASSUME CommunityInv, Account(LinkStep)
    PROVE  CommunityInv'
<1>1. LinkStep /\ UNCHANGED <<discussion, tags, post>>
  BY DEF Account
<1>2. UNCHANGED <<identities, transactions, faults>>
  BY <1>1 DEF LinkStep, AskLink, LinkTaken, CreateLink, CheckLink, DropLink, Loadouts, MissingCode,
              OtherAccount, CommitLink, CancelLink, Unlink, LinkTime, SweepLinks
<1>3. CallsFit' /\ Only({"link", "check"}) /\ Silent
  BY <1>1, LinkCalls, LinkSilent DEF CommunityInv
<1>4. FaultInv' /\ VoteInv' /\ RelationInv' /\ LikeInv' /\ ViewInv' /\ DiscussionInv' /\ NewsInv'
  BY <1>1, <1>2, <1>3, AccountFamily
<1>5. LinkInv'
  BY <1>1, LinkSteps DEF CommunityInv
<1>6. IdentityInv' /\ TransactionInv'
  BY <1>2, <1>3, IdentityElsewhere, TransactionElsewhere DEF CommunityInv
<1>. QED
  BY <1>3, <1>4, <1>5, <1>6 DEF CommunityInv

LEMMA FailureNext ==
    ASSUME CommunityInv, Account(Failure)
    PROVE  CommunityInv'
<1>1. Failure /\ UNCHANGED <<discussion, tags, post>>
  BY DEF Account
<1>2. UNCHANGED <<identities, transactions, links>> /\ Fault
  BY <1>1 DEF Failure, Fails
<1>3. CallsFit' /\ Only({})
  BY <1>1, FailureCalls DEF CommunityInv
<1>4. FaultInv' /\ VoteInv' /\ RelationInv' /\ LikeInv' /\ ViewInv' /\ DiscussionInv' /\ NewsInv'
  BY <1>1, <1>2, <1>3, AccountFamily
<1>5. IdentityInv' /\ TransactionInv' /\ LinkInv'
  BY <1>2, <1>3, PublicFamily
<1>. QED
  BY <1>3, <1>4, <1>5 DEF CommunityInv

LEMMA VoteNext ==
    ASSUME CommunityInv, Public(VoteStep)
    PROVE  CommunityInv'
<1>1. VoteStep /\ UNCHANGED discussion
  BY DEF Public
<1>2. /\ UNCHANGED <<identities, transactions, links>> /\ UNCHANGED faults
      /\ UNCHANGED <<likeRows, likes>> /\ UNCHANGED <<views, counter, viewCount, drain, undrained>>
  BY <1>1 DEF VoteStep, Report, InsertVote, CountOld, CountNew, ClearVotes, CommitClear, Approve, accountVars, post
<1>3. CallsFit' /\ Only({"vote", "clear"}) /\ Silent
  BY <1>1, VoteCalls, VoteSilent DEF CommunityInv
<1>4. IdentityInv' /\ TransactionInv' /\ LinkInv'
  BY <1>2, <1>3, PublicFamily
<1>5. VoteInv' /\ RelationInv'
  BY <1>1, <1>3, VoteSteps, RelationBesideVotes DEF CommunityInv
<1>6. LikeInv' /\ ViewInv' /\ FaultInv' /\ NewsInv'
  BY <1>1, <1>2, <1>3, LikeElsewhere, ViewElsewhere, FaultsCounted, NewsElsewhere DEF CommunityInv
<1>7. DiscussionInv'
  <2>1. {"vote", "clear"} \cap {"comment", "status", "edit"} = {}
    OBVIOUS
  <2>. QED
    BY <1>1, <1>3, <2>1, DiscussionElsewhere DEF CommunityInv
<1>. QED
  BY <1>3, <1>4, <1>5, <1>6, <1>7 DEF CommunityInv

LEMMA RelationNext ==
    ASSUME CommunityInv, Public(RelationStep)
    PROVE  CommunityInv'
<1>1. RelationStep /\ UNCHANGED discussion
  BY DEF Public
<1>2. /\ UNCHANGED <<identities, transactions, links>> /\ UNCHANGED faults /\ UNCHANGED <<votes, tag>>
      /\ UNCHANGED <<likeRows, likes>> /\ UNCHANGED <<views, counter, viewCount, drain, undrained>>
  BY <1>1 DEF RelationStep, Relate, DeleteRelation, SyncOld, InsertRelation, SyncNew, Flags, WriteFlags,
              ClearAlt, CommitClearAlt, Abort, tags, post
<1>3. CallsFit' /\ Only({"relate", "unrelate", "clear"}) /\ Silent
  BY <1>1, RelationCalls, RelationSilent DEF CommunityInv
<1>4. IdentityInv' /\ TransactionInv' /\ LinkInv'
  BY <1>2, <1>3, PublicFamily
<1>5. RelationInv'
  BY <1>1, RelationSteps DEF CommunityInv
<1>6. LikeInv' /\ ViewInv' /\ FaultInv' /\ NewsInv' /\ VoteInv'
  BY <1>1, <1>2, <1>3, LikeElsewhere, ViewElsewhere, VoteElsewhere, FaultsCounted, NewsElsewhere DEF CommunityInv
<1>7. DiscussionInv'
  <2>1. {"relate", "unrelate", "clear"} \cap {"comment", "status", "edit"} = {}
    OBVIOUS
  <2>. QED
    BY <1>1, <1>3, <2>1, DiscussionElsewhere DEF CommunityInv
<1>. QED
  BY <1>3, <1>4, <1>5, <1>6, <1>7 DEF CommunityInv

LEMMA LikeNext ==
    ASSUME CommunityInv, Public(LikeStep)
    PROVE  CommunityInv'
<1>1. LikeStep /\ UNCHANGED discussion
  BY DEF Public
<1>2. /\ UNCHANGED <<identities, transactions, links>> /\ UNCHANGED faults
      /\ UNCHANGED <<votes, tag>> /\ UNCHANGED <<relation, alt, rowlock>>
      /\ UNCHANGED <<views, counter, viewCount, drain, undrained>>
  BY <1>1 DEF LikeStep, Like, CommitLike, CommitUnlike, tags, post
<1>3. CallsFit' /\ Only({"like"}) /\ Silent
  BY <1>1, LikeCalls, LikeSilent DEF CommunityInv
<1>4. IdentityInv' /\ TransactionInv' /\ LinkInv'
  BY <1>2, <1>3, PublicFamily
<1>5. LikeInv'
  BY <1>1, LikeSteps DEF CommunityInv
<1>6. VoteInv' /\ ViewInv' /\ FaultInv' /\ NewsInv'
  BY <1>1, <1>2, <1>3, VoteElsewhere, ViewElsewhere, FaultsCounted, NewsElsewhere DEF CommunityInv
<1>7. DiscussionInv' /\ RelationInv'
  <2>1. {"like"} \cap {"comment", "status", "edit"} = {} /\ {"like"} \cap {"relate", "unrelate", "clear"} = {}
    OBVIOUS
  <2>. QED
    BY <1>1, <1>2, <1>3, <2>1, DiscussionElsewhere, RelationElsewhere DEF CommunityInv
<1>. QED
  BY <1>3, <1>4, <1>5, <1>6, <1>7 DEF CommunityInv

LEMMA ViewNext ==
    ASSUME CommunityInv, Public(View \/ DrainRead \/ DrainAdd \/ DrainDel)
    PROVE  CommunityInv'
<1>1. (View \/ DrainRead \/ DrainAdd \/ DrainDel) /\ UNCHANGED discussion
  BY DEF Public
<1>2. /\ UNCHANGED call /\ UNCHANGED <<identities, transactions, links>> /\ (UNCHANGED faults \/ Fault)
      /\ UNCHANGED <<votes, tag>> /\ UNCHANGED <<relation, alt, rowlock>> /\ UNCHANGED <<likeRows, likes>>
  BY <1>1 DEF View, DrainRead, DrainAdd, DrainDel, accountVars, tags
<1>3. CallsFit' /\ Only({}) /\ Silent
  BY <1>2, StayFits DEF CommunityInv, Silent
<1>4. IdentityInv' /\ TransactionInv' /\ LinkInv'
  BY <1>2, <1>3, PublicFamily
<1>5. ViewInv'
  BY <1>1, ViewSteps DEF CommunityInv
<1>6. VoteInv' /\ LikeInv' /\ FaultInv' /\ NewsInv'
  BY <1>1, <1>2, <1>3, VoteElsewhere, LikeElsewhere, FaultsCounted, NewsElsewhere DEF CommunityInv
<1>7. DiscussionInv' /\ RelationInv'
  BY <1>1, <1>2, <1>3, DiscussionElsewhere, RelationElsewhere DEF CommunityInv
<1>. QED
  BY <1>3, <1>4, <1>5, <1>6, <1>7 DEF CommunityInv

LEMMA DiscussionNext ==
    ASSUME CommunityInv, DiscussionStep, UNCHANGED <<tags, post>>
    PROVE  CommunityInv'
<1>2. /\ UNCHANGED <<identities, transactions, links>> /\ UNCHANGED faults
      /\ UNCHANGED <<votes, tag>> /\ UNCHANGED <<relation, alt, rowlock>> /\ UNCHANGED <<likeRows, likes>>
      /\ UNCHANGED <<views, counter, viewCount, drain, undrained>>
  BY DEF DiscussionStep, Open, TellStaff, AskComment, Comment, TellComment, Status, SetStatus, TellStatus,
         DeleteTicket, EditPermission, UpdatePost, DeletePost, DeleteComment, ReadNotification, ReadAll,
         MarkRead, accountVars, tags, post
<1>3. CallsFit' /\ Only({"open", "comment", "status", "delete", "edit"})
  BY DiscussionCalls DEF CommunityInv
<1>4. IdentityInv' /\ TransactionInv' /\ LinkInv'
  BY <1>2, <1>3, PublicFamily
<1>5. DiscussionInv' /\ NewsInv'
  BY DiscussionSteps DEF CommunityInv
<1>6. VoteInv' /\ LikeInv' /\ FaultInv' /\ ViewInv'
  BY <1>2, <1>3, VoteElsewhere, LikeElsewhere, ViewElsewhere, FaultsCounted DEF CommunityInv
<1>7. RelationInv'
  <2>1. {"open", "comment", "status", "delete", "edit"} \cap {"relate", "unrelate", "clear"} = {}
    OBVIOUS
  <2>. QED
    BY <1>2, <1>3, <2>1, RelationElsewhere DEF CommunityInv
<1>. QED
  BY <1>3, <1>4, <1>5, <1>6, <1>7 DEF CommunityInv

LEMMA CommunityNext ==
    ASSUME CommunityInv, [Next]_vars
    PROVE  CommunityInv'
<1>1. CASE UNCHANGED vars
  <2>1. /\ UNCHANGED call /\ UNCHANGED <<identities, transactions, links>> /\ UNCHANGED faults
        /\ UNCHANGED <<discussion, tags, post>>
    BY <1>1 DEF vars, accountVars
  <2>2. CallsFit' /\ Only({}) /\ Silent
    BY <2>1, StayFits DEF CommunityInv, Silent
  <2>3. FaultInv' /\ VoteInv' /\ RelationInv' /\ LikeInv' /\ ViewInv' /\ DiscussionInv' /\ NewsInv'
    BY <2>1, <2>2, AccountFamily
  <2>4. IdentityInv' /\ TransactionInv' /\ LinkInv'
    BY <2>1, <2>2, PublicFamily
  <2>. QED
    BY <2>2, <2>3, <2>4 DEF CommunityInv
<1>2. CASE Next
  <2>1. \/ Account(IdentityStep) \/ Account(TransactionStep) \/ Account(LinkStep) \/ Account(Failure)
        \/ Public(VoteStep) \/ Public(RelationStep) \/ Public(LikeStep)
        \/ Public(View \/ DrainRead \/ DrainAdd \/ DrainDel)
        \/ DiscussionStep /\ UNCHANGED <<tags, post>>
    BY <1>2 DEF Next
  <2>. QED
    BY <2>1, IdentityNext, TransactionNext, LinkNext, FailureNext, VoteNext, RelationNext, LikeNext, ViewNext,
       DiscussionNext
<1>. QED
  BY <1>1, <1>2

----------------------------------------------------------------------------
LEMMA CommunityStart ==
    ASSUME Init
    PROVE  CommunityInv
<1>1. call = [r \in Requests |-> NoCall] /\ faults = 0
  BY DEF Init, AccountsInit
<1>2. \A r \in Requests : call[r].pc = "idle" /\ call[r].kind = "none"
  BY <1>1 DEF NoCall
<1>3. CallsFit
  <2>1. \A r \in Requests : call[r] = NoCall
    BY <1>1
  <2>2. IsCall(NoCall) /\ PcFits(NoCall) /\ KindFits(NoCall)
    BY DEF NoCall, IsCall, PcFits, KindFits
  <2>3. call = [r \in Requests |-> call[r]]
    BY <1>1
  <2>. QED
    BY <2>1, <2>2, <2>3 DEF CallsFit
<1>4. FaultInv
  BY <1>1, AccountsAssumption DEF FaultInv
<1>5. IdentityInv
  <2>1. IdentityTables
    BY DEF Init, AccountsInit, IdentityTables, OwnAccount
  <2>2. IdentityWork
    BY <1>2 DEF IdentityWork, IdentityKnown, On
  <2>. QED
    BY <2>1, <2>2 DEF IdentityInv
<1>6. TransactionInv
  <2>1. \A n : Takers(n) = {}
    BY <1>2 DEF Takers, On, Init, AccountsInit
  <2>. QED
    BY <1>2, <2>1 DEF TransactionInv, On, Init, AccountsInit
<1>7. LinkInv
  <2>1. PICK p \in Targets \cup {Nobody} : verif = [u \in Users |-> [NoRow EXCEPT !.player = p]]
    BY DEF Init, AccountsInit
  <2>2. [NoRow EXCEPT !.player = p] \in VerifRows /\ ~[NoRow EXCEPT !.player = p].locked
    BY NoRowIsRow DEF VerifRows
  <2>3. linked = [u \in Users |-> Nobody]
    BY DEF Init, AccountsInit
  <2>. QED
    BY <1>2, <2>1, <2>2, <2>3 DEF LinkInv, LinkIsProven
<1>8. VoteInv
  BY <1>2, SomeUsers DEF VoteInv, Init
<1>9. RelationInv
  <2>1. relation = {} /\ alt = [p \in Targets |-> FALSE] /\ rowlock = [p \in Targets |-> Nobody]
    BY DEF Init
  <2>. QED
    BY <1>2, <2>1 DEF RelationInv, RelationTables, RelationKnown, OneInserts, Past, Inserted, On
<1>10. LikeInv
  <2>1. likeRows \in [Liked -> SUBSET Users] /\ likes = [w \in Liked |-> Cardinality(likeRows[w])]
    BY DEF Init
  <2>2. \A w \in Liked : IsFiniteSet(likeRows[w])
    BY <2>1, FS_Subset, AccountsAssumption
  <2>3. \A w \in Liked : Cardinality(likeRows[w]) \in Nat
    BY <2>2, FS_CardinalityType
  <2>. QED
    BY <1>2, <2>1, <2>3 DEF LikeInv, LikesCoverRows, On, Liked
<1>11. ViewInv
  <2>1. views = 0 /\ counter = 0 /\ viewCount = 0 /\ undrained = FALSE /\ drain = [pc |-> "idle", count |-> 0]
    BY DEF Init
  <2>2. drain.pc = "idle" /\ drain \in [pc : {"idle", "add", "del"}, count : Nat]
    BY <2>1
  <2>3. viewCount + counter <= views + (IF drain.pc = "del" THEN drain.count ELSE 0)
    BY <2>1, <2>2
  <2>4. views \in Nat /\ counter \in Nat /\ viewCount \in Nat /\ undrained \in BOOLEAN
    BY <2>1
  <2>. QED
    BY <2>2, <2>3, <2>4, Zenon DEF ViewInv
<1>12. DiscussionInv /\ NewsInv
  <2>1. /\ thread \in [Places -> {NoThread} \cup {[owner |-> u, state |-> "first"] : u \in Users}]
        /\ comments = {} /\ commented = 0 /\ inbox = {} /\ changes = 0
    BY DEF Init, DiscussionInit
  <2>2. \A w \in Places : /\ thread[w] \in [owner : Users \cup {Nobody}, state : States \cup {"none", "deleted"}]
                          /\ thread[w].owner = Nobody <=> thread[w].state = "none"
    <3>1. ASSUME NEW w \in Places, thread[w] = NoThread
          PROVE  /\ thread[w] \in [owner : Users \cup {Nobody}, state : States \cup {"none", "deleted"}]
                 /\ thread[w].owner = Nobody <=> thread[w].state = "none"
      BY <3>1 DEF NoThread
    <3>2. ASSUME NEW w \in Places, NEW u \in Users, thread[w] = [owner |-> u, state |-> "first"]
          PROVE  /\ thread[w] \in [owner : Users \cup {Nobody}, state : States \cup {"none", "deleted"}]
                 /\ thread[w].owner = Nobody <=> thread[w].state = "none"
      BY <3>2, AccountsAssumption DEF States
    <3>. QED
      BY <2>1, <3>1, <3>2
  <2>3. ThreadsFit
    BY <2>1, <2>2, DiscussionAssumption DEF ThreadsFit, Owner
  <2>4. CommentsFit /\ InboxFits /\ \A r \in Requests : DiscussionKnown(r)
    BY <1>2, <2>1 DEF CommentsFit, InboxFits, DiscussionKnown, On
  <2>5. NewsInv
    <3>1. 1..changes = {}
      BY <2>1
    <3>. QED
      BY <2>1, <3>1 DEF NewsInv
  <2>. QED
    BY <2>3, <2>4, <2>5 DEF DiscussionInv
<1>. QED
  BY <1>3, <1>4, <1>5, <1>6, <1>7, <1>8, <1>9, <1>10, <1>11, <1>12 DEF CommunityInv

\* The inductive invariant: what the tables of each family hold and what each request
\* knows while it runs.
THEOREM CommunityHolds == Spec => []CommunityInv
<1>1. Init => CommunityInv
  BY CommunityStart
<1>2. CommunityInv /\ [Next]_vars => CommunityInv'
  BY CommunityNext
<1>. QED
  BY <1>1, <1>2, PTL DEF Spec

\* Whoever signs in, signs in as himself, for any number of subjects, users and requests
\* and with every family beside the others: nobody enters another's account by a login
\* that runs beside a registration (promote_oidc_identity), a transaction of the BFF is
\* given out once unless its delete failed, and a link to a player is proven.
THEOREM AccountsStayOwn == Spec => []AccountsAreOwn
<1>1. CommunityInv => AccountsAreOwn
  <2>. SUFFICES ASSUME CommunityInv
                PROVE  AccountsAreOwn
    OBVIOUS
  <2>1. OwnAccount /\ CollisionIsForeign
    BY DEF CommunityInv, IdentityInv, IdentityTables, IdentityWork, IdentityKnown, CollisionIsForeign
  <2>2. ASSUME NEW a \in handed, NEW b \in handed, a[2] = b[2], a # b
        PROVE  a[2] \in undeleted
    <3>1. /\ a[1] \in Requests /\ b[1] \in Requests /\ a[2] \in 1..made /\ a[1] # b[1]
          /\ a = <<a[1], a[2]>> /\ b = <<b[1], a[2]>>
      BY <2>2 DEF CommunityInv, TransactionInv
    <3>2. a[1] \in Takers(a[2]) /\ b[1] \in Takers(a[2])
      BY <3>1 DEF Takers
    <3>. QED
      BY <3>1, <3>2 DEF CommunityInv, TransactionInv
  <2>3. OneUse
    BY <2>2 DEF OneUse
  <2>. QED
    BY <2>1, <2>3 DEF CommunityInv, LinkInv, AccountsAreOwn
<1>. QED
  BY <1>1, CommunityHolds, PTL

\* The counters that readers see agree with what they count: a build's likes with the
\* rows, a post's are not fewer, views are not invented, and all tables have their types.
THEOREM CountersStayTrue == Spec => []CountersAreTrue
<1>1. CommunityInv => CountersAreTrue
  <2>. SUFFICES ASSUME CommunityInv
                PROVE  CountersAreTrue
    OBVIOUS
  <2>1. AccountsTypeOK
    <3>1. \A u \in Users : verif[u] \in VerifRows
      BY DEF CommunityInv, LinkInv
    <3>2. \A u \in Users : /\ verif[u].player \in Targets \cup {Nobody}
                           /\ verif[u].attempts \in 0..LINK_MAX_ATTEMPTS
      BY <3>1 DEF VerifRows
    <3>. QED
      BY <3>2 DEF CommunityInv, FaultInv, IdentityInv, IdentityTables, TransactionInv, LinkInv, AccountsTypeOK
  <2>2. DiscussionTypeOK
    <3>1. \A c \in comments : c.on \in Places /\ c.by \in Users /\ c.id \in 1..commented /\ c.parent \in 0..commented
      BY DEF CommunityInv, DiscussionInv, CommentsFit
    <3>2. \A n \in inbox : n.to \in Users /\ n.read \in BOOLEAN
      BY DEF CommunityInv, DiscussionInv, InboxFits, Notes
    <3>. QED
      BY <3>1, <3>2 DEF CommunityInv, DiscussionInv, ThreadsFit, DiscussionTypeOK
  <2>3. TypeOK
    BY <2>1, <2>2 DEF CommunityInv, VoteInv, RelationInv, RelationTables, LikeInv, ViewInv, TypeOK
  <2>4. ViewsNotInvented
    <3>1. undrained \in BOOLEAN /\ views \in Nat /\ viewCount \in Nat /\ counter \in Nat /\ drain.count \in Nat
      BY DEF CommunityInv, ViewInv
    <3>. QED
      BY <3>1 DEF CommunityInv, ViewInv, ViewsNotInvented
  <2>. QED
    BY <2>3, <2>4 DEF CommunityInv, LikeInv, CountersAreTrue
<1>. QED
  BY <1>1, CommunityHolds, PTL

\* Once all requests are answered and no statement has failed, every comment and every
\* change of status is in the inboxes it is for, although no transaction holds the two
\* statements of create_comment, add_comment and update_ticket together.
THEOREM NewsWillHaveArrived == Spec => []NewsArrives
<1>1. CommunityInv => NewsArrives
  <2>. SUFFICES ASSUME CommunityInv, Quiet, faults = 0
                PROVE  /\ \A c \in comments : CommentHeard(c)
                       /\ Exists("ticket") /\ thread["ticket"].owner \notin Staff =>
                            \A i \in 1..changes : Told(thread["ticket"].owner, "status", i)
                       /\ \A n \in inbox : n.kind = "comment" => \E c \in comments : c.id = n.id
    BY DEF NewsArrives, CommentHeard, Owner
  <2>1. \A pc \in {"tell", "tell_status"} : \A w, by, id : ~Telling(pc, w, by, id)
    BY DEF Quiet, Telling, On
  <2>. QED
    BY <2>1 DEF CommunityInv, NewsInv, DiscussionInv, InboxFits, StatusHeard, Owner
<1>. QED
  BY <1>1, CommunityHolds, PTL


----------------------------------------------------------------------------
\* What a step does to the tags.

Projects ==
    /\ votes' # votes => \A t \in Projected : tag'[t] = Projection(votes', t)
    /\ \A p \in Targets : Related(p)' # Related(p) => (alt'[p] <=> Related(p)' # {})

LEMMA NothingVoted ==
    ASSUME UNCHANGED <<votes, relation>>
    PROVE  Projects
  BY DEF Projects, Related

LEMMA VotesProject ==
    ASSUME VoteStep
    PROVE  Projects
<1>1. ASSUME NEW r \in Requests, CountNew(r)
      PROVE  Projects
  <2>1. \A t \in Projected : tag'[t] = Projection(votes', t)
    BY <1>1 DEF CountNew, Projected, Types
  <2>2. UNCHANGED relation
    BY <1>1 DEF CountNew
  <2>. QED
    BY <2>1, <2>2 DEF Projects, Related
<1>2. ASSUME NEW r \in Requests, CommitClear(r)
      PROVE  Projects
  <2>1. ASSUME votes' # votes, NEW t \in Projected
        PROVE  tag'[t] = Projection(votes', t)
    <3>1. tag'[t] = IF t = call[r].arg THEN 0 ELSE Projection(votes', t)
      BY <1>2, <2>1 DEF CommitClear, Projected, Types
    <3>2. ASSUME t = call[r].arg
          PROVE  Projection(votes', t) = 0
      <4>1. {v \in votes' : v[2] = t} = {}
        BY <1>2, <3>2 DEF CommitClear
      <4>2. Votes(votes', t) = 0
        BY <4>1, FS_EmptySet DEF Votes
      <4>. QED
        BY <4>2 DEF Projection, Flag
    <3>. QED
      BY <3>1, <3>2
  <2>2. UNCHANGED relation
    BY <1>2 DEF CommitClear
  <2>. QED
    BY <2>1, <2>2 DEF Projects, Related
<1>3. ASSUME UNCHANGED <<votes, relation>>
      PROVE  Projects
  BY <1>3, NothingVoted
<1>. QED
  BY <1>1, <1>2, <1>3 DEF VoteStep, Report, InsertVote, CountOld, ClearVotes, Approve, tags

\* The snapshot of the last statement is true of the players whose votes it changes.
LEMMA RelationsProject ==
    ASSUME CallsFit, RelationInv, RelationStep
    PROVE  Projects
<1>1. ASSUME NEW r \in Requests, WriteFlags(r)
      PROVE  Projects
  <2>. DEFINE del == call[r].got.del
              snap == call[r].got.snap
  <2>1. On(r, "write") /\ call[r].kind \in {"relate", "unrelate"} /\ call[r].who \in Users /\ call[r].arg \in Targets
    BY <1>1, Fitting DEF WriteFlags, On, PcFits, KindFits
  <2>2. RelationKnown(r) /\ Past(r)
    BY <2>1 DEF RelationInv, Past, On
  <2>3. /\ relation' = (relation \ del) \cup New(r) /\ UNCHANGED votes
        /\ \A p \in Targets : alt'[p] <=> \E v \in (snap \ del) \cup New(r) : v[2] = p
    BY <1>1 DEF WriteFlags
  <2>4. \A v \in del \cup New(r) : rowlock[v[2]] = r
    BY <2>1, <2>2 DEF RelationKnown, On
  <2>5. /\ snap \subseteq Users \X Targets
        /\ \A v \in Users \X Targets : rowlock[v[2]] = r => (v \in snap <=> v \in relation)
    BY <2>1, <2>2 DEF RelationKnown
  <2>6. relation \subseteq Users \X Targets /\ New(r) \subseteq Users \X Targets
    BY <2>1 DEF RelationInv, RelationTables, New
  <2>7. ASSUME NEW p \in Targets, Related(p)' # Related(p)
        PROVE  alt'[p] <=> Related(p)' # {}
    <3>1. PICK v : ~(v \in Related(p)' <=> v \in Related(p))
      BY <2>7
    <3>2. v[2] = p /\ v \in del \cup New(r)
      BY <2>3, <3>1 DEF Related
    <3>3. rowlock[p] = r
      BY <2>4, <3>2
    <3>4. \A x \in Users \X Targets : x[2] = p => (x \in snap <=> x \in relation)
      BY <2>5, <3>3
    <3>5. \A x \in Users \X Targets : x[2] = p => (x \in (snap \ del) \cup New(r) <=> x \in relation')
      BY <2>3, <3>4
    <3>6. relation' \subseteq Users \X Targets /\ (snap \ del) \cup New(r) \subseteq Users \X Targets
      BY <2>3, <2>5, <2>6
    <3>. QED
      BY <2>3, <3>5, <3>6 DEF Related
  <2>. QED
    BY <2>3, <2>7 DEF Projects
<1>2. ASSUME NEW r \in Requests, CommitClearAlt(r)
      PROVE  Projects
  <2>1. /\ relation' = relation \ {v \in relation : v[2] = call[r].arg} /\ UNCHANGED votes
        /\ alt' = [alt EXCEPT ![call[r].arg] = FALSE]
    BY <1>2 DEF CommitClearAlt
  <2>2. alt \in [Targets -> BOOLEAN]
    BY DEF RelationInv, RelationTables
  <2>3. ASSUME NEW p \in Targets, Related(p)' # Related(p)
        PROVE  alt'[p] <=> Related(p)' # {}
    <3>1. p = call[r].arg
      BY <2>1, <2>3 DEF Related
    <3>2. Related(p)' = {} /\ ~alt'[p]
      BY <2>1, <2>2, <3>1 DEF Related
    <3>. QED
      BY <3>2
  <2>. QED
    BY <2>1, <2>3 DEF Projects
<1>3. ASSUME UNCHANGED <<votes, relation>>
      PROVE  Projects
  BY <1>3, NothingVoted
<1>. QED
  BY <1>1, <1>2, <1>3 DEF RelationStep, Relate, DeleteRelation, SyncOld, InsertRelation, SyncNew, Flags, ClearAlt,
     Abort, tags

\* Whatever transaction changes the votes on a player leaves the tags equal to them,
\* however many transactions wait beside it: whoever has deleted or inserted a vote has
\* the player's row locked by the trigger until the last statement is written.
THEOREM TagsFollowVotes == Spec => VotesAreProjected
<1>1. CommunityInv /\ [Next]_vars => [Projects]_vars
  <2>. SUFFICES ASSUME CommunityInv, Next
                PROVE  Projects
    OBVIOUS
  <2>1. \/ VoteStep \/ RelationStep
        \/ UNCHANGED tags
    BY DEF Next, Account, Public, LikeStep, Like, CommitLike, CommitUnlike, View, DrainRead, DrainAdd, DrainDel
  <2>. QED
    BY <2>1, VotesProject, RelationsProject, NothingVoted DEF CommunityInv, tags
<1>2. Spec => [][Projects]_vars
  BY <1>1, CommunityHolds, PTL DEF Spec
<1>. QED
  BY <1>2 DEF VotesAreProjected, Projects
=============================================================================
