------------------------------ MODULE Accounts ------------------------------
(***************************************************************************)
(* Accounts (routes/auth.rs): OIDC identities and the accounts made for    *)
(* them, the one-use transactions of the BFF's login, sessions, and the    *)
(* proof that an account's owner plays a player, by a code in the name of  *)
(* a loadout.                                                              *)
(*                                                                         *)
(* A request is a sequence of awaits, each a step; a transaction is one    *)
(* step from the point where its locks are taken.  An account is           *)
(* identified with its user name, which stands for the e-mail address too. *)
(* Times are abstracted to whether they are over.                          *)
(***************************************************************************)
EXTENDS Naturals, FiniteSets

CONSTANTS
    Users,             \* user names
    Subjects,          \* OIDC issuer and subject
    Targets,           \* players
    Requests,
    Nobody,            \* no account, no player, no request
    LINK_MAX_ATTEMPTS,
    MaxTxn,            \* bound: OIDC transactions with one state value
    MaxFaults          \* bound: statements and commands that fail, clients that leave

ASSUME AccountsAssumption ==
    /\ LINK_MAX_ATTEMPTS \in Nat \ {0} /\ MaxTxn \in Nat /\ MaxFaults \in Nat
    /\ IsFiniteSet(Users)
    /\ Nobody \notin Users \cup Subjects \cup Targets \cup Requests
    /\ "legacy" \notin Subjects \cup {Nobody}

VARIABLES
    \* each request: where it is, what it is, for whom and with what, and what it has read
    call,
    \* users, by whom they are held; user_identities; sessions
    holder, identity, sessions,
    \* Redis: the transaction of a state value (0: none) and the lease to consume it
    txn, lease,
    \* player_link_verifications and users.linked_player_id
    verif, linked,
    \* history: who entered which account, the transactions made, who got which, those
    \* whose delete failed, and which players whom were proven to play
    entered, made, handed, undeleted, proven,
    faults

identities == <<holder, identity, sessions, entered>>
transactions == <<txn, lease, made, handed, undeleted>>
links == <<verif, linked, proven>>
accountVars == <<call, identities, transactions, links, faults>>

NoCall == [pc |-> "idle", kind |-> "none", who |-> Nobody, arg |-> Nobody, got |-> Nobody]

NoRow == [player |-> Nobody, attempts |-> 0, cooling |-> FALSE, locked |-> FALSE, over |-> FALSE]

\* An account may be a legacy one, migrated to a subject or not, and its identity may
\* have been disabled; verifications may be under way.
AccountsInit ==
    /\ call = [r \in Requests |-> NoCall]
    /\ holder \in [Users -> {Nobody, "legacy"} \cup Subjects]
    /\ \A u, v \in Users : holder[u] = holder[v] /\ holder[u] \in Subjects => u = v
    /\ identity \in [Subjects -> {"none", "linked", "disabled"}]
    /\ \A s \in Subjects : identity[s] # "none" <=> \E u \in Users : holder[u] = s
    /\ sessions \in {{}, {u \in Users : holder[u] # Nobody}}
    /\ txn = 0 /\ lease = Nobody
    /\ \E p \in Targets \cup {Nobody} : verif = [u \in Users |-> [NoRow EXCEPT !.player = p]]
    /\ linked = [u \in Users |-> Nobody]
    /\ entered = {} /\ made = 0 /\ handed = {} /\ undeleted = {} /\ proven = {}
    /\ faults = 0

Fault == faults < MaxFaults /\ faults' = faults + 1

On(r, pc) == call[r].pc = pc

To(r, pc) == call' = [call EXCEPT ![r].pc = pc]

Read(r, pc, got) == call' = [call EXCEPT ![r].pc = pc, ![r].got = got]

Done(r) == call' = [call EXCEPT ![r] = [NoCall EXCEPT !.pc = "done"]]

Refused(r, why) == call' = [call EXCEPT ![r].pc = "done", ![r].got = why]

\* A request of `kind` by `who`, about `arg`.
BeginWith(r, pc, kind, who, arg, got) ==
    /\ On(r, "idle")
    /\ call' = [call EXCEPT ![r] = [pc |-> pc, kind |-> kind, who |-> who, arg |-> arg, got |-> got]]

Begin(r, pc, kind, who, arg) == BeginWith(r, pc, kind, who, arg, Nobody)

----------------------------------------------------------------------------
\* oidc_exchange and promote_oidc_identity.

\* A valid access token of the subject; the user name it prefers may change.
Exchange(r) ==
    /\ \E s \in Subjects, u \in Users : Begin(r, "look", "exchange", s, u)
    /\ UNCHANGED <<identities, transactions, links, faults>>

\* pg_advisory_xact_lock on issuer and subject.
SubjectFree(r) ==
    \A q \in Requests \ {r} : ~(call[q].pc = "register" /\ call[q].who = call[r].who)

AccountOf(s) == CHOOSE u \in Users : holder[u] = s

Look(r) ==
    /\ On(r, "look")
    /\ SubjectFree(r)
    /\ LET s == call[r].who
       IN CASE identity[s] = "linked" -> Read(r, "session", AccountOf(s))
            [] identity[s] = "disabled" -> Refused(r, "unlinked")
            [] OTHER -> To(r, "register") \/ Refused(r, "claims_required")
    /\ UNCHANGED <<identities, transactions, links, faults>>

\* Under the locks on the claims and on the table users: a name that is taken is a
\* collision, else the account and the identity are made.
Register(r) ==
    /\ On(r, "register")
    /\ LET s == call[r].who  u == call[r].arg
       IN IF holder[u] # Nobody
          THEN Refused(r, "collision") /\ UNCHANGED <<holder, identity>>
          ELSE /\ holder' = [holder EXCEPT ![u] = s]
               /\ identity' = [identity EXCEPT ![s] = "linked"]
               /\ Read(r, "session", u)
    /\ UNCHANGED <<sessions, entered, transactions, links, faults>>

CreateSession(r) ==
    /\ On(r, "session")
    /\ sessions' = sessions \cup {call[r].got}
    /\ entered' = entered \cup {<<call[r].who, call[r].got>>}
    /\ Done(r)
    /\ UNCHANGED <<holder, identity, transactions, links, faults>>

\* Legacy registration, elsewhere, takes none of the locks.
LegacyRegister(u) ==
    /\ holder[u] = Nobody
    /\ holder' = [holder EXCEPT ![u] = "legacy"]
    /\ UNCHANGED <<call, identity, sessions, entered, transactions, links, faults>>

\* login with the password of a legacy account.
Login(u) ==
    /\ holder[u] = "legacy" /\ u \notin sessions
    /\ sessions' = sessions \cup {u}
    /\ UNCHANGED <<call, holder, identity, entered, transactions, links, faults>>

\* logout, or the 72 hours are over.
Logout(u) ==
    /\ u \in sessions
    /\ sessions' = sessions \ {u}
    /\ UNCHANGED <<call, holder, identity, entered, transactions, links, faults>>

\* session_row and require_user_id.
Authenticated(u) == u \in sessions

----------------------------------------------------------------------------
\* oidc_transaction_create and oidc_transaction_consume.

CreateTxn ==
    /\ txn = 0 /\ made < MaxTxn
    /\ made' = made + 1 /\ txn' = made'
    /\ UNCHANGED <<call, identities, lease, handed, undeleted, links, faults>>

\* acquire_lease; who does not get it is told that the state is consumed.
Consume(r) ==
    /\ lease = Nobody
    /\ Begin(r, "get", "consume", Nobody, Nobody)
    /\ lease' = r
    /\ UNCHANGED <<identities, txn, made, handed, undeleted, links, faults>>

GetTxn(r) ==
    /\ On(r, "get")
    /\ \/ Read(r, "del", txn) /\ UNCHANGED faults
       \/ Fault /\ Read(r, "del", 0)
    /\ UNCHANGED <<identities, transactions, links>>

\* The answer of a delete that fails is not looked at; it may have come through.
DelTxn(r) ==
    /\ On(r, "del")
    /\ \/ txn' = 0 /\ UNCHANGED <<undeleted, faults>>
       \/ Fault /\ undeleted' = undeleted \cup {call[r].got} /\ UNCHANGED txn
    /\ To(r, "release")
    /\ UNCHANGED <<identities, lease, made, handed, links>>

\* release_lease, which may fail, and the answer.
ReleaseTxn(r) ==
    /\ On(r, "release")
    /\ \/ lease' = (IF lease = r THEN Nobody ELSE lease) /\ UNCHANGED faults
       \/ Fault /\ UNCHANGED lease
    /\ handed' = IF call[r].got = 0 THEN handed ELSE handed \cup {<<r, call[r].got>>}
    /\ Done(r)
    /\ UNCHANGED <<identities, txn, made, undeleted, links>>

\* The lease is for ten seconds, the two commands are given up after two, as is each
\* connection: it does not end under them.
LeaseOver ==
    /\ lease # Nobody
    /\ call[lease].pc \notin {"get", "del"}
    /\ lease' = Nobody
    /\ UNCHANGED <<call, identities, txn, made, handed, undeleted, links, faults>>

TxnOver ==
    /\ txn # 0
    /\ txn' = 0
    /\ UNCHANGED <<call, identities, lease, made, handed, undeleted, links, faults>>

----------------------------------------------------------------------------
\* create_link_verification, cancel_link_verification and player_link.

TakenByOther(u, p) == \E v \in Users \ {u} : linked[v] = p

AskLink(r) ==
    /\ \E u \in Users, p \in Targets :
         /\ Authenticated(u) /\ ~verif[u].locked
         /\ Begin(r, "taken", "link", u, p)
    /\ UNCHANGED <<identities, transactions, links, faults>>

LinkTaken(r) ==
    /\ On(r, "taken")
    /\ IF TakenByOther(call[r].who, call[r].arg) THEN Done(r) ELSE To(r, "code")
    /\ UNCHANGED <<identities, transactions, links, faults>>

\* The row is made, or made anew with another code.
CreateLink(r) ==
    /\ On(r, "code")
    /\ verif' = [verif EXCEPT ![call[r].who] = [NoRow EXCEPT !.player = call[r].arg]]
    /\ Done(r)
    /\ UNCHANGED <<identities, transactions, linked, proven, faults>>

CancelLink(u) ==
    /\ Authenticated(u) /\ verif[u] # NoRow
    /\ verif' = [verif EXCEPT ![u] = NoRow]
    /\ UNCHANGED <<call, identities, transactions, linked, proven, faults>>

Unlink(u) ==
    /\ Authenticated(u) /\ linked[u] # Nobody
    /\ linked' = [linked EXCEPT ![u] = Nobody]
    /\ UNCHANGED <<call, identities, transactions, verif, proven, faults>>

----------------------------------------------------------------------------
\* check_link_verification.

MayAttempt(row) ==
    /\ row.player # Nobody /\ ~row.over
    /\ row.attempts < LINK_MAX_ATTEMPTS
    /\ ~row.cooling /\ ~row.locked

\* The statement that counts the attempt returns player and code.  If it finds no row
\* to count in, a row that is over is deleted, by a statement of its own.
CheckLink(r) ==
    /\ \E u \in Users :
         /\ Authenticated(u)
         /\ IF MayAttempt(verif[u])
            THEN /\ BeginWith(r, "loadouts", "check", u, verif[u].player, verif[u].attempts + 1)
                 /\ verif' = [verif EXCEPT ![u].attempts = @ + 1, ![u].cooling = TRUE]
            ELSE /\ verif[u].over
                 /\ Begin(r, "drop", "check", u, Nobody)
                 /\ UNCHANGED verif
    /\ UNCHANGED <<identities, transactions, linked, proven, faults>>

DropLink(r) ==
    /\ On(r, "drop")
    /\ verif' = [verif EXCEPT ![call[r].who] = NoRow]
    /\ Done(r)
    /\ UNCHANGED <<identities, transactions, linked, proven, faults>>

\* vendor_guard, and getPlayerLoadouts: the code is there, or it is not or the call fails.
Loadouts(r) ==
    /\ On(r, "loadouts")
    /\ \/ Done(r) /\ UNCHANGED proven
       \/ To(r, "other") /\ proven' = proven \cup {<<call[r].who, call[r].arg>>}
       \/ To(r, "missing") /\ UNCHANGED proven
    /\ UNCHANGED <<identities, transactions, verif, linked, faults>>

\* lock_verification after the last attempt, on whatever row there is by now; it
\* expires no sooner than the lock.
MissingCode(r) ==
    /\ On(r, "missing")
    /\ LET u == call[r].who
       IN verif' = IF call[r].got >= LINK_MAX_ATTEMPTS /\ verif[u].player # Nobody
                   THEN [verif EXCEPT ![u].locked = TRUE, ![u].over = FALSE] ELSE verif
    /\ Done(r)
    /\ UNCHANGED <<identities, transactions, linked, proven, faults>>

OtherAccount(r) ==
    /\ On(r, "other")
    /\ IF TakenByOther(call[r].who, call[r].arg) THEN Done(r) ELSE To(r, "commit_link")
    /\ UNCHANGED <<identities, transactions, links, faults>>

\* Mutant: the player is the one the row names now.
CommitLinkCurrent(r) ==
    /\ On(r, "commit_link")
    /\ linked' = [linked EXCEPT ![call[r].who] = verif[call[r].who].player]
    /\ verif' = [verif EXCEPT ![call[r].who] = NoRow]
    /\ Done(r)
    /\ UNCHANGED <<identities, transactions, proven, faults>>

\* One transaction.  Whatever verification the account has by now is deleted.
CommitLink(r) ==
    /\ On(r, "commit_link")
    /\ linked' = [linked EXCEPT ![call[r].who] = call[r].arg]
    /\ verif' = [verif EXCEPT ![call[r].who] = NoRow]
    /\ Done(r)
    /\ UNCHANGED <<identities, transactions, proven, faults>>

\* The 30 seconds, the lockout and the ten minutes of the code.
LinkTime(u) ==
    /\ \/ verif[u].cooling /\ verif' = [verif EXCEPT ![u].cooling = FALSE]
       \/ verif[u].locked /\ verif' = [verif EXCEPT ![u].locked = FALSE]
       \/ /\ verif[u].player # Nobody /\ ~verif[u].over /\ ~verif[u].locked
          /\ verif' = [verif EXCEPT ![u].over = TRUE]
    /\ UNCHANGED <<call, identities, transactions, linked, proven, faults>>

\* link_verification deletes what is over, whoever asks.
SweepLinks ==
    /\ \E u \in Users : verif[u].over
    /\ verif' = [u \in Users |-> IF verif[u].over THEN NoRow ELSE verif[u]]
    /\ UNCHANGED <<call, identities, transactions, linked, proven, faults>>

----------------------------------------------------------------------------
\* A statement fails, or the client leaves.
Fails(r) ==
    /\ Fault
    /\ call[r].pc \notin {"idle", "done"}
    /\ Done(r)
    /\ UNCHANGED <<identities, transactions, links>>

IdentityStep ==
    \/ \E r \in Requests : Exchange(r) \/ Look(r) \/ Register(r) \/ CreateSession(r)
    \/ \E u \in Users : LegacyRegister(u) \/ Login(u) \/ Logout(u)

TransactionStep ==
    \/ \E r \in Requests : Consume(r) \/ GetTxn(r) \/ DelTxn(r) \/ ReleaseTxn(r)
    \/ CreateTxn \/ LeaseOver \/ TxnOver

LinkStep ==
    \/ \E r \in Requests :
         \/ AskLink(r) \/ LinkTaken(r) \/ CreateLink(r) \/ CheckLink(r) \/ DropLink(r)
         \/ Loadouts(r) \/ MissingCode(r) \/ OtherAccount(r) \/ CommitLink(r)
    \/ \E u \in Users : CancelLink(u) \/ Unlink(u) \/ LinkTime(u)
    \/ SweepLinks

AccountsTypeOK ==
    /\ holder \in [Users -> {Nobody, "legacy"} \cup Subjects]
    /\ sessions \subseteq {u \in Users : holder[u] # Nobody}
    /\ identity \in [Subjects -> {"none", "linked", "disabled"}]
    /\ txn \in 0..made /\ lease \in Requests \cup {Nobody}
    /\ linked \in [Users -> Targets \cup {Nobody}]
    /\ \A u \in Users : /\ verif[u].player \in Targets \cup {Nobody}
                        /\ verif[u].attempts \in 0..LINK_MAX_ATTEMPTS
                        /\ ~(verif[u].locked /\ verif[u].over)
    /\ faults \in 0..MaxFaults

\* A subject enters only the account made for it or migrated to it, and is linked then:
\* an account of the same name "was not linked automatically".
OwnAccount == \A e \in entered : holder[e[2]] = e[1] /\ identity[e[1]] = "linked"

\* A request is refused as a collision only if the name is somebody else's: the
\* logins of one subject at the same time are one registration and one login.
CollisionIsForeign ==
    \A r \in Requests :
        On(r, "done") /\ call[r].kind = "exchange" /\ call[r].got = "collision" =>
            holder[call[r].arg] # call[r].who

\* A transaction of the BFF is given to one request, unless its delete failed: it is
\* "10-minute one-use", although it is read and deleted in two commands.
OneUse ==
    \A a, b \in handed : a[2] = b[2] /\ a # b => a[2] \in undeleted

\* Whoever is linked to a player had this account's code in that player's loadouts,
\* whatever became of the verification while the provider was asked.
LinkIsProven == \A u \in Users : linked[u] # Nobody => <<u, linked[u]>> \in proven
=============================================================================
