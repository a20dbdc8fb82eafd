----------------------------- MODULE Discussion -----------------------------
(***************************************************************************)
(* Posts and their comments (routes/community.rs), tickets and theirs      *)
(* (routes/operations.rs), and the notifications both put into users'      *)
(* inboxes (user_notifications, routes/auth.rs).                           *)
(*                                                                         *)
(* There is one post and one ticket.  Each statement is a step and none of *)
(* them are in a transaction together.  Foreign keys delete with a post or *)
(* a ticket its comments, with a comment its replies, and with each the    *)
(* notifications about it; they refuse a row that refers to what is gone.  *)
(***************************************************************************)
EXTENDS Accounts

CONSTANTS
    Staff,         \* users who are administrators and project staff
    MaxComments    \* bound

ASSUME DiscussionAssumption == Staff \subseteq Users /\ MaxComments \in Nat

VARIABLES
    \* posts and tickets: whose they are and what they are like
    thread,
    \* comments and ticket_comments, and how many there have been
    comments, commented,
    \* user_notifications, and how often the ticket's status was changed
    inbox, changes

discussion == <<thread, comments, commented, inbox, changes>>

Places == {"post", "ticket"}

States == {"first", "changed"}

NoThread == [owner |-> Nobody, state |-> "none"]

DiscussionInit ==
    /\ thread \in [Places -> {NoThread} \cup {[owner |-> u, state |-> "first"] : u \in Users}]
    /\ comments = {} /\ commented = 0
    /\ inbox = {} /\ changes = 0

Exists(w) == thread[w].state \in States

\* What the replies' foreign key deletes with comment c: all that hangs on it.
Subtree(c) ==
    {d \in comments :
        \A S \in SUBSET comments :
            c \in S /\ (\A e \in comments : (\E f \in S : e.parent = f.id) => e \in S) => d \in S}

\* A notification is about a comment, a change of the ticket's status, or the ticket.
News(to, kind, id) == {[to |-> u, kind |-> kind, id |-> id, read |-> FALSE] : u \in to}

About(cs) == {n \in inbox : n.kind = "comment" /\ \E c \in cs : c.id = n.id}

----------------------------------------------------------------------------
\* create_post, and create_ticket, which tells the staff in a second statement.

Open(r) ==
    /\ \E u \in Users, w \in Places :
         /\ Authenticated(u) /\ thread[w].state = "none"
         /\ Begin(r, IF w = "ticket" THEN "tell_staff" ELSE "done", "open", u, w)
         /\ thread' = [thread EXCEPT ![w] = [owner |-> u, state |-> "first"]]
    /\ UNCHANGED <<identities, transactions, links, faults, comments, commented, inbox, changes>>

TellStaff(r) ==
    /\ On(r, "tell_staff")
    /\ inbox' = IF Exists("ticket") THEN inbox \cup News(Staff \ {call[r].who}, "ticket", 0) ELSE inbox
    /\ Done(r)
    /\ UNCHANGED <<identities, transactions, links, faults, thread, comments, commented, changes>>

----------------------------------------------------------------------------
\* create_comment and add_comment.

\* ticket_access; every user may comment on a post.
MayComment(u, w) == w = "post" \/ u \in Staff \/ thread[w].owner = u

\* The thread and its owner are read.
AskComment(r) ==
    /\ \E u \in Users, w \in Places :
         /\ Authenticated(u) /\ Exists(w) /\ MayComment(u, w)
         /\ Begin(r, "comment", "comment", u, w)
    /\ UNCHANGED <<identities, transactions, links, faults, discussion>>

\* The comment, which may answer another if it is on a post.
Comment(r) ==
    /\ On(r, "comment")
    /\ IF Exists(call[r].arg)
       THEN \E p \in {0} \cup {c.id : c \in {d \in comments : d.on = "post" /\ call[r].arg = "post"}} :
              /\ commented < MaxComments
              /\ commented' = commented + 1
              /\ comments' = comments \cup
                    {[id |-> commented', on |-> call[r].arg, by |-> call[r].who, parent |-> p]}
              /\ Read(r, "tell", commented')
       ELSE Done(r) /\ UNCHANGED <<comments, commented>>
    /\ UNCHANGED <<identities, transactions, links, faults, thread, inbox, changes>>

\* Mutant: whoever comments on a ticket, the staff is told.
AudienceStaff(u, w) == IF w = "ticket" THEN Staff \ {u} ELSE {thread[w].owner} \ {u}

\* The owner; of a ticket on which somebody else than the staff comments, the staff.
Audience(u, w) == IF w = "ticket" /\ u \notin Staff THEN Staff \ {u} ELSE {thread[w].owner} \ {u}

TellComment(r) ==
    /\ On(r, "tell")
    /\ inbox' = IF \E c \in comments : c.id = call[r].got
                THEN inbox \cup News(Audience(call[r].who, call[r].arg), "comment", call[r].got)
                ELSE inbox
    /\ Done(r)
    /\ UNCHANGED <<identities, transactions, links, faults, thread, comments, commented, changes>>

----------------------------------------------------------------------------
\* update_ticket and delete_ticket, by the staff.

Status(r) ==
    /\ Exists("ticket")
    /\ \E u \in Staff, s \in States :
         Authenticated(u) /\ BeginWith(r, "status", "status", u, "ticket", s)
    /\ UNCHANGED <<identities, transactions, links, faults, discussion>>

\* Only a status that differs is a change.
SetStatus(r) ==
    /\ On(r, "status")
    /\ IF Exists("ticket") /\ thread["ticket"].state # call[r].got
       THEN /\ thread' = [thread EXCEPT !["ticket"].state = call[r].got]
            /\ changes' = changes + 1
            /\ Read(r, "tell_status", changes')
       ELSE Done(r) /\ UNCHANGED <<thread, changes>>
    /\ UNCHANGED <<identities, transactions, links, faults, comments, commented, inbox>>

TellStatus(r) ==
    /\ On(r, "tell_status")
    /\ inbox' = IF Exists("ticket")
                THEN inbox \cup News({thread["ticket"].owner} \ {call[r].who}, "status", call[r].got)
                ELSE inbox
    /\ Done(r)
    /\ UNCHANGED <<identities, transactions, links, faults, thread, comments, commented, changes>>

Remove(w) ==
    /\ thread' = [thread EXCEPT ![w].state = "deleted"]
    /\ comments' = {c \in comments : c.on # w}
    /\ inbox' = {n \in inbox : /\ n \notin About({c \in comments : c.on = w})
                               /\ ~(w = "ticket" /\ n.kind # "comment")}

DeleteTicket(r) ==
    /\ Exists("ticket")
    /\ \E u \in Staff : Authenticated(u) /\ Begin(r, "done", "delete", u, "ticket")
    /\ Remove("ticket")
    /\ UNCHANGED <<identities, transactions, links, faults, commented, changes>>

----------------------------------------------------------------------------
\* update_post, delete_post, update_comment and delete_comment.

\* edit_permission, and then the statement, which looks at the owner no more.  What
\* update_comment writes, the content, is not modelled.
EditPermission(r) ==
    /\ \E u \in Users : /\ Authenticated(u)
                        /\ \/ /\ Exists("post") /\ (thread["post"].owner = u \/ u \in Staff)
                              /\ \E pc \in {"update_post", "delete_post"} : Begin(r, pc, "edit", u, "post")
                           \/ \E c \in comments : /\ c.on = "post" /\ (c.by = u \/ u \in Staff)
                                                  /\ BeginWith(r, "delete_comment", "edit", u, "post", c)
    /\ UNCHANGED <<identities, transactions, links, faults, discussion>>

UpdatePost(r) ==
    /\ On(r, "update_post")
    /\ thread' = IF Exists("post") THEN [thread EXCEPT !["post"].state = "changed"] ELSE thread
    /\ Done(r)
    /\ UNCHANGED <<identities, transactions, links, faults, comments, commented, inbox, changes>>

DeletePost(r) ==
    /\ On(r, "delete_post")
    /\ Remove("post")
    /\ Done(r)
    /\ UNCHANGED <<identities, transactions, links, faults, commented, changes>>

DeleteComment(r) ==
    /\ On(r, "delete_comment")
    /\ IF call[r].got \in comments
       THEN /\ comments' = comments \ Subtree(call[r].got)
            /\ inbox' = inbox \ About(Subtree(call[r].got))
       ELSE UNCHANGED <<comments, inbox>>
    /\ Done(r)
    /\ UNCHANGED <<identities, transactions, links, faults, thread, commented, changes>>

----------------------------------------------------------------------------
\* read_account_notification and read_site_notification; read_all_site_notifications.

MarkRead(u, some) ==
    /\ Authenticated(u) /\ \E n \in some : n.to = u /\ ~n.read
    /\ inbox' = {IF n \in some /\ n.to = u THEN [n EXCEPT !.read = TRUE] ELSE n : n \in inbox}
    /\ UNCHANGED <<accountVars, thread, comments, commented, changes>>

ReadNotification(u) == \E n \in inbox : MarkRead(u, {n})

ReadAll(u) == MarkRead(u, inbox)

DiscussionStep ==
    \/ \E r \in Requests :
         \/ Open(r) \/ TellStaff(r) \/ AskComment(r) \/ Comment(r) \/ TellComment(r)
         \/ Status(r) \/ SetStatus(r) \/ TellStatus(r) \/ DeleteTicket(r)
         \/ EditPermission(r) \/ UpdatePost(r) \/ DeletePost(r) \/ DeleteComment(r)
    \/ \E u \in Users : ReadNotification(u) \/ ReadAll(u)

DiscussionTypeOK ==
    /\ thread \in [Places -> [owner : Users \cup {Nobody}, state : States \cup {"none", "deleted"}]]
    /\ \A c \in comments : c.on \in Places /\ c.by \in Users /\ c.id \in 1..commented /\ c.parent \in 0..commented
    /\ commented \in 0..MaxComments /\ changes \in Nat
    /\ \A n \in inbox : n.to \in Users /\ n.read \in BOOLEAN

Told(u, kind, id) == \E n \in inbox : n.to = u /\ n.kind = kind /\ n.id = id

Quiet == \A r \in Requests : call[r].pc \in {"idle", "done"}

\* Once all requests are answered, the owner of a post or ticket has every comment that
\* somebody else made and that is still there, and every change of status, in the inbox,
\* the staff has the comments of users on tickets, and nobody has a notification about
\* what was deleted: no statement having failed, comment and notification go together
\* although no transaction holds them together.
NewsArrives ==
    Quiet /\ faults = 0 =>
        /\ \A c \in comments :
             /\ c.by # thread[c.on].owner => Told(thread[c.on].owner, "comment", c.id)
             /\ c.on = "ticket" /\ c.by \notin Staff => \A u \in Staff : Told(u, "comment", c.id)
        /\ Exists("ticket") /\ thread["ticket"].owner \notin Staff =>
             \A i \in 1..changes : Told(thread["ticket"].owner, "status", i)
        /\ \A n \in inbox : n.kind = "comment" => \E c \in comments : c.id = n.id
=============================================================================
