---------------------------- MODULE RelayService ----------------------------
(***************************************************************************)
(* The relay process around the key pool: the owner lease, the readiness   *)
(* that admits calls, and the shutdown that drains, flushes and hands the  *)
(* lease over.                                                             *)
(*                                                                         *)
(* The lease is a PostgreSQL advisory lock of one pooled session.  A       *)
(* session that breaks keeps its lock until the server notices.  Every     *)
(* await is a step boundary.  What a call does once it is let in is the    *)
(* subject of KeyPool: here it counts usage and ends.                      *)
(***************************************************************************)
EXTENDS Naturals, FiniteSets

CONSTANTS
    Relays,        \* relay processes, 1..n in the order they are started; a
                   \* restart is another process
    Slots,         \* places in a relay's connection pool
    Calls,         \* concurrent POST /v1/call requests
    Watched,       \* bound: the relays that get health requests and whose usage is
                   \* followed
    Nobody,        \* no session, no relay
    MaxFaults      \* bound: broken sessions, failed statements, crashes and
                   \* disconnected clients, together

ASSUME ServiceAssumption ==
    /\ Relays \subseteq Nat /\ Watched \subseteq Relays
    /\ Nobody \notin Relays \cup Relays \X Slots
    /\ MaxFaults \in Nat

VARIABLES
    \* PostgreSQL: each session, and the advisory lock: the session that holds
    \* it and how often
    link, lock,
    \* OwnerLease.connection, and where the owner task is
    lease, task,
    \* the process: its phase, accepting, ready, the number of requests begun
    \* and not finished, and the health request between its checks and its store
    phase, accepting, ready, active, health,
    \* usage counted and not flushed, and whether sync_all_usage is running
    unflushed, syncing,
    \* the calls
    call,
    \* history: whose lock the server dropped, shutdowns that gave up waiting or
    \* could not flush, what has happened so far
    lost, gaveUp, faults

sessions == <<link, lock, lease>>
process == <<phase, accepting, ready, active, health>>
usage == <<unflushed, syncing>>
history == <<lost, gaveUp, faults>>
vars == <<sessions, task, process, usage, call, history>>

Sessions == Relays \X Slots

SessionsOf(r) == {r} \X Slots

Phases == {"unborn", "down", "booting", "up", "draining", "stopping", "flushing", "releasing",
           "closing", "closed"}

\* The listener answers until the future given to with_graceful_shutdown ends.
Serving(r) == phase[r] \in Phases \ {"unborn", "down", "booting", "closed"}

\* AppState::dispatch lets a call through to the provider.
Admits(r) == Serving(r) /\ accepting[r] /\ ready[r]

NoCall == [pc |-> "idle", relay |-> Nobody]

Free == [by |-> Nobody, depth |-> 0]

Fault == faults < MaxFaults /\ faults' = faults + 1

Init ==
    /\ link = [s \in Sessions |-> "none"]
    /\ lock = Free
    /\ lease = [r \in Relays |-> Nobody]
    /\ task = [r \in Relays |-> "asleep"]
    /\ phase = [r \in Relays |-> "unborn"]
    /\ accepting = [r \in Relays |-> FALSE]
    /\ ready = [r \in Relays |-> FALSE]
    /\ active = [r \in Relays |-> 0]
    /\ health = [r \in Relays |-> "none"]
    /\ unflushed = [r \in Relays |-> FALSE]
    /\ syncing = [r \in Relays |-> FALSE]
    /\ call = [c \in Calls |-> NoCall]
    /\ lost = {} /\ gaveUp = {} /\ faults = 0

----------------------------------------------------------------------------
\* PostgreSQL.

\* A session breaks: the client gets errors from now on, the server still holds
\* the session's lock.
Break(s) ==
    /\ Fault
    /\ link[s] = "open"
    /\ link' = [link EXCEPT ![s] = "broken"]
    /\ UNCHANGED <<lock, lease, task, process, usage, call, lost, gaveUp>>

\* The server notices and ends the session, and its lock with it.
Notice(s) ==
    /\ link[s] = "broken"
    /\ link' = [link EXCEPT ![s] = "none"]
    /\ lock' = IF lock.by = s THEN Free ELSE lock
    /\ lost' = IF lock.by = s /\ phase[s[1]] # "down" THEN lost \cup {s[1]} ELSE lost
    /\ UNCHANGED <<lease, task, process, usage, call, gaveUp, faults>>

\* The sessions the pool may hand out: an idle one, or a new one.  RecyclingMethod
\* Fast replaces a session that is closed and looks no further.
Idle(r) == {s \in SessionsOf(r) : link[s] \in {"open", "none"} /\ s # lease[r]}

\* Mutant: the answer of pg_try_advisory_lock is not looked at.
MayLockAlways(s) == lock.by = lock.by

\* pg_try_advisory_lock: another time for a session that holds it already.
MayLock(s) == lock.by \in {Nobody, s}

Locked(s) == [by |-> s, depth |-> lock.depth + 1]

----------------------------------------------------------------------------
\* Start: build_state.

\* OwnerLease::acquire.  A process that finds the lock taken exits.
Acquire(r) ==
    /\ phase[r] = "unborn"
    /\ \A q \in Relays : q < r => phase[q] # "unborn"
    /\ \E s \in Idle(r) :
         /\ link[s] = "none"
         /\ IF MayLock(s)
            THEN /\ link' = [link EXCEPT ![s] = "open"]
                 /\ lock' = Locked(s)
                 /\ lease' = [lease EXCEPT ![r] = s]
                 /\ phase' = [phase EXCEPT ![r] = "booting"]
                 /\ lost' = lost \ {r}
            ELSE /\ phase' = [phase EXCEPT ![r] = "down"]
                 /\ UNCHANGED <<sessions, lost>>
    /\ UNCHANGED <<task, accepting, ready, active, health, usage, call, gaveUp,
                   faults>>

\* The rest of build_state, start_runtime_tasks and the bind: the relay takes
\* itself for the owner, and the first synchronisation starts.
Started(r) ==
    /\ phase[r] = "booting"
    /\ phase' = [phase EXCEPT ![r] = "up"]
    /\ accepting' = [accepting EXCEPT ![r] = TRUE]
    /\ ready' = [ready EXCEPT ![r] = TRUE]
    /\ syncing' = [syncing EXCEPT ![r] = r \in Watched]
    /\ UNCHANGED <<sessions, task, active, health, unflushed, call, history>>

\* The process is gone: at a failed start, or killed.  Its memory, its requests
\* and its end of the sessions go with it.
Gone(r) ==
    /\ phase' = [phase EXCEPT ![r] = "down"]
    /\ accepting' = [accepting EXCEPT ![r] = FALSE]
    /\ ready' = [ready EXCEPT ![r] = FALSE]
    /\ active' = [active EXCEPT ![r] = 0]
    /\ health' = [health EXCEPT ![r] = "none"]
    /\ task' = [task EXCEPT ![r] = "asleep"]
    /\ lease' = [lease EXCEPT ![r] = Nobody]
    /\ link' = [s \in Sessions |->
                  IF s[1] = r /\ link[s] = "open" THEN "broken" ELSE link[s]]
    /\ unflushed' = [unflushed EXCEPT ![r] = FALSE]
    /\ syncing' = [syncing EXCEPT ![r] = FALSE]
    /\ call' = [c \in Calls |-> IF call[c].relay = r THEN NoCall ELSE call[c]]
    /\ lost' = lost \ {r}
    /\ gaveUp' = gaveUp \ {r}
    /\ UNCHANGED lock

Crash(r) == phase[r] \notin {"unborn", "down"} /\ Fault /\ Gone(r)

----------------------------------------------------------------------------
\* The owner task, every five seconds until it is stopped: ensure_healthy, and
\* the store of its answer.  The connection's mutex is held in between.

LeaseAnswers(r) == IF lease[r] = Nobody THEN FALSE ELSE link[lease[r]] = "open"

CheckLease(r) ==
    /\ task[r] = "asleep" /\ phase[r] \in {"up", "draining"}
    /\ IF LeaseAnswers(r)
       THEN /\ task' = [task EXCEPT ![r] = "yes"]
            /\ UNCHANGED lease
       ELSE /\ task' = [task EXCEPT ![r] = "retry"]
            /\ lease' = [lease EXCEPT ![r] = Nobody]
    /\ UNCHANGED <<link, lock, process, usage, call, history>>

\* SELECT 1 fails on a session that lives (statement_timeout): the session goes
\* back to the pool with its lock.
CheckCancelled(r) ==
    /\ Fault
    /\ task[r] = "asleep" /\ phase[r] \in {"up", "draining"}
    /\ LeaseAnswers(r)
    /\ task' = [task EXCEPT ![r] = "retry"]
    /\ lease' = [lease EXCEPT ![r] = Nobody]
    /\ UNCHANGED <<link, lock, process, usage, call, lost, gaveUp>>

\* Mutant: a relay without a lease keeps what it believed.
RetryLeaseKeeps(r) ==
    /\ task[r] = "retry"
    /\ task' = [task EXCEPT ![r] = IF ready[r] THEN "yes" ELSE "no"]
    /\ UNCHANGED <<sessions, process, usage, call, history>>

\* A connection, if there is one, tries the lock.
RetryLease(r) ==
    /\ task[r] = "retry"
    /\ \/ \E s \in Idle(r) :
            /\ link' = [link EXCEPT ![s] = "open"]
            /\ IF MayLock(s)
               THEN /\ lock' = Locked(s)
                    /\ lease' = [lease EXCEPT ![r] = s]
                    /\ lost' = lost \ {r}
                    /\ task' = [task EXCEPT ![r] = "yes"]
               ELSE /\ task' = [task EXCEPT ![r] = "no"]
                    /\ UNCHANGED <<lock, lease, lost>>
       \/ /\ Idle(r) = {}
          /\ task' = [task EXCEPT ![r] = "no"]
          /\ UNCHANGED <<sessions, lost>>
    /\ UNCHANGED <<process, usage, call, gaveUp, faults>>

StoreReady(r) ==
    /\ task[r] \in {"yes", "no"}
    /\ ready' = [ready EXCEPT ![r] = task[r] = "yes"]
    /\ task' = [task EXCEPT ![r] = "asleep"]
    /\ UNCHANGED <<sessions, phase, accepting, active, health, usage, call,
                   history>>

\* GET /health asks the database and the lease (is_healthy waits for the mutex)
\* and stores the answer later, whatever the owner task has found out since.
AskHealth(r) ==
    /\ r \in Watched
    /\ Serving(r) /\ health[r] = "none" /\ task[r] # "retry"
    /\ health' = [health EXCEPT ![r] = IF LeaseAnswers(r) THEN "yes" ELSE "no"]
    /\ UNCHANGED <<sessions, task, phase, accepting, ready, active, usage, call,
                   history>>

StoreHealth(r) ==
    /\ health[r] # "none"
    /\ ready' = [ready EXCEPT ![r] = health[r] = "yes"]
    /\ health' = [health EXCEPT ![r] = "none"]
    /\ UNCHANGED <<sessions, task, phase, accepting, active, usage, call, history>>

----------------------------------------------------------------------------
\* A call: metrics.begin, AppState::dispatch, the operation, metrics.finish.

Begin(c, r) ==
    /\ call[c].pc = "idle" /\ Serving(r)
    /\ active' = [active EXCEPT ![r] = @ + 1]
    /\ call' = [call EXCEPT ![c] = [pc |-> "admit", relay |-> r]]
    /\ UNCHANGED <<sessions, task, phase, accepting, ready, health, usage, history>>

\* accepting and ready are read; a call that is not let in is answered at once.
Dispatch(c) ==
    /\ call[c].pc = "admit"
    /\ call' = [call EXCEPT ![c].pc = IF Admits(call[c].relay) THEN "working" ELSE "answer"]
    /\ UNCHANGED <<sessions, task, process, usage, history>>

\* The operation ends with data or an error.  The provider calls it made are
\* counted, each before it is sent; an operation may also have needed none.
Worked(c) ==
    /\ call[c].pc = "working"
    /\ call' = [call EXCEPT ![c].pc = "answer"]
    /\ \E counted \in BOOLEAN :
         unflushed' = IF counted /\ call[c].relay \in Watched
                      THEN [unflushed EXCEPT ![call[c].relay] = TRUE] ELSE unflushed
    /\ UNCHANGED <<sessions, task, process, syncing, history>>

Finish(c) ==
    /\ call[c].pc = "answer"
    /\ active' = [active EXCEPT ![call[c].relay] = @ - 1]
    /\ call' = [call EXCEPT ![c] = NoCall]
    /\ UNCHANGED <<sessions, task, phase, accepting, ready, health, usage, history>>

\* The client disconnects: the handler's future is dropped and finish is not
\* reached, so the relay goes on counting the call.
Disconnected(c) ==
    /\ Fault
    /\ call[c].pc # "idle"
    /\ call' = [call EXCEPT ![c] = NoCall]
    /\ UNCHANGED <<sessions, task, process, usage, lost, gaveUp>>

----------------------------------------------------------------------------
\* The usage tasks: the flush every 60 s, and the synchronisation, which counts the
\* calls it makes to the provider.  The first one, which starts with the relay and
\* may last, stands for the hourly ones.

FlushUsage(r) ==
    /\ phase[r] \in {"up", "draining"} /\ unflushed[r]
    /\ unflushed' = [unflushed EXCEPT ![r] = FALSE]
    /\ UNCHANGED <<sessions, task, process, syncing, call, history>>

SyncEnd(r) ==
    /\ syncing[r]
    /\ syncing' = [syncing EXCEPT ![r] = FALSE]
    /\ unflushed' = [unflushed EXCEPT ![r] = TRUE]
    /\ UNCHANGED <<sessions, task, process, call, history>>

----------------------------------------------------------------------------
\* Shutdown, in the order of AppState::shutdown.

Advance(r, from, to) == phase[r] = from /\ phase' = [phase EXCEPT ![r] = to]

Signal(r) ==
    /\ Advance(r, "up", "draining")
    /\ accepting' = [accepting EXCEPT ![r] = FALSE]
    /\ UNCHANGED <<sessions, task, ready, active, health, usage, call, history>>

\* Mutant: the drain has no deadline.
DrainedOnly(r) ==
    /\ Advance(r, "draining", "stopping")
    /\ active[r] = 0
    /\ UNCHANGED <<sessions, task, accepting, ready, active, health, usage, call,
                   history>>

\* Every request has finished, or SHUTDOWN_DRAIN_TIMEOUT_MS is over.
Drained(r) ==
    /\ Advance(r, "draining", "stopping")
    /\ \/ active[r] = 0 /\ UNCHANGED gaveUp
       \/ active[r] > 0 /\ gaveUp' = gaveUp \cup {r}
    /\ UNCHANGED <<sessions, task, accepting, ready, active, health, usage, call,
                   lost, faults>>

\* Mutant: the tasks are told to stop and not waited for.
TasksStoppedEarly(r) ==
    /\ Advance(r, "stopping", "flushing")
    /\ UNCHANGED <<sessions, task, accepting, ready, active, health, usage, call,
                   history>>

\* RuntimeTasks::shutdown waits for the iteration each task is in.
TasksStopped(r) ==
    /\ Advance(r, "stopping", "flushing")
    /\ task[r] = "asleep" /\ ~syncing[r]
    /\ UNCHANGED <<sessions, task, accepting, ready, active, health, usage, call,
                   history>>

\* The last flush; an error is logged and the usage is gone.
FlushLast(r) ==
    /\ Advance(r, "flushing", "releasing")
    /\ \/ unflushed' = [unflushed EXCEPT ![r] = FALSE] /\ UNCHANGED <<gaveUp, faults>>
       \/ Fault /\ gaveUp' = gaveUp \cup {r} /\ UNCHANGED unflushed
    /\ UNCHANGED <<sessions, task, accepting, ready, active, health, syncing, call,
                   lost>>

\* OwnerLease::release unlocks once, if the session still answers.
Release(r) ==
    /\ Advance(r, "releasing", "closing")
    /\ lease' = [lease EXCEPT ![r] = Nobody]
    /\ lock' = CASE ~LeaseAnswers(r) -> lock
                 [] LeaseAnswers(r) /\ lock.depth > 1 -> [lock EXCEPT !.depth = @ - 1]
                 [] OTHER -> Free
    /\ UNCHANGED <<link, task, accepting, ready, active, health, usage, call,
                   history>>

\* Database::close ends every idle session, and with it a lock that a session
\* took twice or kept in the pool.
Close(r) ==
    /\ Advance(r, "closing", "closed")
    /\ link' = [s \in Sessions |->
                  IF s[1] = r /\ link[s] = "open" THEN "none" ELSE link[s]]
    /\ lock' = IF \E s \in SessionsOf(r) : s = lock.by /\ link[s] = "open" THEN Free ELSE lock
    /\ UNCHANGED <<lease, task, accepting, ready, active, health, usage, call,
                   history>>

\* axum waits for the requests that are still running; then main returns.
Exit(r) ==
    /\ phase[r] = "closed"
    /\ \A c \in Calls : call[c].relay # r
    /\ health[r] = "none"
    /\ Gone(r)
    /\ UNCHANGED faults

----------------------------------------------------------------------------
RelaySteps(r) ==
    \/ Acquire(r) \/ Started(r) \/ Crash(r)
    \/ CheckLease(r) \/ CheckCancelled(r) \/ RetryLease(r) \/ StoreReady(r)
    \/ AskHealth(r) \/ StoreHealth(r)
    \/ FlushUsage(r) \/ SyncEnd(r)
    \/ Signal(r) \/ Drained(r) \/ TasksStopped(r) \/ FlushLast(r) \/ Release(r) \/ Close(r) \/ Exit(r)

CallSteps(c) ==
    \/ \E r \in Relays : Begin(c, r)
    \/ Dispatch(c) \/ Worked(c) \/ Finish(c) \/ Disconnected(c)

Next ==
    \/ \E s \in Sessions : Break(s) \/ Notice(s)
    \/ \E r \in Relays : RelaySteps(r)
    \/ \E c \in Calls : CallSteps(c)

OwnerTask(r) == CheckLease(r) \/ RetryLease(r) \/ StoreReady(r)

Main(r) ==
    \/ Started(r)
    \/ Drained(r) \/ TasksStopped(r) \/ FlushLast(r) \/ Release(r) \/ Close(r) \/ Exit(r)

Handler(c) == Dispatch(c) \/ Worked(c) \/ Finish(c)

\* The server notices broken sessions (TCP keepalive).  The owner task, a health
\* request, a synchronisation, a start and a shutdown go on, each a sequence of
\* steps with a timeout; so does a call, whose statements and provider requests
\* have timeouts.  Of the disjuncts of a sequence at most one is enabled at a time.
Fairness ==
    /\ WF_vars(\E s \in Sessions : Notice(s))
    /\ \A r \in Relays : WF_vars(OwnerTask(r)) /\ WF_vars(Main(r))
    /\ \A r \in Watched : WF_vars(StoreHealth(r)) /\ WF_vars(SyncEnd(r))
    /\ \A c \in Calls : WF_vars(Handler(c))

Spec == Init /\ [][Next]_vars /\ Fairness

----------------------------------------------------------------------------
TypeOK ==
    /\ link \in [Sessions -> {"none", "open", "broken"}]
    /\ lock \in [by : Sessions \cup {Nobody}, depth : Nat]
    /\ lease \in [Relays -> Sessions \cup {Nobody}]
    /\ task \in [Relays -> {"asleep", "retry", "yes", "no"}]
    /\ phase \in [Relays -> Phases]
    /\ accepting \in [Relays -> BOOLEAN] /\ ready \in [Relays -> BOOLEAN]
    /\ active \in [Relays -> Nat]
    /\ health \in [Relays -> {"none", "yes", "no"}]
    /\ unflushed \in [Relays -> BOOLEAN] /\ syncing \in [Relays -> BOOLEAN]
    /\ call \in [Calls -> [pc : {"idle", "admit", "working", "answer"},
                           relay : Relays \cup {Nobody}]]
    /\ lost \subseteq Relays /\ gaveUp \subseteq Relays
    /\ faults \in 0..MaxFaults

Owner == IF lock.by = Nobody THEN Nobody ELSE lock.by[1]

Ownership == INSTANCE RelayOwnership
                 WITH owner <- Owner, admits <- {r \in Relays : Admits(r)}, lost <- lost

\* The lease, the two writers of `ready`, the pool that may keep a lock and the
\* shutdown together implement RelayOwnership: the lock passes from one relay to
\* the next only by way of nobody, a relay opens to calls only as the owner or as
\* one that lost the lock without knowing, and never gives the lock back open
\* (the single-owner lease and the graceful drain of the relay's README).
SingleOwner == Ownership!Spec

\* Once a shutdown whose drain did not run into its deadline goes on to stop the
\* tasks and release the lease, no call of that relay is at the provider: a call
\* is counted before it reads `accepting`, and `accepting` is cleared before the
\* count is read.
QuietAfterDrain ==
    \A r \in Relays \ gaveUp :
        phase[r] \in {"stopping", "flushing", "releasing", "closing", "closed"} =>
            \A c \in Calls : call[c].relay = r => call[c].pc # "working"

\* The last flush is the last: when the lease goes to the next owner, no usage is
\* left in the memory of a relay that drained and could flush, neither from its
\* calls nor from its synchronisation task.
UsageHandedOver ==
    \A r \in Relays \ gaveUp : phase[r] \in {"closing", "closed"} => ~unflushed[r]

\* While relays are up it comes about, again and again, that one of them holds the
\* lock and none that lost it still admits calls: the owner tasks find out about
\* broken sessions and retake the lock (a dead connection retained without
\* reacquisition "leaves the relay permanently unable to serve provider calls",
\* owner_lease.rs).
LeaseSettles ==
    (\E r \in Relays : phase[r] = "up")
        ~> \/ Owner # Nobody /\ \A r \in lost : ~Admits(r)
           \/ \A r \in Relays : phase[r] # "up"

\* Relays told to stop end, whatever their calls, their clients and their leases do.
Ending == {r \in Relays : phase[r] \in Phases \ {"unborn", "booting", "up", "down"}}

ShutdownEnds == Ending # {} ~> Ending = {}

\* A relay that hands its lease on leaves nothing behind: no call at the provider
\* and no usage that only its memory knows.
HandoverIsClean == QuietAfterDrain /\ UsageHandedOver
=============================================================================
