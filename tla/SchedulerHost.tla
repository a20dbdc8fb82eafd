--------------------------- MODULE SchedulerHost ---------------------------
(***************************************************************************)
(* One scheduler domain of the background worker: the processes that       *)
(* compete for its row of worker_scheduler_ownership, the clock loop of    *)
(* the process that holds it (run_scheduler_domain), and the job tasks     *)
(* that loop spawns, each of which takes a row of worker_job_leases.       *)
(*                                                                         *)
(* Time is a count-down.  A lease is the number of ticks until its         *)
(* lease_until passes now(), so the state space is finite and cyclic.  A   *)
(* tick may pass only when no process is behind its own timers: the        *)
(* runtime polls its select loop in time (see Tick).                       *)
(***************************************************************************)
EXTENDS Integers

CONSTANTS
    Owners,              \* owner_id values of the competing processes
    NoOwner,             \* the owner of a row that does not exist
    Jobs,                \* job_key values scheduled in this domain
    Timetables,          \* bound: per process, the jobs that come due in a behaviour
    StartupJobs,         \* the jobs whose StartupPolicy is not None
    Discovery,           \* "auto-ingester:discovery"
    BufferDrain,         \* "auto-ingester:buffer-drain"
    OwnershipHeartbeat,  \* OWNERSHIP_HEARTBEAT, in ticks
    HeartbeatTimeout,    \* OWNERSHIP_HEARTBEAT_TIMEOUT
    OwnershipLease,      \* OWNERSHIP_LEASE
    StartupLease,        \* STARTUP_OWNERSHIP_LEASE
    JobLease,            \* JOB_LEASE
    MaxReply,            \* the longest delay of the first acquisition's reply
    Shutdowns,           \* TRUE: processes may receive a shutdown signal
    JobsWithinLease      \* TRUE: every run ends before its job lease does

ASSUME OwnersAssumption == NoOwner \notin Owners

ASSUME JobsAssumption ==
    /\ StartupJobs \subseteq Jobs
    /\ Timetables \subseteq [Owners -> SUBSET Jobs]

ASSUME FlagsAssumption == Shutdowns \in BOOLEAN /\ JobsWithinLease \in BOOLEAN

\* The code's 15 s, 15 s, 60 s, 300 s and 3600 s satisfy these with a reply
\* delay of up to 269 s.
ASSUME TimingAssumption ==
    /\ OwnershipHeartbeat \in Nat \ {0}
    /\ HeartbeatTimeout \in Nat \ {0}
    /\ MaxReply \in Nat
    /\ JobLease \in Nat \ {0}
    /\ OwnershipLease \in Nat
    /\ StartupLease \in Nat
    /\ OwnershipLease > OwnershipHeartbeat + HeartbeatTimeout
    /\ StartupLease > MaxReply + OwnershipHeartbeat + HeartbeatTimeout

VARIABLES
    assigned,  \* worker_scheduler_assignments.desired_engine = 'rust'
    timetable, \* the one of Timetables for this behaviour
    domain,    \* the domain's row of worker_scheduler_ownership
    lease,     \* per job, its row of worker_job_leases
    phase,     \* per process, where run_scheduler_domain stands
    grace,     \* per process, ticks until its next heartbeat must be answered
    pc,        \* per task, its position in execute_scheduled_job
    cur,       \* per task, the job it executes now
    left       \* per task, history: ticks left of the job lease it was granted

vars == <<assigned, timetable, domain, lease, phase, grace, pc, cur, left>>

Triggers == {"startup", "cron"}

\* A task is named by its process, the job it was spawned for and the trigger:
\* startup_handles holds one per startup job, `active` one per job key.
Tasks == Owners \X Jobs \X Triggers

Phases == {"off", "contending", "starting", "loop", "aborting", "draining"}

Positions == {"none", "waiting", "acquire", "start", "run", "release", "undo"}

Rows == [owner : Owners \cup {NoOwner}, ttl : Nat]

Row(o, n) == [owner |-> o, ttl |-> n]

NoRow == Row(NoOwner, 0)

TasksOf(o) == {t \in Tasks : t[1] = o}

Active(t) == pc[t] # "none"

\* The task has been granted its job lease and has not given it back.
Holding(t) == pc[t] \in {"start", "run", "release", "undo"}

\* ownership.owner_id = o AND ownership.lease_until > now()
Live(o) == domain.owner = o /\ domain.ttl > 0

----------------------------------------------------------------------------
Init ==
    /\ assigned \in BOOLEAN
    /\ timetable \in Timetables
    /\ domain = NoRow
    /\ lease = [j \in Jobs |-> NoRow]
    /\ phase = [o \in Owners |-> "off"]
    /\ grace = [o \in Owners |-> 0]
    /\ pc = [t \in Tasks |-> "none"]
    /\ cur = [t \in Tasks |-> t[2]]
    /\ left = [t \in Tasks |-> 0]

\* A worker process starts.  Its owner_id carries a fresh UUID: an identity is
\* used again only when no row mentions it any more.
StartProcess(o) ==
    /\ phase[o] = "off"
    /\ domain.owner # o
    /\ \A j \in Jobs : lease[j].owner # o
    /\ phase' = [phase EXCEPT ![o] = "contending"]
    /\ UNCHANGED <<assigned, timetable, domain, lease, grace, pc, cur, left>>

\* Mutant: the upsert lacks its condition on lease_until.
AcquireWithoutExpiry(o) ==
    /\ phase[o] = "contending"
    /\ assigned
    /\ domain' = Row(o, StartupLease)
    /\ phase' = [phase EXCEPT ![o] = "starting"]
    /\ grace' = [grace EXCEPT ![o] = MaxReply]
    /\ UNCHANGED <<assigned, timetable, lease, pc, cur, left>>

\* Mutant: the upsert is a plain insert, which an expired row blocks for ever.
AcquireByInsertOnly(o) ==
    /\ phase[o] = "contending"
    /\ assigned
    /\ domain.owner = NoOwner
    /\ domain' = Row(o, StartupLease)
    /\ phase' = [phase EXCEPT ![o] = "starting"]
    /\ grace' = [grace EXCEPT ![o] = MaxReply]
    /\ UNCHANGED <<assigned, timetable, lease, pc, cur, left>>

\* The upsert of acquire_scheduler_owner takes the row.  When it does not,
\* run_all_schedulers retries, which changes nothing here.
AcquireSchedulerOwner(o) ==
    /\ phase[o] = "contending"
    /\ assigned
    /\ domain.ttl = 0 \/ domain.owner = o
    /\ domain' = Row(o, StartupLease)
    /\ phase' = [phase EXCEPT ![o] = "starting"]
    /\ grace' = [grace EXCEPT ![o] = MaxReply]
    /\ UNCHANGED <<assigned, timetable, lease, pc, cur, left>>

\* The acquisition's answer arrives: the startup tasks are spawned and the
\* first tick of the heartbeat interval is consumed at once.
EnterLoop(o) ==
    /\ phase[o] = "starting"
    /\ phase' = [phase EXCEPT ![o] = "loop"]
    /\ grace' = [grace EXCEPT ![o] = OwnershipHeartbeat + HeartbeatTimeout]
    /\ pc' = [t \in Tasks |->
                IF t[1] = o /\ t[2] \in StartupJobs /\ t[3] = "startup"
                  THEN "waiting" ELSE pc[t]]
    /\ UNCHANGED <<assigned, timetable, domain, lease, cur, left>>

HeartbeatDue(o) == phase[o] = "loop" /\ grace[o] <= HeartbeatTimeout

\* The UPDATE of heartbeat_scheduler_owner matches its row.
Renewable(o) == Live(o) /\ assigned

\* The heartbeat renews the lease and its answer arrives in time.
Heartbeat(o) ==
    /\ HeartbeatDue(o)
    /\ Renewable(o)
    /\ domain' = Row(o, OwnershipLease)
    /\ grace' = [grace EXCEPT ![o] = @ + OwnershipHeartbeat]
    /\ UNCHANGED <<assigned, timetable, lease, phase, pc, cur, left>>

\* The heartbeat returns false, fails or times out.  In the last two cases the
\* database may have applied it.  should_stop is set and the tasks are aborted.
HeartbeatLost(o) ==
    /\ HeartbeatDue(o)
    /\ phase' = [phase EXCEPT ![o] = "aborting"]
    /\ grace' = [grace EXCEPT ![o] = 0]
    /\ \/ domain' = domain
       \/ Renewable(o) /\ domain' = Row(o, OwnershipLease)
    /\ UNCHANGED <<assigned, timetable, lease, pc, cur, left>>

\* The clock branch of the select loop: the due jobs that are not active are
\* spawned.  Which of the timetable's jobs are due is left open.
ClockTick(o, due) ==
    /\ phase[o] = "loop"
    /\ \A j \in due : ~Active(<<o, j, "cron">>)
    /\ pc' = [t \in Tasks |->
                IF t[1] = o /\ t[2] \in due /\ t[3] = "cron"
                  THEN "acquire" ELSE pc[t]]
    /\ UNCHANGED <<assigned, timetable, domain, lease, phase, grace, cur, left>>

\* A shutdown signal ends the loop.  No heartbeat is sent from here on.
Shutdown(o) ==
    /\ Shutdowns
    /\ phase[o] = "loop"
    /\ phase' = [phase EXCEPT ![o] = "draining"]
    /\ grace' = [grace EXCEPT ![o] = 0]
    /\ UNCHANGED <<assigned, timetable, domain, lease, pc, cur, left>>

\* Mutant: the process exits only when there is a row of its own to release.
ReleaseOnlyOwnRow(o) ==
    /\ phase[o] \in {"aborting", "draining"}
    /\ \A t \in TasksOf(o) : ~Active(t)
    /\ domain.owner = o /\ domain' = NoRow
    /\ phase' = [phase EXCEPT ![o] = "off"]
    /\ UNCHANGED <<assigned, timetable, lease, grace, pc, cur, left>>

\* All tasks have ended: release_scheduler_owner, whose failure is ignored.
ReleaseSchedulerOwner(o) ==
    /\ phase[o] \in {"aborting", "draining"}
    /\ \A t \in TasksOf(o) : ~Active(t)
    /\ \/ domain' = domain
       \/ domain.owner = o /\ domain' = NoRow
    /\ phase' = [phase EXCEPT ![o] = "off"]
    /\ UNCHANGED <<assigned, timetable, lease, grace, pc, cur, left>>

\* The process dies.  A statement it had sent and that the database applied is
\* that statement's own action, taken just before.
Crash(o) ==
    /\ phase[o] # "off"
    /\ phase' = [phase EXCEPT ![o] = "off"]
    /\ grace' = [grace EXCEPT ![o] = 0]
    /\ pc' = [t \in Tasks |-> IF t[1] = o THEN "none" ELSE pc[t]]
    /\ cur' = [t \in Tasks |-> IF t[1] = o THEN t[2] ELSE cur[t]]
    /\ left' = [t \in Tasks |-> IF t[1] = o THEN 0 ELSE left[t]]
    /\ UNCHANGED <<assigned, timetable, domain, lease>>

\* The operator edits worker_scheduler_assignments.
Reassign ==
    /\ assigned' = ~assigned
    /\ UNCHANGED <<timetable, domain, lease, phase, grace, pc, cur, left>>

----------------------------------------------------------------------------
\* The task's future has completed or was dropped.
End(t) ==
    /\ pc' = [pc EXCEPT ![t] = "none"]
    /\ cur' = [cur EXCEPT ![t] = t[2]]
    /\ left' = [left EXCEPT ![t] = 0]

\* wait_for_startup_delay: the sleep ends.  When should_stop is set, this races
\* with wait_for_stop.
StartupDelayElapsed(t) ==
    /\ pc[t] = "waiting"
    /\ pc' = [pc EXCEPT ![t] = "acquire"]
    /\ UNCHANGED <<assigned, timetable, domain, lease, phase, grace, cur, left>>

StopWaiting(t) ==
    /\ pc[t] = "waiting"
    /\ phase[t[1]] = "draining"
    /\ End(t)
    /\ UNCHANGED <<assigned, timetable, domain, lease, phase, grace>>

\* The upsert of acquire_job takes the row: the job has no unexpired lease of a
\* process that still owns the domain, and the caller owns it.
JobAvailable(o, j) ==
    /\ Live(o)
    /\ lease[j].ttl = 0 \/ ~Live(lease[j].owner)

GrantJob(o, j) == lease' = [lease EXCEPT ![j] = Row(o, JobLease)]

AcquireJob(t) ==
    /\ pc[t] = "acquire"
    /\ JobAvailable(t[1], cur[t])
    /\ GrantJob(t[1], cur[t])
    /\ pc' = [pc EXCEPT ![t] = "start"]
    /\ left' = [left EXCEPT ![t] = JobLease]
    /\ UNCHANGED <<assigned, timetable, domain, phase, grace, cur>>

\* acquire_job returns None or an error.  After an error the row may have been
\* taken all the same: nobody gives it back before it expires.
AcquireJobRefused(t) ==
    /\ pc[t] = "acquire"
    /\ \/ lease' = lease
       \/ JobAvailable(t[1], cur[t]) /\ GrantJob(t[1], cur[t])
    /\ End(t)
    /\ UNCHANGED <<assigned, timetable, domain, phase, grace>>

\* start_run inserts the run-log row, or fails and the lease is given back.
StartRun(t) ==
    /\ pc[t] = "start"
    /\ \E next \in {"run", "undo"} : pc' = [pc EXCEPT ![t] = next]
    /\ UNCHANGED <<assigned, timetable, domain, lease, phase, grace, cur, left>>

\* dispatch returns, and finish_run closes the run-log row or fails.
FinishRun(t) ==
    /\ pc[t] = "run"
    /\ pc' = [pc EXCEPT ![t] = "release"]
    /\ UNCHANGED <<assigned, timetable, domain, lease, phase, grace, cur, left>>

\* execute_scheduled_sequence: an executed discovery is followed by a drain.
HasFollowUp(t) ==
    pc[t] = "release" /\ cur[t] = Discovery /\ BufferDrain \in Jobs

\* Mutant: the drain after a discovery runs without acquire_job.
FollowUpWithoutLease(t) ==
    /\ pc[t] \in {"release", "undo"}
    /\ lease' = [lease EXCEPT ![cur[t]] = NoRow]
    /\ IF HasFollowUp(t)
         THEN /\ pc' = [pc EXCEPT ![t] = "run"]
              /\ cur' = [cur EXCEPT ![t] = BufferDrain]
              /\ left' = [left EXCEPT ![t] = 0]
         ELSE End(t)
    /\ UNCHANGED <<assigned, timetable, domain, phase, grace>>

\* release_job deletes the row by job and owner; its failure is ignored.
ReleaseJob(t) ==
    /\ pc[t] \in {"release", "undo"}
    /\ \/ lease' = lease
       \/ /\ lease[cur[t]].owner = t[1]
          /\ lease' = [lease EXCEPT ![cur[t]] = NoRow]
    /\ IF HasFollowUp(t)
         THEN /\ pc' = [pc EXCEPT ![t] = "acquire"]
              /\ cur' = [cur EXCEPT ![t] = BufferDrain]
              /\ left' = [left EXCEPT ![t] = 0]
         ELSE End(t)
    /\ UNCHANGED <<assigned, timetable, domain, phase, grace>>

\* abort_scheduler_work: the task is dropped at an await point, whatever it was
\* doing.  It keeps any lease it had.
AbortTask(t) ==
    /\ Active(t)
    /\ phase[t[1]] = "aborting"
    /\ End(t)
    /\ UNCHANGED <<assigned, timetable, domain, lease, phase, grace>>

----------------------------------------------------------------------------
\* The time left until a moment that may have passed.
Dec(n) == IF n > 0 THEN n - 1 ELSE 0

Aged(row) == Row(row.owner, Dec(row.ttl))

\* No process is behind its timers: the heartbeat of a looping process has been
\* answered or has timed out, aborted tasks have stopped, and tasks waiting for
\* a startup delay have noticed should_stop.
InTime ==
    /\ \A o \in Owners : phase[o] \in {"starting", "loop"} => grace[o] > 0
    /\ \A t \in Tasks :
         /\ Active(t) => phase[t[1]] # "aborting"
         /\ pc[t] = "waiting" => phase[t[1]] # "draining"
         /\ JobsWithinLease /\ Holding(t) => left[t] > 1

\* One tick of time passes.
Tick ==
    /\ InTime
    /\ domain' = Aged(domain)
    /\ lease' = [j \in Jobs |-> Aged(lease[j])]
    /\ grace' = [o \in Owners |-> Dec(grace[o])]
    /\ left' = [t \in Tasks |-> Dec(left[t])]
    /\ UNCHANGED <<assigned, timetable, phase, pc, cur>>

HostStep(o) ==
    \/ StartProcess(o)
    \/ AcquireSchedulerOwner(o)
    \/ EnterLoop(o)
    \/ Heartbeat(o)
    \/ HeartbeatLost(o)
    \/ \E due \in SUBSET timetable[o] : ClockTick(o, due)
    \/ Shutdown(o)
    \/ ReleaseSchedulerOwner(o)
    \/ Crash(o)

TaskStep(t) ==
    \/ StartupDelayElapsed(t)
    \/ StopWaiting(t)
    \/ AcquireJob(t)
    \/ AcquireJobRefused(t)
    \/ StartRun(t)
    \/ FinishRun(t)
    \/ ReleaseJob(t)
    \/ AbortTask(t)

Next ==
    \/ \E o \in Owners : HostStep(o)
    \/ \E t \in Tasks : TaskStep(t)
    \/ Reassign
    \/ Tick

Spec == Init /\ [][Next]_vars

\* Time passes, a retried acquisition is tried again, the runtime polls its
\* timers, and every job's dispatch returns.
Fairness ==
    /\ WF_vars(Tick)
    /\ \A o \in Owners :
         /\ WF_vars(AcquireSchedulerOwner(o))
         /\ WF_vars(EnterLoop(o))
         /\ WF_vars(Heartbeat(o) \/ HeartbeatLost(o))
         /\ WF_vars(ReleaseSchedulerOwner(o))
    /\ \A t \in Tasks : WF_vars(TaskStep(t))

FairSpec == Spec /\ Fairness

----------------------------------------------------------------------------
TypeOK ==
    /\ assigned \in BOOLEAN
    /\ timetable \in Timetables
    /\ domain \in Rows
    /\ lease \in [Jobs -> Rows]
    /\ phase \in [Owners -> Phases]
    /\ grace \in [Owners -> Nat]
    /\ pc \in [Tasks -> Positions]
    /\ cur \in [Tasks -> Jobs]
    /\ left \in [Tasks -> Nat]

\* A process that runs the clock loop holds the domain row, with a lease that
\* outlives the latest moment at which it learns that a heartbeat failed; one
\* that waits for the acquisition's answer also has room for the first
\* heartbeat.  (run_scheduler_domain, the five durations of scheduler_host.rs)
LoopOwnsDomain ==
    \A o \in Owners :
      /\ phase[o] = "loop" => domain.owner = o /\ domain.ttl > grace[o]
      /\ phase[o] = "starting" =>
           /\ domain.owner = o
           /\ domain.ttl > grace[o] + OwnershipHeartbeat + HeartbeatTimeout

\* Every task of a process that has not begun a graceful shutdown is backed by
\* the live domain row, also while it is being aborted after a lost heartbeat.
TasksOwnDomain ==
    \A t \in Tasks : Active(t) /\ phase[t[1]] # "draining" => Live(t[1])

\* While its process owns the domain, a task between acquire_job and
\* release_job has exactly the row it was granted, and the row is unexpired.
RunBackedByLease ==
    \A t \in Tasks :
      Holding(t) /\ Live(t[1]) =>
        /\ left[t] > 0
        /\ lease[cur[t]] = Row(t[1], left[t])

\* No job is executed twice at the same time by the process that owns the
\* domain: a startup run, a cron run and a post-discovery run of one job exclude
\* each other.
JobRunsExclude ==
    \A t, u \in Tasks :
      /\ t # u
      /\ pc[t] = "run" /\ pc[u] = "run" /\ cur[t] = cur[u]
      => ~(Live(t[1]) /\ Live(u[1]))

\* A waiting process is never locked out by a dead or departing owner: the row
\* expires or is released and some process takes it.
DomainIsTakenOver ==
    \A o \in Owners :
      phase[o] = "contending" /\ assigned ~>
        \/ ~assigned
        \/ phase[o] # "contending"
        \/ \E p \in Owners : phase[p] \in {"starting", "loop"}

\* A process that lost ownership or was told to stop ends, whatever its tasks
\* were doing.
HostStops ==
    \A o \in Owners : phase[o] \in {"aborting", "draining"} ~> phase[o] = "off"

\* What the row of the domain promises: while it belongs to a process, that
\* process alone runs the loop, and every task that works is backed by it.
DomainIsHeld == LoopOwnsDomain /\ TasksOwnDomain

\* What the rows of worker_job_leases promise: a run has the row it was granted,
\* and no second run of its job goes on beside it.
JobsAreHeld == RunBackedByLease /\ JobRunsExclude
============================================================================
