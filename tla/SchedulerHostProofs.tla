------------------------ MODULE SchedulerHostProofs ------------------------
(***************************************************************************)
(* Proofs about SchedulerHost, for every set of processes and jobs and     *)
(* every choice of durations that satisfies TimingAssumption.              *)
(***************************************************************************)
EXTENDS SchedulerHost, TLAPS

\* The components of a task's name.
LEMMA TaskParts ==
    \A t \in Tasks : t[1] \in Owners /\ t[2] \in Jobs /\ t[3] \in Triggers
BY DEF Tasks

\* A spawned task's name is a task.
LEMMA TaskNames ==
    \A o \in Owners, j \in Jobs, k \in Triggers : <<o, j, k>> \in Tasks
BY DEF Tasks

\* The row of no owner, a fresh row and a row aged by one tick are rows.
LEMMA RowTypes ==
    /\ NoRow \in Rows /\ NoRow.owner = NoOwner /\ NoRow.ttl = 0
    /\ \A o \in Owners \cup {NoOwner}, n \in Nat :
         Row(o, n) \in Rows /\ Row(o, n).owner = o /\ Row(o, n).ttl = n
    /\ \A row \in Rows : /\ Aged(row) \in Rows
                         /\ Aged(row).owner = row.owner
                         /\ Aged(row).ttl = Dec(row.ttl)
BY DEF Rows, Row, NoRow, Aged, Dec

\* One step of any process, task, operator or of time preserves the types.
LEMMA TypeStep == TypeOK /\ [Next]_vars => TypeOK'
<1> SUFFICES ASSUME TypeOK, [Next]_vars PROVE TypeOK'
  OBVIOUS
<1> USE DEF TypeOK
<1>1. ASSUME NEW o \in Owners, HostStep(o) PROVE TypeOK'
  <2>1. CASE StartProcess(o)
    BY <2>1 DEF StartProcess, Phases
  <2>2. CASE AcquireSchedulerOwner(o)
    BY <2>2, RowTypes, TimingAssumption DEF AcquireSchedulerOwner, Phases
  <2>3. CASE EnterLoop(o)
    BY <2>3, TimingAssumption DEF EnterLoop, Phases, Positions
  <2>4. CASE Heartbeat(o)
    BY <2>4, RowTypes, TimingAssumption DEF Heartbeat
  <2>5. CASE HeartbeatLost(o)
    BY <2>5, RowTypes, TimingAssumption DEF HeartbeatLost, Phases
  <2>6. CASE \E due \in SUBSET timetable[o] : ClockTick(o, due)
    BY <2>6 DEF ClockTick, Positions
  <2>7. CASE Shutdown(o)
    BY <2>7 DEF Shutdown, Phases
  <2>8. CASE ReleaseSchedulerOwner(o)
    BY <2>8, RowTypes DEF ReleaseSchedulerOwner, Phases
  <2>9. CASE Crash(o)
    BY <2>9, TaskParts DEF Crash, Phases, Positions
  <2> QED
    BY <1>1, <2>1, <2>2, <2>3, <2>4, <2>5, <2>6, <2>7, <2>8, <2>9 DEF HostStep
<1>2. ASSUME NEW t \in Tasks, TaskStep(t) PROVE TypeOK'
  <2> USE TaskParts
  <2>1. CASE StartupDelayElapsed(t)
    BY <2>1 DEF StartupDelayElapsed, Positions
  <2>2. CASE StopWaiting(t)
    BY <2>2 DEF StopWaiting, End, Positions
  <2>3. CASE AcquireJob(t)
    BY <2>3, RowTypes, TimingAssumption DEF AcquireJob, GrantJob, Positions
  <2>4. CASE AcquireJobRefused(t)
    BY <2>4, RowTypes, TimingAssumption DEF AcquireJobRefused, GrantJob, End, Positions
  <2>5. CASE StartRun(t)
    BY <2>5 DEF StartRun, Positions
  <2>6. CASE FinishRun(t)
    BY <2>6 DEF FinishRun, Positions
  <2>7. CASE ReleaseJob(t)
    <3>1. lease' \in [Jobs -> Rows]
      BY <2>7, RowTypes DEF ReleaseJob
    <3>2. CASE HasFollowUp(t)
      BY <2>7, <3>1, <3>2 DEF ReleaseJob, HasFollowUp, Positions
    <3>3. CASE ~HasFollowUp(t)
      BY <2>7, <3>1, <3>3 DEF ReleaseJob, End, Positions
    <3> QED
      BY <3>2, <3>3
  <2>8. CASE AbortTask(t)
    BY <2>8 DEF AbortTask, End, Positions
  <2> QED
    BY <1>2, <2>1, <2>2, <2>3, <2>4, <2>5, <2>6, <2>7, <2>8 DEF TaskStep
<1>3. CASE Reassign
  BY <1>3 DEF Reassign
<1>4. CASE Tick
  BY <1>4, RowTypes DEF Tick, Dec
<1>5. CASE UNCHANGED vars
  BY <1>5 DEF vars
<1> QED
  BY <1>1, <1>2, <1>3, <1>4, <1>5 DEF Next

\* The state of the ownership protocol is always well typed.
THEOREM TypeCorrect == Spec => []TypeOK
<1>1. Init => TypeOK
  BY RowTypes, TaskParts DEF Init, TypeOK, Phases, Positions
<1> QED
  BY <1>1, TypeStep, PTL DEF Spec

----------------------------------------------------------------------------
\* Only a process that has entered its loop and has not ended has tasks.
TasksHaveHost ==
    \A t \in Tasks : Active(t) => phase[t[1]] \in {"loop", "aborting", "draining"}

\* The inductive strengthening of the ownership invariants.
OwnershipInv == TypeOK /\ TasksHaveHost /\ LoopOwnsDomain /\ TasksOwnDomain

\* Each step of a process keeps the ownership invariants: the row changes hands
\* only when it has expired, and then no looping process relied on it.
LEMMA OwnershipHostStep ==
    ASSUME OwnershipInv, NEW o \in Owners, HostStep(o), TypeOK'
    PROVE  TasksHaveHost' /\ LoopOwnsDomain' /\ TasksOwnDomain'
<1> USE TaskParts, RowTypes, TimingAssumption, OwnersAssumption
      DEF OwnershipInv, TypeOK, TasksHaveHost, LoopOwnsDomain, TasksOwnDomain,
          Active, Live
<1>1. CASE StartProcess(o)
  BY <1>1 DEF StartProcess
<1>2. CASE AcquireSchedulerOwner(o)
  BY <1>2 DEF AcquireSchedulerOwner
<1>3. CASE EnterLoop(o)
  <2>1. TasksHaveHost'
    BY <1>3 DEF EnterLoop
  <2>2. /\ domain' = domain /\ domain.owner = o /\ domain.ttl \in Nat
        /\ domain.ttl > OwnershipHeartbeat + HeartbeatTimeout
    BY <1>3 DEF EnterLoop, Rows
  <2>3. LoopOwnsDomain'
    BY <1>3, <2>2 DEF EnterLoop
  <2>4. TasksOwnDomain'
    <3> SUFFICES ASSUME NEW t \in Tasks, Active(t)', phase'[t[1]] # "draining"
                 PROVE  Live(t[1])'
      OBVIOUS
    <3>1. CASE t[1] = o
      BY <2>2, <3>1
    <3>2. CASE t[1] # o
      BY <1>3, <3>2 DEF EnterLoop
    <3> QED
      BY <3>1, <3>2
  <2> QED
    BY <2>1, <2>3, <2>4
<1>4. CASE Heartbeat(o)
  BY <1>4 DEF Heartbeat, HeartbeatDue, Renewable
<1>5. CASE HeartbeatLost(o)
  BY <1>5 DEF HeartbeatLost, HeartbeatDue, Renewable
<1>6. CASE \E due \in SUBSET timetable[o] : ClockTick(o, due)
  <2> PICK due \in SUBSET timetable[o] : ClockTick(o, due)
    BY <1>6
  <2>1. UNCHANGED <<domain, phase, grace>> /\ phase[o] = "loop"
    BY DEF ClockTick
  <2>2. \A t \in Tasks : t[1] # o => pc'[t] = pc[t]
    BY DEF ClockTick
  <2>3. Live(o)
    BY <2>1 DEF Rows
  <2> QED
    BY <2>1, <2>2, <2>3
<1>7. CASE Shutdown(o)
  BY <1>7 DEF Shutdown
<1>8. CASE ReleaseSchedulerOwner(o)
  BY <1>8 DEF ReleaseSchedulerOwner, TasksOf
<1>9. CASE Crash(o)
  BY <1>9 DEF Crash
<1> QED
  BY <1>1, <1>2, <1>3, <1>4, <1>5, <1>6, <1>7, <1>8, <1>9 DEF HostStep

\* Tasks touch neither the domain row nor a process's phase, and none starts
\* from nothing.
LEMMA OwnershipTaskStep ==
    ASSUME OwnershipInv, NEW t \in Tasks, TaskStep(t), TypeOK'
    PROVE  TasksHaveHost' /\ LoopOwnsDomain' /\ TasksOwnDomain'
<1>1. UNCHANGED <<domain, phase, grace>>
  BY DEF TaskStep, StartupDelayElapsed, StopWaiting, AcquireJob,
         AcquireJobRefused, StartRun, FinishRun, ReleaseJob, AbortTask
<1>2. pc[t] # "none" /\ \A u \in Tasks : u # t => pc'[u] = pc[u]
  BY DEF TaskStep, StartupDelayElapsed, StopWaiting, AcquireJob,
         AcquireJobRefused, StartRun, FinishRun, ReleaseJob, AbortTask, End,
         Active, OwnershipInv, TypeOK
<1> QED
  BY <1>1, <1>2 DEF OwnershipInv, TasksHaveHost, LoopOwnsDomain,
                    TasksOwnDomain, Active, Live

\* A tick ages the row and the process's deadline together, and passes only
\* while the deadline is ahead.
LEMMA OwnershipTick ==
    ASSUME OwnershipInv, Tick, TypeOK'
    PROVE  TasksHaveHost' /\ LoopOwnsDomain' /\ TasksOwnDomain'
<1> USE TaskParts, RowTypes, TimingAssumption DEF OwnershipInv, TypeOK
<1>1. TasksHaveHost'
  BY DEF Tick, TasksHaveHost, Active
<1>0. /\ domain.ttl \in Nat
      /\ domain'.owner = domain.owner
      /\ domain'.ttl = Dec(domain.ttl)
      /\ \A o \in Owners : grace[o] \in Nat /\ grace'[o] = Dec(grace[o])
  BY DEF Tick, Rows
<1>2. LoopOwnsDomain'
  <2> SUFFICES ASSUME NEW o \in Owners PROVE LoopOwnsDomain!(o)'
    BY DEF LoopOwnsDomain
  <2>1. phase'[o] = phase[o]
    BY DEF Tick
  <2>2. CASE phase[o] = "loop"
    <3>1. domain.owner = o /\ domain.ttl > grace[o] /\ grace[o] > 0
      BY <2>2 DEF LoopOwnsDomain, Tick, InTime
    <3> QED
      BY <1>0, <2>1, <2>2, <3>1 DEF Dec
  <2>3. CASE phase[o] = "starting"
    <3>1. /\ domain.owner = o
          /\ domain.ttl > grace[o] + OwnershipHeartbeat + HeartbeatTimeout
          /\ grace[o] > 0
      BY <2>3 DEF LoopOwnsDomain, Tick, InTime
    <3> QED
      BY <1>0, <2>1, <2>3, <3>1 DEF Dec
  <2> QED
    BY <2>1, <2>2, <2>3
<1>3. TasksOwnDomain'
  <2> SUFFICES ASSUME NEW t \in Tasks, Active(t)', phase'[t[1]] # "draining"
               PROVE  Live(t[1])'
    BY DEF TasksOwnDomain
  <2>1. phase[t[1]] = "loop" /\ grace[t[1]] > 0
    BY DEF Tick, InTime, TasksHaveHost, Active
  <2>2. domain.owner = t[1] /\ domain.ttl > grace[t[1]]
    BY <2>1 DEF LoopOwnsDomain
  <2> QED
    BY <1>0, <2>1, <2>2 DEF Live, Dec
<1> QED
  BY <1>1, <1>2, <1>3

LEMMA OwnershipStep == OwnershipInv /\ [Next]_vars => OwnershipInv'
<1> SUFFICES ASSUME OwnershipInv, [Next]_vars PROVE OwnershipInv'
  OBVIOUS
<1>0. TypeOK'
  BY TypeStep DEF OwnershipInv
<1>1. ASSUME NEW o \in Owners, HostStep(o) PROVE OwnershipInv'
  BY <1>0, <1>1, OwnershipHostStep DEF OwnershipInv
<1>2. ASSUME NEW t \in Tasks, TaskStep(t) PROVE OwnershipInv'
  BY <1>0, <1>2, OwnershipTaskStep DEF OwnershipInv
<1>3. CASE Reassign
  BY <1>0, <1>3 DEF Reassign, OwnershipInv, TasksHaveHost, LoopOwnsDomain,
                    TasksOwnDomain, Active, Live
<1>4. CASE Tick
  BY <1>0, <1>4, OwnershipTick DEF OwnershipInv
<1>5. CASE UNCHANGED vars
  BY <1>0, <1>5 DEF vars, OwnershipInv, TasksHaveHost, LoopOwnsDomain,
                    TasksOwnDomain, Active, Live
<1> QED
  BY <1>1, <1>2, <1>3, <1>4, <1>5 DEF Next

LEMMA OwnershipInvariant == Spec => []OwnershipInv
<1>1. Init => OwnershipInv
  BY RowTypes, TaskParts
     DEF Init, OwnershipInv, TypeOK, Phases, Positions, TasksHaveHost,
         LoopOwnsDomain, TasksOwnDomain, Active
<1> QED
  BY <1>1, OwnershipStep, PTL DEF Spec

\* A process that loops holds the row for longer than it takes to notice a lost
\* heartbeat, and outside a graceful shutdown no task outlives its process's
\* ownership: what DomainIsHeld says, for all durations that satisfy
\* TimingAssumption.
THEOREM DomainHeld == Spec => []DomainIsHeld
BY OwnershipInvariant, PTL DEF OwnershipInv, DomainIsHeld

----------------------------------------------------------------------------
\* Two tasks of the process that owns the domain never hold the same job.
HoldersExclude ==
    \A t, u \in Tasks :
      t # u /\ Holding(t) /\ Holding(u) /\ cur[t] = cur[u] /\ t[1] = u[1] =>
        ~Live(t[1])

\* The inductive strengthening of the job lease invariants.
LeaseInv == OwnershipInv /\ RunBackedByLease /\ HoldersExclude

\* Steps of a process change no job lease, start no run, and make only that
\* process the owner, which then has no task yet.
LEMMA LeaseHostStep ==
    ASSUME LeaseInv, NEW o \in Owners, HostStep(o)
    PROVE  RunBackedByLease' /\ HoldersExclude'
<1> USE DEF LeaseInv, OwnershipInv, TypeOK, Holding, Live
<1>1. lease' = lease
  BY DEF HostStep, StartProcess, AcquireSchedulerOwner, EnterLoop, Heartbeat,
         HeartbeatLost, ClockTick, Shutdown, ReleaseSchedulerOwner, Crash
<1>2. \A t \in Tasks : Holding(t)' =>
         Holding(t) /\ cur'[t] = cur[t] /\ left'[t] = left[t]
  BY DEF HostStep, StartProcess, AcquireSchedulerOwner, EnterLoop, Heartbeat,
         HeartbeatLost, ClockTick, Shutdown, ReleaseSchedulerOwner, Crash
<1>3. \A t \in Tasks : Holding(t) /\ Live(t[1])' => Live(t[1])
  <2> USE TaskParts, RowTypes, OwnersAssumption
  <2>1. CASE AcquireSchedulerOwner(o)
    <3>1. \A t \in Tasks : Holding(t) => t[1] # o
      BY <2>1 DEF AcquireSchedulerOwner, TasksHaveHost, Active
    <3>2. domain'.owner = o
      BY <2>1, TimingAssumption DEF AcquireSchedulerOwner
    <3> QED
      BY <3>1, <3>2
  <2>2. CASE ReleaseSchedulerOwner(o)
    BY <2>2 DEF ReleaseSchedulerOwner
  <2>3. CASE Renewable(o) /\ domain' = Row(o, OwnershipLease)
    <3>1. Live(o)
      BY <2>3 DEF Renewable
    <3>2. domain'.owner = o
      BY <2>3, RowTypes, TimingAssumption
    <3> QED
      BY <3>1, <3>2
  <2>4. CASE domain' = domain
    BY <2>4
  <2> QED
    BY <2>1, <2>2, <2>3, <2>4
       DEF HostStep, StartProcess, EnterLoop, Heartbeat, HeartbeatLost,
           ClockTick, Shutdown, Crash
<1>4. RunBackedByLease'
  BY <1>1, <1>2, <1>3 DEF RunBackedByLease
<1>5. HoldersExclude'
  BY <1>2, <1>3 DEF HoldersExclude
<1> QED
  BY <1>4, <1>5

\* A task can be granted a job only when no task of the live owner holds it, and
\* gives back only its own grant.
LEMMA LeaseTaskStep ==
    ASSUME LeaseInv, NEW t \in Tasks, TaskStep(t)
    PROVE  RunBackedByLease' /\ HoldersExclude'
<1> USE TaskParts DEF LeaseInv, OwnershipInv, TypeOK
<1>1. domain' = domain
  BY DEF TaskStep, StartupDelayElapsed, StopWaiting, AcquireJob,
         AcquireJobRefused, StartRun, FinishRun, ReleaseJob, AbortTask
<1>2. \A u \in Tasks : u # t =>
         pc'[u] = pc[u] /\ cur'[u] = cur[u] /\ left'[u] = left[u]
  BY DEF TaskStep, StartupDelayElapsed, StopWaiting, AcquireJob,
         AcquireJobRefused, StartRun, FinishRun, ReleaseJob, AbortTask, End
\* A grant to t's process leaves every lease that backs a run in place.
<1>3. ASSUME JobAvailable(t[1], cur[t]),
             NEW u \in Tasks, u # t, Holding(u), Live(u[1])
      PROVE  cur[u] # cur[t]
  BY <1>3, RowTypes DEF JobAvailable, Live, RunBackedByLease
<1>4. CASE AcquireJob(t)
  <2>1. /\ lease' = [lease EXCEPT ![cur[t]] = Row(t[1], JobLease)]
        /\ left' = [left EXCEPT ![t] = JobLease]
        /\ cur' = cur
        /\ JobAvailable(t[1], cur[t])
    BY <1>4 DEF AcquireJob, GrantJob
  <2>2. RunBackedByLease'
    BY <1>1, <1>2, <1>3, <2>1, TimingAssumption
       DEF RunBackedByLease, Holding, Live
  <2>3. HoldersExclude'
    BY <1>1, <1>2, <1>3, <2>1 DEF HoldersExclude, Holding, Live
  <2> QED
    BY <2>2, <2>3
<1>5. CASE AcquireJobRefused(t)
  <2>1. pc'[t] = "none"
    BY <1>5 DEF AcquireJobRefused, End
  <2>2. CASE lease' = lease
    BY <1>1, <1>2, <2>1, <2>2 DEF RunBackedByLease, HoldersExclude, Holding, Live
  <2>3. CASE JobAvailable(t[1], cur[t]) /\ GrantJob(t[1], cur[t])
    BY <1>1, <1>2, <1>3, <2>1, <2>3
       DEF GrantJob, RunBackedByLease, HoldersExclude, Holding, Live
  <2> QED
    BY <1>5, <2>2, <2>3 DEF AcquireJobRefused
<1>6. CASE ReleaseJob(t)
  <2>1. pc'[t] \in {"none", "acquire"}
    BY <1>6 DEF ReleaseJob, End
  <2>2. HoldersExclude'
    BY <1>1, <1>2, <2>1 DEF HoldersExclude, Holding, Live
  <2>3. ASSUME NEW u \in Tasks, u # t, Holding(u), Live(u[1])
        PROVE  lease'[cur[u]] = lease[cur[u]]
    <3>1. lease[cur[u]].owner = u[1]
      BY <2>3, RowTypes DEF RunBackedByLease
    <3>2. ~(cur[u] = cur[t] /\ u[1] = t[1])
      BY <1>6, <2>3 DEF HoldersExclude, Holding, ReleaseJob
    <3> QED
      BY <1>6, <3>1, <3>2 DEF ReleaseJob
  <2> QED
    BY <1>1, <1>2, <2>1, <2>2, <2>3 DEF RunBackedByLease, Holding, Live
<1>7. CASE StartRun(t) \/ FinishRun(t)
  <2>1. Holding(t) /\ UNCHANGED <<lease, cur, left>>
    BY <1>7 DEF StartRun, FinishRun, Holding
  <2> QED
    BY <1>1, <1>2, <2>1 DEF RunBackedByLease, HoldersExclude, Holding, Live
<1>8. CASE StartupDelayElapsed(t) \/ StopWaiting(t) \/ AbortTask(t)
  <2>1. pc'[t] \in {"none", "acquire"} /\ lease' = lease
    BY <1>8 DEF StartupDelayElapsed, StopWaiting, AbortTask, End
  <2> QED
    BY <1>1, <1>2, <2>1 DEF RunBackedByLease, HoldersExclude, Holding, Live
<1> QED
  BY <1>4, <1>5, <1>6, <1>7, <1>8 DEF TaskStep

\* Time ages a lease and the history of its holder together.
LEMMA LeaseTick ==
    ASSUME LeaseInv, JobsWithinLease, Tick
    PROVE  RunBackedByLease' /\ HoldersExclude'
<1> USE TaskParts, RowTypes DEF LeaseInv, OwnershipInv, TypeOK
<1>1. /\ domain.ttl \in Nat
      /\ domain'.owner = domain.owner
      /\ domain'.ttl = Dec(domain.ttl)
      /\ UNCHANGED <<pc, cur>>
  BY DEF Tick, Rows
<1>2. \A o : Live(o)' => Live(o)
  BY <1>1 DEF Live, Dec
<1>3. HoldersExclude'
  BY <1>1, <1>2 DEF HoldersExclude, Holding
<1>4. ASSUME NEW t \in Tasks, Holding(t)', Live(t[1])'
      PROVE  left'[t] > 0 /\ lease'[cur'[t]] = Row(t[1], left'[t])
  <2>1. Holding(t) /\ Live(t[1])
    BY <1>1, <1>2, <1>4 DEF Holding
  <2>2. left[t] \in Nat /\ left[t] > 1 /\ left'[t] = Dec(left[t])
    BY <2>1 DEF Tick, InTime
  <2>3. lease[cur[t]] = Row(t[1], left[t])
    BY <2>1 DEF RunBackedByLease
  <2>4. lease'[cur'[t]] = Aged(lease[cur[t]])
    BY DEF Tick
  <2> QED
    BY <2>2, <2>3, <2>4 DEF Aged, Dec
<1> QED
  BY <1>3, <1>4 DEF RunBackedByLease

LEMMA LeaseStep == JobsWithinLease /\ LeaseInv /\ [Next]_vars => LeaseInv'
<1> SUFFICES ASSUME JobsWithinLease, LeaseInv, [Next]_vars PROVE LeaseInv'
  OBVIOUS
<1>0. OwnershipInv'
  BY OwnershipStep DEF LeaseInv
<1>1. ASSUME NEW o \in Owners, HostStep(o) PROVE LeaseInv'
  BY <1>0, <1>1, LeaseHostStep DEF LeaseInv
<1>2. ASSUME NEW t \in Tasks, TaskStep(t) PROVE LeaseInv'
  BY <1>0, <1>2, LeaseTaskStep DEF LeaseInv
<1>3. CASE Reassign \/ UNCHANGED vars
  <2>1. UNCHANGED <<domain, lease, pc, cur, left>>
    BY <1>3 DEF Reassign, vars
  <2> QED
    BY <1>0, <2>1 DEF LeaseInv, RunBackedByLease, HoldersExclude, Holding, Live
<1>4. CASE Tick
  BY <1>0, <1>4, LeaseTick DEF LeaseInv
<1> QED
  BY <1>1, <1>2, <1>3, <1>4 DEF Next

LEMMA LeaseInvariant ==
    ASSUME JobsWithinLease
    PROVE  Spec => []LeaseInv
<1>1. Init => RunBackedByLease /\ HoldersExclude
  BY DEF Init, RunBackedByLease, HoldersExclude, Holding
<1>2. Init => OwnershipInv
  BY RowTypes, TaskParts
     DEF Init, OwnershipInv, TypeOK, Phases, Positions, TasksHaveHost,
         LoopOwnsDomain, TasksOwnDomain, Active
<1>3. LeaseInv /\ [Next]_vars => LeaseInv'
  BY LeaseStep
<1> QED
  BY <1>1, <1>2, <1>3, PTL DEF Spec, LeaseInv

\* When no run outlasts its job lease, every run of the domain's owner is backed
\* by the row it was granted, and the owner never executes one job twice at the
\* same time: what JobsAreHeld says of acquire_job and release_job.
THEOREM JobsHeld ==
    ASSUME JobsWithinLease
    PROVE  Spec => []JobsAreHeld
<1>1. LeaseInv => JobsAreHeld
  BY DEF JobsAreHeld, LeaseInv, HoldersExclude, JobRunsExclude, Holding, Live
<1> QED
  BY <1>1, LeaseInvariant, PTL
============================================================================
