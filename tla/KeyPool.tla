------------------------------ MODULE KeyPool ------------------------------
(***************************************************************************)
(* The relay's pool of provider API keys (KeyPool): which key a call uses, *)
(* how a key's health follows the outcomes of calls, and how usage counted *)
(* in memory reaches the database.                                         *)
(*                                                                         *)
(* Every critical section of the pool's lock is one step, and so is every  *)
(* database statement; other actors run between them.  A provider call is  *)
(* two steps, the counted dispatch and the outcome.  The provider's answers*)
(* are nondeterministic.                                                   *)
(***************************************************************************)
EXTENDS Integers

CONSTANTS
    Keys,              \* dev_ids
    Backups,           \* the keys named in HIREZ_BACKUP_DEV_IDS
    NoKey,             \* active_dev_id = None
    Callers,           \* concurrent api_request calls
    Syncer,            \* the hourly synchronisation task
    NoActor,           \* nobody holds revival_lock
    Reserve,           \* calls of a key's daily budget never spent on purpose
    FailureThreshold,  \* FAILURE_THRESHOLD
    Limits,            \* daily limits the provider may report
    Reports,           \* daily usages the provider may report
    MaxCalls,          \* bound: counted calls per key, and calls recorded by
                       \* flushes that fail after the database applied them
    Running,           \* which of the callers of flush_usage run
    Disconnects        \* TRUE: clients may disconnect, which drops their request

Actors == Callers \cup {Syncer}

\* The callers of flush_usage: the 60 s task, sync_all_usage, and reload on
\* behalf of the operator's reloadApiKeyPool.
Flushers == {"periodic", "hourly", "reload"}

ASSUME KeysAssumption == NoKey \notin Keys /\ Backups \subseteq Keys

ASSUME ActorsAssumption == Syncer \notin Callers /\ NoActor \notin Actors

ASSUME PoolAssumption ==
    /\ Reserve \in Nat
    /\ FailureThreshold \in Nat \ {0}
    /\ Limits \subseteq Nat
    /\ Reports \subseteq Nat
    /\ MaxCalls \in Nat
    /\ Running \subseteq Flushers
    /\ Disconnects \in BOOLEAN

VARIABLES
    \* KeyPoolInner: one field of InMemoryKey per variable
    status, used, limit, pending, fails, active,
    \* api_keys, and the calls ever added to api_key_hourly_usage, those of
    \* deleted buckets included
    dStatus, dTotal, dLimit, dFails, dHourly,
    \* revival_lock, and whether REVIVAL_COOLDOWN_MS has not yet elapsed
    reviver, cooling,
    \* per actor: position, key in use, whether the call is getdataused, keys
    \* still to synchronise, the key of the request's last attempt
    pc, key, probing, todo, last,
    \* per actor: the status write under way and where it continues
    msg, ret,
    \* per flusher: whether a flush is under way, and the batch it took
    flushing, batch,
    \* the reload under way: its position, the rows it loaded, the pending
    \* counters it copied
    rpc, rows, snap,
    \* history: calls counted by increment_usage
    made

memory == <<status, used, limit, pending, fails, active>>
database == <<dStatus, dTotal, dLimit, dFails, dHourly>>
revival == <<reviver, cooling>>
actors == <<pc, key, probing, todo, last, msg, ret>>
flushes == <<flushing, batch>>
reloading == <<rpc, rows, snap>>
vars == <<memory, database, revival, actors, flushes, reloading, made>>

Statuses == {"healthy", "limited", "unhealthy"}

Positions == {"idle", "ready", "queued", "chosen", "opening", "opened", "calling",
              "saving", "syncing", "reported", "estimating", "storing"}

Returns == {"idle", "ready", "opened", "syncing", "reported"}

Messages == [status : Statuses, fails : Nat, used : Nat, limit : Nat]

Message(s, f, u, l) == [status |-> s, fails |-> f, used |-> u, limit |-> l]

NoMessage == Message("healthy", 0, 0, 0)

Zero == [k \in Keys |-> 0]

Rows(s, t, l, f) == [status |-> s, total |-> t, limit |-> l, fails |-> f]

NoRows == Rows([k \in Keys |-> "healthy"], Zero, Zero, Zero)

\* has_usable_budget: limit.saturating_sub(used) > reserve
HasBudget(u, l) == l - u > Reserve

UsableKeys == {k \in Keys : status[k] = "healthy" /\ HasBudget(used[k], limit[k])}

\* The keys select_available_key may return: the active key while it is usable,
\* or else a usable primary, or else a usable backup.  The code takes the first
\* by dev_id; which one that is makes no difference here.
Candidates ==
    CASE active \in UsableKeys -> {active}
      [] active \notin UsableKeys /\ UsableKeys \ Backups # {} -> UsableKeys \ Backups
      [] OTHER -> UsableKeys

Init ==
    /\ dStatus = [k \in Keys |-> "healthy"]
    /\ dTotal = Zero
    /\ dLimit \in [Keys -> Limits]
    /\ dFails = Zero
    /\ dHourly = Zero
    /\ status = dStatus /\ used = dTotal /\ limit = dLimit /\ fails = dFails
    /\ pending = Zero
    /\ active = NoKey
    /\ reviver = NoActor /\ cooling = FALSE
    /\ pc = [a \in Actors |-> "idle"]
    /\ key = [a \in Actors |-> NoKey]
    /\ probing = [a \in Actors |-> FALSE]
    /\ last = [a \in Actors |-> NoKey]
    /\ todo = [a \in Actors |-> {}]
    /\ msg = [a \in Actors |-> NoMessage]
    /\ ret = [a \in Actors |-> "idle"]
    /\ flushing = [f \in Flushers |-> FALSE]
    /\ batch = [f \in Flushers |-> Zero]
    /\ rpc = "idle"
    /\ rows = NoRows
    /\ snap = Zero
    /\ made = Zero

----------------------------------------------------------------------------
\* Selection.

\* select_available_key.  The active key is kept while it is usable; otherwise
\* it is marked limited (and the row with it) and the next one becomes active.
\* When no key is usable, the actor goes on at `otherwise`.  The code lets go of
\* the lock between the two halves; ActiveKeyUsable shows that the first one
\* never finds anything to do when the second one runs.
SelectAvailableKey(a, otherwise) ==
    LET demoted == active \in Keys \ UsableKeys /\ status[active] # "limited"
    IN  /\ status' = IF demoted THEN [status EXCEPT ![active] = "limited"] ELSE status
        /\ dStatus' = IF demoted THEN [dStatus EXCEPT ![active] = "limited"] ELSE dStatus
        /\ dFails' = IF demoted THEN [dFails EXCEPT ![active] = fails[active]] ELSE dFails
        /\ \/ \E k \in Candidates :
                /\ active' = k
                /\ key' = [key EXCEPT ![a] = k]
                /\ pc' = [pc EXCEPT ![a] = "chosen"]
           \/ /\ Candidates = {}
              /\ pc' = [pc EXCEPT ![a] = otherwise]
              /\ UNCHANGED <<active, key>>
        /\ UNCHANGED <<used, limit, pending, fails, dTotal, dLimit, dHourly>>

\* api_request is called.
StartRequest(c) ==
    /\ pc[c] = "idle"
    /\ pc' = [pc EXCEPT ![c] = "ready"]
    /\ last' = [last EXCEPT ![c] = NoKey]
    /\ UNCHANGED <<memory, database, revival, key, probing, todo, msg, ret, flushes,
                   reloading, made>>

\* An attempt asks for the active key.
ActiveKey(c) ==
    /\ pc[c] = "ready"
    /\ SelectAvailableKey(c, "queued")
    /\ UNCHANGED <<revival, probing, todo, last, msg, ret, flushes, reloading, made>>

\* A caller that found no key gets revival_lock: a key is there by now, or the
\* revival is on cooldown and the attempt fails.
ReviveSkipped(c) ==
    /\ pc[c] = "queued"
    /\ reviver = NoActor
    /\ UsableKeys # {} \/ cooling
    /\ SelectAvailableKey(c, "ready")
    /\ UNCHANGED <<revival, probing, todo, last, msg, ret, flushes, reloading, made>>

\* It gets revival_lock and starts to synchronise every key.
ReviveStart(c) ==
    /\ pc[c] = "queued"
    /\ reviver = NoActor
    /\ UsableKeys = {} /\ ~cooling
    /\ cooling' = TRUE
    /\ reviver' = c
    /\ todo' = [todo EXCEPT ![c] = Keys]
    /\ pc' = [pc EXCEPT ![c] = "syncing"]
    /\ UNCHANGED <<memory, database, key, probing, last, msg, ret, flushes, reloading,
                   made>>

\* Every key has been synchronised: the last selection, under revival_lock.
ReviveEnd(c) ==
    /\ pc[c] = "syncing" /\ todo[c] = {}
    /\ reviver = c
    /\ SelectAvailableKey(c, "ready")
    /\ reviver' = NoActor
    /\ probing' = [probing EXCEPT ![c] = FALSE]
    /\ UNCHANGED <<cooling, todo, last, msg, ret, flushes, reloading, made>>

CooldownElapsed ==
    /\ cooling
    /\ cooling' = FALSE
    /\ UNCHANGED <<memory, database, reviver, actors, flushes, reloading, made>>

----------------------------------------------------------------------------
\* Calls and the health of their key.

\* increment_usage.
IncrementUsage(k) ==
    LET spent == ~HasBudget(used[k] + 1, limit[k])
    IN  /\ made[k] < MaxCalls
        /\ made' = [made EXCEPT ![k] = @ + 1]
        /\ used' = [used EXCEPT ![k] = @ + 1]
        /\ pending' = [pending EXCEPT ![k] = @ + 1]
        /\ status' = IF spent THEN [status EXCEPT ![k] = "limited"] ELSE status
        /\ active' = IF spent /\ active = k THEN NoKey ELSE active
        /\ UNCHANGED <<limit, fails>>

\* record_success: the key is healthy again unless it is limited.  The actor
\* goes on at `next`, after the status write if there is one.
RecordSuccess(a, k, next) ==
    LET changed == fails[k] > 0 \/ status[k] = "unhealthy"
        now == IF status[k] = "unhealthy" THEN "healthy" ELSE status[k]
    IN  /\ fails' = [fails EXCEPT ![k] = 0]
        /\ status' = [status EXCEPT ![k] = now]
        /\ ret' = IF changed THEN [ret EXCEPT ![a] = next] ELSE ret
        /\ pc' = [pc EXCEPT ![a] = IF changed THEN "saving" ELSE next]
        /\ msg' = IF changed THEN [msg EXCEPT ![a] = Message(now, 0, 0, 0)] ELSE msg
        /\ UNCHANGED <<used, limit, pending, active>>

\* Mutant: a key that becomes unhealthy stays the active one.
RecordFailureKeepsActive(a, k, next) ==
    LET now == IF fails[k] + 1 >= FailureThreshold THEN "unhealthy" ELSE status[k]
    IN  /\ fails' = [fails EXCEPT ![k] = @ + 1]
        /\ status' = [status EXCEPT ![k] = now]
        /\ ret' = [ret EXCEPT ![a] = next]
        /\ pc' = [pc EXCEPT ![a] = "saving"]
        /\ msg' = [msg EXCEPT ![a] = Message(now, fails[k] + 1, 0, 0)]
        /\ UNCHANGED <<used, limit, pending, active>>

\* Mutant: the threshold is compared before the failure is counted.
RecordFailureOffByOne(a, k, next) ==
    LET faulty == fails[k] >= FailureThreshold
        now == IF faulty THEN "unhealthy" ELSE status[k]
    IN  /\ fails' = [fails EXCEPT ![k] = @ + 1]
        /\ status' = [status EXCEPT ![k] = now]
        /\ active' = IF faulty /\ active = k THEN NoKey ELSE active
        /\ ret' = [ret EXCEPT ![a] = next]
        /\ pc' = [pc EXCEPT ![a] = "saving"]
        /\ msg' = [msg EXCEPT ![a] = Message(now, fails[k] + 1, 0, 0)]
        /\ UNCHANGED <<used, limit, pending>>

\* record_failure with key_fault: the threshold makes the key unhealthy.
RecordFailure(a, k, next) ==
    LET faulty == fails[k] + 1 >= FailureThreshold
        now == IF faulty THEN "unhealthy" ELSE status[k]
    IN  /\ fails' = [fails EXCEPT ![k] = @ + 1]
        /\ status' = [status EXCEPT ![k] = now]
        /\ active' = IF faulty /\ active = k THEN NoKey ELSE active
        /\ ret' = [ret EXCEPT ![a] = next]
        /\ pc' = [pc EXCEPT ![a] = "saving"]
        /\ msg' = [msg EXCEPT ![a] = Message(now, fails[k] + 1, 0, 0)]
        /\ UNCHANGED <<used, limit, pending>>

\* The update_status statement runs, or fails and is ignored.
UpdateStatus(a) ==
    /\ pc[a] = "saving"
    /\ \/ /\ dStatus' = [dStatus EXCEPT ![key[a]] = msg[a].status]
          /\ dFails' = [dFails EXCEPT ![key[a]] = msg[a].fails]
       \/ UNCHANGED <<dStatus, dFails>>
    /\ pc' = [pc EXCEPT ![a] = ret[a]]
    /\ msg' = [msg EXCEPT ![a] = NoMessage]
    /\ ret' = [ret EXCEPT ![a] = "idle"]
    /\ UNCHANGED <<memory, dTotal, dLimit, dHourly, revival, key, probing, todo, last,
                   flushes, reloading, made>>

\* Where an actor goes on after a call that failed.
AfterFailure(a) == IF probing[a] THEN "syncing" ELSE "ready"

\* No session of the key is cached: createsession is counted and sent.
CreateSession(a) ==
    /\ pc[a] = "chosen"
    /\ IncrementUsage(key[a])
    /\ pc' = [pc EXCEPT ![a] = "opening"]
    /\ UNCHANGED <<database, revival, key, probing, todo, last, msg, ret, flushes,
                   reloading>>

\* It is approved, with a session_id or without one.
SessionCreated(a) ==
    /\ pc[a] = "opening"
    /\ \E next \in {"opened", AfterFailure(a)} : RecordSuccess(a, key[a], next)
    /\ UNCHANGED <<database, revival, key, probing, todo, last, flushes, reloading, made>>

SessionRefused(a) ==
    /\ pc[a] = "opening"
    /\ RecordFailure(a, key[a], AfterFailure(a))
    /\ UNCHANGED <<database, revival, key, probing, todo, last, flushes, reloading, made>>

\* The call itself, a request or getdataused, is counted and sent.
Send(a) ==
    /\ pc[a] \in {"chosen", "opened"}
    /\ IncrementUsage(key[a])
    /\ pc' = [pc EXCEPT ![a] = "calling"]
    /\ last' = IF probing[a] THEN last ELSE [last EXCEPT ![a] = key[a]]
    /\ UNCHANGED <<database, revival, key, probing, todo, msg, ret, flushes, reloading>>

\* A call failed without a record_failure of its own: transport errors, and for
\* requests everything that leads to another attempt.
CallDropped(a) ==
    /\ pc[a] \in {"opening", "calling"}
    /\ pc' = [pc EXCEPT ![a] = AfterFailure(a)]
    /\ UNCHANGED <<memory, database, revival, key, probing, todo, last, msg, ret,
                   flushes, reloading, made>>

RequestSucceeded(c) ==
    /\ pc[c] = "calling" /\ ~probing[c]
    /\ RecordSuccess(c, key[c], "idle")
    /\ UNCHANGED <<database, revival, key, probing, todo, last, flushes, reloading, made>>

\* The provider reports the quota as spent: sync_usage of that key.
RequestOverQuota(c) ==
    /\ pc[c] = "calling" /\ ~probing[c]
    /\ pc' = [pc EXCEPT ![c] = "syncing"]
    /\ todo' = [todo EXCEPT ![c] = {key[c]}]
    /\ UNCHANGED <<memory, database, revival, key, probing, last, msg, ret, flushes,
                   reloading, made>>

\* The attempts are used up, or the last answer is terminal.  The key of the last
\* attempt that got as far as sending is blamed if the error looks like a key
\* fault, also when the error is that no key was available.
GiveUp(c) ==
    /\ pc[c] = "ready"
    /\ \/ /\ last[c] # NoKey
          /\ RecordFailure(c, last[c], "idle")
          /\ key' = [key EXCEPT ![c] = last[c]]
       \/ /\ pc' = [pc EXCEPT ![c] = "idle"]
          /\ UNCHANGED <<memory, key, msg, ret>>
    /\ UNCHANGED <<database, revival, probing, todo, last, flushes, reloading, made>>

\* The client disconnects: the handler's future is dropped where it waits, and
\* its guard of revival_lock with it.
Disconnected(c) ==
    /\ Disconnects
    /\ pc[c] # "idle"
    /\ pc' = [pc EXCEPT ![c] = "idle"]
    /\ reviver' = IF reviver = c THEN NoActor ELSE reviver
    /\ probing' = [probing EXCEPT ![c] = FALSE]
    /\ todo' = [todo EXCEPT ![c] = {}]
    /\ msg' = [msg EXCEPT ![c] = NoMessage]
    /\ ret' = [ret EXCEPT ![c] = "idle"]
    /\ UNCHANGED <<memory, database, cooling, key, last, flushes, reloading, made>>

----------------------------------------------------------------------------
\* Synchronisation with the provider: sync_usage_internal for each key of todo.

SyncNext(a) ==
    /\ pc[a] = "syncing"
    /\ \E k \in todo[a] :
         /\ key' = [key EXCEPT ![a] = k]
         /\ todo' = [todo EXCEPT ![a] = @ \ {k}]
    /\ probing' = [probing EXCEPT ![a] = TRUE]
    /\ pc' = [pc EXCEPT ![a] = "chosen"]
    /\ UNCHANGED <<memory, database, revival, last, msg, ret, flushes, reloading, made>>

\* The keys are done and nobody waits for a selection.
SyncEnd(a) ==
    /\ pc[a] = "syncing" /\ todo[a] = {}
    /\ reviver # a
    /\ pc' = [pc EXCEPT ![a] = IF a = Syncer THEN "idle" ELSE "ready"]
    /\ probing' = [probing EXCEPT ![a] = FALSE]
    /\ UNCHANGED <<memory, database, revival, key, todo, last, msg, ret, flushes,
                   reloading, made>>

ProbeFaulted(a) ==
    /\ pc[a] = "calling" /\ probing[a]
    /\ RecordFailure(a, key[a], "syncing")
    /\ UNCHANGED <<database, revival, key, probing, todo, last, flushes, reloading, made>>

ProbeAnswered(a) ==
    /\ pc[a] = "calling" /\ probing[a]
    /\ RecordSuccess(a, key[a], "reported")
    /\ UNCHANGED <<database, revival, key, probing, todo, last, flushes, reloading, made>>

\* The answer holds a usage report: it replaces the local count.
ApplyReport(a) ==
    /\ pc[a] = "reported"
    /\ \E u \in Reports, l \in Limits :
         LET k == key[a]
             now == IF HasBudget(u, l) THEN "healthy" ELSE "limited"
         IN  /\ used' = [used EXCEPT ![k] = u]
             /\ limit' = [limit EXCEPT ![k] = l]
             /\ status' = [status EXCEPT ![k] = now]
             /\ fails' = IF now = "healthy" THEN [fails EXCEPT ![k] = 0] ELSE fails
             /\ active' = IF now = "limited" /\ active = k THEN NoKey ELSE active
             /\ msg' = [msg EXCEPT ![a] = Message(now, 0, u, l)]
    /\ pc' = [pc EXCEPT ![a] = "storing"]
    /\ UNCHANGED <<pending, database, revival, key, probing, todo, last, ret, flushes, reloading,
                   made>>

\* It holds none: try_estimate_revival, if the key is not healthy and its
\* cool-down, which is left open, has elapsed.
ReportMissing(a) ==
    /\ pc[a] = "reported"
    /\ \/ pc' = [pc EXCEPT ![a] = "syncing"]
       \/ /\ status[key[a]] # "healthy"
          /\ pc' = [pc EXCEPT ![a] = "estimating"]
    /\ UNCHANGED <<memory, database, revival, key, probing, todo, last, msg, ret, flushes,
                   reloading, made>>

\* local_usage_estimate read some part of the recorded calls (buckets leave the
\* 24 h window, and later flushes are missed); with budget left, the key is
\* revived on that count.
ApplyEstimate(a) ==
    /\ pc[a] = "estimating"
    /\ \E e \in 0 .. dHourly[key[a]] :
         LET k == key[a] IN
         /\ HasBudget(e, limit[k])
         /\ status' = [status EXCEPT ![k] = "healthy"]
         /\ fails' = [fails EXCEPT ![k] = 0]
         /\ used' = [used EXCEPT ![k] = e]
         /\ msg' = [msg EXCEPT ![a] = Message("healthy", 0, e, limit[k])]
    /\ pc' = [pc EXCEPT ![a] = "storing"]
    /\ UNCHANGED <<limit, pending, active, database, revival, key, probing, todo, last, ret,
                   flushes, reloading, made>>

\* The estimate failed or shows no budget.
EstimateRefused(a) ==
    /\ pc[a] = "estimating"
    /\ pc' = [pc EXCEPT ![a] = "syncing"]
    /\ UNCHANGED <<memory, database, revival, key, probing, todo, last, msg, ret, flushes,
                   reloading, made>>

\* The save_authoritative_usage statement runs, or fails and is ignored.
SaveAuthoritativeUsage(a) ==
    /\ pc[a] = "storing"
    /\ LET k == key[a] IN
         \/ /\ dTotal' = [dTotal EXCEPT ![k] = msg[a].used]
            /\ dLimit' = [dLimit EXCEPT ![k] = msg[a].limit]
            /\ dStatus' = [dStatus EXCEPT ![k] = msg[a].status]
            /\ dFails' = IF msg[a].status = "healthy"
                           THEN [dFails EXCEPT ![k] = 0] ELSE dFails
         \/ UNCHANGED <<dTotal, dLimit, dStatus, dFails>>
    /\ pc' = [pc EXCEPT ![a] = "syncing"]
    /\ msg' = [msg EXCEPT ![a] = NoMessage]
    /\ UNCHANGED <<memory, dHourly, revival, key, probing, todo, last, ret, flushes, reloading,
                   made>>

----------------------------------------------------------------------------
\* Usage flushes.

\* flush_usage takes every pending counter.
FlushTake(f) ==
    /\ f \in Running
    /\ ~flushing[f]
    /\ f = "periodic" => \E k \in Keys : pending[k] > 0
    /\ f = "hourly" => pc[Syncer] = "idle"
    /\ f = "reload" => rpc = "idle"
    /\ flushing' = [flushing EXCEPT ![f] = TRUE]
    /\ batch' = [batch EXCEPT ![f] = pending]
    /\ pending' = Zero
    /\ UNCHANGED <<status, used, limit, fails, active, database, revival, actors,
                   reloading, made>>

\* The transaction of PostgresRepository::flush_usage, on the tables.
FlushWritten(f) ==
    /\ dHourly' = [k \in Keys |-> dHourly[k] + batch[f][k]]
    /\ dTotal' = [k \in Keys |-> dTotal[k] + batch[f][k]]
    /\ dStatus' = [k \in Keys |->
                     IF batch[f][k] > 0 /\ ~HasBudget(dTotal[k] + batch[f][k], dLimit[k])
                       THEN "limited" ELSE dStatus[k]]
    /\ UNCHANGED <<dLimit, dFails>>

\* It commits.  sync_all_usage and reload go on; sync_all_usage ends without a
\* synchronisation when cleanup_rolling_usage fails.
FlushCommitted(f) ==
    /\ flushing[f]
    /\ FlushWritten(f)
    /\ flushing' = [flushing EXCEPT ![f] = FALSE]
    /\ batch' = [batch EXCEPT ![f] = Zero]
    /\ \/ /\ f = "hourly"
          /\ pc' = [pc EXCEPT ![Syncer] = "syncing"]
          /\ todo' = [todo EXCEPT ![Syncer] = Keys]
       \/ UNCHANGED <<pc, todo>>
    /\ rpc' = IF f = "reload" THEN "load" ELSE rpc
    /\ UNCHANGED <<memory, revival, key, probing, last, msg, ret, rows, snap, made>>

\* It returns an error, after which the batch is pending again.  An error of
\* the commit itself leaves open whether the database applied it.
FlushFailed(f) ==
    /\ flushing[f]
    /\ \/ UNCHANGED database
       \/ /\ FlushWritten(f)
          /\ \A k \in Keys : dHourly'[k] <= MaxCalls
    /\ pending' = [k \in Keys |-> pending[k] + batch[f][k]]
    /\ flushing' = [flushing EXCEPT ![f] = FALSE]
    /\ batch' = [batch EXCEPT ![f] = Zero]
    /\ UNCHANGED <<status, used, limit, fails, active, revival, actors, reloading,
                   made>>

----------------------------------------------------------------------------
\* reload_from_repository, after the flush of reload.

LoadKeys ==
    /\ rpc = "load"
    /\ rows' = Rows(dStatus, dTotal, dLimit, dFails)
    /\ rpc' = "loaded"
    /\ UNCHANGED <<memory, database, revival, actors, flushes, snap, made>>

LoadKeysFailed ==
    /\ rpc = "load"
    /\ rpc' = "idle"
    /\ UNCHANGED <<memory, database, revival, actors, flushes, rows, snap, made>>

\* The pending counters are copied under the read lock ...
CopyPending ==
    /\ rpc = "loaded"
    /\ snap' = pending
    /\ rpc' = "copied"
    /\ UNCHANGED <<memory, database, revival, actors, flushes, rows, made>>

\* Mutant: the new keys start with nothing pending.
InstallKeysForgets ==
    /\ rpc = "copied"
    /\ status' = rows.status
    /\ used' = rows.total
    /\ limit' = rows.limit
    /\ fails' = rows.fails
    /\ pending' = Zero
    /\ active' = NoKey
    /\ rpc' = "idle"
    /\ rows' = NoRows
    /\ snap' = Zero
    /\ UNCHANGED <<database, revival, actors, flushes, made>>

\* ... and the new keys installed under the write lock.
InstallKeys ==
    /\ rpc = "copied"
    /\ status' = rows.status
    /\ used' = rows.total
    /\ limit' = rows.limit
    /\ fails' = rows.fails
    /\ pending' = snap
    /\ active' = NoKey
    /\ rpc' = "idle"
    /\ rows' = NoRows
    /\ snap' = Zero
    /\ UNCHANGED <<database, revival, actors, flushes, made>>

\* The operator disconnects: reload is dropped, with the batch of its flush if
\* that is under way.
ReloadDropped ==
    /\ Disconnects
    /\ flushing["reload"] \/ rpc # "idle"
    /\ \/ UNCHANGED database
       \/ flushing["reload"] /\ FlushWritten("reload")
    /\ flushing' = [flushing EXCEPT !["reload"] = FALSE]
    /\ batch' = [batch EXCEPT !["reload"] = Zero]
    /\ rpc' = "idle"
    /\ rows' = NoRows
    /\ snap' = Zero
    /\ UNCHANGED <<memory, revival, actors, made>>

----------------------------------------------------------------------------
CallerStep(c) ==
    \/ StartRequest(c)
    \/ ActiveKey(c)
    \/ ReviveSkipped(c)
    \/ ReviveStart(c)
    \/ ReviveEnd(c)
    \/ RequestSucceeded(c)
    \/ RequestOverQuota(c)
    \/ GiveUp(c)
    \/ Disconnected(c)

CallStep(a) ==
    \/ CreateSession(a)
    \/ SessionCreated(a)
    \/ SessionRefused(a)
    \/ Send(a)
    \/ CallDropped(a)
    \/ UpdateStatus(a)

SyncStep(a) ==
    \/ SyncNext(a)
    \/ SyncEnd(a)
    \/ ProbeFaulted(a)
    \/ ProbeAnswered(a)
    \/ ApplyReport(a)
    \/ ReportMissing(a)
    \/ ApplyEstimate(a)
    \/ EstimateRefused(a)
    \/ SaveAuthoritativeUsage(a)

FlushStep(f) == FlushTake(f) \/ FlushCommitted(f) \/ FlushFailed(f)

ReloadStep == LoadKeys \/ LoadKeysFailed \/ CopyPending \/ InstallKeys \/ ReloadDropped

Next ==
    \/ \E c \in Callers : CallerStep(c)
    \/ \E a \in Actors : CallStep(a) \/ SyncStep(a)
    \/ \E f \in Flushers : FlushStep(f)
    \/ ReloadStep
    \/ CooldownElapsed

Spec == Init /\ [][Next]_vars
----------------------------------------------------------------------------
Counters == [Keys -> Nat]

TypeOK ==
    /\ status \in [Keys -> Statuses] /\ dStatus \in [Keys -> Statuses]
    /\ used \in Counters /\ limit \in Counters /\ pending \in Counters
    /\ fails \in Counters /\ made \in Counters /\ snap \in Counters
    /\ dTotal \in Counters /\ dLimit \in Counters /\ dFails \in Counters
    /\ dHourly \in Counters
    /\ active \in Keys \cup {NoKey}
    /\ reviver \in Callers \cup {NoActor} /\ cooling \in BOOLEAN
    /\ pc \in [Actors -> Positions]
    /\ key \in [Actors -> Keys \cup {NoKey}]
    /\ probing \in [Actors -> BOOLEAN]
    /\ last \in [Actors -> Keys \cup {NoKey}]
    /\ todo \in [Actors -> SUBSET Keys]
    /\ msg \in [Actors -> Messages]
    /\ ret \in [Actors -> Returns]
    /\ flushing \in [Flushers -> BOOLEAN]
    /\ batch \in [Flushers -> Counters]
    /\ rpc \in {"idle", "load", "loaded", "copied"}
    /\ rows \in [status : [Keys -> Statuses], total : Counters,
                 limit : Counters, fails : Counters]

\* The active key is always usable: whatever spends its budget, faults it or
\* replaces its row also clears active_dev_id, so that a selection never hands
\* out a stale active key and its demotion branch never runs.
ActiveKeyUsable == active # NoKey => active \in UsableKeys

\* A key that has reached the failure threshold is never healthy, in memory or in
\* its row, although status writes may reach the database in any order, any of
\* them may be lost, and a reload may bring an old row back.
FaultyKeyQuarantined ==
    \A k \in Keys :
      /\ fails[k] >= FailureThreshold => status[k] # "healthy"
      /\ dFails[k] >= FailureThreshold => dStatus[k] # "healthy"

Recorded(k) ==
    dHourly[k] + pending[k]
      + batch["periodic"][k] + batch["hourly"][k] + batch["reload"][k]

\* No counted call is forgotten: it is pending, part of a flush under way, or in
\* the database, through failing and overlapping flushes.
NoCallForgotten == \A k \in Keys : made[k] <= Recorded(k)

\* What a reload loses: the calls counted between its copy of the pending counters and
\* the installation of the new keys, and, when it is dropped, the batch it was flushing.
LostByReload(k) ==
    IF rpc = "copied" /\ pending[k] > snap[k] THEN pending[k] - snap[k] ELSE batch["reload"][k]

\* No step but the end of a reload loses a counted call, and that loses no more than
\* what was counted beside it: flushes that overlap, fail, or fail after the commit
\* keep every other.  The run has the flushes of the reload alone; the theorem has
\* those of any set of tasks.
CallsKept ==
    [][ \A k \in Keys :
          made'[k] + Recorded(k) <=
            made[k] + Recorded(k)' +
              (IF rpc' = "idle" /\ ~flushing'["reload"] THEN LostByReload(k) ELSE 0) ]_vars
============================================================================
