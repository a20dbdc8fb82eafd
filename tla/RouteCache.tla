------------------------------ MODULE RouteCache ------------------------------
(* The read path of the HTTP API for one cache key: route_cache.rs over the   *)
(* shared Redis (paladinscat-core cache.rs), the handlers that use it, and    *)
(* the writers that change what it caches.                                    *)
(*                                                                            *)
(* A payload is abstracted to its lag: Current while the database still says  *)
(* the same, otherwise the number of ticks since the database moved on.  A    *)
(* tick is one unit of the time that the lifetimes below are given in.  The   *)
(* age of a payload whose parts were cached before it was put together is the *)
(* subject of PageCache.                                                      *)
EXTENDS CacheEntry, FiniteSets

CONSTANTS
    Readers,       \* concurrent readers
    Processes,     \* API processes; each has one refresh_in_flight set
    Home,          \* Home[r]: the process that serves reader r
    Families,      \* the kinds of cached routes to check
    LeaseTtl,      \* LEASE_TTL_MS
    LoadTime,      \* longest time from a loader's snapshot to its store
    MaxFaults      \* lost Redis commands and process deaths

ASSUME RouteCacheConstants ==
    /\ Home \in [Readers -> Processes]
    /\ LeaseTtl \in Nat \ {0} /\ LoadTime \in Nat /\ MaxFaults \in Nat
    /\ Readers \cap Processes = {}
    /\ Families \subseteq {"listing", "banner", "overview", "detail"}

VARIABLES
    family,     \* the kind of route the key belongs to
    response,   \* the stored response, or None
    lease,      \* "<key>:lease": who set it and for how long, or None
    inflight,   \* processes whose refresh_in_flight holds the key
    task,       \* readers, and for each process its spawned refresh
    edit,       \* an administrator's edit between its UPDATE and its DEL
    faults      \* faults so far

routeVars == <<family, response, lease, inflight, task, edit, faults>>

Tasks == Readers \cup Processes
Process(t) == IF t \in Readers THEN Home[t] ELSE t

-----------------------------------------------------------------------------
(* Payloads, entries and leases.                                             *)

Current == -1

(* Ticks after which a superseded payload is not told apart any more. *)
MaxLag == LoadTime + FreshTtl + StaleTtl + 1

Lags == Current .. MaxLag
Older(lag) == IF lag = Current \/ lag = MaxLag THEN lag ELSE lag + 1
Superseded(lag) == IF lag = Current THEN 0 ELSE lag

(* Which routes go through acquire_cold_miss: the listings (statistics,      *)
(* directories, notifications, changelog, ...) and the banner.  The overview *)
(* and the match detail fill without a lease.                                *)
Leased == family \in {"listing", "banner"}

(* The match detail is a plain GET/SETEX: it has one lifetime and no refresh *)
(* in the background.                                                        *)
Refreshes == family # "detail"

FamilyLifetime == IF Refreshes THEN FreshTtl + StaleTtl ELSE FreshTtl

StoredRoute(lag) == [lag |-> lag, ttl |-> FamilyLifetime, readable |-> TRUE]
RefreshDue(e) == Refreshes /\ e.ttl <= StaleTtl

Idle == [pc |-> "idle", lag |-> Current, clock |-> 0, owner |-> FALSE]

RouteTypeOK ==
    /\ family \in Families
    /\ response \in {None} \cup [lag : Lags, ttl : 1 .. FreshTtl + StaleTtl, readable : BOOLEAN]
    /\ lease \in {None} \cup [by : Tasks, ttl : 1 .. LeaseTtl]
    /\ inflight \subseteq Processes
    /\ task \in [Tasks -> [pc : {"idle", "acquire", "wait", "load", "loaded", "release", "finish"},
                           lag : Lags, clock : 0 .. LoadTime, owner : BOOLEAN]]
    /\ edit \in BOOLEAN
    /\ faults \in 0 .. MaxFaults

(* Every key starts empty, or with what an earlier release left in a format  *)
(* that StoredRouteResponse::decode refuses.                                 *)
RouteInit ==
    /\ family \in Families
    /\ response \in {None, [lag |-> Current, ttl |-> FamilyLifetime, readable |-> FALSE]}
    /\ lease = None
    /\ inflight = {}
    /\ task = [t \in Tasks |-> Idle]
    /\ edit = FALSE
    /\ faults = 0

-----------------------------------------------------------------------------
(* Redis commands.  A command is carried out and answered, or it times out:  *)
(* then the caller takes it for failed, whether Redis did it or not.         *)

Fault == faults < MaxFaults /\ faults' = faults + 1
NoFault == faults' = faults

(* store: SETEX with the lifetime of the fill. *)
Store(lag) ==
    \/ response' = StoredRoute(lag) /\ NoFault
    \/ response' \in {response, StoredRoute(lag)} /\ Fault

(* A release that does not compare the token. *)
ReleaseAnyLease(t) ==
    LET freed == IF task[t].owner THEN None ELSE lease
    IN  \/ lease' = freed /\ NoFault
        \/ task[t].owner /\ lease' \in {lease, freed} /\ Fault

(* release_lease deletes the lease only when it still holds the token. *)
ReleaseLease(t) ==
    LET freed == IF task[t].owner /\ lease # None /\ lease.by = t THEN None ELSE lease
    IN  \/ lease' = freed /\ NoFault
        \/ task[t].owner /\ lease' \in {lease, freed} /\ Fault

Goto(t, pc) == task' = [task EXCEPT ![t].pc = pc]

-----------------------------------------------------------------------------
(* A reader.                                                                 *)

(* A hit that renews the lifetime of the response. *)
ServeAndExtend(r) ==
    /\ task[r].pc = "idle" /\ response # None /\ response.readable
    /\ response' = [response EXCEPT !.ttl = FamilyLifetime]
    /\ UNCHANGED <<family, lease, inflight, task, edit, faults>>

(* The lookup finds a response that decodes: it is served at once, and a     *)
(* stale one starts one refresh per process in the background.               *)
ServeCached(r) ==
    /\ task[r].pc = "idle" /\ response # None /\ response.readable
    /\ IF RefreshDue(response) /\ Home[r] \notin inflight
       THEN /\ inflight' = inflight \cup {Home[r]}
            /\ Goto(Home[r], IF Leased THEN "acquire" ELSE "load")
       ELSE UNCHANGED <<inflight, task>>
    /\ UNCHANGED <<family, response, lease, edit, faults>>

(* The lookup finds nothing, or it fails, or what it finds does not decode   *)
(* and is deleted.                                                           *)
Miss(r) ==
    /\ task[r].pc = "idle"
    /\ \/ response = None /\ UNCHANGED response /\ NoFault
       \/ response # None /\ ~response.readable /\ response' = None /\ NoFault
       \/ /\ response' \in {response} \cup (IF response # None /\ ~response.readable THEN {None} ELSE {})
          /\ Fault
    /\ Goto(r, IF Leased THEN "acquire" ELSE "load")
    /\ UNCHANGED <<family, lease, inflight, edit>>

(* acquire_cold_miss by a reader: Owner and Unavailable load, a Follower     *)
(* waits.  By a refresh: only the Owner loads.                               *)
Acquire(t) ==
    /\ task[t].pc = "acquire"
    /\ \/ /\ lease = None
          /\ lease' = [by |-> t, ttl |-> LeaseTtl]
          /\ task' = [task EXCEPT ![t].pc = "load", ![t].owner = TRUE]
          /\ NoFault
       \/ /\ lease # None
          /\ Goto(t, IF t \in Readers THEN "wait" ELSE "release")
          /\ UNCHANGED lease /\ NoFault
       \/ /\ Fault
          /\ lease' \in {lease} \cup (IF lease = None THEN {[by |-> t, ttl |-> LeaseTtl]} ELSE {})
          /\ Goto(t, IF t \in Readers THEN "load" ELSE "release")
    /\ UNCHANGED <<family, response, inflight, edit>>

(* wait_for_cold_miss: a poll finds the owner's response. *)
Coalesce(r) ==
    /\ task[r].pc = "wait" /\ response # None
    /\ IF response.readable
       THEN task' = [task EXCEPT ![r] = Idle] /\ UNCHANGED response
       ELSE response' = None /\ UNCHANGED task
    /\ UNCHANGED <<family, lease, inflight, edit, faults>>

(* wait_for_cold_miss: COLD_MISS_WAIT_MS is over and the reader loads for    *)
(* itself, without the lease.                                                *)
GiveUpWaiting(r) ==
    /\ task[r].pc = "wait"
    /\ Goto(r, "load")
    /\ UNCHANGED <<family, response, lease, inflight, edit, faults>>

(* The loader's statement sees the database as it is now. *)
Load(t) ==
    /\ task[t].pc = "load"
    /\ task' = [task EXCEPT ![t].pc = "loaded", ![t].lag = Current, ![t].clock = 0]
    /\ UNCHANGED <<family, response, lease, inflight, edit, faults>>

(* The statement fails: nothing is stored, the lease is given back. *)
LoadFails(t) ==
    /\ task[t].pc = "load"
    /\ Fault
    /\ Goto(t, "release")
    /\ UNCHANGED <<family, response, lease, inflight, edit>>

StoreLoaded(t) ==
    /\ task[t].pc = "loaded"
    /\ Store(task[t].lag)
    /\ task' = [task EXCEPT ![t].pc = "release", ![t].lag = Current, ![t].clock = 0]
    /\ UNCHANGED <<family, lease, inflight, edit>>

(* A refresh that did not get the lease returns without finish_refresh. *)
ReleaseAndReturn(t) ==
    /\ task[t].pc = "release"
    /\ ReleaseLease(t)
    /\ task' = [task EXCEPT ![t] = IF t \in Readers \/ ~task[t].owner THEN Idle
                                   ELSE [Idle EXCEPT !.pc = "finish"]]
    /\ UNCHANGED <<family, response, inflight, edit>>

(* The lease is released; a reader answers, a refresh goes on to             *)
(* finish_refresh.                                                           *)
Release(t) ==
    /\ task[t].pc = "release"
    /\ ReleaseLease(t)
    /\ task' = [task EXCEPT ![t] = IF t \in Readers THEN Idle ELSE [Idle EXCEPT !.pc = "finish"]]
    /\ UNCHANGED <<family, response, inflight, edit>>

FinishRefresh(p) ==
    /\ task[p].pc = "finish"
    /\ inflight' = inflight \ {p}
    /\ task' = [task EXCEPT ![p] = Idle]
    /\ UNCHANGED <<family, response, lease, edit, faults>>

(* The client disconnects and the handler is dropped where it awaits: its    *)
(* lease stays until it expires.                                             *)
Abandon(r) ==
    /\ task[r].pc # "idle"
    /\ task' = [task EXCEPT ![r] = Idle]
    /\ UNCHANGED <<family, response, lease, inflight, edit, faults>>

-----------------------------------------------------------------------------
(* The rest of the system.                                                   *)

(* The database moves on: no payload at hand is what it says any more. *)
Supersede ==
    /\ response' = IF response = None THEN None ELSE [response EXCEPT !.lag = Superseded(@)]
    /\ task' = [t \in Tasks |-> [task[t] EXCEPT !.lag = IF task[t].pc = "loaded" THEN Superseded(@) ELSE Current]]

(* A worker writes what the route shows. *)
WorkerWrites ==
    /\ family # "banner"
    /\ Supersede
    /\ UNCHANGED <<family, lease, inflight, edit, faults>>

(* An administrator's create, update or delete commits its row ... *)
AdminWrites ==
    /\ family \in {"listing", "banner"} /\ ~edit
    /\ Supersede
    /\ edit' = TRUE
    /\ UNCHANGED <<family, lease, inflight, faults>>

(* ... and then deletes a cache key.  The banner is cached under that key;   *)
(* the listings are cached under longer keys that hold the URL, so that the  *)
(* deletion finds nothing.                                                   *)
AdminDeletesKey ==
    /\ edit
    /\ edit' = FALSE
    /\ \/ response' = (IF family = "banner" THEN None ELSE response) /\ NoFault
       \/ response' \in (IF family = "banner" THEN {response, None} ELSE {response}) /\ Fault
    /\ UNCHANGED <<family, lease, inflight, task>>

(* flush_cache and flush_pattern drop the entry and the lease beside it. *)
Flush ==
    /\ response' = None /\ lease' = None
    /\ UNCHANGED <<family, inflight, task, edit, faults>>

(* An API process dies; Redis keeps what the process set. *)
ProcessDies(p) ==
    /\ Fault
    /\ task' = [t \in Tasks |-> IF Process(t) = p THEN Idle ELSE task[t]]
    /\ inflight' = inflight \ {p}
    /\ UNCHANGED <<family, response, lease, edit>>

(* statement_timeout and the Redis timeout bound the time from a snapshot to *)
(* its store.                                                                *)
RouteTick ==
    /\ \A t \in Tasks : task[t].pc = "loaded" => task[t].clock < LoadTime
    /\ LET aged == Expire(response)
       IN  response' = IF aged = None THEN None ELSE [aged EXCEPT !.lag = Older(@)]
    /\ lease' = Expire(lease)
    /\ task' = [t \in Tasks |-> IF task[t].pc = "loaded"
                                THEN [task[t] EXCEPT !.lag = Older(@), !.clock = @ + 1]
                                ELSE task[t]]
    /\ UNCHANGED <<family, inflight, edit, faults>>

Reader(r) ==
    ServeCached(r) \/ Miss(r) \/ Coalesce(r) \/ GiveUpWaiting(r) \/ Abandon(r)
Filler(t) ==
    Acquire(t) \/ Load(t) \/ LoadFails(t) \/ StoreLoaded(t) \/ Release(t)
Others ==
    WorkerWrites \/ AdminWrites \/ AdminDeletesKey \/ Flush \/ RouteTick

RouteNext ==
    \/ \E r \in Readers : Reader(r)
    \/ \E t \in Tasks : Filler(t)
    \/ \E p \in Processes : FinishRefresh(p) \/ ProcessDies(p)
    \/ Others

(* A task that runs is scheduled, its statements and commands end in time    *)
(* and a follower's wait has a deadline.  Nothing makes readers arrive,      *)
(* writers write, clients leave or processes die.                            *)
Progress(t) ==
    Acquire(t) \/ Load(t) \/ StoreLoaded(t) \/ Release(t)
        \/ (t \in Readers /\ GiveUpWaiting(t)) \/ (t \in Processes /\ FinishRefresh(t))

RouteSpec == RouteInit /\ [][RouteNext]_routeVars /\ \A t \in Tasks : WF_routeVars(Progress(t))

-----------------------------------------------------------------------------
(* What a reader can be served is bounded in age: a response in the cache is *)
(* at most as far behind the database as its load took and it has been kept, *)
(* whatever leases were lost, fills raced and invalidations missed.          *)
ServedIsBounded ==
    response # None => response.lag <= LoadTime + (FamilyLifetime - response.ttl)

(* release never frees the lease of another: a lease ends by its owner's     *)
(* release, by its lifetime or by a flush, so that a slow fill that outlived *)
(* its lease does not let a third one in beside the second.                  *)
LeaseEndsRightly ==
    [][lease # None /\ lease' = None =>
          \/ task[lease.by].owner /\ ~task'[lease.by].owner
          \/ RouteTick \/ Flush]_routeVars

(* A key whose background refresh was started can be refreshed again, also   *)
(* when another process held the lease, Redis was away or the load failed.   *)
RefreshEnds == \A p \in Processes : p \in inflight ~> p \notin inflight

(* Every reader is answered, also a follower whose owner died with the lease *)
(* and one that finds Redis away.                                            *)
ReadersAnswered == \A r \in Readers : task[r].pc # "idle" ~> task[r].pc = "idle"

(* Every fill comes to an end, for the page (finish_refresh is reached on     *)
(* every way out) and for the readers that wait for it.                       *)
FillsEnd == RefreshEnds /\ ReadersAnswered
=============================================================================
