------------------------------ MODULE Admission ------------------------------
(* What an HTTP request passes before its handler runs, and what an operator *)
(* does to it: foundation.rs (the deployment gate, the counted guard, the    *)
(* rate limits, the developer slots, the authentication limits), the         *)
(* deployment state of paladinscat-core deployment.rs, the operator's calls  *)
(* of admin/deployment.rs, and the start and stop of bin/api.rs.             *)
EXTENDS Integers, FiniteSets

CONSTANTS
    Requests,        \* requests that may be served at the same time
    Kinds,           \* kinds of requests to check
    AuthLimit,       \* account_auth_attempts_per_window
    SlotLimit        \* developer_api_concurrency_limit

ASSUME AdmissionConstants ==
    /\ IsFiniteSet(Requests)
    /\ Kinds \subseteq {"read", "developer", "login", "internal"}
    /\ {AuthLimit, SlotLimit} \subseteq Nat \ {0}

VARIABLES
    saved,      \* the deployment state in Redis, or NoState
    local,      \* DeploymentControl.local
    op,         \* the operator's call in progress
    drained,    \* a drain answered drained, and the gate has been closed since
    req,        \* the requests
    active,     \* ActiveRequestTracker.active
    slots,      \* developer_active_requests
    used,       \* the counter of sign-in attempts in its current window
    logins,     \* logins handled in the current window of their counter
    server      \* the life of the process

gateVars == <<saved, local, op, drained, req, active, slots, used, logins, server>>

-----------------------------------------------------------------------------
NoState == [absent |-> TRUE]

(* Draining, switching and warming block; announced, complete and failed do  *)
(* not.                                                                      *)
Phases == {"idle", "announced", "blocking"}
Blocking(state) == state.phase = "blocking"
IdleState == [phase |-> "idle", expired |-> FALSE]

Resting == [pc |-> "idle", kind |-> "internal", guard |-> FALSE, slot |-> FALSE,
            late |-> FALSE]
OpIdle == [pc |-> "idle", phase |-> "idle", drain |-> FALSE]

(* bypasses_deployment_gate and bypasses_public_rate_limit: internal calls,  *)
(* health checks and the operator's own calls go straight to their handler.  *)
Gated(kind) == kind # "internal"

Steps == {"idle", "arrive", "expire", "begin", "limits", "slot", "auth", "handler"}

GateTypeOK ==
    /\ drained \in BOOLEAN
    /\ saved \in {NoState} \cup [phase : Phases, expired : {FALSE}]
    /\ local \in [phase : Phases, expired : BOOLEAN]
    /\ op \in [pc : {"idle", "previous", "expire", "persist", "apply", "count", "check", "arm", "parked"},
               phase : Phases, drain : BOOLEAN]
    /\ req \in [Requests -> [pc : Steps, kind : Kinds \cup {"internal"}, guard : BOOLEAN,
                             slot : BOOLEAN, late : BOOLEAN]]
    /\ active = Cardinality({r \in Requests : req[r].guard})
    /\ slots = Cardinality({r \in Requests : req[r].slot})
    /\ used \in 0 .. AuthLimit + 1
    /\ logins \in 0 .. AuthLimit + 1
    /\ server \in {"up", "draining", "down"}

(* A deployment may have been announced before this process is looked at. *)
GateInit ==
    /\ saved \in {NoState, [phase |-> "announced", expired |-> FALSE]}
    /\ local = IF saved = NoState THEN IdleState ELSE saved
    /\ op = OpIdle
    /\ drained = FALSE
    /\ req = [r \in Requests |-> Resting]
    /\ active = 0 /\ slots = 0
    /\ used = 0
    /\ logins = 0
    /\ server = "up"

-----------------------------------------------------------------------------
(* Pieces of steps.                                                          *)

ApplyLocal(state) ==
    /\ local' = state
    /\ drained' = (drained /\ Blocking(state))

(* Dropping the guard of the last active request notifies a drain that has   *)
(* created its Notified; one that has not yet is not woken.                  *)
Leave(r) ==
    /\ active' = IF req[r].guard THEN active - 1 ELSE active
    /\ slots' = IF req[r].slot THEN slots - 1 ELSE slots
    /\ op' = IF req[r].guard /\ active = 1 /\ op.pc = "parked"
             THEN [op EXCEPT !.pc = "check"] ELSE op
    /\ req' = [req EXCEPT ![r] = Resting]

To(r, pc) == req' = [req EXCEPT ![r].pc = pc] /\ UNCHANGED <<active, slots, op>>

(* Every Redis command may fail.  A public limit (client, global, developer  *)
(* key) lets a request through or refuses it; what Redis does not answer it  *)
(* lets through (fail_open).  The counts are not told apart.                 *)
PublicLimit(r, next) ==
    /\ To(r, next) \/ Leave(r)
    /\ UNCHANGED used

(* A limit on sign-ins that lets through what it cannot count. *)
AuthUncounted(r) ==
    \/ /\ used' = IF used <= AuthLimit THEN used + 1 ELSE used
       /\ IF used + 1 <= AuthLimit THEN To(r, "handler") ELSE Leave(r)
    \/ To(r, "handler") /\ UNCHANGED used

(* The limit on sign-ins: INCR and compare (past the limit the count is not  *)
(* told apart); without Redis the request is refused.                        *)
AuthLimitCheck(r) ==
    \/ /\ used' = IF used <= AuthLimit THEN used + 1 ELSE used
       /\ IF used + 1 <= AuthLimit THEN To(r, "handler") ELSE Leave(r)
    \/ Leave(r) /\ UNCHANGED used

SlotFree == slots < SlotLimit

-----------------------------------------------------------------------------
(* A request.                                                                *)

Arrive(r, kind) ==
    /\ server = "up" /\ req[r].pc = "idle"
    /\ req' = [req EXCEPT ![r] = [Resting EXCEPT !.kind = kind,
                 !.pc = IF Gated(kind) THEN "arrive" ELSE "auth"]]
    /\ UNCHANGED <<saved, local, op, drained, active, slots, used, logins, server>>

(* local_state: the state is read under the lock.  A blocking one refuses    *)
(* the request; an expired one is replaced by idle, in a step of its own.    *)
ReadGate(r) ==
    /\ req[r].pc = "arrive"
    /\ CASE local.expired -> To(r, "expire")
         [] ~local.expired /\ Blocking(local) -> Leave(r)
         [] OTHER -> To(r, "begin")
    /\ UNCHANGED <<saved, local, drained, used, logins, server>>

ReplaceExpired(r) ==
    /\ req[r].pc = "expire"
    /\ ApplyLocal(IdleState)
    /\ req' = [req EXCEPT ![r].pc = "begin"]
    /\ UNCHANGED <<saved, op, active, slots, used, logins, server>>

(* A guard that is dropped where it is made. *)
BeginUncounted(r) ==
    /\ req[r].pc = "begin"
    /\ req' = [req EXCEPT ![r].pc = "limits", ![r].late = drained]
    /\ UNCHANGED <<saved, local, op, drained, active, slots, used, logins, server>>

(* The guard is counted from here to the answer. *)
Begin(r) ==
    /\ req[r].pc = "begin"
    /\ req' = [req EXCEPT ![r].pc = "limits", ![r].guard = TRUE, ![r].late = drained]
    /\ active' = active + 1
    /\ UNCHANGED <<saved, local, op, drained, slots, used, logins, server>>

(* The client's limit, then the global one. *)
PublicLimits(r) ==
    /\ req[r].pc = "limits"
    /\ PublicLimit(r, IF req[r].kind = "developer" THEN "slot" ELSE "auth")
    /\ UNCHANGED <<saved, local, drained, logins, server>>

(* A developer's key and its limit may refuse the request; then it needs one *)
(* of the slots.                                                             *)
TakeSlot(r) ==
    /\ req[r].pc = "slot"
    /\ \/ /\ SlotFree
          /\ slots' = slots + 1
          /\ req' = [req EXCEPT ![r].pc = "auth", ![r].slot = TRUE]
          /\ UNCHANGED <<active, op>>
       \/ Leave(r)
    /\ UNCHANGED <<saved, local, drained, used, logins, server>>

(* authorize_prehandler: routes that need credentials the request lacks are  *)
(* refused, sign-ins are limited.                                            *)
Authorize(r) ==
    /\ req[r].pc = "auth"
    /\ IF req[r].kind = "login"
       THEN AuthLimitCheck(r)
       ELSE (To(r, "handler") \/ Leave(r)) /\ UNCHANGED used
    /\ logins' = IF req'[r].pc = "handler" /\ req[r].kind = "login" /\ logins <= AuthLimit
                 THEN logins + 1 ELSE logins
    /\ UNCHANGED <<saved, local, drained, server>>

(* The handler returns, or the client is gone and the future is dropped. *)
Answer(r) ==
    /\ req[r].pc = "handler"
    /\ Leave(r)
    /\ UNCHANGED <<saved, local, drained, used, logins, server>>

Disconnect(r) ==
    /\ req[r].pc \notin {"idle", "handler"}
    /\ Leave(r)
    /\ UNCHANGED <<saved, local, drained, used, logins, server>>

-----------------------------------------------------------------------------
(* The operator: set_state, drain and warm.                                  *)

UnchangedButOp == UNCHANGED <<req, active, slots, used, logins, server>>

OperatorCalls(phase, drain) ==
    /\ server # "down" /\ op.pc = "idle"
    /\ drain => phase = "blocking"
    /\ op' = [pc |-> "previous", phase |-> phase, drain |-> drain]
    /\ UNCHANGED <<saved, local, drained>> /\ UnchangedButOp

ReadPrevious ==
    /\ op.pc = "previous"
    /\ op' = [op EXCEPT !.pc = IF local.expired THEN "expire" ELSE "persist"]
    /\ UNCHANGED <<saved, local, drained>> /\ UnchangedButOp

ReplacePrevious ==
    /\ op.pc = "expire"
    /\ ApplyLocal(IdleState)
    /\ op' = [op EXCEPT !.pc = "persist"]
    /\ UNCHANGED saved /\ UnchangedButOp

(* set_required: without Redis the call fails; a command that timed out may  *)
(* have been carried out all the same.                                       *)
Persist ==
    /\ op.pc = "persist"
    /\ \/ /\ saved' = [phase |-> op.phase, expired |-> FALSE]
          /\ op' = [op EXCEPT !.pc = "apply"]
       \/ /\ saved' \in {saved, [phase |-> op.phase, expired |-> FALSE]}
          /\ op' = OpIdle
    /\ UNCHANGED <<local, drained>> /\ UnchangedButOp

ApplyState ==
    /\ op.pc = "apply"
    /\ ApplyLocal([phase |-> op.phase, expired |-> FALSE])
    /\ op' = IF op.drain THEN [op EXCEPT !.pc = "count"] ELSE OpIdle
    /\ UNCHANGED saved /\ UnchangedButOp

(* wait_for_zero: look at the count; create the Notified; wait for it; look  *)
(* again.                                                                    *)
LookAtCount ==
    /\ op.pc \in {"count", "check"}
    /\ IF active = 0
       THEN op' = OpIdle /\ drained' = Blocking(local)
       ELSE op' = [op EXCEPT !.pc = IF op.pc = "count" THEN "check" ELSE "arm"] /\ UNCHANGED drained
    /\ UNCHANGED <<saved, local>> /\ UnchangedButOp

CreateNotified ==
    /\ op.pc = "arm"
    /\ op' = [op EXCEPT !.pc = "parked"]
    /\ UNCHANGED <<saved, local, drained>> /\ UnchangedButOp

(* A drain that trusts its notification and gives up only on busy requests. *)
DrainTimesOutIfBusy ==
    /\ op.pc = "parked" /\ active > 0
    /\ op' = OpIdle
    /\ UNCHANGED <<saved, local, drained>> /\ UnchangedButOp

DrainTimesOut ==
    /\ op.pc = "parked"
    /\ op' = OpIdle
    /\ UNCHANGED <<saved, local, drained>> /\ UnchangedButOp

-----------------------------------------------------------------------------
(* Time and the process.                                                     *)

UnchangedButTime == UNCHANGED <<op, req, active, slots>>

(* expires_at passes, in Redis and in the local copy. *)
StateExpires ==
    /\ saved # NoState \/ local.phase # "idle"
    /\ saved' = NoState
    /\ local' = [local EXCEPT !.expired = local.phase # "idle"]
    /\ drained' = FALSE
    /\ UNCHANGED <<used, logins, server>> /\ UnchangedButTime

WindowCloses ==
    /\ used > 0
    /\ used' = 0 /\ logins' = 0
    /\ UNCHANGED <<drained, saved, local, server>> /\ UnchangedButTime

(* SIGTERM: the listener is closed, requests in flight go on. *)
Shutdown ==
    /\ server = "up"
    /\ server' = "draining"
    /\ UNCHANGED <<drained, saved, local, used, logins>> /\ UnchangedButTime

(* The server task ends when the connections have, or the drain timeout      *)
(* (shutdown_drain_timeout_ms) does, and everything in the process is gone.  *)
Exit ==
    /\ server = "draining"
    /\ server' = "down"
    /\ op' = OpIdle /\ drained' = FALSE /\ local' = IdleState
    /\ req' = [r \in Requests |-> Resting] /\ active' = 0 /\ slots' = 0
    /\ UNCHANGED <<saved, used, logins>>

(* DeploymentControl::initialize: what Redis holds, idle when Redis does not *)
(* answer within the startup timeout.                                        *)
Start ==
    /\ server = "down"
    /\ server' = "up"
    /\ local' \in {IdleState} \cup (IF saved = NoState THEN {} ELSE {saved})
    /\ UNCHANGED <<saved, op, drained, req, active, slots, used, logins>>

-----------------------------------------------------------------------------
Request(r) ==
    \/ \E kind \in Kinds : Arrive(r, kind)
    \/ ReadGate(r) \/ ReplaceExpired(r) \/ Begin(r)
    \/ PublicLimits(r) \/ TakeSlot(r)
    \/ Authorize(r) \/ Answer(r) \/ Disconnect(r)

DrainStep == LookAtCount \/ CreateNotified \/ DrainTimesOut
OperatorStep == ReadPrevious \/ ReplacePrevious \/ Persist \/ ApplyState \/ DrainStep

Environment ==
    \/ WindowCloses \/ StateExpires \/ Shutdown \/ Exit \/ Start

GateNext ==
    \/ \E r \in Requests : Request(r)
    \/ \E phase \in Phases, drain \in BOOLEAN : OperatorCalls(phase, drain)
    \/ OperatorStep
    \/ Environment

(* The operator's call runs on, and the clock of its wait does too: a drain   *)
(* that is woken and parked again and again is found to have timed out.       *)
GateSpec == GateInit /\ [][GateNext]_gateVars /\ WF_gateVars(OperatorStep) /\ SF_gateVars(DrainTimesOut)

-----------------------------------------------------------------------------
(* When a drain has answered drained, and as long as the gate stays closed,  *)
(* nothing that was in progress is left: the only public requests inside     *)
(* began after the answer (they had read the gate before it closed).         *)
QuietAfterDrain ==
    drained => \A r \in Requests :
        Gated(req[r].kind) /\ req[r].pc \notin {"idle", "arrive", "expire", "begin"} => req[r].late

(* Sign-ins that reach their handler within one window of the counter stay   *)
(* within the limit, also when Redis comes and goes in between: what cannot  *)
(* be counted is not let through.                                            *)
LoginsAreLimited == logins <= AuthLimit

(* Developer requests inside never exceed the concurrency limit, and every   *)
(* way out of the foundation gives the slot back.                            *)
SlotsAreLimited ==
    Cardinality({r \in Requests : req[r].kind = "developer" /\ req[r].pc \in {"auth", "handler"}}) <= SlotLimit

(* The operator's drain is answered, also when the last request leaves       *)
(* between the look at the count and the creation of the Notified.           *)
DrainAnswers == op.pc = "count" ~> op.pc = "idle"

(* The two limits of the foundation hold together with the bookkeeping they   *)
(* read: the counters stay within what the requests inside account for.       *)
LimitsHold == GateTypeOK /\ LoginsAreLimited /\ SlotsAreLimited
=============================================================================
