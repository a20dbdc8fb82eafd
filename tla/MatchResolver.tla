---------------------------- MODULE MatchResolver ----------------------------
(* How HirezRelay resolves a completed match (resolver.rs), as far as the     *)
(* canonical ingestion of the backend tells the answers apart.  A match has   *)
(* ten places in its roster; the evidence about it is abstracted to how much  *)
(* of that each source fills.                                                 *)

(* What one resolution finds:                                                 *)
(*   detail   usable players in the match detail: all, some or none of them   *)
(*   hidden   some of the direct players are private                          *)
(*   local    stored histories fill the places the detail leaves, with a      *)
(*            score they agree on                                             *)
(*   roster   getplayerbatchfrommatch: players, none, or an error             *)
(*   history  every missing player's history has the match, with a score      *)
(*   demo     getdemodetails gives date, map and duration                     *)
Evidence ==
    [detail : {"all", "some", "none"}, hidden : BOOLEAN, local : BOOLEAN,
     roster : {"players", "none", "error"}, history : BOOLEAN, demo : BOOLEAN]

(* A resolution, and whether the backend can make facts of it: from_relay_    *)
(* value finds a match in it that validate and validate_authoritative_players *)
(* accept.                                                                    *)
Resolution(status, usable) == [status |-> status, usable |-> usable]
Dropped == Resolution("dropped", FALSE)
LimitedMatch == Resolution("limited", TRUE)
RecoveryPending == Resolution("recovery_pending", FALSE)
RosterOnly == Resolution("roster_only", FALSE)

(* recover_ranked, from the first source that completes the match.  Where the *)
(* roster call fails or has no anchors, what the detail has is kept as a      *)
(* limited match.  Only without a detail is the demo needed for the rest.     *)
RecoverRanked(e) ==
    IF ~e.hidden /\ e.local /\ e.detail = "some" THEN Resolution("complete_recovered", TRUE)
    ELSE IF e.roster # "players"
         THEN IF e.detail = "some" THEN LimitedMatch ELSE Dropped
         ELSE IF e.history
              THEN Resolution("complete_recovered", e.detail = "some" \/ e.demo)
              ELSE RecoveryPending

(* recover_presence: outside ranked play no histories are fetched. *)
RecoverPresence(e) ==
    IF e.detail = "some" THEN LimitedMatch
    ELSE IF e.roster = "players" THEN RosterOnly ELSE Dropped

(* get_match_details_batch for one of its requests.  The queue hint decides   *)
(* which recovery runs; a lookup without one is taken for ranked unless the   *)
(* detail says otherwise.                                                     *)
Resolve(ranked, hint, e) ==
    IF e.detail = "all" THEN Resolution("complete_direct", TRUE)
    ELSE IF ranked \/ (~hint /\ e.detail = "none") THEN RecoverRanked(e) ELSE RecoverPresence(e)

(* resume_match_recovery: stored histories and the demo, nothing else. *)
ResumeRecovery(e) ==
    IF e.local /\ e.demo THEN Resolution("complete_recovered", TRUE) ELSE RecoveryPending
=============================================================================
