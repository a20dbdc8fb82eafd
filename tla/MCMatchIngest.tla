---------------------------- MODULE MCMatchIngest ----------------------------
(* One hour with a ranked match and one of another queue.                     *)
EXTENDS MatchIngest
MCHourOf == [m \in Matches |-> 1]
=============================================================================
