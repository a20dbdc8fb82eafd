-------------------------- MODULE MCPlayerRefresh --------------------------
(***************************************************************************)
(* PlayerRefresh for TLC: two requests of kinds that share state, with a   *)
(* pool of two connections, or the enrichment job with two players.  The   *)
(* profile ages where the requests look at it.                             *)
(***************************************************************************)
EXTENDS PlayerRefresh

Among(kinds, aging) == [who |-> Requests, kinds |-> kinds, players |-> aging]

MCCasts ==
    {Among({"profile", "discord"}, {Player}),
     Among({"loadouts", "champions"}, {}),
     Among({"search_id", "search_name"}, {Player}),
     [who |-> Workers, kinds |-> {}, players |-> Players]}
=============================================================================
