---------------------------- MODULE MCRouteCache ----------------------------
(* RouteCache for TLC: two readers of one process. *)
EXTENDS RouteCache, TLC
CONSTANTS r1, r2, p1
MCHome == (r1 :> p1) @@ (r2 :> p1)
=============================================================================
