----------------------------- MODULE CacheEntry -----------------------------
(* What a key of the shared Redis holds, for the modules about cached routes: *)
(* nothing, or a record with the time it has left (ttl).                      *)
EXTENDS Integers

CONSTANTS
    FreshTtl,      \* fresh_ttl
    StaleTtl       \* stale_ttl

ASSUME CacheEntryConstants == FreshTtl \in Nat \ {0} /\ StaleTtl \in Nat

None == [absent |-> TRUE]

(* Redis counts lifetimes down and drops what has none left.                  *)
Expire(e) == IF e = None \/ e.ttl = 1 THEN None ELSE [e EXCEPT !.ttl = @ - 1]
=============================================================================
