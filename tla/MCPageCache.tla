---------------------------- MODULE MCPageCache -----------------------------
(* PageCache for TLC: every parameter that some page reads, and a tracking    *)
(* parameter; a stale time three times the fresh one, as the routes have it.  *)
EXTENDS PageCache
MCParams == Tracking \cup UNION {Pages[p].loads : p \in DOMAIN Pages}
=============================================================================
