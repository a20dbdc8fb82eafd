-------------------------- MODULE MCSchedulerHost --------------------------
(* SchedulerHost for TLC: two processes that compete for one domain.          *)
EXTENDS SchedulerHost, TLC

CONSTANTS o1, o2, discovery, drain

\* Either the drain comes due in both processes, or discovery, which a drain
\* follows, in the first of them.  Both processes drain at startup as well.
MCTimetables == {o1 :> {drain} @@ o2 :> {drain}, o1 :> {discovery} @@ o2 :> {}}
============================================================================
