----------------------------- MODULE MCRawBuffer -----------------------------
(***************************************************************************)
(* RawBuffer for TLC.  r1 is a payload of a new match, r2 and r3 are the   *)
(* old and a new payload of a match of the earlier writer, r4 is a profile *)
(* that every attempt rejects, r5 a good one, r6 a payload of a limited    *)
(* match, r7 one of a match whose players are never eligible.              *)
(***************************************************************************)
EXTENDS RawBuffer, TLC

CONSTANTS m1, m2, m3, m4, r1, r2, r3, r4, r5, r6, r7, w1, w2, p

Payloads ==
    r1 :> m1 @@ r2 :> m2 @@ r3 :> m2 @@ r6 :> m3 @@ r7 :> m4
        @@ [r \in {r4, r5} |-> NoMatch]

\* Each behaviour has one of these casts: the set-based lane and the requeue
\* of an old row, two workers on one match, a worker beside another
\* projector, a payload that is given up, a profile beside a limited match, a
\* new match beside one that is always rejected.
MCCasts ==
    {{r1, r2, r3, w1}, {r1, w1, w2}, {r1, w1, p, m1, m2}, {r4, w1}, {r5, r6, w1},
     {r1, r7, w1}}
=============================================================================
