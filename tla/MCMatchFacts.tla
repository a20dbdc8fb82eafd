----------------------------- MODULE MCMatchFacts -----------------------------
EXTENDS MatchFacts

CONSTANTS a, b   \* players that show their account

MCSymmetry == Permutations(Finalizers)

(* Two private players in the third match, one in each of the others. *)
MCSlots == <<<<1>>, <<1>>, <<1, 2>>>>

MCSeen(m, level, members, platform, scope) ==
    [match |-> m, time |-> m, party |-> 0, level |-> level, mastery |-> 0, tier |-> 0, points |-> 0,
     champion |-> 0, win |-> None, portal |-> 0, user |-> None, platform |-> platform,
     members |-> members, scope |-> scope]

(* The first and the second match alone are just below the threshold.  In the *)
(* order 1, 2, 3 two identities grow that look alike and meet in the third    *)
(* match; in the order 3, 1, 2 the second match is split off and merged later. *)
MCEvidence ==
    [o \in {<<1, 1>>, <<2, 1>>, <<3, 1>>, <<3, 2>>} |->
        CASE o = <<1, 1>> -> MCSeen(1, 10, {a}, "pc", "casual")
          [] o = <<2, 1>> -> MCSeen(2, 11, {a, b}, None, "ranked")
          [] o = <<3, 1>> -> MCSeen(3, 11, {b}, None, "ranked")
          [] o = <<3, 2>> -> MCSeen(3, 11, {a}, "pc", "ranked")]
=============================================================================
