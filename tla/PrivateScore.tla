----------------------------- MODULE PrivateScore -----------------------------
(* How alike two observations of private players are (private_identity.rs,    *)
(* PrivateObservation).  A number is 0 and a text is None where the provider  *)
(* said nothing; times are hours, matches are known by theirs.                *)
EXTENDS Integers, FiniteSets

CONSTANT None

Bonus(condition, points) == IF condition THEN points ELSE 0
Absolute(n) == IF n < 0 THEN -n ELSE n

(* has_private_identity_evidence *)
HasEvidence(o) ==
    \/ \E n \in {o.level, o.mastery, o.tier, o.points, o.party, o.champion, o.portal} : n > 0
    \/ o.user # None \/ o.members # {}

Earlier(o, c) == IF o.time >= c.time THEN c ELSE o
Later(o, c) == IF o.time >= c.time THEN o ELSE c
HoursApart(o, c) == Absolute(o.time - c.time)

BothKnown(o, c, field) == o[field] > 0 /\ c[field] > 0
SameKnown(o, c, field) == o[field] > 0 /\ o[field] = c[field]

Regression(o, c, field) == Earlier(o, c)[field] - Later(o, c)[field]

HardConflict(o, c) ==
    \/ o.match = c.match
    \/ o.user # None /\ c.user # None /\ o.user # c.user
    \/ BothKnown(o, c, "portal") /\ o.portal # c.portal
    \/ BothKnown(o, c, "level") /\ Regression(o, c, "level") > 1
    \/ SameKnown(o, c, "champion") /\ BothKnown(o, c, "mastery") /\ Regression(o, c, "mastery") > 2

PortalScore(o, c) ==
    Bonus(o.user # None /\ o.user = c.user /\ (o.portal = 0 \/ c.portal = 0 \/ o.portal = c.portal), 100)

(* A level that is exact, or that has grown by at most two. *)
Progress(o, c, field, exact, grown) ==
    IF ~BothKnown(o, c, field) THEN 0
    ELSE IF o[field] = c[field] THEN exact
    ELSE Bonus(Regression(o, c, field) \in -2 .. -1, grown)

LevelScore(o, c) == Progress(o, c, "level", IF o.level >= 999 THEN 8 ELSE 18, 12)

ChampionScore(o, c) ==
    IF SameKnown(o, c, "champion") THEN 3 + Progress(o, c, "mastery", 14, 8) ELSE 0

(* Ranked points should have moved the way the earlier match ended. *)
PointsScore(o, c) ==
    LET difference == Absolute(o.points - c.points)
        delta == -Regression(o, c, "points")
        outcome == Earlier(o, c).win
        direction == (outcome = "win" /\ delta >= 0) \/ (outcome = "loss" /\ delta <= 0)
    IN  IF ~SameKnown(o, c, "tier") \/ o.points < 0 \/ c.points < 0 THEN 0
        ELSE IF difference = 0 THEN 5
        ELSE IF direction THEN (IF difference <= 25 THEN 10 ELSE IF difference <= 50 THEN 7 ELSE 4)
        ELSE Bonus(outcome = None /\ difference <= 25, 3)

CompanionScore(o, c) ==
    LET n == Cardinality(o.members \cap c.members)
    IN  IF n = 0 THEN 0 ELSE 50 + (IF (n - 1) * 6 < 12 THEN (n - 1) * 6 ELSE 12)

PartyScore(o, c) ==
    IF ~SameKnown(o, c, "party") THEN 0
    ELSE IF HoursApart(o, c) > 12 THEN 3
    ELSE 20 + Bonus(PointsScore(o, c) > 0 /\ SameKnown(o, c, "level") /\ SameKnown(o, c, "tier"), 8)

TimeScore(o, c) == IF HoursApart(o, c) <= 12 THEN 5 ELSE Bonus(HoursApart(o, c) <= 24 * 7, 2)

(* All of what a casual match shows is the same within a session. *)
BundleScore(o, c) ==
    Bonus(/\ HoursApart(o, c) <= 12 /\ SameKnown(o, c, "level") /\ o.level < 999
          /\ SameKnown(o, c, "champion") /\ SameKnown(o, c, "mastery")
          /\ o.platform # None /\ o.platform = c.platform
          /\ o.scope # "ranked" /\ c.scope # "ranked", 25)

(* score_private_identity, for observations without a hard conflict. *)
ScorePrivateIdentity(o, c) ==
    LET total == PortalScore(o, c) + LevelScore(o, c) + ChampionScore(o, c)
                 + Bonus(SameKnown(o, c, "tier"), 10) + PointsScore(o, c)
                 + Bonus(o.platform # None /\ o.platform = c.platform, 4)
                 + CompanionScore(o, c) + PartyScore(o, c) + TimeScore(o, c) + BundleScore(o, c)
    IN  IF total > 100 THEN 100 ELSE total

(* The evidence for which candidate_observations reads an observation at all. *)
Related(o, c) ==
    \/ o.user # None /\ c.user = o.user
    \/ o.members \cap c.members # {}
    \/ o.party # 0 /\ c.party = o.party /\ HoursApart(o, c) <= 12
    \/ /\ o.level > 0 /\ o.champion > 0 /\ o.mastery > 0 /\ c.champion = o.champion
       /\ c.level >= 1 /\ Absolute(c.level - o.level) <= 2
       /\ c.mastery >= 1 /\ Absolute(c.mastery - o.mastery) <= 2
=============================================================================
