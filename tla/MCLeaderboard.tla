---------------------------- MODULE MCLeaderboard ----------------------------
(* One competition, a market that is open and one that is not there yet. *)
EXTENDS Leaderboard

\* s1 and s2 are the options of m1, s3 the only one of m2.
MCCompetitionOf == [m \in Markets |-> "c1"]
MCMarketOf == [s \in Selections |-> IF s = "s3" THEN "m2" ELSE "m1"]

\* odds of 2.000 on every selection
MCReturn == [s \in Selections |-> [x \in Stakes |-> 2 * x]]
ThreeChips == [c \in Competitions |-> 3]
MCHost == [c \in Competitions |-> "ann"]

HostsOnly == Competitions \X {"ann"}
M2Absent == [m \in Markets |-> IF m = "m2" THEN "ABSENT" ELSE "OPEN"]

=============================================================================
