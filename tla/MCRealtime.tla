------------------------------ MODULE MCRealtime ------------------------------
(* One competition with a closed, an absent and an open market, its host and *)
(* another user.                                                             *)
EXTENDS Realtime

MCCompetitionOf == [m \in Markets |-> "c1"]
\* s1 and s2 are the options of m1.
MCMarketOf == [s \in Selections |-> "m1"]

\* Nothing is staked.
MCReturn == [s \in Selections |-> <<>>]
OneChip == [c \in Competitions |-> 1]
MCHost == [c \in Competitions |-> "ann"]

HostsOnly == Competitions \X {"ann"}
ClosedAbsentOpen == [m1 |-> "CLOSED", m2 |-> "ABSENT", m3 |-> "OPEN"]

=============================================================================
