---------------------------- MODULE MCFauxStakes ----------------------------
(* Small worlds for TLC: who plays where, and which calls the clients make. *)
EXTENDS LockDiscipline, TLC

Symmetric == Permutations(Requests)

\* m1 and m2 belong to c1, m3 to c2; s1 and s2 are the options of m1.
MCCompetitionOf == [m \in Markets |-> IF m = "m3" THEN "c2" ELSE "c1"]
MCMarketOf ==
  [s \in Selections |->
     CASE s \in {"s1", "s2"} -> "m1" [] s = "s3" -> "m2" [] s = "s4" -> "m3"]

\* odds of 2.000 on every selection
MCReturn == [s \in Selections |-> [x \in Stakes |-> 2 * x]]
ThreeChips == [c \in Competitions |-> 3]
MCHost == [c \in Competitions |-> "ann"]

Everyone == Competitions \X Users
HostsOnly == Competitions \X {"ann"}

AllOpen == [m \in Markets |-> "OPEN"]
M1Absent == [m \in Markets |-> IF m = "m1" THEN "ABSENT" ELSE "OPEN"]

Place(u, c, m, s, x, k) ==
  [op |-> "place", user |-> u, competition |-> c, market |-> m,
   selection |-> s, stake |-> x, key |-> k]
Undo(u, c, k) == [op |-> "undo", user |-> u, competition |-> c, key |-> k]
OnMarket(op, c, m) == [op |-> op, user |-> "ann", competition |-> c, market |-> m]
Settle(c, m, s) ==
  [op |-> "settle", user |-> "ann", competition |-> c, market |-> m, selection |-> s]
Join(u, c) == [op |-> "join", user |-> u, competition |-> c]

\* Two stakes of one wallet on two markets, one of them the whole wallet, an
\* undo, and the end of a market.
WalletCalls ==
  {Place("bob", "c1", "m1", "s1", 2, "k1"),
   Place("bob", "c1", "m2", "s3", 3, "k2"),
   Undo("bob", "c1", "k1"),
   OnMarket("close", "c1", "m1"),
   Settle("c1", "m1", "s1")}

\* A stake on each side of a market while it is closed and settled both ways.
SettlementCalls ==
  {Place("bob", "c1", "m1", "s1", 2, "k1"), Place("ann", "c1", "m1", "s2", 2, "k2"),
   Undo("bob", "c1", "k1"),
   OnMarket("close", "c1", "m1"),
   Settle("c1", "m1", "s1"), Settle("c1", "m1", "s2")}

\* The life of a market that is not there yet, settled on a selection of its
\* own or of another market.
MarketCalls ==
  {OnMarket("create", "c1", "m1"), OnMarket("open", "c1", "m1"),
   OnMarket("close", "c1", "m1"),
   Settle("c1", "m1", "s1"), Settle("c1", "m1", "s3"),
   Place("bob", "c1", "m1", "s1", 2, "k1")}

\* A player who joins two competitions, more than once, and sends the ids of
\* one to the other; one key used in both, and by two players.
CrossCalls ==
  {Place("bob", "c1", "m1", "s1", 2, "k1"), Place("bob", "c2", "m3", "s4", 2, "k1"),
   Place("bob", "c1", "m3", "s4", 2, "k2"), Place("bob", "c1", "m1", "s4", 2, "k2"),
   Place("ann", "c1", "m1", "s2", 2, "k1"),
   Undo("bob", "c1", "k1"), Undo("bob", "c2", "k1"),
   Join("bob", "c1"), Join("bob", "c2"),
   OnMarket("close", "c2", "m1"), OnMarket("close", "c1", "m1")}

\* One stake, sent more than once.
CopyCalls == {Place("bob", "c1", "m1", "s1", 2, "k1")}

=============================================================================
