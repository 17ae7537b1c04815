----------------------------- MODULE MCRowLocks -----------------------------
(* One competition with a market, a bet on it, two teams and a member;      *)
(* clients may stake, undo, settle, create, join, delete, add teams, and    *)
(* edit teams, each to the name of the other.  openMarket and closeMarket   *)
(* lock the first and the last row of a settlement and run with liveness.   *)
EXTENDS RowLocks, TLC

MCMarketOf == [k \in Keys |-> "m1"]

MCPresent ==
  {Competition, Market("m1"), Wallet("ann"), Team("t1"), Team("t2"), Bet("old")}

\* Two teams "a" and "b" swap their names, while teams of these names are added.
EditCalls == {EditTeam("t1", "a", "b"), EditTeam("t2", "b", "a")}
AddTeams == CreateTeams("t3", {"a", "b"})

HandlerCalls ==
  {PlaceBet("new", "ann"), UndoBet("old"), CreateMarket("m2", "t1"), SettleMarket("m1"),
   CreateSnapshot("m1"), JoinCompetition("bob"), MarkSeen("ann"),
   AddTeams} \cup EditCalls

RowsOf(handlers) == UNION {d.rows : d \in UNION {{s[i] : i \in DOMAIN s} : s \in handlers}}

\* The calls of these handlers, and a deletion of all their rows.
CallsOf(handlers) ==
  {[demands |-> s, deletes |-> FALSE] : s \in handlers}
  \cup {[demands |-> DeleteCompetition(RowsOf(handlers)), deletes |-> TRUE]}

AllCalls == CallsOf(HandlerCalls)

\* For the liveness run: a market is opened or closed, two teams swap names, and the deletion.
FewPresent == {Competition, Market("m1"), Team("t1"), Team("t2")}

FewCalls == CallsOf({ChangeMarket("m1")} \cup EditCalls)

Symmetry == Permutations(Requests)

=============================================================================
