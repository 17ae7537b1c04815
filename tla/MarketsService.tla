--------------------------- MODULE MarketsService ---------------------------
(***************************************************************************)
(* createMarket, openMarket, closeMarket and settleMarket, statement by    *)
(* statement, up to the commit of their transactions.                      *)
(***************************************************************************)
EXTENDS Transactions

\* The status a handler claims a market in, and the one it leaves it in.
From == [open |-> "DRAFT", close |-> "OPEN", settle |-> "CLOSED"]
To == [create |-> "DRAFT", open |-> "OPEN", close |-> "CLOSED"]

-----------------------------------------------------------------------------
(* createMarket *)

\* tx.market.create.  A market is named inside its competition by a unique
\* index, so it waits for an open transaction that has the name.
InsertMarket(r) ==
  LET m == call[r].market IN
  /\ At(r, "insert")
  /\ holder[MarketRow(m)] = None
  /\ IF status[m] = "ABSENT"
     THEN /\ Lock(r, MarketRow(m))
          /\ Goto(r, "touch")
          /\ UNCHANGED <<tables, todo, owed>>
     ELSE Refuse(r)

-----------------------------------------------------------------------------
(* openMarket, closeMarket and the start of settleMarket *)

\* A fault the runs must expose: a draft does not count as a market.
FindMarketPublished(r) ==
  LET a == call[r] IN
  /\ At(r, "find")
  /\ IF /\ status[a.market] \notin {"ABSENT", "DRAFT"}
        /\ CompetitionOf[a.market] = a.competition
     THEN Goto(r, "claim") /\ UNCHANGED <<tables, todo, owed, holder>>
     ELSE Refuse(r)

\* prisma.market.findFirst, before the transaction.
FindMarket(r) ==
  LET a == call[r] IN
  /\ At(r, "find")
  /\ IF status[a.market] # "ABSENT" /\ CompetitionOf[a.market] = a.competition
     THEN Goto(r, "claim") /\ UNCHANGED <<tables, todo, owed, holder>>
     ELSE Refuse(r)

\* A fault the runs must expose: the claim does not look at the status.
ClaimMarketAnyStatus(r) ==
  LET a == call[r] IN
  /\ At(r, "claim")
  /\ IF CompetitionOf[a.market] = a.competition
     THEN /\ Lock(r, MarketRow(a.market))
          /\ Goto(r, IF a.op = "settle" THEN "winner" ELSE "touch")
          /\ UNCHANGED <<tables, todo, owed>>
     ELSE Refuse(r)

\* tx.market.updateMany where the status is the expected one.
ClaimMarket(r) ==
  LET a == call[r] IN
  /\ At(r, "claim")
  /\ IF CompetitionOf[a.market] = a.competition /\ status[a.market] = From[a.op]
     THEN /\ Lock(r, MarketRow(a.market))
          /\ Goto(r, IF a.op = "settle" THEN "winner" ELSE "touch")
          /\ UNCHANGED <<tables, todo, owed>>
     ELSE Refuse(r)

CommitStatus(r) ==
  LET a == call[r] IN
  /\ At(r, "commit")
  /\ a.op \in {"create", "open", "close"}
  /\ WriteStatus(a.market, To[a.op])
  /\ Finish(r, "ok")

-----------------------------------------------------------------------------
(* the rest of settleMarket *)

\* A fault the runs must expose: the winner is taken on trust.
CheckWinnerTrusting(r) ==
  /\ At(r, "winner")
  /\ Goto(r, "collect")
  /\ UNCHANGED <<tables, todo, owed, holder>>

\* tx.selection.findMany: the winner must be a selection of this market.
CheckWinner(r) ==
  LET a == call[r] IN
  /\ At(r, "winner")
  /\ IF MarketOf[a.selection] = a.market
     THEN Goto(r, "collect") /\ UNCHANGED <<tables, todo, owed, holder>>
     ELSE Refuse(r)

\* A fault the runs must expose: undone bets are collected too.
CollectBetsAll(r) ==
  LET found == BetsOn(call[r].market) IN
  /\ At(r, "collect")
  /\ todo' = [todo EXCEPT ![r] = found]
  /\ Goto(r, IF found = {} THEN "touch" ELSE "resolve")
  /\ UNCHANGED <<tables, owed, holder>>

\* tx.bet.findMany: the bets the loop will resolve.
CollectBets(r) ==
  LET a == call[r]
      found == {k \in Pending(a.market) : bet[k].competition = a.competition}
  IN  /\ At(r, "collect")
      /\ todo' = [todo EXCEPT ![r] = found]
      /\ Goto(r, IF found = {} THEN "touch" ELSE "resolve")
      /\ UNCHANGED <<tables, owed, holder>>

\* One turn of the loop: tx.bet.updateMany where PENDING, and the PAYOUT of a
\* bet on the winner.  findMany gives the bets in no particular order.  The
\* selections are written after the loop, by nobody else.
ResolveBet(r, k) ==
  /\ At(r, "resolve")
  /\ k \in todo[r]
  /\ IF bet[k].status = "PENDING"
     THEN /\ Lock(r, BetRow(k))
          /\ todo' = [todo EXCEPT ![r] = @ \ {k}]
          /\ Goto(r, IF todo[r] = {k} THEN "touch" ELSE "resolve")
          /\ UNCHANGED <<tables, owed>>
     ELSE Answer(r, "conflict")

\* The bets whose rows the loop has updated.
Resolved(r) == {k \in Keys : holder[BetRow(k)] = r}

CommitSettle(r) ==
  LET a == call[r] IN
  /\ At(r, "commit")
  /\ a.op = "settle"
  /\ WriteSettle(a.competition, a.market, a.selection, Resolved(r), r)
  /\ Finish(r, "ok")

-----------------------------------------------------------------------------

MarketStep(r) ==
  \/ InsertMarket(r) \/ FindMarket(r) \/ ClaimMarket(r) \/ CommitStatus(r)
  \/ CheckWinner(r) \/ CollectBets(r) \/ CommitSettle(r)
  \/ \E k \in Keys : ResolveBet(r, k)

=============================================================================
