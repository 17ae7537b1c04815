---------------------------- MODULE BetsService -----------------------------
(***************************************************************************)
(* placeBet and undoBet, statement by statement.  Both lock the market row *)
(* first; placeBet then locks the player's wallet.                         *)
(***************************************************************************)
EXTENDS Transactions

Mine(k, a) == bet[k].user = a.user /\ bet[k].competition = a.competition

\* A fault the runs must expose: whoever sends the key is given its bet.
AnswerExistingAnyone(r) == Answer(r, "ok")

\* getExistingBetResult for a key that has a bet: it is the answer, unless the
\* key belongs to another player or another competition.
AnswerExisting(r) ==
  IF Mine(call[r].key, call[r]) THEN Answer(r, "ok") ELSE Refuse(r)

-----------------------------------------------------------------------------
(* placeBet *)

\* Before the transaction: was this key used already?
LookupKey(r) ==
  /\ At(r, "lookup")
  /\ IF bet[call[r].key] # None
     THEN AnswerExisting(r)
     ELSE Goto(r, "stake") /\ UNCHANGED <<tables, todo, owed, holder>>

\* A fault the runs must expose: the market is read, not locked.
LockOpenMarketUnlocked(r) ==
  LET a == call[r] IN
  /\ At(r, "stake")
  /\ IF CompetitionOf[a.market] = a.competition /\ status[a.market] = "OPEN"
     THEN Goto(r, "wallet") /\ UNCHANGED <<tables, todo, owed, holder>>
     ELSE Refuse(r)

\* tx.market.updateMany: lock the market while proving it is OPEN.
LockOpenMarket(r) ==
  LET a == call[r] IN
  /\ At(r, "stake")
  /\ IF CompetitionOf[a.market] = a.competition /\ status[a.market] = "OPEN"
     THEN /\ Lock(r, MarketRow(a.market))
          /\ Goto(r, "wallet")
          /\ UNCHANGED <<tables, todo, owed>>
     ELSE Refuse(r)

\* A fault the runs must expose: the wallet row is read without FOR UPDATE.
LockPlayerWalletUnlocked(r) ==
  LET a == call[r] IN
  /\ At(r, "wallet")
  /\ IF <<a.competition, a.user>> \in member
     THEN Goto(r, "odds") /\ UNCHANGED <<tables, todo, owed, holder>>
     ELSE Refuse(r)

\* lockPlayerWallet: SELECT ... FOR UPDATE of the membership row.
LockPlayerWallet(r) ==
  LET a == call[r] IN
  /\ At(r, "wallet")
  /\ IF <<a.competition, a.user>> \in member
     THEN /\ Lock(r, WalletRow(a.competition, a.user))
          /\ Goto(r, "odds")
          /\ UNCHANGED <<tables, todo, owed>>
     ELSE Refuse(r)

\* A fault the runs must expose: any ACTIVE selection will do.
ReadSelectionAnywhere(r) ==
  LET a == call[r] IN
  /\ At(r, "odds")
  /\ IF selection[a.selection] = "ACTIVE" /\ status[a.market] = "OPEN"
     THEN Goto(r, "balance") /\ UNCHANGED <<tables, todo, owed, holder>>
     ELSE Refuse(r)

\* tx.selection.findFirst: an ACTIVE selection of this open market.
ReadSelection(r) ==
  LET a == call[r] IN
  /\ At(r, "odds")
  /\ IF /\ MarketOf[a.selection] = a.market
        /\ selection[a.selection] = "ACTIVE"
        /\ CompetitionOf[a.market] = a.competition
        /\ status[a.market] = "OPEN"
     THEN Goto(r, "balance") /\ UNCHANGED <<tables, todo, owed, holder>>
     ELSE Refuse(r)

\* A fault the runs must expose: lte instead of lt, so nobody can stake all.
ReadBalanceStrict(r) ==
  LET a == call[r] IN
  /\ At(r, "balance")
  /\ IF Balance(a.competition, a.user) <= a.stake
     THEN Refuse(r)
     ELSE Goto(r, "bet") /\ UNCHANGED <<tables, todo, owed, holder>>

\* getCurrentBalance and the comparison with the stake.
ReadBalance(r) ==
  LET a == call[r] IN
  /\ At(r, "balance")
  /\ IF Balance(a.competition, a.user) < a.stake
     THEN Refuse(r)
     ELSE Goto(r, "bet") /\ UNCHANGED <<tables, todo, owed, holder>>

\* A fault the runs must expose: no unique index on idempotencyKey.
InsertBetUnindexed(r) ==
  /\ At(r, "bet")
  /\ Goto(r, "touch")
  /\ UNCHANGED <<tables, todo, owed, holder>>

\* tx.bet.create.  The unique index on idempotencyKey makes it wait for an
\* open transaction that has the key; a key in use raises P2002, which rolls
\* the transaction back.  The DEBIT that follows contends with nobody.
InsertBet(r) ==
  LET k == call[r].key IN
  /\ At(r, "bet")
  /\ holder[BetRow(k)] = None
  /\ IF bet[k] = None
     THEN Lock(r, BetRow(k)) /\ Goto(r, "touch")
     ELSE Release(r) /\ Goto(r, "replay")
  /\ UNCHANGED <<tables, todo, owed>>

\* The catch clause: after P2002 answer with the bet that has the key.
ReplayKey(r) ==
  /\ At(r, "replay")
  /\ IF bet[call[r].key] # None THEN AnswerExisting(r) ELSE Refuse(r)

CommitPlace(r) ==
  LET a == call[r] IN
  /\ At(r, "commit")
  /\ a.op = "place"
  /\ WritePlace(a.competition, a.user, a.selection, a.stake, a.key, a.market, r)
  /\ Finish(r, "ok")

PlaceBet(r) ==
  \/ LookupKey(r) \/ LockOpenMarket(r) \/ LockPlayerWallet(r) \/ ReadSelection(r)
  \/ ReadBalance(r) \/ InsertBet(r) \/ ReplayKey(r) \/ CommitPlace(r)

-----------------------------------------------------------------------------
(* undoBet *)

\* A fault the runs must expose: the bet is locked before its market.
FindOwnBetForUpdate(r) ==
  LET a == call[r] IN
  /\ At(r, "own")
  /\ IF bet[a.key] # None /\ Mine(a.key, a)
     THEN Lock(r, BetRow(a.key)) /\ Goto(r, "reopen") /\ UNCHANGED <<tables, todo, owed>>
     ELSE Refuse(r)

\* The candidate must be a bet of this player in this competition.
FindOwnBet(r) ==
  LET a == call[r] IN
  /\ At(r, "own")
  /\ IF bet[a.key] # None /\ Mine(a.key, a)
     THEN Goto(r, "reopen") /\ UNCHANGED <<tables, todo, owed, holder>>
     ELSE Refuse(r)

\* Lock the market of the bet while proving it is still OPEN.
LockMarketOfBet(r) ==
  LET a == call[r]
      m == MarketOf[bet[a.key].selection]
  IN  /\ At(r, "reopen")
      /\ IF CompetitionOf[m] = a.competition /\ status[m] = "OPEN"
         THEN /\ Lock(r, MarketRow(m))
              /\ Goto(r, "reread")
              /\ UNCHANGED <<tables, todo, owed>>
         ELSE Refuse(r)

\* Read the bet again, under the lock: it must still be PENDING.
RereadBet(r) ==
  /\ At(r, "reread")
  /\ IF bet[call[r].key].status = "PENDING"
     THEN Goto(r, "void") /\ UNCHANGED <<tables, todo, owed, holder>>
     ELSE Refuse(r)

\* tx.bet.updateMany where PENDING; the REFUND that follows contends with nobody.
VoidBet(r) ==
  LET k == call[r].key IN
  /\ At(r, "void")
  /\ IF bet[k].status = "PENDING"
     THEN /\ Lock(r, BetRow(k))
          /\ Goto(r, "touch")
          /\ UNCHANGED <<tables, todo, owed>>
     ELSE Answer(r, "conflict")

CommitUndo(r) ==
  LET a == call[r] IN
  /\ At(r, "commit")
  /\ a.op = "undo"
  /\ WriteUndo(a.competition, a.key, r)
  /\ Finish(r, "ok")

UndoBet(r) ==
  \/ FindOwnBet(r) \/ LockMarketOfBet(r) \/ RereadBet(r) \/ VoidBet(r)
  \/ CommitUndo(r)

=============================================================================
