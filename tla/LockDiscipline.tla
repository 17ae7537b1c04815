--------------------------- MODULE LockDiscipline ---------------------------
(***************************************************************************)
(* What a request may rely on before each of its statements: which rows it *)
(* has locked, and what is still true of what it has read.  This is the    *)
(* inductive invariant behind the atomicity of the handlers.               *)
(***************************************************************************)
EXTENDS FauxStakes

StatementsOf ==
  [place  |-> {"lookup", "stake", "wallet", "odds", "balance", "bet", "touch",
               "commit", "replay", "done"},
   undo   |-> {"own", "reopen", "reread", "void", "touch", "commit", "done"},
   create |-> {"insert", "touch", "commit", "done"},
   open   |-> {"find", "claim", "touch", "commit", "done"},
   close  |-> {"find", "claim", "touch", "commit", "done"},
   settle |-> {"find", "claim", "winner", "collect", "resolve", "touch", "commit",
               "done"},
   join   |-> {"upsert", "credit", "touch", "commit", "done"}]

Handles(r, ops, statements) == pc[r] \in statements /\ call[r].op \in ops

Ending == {"touch", "commit"}

Located(r) ==
  pc[r] # "idle" => call[r] \in Calls /\ pc[r] \in StatementsOf[call[r].op]

\* The market a call is about: an undo finds it through the bet.
TargetMarket(r) ==
  IF call[r].op = "undo" THEN MarketOf[bet[call[r].key].selection] ELSE call[r].market

\* The status in which each handler holds its market.
HeldStatus ==
  [place |-> "OPEN", undo |-> "OPEN", create |-> "ABSENT", open |-> "DRAFT",
   close |-> "OPEN", settle |-> "CLOSED"]

HoldsMarket(r) ==
  \/ pc[r] \in {"wallet", "odds", "balance", "bet", "reread", "void", "winner",
                "collect", "resolve"}
  \/ Handles(r, {"place", "undo", "create", "open", "close", "settle"}, Ending)

\* From its first UPDATE to its commit a handler owns its market row, and the
\* market stays in the status the UPDATE asked for.
MarketHeld(r) ==
  HoldsMarket(r) =>
    /\ holder[MarketRow(TargetMarket(r))] = r
    /\ status[TargetMarket(r)] = HeldStatus[call[r].op]
    /\ CompetitionOf[TargetMarket(r)] = call[r].competition

WalletHeld(r) ==
  (\/ Handles(r, {"place"}, {"odds", "balance", "bet"} \cup Ending)
   \/ Handles(r, {"join"}, {"credit"} \cup Ending))
  => holder[WalletRow(call[r].competition, call[r].user)] = r

\* The row of a bet, or its key, is locked by whoever is about to write it.
BetHeld(r) ==
  /\ Handles(r, {"place", "undo"}, Ending) => holder[BetRow(call[r].key)] = r
  /\ \A k \in Keys : holder[BetRow(k)] = r =>
       \/ Handles(r, {"place", "undo"}, Ending) /\ call[r].key = k
       \/ Handles(r, {"settle"}, {"resolve"} \cup Ending)

\* What placeBet has checked stays true until it commits.
StakeReady(r) ==
  LET a == call[r] IN
  /\ Handles(r, {"place"}, {"odds", "balance", "bet"} \cup Ending) =>
       <<a.competition, a.user>> \in member
  /\ Handles(r, {"place"}, {"balance", "bet"} \cup Ending) =>
       MarketOf[a.selection] = a.market /\ selection[a.selection] = "ACTIVE"
  /\ Handles(r, {"place"}, {"bet"} \cup Ending) =>
       Balance(a.competition, a.user) >= a.stake
  /\ Handles(r, {"place"}, Ending) => bet[a.key] = None

\* What undoBet has checked stays true until it commits.
UndoReady(r) ==
  LET a == call[r] IN
  /\ Handles(r, {"undo"}, {"reopen", "reread", "void"} \cup Ending) =>
       bet[a.key] # None /\ Mine(a.key, a)
  /\ Handles(r, {"undo"}, {"void"} \cup Ending) => bet[a.key].status = "PENDING"

\* The bets a settlement has resolved and those still to come are together all
\* the pending bets of its market.
SettleReady(r) ==
  LET a == call[r] IN
  /\ Handles(r, {"settle"}, {"collect", "resolve"} \cup Ending) =>
       MarketOf[a.selection] = a.market
  /\ Handles(r, {"settle"}, {"resolve"} \cup Ending) =>
       todo[r] \cup Resolved(r) = Pending(a.market)
  /\ Handles(r, {"settle"}, Ending) => todo[r] = {}

\* A join inserts the starting credit exactly when there is none.
JoinReady(r) ==
  Handles(r, {"join"}, Ending) =>
    owed[r] = (StartingCredits(call[r].competition, call[r].user) = {})

Ready(r) ==
  /\ Located(r) /\ MarketHeld(r) /\ WalletHeld(r) /\ BetHeld(r)
  /\ StakeReady(r) /\ UndoReady(r) /\ SettleReady(r) /\ JoinReady(r)

BetsInTheirCompetition ==
  \A k \in Keys : bet[k] # None =>
    bet[k].competition = CompetitionOf[MarketOf[bet[k].selection]]

\* Every request holds, at every statement, the locks that keep what it has
\* read true until it commits (the transactions of bets.service.ts,
\* markets.service.ts and competitions.service.ts against one another).
LockDiscipline ==
  /\ TypeOK
  /\ BetsInTheirCompetition
  /\ NoOverdraft
  /\ \A r \in Requests : Ready(r)

-----------------------------------------------------------------------------
(* Where the locks are on the way to the next one. *)

\* Where a request is that holds a row of each kind: past every statement that
\* asks for a row of that kind or of an earlier one, but for the loop of a
\* settlement, which goes from bet to bet.
PastLock ==
  [market |-> {"wallet", "odds", "balance", "bet", "reread", "void", "winner",
               "collect", "resolve"} \cup Ending,
   wallet |-> {"odds", "balance", "bet", "credit"} \cup Ending,
   bet |-> {"resolve"} \cup Ending,
   competition |-> {"commit"}]

Ahead(r) ==
  /\ \A row \in Locks : holder[row] = r => pc[r] \in PastLock[row[1]]
  /\ At(r, "resolve") => \A k \in todo[r] : holder[BetRow(k)] # r

\* Whoever holds a row is past the statements that wait for the rows before it
\* (the transactions of the three services; nobody holds a row after its end).
HoldersAreAhead == \A r \in Requests : Ahead(r)

=============================================================================
