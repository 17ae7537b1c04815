------------------------- MODULE Statements_proofs -------------------------
(***************************************************************************)
(* What one step of a request does to the sessions and the locks, and why  *)
(* each statement of each handler keeps LockDiscipline: it leaves every    *)
(* other request where it was, and knows itself what it has checked.       *)
(***************************************************************************)
EXTENDS LockDiscipline, Tables_proofs

\* Nothing that request q owns changes: its session, or a lock it holds.
Untouched(q) ==
  /\ pc'[q] = pc[q] /\ call'[q] = call[q]
  /\ todo'[q] = todo[q] /\ owed'[q] = owed[q]
  /\ \A l \in Locks : (holder'[l] = q) <=> (holder[l] = q)

OthersUntouched(r) == \A q \in Requests \ {r} : Untouched(q)

\* A request that is answered holds no lock.
Ended(r) == pc'[r] = "done" /\ call'[r] = call[r] /\ \A l \in Locks : holder'[l] # r

-----------------------------------------------------------------------------
(* Calls and rows. *)

Ops == {"place", "undo", "create", "open", "close", "settle", "join"}

LEMMA CallFields ==
  ASSUME NEW a \in Calls
  PROVE  /\ a.op \in Ops /\ a.user \in Users /\ a.competition \in Competitions
         /\ a.op \in {"place", "create", "open", "close", "settle"} => a.market \in Markets
         /\ a.op \in {"place", "settle"} => a.selection \in Selections
         /\ a.op \in {"place", "undo"} => a.key \in Keys
         /\ a.op = "place" => a.stake \in Stakes
         /\ a.op = "create" => CompetitionOf[a.market] = a.competition
         /\ a # None
<1>1. a \in CallType /\ a # None
  BY CallsAssumption
<1>. QED
  BY <1>1 DEF CallType, Ops

LEMMA Rows ==
  /\ \A m \in Markets : MarketRow(m) \in Locks
  /\ \A c \in Competitions, u \in Users : WalletRow(c, u) \in Locks
  /\ \A k \in Keys : BetRow(k) \in Locks
  /\ \A c \in Competitions : CompetitionRow(c) \in Locks
BY DEF Locks, MarketRow, WalletRow, BetRow, CompetitionRow

LEMMA RowsDiffer ==
  /\ \A m, n : MarketRow(m) = MarketRow(n) => m = n
  /\ \A k, j : BetRow(k) = BetRow(j) => k = j
  /\ \A c, u, d, v : WalletRow(c, u) = WalletRow(d, v) => c = d /\ u = v
  /\ \A m, c, u : MarketRow(m) # WalletRow(c, u)
  /\ \A m, k : MarketRow(m) # BetRow(k)
  /\ \A k, c, u : BetRow(k) # WalletRow(c, u)
  /\ \A k, c : BetRow(k) # CompetitionRow(c) /\ MarketRow(k) # CompetitionRow(c)
  /\ \A c, u, d : WalletRow(c, u) # CompetitionRow(d)
BY DEF MarketRow, WalletRow, BetRow, CompetitionRow

\* Where a request that has arrived is, by the call it carries.
LEMMA WhereIs ==
  ASSUME NEW r \in Requests, Located(r), pc[r] # "idle"
  PROVE  /\ call[r] \in Calls
         /\ pc[r] \in {"lookup", "stake", "wallet", "odds", "balance", "bet", "replay"}
              => call[r].op = "place"
         /\ pc[r] \in {"own", "reopen", "reread", "void"} => call[r].op = "undo"
         /\ pc[r] = "insert" => call[r].op = "create"
         /\ pc[r] \in {"find", "claim"} => call[r].op \in {"open", "close", "settle"}
         /\ pc[r] \in {"winner", "collect", "resolve"} => call[r].op = "settle"
         /\ pc[r] \in {"upsert", "credit"} => call[r].op = "join"
         /\ "done" \in StatementsOf[call[r].op]
<1>1. call[r] \in Calls /\ pc[r] \in StatementsOf[call[r].op]
  BY DEF Located
<1>2. call[r].op \in Ops
  BY <1>1, CallFields
<1>. QED
  BY <1>1, <1>2 DEF StatementsOf, Ops

-----------------------------------------------------------------------------
(* The three shapes of a step. *)

LEMMA LockStep ==
  ASSUME SessionTypeOK, NEW r \in Requests, NEW row \in Locks, Lock(r, row)
  PROVE  /\ holder[row] = None
         /\ holder' \in [Locks -> Requests \cup {None}]
         /\ holder'[row] = r
         /\ \A l \in Locks : l # row => holder'[l] = holder[l]
         /\ \A q \in Requests \ {r}, l \in Locks : (holder'[l] = q) <=> (holder[l] = q)
BY NoneAssumption DEF Lock, SessionTypeOK

LEMMA ReleaseStep ==
  ASSUME SessionTypeOK, NEW r \in Requests, Release(r)
  PROVE  /\ holder' \in [Locks -> Requests \cup {None}]
         /\ \A l \in Locks : holder'[l] # r
         /\ \A q \in Requests \ {r}, l \in Locks : (holder'[l] = q) <=> (holder[l] = q)
BY NoneAssumption DEF Release, SessionTypeOK

LEMMA GotoStep ==
  ASSUME SessionTypeOK, NEW r \in Requests, NEW s \in Statements, Goto(r, s)
  PROVE  /\ pc' \in [Requests -> Statements] /\ pc'[r] = s
         /\ \A q \in Requests \ {r} : pc'[q] = pc[q]
         /\ call' = call /\ reply' = reply
BY DEF Goto, SessionTypeOK

LEMMA FinishStep ==
  ASSUME SessionTypeOK, NEW r \in Requests, NEW answer \in Replies, Finish(r, answer)
  PROVE  SessionTypeOK' /\ OthersUntouched(r) /\ Ended(r)
<1>1. /\ holder' \in [Locks -> Requests \cup {None}]
      /\ \A l \in Locks : holder'[l] # r
      /\ \A q \in Requests \ {r}, l \in Locks : (holder'[l] = q) <=> (holder[l] = q)
  BY ReleaseStep DEF Finish
<1>2. /\ pc' \in [Requests -> Statements] /\ pc'[r] = "done"
      /\ \A q \in Requests \ {r} : pc'[q] = pc[q]
  BY DEF Finish, SessionTypeOK, Statements
<1>3. /\ reply' \in [Requests -> Replies] /\ todo' \in [Requests -> SUBSET Keys]
      /\ owed' \in [Requests -> BOOLEAN]
      /\ \A q \in Requests \ {r} : todo'[q] = todo[q] /\ owed'[q] = owed[q]
  BY DEF Finish, SessionTypeOK
<1>4. call' = call
  BY DEF Finish
<1>. QED
  BY <1>1, <1>2, <1>3, <1>4 DEF SessionTypeOK, OthersUntouched, Untouched, Ended

\* A statement that locks a row, and one that locks nothing.
LEMMA LockingStep ==
  ASSUME SessionTypeOK, NEW r \in Requests, NEW s \in Statements, NEW row \in Locks,
         Goto(r, s), Lock(r, row), owed' = owed, todo' \in [Requests -> SUBSET Keys],
         \A q \in Requests \ {r} : todo'[q] = todo[q]
  PROVE  SessionTypeOK' /\ OthersUntouched(r)
BY LockStep, GotoStep DEF SessionTypeOK, OthersUntouched, Untouched

LEMMA ReadingStep ==
  ASSUME SessionTypeOK, NEW r \in Requests, NEW s \in Statements, Goto(r, s),
         holder' = holder \/ Release(r),
         owed' \in [Requests -> BOOLEAN], todo' \in [Requests -> SUBSET Keys],
         \A q \in Requests \ {r} : todo'[q] = todo[q] /\ owed'[q] = owed[q]
  PROVE  SessionTypeOK' /\ OthersUntouched(r)
<1>1. /\ holder' \in [Locks -> Requests \cup {None}]
      /\ \A q \in Requests \ {r}, l \in Locks : (holder'[l] = q) <=> (holder[l] = q)
  BY ReleaseStep DEF SessionTypeOK
<1>. QED
  BY <1>1, GotoStep DEF SessionTypeOK, OthersUntouched, Untouched

-----------------------------------------------------------------------------
(* What follows for Ready. *)

LEMMA BalanceType ==
  ASSUME TablesTypeOK, NEW c, NEW u
  PROVE  Balance(c, u) \in Int
BY AccountFinite, NetType DEF Balance

LEMMA BalanceTypeAfter ==
  ASSUME TablesTypeOK', NEW c, NEW u
  PROVE  Balance(c, u)' \in Int
<1>1. Account(c, u)' \in SUBSET ledger'
  BY DEF Account
<1>2. Account(c, u)' \subseteq LedgerTxn /\ IsFiniteSet(Account(c, u)')
  BY <1>1, FS_Subset DEF TablesTypeOK
<1>. QED
  BY <1>2, NetType DEF Balance

\* The market a handler holds is one.
LEMMA TargetType ==
  ASSUME NEW q \in Requests, TablesTypeOK, Ready(q), HoldsMarket(q)
  PROVE  /\ TargetMarket(q) \in Markets
         /\ MarketRow(TargetMarket(q)) \in Locks
         /\ call[q] \in Calls
         /\ call[q].op \in {"place", "undo", "create", "open", "close", "settle"}
<1>1. pc[q] # "idle" /\ Located(q)
  BY DEF HoldsMarket, Handles, Ending, Ready
<1>2. /\ call[q] \in Calls
      /\ call[q].op \in {"place", "undo", "create", "open", "close", "settle"}
  BY <1>1, WhereIs DEF HoldsMarket, Handles
<1>3. CASE call[q].op # "undo"
  BY <1>2, <1>3, CallFields, Rows DEF TargetMarket
<1>4. CASE call[q].op = "undo"
  <2>1. call[q].key \in Keys
    BY <1>2, <1>4, CallFields
  <2>2. pc[q] \in {"reread", "void"} \cup Ending
    BY <1>1, <1>4, WhereIs DEF HoldsMarket, Handles
  <2>3. bet[call[q].key] # None
    BY <1>4, <2>2 DEF Ready, UndoReady, Handles
  <2>4. MarketOf[bet[call[q].key].selection] \in Markets
    BY <2>1, <2>3, ShapeAssumption DEF TablesTypeOK, Bet
  <2>. QED
    BY <1>2, <1>4, <2>4, Rows DEF TargetMarket
<1>. QED
  BY <1>3, <1>4

\* What a step that writes may not disturb, for whoever holds a market, a wallet
\* or the key of a bet: the market and its pending bets, ...
KeepsMarket(m) ==
  /\ status'[m] = status[m]
  /\ \A s \in Selections : MarketOf[s] = m => selection'[s] = selection[s]
  /\ {k \in Keys : /\ bet'[k] # None /\ MarketOf[bet'[k].selection] = m
                   /\ bet'[k].status = "PENDING"} = Pending(m)

\* ... the balance, which may only grow, and the starting credit, ...
KeepsWallet(c, u) ==
  LET after == {e \in ledger' : e.competition = c /\ e.user = u} IN
  /\ member \subseteq member'
  /\ Net(after) >= Balance(c, u)
  /\ {e \in after : e.type = "CREDIT" /\ e.bet = None /\ e.market = None}
       = StartingCredits(c, u)

\* ... a key that is still free; and nobody loses a bet or changes whose it is.
KeepsBets ==
  \A k \in Keys : bet[k] # None =>
    /\ bet'[k] # None /\ bet'[k].user = bet[k].user
    /\ bet'[k].competition = bet[k].competition /\ bet'[k].selection = bet[k].selection

Respects(q) ==
  /\ KeepsBets
  /\ HoldsMarket(q) => KeepsMarket(TargetMarket(q))
  /\ holder[WalletRow(call[q].competition, call[q].user)] = q =>
       KeepsWallet(call[q].competition, call[q].user)
  /\ \A k \in Keys : bet[k] = None /\ holder[BetRow(k)] = q => bet'[k] = None

\* A request keeps what it relies on when nobody disturbs it and it does nothing.
LEMMA RespectedIsReady ==
  ASSUME NEW q \in Requests, TablesTypeOK, TablesTypeOK', Ready(q), Untouched(q), Respects(q)
  PROVE  Ready(q)'
<1> DEFINE a == call[q]
<1> USE DEF Untouched, Handles
<1>1. Located(q)'
  BY DEF Ready, Located
<1>2. \A k \in Keys : (holder'[BetRow(k)] = q) <=> (holder[BetRow(k)] = q)
  BY Rows
<1>3. Resolved(q)' = Resolved(q)
  BY <1>2 DEF Resolved, BetRow
<1>4. pc[q] # "idle" => a \in Calls
  BY DEF Ready, Located
<1>5. Handles(q, {"undo"}, {"reopen", "reread", "void"} \cup Ending) =>
        /\ a.key \in Keys /\ bet[a.key] # None /\ Mine(a.key, a)
        /\ bet'[a.key] # None /\ bet'[a.key].user = a.user
        /\ bet'[a.key].competition = a.competition
        /\ bet'[a.key].selection = bet[a.key].selection
  <2>1. Handles(q, {"undo"}, {"reopen", "reread", "void"} \cup Ending) =>
          a.key \in Keys /\ bet[a.key] # None /\ Mine(a.key, a)
    BY <1>4, CallFields DEF Ready, UndoReady, Ending
  <2>. QED
    BY <2>1 DEF Respects, KeepsBets, Mine
<1>6. HoldsMarket(q) => TargetMarket(q)' = TargetMarket(q)
  <2>1. HoldsMarket(q) /\ a.op = "undo" =>
          Handles(q, {"undo"}, {"reopen", "reread", "void"} \cup Ending)
    BY WhereIs DEF HoldsMarket, Ready, Ending
  <2>. QED
    BY <1>5, <2>1 DEF TargetMarket
<1>7. HoldsMarket(q)' = HoldsMarket(q)
  BY DEF HoldsMarket
<1>8. MarketHeld(q)'
  <2>1. HoldsMarket(q) =>
          /\ holder'[MarketRow(TargetMarket(q))] = q
          /\ status'[TargetMarket(q)] = HeldStatus[a.op]
          /\ CompetitionOf[TargetMarket(q)] = a.competition
    BY TargetType DEF Ready, MarketHeld, Respects, KeepsMarket
  <2>. QED
    BY <1>6, <1>7, <2>1 DEF MarketHeld, MarketRow, HeldStatus
<1>9. Handles(q, {"place"}, {"odds", "balance", "bet"} \cup Ending)
      \/ Handles(q, {"join"}, {"credit"} \cup Ending) =>
        /\ holder'[WalletRow(a.competition, a.user)] = q
        /\ KeepsWallet(a.competition, a.user)
  <2>1. pc[q] # "idle" => WalletRow(a.competition, a.user) \in Locks
    BY <1>4, CallFields, Rows
  <2>. QED
    BY <2>1 DEF Ready, WalletHeld, Respects, Ending
<1>10. WalletHeld(q)'
  BY <1>9 DEF WalletHeld, WalletRow
<1>11. BetHeld(q)'
  <2>1. Handles(q, {"place", "undo"}, Ending) =>
          a.key \in Keys /\ holder[BetRow(a.key)] = q
    BY <1>4, CallFields DEF Ready, BetHeld, Ending
  <2>. QED
    BY <1>2, <2>1 DEF BetHeld, Ready, Ending, BetRow
<1>12. StakeReady(q)'
  <2>1. Handles(q, {"place"}, {"odds", "balance", "bet"} \cup Ending) =>
          <<a.competition, a.user>> \in member'
    BY <1>9 DEF Ready, StakeReady, KeepsWallet
  <2>2. Handles(q, {"place"}, {"balance", "bet"} \cup Ending) =>
          MarketOf[a.selection] = a.market /\ selection'[a.selection] = "ACTIVE"
    <3>1. SUFFICES ASSUME Handles(q, {"place"}, {"balance", "bet"} \cup Ending)
                   PROVE  MarketOf[a.selection] = a.market
                          /\ selection'[a.selection] = "ACTIVE"
      OBVIOUS
    <3>2. HoldsMarket(q) /\ TargetMarket(q) = a.market /\ a.selection \in Selections
      BY <1>4, <3>1, CallFields DEF HoldsMarket, TargetMarket, Ending
    <3>. QED
      BY <3>1, <3>2 DEF Ready, StakeReady, Respects, KeepsMarket
  <2>3. Handles(q, {"place"}, {"bet"} \cup Ending) =>
          Balance(a.competition, a.user)' >= a.stake
    <3>1. SUFFICES ASSUME Handles(q, {"place"}, {"bet"} \cup Ending)
                   PROVE  Balance(a.competition, a.user)' >= a.stake
      OBVIOUS
    <3>2. a.stake \in Int
      <4>1. a.stake \in Stakes
        BY <1>4, <3>1, CallFields DEF Ending
      <4>2. \A x \in Stakes : x \in Int
        BY MoneyAssumption
      <4>. QED
        BY <4>1, <4>2
    <3>3. Balance(a.competition, a.user) \in Int
      BY BalanceType
    <3>4. Balance(a.competition, a.user)' \in Int
      BY BalanceTypeAfter
    <3>5. Balance(a.competition, a.user)' >= Balance(a.competition, a.user)
      BY <1>9, <3>1 DEF KeepsWallet, Balance, Account
    <3>6. Balance(a.competition, a.user) >= a.stake
      BY <3>1 DEF Ready, StakeReady
    <3>. QED
      BY <3>2, <3>3, <3>4, <3>5, <3>6
  <2>4. Handles(q, {"place"}, Ending) => bet'[a.key] = None
    <3>1. Handles(q, {"place"}, Ending) =>
            a.key \in Keys /\ holder[BetRow(a.key)] = q /\ bet[a.key] = None
      BY <1>4, CallFields DEF Ready, BetHeld, StakeReady, Ending
    <3>. QED
      BY <3>1 DEF Respects
  <2>. QED
    BY <2>1, <2>2, <2>3, <2>4 DEF StakeReady
<1>13. UndoReady(q)'
  <2>1. Handles(q, {"undo"}, {"void"} \cup Ending) => bet'[a.key].status = "PENDING"
    <3>1. SUFFICES ASSUME Handles(q, {"undo"}, {"void"} \cup Ending)
                   PROVE  bet'[a.key].status = "PENDING"
      OBVIOUS
    <3>2. HoldsMarket(q) /\ TargetMarket(q) = MarketOf[bet[a.key].selection]
      BY <3>1 DEF HoldsMarket, TargetMarket, Ending
    <3>3. a.key \in Pending(TargetMarket(q))
      BY <1>5, <3>1, <3>2 DEF Ready, UndoReady, Pending, BetsOn
    <3>. QED
      BY <3>2, <3>3 DEF Respects, KeepsMarket
  <2>. QED
    BY <1>5, <2>1 DEF UndoReady, Mine
<1>14. SettleReady(q)'
  <2>1. Handles(q, {"settle"}, {"resolve"} \cup Ending) =>
          Pending(a.market)' = Pending(a.market)
    <3>1. SUFFICES ASSUME Handles(q, {"settle"}, {"resolve"} \cup Ending)
                   PROVE  Pending(a.market)' = Pending(a.market)
      OBVIOUS
    <3>2. HoldsMarket(q) /\ TargetMarket(q) = a.market
      BY <3>1 DEF HoldsMarket, TargetMarket, Ending
    <3>3. {k \in Keys : /\ bet'[k] # None /\ MarketOf[bet'[k].selection] = a.market
                        /\ bet'[k].status = "PENDING"} = Pending(a.market)
      BY <3>2 DEF Respects, KeepsMarket
    <3>. QED
      BY <3>3 DEF Pending, BetsOn
  <2>. QED
    BY <1>3, <2>1 DEF Ready, SettleReady, Pending
<1>15. JoinReady(q)'
  <2>1. Handles(q, {"join"}, Ending) =>
          StartingCredits(a.competition, a.user)' = StartingCredits(a.competition, a.user)
    BY <1>9 DEF KeepsWallet, StartingCredits, Account
  <2>. QED
    BY <2>1 DEF Ready, JoinReady
<1>. QED
  BY <1>1, <1>8, <1>10, <1>11, <1>12, <1>13, <1>14, <1>15 DEF Ready

\* A request keeps what it relies on when nobody writes and it does nothing.
LEMMA Frame ==
  ASSUME NEW q \in Requests, TablesTypeOK, Ready(q), Untouched(q), UNCHANGED tables
  PROVE  Ready(q)'
<1>1. TablesTypeOK'
  BY DEF TablesTypeOK, tables
<1>2. \A m : KeepsMarket(m)
  BY DEF KeepsMarket, Pending, BetsOn, tables
<1>3. \A c, u : KeepsWallet(c, u)
  <2> TAKE c, u
  <2>1. Balance(c, u) \in Int
    BY BalanceType
  <2>. QED
    BY <2>1 DEF KeepsWallet, Balance, Account, StartingCredits, tables
<1>4. Respects(q)
  BY <1>2, <1>3 DEF Respects, KeepsBets, tables
<1>. QED
  BY <1>1, <1>4, RespectedIsReady

\* An answered request relies on nothing.
LEMMA EndedIsReady ==
  ASSUME NEW r \in Requests, Located(r), pc[r] # "idle", Ended(r)
  PROVE  Ready(r)'
<1> USE DEF Ended, Handles, Ending
<1>1. Located(r)'
  BY WhereIs DEF Located
<1>2. MarketHeld(r)' /\ WalletHeld(r)'
  BY DEF MarketHeld, HoldsMarket, WalletHeld
<1>3. BetHeld(r)'
  BY Rows DEF BetHeld
<1>4. StakeReady(r)' /\ UndoReady(r)' /\ SettleReady(r)' /\ JoinReady(r)'
  BY DEF StakeReady, UndoReady, SettleReady, JoinReady
<1>. QED
  BY <1>1, <1>2, <1>3, <1>4 DEF Ready

-----------------------------------------------------------------------------
(* The statements. *)

\* A step that writes nothing only has to keep its own request ready.
LEMMA LocalStep ==
  ASSUME LockDiscipline, NEW r \in Requests, UNCHANGED tables,
         SessionTypeOK', OthersUntouched(r), Ready(r)'
  PROVE  LockDiscipline'
<1>1. TablesTypeOK' /\ BetsInTheirCompetition' /\ NoOverdraft'
  BY DEF LockDiscipline, TypeOK, TablesTypeOK, BetsInTheirCompetition, NoOverdraft,
         Balance, Account, tables
<1>2. ASSUME NEW q \in Requests \ {r} PROVE Ready(q)'
  BY <1>2, Frame DEF LockDiscipline, TypeOK, OthersUntouched
<1>. QED
  BY <1>1, <1>2 DEF LockDiscipline, TypeOK

\* A refusal, an answer without a write, or a rollback.
LEMMA AnswerKeeps ==
  ASSUME LockDiscipline, NEW r \in Requests, pc[r] # "idle",
         NEW answer \in Replies, Answer(r, answer)
  PROVE  LockDiscipline'
<1>1. UNCHANGED tables /\ Finish(r, answer)
  BY DEF Answer
<1>2. SessionTypeOK' /\ OthersUntouched(r) /\ Ended(r)
  BY <1>1, FinishStep DEF LockDiscipline, TypeOK
<1>3. Ready(r)'
  BY <1>2, EndedIsReady DEF LockDiscipline, Ready
<1>. QED
  BY <1>1, <1>2, <1>3, LocalStep

LEMMA RefuseKeeps ==
  ASSUME LockDiscipline, NEW r \in Requests, pc[r] # "idle", Refuse(r)
  PROVE  LockDiscipline'
BY AnswerKeeps DEF Refuse, Replies

LEMMA AbortKeeps ==
  ASSUME LockDiscipline, NEW r \in Requests, Abort(r)
  PROVE  LockDiscipline'
<1>1. pc[r] # "idle" /\ Answer(r, "aborted")
  BY DEF Abort, InTransaction
<1>. QED
  BY <1>1, AnswerKeeps DEF Replies

\* What a request that may go on brings to its next statement.
LEMMA Facts ==
  ASSUME LockDiscipline, NEW r \in Requests, pc[r] # "idle"
  PROVE  /\ SessionTypeOK /\ TablesTypeOK /\ Ready(r) /\ Located(r)
         /\ call[r] \in Calls
         /\ pc[r] \notin Ending \cup {"resolve"} => \A k \in Keys : holder[BetRow(k)] # r
BY DEF LockDiscipline, TypeOK, Ready, Located, BetHeld, Handles

\* A read that lets the request go on to statement s.
LEMMA ReadKeeps ==
  ASSUME LockDiscipline, NEW r \in Requests, pc[r] # "idle", NEW s \in Statements,
         Goto(r, s), UNCHANGED <<tables, todo, owed, holder>>, Ready(r)'
  PROVE  LockDiscipline'
<1>1. SessionTypeOK
  BY Facts
<1>2. SessionTypeOK' /\ OthersUntouched(r)
  BY <1>1, ReadingStep DEF SessionTypeOK
<1>. QED
  BY <1>2, LocalStep

\* A statement that locks a row and lets the request go on to statement s.
LEMMA LockKeeps ==
  ASSUME LockDiscipline, NEW r \in Requests, pc[r] # "idle", NEW s \in Statements,
         NEW row \in Locks, Goto(r, s), Lock(r, row), UNCHANGED <<tables, todo, owed>>,
         Ready(r)'
  PROVE  LockDiscipline'
<1>1. SessionTypeOK
  BY Facts
<1>2. SessionTypeOK' /\ OthersUntouched(r)
  BY <1>1, LockingStep DEF SessionTypeOK
<1>. QED
  BY <1>2, LocalStep

\* What a read leaves in place.
LEMMA AfterRead ==
  ASSUME LockDiscipline, NEW r \in Requests, pc[r] # "idle", NEW s \in Statements,
         Goto(r, s), UNCHANGED <<tables, todo, owed, holder>>
  PROVE  /\ pc'[r] = s /\ call'[r] = call[r] /\ todo'[r] = todo[r] /\ owed'[r] = owed[r]
         /\ holder' = holder /\ TargetMarket(r)' = TargetMarket(r)
         /\ status' = status /\ selection' = selection /\ bet' = bet /\ ledger' = ledger
         /\ member' = member
BY Facts, GotoStep DEF tables, TargetMarket

\* What a statement that locks a row leaves in place.
LEMMA AfterLock ==
  ASSUME LockDiscipline, NEW r \in Requests, pc[r] # "idle", NEW s \in Statements,
         NEW row \in Locks, Goto(r, s), Lock(r, row), UNCHANGED <<tables, todo, owed>>
  PROVE  /\ pc'[r] = s /\ call'[r] = call[r] /\ todo'[r] = todo[r] /\ owed'[r] = owed[r]
         /\ holder'[row] = r /\ \A l \in Locks : l # row => holder'[l] = holder[l]
         /\ TargetMarket(r)' = TargetMarket(r)
         /\ status' = status /\ selection' = selection /\ bet' = bet /\ ledger' = ledger
         /\ member' = member
BY Facts, GotoStep, LockStep DEF tables, TargetMarket

\* Before it locks a bet, a request holds none.
LEMMA NoBetYet ==
  ASSUME LockDiscipline, NEW r \in Requests, pc[r] \notin {"idle", "resolve"} \cup Ending,
         call'[r] = call[r], pc'[r] \notin Ending,
         \A k \in Keys : holder'[BetRow(k)] = holder[BetRow(k)]
  PROVE  BetHeld(r)'
<1>1. \A k \in Keys : holder'[BetRow(k)] # r
  BY Facts
<1>. QED
  BY <1>1 DEF BetHeld, Handles, Ending, BetRow

\* A market that is held stays held.
LEMMA MarketStays ==
  ASSUME LockDiscipline, NEW r \in Requests, HoldsMarket(r), call'[r] = call[r],
         TargetMarket(r)' = TargetMarket(r), status' = status,
         \A m \in Markets : holder'[MarketRow(m)] = holder[MarketRow(m)]
  PROVE  MarketHeld(r)'
<1>1. MarketHeld(r) /\ TargetMarket(r) \in Markets
  BY TargetType DEF LockDiscipline, TypeOK, Ready
<1>2. holder'[MarketRow(TargetMarket(r))] = r
  BY <1>1 DEF MarketHeld
<1>. QED
  BY <1>1, <1>2 DEF MarketHeld, MarketRow

-----------------------------------------------------------------------------
(* placeBet *)

LEMMA LookupKeyKeeps ==
  ASSUME LockDiscipline, NEW r \in Requests, LookupKey(r)
  PROVE  LockDiscipline'
<1>1. pc[r] = "lookup"
  BY DEF LookupKey, At
<1>2. CASE bet[call[r].key] # None
  BY <1>1, <1>2, AnswerKeeps, RefuseKeeps DEF LookupKey, AnswerExisting, Replies
<1>3. CASE bet[call[r].key] = None
  <2>1. Goto(r, "stake") /\ UNCHANGED <<tables, todo, owed, holder>> /\ "stake" \in Statements
    BY <1>3 DEF LookupKey, Statements, InTransaction
  <2>2. pc'[r] = "stake" /\ call'[r] = call[r] /\ holder' = holder
    BY <1>1, <2>1, AfterRead
  <2>3. call[r].op = "place" /\ call[r] \in Calls
    BY <1>1, Facts, WhereIs
  <2>4. BetHeld(r)'
    BY <1>1, <2>2, NoBetYet DEF Ending
  <2>5. Ready(r)'
    BY <2>2, <2>3, <2>4
    DEF Ready, Located, StatementsOf, MarketHeld, HoldsMarket, WalletHeld,
        StakeReady, UndoReady, SettleReady, JoinReady, Handles, Ending
  <2>. QED
    BY <1>1, <2>1, <2>5, ReadKeeps
<1>. QED
  BY <1>2, <1>3

LEMMA LockOpenMarketKeeps ==
  ASSUME LockDiscipline, NEW r \in Requests, LockOpenMarket(r)
  PROVE  LockDiscipline'
<1> DEFINE a == call[r]
<1>1. pc[r] = "stake"
  BY DEF LockOpenMarket, At
<1>2. CASE Refuse(r)
  BY <1>1, <1>2, RefuseKeeps
<1>3. CASE ~Refuse(r)
  <2>1. /\ CompetitionOf[a.market] = a.competition /\ status[a.market] = "OPEN"
        /\ Lock(r, MarketRow(a.market)) /\ Goto(r, "wallet")
        /\ UNCHANGED <<tables, todo, owed>> /\ "wallet" \in Statements
    BY <1>3 DEF LockOpenMarket, Statements, InTransaction
  <2>2. a.op = "place" /\ a \in Calls /\ MarketRow(a.market) \in Locks
    BY <1>1, Facts, WhereIs, CallFields, Rows
  <2>3. /\ pc'[r] = "wallet" /\ call'[r] = a /\ holder'[MarketRow(a.market)] = r
        /\ \A l \in Locks : l # MarketRow(a.market) => holder'[l] = holder[l]
        /\ TargetMarket(r)' = TargetMarket(r) /\ status' = status
    BY <1>1, <2>1, <2>2, AfterLock
  <2>4. TargetMarket(r) = a.market
    BY <2>2 DEF TargetMarket
  <2>5. MarketHeld(r)'
    BY <2>1, <2>2, <2>3, <2>4 DEF MarketHeld, HeldStatus, MarketRow
  <2>6. BetHeld(r)'
    BY <1>1, <2>3, NoBetYet, Rows, RowsDiffer DEF Ending
  <2>7. Ready(r)'
    BY <2>2, <2>3, <2>5, <2>6
    DEF Ready, Located, StatementsOf, WalletHeld,
        StakeReady, UndoReady, SettleReady, JoinReady, Handles, Ending
  <2>. QED
    BY <1>1, <2>1, <2>2, <2>7, LockKeeps
<1>. QED
  BY <1>2, <1>3

LEMMA LockPlayerWalletKeeps ==
  ASSUME LockDiscipline, NEW r \in Requests, LockPlayerWallet(r)
  PROVE  LockDiscipline'
<1> DEFINE a == call[r]
           row == WalletRow(a.competition, a.user)
<1>1. pc[r] = "wallet"
  BY DEF LockPlayerWallet, At
<1>2. CASE Refuse(r)
  BY <1>1, <1>2, RefuseKeeps
<1>3. CASE ~Refuse(r)
  <2>1. /\ <<a.competition, a.user>> \in member
        /\ Lock(r, row) /\ Goto(r, "odds")
        /\ UNCHANGED <<tables, todo, owed>> /\ "odds" \in Statements
    BY <1>3 DEF LockPlayerWallet, Statements, InTransaction
  <2>2. a.op = "place" /\ a \in Calls /\ row \in Locks
    BY <1>1, Facts, WhereIs, CallFields, Rows
  <2>3. /\ pc'[r] = "odds" /\ call'[r] = a /\ holder'[row] = r
        /\ \A l \in Locks : l # row => holder'[l] = holder[l]
        /\ TargetMarket(r)' = TargetMarket(r) /\ status' = status /\ member' = member
    BY <1>1, <2>1, <2>2, AfterLock
  <2>4. MarketHeld(r)'
    BY <1>1, <2>3, MarketStays, Rows, RowsDiffer DEF HoldsMarket
  <2>5. BetHeld(r)'
    BY <1>1, <2>3, NoBetYet, Rows, RowsDiffer DEF Ending
  <2>6. WalletHeld(r)'
    BY <2>2, <2>3 DEF WalletHeld, WalletRow
  <2>7. Ready(r)'
    BY <2>1, <2>2, <2>3, <2>4, <2>5, <2>6
    DEF Ready, Located, StatementsOf,
        StakeReady, UndoReady, SettleReady, JoinReady, Handles, Ending
  <2>. QED
    BY <1>1, <2>1, <2>2, <2>7, LockKeeps
<1>. QED
  BY <1>2, <1>3

LEMMA ReadSelectionKeeps ==
  ASSUME LockDiscipline, NEW r \in Requests, ReadSelection(r)
  PROVE  LockDiscipline'
<1> DEFINE a == call[r]
<1>1. pc[r] = "odds"
  BY DEF ReadSelection, At
<1>2. CASE Refuse(r)
  BY <1>1, <1>2, RefuseKeeps
<1>3. CASE ~Refuse(r)
  <2>1. /\ MarketOf[a.selection] = a.market /\ selection[a.selection] = "ACTIVE"
        /\ Goto(r, "balance")
        /\ UNCHANGED <<tables, todo, owed, holder>> /\ "balance" \in Statements
    BY <1>3 DEF ReadSelection, Statements, InTransaction
  <2>2. a.op = "place" /\ a \in Calls
    BY <1>1, Facts, WhereIs
  <2>3. /\ pc'[r] = "balance" /\ call'[r] = a /\ holder' = holder
        /\ TargetMarket(r)' = TargetMarket(r) /\ status' = status /\ member' = member
        /\ selection' = selection
    BY <1>1, <2>1, AfterRead
  <2>4. MarketHeld(r)'
    BY <1>1, <2>3, MarketStays DEF HoldsMarket
  <2>5. BetHeld(r)'
    BY <1>1, <2>3, NoBetYet DEF Ending
  <2>6. /\ holder[WalletRow(a.competition, a.user)] = r
        /\ <<a.competition, a.user>> \in member
    BY <1>1, <2>2, Facts DEF Ready, WalletHeld, StakeReady, Handles
  <2>7. WalletHeld(r)'
    BY <2>3, <2>6 DEF WalletHeld, WalletRow
  <2>8. Ready(r)'
    BY <2>1, <2>2, <2>3, <2>4, <2>5, <2>6, <2>7
    DEF Ready, Located, StatementsOf,
        StakeReady, UndoReady, SettleReady, JoinReady, Handles, Ending
  <2>. QED
    BY <1>1, <2>1, <2>8, ReadKeeps
<1>. QED
  BY <1>2, <1>3

LEMMA ReadBalanceKeeps ==
  ASSUME LockDiscipline, NEW r \in Requests, ReadBalance(r)
  PROVE  LockDiscipline'
<1> DEFINE a == call[r]
<1>1. pc[r] = "balance"
  BY DEF ReadBalance, At
<1>2. CASE Refuse(r)
  BY <1>1, <1>2, RefuseKeeps
<1>3. CASE ~Refuse(r)
  <2>1. /\ ~(Balance(a.competition, a.user) < a.stake)
        /\ Goto(r, "bet")
        /\ UNCHANGED <<tables, todo, owed, holder>> /\ "bet" \in Statements
    BY <1>3 DEF ReadBalance, Statements, InTransaction
  <2>2. a.op = "place" /\ a \in Calls /\ a.stake \in Int
    <3>1. a.op = "place" /\ a \in Calls
      BY <1>1, Facts, WhereIs
    <3>2. a.stake \in Stakes
      BY <3>1, CallFields
    <3>3. \A stake \in Stakes : stake \in Int
      BY MoneyAssumption
    <3>. QED
      BY <3>1, <3>2, <3>3
  <2>3. /\ pc'[r] = "bet" /\ call'[r] = a /\ holder' = holder
        /\ TargetMarket(r)' = TargetMarket(r) /\ status' = status /\ member' = member
        /\ selection' = selection /\ ledger' = ledger
    BY <1>1, <2>1, AfterRead
  <2>4. MarketHeld(r)'
    BY <1>1, <2>3, MarketStays DEF HoldsMarket
  <2>5. BetHeld(r)'
    BY <1>1, <2>3, NoBetYet DEF Ending
  <2>6. /\ holder[WalletRow(a.competition, a.user)] = r
        /\ <<a.competition, a.user>> \in member
        /\ MarketOf[a.selection] = a.market /\ selection[a.selection] = "ACTIVE"
    BY <1>1, <2>2, Facts DEF Ready, WalletHeld, StakeReady, Handles
  <2>7. WalletHeld(r)'
    BY <2>3, <2>6 DEF WalletHeld, WalletRow
  <2>8. Balance(a.competition, a.user) >= a.stake
    <3>1. TablesTypeOK
      BY DEF LockDiscipline, TypeOK
    <3>2. Balance(a.competition, a.user) \in Int
      BY <3>1, AccountFinite, NetType DEF Balance
    <3>. QED
      BY <2>1, <2>2, <3>2
  <2>9. Balance(a.competition, a.user)' = Balance(a.competition, a.user)
    BY <2>3 DEF Balance, Account
  <2>10. StakeReady(r)'
    BY <2>3, <2>6, <2>8, <2>9 DEF StakeReady, Handles, Ending
  <2>11. Ready(r)'
    BY <2>2, <2>3, <2>4, <2>5, <2>7, <2>10
    DEF Ready, Located, StatementsOf, UndoReady, SettleReady, JoinReady, Handles, Ending
  <2>. QED
    BY <1>1, <2>1, <2>11, ReadKeeps
<1>. QED
  BY <1>2, <1>3

LEMMA InsertBetKeeps ==
  ASSUME LockDiscipline, NEW r \in Requests, InsertBet(r)
  PROVE  LockDiscipline'
<1> DEFINE a == call[r]
           row == BetRow(a.key)
<1>1. pc[r] = "bet"
  BY DEF InsertBet, At
<1>2. a.op = "place" /\ a \in Calls /\ a.key \in Keys /\ row \in Locks
  BY <1>1, Facts, WhereIs, CallFields, Rows
<1>3. CASE bet[a.key] = None
  <2>1. /\ Lock(r, row) /\ Goto(r, "touch")
        /\ UNCHANGED <<tables, todo, owed>> /\ "touch" \in Statements
    BY <1>3 DEF InsertBet, Statements, InTransaction
  <2>2. /\ pc'[r] = "touch" /\ call'[r] = a /\ holder'[row] = r
        /\ \A l \in Locks : l # row => holder'[l] = holder[l]
        /\ TargetMarket(r)' = TargetMarket(r) /\ status' = status /\ member' = member
        /\ selection' = selection /\ ledger' = ledger /\ bet' = bet
    BY <1>1, <1>2, <2>1, AfterLock
  <2>3. MarketHeld(r)'
    BY <1>1, <2>2, MarketStays, Rows, RowsDiffer DEF HoldsMarket
  <2>4. \A k \in Keys : k # a.key => holder'[BetRow(k)] # r
    BY <1>1, <2>2, Facts, Rows, RowsDiffer DEF Ending
  <2>5. BetHeld(r)'
    BY <1>2, <2>2, <2>4 DEF BetHeld, Handles, Ending, BetRow
  <2>6. /\ holder[WalletRow(a.competition, a.user)] = r
        /\ <<a.competition, a.user>> \in member
        /\ MarketOf[a.selection] = a.market /\ selection[a.selection] = "ACTIVE"
        /\ Balance(a.competition, a.user) >= a.stake
    BY <1>1, <1>2, Facts DEF Ready, WalletHeld, StakeReady, Handles
  <2>7. WalletHeld(r)'
    <3>1. holder'[WalletRow(a.competition, a.user)] = r
      BY <1>2, <2>2, <2>6, CallFields, Rows, RowsDiffer
    <3>. QED
      BY <2>2, <3>1 DEF WalletHeld, WalletRow
  <2>8. StakeReady(r)'
    BY <1>3, <2>2, <2>6 DEF StakeReady, Handles, Ending, Balance, Account
  <2>9. Ready(r)'
    BY <1>2, <2>2, <2>3, <2>5, <2>7, <2>8
    DEF Ready, Located, StatementsOf, UndoReady, SettleReady, JoinReady, Handles, Ending
  <2>. QED
    BY <1>1, <1>2, <2>1, <2>9, LockKeeps
<1>4. CASE bet[a.key] # None
  <2>1. /\ Release(r) /\ Goto(r, "replay")
        /\ UNCHANGED <<tables, todo, owed>> /\ "replay" \in Statements
    BY <1>4 DEF InsertBet, Statements
  <2>2. SessionTypeOK
    BY <1>1, Facts
  <2>3. SessionTypeOK' /\ OthersUntouched(r)
    BY <2>1, <2>2, ReadingStep DEF SessionTypeOK
  <2>4. /\ pc'[r] = "replay" /\ call'[r] = a /\ \A l \in Locks : holder'[l] # r
    BY <2>1, <2>2, GotoStep, ReleaseStep
  <2>5. BetHeld(r)'
    BY <2>4, Rows DEF BetHeld, Handles, Ending, BetRow
  <2>6. Ready(r)'
    BY <1>2, <2>4, <2>5
    DEF Ready, Located, StatementsOf, MarketHeld, HoldsMarket, WalletHeld,
        StakeReady, UndoReady, SettleReady, JoinReady, Handles, Ending
  <2>. QED
    BY <2>1, <2>3, <2>6, LocalStep
<1>. QED
  BY <1>3, <1>4

LEMMA ReplayKeyKeeps ==
  ASSUME LockDiscipline, NEW r \in Requests, ReplayKey(r)
  PROVE  LockDiscipline'
<1>1. pc[r] = "replay" /\ (Refuse(r) \/ Answer(r, "ok"))
  BY DEF ReplayKey, At, AnswerExisting
<1>. QED
  BY <1>1, RefuseKeeps, AnswerKeeps DEF Replies

-----------------------------------------------------------------------------
(* undoBet *)

LEMMA FindOwnBetKeeps ==
  ASSUME LockDiscipline, NEW r \in Requests, FindOwnBet(r)
  PROVE  LockDiscipline'
<1> DEFINE a == call[r]
<1>1. pc[r] = "own"
  BY DEF FindOwnBet, At
<1>2. CASE Refuse(r)
  BY <1>1, <1>2, RefuseKeeps
<1>3. CASE ~Refuse(r)
  <2>1. /\ bet[a.key] # None /\ Mine(a.key, a) /\ Goto(r, "reopen")
        /\ UNCHANGED <<tables, todo, owed, holder>> /\ "reopen" \in Statements
    BY <1>3 DEF FindOwnBet, Statements, InTransaction
  <2>2. a.op = "undo" /\ a \in Calls
    BY <1>1, Facts, WhereIs
  <2>3. pc'[r] = "reopen" /\ call'[r] = a /\ holder' = holder /\ bet' = bet
    BY <1>1, <2>1, AfterRead
  <2>4. BetHeld(r)'
    BY <1>1, <2>3, NoBetYet DEF Ending
  <2>5. Ready(r)'
    BY <2>1, <2>2, <2>3, <2>4
    DEF Ready, Located, StatementsOf, MarketHeld, HoldsMarket, WalletHeld,
        StakeReady, UndoReady, SettleReady, JoinReady, Handles, Ending, Mine
  <2>. QED
    BY <1>1, <2>1, <2>5, ReadKeeps
<1>. QED
  BY <1>2, <1>3

LEMMA LockMarketOfBetKeeps ==
  ASSUME LockDiscipline, NEW r \in Requests, LockMarketOfBet(r)
  PROVE  LockDiscipline'
<1> DEFINE a == call[r]
           m == MarketOf[bet[a.key].selection]
<1>1. pc[r] = "reopen"
  BY DEF LockMarketOfBet, At
<1>2. CASE Refuse(r)
  BY <1>1, <1>2, RefuseKeeps
<1>3. CASE ~Refuse(r)
  <2>1. /\ CompetitionOf[m] = a.competition /\ status[m] = "OPEN"
        /\ Lock(r, MarketRow(m)) /\ Goto(r, "reread")
        /\ UNCHANGED <<tables, todo, owed>> /\ "reread" \in Statements
    BY <1>3 DEF LockMarketOfBet, Statements, InTransaction
  <2>2. a.op = "undo" /\ a \in Calls /\ a.key \in Keys
    BY <1>1, Facts, WhereIs, CallFields
  <2>3. bet[a.key] # None /\ Mine(a.key, a)
    BY <1>1, <2>2, Facts DEF Ready, UndoReady, Handles
  <2>4. MarketRow(m) \in Locks /\ TargetMarket(r) = m
    <3>1. m \in Markets
      BY <1>1, <2>2, <2>3, Facts, ShapeAssumption DEF TablesTypeOK, Bet
    <3>. QED
      BY <2>2, <3>1, Rows DEF TargetMarket
  <2>5. /\ pc'[r] = "reread" /\ call'[r] = a /\ holder'[MarketRow(m)] = r
        /\ \A l \in Locks : l # MarketRow(m) => holder'[l] = holder[l]
        /\ TargetMarket(r)' = TargetMarket(r) /\ status' = status /\ bet' = bet
    BY <1>1, <2>1, <2>4, AfterLock
  <2>6. MarketHeld(r)'
    BY <2>1, <2>2, <2>4, <2>5 DEF MarketHeld, HeldStatus, MarketRow
  <2>7. BetHeld(r)'
    BY <1>1, <2>5, NoBetYet, Rows, RowsDiffer DEF Ending
  <2>8. Ready(r)'
    BY <2>2, <2>3, <2>5, <2>6, <2>7
    DEF Ready, Located, StatementsOf, WalletHeld,
        StakeReady, UndoReady, SettleReady, JoinReady, Handles, Ending, Mine
  <2>. QED
    BY <1>1, <2>1, <2>4, <2>8, LockKeeps
<1>. QED
  BY <1>2, <1>3

LEMMA RereadBetKeeps ==
  ASSUME LockDiscipline, NEW r \in Requests, RereadBet(r)
  PROVE  LockDiscipline'
<1> DEFINE a == call[r]
<1>1. pc[r] = "reread"
  BY DEF RereadBet, At
<1>2. CASE Refuse(r)
  BY <1>1, <1>2, RefuseKeeps
<1>3. CASE ~Refuse(r)
  <2>1. /\ bet[a.key].status = "PENDING" /\ Goto(r, "void")
        /\ UNCHANGED <<tables, todo, owed, holder>> /\ "void" \in Statements
    BY <1>3 DEF RereadBet, Statements, InTransaction
  <2>2. a.op = "undo" /\ a \in Calls
    BY <1>1, Facts, WhereIs
  <2>3. /\ pc'[r] = "void" /\ call'[r] = a /\ holder' = holder /\ bet' = bet
        /\ TargetMarket(r)' = TargetMarket(r) /\ status' = status
    BY <1>1, <2>1, AfterRead
  <2>4. bet[a.key] # None /\ Mine(a.key, a)
    BY <1>1, <2>2, Facts DEF Ready, UndoReady, Handles
  <2>5. MarketHeld(r)'
    BY <1>1, <2>3, MarketStays DEF HoldsMarket
  <2>6. BetHeld(r)'
    BY <1>1, <2>3, NoBetYet DEF Ending
  <2>7. Ready(r)'
    BY <2>1, <2>2, <2>3, <2>4, <2>5, <2>6
    DEF Ready, Located, StatementsOf, WalletHeld,
        StakeReady, UndoReady, SettleReady, JoinReady, Handles, Ending, Mine
  <2>. QED
    BY <1>1, <2>1, <2>7, ReadKeeps
<1>. QED
  BY <1>2, <1>3

LEMMA VoidBetKeeps ==
  ASSUME LockDiscipline, NEW r \in Requests, VoidBet(r)
  PROVE  LockDiscipline'
<1> DEFINE a == call[r]
           row == BetRow(a.key)
<1>1. pc[r] = "void"
  BY DEF VoidBet, At
<1>2. a.op = "undo" /\ a \in Calls /\ a.key \in Keys /\ row \in Locks
  BY <1>1, Facts, WhereIs, CallFields, Rows
<1>3. bet[a.key] # None /\ Mine(a.key, a) /\ bet[a.key].status = "PENDING"
  BY <1>1, <1>2, Facts DEF Ready, UndoReady, Handles
<1>4. /\ Lock(r, row) /\ Goto(r, "touch")
      /\ UNCHANGED <<tables, todo, owed>> /\ "touch" \in Statements
  BY <1>3 DEF VoidBet, Statements, InTransaction
<1>5. /\ pc'[r] = "touch" /\ call'[r] = a /\ holder'[row] = r
      /\ \A l \in Locks : l # row => holder'[l] = holder[l]
      /\ TargetMarket(r)' = TargetMarket(r) /\ status' = status /\ bet' = bet
  BY <1>1, <1>2, <1>4, AfterLock
<1>6. MarketHeld(r)'
  BY <1>1, <1>5, MarketStays, Rows, RowsDiffer DEF HoldsMarket
<1>7. \A k \in Keys : k # a.key => holder'[BetRow(k)] # r
  BY <1>1, <1>5, Facts, Rows, RowsDiffer DEF Ending
<1>8. BetHeld(r)'
  BY <1>2, <1>5, <1>7 DEF BetHeld, Handles, Ending, BetRow
<1>9. UndoReady(r)'
  BY <1>3, <1>5 DEF UndoReady, Mine
<1>10. Ready(r)'
  BY <1>2, <1>5, <1>6, <1>8, <1>9
  DEF Ready, Located, StatementsOf, WalletHeld, StakeReady, SettleReady, JoinReady,
      Handles, Ending
<1>. QED
  BY <1>1, <1>2, <1>4, <1>10, LockKeeps

-----------------------------------------------------------------------------
(* createMarket, openMarket, closeMarket and settleMarket *)

LEMMA InsertMarketKeeps ==
  ASSUME LockDiscipline, NEW r \in Requests, InsertMarket(r)
  PROVE  LockDiscipline'
<1> DEFINE a == call[r]
           row == MarketRow(a.market)
<1>1. pc[r] = "insert"
  BY DEF InsertMarket, At
<1>2. CASE Refuse(r)
  BY <1>1, <1>2, RefuseKeeps
<1>3. CASE ~Refuse(r)
  <2>1. /\ status[a.market] = "ABSENT" /\ Lock(r, row) /\ Goto(r, "touch")
        /\ UNCHANGED <<tables, todo, owed>> /\ "touch" \in Statements
    BY <1>3 DEF InsertMarket, Statements, InTransaction
  <2>2. /\ a.op = "create" /\ a \in Calls /\ row \in Locks
        /\ CompetitionOf[a.market] = a.competition
    BY <1>1, Facts, WhereIs, CallFields, Rows
  <2>3. /\ pc'[r] = "touch" /\ call'[r] = a /\ holder'[row] = r
        /\ \A l \in Locks : l # row => holder'[l] = holder[l]
        /\ TargetMarket(r)' = TargetMarket(r) /\ status' = status
    BY <1>1, <2>1, <2>2, AfterLock
  <2>4. TargetMarket(r) = a.market
    BY <2>2 DEF TargetMarket
  <2>5. MarketHeld(r)'
    BY <2>1, <2>2, <2>3, <2>4 DEF MarketHeld, HeldStatus, MarketRow
  <2>6. \A k \in Keys : holder'[BetRow(k)] # r
    BY <1>1, <2>3, Facts, Rows, RowsDiffer DEF Ending
  <2>7. Ready(r)'
    BY <2>2, <2>3, <2>5, <2>6
    DEF Ready, Located, StatementsOf, WalletHeld, BetHeld, BetRow,
        StakeReady, UndoReady, SettleReady, JoinReady, Handles, Ending
  <2>. QED
    BY <1>1, <2>1, <2>2, <2>7, LockKeeps
<1>. QED
  BY <1>2, <1>3

LEMMA FindMarketKeeps ==
  ASSUME LockDiscipline, NEW r \in Requests, FindMarket(r)
  PROVE  LockDiscipline'
<1> DEFINE a == call[r]
<1>1. pc[r] = "find"
  BY DEF FindMarket, At
<1>2. CASE Refuse(r)
  BY <1>1, <1>2, RefuseKeeps
<1>3. CASE ~Refuse(r)
  <2>1. /\ Goto(r, "claim") /\ UNCHANGED <<tables, todo, owed, holder>>
        /\ "claim" \in Statements
    BY <1>3 DEF FindMarket, Statements, InTransaction
  <2>2. a.op \in {"open", "close", "settle"} /\ a \in Calls
    BY <1>1, Facts, WhereIs
  <2>3. pc'[r] = "claim" /\ call'[r] = a /\ holder' = holder
    BY <1>1, <2>1, AfterRead
  <2>4. BetHeld(r)'
    BY <1>1, <2>3, NoBetYet DEF Ending
  <2>5. Ready(r)'
    BY <2>2, <2>3, <2>4
    DEF Ready, Located, StatementsOf, MarketHeld, HoldsMarket, WalletHeld,
        StakeReady, UndoReady, SettleReady, JoinReady, Handles, Ending
  <2>. QED
    BY <1>1, <2>1, <2>5, ReadKeeps
<1>. QED
  BY <1>2, <1>3

LEMMA ClaimMarketKeeps ==
  ASSUME LockDiscipline, NEW r \in Requests, ClaimMarket(r)
  PROVE  LockDiscipline'
<1> DEFINE a == call[r]
           row == MarketRow(a.market)
           next == IF a.op = "settle" THEN "winner" ELSE "touch"
<1>1. pc[r] = "claim"
  BY DEF ClaimMarket, At
<1>2. CASE Refuse(r)
  BY <1>1, <1>2, RefuseKeeps
<1>3. CASE ~Refuse(r)
  <2>1. /\ CompetitionOf[a.market] = a.competition /\ status[a.market] = From[a.op]
        /\ Lock(r, row) /\ Goto(r, next)
        /\ UNCHANGED <<tables, todo, owed>> /\ next \in Statements
    BY <1>3 DEF ClaimMarket, Statements, InTransaction
  <2>2. a.op \in {"open", "close", "settle"} /\ a \in Calls /\ row \in Locks
    BY <1>1, Facts, WhereIs, CallFields, Rows
  <2>3. /\ pc'[r] = next /\ call'[r] = a /\ holder'[row] = r
        /\ \A l \in Locks : l # row => holder'[l] = holder[l]
        /\ TargetMarket(r)' = TargetMarket(r) /\ status' = status
    BY <1>1, <2>1, <2>2, AfterLock
  <2>4. TargetMarket(r) = a.market
    BY <2>2 DEF TargetMarket
  <2>5. From[a.op] = HeldStatus[a.op]
    BY <2>2 DEF From, HeldStatus
  <2>6. MarketHeld(r)'
    BY <2>1, <2>2, <2>3, <2>4, <2>5 DEF MarketHeld, HeldStatus, MarketRow
  <2>7. \A k \in Keys : holder'[BetRow(k)] # r
    BY <1>1, <2>3, Facts, Rows, RowsDiffer DEF Ending
  <2>8. Ready(r)'
    BY <2>2, <2>3, <2>6, <2>7
    DEF Ready, Located, StatementsOf, WalletHeld, BetHeld, BetRow,
        StakeReady, UndoReady, SettleReady, JoinReady, Handles, Ending
  <2>. QED
    BY <1>1, <2>1, <2>2, <2>8, LockKeeps
<1>. QED
  BY <1>2, <1>3

LEMMA CheckWinnerKeeps ==
  ASSUME LockDiscipline, NEW r \in Requests, CheckWinner(r)
  PROVE  LockDiscipline'
<1> DEFINE a == call[r]
<1>1. pc[r] = "winner"
  BY DEF CheckWinner, At
<1>2. CASE Refuse(r)
  BY <1>1, <1>2, RefuseKeeps
<1>3. CASE ~Refuse(r)
  <2>1. /\ MarketOf[a.selection] = a.market /\ Goto(r, "collect")
        /\ UNCHANGED <<tables, todo, owed, holder>> /\ "collect" \in Statements
    BY <1>3 DEF CheckWinner, Statements, InTransaction
  <2>2. a.op = "settle" /\ a \in Calls
    BY <1>1, Facts, WhereIs
  <2>3. /\ pc'[r] = "collect" /\ call'[r] = a /\ holder' = holder
        /\ TargetMarket(r)' = TargetMarket(r) /\ status' = status
    BY <1>1, <2>1, AfterRead
  <2>4. MarketHeld(r)'
    BY <1>1, <2>3, MarketStays DEF HoldsMarket
  <2>5. BetHeld(r)'
    BY <1>1, <2>3, NoBetYet DEF Ending
  <2>6. Ready(r)'
    BY <2>1, <2>2, <2>3, <2>4, <2>5
    DEF Ready, Located, StatementsOf, WalletHeld,
        StakeReady, UndoReady, SettleReady, JoinReady, Handles, Ending
  <2>. QED
    BY <1>1, <2>1, <2>6, ReadKeeps
<1>. QED
  BY <1>2, <1>3

LEMMA CollectBetsKeeps ==
  ASSUME LockDiscipline, NEW r \in Requests, CollectBets(r)
  PROVE  LockDiscipline'
<1> DEFINE a == call[r]
           found == {k \in Pending(a.market) : bet[k].competition = a.competition}
           next == IF found = {} THEN "touch" ELSE "resolve"
<1>1. pc[r] = "collect"
  BY DEF CollectBets, At
<1>2. /\ todo' = [todo EXCEPT ![r] = found] /\ Goto(r, next)
      /\ UNCHANGED <<tables, owed, holder>> /\ next \in Statements
  BY DEF CollectBets, Statements, InTransaction
<1>3. a.op = "settle" /\ a \in Calls
  BY <1>1, Facts, WhereIs
<1>4. MarketOf[a.selection] = a.market /\ CompetitionOf[a.market] = a.competition
  BY <1>1, <1>3, Facts DEF Ready, SettleReady, MarketHeld, HoldsMarket, TargetMarket, Handles
<1>5. found = Pending(a.market) /\ found \in SUBSET Keys
  BY <1>4 DEF LockDiscipline, BetsInTheirCompetition, Pending, BetsOn
<1>6. SessionTypeOK /\ \A k \in Keys : holder[BetRow(k)] # r
  BY <1>1, Facts DEF Ending
<1>7. /\ todo' \in [Requests -> SUBSET Keys] /\ todo'[r] = found
      /\ \A q \in Requests \ {r} : todo'[q] = todo[q]
  BY <1>2, <1>5, <1>6 DEF SessionTypeOK
<1>8. SessionTypeOK' /\ OthersUntouched(r)
  BY <1>2, <1>6, <1>7, ReadingStep DEF SessionTypeOK
<1>9. /\ pc'[r] = next /\ call'[r] = a /\ holder' = holder
      /\ status' = status /\ TargetMarket(r)' = TargetMarket(r)
  BY <1>2, <1>6, GotoStep DEF tables, TargetMarket
<1>10. MarketHeld(r)'
  BY <1>1, <1>9, MarketStays DEF HoldsMarket
<1>11. Resolved(r)' = {} /\ Pending(a.market)' = Pending(a.market)
  BY <1>2, <1>6, <1>9 DEF Resolved, Pending, BetsOn, tables, BetRow
<1>12. SettleReady(r)'
  BY <1>4, <1>5, <1>7, <1>9, <1>11 DEF SettleReady, Handles, Ending, Pending
<1> HIDE DEF found
<1>13. Ready(r)'
  BY <1>3, <1>6, <1>9, <1>10, <1>12
  DEF Ready, Located, StatementsOf, WalletHeld, BetHeld, BetRow,
      StakeReady, UndoReady, JoinReady, Handles, Ending
<1>. QED
  BY <1>2, <1>8, <1>13, LocalStep

LEMMA ResolveBetKeeps ==
  ASSUME LockDiscipline, NEW r \in Requests, NEW k \in Keys, ResolveBet(r, k)
  PROVE  LockDiscipline'
<1> DEFINE a == call[r]
           next == IF todo[r] = {k} THEN "touch" ELSE "resolve"
<1>1. pc[r] = "resolve" /\ k \in todo[r]
  BY DEF ResolveBet, At
<1>2. a.op = "settle" /\ a \in Calls
  BY <1>1, Facts, WhereIs
<1>3. /\ MarketOf[a.selection] = a.market
      /\ todo[r] \cup Resolved(r) = Pending(a.market)
  BY <1>1, <1>2, Facts DEF Ready, SettleReady, Handles
<1>4. bet[k].status = "PENDING"
  BY <1>1, <1>3 DEF Pending
<1>5. /\ Lock(r, BetRow(k)) /\ todo' = [todo EXCEPT ![r] = @ \ {k}] /\ Goto(r, next)
      /\ UNCHANGED <<tables, owed>> /\ next \in Statements
  BY <1>4 DEF ResolveBet, Statements, InTransaction
<1>6. SessionTypeOK /\ BetRow(k) \in Locks
  BY <1>1, Facts, Rows
<1>7. /\ todo' \in [Requests -> SUBSET Keys] /\ todo'[r] = todo[r] \ {k}
      /\ \A q \in Requests \ {r} : todo'[q] = todo[q]
  BY <1>5, <1>6 DEF SessionTypeOK
<1>8. SessionTypeOK' /\ OthersUntouched(r)
  BY <1>5, <1>6, <1>7, LockingStep
<1>9. /\ pc'[r] = next /\ call'[r] = a
      /\ holder'[BetRow(k)] = r
      /\ \A l \in Locks : l # BetRow(k) => holder'[l] = holder[l]
      /\ status' = status /\ bet' = bet /\ TargetMarket(r)' = TargetMarket(r)
  BY <1>5, <1>6, GotoStep, LockStep DEF tables, TargetMarket
<1>10. MarketHeld(r)'
  BY <1>1, <1>9, MarketStays, Rows, RowsDiffer DEF HoldsMarket
<1>11. Resolved(r)' = Resolved(r) \cup {k}
  <2>1. \A j \in Keys : (holder'[BetRow(j)] = r) <=> (holder[BetRow(j)] = r \/ j = k)
    BY <1>9, Rows, RowsDiffer
  <2>. QED
    BY <2>1 DEF Resolved, BetRow
<1>12. Pending(a.market)' = Pending(a.market)
  BY <1>9 DEF Pending, BetsOn
<1>13. SettleReady(r)'
  BY <1>1, <1>3, <1>7, <1>9, <1>11, <1>12 DEF SettleReady, Handles, Ending, Pending
<1>14. Ready(r)'
  BY <1>2, <1>9, <1>10, <1>13
  DEF Ready, Located, StatementsOf, WalletHeld, BetHeld,
      StakeReady, UndoReady, JoinReady, Handles, Ending
<1>. QED
  BY <1>5, <1>8, <1>14, LocalStep

-----------------------------------------------------------------------------
(* joinCompetition *)

LEMMA UpsertMemberKeeps ==
  ASSUME LockDiscipline, NEW r \in Requests, UpsertMember(r)
  PROVE  LockDiscipline'
<1> DEFINE a == call[r]
           row == WalletRow(a.competition, a.user)
<1>1. pc[r] = "upsert"
  BY DEF UpsertMember, At
<1>2. a.op = "join" /\ a \in Calls /\ row \in Locks
  BY <1>1, Facts, WhereIs, CallFields, Rows
<1>3. /\ Lock(r, row) /\ Goto(r, "credit")
      /\ UNCHANGED <<tables, todo, owed>> /\ "credit" \in Statements
  BY DEF UpsertMember, Statements, InTransaction
<1>4. /\ pc'[r] = "credit" /\ call'[r] = a /\ holder'[row] = r
      /\ \A l \in Locks : l # row => holder'[l] = holder[l]
  BY <1>1, <1>2, <1>3, AfterLock
<1>5. BetHeld(r)'
  BY <1>1, <1>4, NoBetYet, Rows, RowsDiffer DEF Ending
<1>6. WalletHeld(r)'
  BY <1>4 DEF WalletHeld, WalletRow
<1>7. Ready(r)'
  BY <1>2, <1>4, <1>5, <1>6
  DEF Ready, Located, StatementsOf, MarketHeld, HoldsMarket,
      StakeReady, UndoReady, SettleReady, JoinReady, Handles, Ending
<1>. QED
  BY <1>1, <1>2, <1>3, <1>7, LockKeeps

LEMMA ReadStartingCreditKeeps ==
  ASSUME LockDiscipline, NEW r \in Requests, ReadStartingCredit(r)
  PROVE  LockDiscipline'
<1> DEFINE a == call[r]
           missing == StartingCredits(a.competition, a.user) = {}
<1>1. pc[r] = "credit"
  BY DEF ReadStartingCredit, At
<1>2. /\ owed' = [owed EXCEPT ![r] = missing] /\ Goto(r, "touch")
      /\ UNCHANGED <<tables, todo, holder>> /\ "touch" \in Statements
  BY DEF ReadStartingCredit, Statements, InTransaction
<1>3. a.op = "join" /\ a \in Calls /\ SessionTypeOK
  BY <1>1, Facts, WhereIs
<1> HIDE DEF missing
<1>4. /\ owed' \in [Requests -> BOOLEAN] /\ owed'[r] = missing
      /\ \A q \in Requests \ {r} : owed'[q] = owed[q]
  <2>1. missing \in BOOLEAN
    BY DEF missing
  <2>. QED
    BY <1>2, <1>3, <2>1 DEF SessionTypeOK
<1>5. SessionTypeOK' /\ OthersUntouched(r)
  BY <1>2, <1>3, <1>4, ReadingStep DEF SessionTypeOK
<1>6. pc'[r] = "touch" /\ call'[r] = a /\ holder' = holder /\ ledger' = ledger
  BY <1>2, <1>3, GotoStep DEF tables
<1>7. \A k \in Keys : holder[BetRow(k)] # r
  BY <1>1, Facts DEF Ending
<1>8. holder[WalletRow(a.competition, a.user)] = r
  BY <1>1, <1>3, Facts DEF Ready, WalletHeld, Handles
<1>9. WalletHeld(r)'
  BY <1>6, <1>8 DEF WalletHeld, WalletRow
<1>10. StartingCredits(a.competition, a.user)' = StartingCredits(a.competition, a.user)
  BY <1>6 DEF StartingCredits, Account
<1>11. JoinReady(r)'
  BY <1>4, <1>6, <1>10 DEF JoinReady, missing
<1>12. Ready(r)'
  BY <1>3, <1>6, <1>7, <1>9, <1>11
  DEF Ready, Located, StatementsOf, MarketHeld, HoldsMarket, BetHeld, BetRow,
      StakeReady, UndoReady, SettleReady, Handles, Ending
<1>. QED
  BY <1>2, <1>5, <1>12, LocalStep

-----------------------------------------------------------------------------
(* The first and the last step before the commit, for every handler. *)

LEMMA TouchCompetitionKeeps ==
  ASSUME LockDiscipline, NEW r \in Requests, TouchCompetition(r)
  PROVE  LockDiscipline'
<1> DEFINE a == call[r]
           row == CompetitionRow(a.competition)
<1>1. pc[r] = "touch"
  BY DEF TouchCompetition, At
<1>2. a \in Calls /\ row \in Locks /\ Ready(r)
  BY <1>1, Facts, CallFields, Rows
<1>3. /\ Lock(r, row) /\ Goto(r, "commit")
      /\ UNCHANGED <<tables, todo, owed>> /\ "commit" \in Statements
  BY DEF TouchCompetition, Statements, InTransaction
<1>4. /\ pc'[r] = "commit" /\ call'[r] = a /\ holder'[row] = r
      /\ todo'[r] = todo[r] /\ owed'[r] = owed[r]
      /\ \A l \in Locks : l # row => holder'[l] = holder[l]
      /\ TargetMarket(r)' = TargetMarket(r)
      /\ status' = status /\ selection' = selection /\ bet' = bet /\ ledger' = ledger
      /\ member' = member
  BY <1>1, <1>2, <1>3, AfterLock
<1>5. Located(r)'
  <2>1. a.op \in Ops
    BY <1>2, CallFields
  <2>. QED
    BY <1>2, <1>4, <2>1 DEF Located, StatementsOf, Ops
<1>6. MarketHeld(r)'
  <2>1. CASE HoldsMarket(r)
    <3>1. \A m \in Markets : holder'[MarketRow(m)] = holder[MarketRow(m)]
      <4>1. \A m \in Markets : MarketRow(m) \in Locks /\ MarketRow(m) # row
        BY Rows, RowsDiffer
      <4> HIDE DEF row
      <4>. QED
        BY <1>4, <4>1
    <3>. QED
      BY <1>4, <2>1, <3>1, MarketStays
  <2>2. CASE ~HoldsMarket(r)
    BY <1>1, <1>4, <2>2 DEF MarketHeld, HoldsMarket, Handles, Ending
  <2>. QED
    BY <2>1, <2>2
<1>7. WalletHeld(r)'
  <2>1. /\ WalletRow(a.competition, a.user) \in Locks
        /\ WalletRow(a.competition, a.user) # row
    BY <1>2, CallFields, Rows, RowsDiffer
  <2>2. a.op \in {"place", "join"} => holder[WalletRow(a.competition, a.user)] = r
    BY <1>1, <1>2 DEF Ready, WalletHeld, Handles, Ending
  <2>3. a.op \in {"place", "join"} => holder'[WalletRow(a.competition, a.user)] = r
    BY <1>4, <2>1, <2>2
  <2>. QED
    BY <1>4, <2>3 DEF WalletHeld, WalletRow, Handles
<1>8. \A k \in Keys : holder'[BetRow(k)] = holder[BetRow(k)]
  BY <1>4, Rows, RowsDiffer
<1>9. BetHeld(r)'
  <2>1. a.op \in {"place", "undo"} => a.key \in Keys /\ holder[BetRow(a.key)] = r
    BY <1>1, <1>2, CallFields DEF Ready, BetHeld, Handles, Ending
  <2>2. \A k \in Keys : holder[BetRow(k)] = r =>
          (a.op \in {"place", "undo"} /\ a.key = k) \/ a.op = "settle"
    BY <1>1, <1>2 DEF Ready, BetHeld, Handles, Ending
  <2>. QED
    BY <1>4, <1>8, <2>1, <2>2 DEF BetHeld, Handles, Ending, BetRow
<1>10. StakeReady(r)'
  BY <1>1, <1>2, <1>4 DEF Ready, StakeReady, Handles, Ending, Balance, Account
<1>11. UndoReady(r)'
  BY <1>1, <1>2, <1>4 DEF Ready, UndoReady, Handles, Ending, Mine
<1>12. SettleReady(r)'
  <2>1. Resolved(r)' = Resolved(r)
    BY <1>8 DEF Resolved, BetRow
  <2>2. Pending(a.market)' = Pending(a.market)
    BY <1>4 DEF Pending, BetsOn
  <2>3. a.op = "settle" => /\ MarketOf[a.selection] = a.market /\ todo[r] = {}
                           /\ todo[r] \cup Resolved(r) = Pending(a.market)
    BY <1>1, <1>2 DEF Ready, SettleReady, Handles, Ending
  <2>. QED
    BY <1>4, <2>1, <2>2, <2>3 DEF SettleReady, Handles, Ending, Pending
<1>13. JoinReady(r)'
  BY <1>1, <1>2, <1>4 DEF Ready, JoinReady, Handles, Ending, StartingCredits, Account
<1>14. Ready(r)'
  BY <1>5, <1>6, <1>7, <1>9, <1>10, <1>11, <1>12, <1>13 DEF Ready
<1>. QED
  BY <1>1, <1>2, <1>3, <1>14, LockKeeps

LEMMA ArriveKeeps ==
  ASSUME LockDiscipline, NEW r \in Requests, NEW a \in Calls, Arrive(r, a)
  PROVE  LockDiscipline'
<1>1. /\ pc[r] = "idle" /\ pc' = [pc EXCEPT ![r] = FirstStatement[a.op]]
      /\ call' = [call EXCEPT ![r] = a]
      /\ UNCHANGED <<tables, reply, todo, owed, holder>>
  BY DEF Arrive, At
<1>2. SessionTypeOK
  BY DEF LockDiscipline, TypeOK
<1>3. a.op \in Ops
  BY CallFields
<1>4. /\ FirstStatement[a.op] \in Statements
      /\ FirstStatement[a.op] \in StatementsOf[a.op]
      /\ FirstStatement[a.op] \in {"lookup", "own", "insert", "find", "upsert"}
  BY <1>3 DEF Ops, FirstStatement, Statements, StatementsOf, InTransaction
<1>5. pc'[r] = FirstStatement[a.op] /\ call'[r] = a /\ holder' = holder
  BY <1>1, <1>2 DEF SessionTypeOK
<1>6. SessionTypeOK' /\ OthersUntouched(r)
  BY <1>1, <1>2, <1>4 DEF SessionTypeOK, OthersUntouched, Untouched
<1>7. \A k \in Keys : holder[BetRow(k)] # r
  BY <1>1 DEF LockDiscipline, Ready, BetHeld, Handles, Ending
<1>8. Ready(r)'
  BY <1>4, <1>5, <1>7
  DEF Ready, Located, MarketHeld, HoldsMarket, WalletHeld, BetHeld, BetRow,
      StakeReady, UndoReady, SettleReady, JoinReady, Handles, Ending
<1>. QED
  BY <1>1, <1>6, <1>8, LocalStep

=============================================================================
