------------------------------- MODULE Tables -------------------------------
(***************************************************************************)
(* The committed PostgreSQL rows that a Faux Stakes competition lives in:  *)
(* CompetitionMember, Market, Selection, Bet and CompetitionLedgerTxn, and *)
(* what each handler writes into them when its transaction commits.        *)
(*                                                                         *)
(* Rows that never change are constants: the market of a selection, the    *)
(* competition of a market, the odds.  A bet is named by its               *)
(* idempotencyKey, which is unique; a market that has not been created yet *)
(* has the status "ABSENT".                                                *)
(***************************************************************************)
EXTENDS Integers, FiniteSets

CONSTANTS
  Competitions, Users, Markets, Selections,
  Keys,            \* idempotency keys the clients send
  Stakes,          \* amounts a client may stake, in Orakls
  Requests,        \* requests; a request identifies the rows it inserts
  None,            \* SQL NULL, and the value of a row that does not exist
  CompetitionOf,   \* the competition of a market
  MarketOf,        \* the market of a selection
  Return,          \* potentialReturn of a stake on a selection, after rounding
  StartingChips,   \* FauxStakesCompetition.startingChips
  Host,            \* Competition.createdById
  StartMembers,    \* memberships that exist when the model starts
  StartStatus      \* status of each market when the model starts

MarketStatus == {"ABSENT", "DRAFT", "OPEN", "CLOSED", "SETTLED"}
SelectionStatus == {"ACTIVE", "WINNER", "LOSER"}
BetStatus == {"PENDING", "WON", "LOST", "VOID"}
LedgerType == {"CREDIT", "DEBIT", "PAYOUT", "REFUND"}

Bet == [competition : Competitions, user : Users, selection : Selections,
        stake : Stakes, return : Nat, status : BetStatus]

\* The field "by" stands for the generated id: no request inserts two rows
\* that agree on everything else, two requests never insert the same row.
LedgerTxn == [competition : Competitions, user : Users, type : LedgerType,
              amount : Nat, bet : Keys \cup {None},
              market : Markets \cup {None}, by : Requests \cup {None}]

ASSUME ShapeAssumption ==
  /\ CompetitionOf \in [Markets -> Competitions]
  /\ MarketOf \in [Selections -> Markets]
  /\ Host \in [Competitions -> Users]

ASSUME MoneyAssumption ==
  /\ Stakes \subseteq Nat \ {0}
  /\ Return \in [Selections -> [Stakes -> Nat]]
  /\ StartingChips \in [Competitions -> Nat \ {0}]

ASSUME StartAssumption ==
  /\ StartMembers \subseteq Competitions \X Users
  /\ \A c \in Competitions : <<c, Host[c]>> \in StartMembers
  /\ StartStatus \in [Markets -> MarketStatus \ {"SETTLED"}]

ASSUME FiniteAssumption == IsFiniteSet(Keys) /\ IsFiniteSet(StartMembers)

ASSUME NoneAssumption ==
  None \notin Requests \cup Keys \cup Markets \cup Bet

VARIABLES
  member,      \* <<competition, user>> pairs with a CompetitionMember row
  status,      \* Market.status
  selection,   \* Selection.status
  bet,         \* the Bet row with a given idempotencyKey
  ledger       \* CompetitionLedgerTxn rows

tables == <<member, status, selection, bet, ledger>>

-----------------------------------------------------------------------------
(* Reading the ledger. *)

Entry(c, u, type, amount, k, m, r) ==
  [competition |-> c, user |-> u, type |-> type, amount |-> amount,
   bet |-> k, market |-> m, by |-> r]

\* The sum of the amounts of a set of rows, as the number of Orakls in them.
Chips(rows) == Cardinality(UNION {{e} \X (1 .. e.amount) : e \in rows})

Debits(rows) == {e \in rows : e.type = "DEBIT"}

\* The reduce over signedAmount that every balance in the code is.
Net(rows) == Chips(rows \ Debits(rows)) - Chips(Debits(rows))

Account(c, u) == {e \in ledger : e.competition = c /\ e.user = u}

Balance(c, u) == Net(Account(c, u))

StartingCredits(c, u) ==
  {e \in Account(c, u) : e.type = "CREDIT" /\ e.bet = None /\ e.market = None}

BetsOn(m) == {k \in Keys : bet[k] # None /\ MarketOf[bet[k].selection] = m}

Pending(m) == {k \in BetsOn(m) : bet[k].status = "PENDING"}

-----------------------------------------------------------------------------
(* A quiescent start: members with their starting credit, markets without  *)
(* bets.                                                                   *)

TablesInit ==
  /\ member = StartMembers
  /\ status = StartStatus
  /\ selection = [s \in Selections |-> "ACTIVE"]
  /\ bet = [k \in Keys |-> None]
  /\ ledger = {Entry(p[1], p[2], "CREDIT", StartingChips[p[1]], None, None, None) :
                 p \in StartMembers}

TablesTypeOK ==
  /\ member \subseteq Competitions \X Users
  /\ status \in [Markets -> MarketStatus]
  /\ selection \in [Selections -> SelectionStatus]
  /\ bet \in [Keys -> Bet \cup {None}]
  /\ ledger \subseteq LedgerTxn
  /\ IsFiniteSet(ledger)

-----------------------------------------------------------------------------
(* What each handler's transaction leaves behind when it commits.          *)

\* placeBet: the Bet and its DEBIT
WritePlace(c, u, s, stake, k, m, r) ==
  /\ bet' = [bet EXCEPT ![k] =
              [competition |-> c, user |-> u, selection |-> s, stake |-> stake,
               return |-> Return[s][stake], status |-> "PENDING"]]
  /\ ledger' = ledger \cup {Entry(c, u, "DEBIT", stake, k, m, r)}
  /\ UNCHANGED <<member, status, selection>>

\* A fault the runs must expose: the refund carries the sign of a debit.
WriteUndoNegated(c, k, r) ==
  /\ bet' = [bet EXCEPT ![k].status = "VOID"]
  /\ ledger' = ledger \cup
       {Entry(c, bet[k].user, "REFUND", -bet[k].stake, k, MarketOf[bet[k].selection], r)}
  /\ UNCHANGED <<member, status, selection>>

\* undoBet: the Bet becomes VOID and its stake comes back
WriteUndo(c, k, r) ==
  /\ bet' = [bet EXCEPT ![k].status = "VOID"]
  /\ ledger' = ledger \cup
       {Entry(c, bet[k].user, "REFUND", bet[k].stake, k, MarketOf[bet[k].selection], r)}
  /\ UNCHANGED <<member, status, selection>>

\* createMarket, openMarket, closeMarket: only the status of the market
WriteStatus(m, to) ==
  /\ status' = [status EXCEPT ![m] = to]
  /\ UNCHANGED <<member, selection, bet, ledger>>

\* one PAYOUT of potentialReturn for each bet
Payouts(c, m, bets, r) ==
  {Entry(c, bet[k].user, "PAYOUT", bet[k].return, k, m, r) : k \in bets}

\* A fault the runs must expose: every stake is paid out, won or lost.
WriteSettlePayAll(c, m, winner, resolved, r) ==
  LET won == {k \in resolved : bet[k].selection = winner} IN
  /\ status' = [status EXCEPT ![m] = "SETTLED"]
  /\ bet' = [k \in Keys |->
              IF k \in resolved
              THEN [bet[k] EXCEPT !.status = IF k \in won THEN "WON" ELSE "LOST"]
              ELSE bet[k]]
  /\ ledger' = ledger \cup Payouts(c, m, resolved, r)
  /\ selection' = [s \in Selections |->
                    IF MarketOf[s] # m THEN selection[s]
                    ELSE IF s = winner THEN "WINNER" ELSE "LOSER"]
  /\ UNCHANGED member

\* settleMarket: the market, the bets it resolves, a PAYOUT for each bet on the
\* winner, and the verdict on every selection of the market
WriteSettle(c, m, winner, resolved, r) ==
  LET won == {k \in resolved : bet[k].selection = winner} IN
  /\ status' = [status EXCEPT ![m] = "SETTLED"]
  /\ bet' = [k \in Keys |->
              IF k \in resolved
              THEN [bet[k] EXCEPT !.status = IF k \in won THEN "WON" ELSE "LOST"]
              ELSE bet[k]]
  /\ ledger' = ledger \cup Payouts(c, m, won, r)
  /\ selection' = [s \in Selections |->
                    IF MarketOf[s] # m THEN selection[s]
                    ELSE IF s = winner THEN "WINNER" ELSE "LOSER"]
  /\ UNCHANGED member

\* joinCompetition and the engine's onUserJoined: the membership, and the
\* starting credit when it is owed
WriteJoin(c, u, owed, r) ==
  /\ member' = member \cup {<<c, u>>}
  /\ ledger' = IF owed
               THEN ledger \cup {Entry(c, u, "CREDIT", StartingChips[c], None, None, r)}
               ELSE ledger
  /\ UNCHANGED <<status, selection, bet>>

-----------------------------------------------------------------------------
(* What must hold of the committed rows, whatever order requests run in.   *)

\* No player's available balance ever goes below zero, however many stakes on
\* different markets race for it (placeBet checks a balance it read earlier).
NoOverdraft == \A c \in Competitions, u \in Users : Balance(c, u) >= 0

Movements(k, type) == {e \in ledger : e.bet = k /\ e.type = type}

Moved(k, type, amount) ==
  \E r \in Requests :
    Movements(k, type) = {Entry(bet[k].competition, bet[k].user, type, amount, k,
                                MarketOf[bet[k].selection], r)}

\* The ledger tells exactly the story of each bet: its stake was debited once,
\* it was refunded once if and only if the bet is VOID, and its return was paid
\* once if and only if the bet is WON (placeBet, undoBet and settleMarket each
\* write a bet and its ledger row in different statements of a transaction).
LedgerMatchesBets ==
  \A k \in Keys :
    IF bet[k] = None
    THEN \A e \in ledger : e.bet # k
    ELSE /\ Moved(k, "DEBIT", bet[k].stake)
         /\ IF bet[k].status = "VOID" THEN Moved(k, "REFUND", bet[k].stake)
            ELSE Movements(k, "REFUND") = {}
         /\ IF bet[k].status = "WON" THEN Moved(k, "PAYOUT", bet[k].return)
            ELSE Movements(k, "PAYOUT") = {}

\* A stake belongs to a member of the competition its market is in, and the
\* market it is on has been opened (placeBet, whose ids all come from the client).
StakesBelong ==
  \A k \in Keys : bet[k] # None =>
    LET m == MarketOf[bet[k].selection] IN
    /\ bet[k].competition = CompetitionOf[m]
    /\ <<bet[k].competition, bet[k].user>> \in member
    /\ status[m] \in {"OPEN", "CLOSED", "SETTLED"}

\* A settled market has one winning selection and leaves no stake unresolved:
\* every bet on the winner is WON or was undone, every other bet LOST or was
\* undone.  No bet is resolved before (settleMarket against placeBet, undoBet
\* and another settleMarket).
SettlementComplete ==
  \A m \in Markets :
    LET verdict(s) == IF selection[s] = "WINNER" THEN "WON" ELSE "LOST"
        options == {s \in Selections : MarketOf[s] = m}
    IN  IF status[m] = "SETTLED"
        THEN /\ \E w \in options : \A s \in options :
                  selection[s] = IF s = w THEN "WINNER" ELSE "LOSER"
             /\ \A k \in BetsOn(m) :
                  bet[k].status \in {"VOID", verdict(bet[k].selection)}
        ELSE /\ \A s \in options : selection[s] = "ACTIVE"
             /\ \A k \in BetsOn(m) : bet[k].status \in {"PENDING", "VOID"}

\* Whoever is a member has received exactly one starting credit, of the
\* competition's starting chips, and nobody else has received any
\* (joinCompetition and onUserJoined under repeated and simultaneous joins).
OneStartingCredit ==
  \A c \in Competitions, u \in Users :
    IF <<c, u>> \in member
    THEN \E e \in ledger :
           StartingCredits(c, u) = {e} /\ e.amount = StartingChips[c]
    ELSE StartingCredits(c, u) = {}

\* Nothing that happens after a market is settled touches it, its selections,
\* its bets or its ledger rows again: no late stake, undo, second settlement or reopening.
SettledIsFinal ==
  [][\A m \in Markets : status[m] = "SETTLED" =>
       /\ status'[m] = "SETTLED"
       /\ \A s \in Selections : MarketOf[s] = m => selection'[s] = selection[s]
       /\ BetsOn(m)' = BetsOn(m)
       /\ \A k \in BetsOn(m) : bet'[k] = bet[k]
       /\ {e \in ledger' : e.market = m} = {e \in ledger : e.market = m}]_tables

\* Nothing changes whose bet a bet is or what it is on, and once it is undone,
\* won or lost nothing touches it or its ledger rows again: no retry of its
\* placement, no second undo, no settlement (placeBet answers a used key with
\* the bet as it is, also when that bet has been undone).
BetsAreFinal ==
  [][\A k \in Keys : bet[k] # None =>
       /\ bet'[k] # None
       /\ bet'[k] = [bet[k] EXCEPT !.status = bet'[k].status]
       /\ bet[k].status # "PENDING" =>
            /\ bet'[k] = bet[k]
            /\ {e \in ledger' : e.bet = k} = {e \in ledger : e.bet = k}]_tables

=============================================================================
