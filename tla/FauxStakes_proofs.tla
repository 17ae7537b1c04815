------------------------- MODULE FauxStakes_proofs -------------------------
(***************************************************************************)
(* The interleaved transactions keep LockDiscipline, so every balance      *)
(* stays at or above zero and no check behind a lock ever fails.  They     *)
(* implement the atomic game, and so keep its books, they refuse only what *)
(* the rules of the game forbid, and they lock rows in one order, so that  *)
(* some open call can always go on.                                        *)
(***************************************************************************)
EXTENDS Statements_proofs

-----------------------------------------------------------------------------
(* A commit. *)

\* A commit that leaves the tables in order and disturbs no other request.
LEMMA CommitStep ==
  ASSUME LockDiscipline, NEW r \in Requests, pc[r] = "commit", Finish(r, "ok"),
         TablesTypeOK', BetsInTheirCompetition', NoOverdraft',
         \A q \in Requests \ {r} : Respects(q)
  PROVE  LockDiscipline'
<1>1. SessionTypeOK' /\ OthersUntouched(r) /\ Ended(r)
  BY FinishStep DEF LockDiscipline, TypeOK, Replies
<1>2. Ready(r)'
  BY <1>1, EndedIsReady DEF LockDiscipline, Ready
<1>3. ASSUME NEW q \in Requests \ {r} PROVE Ready(q)'
  BY <1>1, <1>3, RespectedIsReady DEF LockDiscipline, TypeOK, OthersUntouched
<1>. QED
  BY <1>1, <1>2, <1>3 DEF LockDiscipline, TypeOK

\* Two requests never hold one market.
LEMMA MarketsApart ==
  ASSUME LockDiscipline, NEW r \in Requests, NEW q \in Requests \ {r},
         HoldsMarket(r), HoldsMarket(q)
  PROVE  TargetMarket(q) # TargetMarket(r)
BY DEF LockDiscipline, Ready, MarketHeld

\* Money that comes in disturbs no wallet, unless it is a starting credit.
LEMMA IncomeKeepsWallets ==
  ASSUME TablesTypeOK, NEW more, more \subseteq LedgerTxn, IsFiniteSet(more),
         \A e \in more : e.type \notin {"DEBIT", "CREDIT"},
         ledger' = ledger \cup more, member \subseteq member', NEW c, NEW u
  PROVE  KeepsWallet(c, u)
<1> DEFINE mine == {e \in more : e.competition = c /\ e.user = u}
           after == {e \in ledger' : e.competition = c /\ e.user = u}
<1>1. after = Account(c, u) \cup mine
  BY DEF Account
<1>2. /\ mine \subseteq LedgerTxn /\ mine \in SUBSET more
      /\ \A e \in mine : e.type # "DEBIT"
  OBVIOUS
<1>3. IsFiniteSet(mine)
  BY <1>2, FS_Subset
<1>4. Net(Account(c, u) \cup mine) >= Net(Account(c, u))
  <2> HIDE DEF mine
  <2>. QED
    BY <1>2, <1>3, AccountFinite, NetOfIncome
<1>5. Net(after) >= Balance(c, u)
  BY <1>1, <1>4 DEF Balance
<1>6. {e \in after : e.type = "CREDIT" /\ e.bet = None /\ e.market = None}
        = StartingCredits(c, u)
  BY <1>1 DEF StartingCredits
<1>. QED
  BY <1>5, <1>6 DEF KeepsWallet

\* A row of one account disturbs no other wallet.
LEMMA OtherAccountKeepsWallet ==
  ASSUME TablesTypeOK, NEW e, ledger' = ledger \cup {e}, member \subseteq member',
         NEW c, NEW u, ~(e.competition = c /\ e.user = u)
  PROVE  KeepsWallet(c, u)
<1> DEFINE after == {x \in ledger' : x.competition = c /\ x.user = u}
<1>1. after = Account(c, u)
  BY DEF Account
<1>2. Balance(c, u) \in Int /\ Net(after) = Balance(c, u)
  BY <1>1, BalanceType DEF Balance
<1>3. Net(after) >= Balance(c, u)
  BY <1>2
<1>4. {x \in after : x.type = "CREDIT" /\ x.bet = None /\ x.market = None}
        = StartingCredits(c, u)
  BY <1>1 DEF StartingCredits
<1>. QED
  BY <1>3, <1>4 DEF KeepsWallet

-----------------------------------------------------------------------------
(* The commits, one by one. *)

LEMMA CommitStatusKeeps ==
  ASSUME LockDiscipline, NEW r \in Requests, CommitStatus(r)
  PROVE  LockDiscipline'
<1> DEFINE a == call[r]
<1>1. /\ pc[r] = "commit" /\ a.op \in {"create", "open", "close"}
      /\ WriteStatus(a.market, To[a.op]) /\ Finish(r, "ok")
  BY DEF CommitStatus, At
<1>2. a \in Calls /\ a.market \in Markets /\ To[a.op] \in MarketStatus
  BY <1>1, Facts, CallFields DEF To, MarketStatus
<1>3. TablesTypeOK'
  BY <1>1, <1>2, WriteStatusType DEF LockDiscipline, TypeOK
<1>4. /\ member' = member /\ selection' = selection /\ bet' = bet /\ ledger' = ledger
      /\ \A m \in Markets : m # a.market => status'[m] = status[m]
  BY <1>1, <1>2 DEF WriteStatus, LockDiscipline, TypeOK, TablesTypeOK
<1>5. BetsInTheirCompetition' /\ NoOverdraft'
  BY <1>4 DEF LockDiscipline, BetsInTheirCompetition, NoOverdraft, Balance, Account
<1>6. HoldsMarket(r) /\ TargetMarket(r) = a.market
  BY <1>1 DEF HoldsMarket, Handles, Ending, TargetMarket
<1>7. ASSUME NEW q \in Requests \ {r} PROVE Respects(q)
  <2>1. HoldsMarket(q) => KeepsMarket(TargetMarket(q))
    <3>1. SUFFICES ASSUME HoldsMarket(q) PROVE KeepsMarket(TargetMarket(q))
      OBVIOUS
    <3>2. TargetMarket(q) # a.market /\ TargetMarket(q) \in Markets
      BY <1>6, <3>1, MarketsApart, TargetType DEF LockDiscipline, TypeOK
    <3>. QED
      BY <1>4, <3>2 DEF KeepsMarket, Pending, BetsOn
  <2>2. \A c, u : KeepsWallet(c, u)
    <3> TAKE c, u
    <3>1. Balance(c, u) \in Int
      BY BalanceType DEF LockDiscipline, TypeOK
    <3>. QED
      BY <1>4, <3>1 DEF KeepsWallet, Balance, Account, StartingCredits
  <2>. QED
    BY <1>4, <2>1, <2>2 DEF Respects, KeepsBets
<1>. QED
  BY <1>1, <1>3, <1>5, <1>7, CommitStep

LEMMA CommitPlaceKeeps ==
  ASSUME LockDiscipline, NEW r \in Requests, CommitPlace(r)
  PROVE  LockDiscipline'
<1> DEFINE a == call[r]
           e == Entry(a.competition, a.user, "DEBIT", a.stake, a.key, a.market, r)
<1>1. /\ pc[r] = "commit" /\ a.op = "place" /\ Finish(r, "ok")
      /\ WritePlace(a.competition, a.user, a.selection, a.stake, a.key, a.market, r)
  BY DEF CommitPlace, At
<1>2. /\ a \in Calls /\ a.competition \in Competitions /\ a.user \in Users
      /\ a.selection \in Selections /\ a.stake \in Stakes /\ a.key \in Keys
      /\ a.market \in Markets
  BY <1>1, Facts, CallFields
<1>3. /\ holder[WalletRow(a.competition, a.user)] = r /\ holder[BetRow(a.key)] = r
      /\ MarketOf[a.selection] = a.market /\ CompetitionOf[a.market] = a.competition
      /\ Balance(a.competition, a.user) >= a.stake /\ bet[a.key] = None
      /\ HoldsMarket(r) /\ TargetMarket(r) = a.market
  BY <1>1, Facts DEF Ready, WalletHeld, BetHeld, MarketHeld, StakeReady, HoldsMarket,
                     TargetMarket, Handles, Ending
<1>4. TablesTypeOK /\ NoOverdraft
  BY DEF LockDiscipline, TypeOK
<1>5. TablesTypeOK'
  BY <1>1, <1>2, <1>4, WritePlaceType
<1>6. NoOverdraft'
  BY <1>1, <1>2, <1>3, <1>4, StakeKeepsNoOverdraft
<1>7. /\ \A k \in Keys : k # a.key => bet'[k] = bet[k]
      /\ bet'[a.key].selection = a.selection /\ bet'[a.key].competition = a.competition
      /\ status' = status /\ selection' = selection /\ member' = member
      /\ ledger' = ledger \cup {e}
  BY <1>1, <1>2, <1>4 DEF WritePlace, TablesTypeOK
<1>8. BetsInTheirCompetition'
  BY <1>3, <1>7 DEF LockDiscipline, BetsInTheirCompetition
<1>9. e.competition = a.competition /\ e.user = a.user
  BY DEF Entry
<1> HIDE DEF e
<1>10. ASSUME NEW q \in Requests \ {r} PROVE Respects(q)
  <2>1. HoldsMarket(q) => KeepsMarket(TargetMarket(q))
    <3>1. SUFFICES ASSUME HoldsMarket(q) PROVE KeepsMarket(TargetMarket(q))
      OBVIOUS
    <3>2. TargetMarket(q) # a.market
      BY <1>3, <3>1, MarketsApart
    <3>. QED
      BY <1>3, <1>7, <3>2 DEF KeepsMarket, Pending, BetsOn
  <2>2. holder[WalletRow(call[q].competition, call[q].user)] = q =>
          KeepsWallet(call[q].competition, call[q].user)
    <3>1. SUFFICES ASSUME holder[WalletRow(call[q].competition, call[q].user)] = q
                   PROVE  KeepsWallet(call[q].competition, call[q].user)
      OBVIOUS
    <3>2. ~(e.competition = call[q].competition /\ e.user = call[q].user)
      BY <1>3, <1>9, <3>1
    <3>. QED
      BY <1>4, <1>7, <3>2, OtherAccountKeepsWallet
  <2>3. \A k \in Keys : holder[BetRow(k)] = q => k # a.key
    BY <1>3
  <2>. QED
    BY <1>3, <1>7, <2>1, <2>2, <2>3 DEF Respects, KeepsBets
<1>. QED
  BY <1>1, <1>5, <1>6, <1>8, <1>10, CommitStep

LEMMA CommitUndoKeeps ==
  ASSUME LockDiscipline, NEW r \in Requests, CommitUndo(r)
  PROVE  LockDiscipline'
<1> DEFINE a == call[r]
           m == MarketOf[bet[a.key].selection]
           e == Entry(a.competition, bet[a.key].user, "REFUND", bet[a.key].stake, a.key,
                      m, r)
<1>1. /\ pc[r] = "commit" /\ a.op = "undo" /\ Finish(r, "ok")
      /\ WriteUndo(a.competition, a.key, r)
  BY DEF CommitUndo, At
<1>2. a \in Calls /\ a.competition \in Competitions /\ a.key \in Keys
  BY <1>1, Facts, CallFields
<1>3. bet[a.key] # None /\ HoldsMarket(r) /\ TargetMarket(r) = m
  BY <1>1, Facts DEF Ready, UndoReady, HoldsMarket, TargetMarket, Handles, Ending
<1>4. TablesTypeOK /\ NoOverdraft
  BY DEF LockDiscipline, TypeOK
<1>5. TablesTypeOK'
  BY <1>1, <1>2, <1>3, <1>4, WriteUndoType
<1>6. bet[a.key] \in Bet
  BY <1>2, <1>3, <1>4 DEF TablesTypeOK
<1>7. /\ \A k \in Keys : k # a.key => bet'[k] = bet[k]
      /\ bet'[a.key] = [bet[a.key] EXCEPT !.status = "VOID"]
      /\ status' = status /\ selection' = selection /\ member' = member
      /\ ledger' = ledger \cup {e}
  BY <1>1, <1>2, <1>4 DEF WriteUndo, TablesTypeOK
<1>8. /\ bet'[a.key] # None /\ bet'[a.key].user = bet[a.key].user
      /\ bet'[a.key].competition = bet[a.key].competition
      /\ bet'[a.key].selection = bet[a.key].selection
  BY <1>6, <1>7, NoneAssumption DEF Bet, BetStatus
<1>9. KeepsBets
  BY <1>7, <1>8 DEF KeepsBets
<1>10. BetsInTheirCompetition'
  <2>1. SUFFICES ASSUME NEW k \in Keys, bet'[k] # None
                 PROVE  bet'[k].competition = CompetitionOf[MarketOf[bet'[k].selection]]
    BY DEF BetsInTheirCompetition
  <2>2. bet[k] # None /\ bet'[k].competition = bet[k].competition
        /\ bet'[k].selection = bet[k].selection
    BY <1>3, <1>7, <1>8, <2>1
  <2>. QED
    BY <2>2 DEF LockDiscipline, BetsInTheirCompetition
<1>11. e \in LedgerTxn /\ e.type = "REFUND"
  <2>1. /\ bet[a.key].user \in Users /\ bet[a.key].stake \in Nat /\ m \in Markets
    BY <1>6, MoneyAssumption, ShapeAssumption DEF Bet
  <2>. QED
    BY <1>2, <2>1, EntryType DEF LedgerType
<1> HIDE DEF e
<1>12. /\ {e} \subseteq LedgerTxn /\ IsFiniteSet({e})
       /\ \A x \in {e} : x.type \notin {"DEBIT", "CREDIT"}
       /\ \A x \in {e} : x.type # "DEBIT"
  BY <1>11, FS_Singleton
<1>13. NoOverdraft'
  BY <1>4, <1>7, <1>12, IncomeKeepsNoOverdraft
<1>14. \A c, u : KeepsWallet(c, u)
  BY <1>4, <1>7, <1>12, IncomeKeepsWallets
<1>15. ASSUME NEW q \in Requests \ {r} PROVE Respects(q)
  <2>1. HoldsMarket(q) => KeepsMarket(TargetMarket(q))
    <3>1. SUFFICES ASSUME HoldsMarket(q) PROVE KeepsMarket(TargetMarket(q))
      OBVIOUS
    <3>2. TargetMarket(q) # MarketOf[bet[a.key].selection]
      BY <1>3, <3>1, MarketsApart
    <3> DEFINE t == TargetMarket(q)
    <3> HIDE DEF t
    <3>3. \A k \in Keys :
            (/\ bet'[k] # None /\ MarketOf[bet'[k].selection] = t
             /\ bet'[k].status = "PENDING") <=> k \in Pending(t)
      <4> TAKE k \in Keys
      <4>1. CASE k = a.key
        BY <1>8, <3>2, <4>1 DEF Pending, BetsOn, t
      <4>2. CASE k # a.key
        BY <1>7, <4>2 DEF Pending, BetsOn
      <4>. QED
        BY <4>1, <4>2
    <3>4. Pending(t) \subseteq Keys
      BY DEF Pending, BetsOn
    <3>5. KeepsMarket(t)
      BY <1>7, <3>3, <3>4 DEF KeepsMarket
    <3>. QED
      BY <3>5 DEF t
  <2>2. \A k \in Keys : bet[k] = None => bet'[k] = None
    BY <1>3, <1>7
  <2>. QED
    BY <1>9, <1>14, <2>1, <2>2 DEF Respects
<1>. QED
  BY <1>1, <1>5, <1>10, <1>13, <1>15, CommitStep

LEMMA CommitSettleKeeps ==
  ASSUME LockDiscipline, NEW r \in Requests, CommitSettle(r)
  PROVE  LockDiscipline'
<1> DEFINE a == call[r]
           won == {k \in Resolved(r) : bet[k].selection = a.selection}
           paid == Payouts(a.competition, a.market, won, r)
<1>1. /\ pc[r] = "commit" /\ a.op = "settle" /\ Finish(r, "ok")
      /\ WriteSettle(a.competition, a.market, a.selection, Resolved(r), r)
  BY DEF CommitSettle, At
<1>2. /\ a \in Calls /\ a.competition \in Competitions /\ a.market \in Markets
      /\ a.selection \in Selections
  BY <1>1, Facts, CallFields
<1>3. /\ Resolved(r) = Pending(a.market)
      /\ HoldsMarket(r) /\ TargetMarket(r) = a.market
  BY <1>1, Facts DEF Ready, SettleReady, HoldsMarket, TargetMarket, Handles, Ending
<1>4. TablesTypeOK /\ NoOverdraft
  BY DEF LockDiscipline, TypeOK
<1>5. /\ Resolved(r) \in SUBSET Keys
      /\ \A k \in Resolved(r) : bet[k] # None /\ MarketOf[bet[k].selection] = a.market
  BY <1>3 DEF Pending, BetsOn
<1>6. TablesTypeOK'
  BY <1>1, <1>2, <1>4, <1>5, WriteSettleType
<1>7. /\ \A k \in Keys \ Resolved(r) : bet'[k] = bet[k]
      /\ \A k \in Resolved(r) : \E v \in BetStatus : bet'[k] = [bet[k] EXCEPT !.status = v]
      /\ \A m \in Markets : m # a.market => status'[m] = status[m]
      /\ \A s \in Selections : MarketOf[s] # a.market => selection'[s] = selection[s]
      /\ member' = member /\ ledger' = ledger \cup paid
  BY <1>1, <1>4, <1>5 DEF WriteSettle, TablesTypeOK, BetStatus
<1>8. \A k \in Resolved(r) : bet[k] \in Bet
  BY <1>4, <1>5 DEF TablesTypeOK
<1>9. \A k \in Keys : bet[k] # None =>
        /\ bet'[k] # None /\ bet'[k].user = bet[k].user
        /\ bet'[k].competition = bet[k].competition
        /\ bet'[k].selection = bet[k].selection
  <2> TAKE k \in Keys
  <2>1. CASE k \in Resolved(r)
    <3>1. PICK v \in BetStatus : bet'[k] = [bet[k] EXCEPT !.status = v]
      BY <1>7, <2>1
    <3>2. bet[k] \in Bet
      BY <1>8, <2>1
    <3>3. [bet[k] EXCEPT !.status = v] \in Bet
      BY <3>2 DEF Bet
    <3>. QED
      BY <3>1, <3>2, <3>3, NoneAssumption DEF Bet
  <2>2. CASE k \notin Resolved(r)
    BY <1>7, <2>2
  <2>. QED
    BY <2>1, <2>2
<1>10. KeepsBets /\ \A k \in Keys : bet[k] = None => bet'[k] = None
  BY <1>5, <1>7, <1>9 DEF KeepsBets
<1>11. BetsInTheirCompetition'
  <2>1. SUFFICES ASSUME NEW k \in Keys, bet'[k] # None
                 PROVE  bet'[k].competition = CompetitionOf[MarketOf[bet'[k].selection]]
    BY DEF BetsInTheirCompetition
  <2>2. bet[k] # None
    BY <1>10, <2>1
  <2>. QED
    BY <1>9, <2>2 DEF LockDiscipline, BetsInTheirCompetition
<1>12. won \in SUBSET Keys /\ \A k \in won : bet[k] # None
  BY <1>5
<1> HIDE DEF won
<1>13. /\ paid \subseteq LedgerTxn /\ IsFiniteSet(paid)
       /\ \A e \in paid : e.type = "PAYOUT"
  BY <1>2, <1>4, <1>12, PayoutRows
<1>14. (\A e \in paid : e.type # "DEBIT") /\ \A e \in paid : e.type \notin {"DEBIT", "CREDIT"}
  BY <1>13
<1> HIDE DEF paid
<1>15. NoOverdraft'
  BY <1>4, <1>7, <1>13, <1>14, IncomeKeepsNoOverdraft
<1>16. \A c, u : KeepsWallet(c, u)
  BY <1>4, <1>7, <1>13, <1>14, IncomeKeepsWallets
<1>17. ASSUME NEW q \in Requests \ {r}, HoldsMarket(q) PROVE KeepsMarket(TargetMarket(q))
  <2>1. TargetMarket(q) # a.market /\ TargetMarket(q) \in Markets
    BY <1>3, <1>17, MarketsApart, TargetType DEF LockDiscipline, TypeOK
  <2> DEFINE t == TargetMarket(q)
  <2> HIDE DEF t
  <2>2. t # a.market /\ t \in Markets
    BY <2>1 DEF t
  <2>3. \A k \in Keys :
          (/\ bet'[k] # None /\ MarketOf[bet'[k].selection] = t
           /\ bet'[k].status = "PENDING") <=> k \in Pending(t)
    <3> TAKE k \in Keys
    <3>1. CASE k \in Resolved(r)
      BY <1>5, <1>9, <2>2, <3>1 DEF Pending, BetsOn
    <3>2. CASE k \notin Resolved(r)
      BY <1>7, <3>2 DEF Pending, BetsOn
    <3>. QED
      BY <3>1, <3>2
  <2>4. Pending(t) \subseteq Keys
    BY DEF Pending, BetsOn
  <2>5. KeepsMarket(t)
    BY <1>7, <2>2, <2>3, <2>4 DEF KeepsMarket
  <2>. QED
    BY <2>5 DEF t
<1>18. \A q \in Requests \ {r} : Respects(q)
  BY <1>10, <1>16, <1>17 DEF Respects
<1>. QED
  BY <1>1, <1>6, <1>11, <1>15, <1>18, CommitStep

LEMMA CommitJoinKeeps ==
  ASSUME LockDiscipline, NEW r \in Requests, CommitJoin(r)
  PROVE  LockDiscipline'
<1> DEFINE a == call[r]
           e == Entry(a.competition, a.user, "CREDIT", StartingChips[a.competition],
                      None, None, r)
<1>1. /\ pc[r] = "commit" /\ a.op = "join" /\ Finish(r, "ok")
      /\ WriteJoin(a.competition, a.user, owed[r], r)
  BY DEF CommitJoin, At
<1>2. /\ a \in Calls /\ a.competition \in Competitions /\ a.user \in Users
      /\ owed[r] \in BOOLEAN
  BY <1>1, Facts, CallFields DEF SessionTypeOK
<1>3. holder[WalletRow(a.competition, a.user)] = r
  BY <1>1, Facts DEF Ready, WalletHeld, Handles, Ending
<1>4. TablesTypeOK /\ NoOverdraft
  BY DEF LockDiscipline, TypeOK
<1>5. TablesTypeOK'
  BY <1>1, <1>2, <1>4, WriteJoinType
<1>6. /\ status' = status /\ selection' = selection /\ bet' = bet
      /\ member \subseteq member' /\ (ledger' = ledger \/ ledger' = ledger \cup {e})
  BY <1>1 DEF WriteJoin
<1>7. BetsInTheirCompetition'
  BY <1>6 DEF LockDiscipline, BetsInTheirCompetition
<1>8. /\ e \in LedgerTxn /\ e.type = "CREDIT"
      /\ e.competition = a.competition /\ e.user = a.user
  <2>1. \A c \in Competitions, u \in Users :
          LET x == Entry(c, u, "CREDIT", StartingChips[c], None, None, r) IN
          x \in LedgerTxn /\ x.type = "CREDIT" /\ x.competition = c /\ x.user = u
    <3> TAKE c \in Competitions, u \in Users
    <3>1. StartingChips[c] \in Nat
      BY MoneyAssumption
    <3>. QED
      BY <3>1 DEF Entry, LedgerTxn, LedgerType
  <2>. QED
    BY <1>2, <2>1
<1> HIDE DEF e
<1>9. NoOverdraft'
  <2>1. {e} \subseteq LedgerTxn /\ IsFiniteSet({e}) /\ \A x \in {e} : x.type # "DEBIT"
    BY <1>8, FS_Singleton
  <2>2. CASE ledger' = ledger
    BY <2>2, <1>4 DEF NoOverdraft, Balance, Account
  <2>3. CASE ledger' = ledger \cup {e}
    BY <1>4, <2>1, <2>3, IncomeKeepsNoOverdraft
  <2>. QED
    BY <1>6, <2>2, <2>3
<1>10. ASSUME NEW q \in Requests \ {r} PROVE Respects(q)
  <2>1. HoldsMarket(q) => KeepsMarket(TargetMarket(q))
    BY <1>6 DEF KeepsMarket, Pending, BetsOn
  <2>2. holder[WalletRow(call[q].competition, call[q].user)] = q =>
          KeepsWallet(call[q].competition, call[q].user)
    <3> DEFINE c == call[q].competition
               u == call[q].user
    <3>1. SUFFICES ASSUME holder[WalletRow(c, u)] = q PROVE KeepsWallet(c, u)
      OBVIOUS
    <3>2. ~(e.competition = c /\ e.user = u)
      BY <1>3, <1>8, <3>1
    <3> HIDE DEF c, u
    <3>3. CASE ledger' = ledger
      <4>1. Balance(c, u) \in Int
        BY <1>4, BalanceType
      <4>. QED
        BY <1>6, <3>3, <4>1 DEF KeepsWallet, Balance, Account, StartingCredits
    <3>4. CASE ledger' = ledger \cup {e}
      BY <1>4, <1>6, <3>2, <3>4, OtherAccountKeepsWallet
    <3>. QED
      BY <1>6, <3>3, <3>4
  <2>. QED
    BY <1>6, <2>1, <2>2 DEF Respects, KeepsBets
<1>. QED
  BY <1>1, <1>5, <1>7, <1>9, <1>10, CommitStep

-----------------------------------------------------------------------------
(* The invariant. *)

LEMMA InitLockDiscipline == Init => LockDiscipline
<1> SUFFICES ASSUME Init PROVE LockDiscipline
  OBVIOUS
<1>1. TablesTypeOK /\ NoOverdraft /\ BetsInTheirCompetition
  BY InitTablesTypeOK, InitNoOverdraft DEF Init, TablesInit, BetsInTheirCompetition
<1>2. SessionTypeOK
  BY DEF Init, SessionInit, SessionTypeOK, Statements, Replies
<1>3. ASSUME NEW r \in Requests PROVE Ready(r)
  <2>1. pc[r] = "idle" /\ \A l \in Locks : holder[l] = None
    BY DEF Init, SessionInit
  <2>2. \A k \in Keys : holder[BetRow(k)] # r
    BY <2>1, Rows, NoneAssumption
  <2>. QED
    BY <2>1, <2>2
    DEF Ready, Located, MarketHeld, HoldsMarket, WalletHeld, BetHeld, StakeReady,
        UndoReady, SettleReady, JoinReady, Handles, Ending
<1>. QED
  BY <1>1, <1>2, <1>3 DEF LockDiscipline, TypeOK

\* A step of placeBet or undoBet.
LEMMA BetsServiceKeeps ==
  ASSUME LockDiscipline, NEW r \in Requests, PlaceBet(r) \/ UndoBet(r)
  PROVE  LockDiscipline'
<1>1. CASE PlaceBet(r)
  BY <1>1, LookupKeyKeeps, LockOpenMarketKeeps, LockPlayerWalletKeeps,
     ReadSelectionKeeps, ReadBalanceKeeps, InsertBetKeeps, ReplayKeyKeeps,
     CommitPlaceKeeps DEF PlaceBet
<1>2. CASE UndoBet(r)
  BY <1>2, FindOwnBetKeeps, LockMarketOfBetKeeps, RereadBetKeeps, VoidBetKeeps,
     CommitUndoKeeps DEF UndoBet
<1>. QED
  BY <1>1, <1>2

LEMMA MarketsServiceKeeps ==
  ASSUME LockDiscipline, NEW r \in Requests, MarketStep(r)
  PROVE  LockDiscipline'
BY InsertMarketKeeps, FindMarketKeeps, ClaimMarketKeeps, CommitStatusKeeps,
   CheckWinnerKeeps, CollectBetsKeeps, ResolveBetKeeps, CommitSettleKeeps DEF MarketStep

LEMMA NextLockDiscipline ==
  ASSUME LockDiscipline, [Next]_vars
  PROVE  LockDiscipline'
<1>1. ASSUME NEW r \in Requests, NEW a \in Calls, Arrive(r, a) PROVE LockDiscipline'
  BY <1>1, ArriveKeeps
<1>2. ASSUME NEW r \in Requests, Step(r) PROVE LockDiscipline'
  <2>1. CASE PlaceBet(r) \/ UndoBet(r)
    BY <2>1, BetsServiceKeeps
  <2>2. CASE MarketStep(r)
    BY <2>2, MarketsServiceKeeps
  <2>3. CASE JoinCompetition(r)
    BY <2>3, UpsertMemberKeeps, ReadStartingCreditKeeps, CommitJoinKeeps
    DEF JoinCompetition
  <2>4. CASE TouchCompetition(r)
    BY <2>4, TouchCompetitionKeeps
  <2>. QED
    BY <1>2, <2>1, <2>2, <2>3, <2>4 DEF Step
<1>3. ASSUME NEW r \in Requests, Abort(r) PROVE LockDiscipline'
  BY <1>3, AbortKeeps
<1>4. CASE UNCHANGED vars
  <2>1. /\ UNCHANGED tables /\ pc' = pc /\ call' = call /\ reply' = reply
        /\ todo' = todo /\ owed' = owed /\ holder' = holder
    BY <1>4 DEF vars, session
  <2>2. TablesTypeOK' /\ BetsInTheirCompetition' /\ NoOverdraft'
    BY <2>1 DEF LockDiscipline, TypeOK, TablesTypeOK, BetsInTheirCompetition,
                NoOverdraft, Balance, Account, tables
  <2>3. SessionTypeOK'
    BY <2>1 DEF LockDiscipline, TypeOK, SessionTypeOK
  <2>4. ASSUME NEW q \in Requests PROVE Ready(q)'
    BY <2>1, Frame DEF LockDiscipline, TypeOK, Untouched
  <2>. QED
    BY <2>2, <2>3, <2>4 DEF LockDiscipline, TypeOK
<1>. QED
  BY <1>1, <1>2, <1>3, <1>4 DEF Next, Quiet

\* Whatever order the statements of any number of requests run in, and wherever a
\* transaction is rolled back, each request holds the locks that keep true what
\* it has read (placeBet, undoBet, the market handlers and joinCompetition).
THEOREM LocksAreKept == Spec => []LockDiscipline
<1>. QED
  BY InitLockDiscipline, NextLockDiscipline, PTL DEF Spec

\* The tables, the sessions and the locks stay well typed.
THEOREM TypesAreKept == Spec => []TypeOK
<1>1. LockDiscipline => TypeOK
  BY DEF LockDiscipline
<1>. QED
  BY <1>1, LocksAreKept, PTL

\* No balance goes below zero, for any number of members, markets and
\* simultaneous stakes (the check in placeBet reads a balance that nobody lowers
\* before the stake is committed).
THEOREM NobodyOverdraws == Spec => []NoOverdraft
<1>1. LockDiscipline => NoOverdraft
  BY DEF LockDiscipline
<1>. QED
  BY <1>1, LocksAreKept, PTL

-----------------------------------------------------------------------------
(* No request that was let in fails a check behind its locks. *)

\* The ways to leave reply without a conflict.
Fair(r) ==
  \/ reply' = reply
  \/ \E answer \in {"ok", "refused", "aborted"} : reply' = [reply EXCEPT ![r] = answer]

LEMMA PlaceIsFair ==
  ASSUME NEW r \in Requests, PlaceBet(r)
  PROVE  Fair(r)
BY DEF PlaceBet, LookupKey, LockOpenMarket, LockPlayerWallet, ReadSelection, ReadBalance,
       InsertBet, ReplayKey, CommitPlace, AnswerExisting, Refuse, Answer, Finish, Goto, Fair

LEMMA UndoIsFair ==
  ASSUME LockDiscipline, NEW r \in Requests, UndoBet(r)
  PROVE  Fair(r)
<1>1. CASE VoidBet(r)
  <2>1. pc[r] = "void" /\ call[r].op = "undo"
    BY <1>1, Facts, WhereIs DEF VoidBet, At
  <2>2. bet[call[r].key].status = "PENDING"
    BY <2>1, Facts DEF Ready, UndoReady, Handles
  <2>. QED
    BY <1>1, <2>2 DEF VoidBet, Goto, Fair
<1>2. CASE ~VoidBet(r)
  BY <1>2 DEF UndoBet, FindOwnBet, LockMarketOfBet, RereadBet, CommitUndo, Refuse, Answer,
              Finish, Goto, Fair
<1>. QED
  BY <1>1, <1>2

LEMMA MarketIsFair ==
  ASSUME LockDiscipline, NEW r \in Requests, MarketStep(r)
  PROVE  Fair(r)
<1>1. ASSUME NEW k \in Keys, ResolveBet(r, k) PROVE Fair(r)
  <2>1. pc[r] = "resolve" /\ call[r].op = "settle" /\ k \in todo[r]
    BY <1>1, Facts, WhereIs DEF ResolveBet, At
  <2>2. k \in Pending(call[r].market)
    BY <2>1, Facts DEF Ready, SettleReady, Handles
  <2>. QED
    BY <1>1, <2>2 DEF ResolveBet, Pending, Goto, Fair
<1>2. CASE ~\E k \in Keys : ResolveBet(r, k)
  BY <1>2 DEF MarketStep, InsertMarket, FindMarket, ClaimMarket, CommitStatus, CheckWinner,
              CollectBets, CommitSettle, Refuse, Answer, Finish, Goto, Fair
<1>. QED
  BY <1>1, <1>2

LEMMA NextNoLateConflict ==
  ASSUME LockDiscipline, NoLateConflict, [Next]_vars
  PROVE  NoLateConflict'
<1>1. ASSUME NEW r \in Requests, Fair(r) PROVE NoLateConflict'
  BY <1>1 DEF Fair, NoLateConflict, LockDiscipline, TypeOK, SessionTypeOK
<1>2. ASSUME NEW r \in Requests, Step(r) PROVE Fair(r)
  <2>1. CASE PlaceBet(r) \/ UndoBet(r) \/ MarketStep(r)
    BY <2>1, PlaceIsFair, UndoIsFair, MarketIsFair
  <2>2. CASE JoinCompetition(r) \/ TouchCompetition(r)
    BY <2>2 DEF JoinCompetition, UpsertMember, ReadStartingCredit, CommitJoin,
                TouchCompetition, Finish, Goto, Fair
  <2>. QED
    BY <1>2, <2>1, <2>2 DEF Step
<1>3. ASSUME NEW r \in Requests, Abort(r) PROVE Fair(r)
  BY <1>3 DEF Abort, Answer, Finish, Fair
<1>4. CASE reply' = reply
  BY <1>4 DEF NoLateConflict
<1>5. (\E r \in Requests, a \in Calls : Arrive(r, a)) \/ Quiet \/ UNCHANGED vars
        => reply' = reply
  BY DEF Arrive, Quiet, vars, session
<1>. QED
  BY <1>1, <1>2, <1>3, <1>4, <1>5 DEF Next

\* Nobody loses a race after having been let in: the errors that undoBet and
\* settleMarket throw when a locked bet turns out to have changed are never thrown.
THEOREM NobodyLosesLate == Spec => []NoLateConflict
<1>1. Init => NoLateConflict
  BY ReplyAssumption DEF Init, SessionInit, NoLateConflict
<1>. QED
  BY <1>1, NextNoLateConflict, LocksAreKept, PTL DEF Spec

-----------------------------------------------------------------------------
(* The interleaved transactions implement the atomic game. *)

AtomicStep == Atomic!Next \/ UNCHANGED Atomic!tables

LEMMA StutterMaps ==
  ASSUME UNCHANGED tables
  PROVE  AtomicStep
BY DEF AtomicStep, tables, Atomic!tables

\* The status of its market when a handler commits, and where the market is.
LEMMA AtCommit ==
  ASSUME LockDiscipline, NEW r \in Requests, pc[r] = "commit"
  PROVE  /\ call[r].op \in {"place", "undo", "close"} => status[TargetMarket(r)] = "OPEN"
         /\ call[r].op = "create" => status[TargetMarket(r)] = "ABSENT"
         /\ call[r].op = "open" => status[TargetMarket(r)] = "DRAFT"
         /\ call[r].op = "settle" => status[TargetMarket(r)] = "CLOSED"
         /\ call[r].op \in {"place", "undo", "create", "open", "close", "settle"} =>
              CompetitionOf[TargetMarket(r)] = call[r].competition
<1>1. call[r].op \in {"place", "undo", "create", "open", "close", "settle"} =>
        /\ status[TargetMarket(r)] = HeldStatus[call[r].op]
        /\ CompetitionOf[TargetMarket(r)] = call[r].competition
  BY DEF LockDiscipline, Ready, MarketHeld, HoldsMarket, Handles, Ending
<1>. QED
  BY <1>1 DEF HeldStatus

-----------------------------------------------------------------------------
(* The commits. *)

LEMMA CommitStatusMaps ==
  ASSUME LockDiscipline, NEW r \in Requests, CommitStatus(r)
  PROVE  AtomicStep
<1> DEFINE a == call[r]
<1>1. /\ pc[r] = "commit" /\ a.op \in {"create", "open", "close"}
      /\ WriteStatus(a.market, To[a.op])
  BY DEF CommitStatus, At
<1>2. a.market \in Markets
  BY <1>1, Facts, CallFields
<1>3. /\ a.op = "create" => status[a.market] = "ABSENT"
      /\ a.op = "open" => status[a.market] = "DRAFT"
      /\ a.op = "close" => status[a.market] = "OPEN"
  BY <1>1, AtCommit DEF TargetMarket
<1>4. \A to : WriteStatus(a.market, to) => Atomic!WriteStatus(a.market, to)
  BY DEF WriteStatus, Atomic!WriteStatus
<1>5. /\ a.op = "create" => WriteStatus(a.market, "DRAFT")
      /\ a.op = "open" => WriteStatus(a.market, "OPEN")
      /\ a.op = "close" => WriteStatus(a.market, "CLOSED")
  BY <1>1 DEF To
<1>6. Atomic!Create(a.market) \/ Atomic!Open(a.market) \/ Atomic!Close(a.market)
  BY <1>1, <1>3, <1>4, <1>5 DEF Atomic!Create, Atomic!Open, Atomic!Close
<1>. QED
  BY <1>2, <1>6 DEF AtomicStep, Atomic!Next

LEMMA CommitPlaceMaps ==
  ASSUME LockDiscipline, NEW r \in Requests, CommitPlace(r)
  PROVE  AtomicStep
<1> DEFINE a == call[r]
<1>1. /\ pc[r] = "commit" /\ a.op = "place"
      /\ WritePlace(a.competition, a.user, a.selection, a.stake, a.key, a.market, r)
  BY DEF CommitPlace, At
<1>2. a.user \in Users /\ a.selection \in Selections /\ a.stake \in Stakes /\ a.key \in Keys
  BY <1>1, Facts, CallFields
<1>3. /\ MarketOf[a.selection] = a.market /\ CompetitionOf[a.market] = a.competition
      /\ <<a.competition, a.user>> \in member /\ bet[a.key] = None
      /\ status[a.market] = "OPEN" /\ selection[a.selection] = "ACTIVE"
      /\ Balance(a.competition, a.user) >= a.stake
  BY <1>1, Facts, AtCommit DEF Ready, StakeReady, TargetMarket, Handles, Ending
<1>4. Atomic!Balance(a.competition, a.user) = Balance(a.competition, a.user)
  BY DEF Balance, Account, Net, Debits, Chips, Atomic!Balance, Atomic!Account, Atomic!Net,
         Atomic!Debits, Atomic!Chips, Cardinality, Atomic!Cardinality
<1>5. Atomic!WritePlace(a.competition, a.user, a.selection, a.stake, a.key, a.market, r)
  BY <1>1 DEF WritePlace, Entry, Atomic!WritePlace, Atomic!Entry
<1>6. Atomic!Place(a.user, a.selection, a.stake, a.key, r)
  BY <1>3, <1>4, <1>5 DEF Atomic!Place
<1>. QED
  BY <1>2, <1>6 DEF AtomicStep, Atomic!Next

LEMMA CommitUndoMaps ==
  ASSUME LockDiscipline, NEW r \in Requests, CommitUndo(r)
  PROVE  AtomicStep
<1> DEFINE a == call[r]
<1>1. pc[r] = "commit" /\ a.op = "undo" /\ WriteUndo(a.competition, a.key, r)
  BY DEF CommitUndo, At
<1>2. a.key \in Keys
  BY <1>1, Facts, CallFields
<1>3. /\ bet[a.key] # None /\ bet[a.key].competition = a.competition
      /\ bet[a.key].status = "PENDING"
      /\ status[MarketOf[bet[a.key].selection]] = "OPEN"
  BY <1>1, Facts, AtCommit DEF Ready, UndoReady, Mine, TargetMarket, Handles, Ending
<1>4. Atomic!WriteUndo(a.competition, a.key, r)
  BY <1>1 DEF WriteUndo, Entry, Atomic!WriteUndo, Atomic!Entry
<1>5. Atomic!Undo(a.key, r)
  BY <1>3, <1>4 DEF Atomic!Undo
<1>. QED
  BY <1>2, <1>5 DEF AtomicStep, Atomic!Next

LEMMA CommitSettleMaps ==
  ASSUME LockDiscipline, NEW r \in Requests, CommitSettle(r)
  PROVE  AtomicStep
<1> DEFINE a == call[r]
<1>1. /\ pc[r] = "commit" /\ a.op = "settle"
      /\ WriteSettle(a.competition, a.market, a.selection, Resolved(r), r)
  BY DEF CommitSettle, At
<1>2. a.selection \in Selections
  BY <1>1, Facts, CallFields
<1>3. /\ Resolved(r) = Pending(a.market) /\ MarketOf[a.selection] = a.market
      /\ status[a.market] = "CLOSED" /\ CompetitionOf[a.market] = a.competition
  <2>1. TargetMarket(r) = a.market
    BY <1>1 DEF TargetMarket
  <2>2. status[a.market] = "CLOSED" /\ CompetitionOf[a.market] = a.competition
    BY <1>1, <2>1, AtCommit
  <2>3. /\ MarketOf[a.selection] = a.market /\ todo[r] = {}
        /\ todo[r] \cup Resolved(r) = Pending(a.market)
    BY <1>1, Facts DEF Ready, SettleReady, Handles, Ending
  <2>. QED
    BY <2>2, <2>3
<1>4. Atomic!Pending(a.market) = Pending(a.market)
  BY DEF Pending, BetsOn, Atomic!Pending, Atomic!BetsOn
<1>5. Atomic!WriteSettle(a.competition, a.market, a.selection, Pending(a.market), r)
  BY <1>1, <1>3 DEF WriteSettle, Payouts, Entry, Atomic!WriteSettle, Atomic!Payouts,
                    Atomic!Entry
<1>6. Atomic!Settle(a.selection, r)
  BY <1>3, <1>4, <1>5 DEF Atomic!Settle
<1>. QED
  BY <1>2, <1>6 DEF AtomicStep, Atomic!Next

LEMMA CommitJoinMaps ==
  ASSUME LockDiscipline, NEW r \in Requests, CommitJoin(r)
  PROVE  AtomicStep
<1> DEFINE a == call[r]
<1>1. pc[r] = "commit" /\ a.op = "join" /\ WriteJoin(a.competition, a.user, owed[r], r)
  BY DEF CommitJoin, At
<1>2. a.competition \in Competitions /\ a.user \in Users
  BY <1>1, Facts, CallFields
<1>3. owed[r] = (StartingCredits(a.competition, a.user) = {})
  BY <1>1, Facts DEF Ready, JoinReady, Handles, Ending
<1>4. Atomic!StartingCredits(a.competition, a.user) = StartingCredits(a.competition, a.user)
  BY DEF StartingCredits, Account, Atomic!StartingCredits, Atomic!Account
<1>5. Atomic!WriteJoin(a.competition, a.user, owed[r], r)
  BY <1>1 DEF WriteJoin, Entry, Atomic!WriteJoin, Atomic!Entry
<1>6. Atomic!Join(a.competition, a.user, r)
  BY <1>3, <1>4, <1>5 DEF Atomic!Join
<1>. QED
  BY <1>2, <1>6 DEF AtomicStep, Atomic!Next

-----------------------------------------------------------------------------
(* Every step. *)

LEMMA BetsServiceMaps ==
  ASSUME LockDiscipline, NEW r \in Requests, PlaceBet(r) \/ UndoBet(r)
  PROVE  AtomicStep
<1>1. CASE CommitPlace(r) \/ CommitUndo(r)
  BY <1>1, CommitPlaceMaps, CommitUndoMaps
<1>2. CASE ~(CommitPlace(r) \/ CommitUndo(r))
  <2>1. UNCHANGED tables
    BY <1>2 DEF PlaceBet, LookupKey, LockOpenMarket, LockPlayerWallet, ReadSelection,
                ReadBalance, InsertBet, ReplayKey, AnswerExisting, UndoBet, FindOwnBet,
                LockMarketOfBet, RereadBet, VoidBet, Refuse, Answer
  <2>. QED
    BY <2>1, StutterMaps
<1>. QED
  BY <1>1, <1>2

LEMMA MarketsServiceMaps ==
  ASSUME LockDiscipline, NEW r \in Requests, MarketStep(r)
  PROVE  AtomicStep
<1>1. CASE CommitStatus(r) \/ CommitSettle(r)
  BY <1>1, CommitStatusMaps, CommitSettleMaps
<1>2. CASE ~(CommitStatus(r) \/ CommitSettle(r))
  <2>1. UNCHANGED tables
    BY <1>2 DEF MarketStep, InsertMarket, FindMarket, ClaimMarket, CheckWinner, CollectBets,
                ResolveBet, Refuse, Answer
  <2>. QED
    BY <2>1, StutterMaps
<1>. QED
  BY <1>1, <1>2

LEMMA NextMaps ==
  ASSUME LockDiscipline, [Next]_vars
  PROVE  AtomicStep
<1>1. ASSUME NEW r \in Requests, Step(r) PROVE AtomicStep
  <2>1. CASE PlaceBet(r) \/ UndoBet(r)
    BY <2>1, BetsServiceMaps
  <2>2. CASE MarketStep(r)
    BY <2>2, MarketsServiceMaps
  <2>3. CASE CommitJoin(r)
    BY <2>3, CommitJoinMaps
  <2>4. CASE UpsertMember(r) \/ ReadStartingCredit(r) \/ TouchCompetition(r)
    <3>1. UNCHANGED tables
      BY <2>4 DEF UpsertMember, ReadStartingCredit, TouchCompetition
    <3>. QED
      BY <3>1, StutterMaps
  <2>. QED
    BY <1>1, <2>1, <2>2, <2>3, <2>4 DEF Step, JoinCompetition
<1>2. CASE UNCHANGED tables
  BY <1>2, StutterMaps
<1>3. /\ \A r \in Requests, a \in Calls : Arrive(r, a) => UNCHANGED tables
      /\ \A r \in Requests : Abort(r) => UNCHANGED tables
      /\ Quiet \/ UNCHANGED vars => UNCHANGED tables
  BY DEF Arrive, Abort, Answer, Quiet, vars
<1>. QED
  BY <1>1, <1>2, <1>3 DEF Next

\* Every behaviour of the handlers, for any number of requests, is a behaviour of
\* the atomic game: a stake, an undo, a settlement or a join takes effect at its
\* commit, all at once, at a moment when the rules allow it.
THEOREM Implements == Spec => ImplementsWagering
<1>1. Init => Atomic!Init
  BY DEF Init, TablesInit, Entry, Atomic!Init, Atomic!TablesInit, Atomic!Entry
<1>2. LockDiscipline /\ [Next]_vars => [Atomic!Next]_(Atomic!tables)
  BY NextMaps DEF AtomicStep
<1>. QED
  BY <1>1, <1>2, LocksAreKept, PTL DEF Spec, ImplementsWagering, Atomic!Spec

-----------------------------------------------------------------------------
(* The books of the interleaved handlers. *)

LEMMA AtomicIsBookStep ==
  ASSUME AtomicStep
  PROVE  BookStep
<1>1. ASSUME NEW m \in Markets, Atomic!Create(m) \/ Atomic!Open(m) \/ Atomic!Close(m)
      PROVE  BookStep
  <2>1. \E to \in {"DRAFT", "OPEN", "CLOSED"} : Moves(m, to)
    BY <1>1 DEF Moves, WriteStatus, Atomic!Create, Atomic!Open, Atomic!Close,
                Atomic!WriteStatus
  <2>. QED
    BY <2>1 DEF BookStep
<1>2. ASSUME NEW s \in Selections, NEW r \in Requests, Atomic!Settle(s, r)
      PROVE  BookStep
  <2>1. Atomic!Pending(MarketOf[s]) = Pending(MarketOf[s])
    BY DEF Pending, BetsOn, Atomic!Pending, Atomic!BetsOn
  <2>2. Settles(s, r)
    BY <1>2, <2>1 DEF Settles, WriteSettle, Payouts, Entry, Atomic!Settle,
                      Atomic!WriteSettle, Atomic!Payouts, Atomic!Entry
  <2>. QED
    BY <2>2 DEF BookStep
<1>3. ASSUME NEW u \in Users, NEW s \in Selections, NEW stake \in Stakes, NEW k \in Keys,
             NEW r \in Requests, Atomic!Place(u, s, stake, k, r)
      PROVE  BookStep
  <2> DEFINE c == CompetitionOf[MarketOf[s]]
  <2>1. Atomic!Balance(c, u) = Balance(c, u)
    BY DEF Balance, Account, Net, Debits, Chips, Atomic!Balance, Atomic!Account, Atomic!Net,
           Atomic!Debits, Atomic!Chips, Cardinality, Atomic!Cardinality
  <2>2. Atomic!WritePlace(c, u, s, stake, k, MarketOf[s], r)
          => WritePlace(c, u, s, stake, k, MarketOf[s], r)
    BY DEF WritePlace, Entry, Atomic!WritePlace, Atomic!Entry
  <2>3. Wagers(u, s, stake, k, r)
    BY <1>3, <2>1, <2>2 DEF Wagers, Atomic!Place
  <2>. QED
    BY <2>3 DEF BookStep
<1>4. ASSUME NEW k \in Keys, NEW r \in Requests, Atomic!Undo(k, r)
      PROVE  BookStep
  <2>1. Undoes(k, r)
    BY <1>4 DEF Undoes, WriteUndo, Entry, Atomic!Undo, Atomic!WriteUndo, Atomic!Entry
  <2>. QED
    BY <2>1 DEF BookStep
<1>5. ASSUME NEW c \in Competitions, NEW u \in Users, NEW r \in Requests,
             Atomic!Join(c, u, r)
      PROVE  BookStep
  <2>1. Atomic!StartingCredits(c, u) = StartingCredits(c, u)
    BY DEF StartingCredits, Account, Atomic!StartingCredits, Atomic!Account
  <2>2. Joins(c, u, r)
    BY <1>5, <2>1 DEF Joins, WriteJoin, Entry, Atomic!Join, Atomic!WriteJoin, Atomic!Entry
  <2>. QED
    BY <2>2 DEF BookStep
<1>6. CASE UNCHANGED Atomic!tables
  BY <1>6 DEF BookStep, tables, Atomic!tables
<1>. QED
  BY <1>1, <1>2, <1>3, <1>4, <1>5, <1>6 DEF AtomicStep, Atomic!Next

\* A step of the handlers is one of the game, between well typed tables.
LEMMA StepOfTheBooks ==
  ASSUME LockDiscipline, [Next]_vars
  PROVE  TablesTypeOK /\ BookStep
BY NextMaps, AtomicIsBookStep DEF LockDiscipline, TypeOK

\* Types, balances, stakes, settlements, ledger and credits are in order after every
\* statement of every handler, and wherever a transaction is rolled back.
THEOREM BooksAreKept == Spec => []Books
<1>1. Init => Books
  BY InitBooks DEF Init
<1>2. LockDiscipline /\ Books /\ [Next]_vars => Books'
  BY StepOfTheBooks, StepKeepsBooks
<1>. QED
  BY <1>1, <1>2, LocksAreKept, PTL DEF Spec

\* Whatever ids the clients send and whoever they race with, every stake is a
\* member's, in the competition of its market, and on a market that was opened (placeBet).
THEOREM StakesAlwaysBelong == Spec => []StakesBelong
<1>1. Books => StakesBelong
  BY DEF Books
<1>. QED
  BY <1>1, BooksAreKept, PTL

\* A settlement resolves every stake of its market and no other, for any number of
\* bets and however late they were placed (settleMarket collects and resolves the
\* bets one by one, in the transaction that holds the market row).
THEOREM SettlementsAreComplete == Spec => []SettlementComplete
<1>1. Books => SettlementComplete
  BY DEF Books
<1>. QED
  BY <1>1, BooksAreKept, PTL

\* Every stake is debited once, and refunded or paid out once exactly when its bet
\* is undone or won, whatever is retried, raced or rolled back (placeBet, undoBet
\* and settleMarket).
THEOREM LedgerAlwaysMatches == Spec => []LedgerMatchesBets
<1>1. Books => LedgerMatchesBets
  BY DEF Books
<1>. QED
  BY <1>1, BooksAreKept, PTL

\* A member has one starting credit, of the chips the competition was created with,
\* however many joins of one player run at once (joinCompetition and onUserJoined).
THEOREM MembersAreCreditedOnce == Spec => []OneStartingCredit
<1>1. Books => OneStartingCredit
  BY DEF Books
<1>. QED
  BY <1>1, BooksAreKept, PTL

\* A settled market, its selections, its bets and its ledger rows are never touched
\* again, by any handler at any statement.
THEOREM SettlementsAreFinal == Spec => SettledIsFinal
<1>1. LockDiscipline /\ [Next]_vars =>
        [\A m \in Markets : status[m] = "SETTLED" =>
           /\ status'[m] = "SETTLED"
           /\ \A s \in Selections : MarketOf[s] = m => selection'[s] = selection[s]
           /\ BetsOn(m)' = BetsOn(m)
           /\ \A k \in BetsOn(m) : bet'[k] = bet[k]
           /\ {e \in ledger' : e.market = m} = {e \in ledger : e.market = m}]_tables
  BY StepOfTheBooks, SettledStays DEF Final, RowsOf
<1>. QED
  BY <1>1, LocksAreKept, PTL DEF Spec, SettledIsFinal

\* A bet keeps its player, its selection and its stake, and once it is undone, won
\* or lost neither it nor its money is touched again, whatever is retried or raced
\* (placeBet under a used key, undoBet, settleMarket).
THEOREM BetsStayFinal == Spec => BetsAreFinal
<1>1. LockDiscipline /\ [Next]_vars =>
        [\A k \in Keys : bet[k] # None =>
           /\ bet'[k] # None
           /\ bet'[k] = [bet[k] EXCEPT !.status = bet'[k].status]
           /\ bet[k].status # "PENDING" =>
                /\ bet'[k] = bet[k]
                /\ {e \in ledger' : e.bet = k} = {e \in ledger : e.bet = k}]_tables
  BY StepOfTheBooks, BetsLast DEF Lasting, RowsOfBet
<1>. QED
  BY <1>1, LocksAreKept, PTL DEF Spec, BetsAreFinal

-----------------------------------------------------------------------------
(* Refusals. *)

\* What a call still relies on when it is refused: its guard let it in, and a
\* key that was in use stays in use.
Entitled(r) ==
  /\ pc[r] # "idle" => Admitted(call[r])
  /\ pc[r] = "replay" => bet[call[r].key] # None

\* What a request is entitled to no step of the game takes away.
LEMMA EntitledStays ==
  ASSUME TablesTypeOK, BookStep, NEW q \in Requests, Located(q), Entitled(q),
         pc'[q] = pc[q], call'[q] = call[q]
  PROVE  Entitled(q)'
<1>1. member \subseteq member'
  BY MembersStay
<1>2. \A k \in Keys : bet[k] # None => bet'[k] # None
  BY BetsStay
<1>3. pc[q] = "replay" => call[q].key \in Keys
  BY WhereIs, CallFields
<1>. QED
  BY <1>1, <1>2, <1>3 DEF Entitled, Admitted

\* A step of a request that has arrived.
Follows(r) ==
  /\ pc[r] # "idle" /\ call' = call
  /\ \E s \in Statements : pc' = [pc EXCEPT ![r] = s] /\ (s = "replay" => bet[call[r].key] # None)
  /\ pc'[r] = "replay" => UNCHANGED tables

LEMMA StepFollows ==
  ASSUME NEW r \in Requests, pc \in [Requests -> Statements], Step(r)
  PROVE  Follows(r)
<1> USE DEF At, Goto, Refuse, Answer, Finish, Follows, Statements, InTransaction
<1>1. CASE PlaceBet(r)
  <2>1. CASE LookupKey(r) \/ LockOpenMarket(r) \/ LockPlayerWallet(r) \/ ReadSelection(r)
    BY <2>1 DEF LookupKey, LockOpenMarket, LockPlayerWallet, ReadSelection, AnswerExisting
  <2>2. CASE ReadBalance(r) \/ InsertBet(r) \/ ReplayKey(r) \/ CommitPlace(r)
    BY <2>2 DEF ReadBalance, InsertBet, ReplayKey, CommitPlace, AnswerExisting
  <2>. QED
    BY <1>1, <2>1, <2>2 DEF PlaceBet
<1>2. CASE UndoBet(r)
  BY <1>2 DEF UndoBet, FindOwnBet, LockMarketOfBet, RereadBet, VoidBet, CommitUndo
<1>3. CASE MarketStep(r)
  <2>1. CASE InsertMarket(r) \/ FindMarket(r) \/ ClaimMarket(r) \/ CommitStatus(r)
    BY <2>1 DEF InsertMarket, FindMarket, ClaimMarket, CommitStatus
  <2>2. CASE CheckWinner(r) \/ CollectBets(r) \/ CommitSettle(r) \/ \E k \in Keys : ResolveBet(r, k)
    BY <2>2 DEF CheckWinner, CollectBets, CommitSettle, ResolveBet
  <2>. QED
    BY <1>3, <2>1, <2>2 DEF MarketStep
<1>4. CASE JoinCompetition(r) \/ TouchCompetition(r)
  BY <1>4 DEF JoinCompetition, UpsertMember, ReadStartingCredit, CommitJoin, TouchCompetition
<1>. QED
  BY <1>1, <1>2, <1>3, <1>4 DEF Step

LEMMA NextEntitled ==
  ASSUME LockDiscipline, \A r \in Requests : Entitled(r), [Next]_vars
  PROVE  \A r \in Requests : Entitled(r)'
<1>1. /\ TablesTypeOK /\ BookStep
      /\ pc \in [Requests -> Statements] /\ call \in [Requests -> Calls \cup {None}]
      /\ \A r \in Requests : Located(r)
  BY StepOfTheBooks DEF LockDiscipline, TypeOK, SessionTypeOK, Ready
<1>2. ASSUME NEW q \in Requests, pc'[q] = pc[q], call'[q] = call[q]
      PROVE  Entitled(q)'
  BY <1>1, <1>2, EntitledStays
<1>3. ASSUME NEW r \in Requests, Follows(r)
      PROVE  \A q \in Requests : Entitled(q)'
  <2>1. Entitled(r)'
    <3>1. Admitted(call[r]) => Admitted(call[r])'
      <4>1. member \subseteq member'
        BY <1>1, MembersStay
      <4>. QED
        BY <1>3, <4>1 DEF Admitted, Follows
    <3>2. pc'[r] = "replay" => bet'[call[r].key] # None
      BY <1>1, <1>3 DEF Follows, tables
    <3>. QED
      BY <1>3, <3>1, <3>2 DEF Entitled, Follows
  <2>2. ASSUME NEW q \in Requests \ {r} PROVE Entitled(q)'
    BY <1>1, <1>2, <1>3, <2>2 DEF Follows
  <2>. QED
    BY <2>1, <2>2
<1>4. ASSUME NEW r \in Requests, Step(r) PROVE \A q \in Requests : Entitled(q)'
  BY <1>1, <1>3, <1>4, StepFollows
<1>5. ASSUME NEW r \in Requests, Abort(r) PROVE \A q \in Requests : Entitled(q)'
  <2>1. Follows(r)
    BY <1>1, <1>5 DEF Abort, InTransaction, Statements, Answer, Finish, Follows
  <2>. QED
    BY <1>3, <2>1
<1>6. ASSUME NEW r \in Requests, NEW a \in Calls, Arrive(r, a)
      PROVE  \A q \in Requests : Entitled(q)'
  <2>1. Entitled(r)'
    <3>1. /\ call'[r] = a /\ pc'[r] = FirstStatement[a.op] /\ Admitted(a) /\ UNCHANGED tables
      BY <1>1, <1>6 DEF Arrive
    <3>2. FirstStatement[a.op] # "replay"
      BY CallFields DEF FirstStatement, Ops
    <3>. QED
      BY <3>1, <3>2 DEF Entitled, Admitted, tables
  <2>2. ASSUME NEW q \in Requests \ {r} PROVE Entitled(q)'
    BY <1>1, <1>2, <1>6, <2>2 DEF Arrive
  <2>. QED
    BY <2>1, <2>2
<1>7. CASE Quiet \/ UNCHANGED vars
  BY <1>2, <1>7 DEF Quiet, vars, session
<1>. QED
  BY <1>4, <1>5, <1>6, <1>7 DEF Next

-----------------------------------------------------------------------------
(* A refusal comes from a statement whose check fails on the committed rows. *)

Refused(r) == reply[r] = None /\ reply'[r] = "refused"

LEMMA PlaceRefused ==
  ASSUME LockDiscipline, Books, NEW r \in Requests, Entitled(r), PlaceBet(r), Refused(r)
  PROVE  ~Allowed(call[r])
<1> DEFINE a == call[r]
<1> USE ReplyAssumption DEF At, Goto, Refused, Refuse, Answer, Finish
<1>1. pc[r] \in {"lookup", "stake", "wallet", "odds", "balance", "bet", "replay"} =>
        /\ a.op = "place" /\ a \in Calls /\ a.competition \in Competitions /\ a.key \in Keys
        /\ a.market \in Markets /\ a.selection \in Selections /\ a.stake \in Int
  <2>1. \A x \in Stakes : x \in Int
    BY MoneyAssumption
  <2>. QED
    BY <2>1, WhereIs, CallFields DEF LockDiscipline, Ready
<1>2. reply \in [Requests -> Replies]
  BY DEF LockDiscipline, TypeOK, SessionTypeOK
<1>3. CASE LookupKey(r)
  BY <1>1, <1>2, <1>3 DEF LookupKey, AnswerExisting, Allowed
<1>4. CASE LockOpenMarket(r)
  BY <1>1, <1>4 DEF LockOpenMarket, Allowed
<1>5. CASE LockPlayerWallet(r)
  BY <1>1, <1>5 DEF LockPlayerWallet, Entitled, Admitted
<1>6. CASE ReadSelection(r)
  <2>1. status[a.market] = "OPEN" /\ MarketOf[a.selection] = a.market
          => selection[a.selection] = "ACTIVE"
    BY <1>1, <1>6 DEF ReadSelection, Books, SettlementComplete
  <2>. QED
    BY <1>1, <1>6, <2>1 DEF ReadSelection, Allowed
<1>7. CASE ReadBalance(r)
  <2>1. Balance(a.competition, a.user) \in Int
    BY BalanceType DEF Books
  <2>2. Balance(a.competition, a.user) < a.stake
    BY <1>7 DEF ReadBalance
  <2>3. ~(Balance(a.competition, a.user) >= a.stake)
    BY <1>1, <1>7, <2>1, <2>2 DEF ReadBalance
  <2>. QED
    BY <1>1, <1>7, <2>3 DEF ReadBalance, Allowed
<1>8. CASE InsertBet(r)
  BY <1>8 DEF InsertBet
<1>9. CASE ReplayKey(r)
  BY <1>1, <1>9 DEF ReplayKey, Entitled, Allowed
<1>10. CASE CommitPlace(r)
  BY <1>2, <1>10 DEF CommitPlace
<1>. QED
  BY <1>3, <1>4, <1>5, <1>6, <1>7, <1>8, <1>9, <1>10 DEF PlaceBet

LEMMA UndoRefused ==
  ASSUME LockDiscipline, Books, NEW r \in Requests, UndoBet(r), Refused(r)
  PROVE  ~Allowed(call[r])
<1> DEFINE a == call[r]
<1> USE ReplyAssumption DEF At, Goto, Refused, Refuse, Answer, Finish
<1>1. pc[r] \in {"own", "reopen", "reread", "void"} =>
        a.op = "undo" /\ a \in Calls /\ a.key \in Keys
  BY WhereIs, CallFields DEF LockDiscipline, Ready
<1>2. reply \in [Requests -> Replies]
  BY DEF LockDiscipline, TypeOK, SessionTypeOK
<1>3. CASE FindOwnBet(r)
  BY <1>1, <1>3 DEF FindOwnBet, Allowed
<1>4. CASE LockMarketOfBet(r)
  <2>1. bet[a.key] # None /\ bet[a.key].competition = a.competition
    BY <1>1, <1>4 DEF LockMarketOfBet, LockDiscipline, Ready, UndoReady, Handles, Mine
  <2>2. CompetitionOf[MarketOf[bet[a.key].selection]] = a.competition
    BY <1>1, <1>4, <2>1 DEF LockMarketOfBet, LockDiscipline, BetsInTheirCompetition
  <2>. QED
    BY <1>1, <1>4, <2>2 DEF LockMarketOfBet, Allowed
<1>5. CASE RereadBet(r)
  BY <1>1, <1>5 DEF RereadBet, Allowed
<1>6. CASE VoidBet(r)
  BY <1>2, <1>6 DEF VoidBet
<1>7. CASE CommitUndo(r)
  BY <1>2, <1>7 DEF CommitUndo
<1>. QED
  BY <1>3, <1>4, <1>5, <1>6, <1>7 DEF UndoBet

LEMMA MarketRefused ==
  ASSUME LockDiscipline, NEW r \in Requests, MarketStep(r), Refused(r)
  PROVE  ~Allowed(call[r])
<1> DEFINE a == call[r]
<1> USE ReplyAssumption DEF At, Goto, Refused, Refuse, Answer, Finish
<1>1. /\ pc[r] = "insert" => a.op = "create"
      /\ pc[r] \in {"find", "claim"} => a.op \in {"open", "close", "settle"}
      /\ pc[r] = "winner" => a.op = "settle"
  BY WhereIs DEF LockDiscipline, Ready
<1>2. reply \in [Requests -> Replies]
  BY DEF LockDiscipline, TypeOK, SessionTypeOK
<1>3. CASE InsertMarket(r)
  BY <1>1, <1>3 DEF InsertMarket, Allowed
<1>4. CASE FindMarket(r)
  BY <1>1, <1>4 DEF FindMarket, Allowed
<1>5. CASE ClaimMarket(r)
  <2>1. ~(CompetitionOf[a.market] = a.competition /\ status[a.market] = From[a.op])
    BY <1>5 DEF ClaimMarket
  <2>2. a.op \in {"open", "close", "settle"}
    BY <1>1, <1>5 DEF ClaimMarket
  <2>3. /\ a.op = "open" => From[a.op] = "DRAFT"
        /\ a.op = "close" => From[a.op] = "OPEN"
        /\ a.op = "settle" => From[a.op] = "CLOSED"
    BY DEF From
  <2>. QED
    BY <2>1, <2>2, <2>3 DEF Allowed
<1>6. CASE CheckWinner(r)
  BY <1>1, <1>6 DEF CheckWinner, Allowed
<1>7. CASE CollectBets(r) \/ \E k \in Keys : ResolveBet(r, k)
  BY <1>2, <1>7 DEF CollectBets, ResolveBet
<1>8. CASE CommitStatus(r) \/ CommitSettle(r)
  BY <1>2, <1>8 DEF CommitStatus, CommitSettle
<1>. QED
  BY <1>3, <1>4, <1>5, <1>6, <1>7, <1>8 DEF MarketStep

\* What happens to the answers of the requests that do not move.
LEMMA OthersKeepTheirAnswers ==
  ASSUME NEW r \in Requests, NEW q \in Requests, q # r,
         reply \in [Requests -> Replies], Step(r) \/ Abort(r)
  PROVE  reply'[q] = reply[q]
<1> USE DEF Goto, Refuse, Answer, Finish
<1>1. CASE PlaceBet(r)
  BY <1>1 DEF PlaceBet, LookupKey, LockOpenMarket, LockPlayerWallet, ReadSelection, ReadBalance,
              InsertBet, ReplayKey, CommitPlace, AnswerExisting
<1>2. CASE UndoBet(r)
  BY <1>2 DEF UndoBet, FindOwnBet, LockMarketOfBet, RereadBet, VoidBet, CommitUndo
<1>3. CASE MarketStep(r)
  BY <1>3 DEF MarketStep, InsertMarket, FindMarket, ClaimMarket, CommitStatus, CheckWinner,
              CollectBets, ResolveBet, CommitSettle
<1>4. CASE JoinCompetition(r) \/ TouchCompetition(r) \/ Abort(r)
  BY <1>4 DEF JoinCompetition, UpsertMember, ReadStartingCredit, CommitJoin, TouchCompetition,
              Abort
<1>. QED
  BY <1>1, <1>2, <1>3, <1>4 DEF Step

LEMMA NextRefusesJustly ==
  ASSUME LockDiscipline, Books, \A r \in Requests : Entitled(r), [Next]_vars,
         NEW q \in Requests, Refused(q)
  PROVE  ~Allowed(call[q])
<1>1. reply \in [Requests -> Replies]
  BY DEF LockDiscipline, TypeOK, SessionTypeOK
<1>2. ASSUME NEW r \in Requests, Step(r) \/ Abort(r) PROVE ~Allowed(call[q])
  <2>1. r = q
    BY <1>1, <1>2, OthersKeepTheirAnswers, ReplyAssumption DEF Refused
  <2>2. ~Abort(q)
    BY <1>1 DEF Abort, Answer, Finish, Refused
  <2>3. ~(JoinCompetition(q) \/ TouchCompetition(q))
    BY <1>1, ReplyAssumption DEF JoinCompetition, UpsertMember, ReadStartingCredit, CommitJoin,
       TouchCompetition, Finish, Goto, Refused
  <2>. QED
    BY <1>2, <2>1, <2>2, <2>3, PlaceRefused, UndoRefused, MarketRefused DEF Step
<1>3. reply' # reply
  BY ReplyAssumption DEF Refused
<1>. QED
  BY <1>2, <1>3 DEF Next, Arrive, Quiet, vars, session

\* A call is refused only for what the committed rows say at that moment, however
\* many calls run at once: a member's stake never fails for a membership, a key, a
\* selection or a balance that another transaction was only about to change (every
\* throw of placeBet, undoBet and the market handlers).
THEOREM RefusalsAreJust == Spec => RefusalsJustified
<1>1. Init => \A r \in Requests : Entitled(r)
  BY DEF Init, SessionInit, Entitled
<1>2. (\A r \in Requests : Entitled(r)) /\ LockDiscipline /\ [Next]_vars
        => (\A r \in Requests : Entitled(r))'
  BY NextEntitled
<1>3. LockDiscipline /\ Books /\ (\A r \in Requests : Entitled(r)) /\ [Next]_vars
        => [\A r \in Requests :
              reply[r] = None /\ reply'[r] = "refused" => ~Allowed(call[r])]_vars
  BY NextRefusesJustly DEF Refused
<1>. QED
  BY <1>1, <1>2, <1>3, LocksAreKept, BooksAreKept, PTL DEF Spec, RefusalsJustified

-----------------------------------------------------------------------------
(* Answers. *)

\* A request that was answered is over, and what it was told is so.
AnswersKept == \A r \in Requests : reply[r] = "ok" => pc[r] = "done" /\ Truthful(r)

\* The ways a step of request r answers: not at all, otherwise than "ok", or with
\* "ok" when what it tells is true.
Replying(r) ==
  /\ pc[r] # "done" /\ call' = call
  /\ \/ reply' = reply
     \/ /\ pc' = [pc EXCEPT ![r] = "done"]
        /\ \E answer \in Replies :
             reply' = [reply EXCEPT ![r] = answer] /\ (answer = "ok" => Truthful(r)')

LEMMA PlaceReplies ==
  ASSUME LockDiscipline, NEW r \in Requests, PlaceBet(r)
  PROVE  Replying(r)
<1>1. CASE LookupKey(r) \/ ReplayKey(r)
  <2>1. pc[r] \in {"lookup", "replay"}
    BY <1>1 DEF LookupKey, ReplayKey, At
  <2>2. call[r].op = "place"
    BY <2>1, Facts, WhereIs
  <2>3. CASE Goto(r, "stake") \/ Refuse(r)
    BY <2>1, <2>3 DEF Goto, Refuse, Answer, Finish, Replying, Replies
  <2>4. CASE bet[call[r].key] # None /\ Mine(call[r].key, call[r]) /\ Answer(r, "ok")
    <3>1. Truthful(r)'
      BY <2>2, <2>4 DEF Truthful, Mine, Answer, Finish, tables
    <3>. QED
      BY <2>1, <2>4, <3>1 DEF Answer, Finish, Replying, Replies
  <2>. QED
    BY <1>1, <2>3, <2>4 DEF LookupKey, ReplayKey, AnswerExisting
<1>2. CASE CommitPlace(r)
  <2> DEFINE a == call[r]
  <2>1. pc[r] = "commit" /\ a.op = "place" /\ Finish(r, "ok")
        /\ WritePlace(a.competition, a.user, a.selection, a.stake, a.key, a.market, r)
    BY <1>2 DEF CommitPlace, At
  <2>2. /\ bet \in [Keys -> Bet \cup {None}] /\ None \notin Bet
        /\ a.competition \in Competitions /\ a.user \in Users /\ a.key \in Keys
        /\ a.selection \in Selections /\ a.stake \in Stakes
    BY <2>1, Facts, CallFields, NoneAssumption DEF TablesTypeOK
  <2>3. a.stake \in Nat /\ Return[a.selection][a.stake] \in Nat
    BY <2>2, MoneyAssumption
  <2> DEFINE row == [competition |-> a.competition, user |-> a.user, selection |-> a.selection,
                     stake |-> a.stake, return |-> Return[a.selection][a.stake],
                     status |-> "PENDING"]
  <2>4. bet'[a.key] = row
    BY <2>1, <2>2 DEF WritePlace
  <2>5. row \in Bet /\ row.user = a.user /\ row.competition = a.competition
    BY <2>2, <2>3 DEF Bet, BetStatus
  <2> HIDE DEF row
  <2>6. Truthful(r)'
    BY <2>1, <2>2, <2>4, <2>5 DEF Truthful, Mine, Finish
  <2>. QED
    BY <2>1, <2>6 DEF Finish, Replying, Replies
<1>3. CASE LockOpenMarket(r) \/ LockPlayerWallet(r) \/ ReadSelection(r) \/ ReadBalance(r)
           \/ InsertBet(r)
  BY <1>3 DEF LockOpenMarket, LockPlayerWallet, ReadSelection, ReadBalance, InsertBet, At,
              Goto, Refuse, Answer, Finish, Replying, Replies
<1>. QED
  BY <1>1, <1>2, <1>3 DEF PlaceBet

LEMMA UndoReplies ==
  ASSUME LockDiscipline, NEW r \in Requests, UndoBet(r)
  PROVE  Replying(r)
<1>1. CASE CommitUndo(r)
  <2> DEFINE a == call[r]
  <2>1. pc[r] = "commit" /\ a.op = "undo" /\ Finish(r, "ok") /\ WriteUndo(a.competition, a.key, r)
    BY <1>1 DEF CommitUndo, At
  <2>2. /\ a.key \in Keys /\ bet[a.key] # None /\ Mine(a.key, a) /\ TablesTypeOK
    BY <2>1, Facts, CallFields DEF Ready, UndoReady, Handles, Ending
  <2>3. /\ bet[a.key] \in Bet /\ None \notin Bet
        /\ bet'[a.key] = [bet[a.key] EXCEPT !.status = "VOID"]
    BY <2>1, <2>2, NoneAssumption DEF WriteUndo, TablesTypeOK
  <2>4. /\ bet'[a.key].user = bet[a.key].user
        /\ bet'[a.key].competition = bet[a.key].competition
        /\ bet'[a.key].status = "VOID" /\ bet'[a.key] # None
    BY <2>3 DEF Bet, BetStatus
  <2>5. Truthful(r)'
    BY <2>1, <2>2, <2>4 DEF Truthful, Mine, Finish
  <2>. QED
    BY <2>1, <2>5 DEF Finish, Replying, Replies
<1>2. CASE FindOwnBet(r) \/ LockMarketOfBet(r) \/ RereadBet(r) \/ VoidBet(r)
  BY <1>2 DEF FindOwnBet, LockMarketOfBet, RereadBet, VoidBet, At, Goto, Refuse, Answer,
              Finish, Replying, Replies
<1>. QED
  BY <1>1, <1>2 DEF UndoBet

\* The other handlers tell nothing of a bet.
LEMMA OthersReply ==
  ASSUME LockDiscipline, NEW r \in Requests,
         MarketStep(r) \/ JoinCompetition(r) \/ TouchCompetition(r) \/ Abort(r)
  PROVE  Replying(r)
<1>1. CASE TouchCompetition(r) \/ Abort(r)
  BY <1>1 DEF TouchCompetition, Abort, InTransaction, At, Goto, Answer, Finish, Replying, Replies
<1>2. ASSUME call[r].op \notin {"place", "undo"}, call' = call PROVE Truthful(r)'
  BY <1>2 DEF Truthful
<1>3. CASE MarketStep(r)
  <2>1. pc[r] \notin {"idle", "done"} /\ call' = call
    BY <1>3 DEF MarketStep, InsertMarket, FindMarket, ClaimMarket, CommitStatus, CheckWinner,
                CollectBets, ResolveBet, CommitSettle, At, Goto, Refuse, Answer, Finish
  <2>2. call[r].op \notin {"place", "undo"}
    BY <1>3, <2>1, Facts, WhereIs
    DEF MarketStep, InsertMarket, FindMarket, ClaimMarket, CommitStatus, CheckWinner,
        CollectBets, ResolveBet, CommitSettle, At
  <2>3. Truthful(r)'
    BY <1>2, <2>1, <2>2
  <2>. QED
    BY <1>3, <2>1, <2>3
    DEF MarketStep, InsertMarket, FindMarket, ClaimMarket, CommitStatus, CheckWinner,
        CollectBets, ResolveBet, CommitSettle, At, Goto, Refuse, Answer, Finish, Replying, Replies
<1>4. CASE JoinCompetition(r)
  <2>1. pc[r] \notin {"idle", "done"} /\ call' = call
    BY <1>4 DEF JoinCompetition, UpsertMember, ReadStartingCredit, CommitJoin, At, Goto, Finish
  <2>2. call[r].op \notin {"place", "undo"}
    BY <1>4, <2>1, Facts, WhereIs
    DEF JoinCompetition, UpsertMember, ReadStartingCredit, CommitJoin, At
  <2>3. Truthful(r)'
    BY <1>2, <2>1, <2>2
  <2>. QED
    BY <1>4, <2>1, <2>3
    DEF JoinCompetition, UpsertMember, ReadStartingCredit, CommitJoin, At, Goto, Finish,
        Replying, Replies
<1>. QED
  BY <1>1, <1>3, <1>4

\* What was told stays so: a bet keeps its player, and a void bet is final.
LEMMA TruthfulStays ==
  ASSUME TablesTypeOK, BookStep, NEW q \in Requests, call[q] \in Calls, Truthful(q),
         call'[q] = call[q]
  PROVE  Truthful(q)'
<1> DEFINE a == call[q]
<1>1. CASE a.op \in {"place", "undo"}
  <2>1. a.key \in Keys /\ bet[a.key] # None
    BY <1>1, CallFields DEF Truthful
  <2>2. /\ bet'[a.key] # None /\ bet'[a.key].user = bet[a.key].user
        /\ bet'[a.key].competition = bet[a.key].competition
    BY <2>1, BetsStay
  <2>3. bet[a.key].status = "VOID" => bet'[a.key] = bet[a.key]
    BY <2>1, BetsLast DEF Lasting
  <2>. QED
    BY <1>1, <2>2, <2>3 DEF Truthful, Mine
<1>2. CASE a.op \notin {"place", "undo"}
  BY <1>2 DEF Truthful
<1>. QED
  BY <1>1, <1>2

LEMMA NextAnswersKept ==
  ASSUME LockDiscipline, AnswersKept, [Next]_vars
  PROVE  AnswersKept'
<1>1. /\ TablesTypeOK /\ BookStep /\ pc \in [Requests -> Statements]
      /\ reply \in [Requests -> Replies] /\ call \in [Requests -> Calls \cup {None}]
      /\ \A r \in Requests : pc[r] = "done" => call[r] \in Calls
  BY StepOfTheBooks DEF LockDiscipline, TypeOK, SessionTypeOK, Ready, Located
<1>2. ASSUME NEW q \in Requests, reply'[q] = "ok" => reply[q] = "ok",
             pc[q] = "done" => pc'[q] = "done" /\ call'[q] = call[q]
      PROVE  reply'[q] = "ok" => pc'[q] = "done" /\ Truthful(q)'
  BY <1>1, <1>2, TruthfulStays DEF AnswersKept
<1>3. ASSUME NEW r \in Requests, Step(r) \/ Abort(r) PROVE AnswersKept'
  <2>1. Replying(r)
    BY <1>3, PlaceReplies, UndoReplies, OthersReply DEF Step
  <2>2. \A q \in Requests \ {r} : pc'[q] = pc[q] /\ reply'[q] = reply[q]
    <3>1. \E to : pc' = [pc EXCEPT ![r] = to]
      BY <1>1, <1>3, StepFollows DEF Follows, Abort, Answer, Finish
    <3>. QED
      BY <1>1, <1>3, <3>1, OthersKeepTheirAnswers
  <2>3. reply'[r] = "ok" => pc'[r] = "done" /\ Truthful(r)'
    <3>1. CASE reply' = reply
      BY <1>2, <2>1, <3>1 DEF Replying
    <3>2. CASE reply' # reply
      BY <1>1, <2>1, <3>2 DEF Replying
    <3>. QED
      BY <3>1, <3>2
  <2>4. ASSUME NEW q \in Requests \ {r}
        PROVE  reply'[q] = "ok" => pc'[q] = "done" /\ Truthful(q)'
    BY <1>2, <2>1, <2>2, <2>4 DEF Replying
  <2>. QED
    BY <2>3, <2>4 DEF AnswersKept
<1>4. ASSUME NEW r \in Requests, NEW a \in Calls, Arrive(r, a) PROVE AnswersKept'
  <2>1. \A q \in Requests :
          /\ reply'[q] = reply[q]
          /\ pc[q] = "done" => pc'[q] = "done" /\ call'[q] = call[q]
    BY <1>1, <1>4 DEF Arrive, At
  <2>. QED
    BY <1>2, <2>1 DEF AnswersKept
<1>5. CASE Quiet \/ UNCHANGED vars
  BY <1>2, <1>5 DEF Quiet, vars, session, AnswersKept
<1>. QED
  BY <1>3, <1>4, <1>5 DEF Next

\* For any number of players, competitions and keys: whoever is answered "ok" was
\* answered with a bet of their own, in the competition they named, and a bet
\* whose undo was confirmed stays void (getExistingBetResult on both its calls,
\* placeBet and undoBet).
THEOREM AnswersAreKept == Spec => []AnswersHold
<1>1. Init => AnswersKept
  BY ReplyAssumption DEF Init, SessionInit, AnswersKept
<1>2. LockDiscipline /\ AnswersKept /\ [Next]_vars => AnswersKept'
  BY NextAnswersKept
<1>3. AnswersKept => AnswersHold
  BY DEF AnswersKept, AnswersHold
<1>. QED
  BY <1>1, <1>2, <1>3, LocksAreKept, PTL DEF Spec

-----------------------------------------------------------------------------
(* Waiting.  A request moves towards its commit, and the rows it holds are *)
(* behind it.                                                              *)

\* No row that had to be held before the first statement is still to come
\* after the second.
Advances(from, to) == \A kind \in DOMAIN PastLock : from \in PastLock[kind] => to \in PastLock[kind]

\* What a statement does to the locks of its request.
MovesOn(r) ==
  \/ \A l \in Locks : holder'[l] # r
  \/ /\ Advances(pc[r], pc'[r])
     /\ \/ holder' = holder
        \/ \E row \in Locks : Lock(r, row) /\ pc'[r] \in PastLock[row[1]]

LEMMA MovesByRead ==
  ASSUME SessionTypeOK, NEW r \in Requests, NEW s \in Statements, Goto(r, s),
         holder' = holder, Advances(pc[r], s),
         owed' \in [Requests -> BOOLEAN], todo' \in [Requests -> SUBSET Keys],
         \A q \in Requests \ {r} : todo'[q] = todo[q] /\ owed'[q] = owed[q]
  PROVE  MovesOn(r) /\ OthersUntouched(r)
BY ReadingStep, GotoStep DEF MovesOn

LEMMA MovesByLock ==
  ASSUME SessionTypeOK, NEW r \in Requests, NEW s \in Statements, NEW row \in Locks,
         Goto(r, s), Lock(r, row), Advances(pc[r], s), s \in PastLock[row[1]],
         owed' = owed, todo' \in [Requests -> SUBSET Keys],
         \A q \in Requests \ {r} : todo'[q] = todo[q]
  PROVE  MovesOn(r) /\ OthersUntouched(r)
BY LockingStep, GotoStep DEF MovesOn

LEMMA MovesByEnd ==
  ASSUME SessionTypeOK, NEW r \in Requests, NEW answer \in Replies, Finish(r, answer)
  PROVE  MovesOn(r) /\ OthersUntouched(r)
BY FinishStep DEF MovesOn, Ended

\* The kinds of the rows, and how far each handler has to go for them.
LEMMA Kinds ==
  /\ \A m : MarketRow(m)[1] = "market"
  /\ \A c, u : WalletRow(c, u)[1] = "wallet"
  /\ \A k : BetRow(k)[1] = "bet"
  /\ \A c : CompetitionRow(c)[1] = "competition"
  /\ \A row \in Locks : row[1] \in {"market", "wallet", "bet", "competition"}
BY DEF MarketRow, WalletRow, BetRow, CompetitionRow, Locks

LEMMA PlaceMoves ==
  ASSUME LockDiscipline, NEW r \in Requests, PlaceBet(r)
  PROVE  MovesOn(r) /\ OthersUntouched(r)
<1> DEFINE a == call[r]
<1>1. pc[r] # "idle"
  BY DEF PlaceBet, LookupKey, LockOpenMarket, LockPlayerWallet, ReadSelection, ReadBalance,
         InsertBet, ReplayKey, CommitPlace, At
<1>2. /\ SessionTypeOK /\ a \in Calls
      /\ todo \in [Requests -> SUBSET Keys] /\ owed \in [Requests -> BOOLEAN]
  BY <1>1, Facts DEF SessionTypeOK
<1>3. pc[r] # "commit" => a.op = "place"
  BY <1>1, Facts, WhereIs
     DEF PlaceBet, LookupKey, LockOpenMarket, LockPlayerWallet, ReadSelection, ReadBalance,
         InsertBet, ReplayKey, CommitPlace, At
<1>4. {"stake", "wallet", "odds", "balance", "bet", "touch", "replay"} \subseteq Statements
  BY DEF Statements, InTransaction
<1>5. CASE LookupKey(r) \/ ReplayKey(r) \/ CommitPlace(r)
  <2>1. CASE Goto(r, "stake") /\ UNCHANGED <<tables, todo, owed, holder>> /\ pc[r] = "lookup"
    <3>1. Advances(pc[r], "stake")
      BY <2>1 DEF Advances, PastLock, Ending
    <3>. QED
      BY <1>2, <1>4, <2>1, <3>1, MovesByRead
  <2>2. CASE \E answer \in Replies : Finish(r, answer)
    BY <1>2, <2>2, MovesByEnd
  <2>. QED
    BY <1>5, <2>1, <2>2
    DEF LookupKey, ReplayKey, CommitPlace, AnswerExisting, Refuse, Answer, At, Replies
<1>6. CASE LockOpenMarket(r)
  <2>1. CASE Lock(r, MarketRow(a.market)) /\ Goto(r, "wallet") /\ UNCHANGED <<tables, todo, owed>>
    <3>1. pc[r] = "stake" /\ MarketRow(a.market) \in Locks
      BY <1>2, <1>3, <1>6, CallFields, Rows DEF LockOpenMarket, At
    <3>2. Advances(pc[r], "wallet") /\ "wallet" \in PastLock[MarketRow(a.market)[1]]
      BY <3>1, Kinds DEF Advances, PastLock, Ending
    <3>. QED
      BY <1>2, <1>4, <2>1, <3>1, <3>2, MovesByLock
  <2>2. CASE Finish(r, "refused")
    BY <1>2, <2>2, MovesByEnd DEF Replies
  <2>. QED
    BY <1>6, <2>1, <2>2 DEF LockOpenMarket, Refuse, Answer
<1>7. CASE LockPlayerWallet(r)
  <2>1. CASE /\ Lock(r, WalletRow(a.competition, a.user)) /\ Goto(r, "odds")
             /\ UNCHANGED <<tables, todo, owed>>
    <3>1. pc[r] = "wallet" /\ WalletRow(a.competition, a.user) \in Locks
      BY <1>2, <1>3, <1>7, CallFields, Rows DEF LockPlayerWallet, At
    <3>2. Advances(pc[r], "odds") /\ "odds" \in PastLock[WalletRow(a.competition, a.user)[1]]
      BY <3>1, Kinds DEF Advances, PastLock, Ending
    <3>. QED
      BY <1>2, <1>4, <2>1, <3>1, <3>2, MovesByLock
  <2>2. CASE Finish(r, "refused")
    BY <1>2, <2>2, MovesByEnd DEF Replies
  <2>. QED
    BY <1>7, <2>1, <2>2 DEF LockPlayerWallet, Refuse, Answer
<1>8. CASE ReadSelection(r) \/ ReadBalance(r)
  <2>1. ASSUME NEW s \in {"balance", "bet"}, Goto(r, s),
               UNCHANGED <<tables, todo, owed, holder>>
        PROVE  MovesOn(r) /\ OthersUntouched(r)
    <3>1. pc[r] \in {"odds", "balance"}
      BY <1>8 DEF ReadSelection, ReadBalance, At
    <3>2. Advances(pc[r], s)
      BY <3>1 DEF Advances, PastLock, Ending
    <3>. QED
      BY <1>2, <1>4, <2>1, <3>2, MovesByRead
  <2>2. CASE Finish(r, "refused")
    BY <1>2, <2>2, MovesByEnd DEF Replies
  <2>. QED
    BY <1>8, <2>1, <2>2 DEF ReadSelection, ReadBalance, Refuse, Answer
<1>9. CASE InsertBet(r)
  <2>1. pc[r] = "bet" /\ BetRow(a.key) \in Locks
    BY <1>2, <1>3, <1>9, CallFields, Rows DEF InsertBet, At
  <2>2. CASE Lock(r, BetRow(a.key)) /\ Goto(r, "touch")
    <3>1. Advances(pc[r], "touch") /\ "touch" \in PastLock[BetRow(a.key)[1]]
      BY <2>1, Kinds DEF Advances, PastLock, Ending
    <3>. QED
      BY <1>2, <1>4, <1>9, <2>1, <2>2, <3>1, MovesByLock DEF InsertBet
  <2>3. CASE Release(r) /\ Goto(r, "replay")
    <3>1. OthersUntouched(r)
      BY <1>2, <1>4, <1>9, <2>3, ReadingStep DEF InsertBet
    <3>2. \A l \in Locks : holder'[l] # r
      BY <1>2, <2>3, ReleaseStep
    <3>. QED
      BY <3>1, <3>2 DEF MovesOn
  <2>. QED
    BY <1>9, <2>2, <2>3 DEF InsertBet
<1>. QED
  BY <1>5, <1>6, <1>7, <1>8, <1>9 DEF PlaceBet

LEMMA UndoMoves ==
  ASSUME LockDiscipline, NEW r \in Requests, UndoBet(r)
  PROVE  MovesOn(r) /\ OthersUntouched(r)
<1> DEFINE a == call[r]
           m == MarketOf[bet[a.key].selection]
<1>1. pc[r] \in {"own", "reopen", "reread", "void", "commit"}
  BY DEF UndoBet, FindOwnBet, LockMarketOfBet, RereadBet, VoidBet, CommitUndo, At
<1>2. /\ SessionTypeOK /\ a \in Calls /\ TablesTypeOK
      /\ todo \in [Requests -> SUBSET Keys] /\ owed \in [Requests -> BOOLEAN]
      /\ a.op = "undo" /\ a.key \in Keys
  <2>1. a \in Calls /\ a.op = "undo"
    BY <1>1, Facts, WhereIs DEF UndoBet, FindOwnBet, LockMarketOfBet, RereadBet, VoidBet,
                                CommitUndo, At
  <2>. QED
    BY <1>1, <2>1, Facts, CallFields DEF SessionTypeOK
<1>3. CASE FindOwnBet(r) \/ RereadBet(r)
  <2>1. ASSUME NEW s \in {"reopen", "void"}, Goto(r, s),
               UNCHANGED <<tables, todo, owed, holder>>, pc[r] = "own" \/ s = "void",
               pc[r] \in {"own", "reread"}
        PROVE  MovesOn(r) /\ OthersUntouched(r)
    <3>1. Advances(pc[r], s) /\ s \in Statements
      BY <2>1 DEF Advances, PastLock, Ending, Statements, InTransaction
    <3>. QED
      BY <1>2, <2>1, <3>1, MovesByRead
  <2>2. CASE Finish(r, "refused")
    BY <1>2, <2>2, MovesByEnd DEF Replies
  <2>. QED
    BY <1>3, <2>1, <2>2 DEF FindOwnBet, RereadBet, Refuse, Answer, At
<1>4. CASE LockMarketOfBet(r)
  <2>1. CASE Lock(r, MarketRow(m)) /\ Goto(r, "reread") /\ UNCHANGED <<tables, todo, owed>>
    <3>1. bet[a.key] # None /\ pc[r] = "reopen"
      BY <1>1, <1>2, <1>4, Facts DEF LockMarketOfBet, At, Ready, UndoReady, Handles
    <3>2. MarketRow(m) \in Locks
      BY <1>2, <3>1, ShapeAssumption, Rows DEF TablesTypeOK, Bet
    <3>3. /\ Advances(pc[r], "reread") /\ "reread" \in PastLock[MarketRow(m)[1]]
          /\ "reread" \in Statements
      BY <3>1, Kinds DEF Advances, PastLock, Ending, Statements, InTransaction
    <3>. QED
      BY <1>2, <2>1, <3>2, <3>3, MovesByLock
  <2>2. CASE Finish(r, "refused")
    BY <1>2, <2>2, MovesByEnd DEF Replies
  <2>. QED
    BY <1>4, <2>1, <2>2 DEF LockMarketOfBet, Refuse, Answer
<1>5. CASE VoidBet(r)
  <2>1. CASE Lock(r, BetRow(a.key)) /\ Goto(r, "touch") /\ UNCHANGED <<tables, todo, owed>>
    <3>1. pc[r] = "void" /\ BetRow(a.key) \in Locks
      BY <1>2, <1>5, Rows DEF VoidBet, At
    <3>2. /\ Advances(pc[r], "touch") /\ "touch" \in PastLock[BetRow(a.key)[1]]
          /\ "touch" \in Statements
      BY <3>1, Kinds DEF Advances, PastLock, Ending, Statements, InTransaction
    <3>. QED
      BY <1>2, <2>1, <3>1, <3>2, MovesByLock
  <2>2. CASE Finish(r, "conflict")
    BY <1>2, <2>2, MovesByEnd DEF Replies
  <2>. QED
    BY <1>5, <2>1, <2>2 DEF VoidBet, Answer
<1>6. CASE CommitUndo(r)
  BY <1>2, <1>6, MovesByEnd DEF CommitUndo, Replies
<1>. QED
  BY <1>3, <1>4, <1>5, <1>6 DEF UndoBet

LEMMA MarketMoves ==
  ASSUME LockDiscipline, NEW r \in Requests, MarketStep(r)
  PROVE  MovesOn(r) /\ OthersUntouched(r)
<1> DEFINE a == call[r]
<1>1. pc[r] # "idle"
  BY DEF MarketStep, InsertMarket, FindMarket, ClaimMarket, CommitStatus, CheckWinner,
         CollectBets, CommitSettle, ResolveBet, At
<1>2. /\ SessionTypeOK /\ a \in Calls
      /\ todo \in [Requests -> SUBSET Keys] /\ owed \in [Requests -> BOOLEAN]
      /\ pc[r] \in {"insert", "find", "claim", "winner", "collect", "resolve"} =>
           a.market \in Markets
  BY <1>1, Facts, WhereIs, CallFields DEF SessionTypeOK
<1>3. {"claim", "winner", "collect", "resolve", "touch"} \subseteq Statements
  BY DEF Statements, InTransaction
<1>4. CASE Finish(r, "refused") \/ Finish(r, "conflict") \/ Finish(r, "ok")
  BY <1>2, <1>4, MovesByEnd DEF Replies
<1>5. CASE InsertMarket(r) \/ ClaimMarket(r)
  <2>1. ASSUME NEW s \in {"touch", "winner"}, Goto(r, s), Lock(r, MarketRow(a.market)),
               UNCHANGED <<tables, todo, owed>>
        PROVE  MovesOn(r) /\ OthersUntouched(r)
    <3>1. pc[r] \in {"insert", "claim"}
      BY <1>5 DEF InsertMarket, ClaimMarket, At
    <3>2. MarketRow(a.market) \in Locks
      BY <1>2, <3>1, Rows
    <3>3. Advances(pc[r], s) /\ s \in PastLock[MarketRow(a.market)[1]]
      BY <3>1, Kinds DEF Advances, PastLock, Ending
    <3>. QED
      BY <1>2, <1>3, <2>1, <3>2, <3>3, MovesByLock
  <2>. QED
    BY <1>4, <1>5, <2>1 DEF InsertMarket, ClaimMarket, Refuse, Answer
<1>6. CASE FindMarket(r) \/ CheckWinner(r)
  <2>1. ASSUME NEW s \in {"claim", "collect"}, Goto(r, s),
               UNCHANGED <<tables, todo, owed, holder>>, pc[r] = "find" \/ s = "collect",
               pc[r] \in {"find", "winner"}
        PROVE  MovesOn(r) /\ OthersUntouched(r)
    <3>1. Advances(pc[r], s)
      BY <2>1 DEF Advances, PastLock, Ending
    <3>. QED
      BY <1>2, <1>3, <2>1, <3>1, MovesByRead
  <2>. QED
    BY <1>4, <1>6, <2>1 DEF FindMarket, CheckWinner, Refuse, Answer, At
<1>7. CASE CollectBets(r)
  <2>1. PICK s \in {"touch", "resolve"} : Goto(r, s)
    BY <1>7 DEF CollectBets
  <2>2. PICK found \in SUBSET Keys : todo' = [todo EXCEPT ![r] = found]
    BY <1>7 DEF CollectBets, Pending, BetsOn
  <2>3. UNCHANGED <<tables, owed, holder>> /\ Advances(pc[r], s)
    BY <1>7 DEF CollectBets, Advances, PastLock, Ending, At
  <2>4. /\ todo' \in [Requests -> SUBSET Keys]
        /\ \A q \in Requests \ {r} : todo'[q] = todo[q]
    BY <1>2, <2>2
  <2>. QED
    BY <1>2, <1>3, <2>1, <2>3, <2>4, MovesByRead
<1>8. ASSUME NEW k \in Keys, ResolveBet(r, k) PROVE MovesOn(r) /\ OthersUntouched(r)
  <2>1. ASSUME NEW s \in {"touch", "resolve"}, Goto(r, s), Lock(r, BetRow(k)),
               todo' = [todo EXCEPT ![r] = @ \ {k}], UNCHANGED <<tables, owed>>
        PROVE  MovesOn(r) /\ OthersUntouched(r)
    <3>1. pc[r] = "resolve" /\ BetRow(k) \in Locks
      BY <1>8, Rows DEF ResolveBet, At
    <3>2. Advances(pc[r], s) /\ s \in PastLock[BetRow(k)[1]]
      BY <3>1, Kinds DEF Advances, PastLock, Ending
    <3>3. /\ todo' \in [Requests -> SUBSET Keys]
          /\ \A q \in Requests \ {r} : todo'[q] = todo[q]
      BY <1>2, <2>1
    <3>. QED
      BY <1>2, <1>3, <2>1, <3>1, <3>2, <3>3, MovesByLock
  <2>. QED
    BY <1>4, <1>8, <2>1 DEF ResolveBet, Answer
<1>. QED
  BY <1>4, <1>5, <1>6, <1>7, <1>8 DEF MarketStep, CommitStatus, CommitSettle

LEMMA JoinMoves ==
  ASSUME LockDiscipline, NEW r \in Requests, JoinCompetition(r) \/ TouchCompetition(r)
  PROVE  MovesOn(r) /\ OthersUntouched(r)
<1> DEFINE a == call[r]
<1>1. pc[r] # "idle"
  BY DEF JoinCompetition, UpsertMember, ReadStartingCredit, CommitJoin, TouchCompetition, At
<1>2. /\ SessionTypeOK /\ a \in Calls /\ a.competition \in Competitions /\ a.user \in Users
      /\ todo \in [Requests -> SUBSET Keys] /\ owed \in [Requests -> BOOLEAN]
  BY <1>1, Facts, CallFields DEF SessionTypeOK
<1>3. {"credit", "touch", "commit"} \subseteq Statements
  BY DEF Statements, InTransaction
<1>4. CASE UpsertMember(r)
  <2>1. /\ WalletRow(a.competition, a.user) \in Locks /\ Advances(pc[r], "credit")
        /\ "credit" \in PastLock[WalletRow(a.competition, a.user)[1]]
    BY <1>2, <1>4, Rows, Kinds DEF UpsertMember, At, Advances, PastLock, Ending
  <2>. QED
    BY <1>2, <1>3, <1>4, <2>1, MovesByLock DEF UpsertMember
<1>5. CASE ReadStartingCredit(r)
  <2>1. Advances(pc[r], "touch")
    BY <1>5 DEF ReadStartingCredit, At, Advances, PastLock, Ending
  <2>2. /\ owed' \in [Requests -> BOOLEAN]
        /\ \A q \in Requests \ {r} : owed'[q] = owed[q]
    BY <1>2, <1>5 DEF ReadStartingCredit
  <2>. QED
    BY <1>2, <1>3, <1>5, <2>1, <2>2, MovesByRead DEF ReadStartingCredit
<1>6. CASE TouchCompetition(r)
  <2>1. /\ CompetitionRow(a.competition) \in Locks /\ Advances(pc[r], "commit")
        /\ "commit" \in PastLock[CompetitionRow(a.competition)[1]]
    BY <1>2, <1>6, Rows, Kinds DEF TouchCompetition, At, Advances, PastLock, Ending
  <2>. QED
    BY <1>2, <1>3, <1>6, <2>1, MovesByLock DEF TouchCompetition
<1>7. CASE CommitJoin(r)
  BY <1>2, <1>7, MovesByEnd DEF CommitJoin, Replies
<1>. QED
  BY <1>4, <1>5, <1>6, <1>7 DEF JoinCompetition

\* The loop of a settlement is entered by collecting bets and left at the last one.
LEMMA LoopEntered ==
  ASSUME LockDiscipline, NEW r \in Requests, Step(r), pc'[r] = "resolve"
  PROVE  CollectBets(r) \/ \E k \in Keys : ResolveBet(r, k)
<1> USE DEF Goto, Refuse, Answer, Finish
<1>1. pc \in [Requests -> Statements]
  BY DEF LockDiscipline, TypeOK, SessionTypeOK
<1>2. ~PlaceBet(r)
  BY <1>1 DEF PlaceBet, LookupKey, LockOpenMarket, LockPlayerWallet, ReadSelection,
              ReadBalance, InsertBet, ReplayKey, CommitPlace, AnswerExisting
<1>3. ~UndoBet(r)
  BY <1>1 DEF UndoBet, FindOwnBet, LockMarketOfBet, RereadBet, VoidBet, CommitUndo
<1>4. ~JoinCompetition(r) /\ ~TouchCompetition(r)
  BY <1>1 DEF JoinCompetition, UpsertMember, ReadStartingCredit, CommitJoin, TouchCompetition
<1>5. ~InsertMarket(r) /\ ~FindMarket(r) /\ ~ClaimMarket(r) /\ ~CommitStatus(r)
      /\ ~CheckWinner(r) /\ ~CommitSettle(r)
  BY <1>1 DEF InsertMarket, FindMarket, ClaimMarket, CommitStatus, CheckWinner, CommitSettle
<1>. QED
  BY <1>2, <1>3, <1>4, <1>5 DEF Step, MarketStep

LEMMA UntouchedStaysAhead ==
  ASSUME NEW q \in Requests, Untouched(q), Ahead(q), todo \in [Requests -> SUBSET Keys]
  PROVE  Ahead(q)'
BY Rows DEF Untouched, Ahead, At

LEMMA MovingStaysAhead ==
  ASSUME LockDiscipline, NEW r \in Requests, MovesOn(r), Ahead(r)
  PROVE  \A row \in Locks : holder'[row] = r => pc'[r] \in PastLock[row[1]]
<1> SUFFICES ASSUME NEW row \in Locks, holder'[row] = r PROVE pc'[r] \in PastLock[row[1]]
  OBVIOUS
<1>1. SessionTypeOK /\ row[1] \in DOMAIN PastLock
  BY Kinds DEF LockDiscipline, TypeOK, PastLock
<1>2. ASSUME Advances(pc[r], pc'[r]), holder[row] = r PROVE pc'[r] \in PastLock[row[1]]
  BY <1>1, <1>2 DEF Ahead, Advances
<1>3. ASSUME NEW new \in Locks, Lock(r, new), row # new PROVE holder[row] = r
  BY <1>1, <1>3, LockStep
<1>. QED
  BY <1>2, <1>3 DEF MovesOn

LEMMA NextAhead ==
  ASSUME LockDiscipline, HoldersAreAhead, [Next]_vars
  PROVE  HoldersAreAhead'
<1>1. /\ pc \in [Requests -> Statements] /\ todo \in [Requests -> SUBSET Keys] /\ SessionTypeOK
  BY DEF LockDiscipline, TypeOK, SessionTypeOK
<1>2. ASSUME NEW r \in Requests, OthersUntouched(r), Ahead(r)' PROVE HoldersAreAhead'
  BY <1>1, <1>2, UntouchedStaysAhead DEF OthersUntouched, HoldersAreAhead
<1>3. ASSUME NEW r \in Requests, Step(r) PROVE HoldersAreAhead'
  <2>1. MovesOn(r) /\ OthersUntouched(r)
    BY <1>3, PlaceMoves, UndoMoves, MarketMoves, JoinMoves DEF Step
  <2>2. \A row \in Locks : holder'[row] = r => pc'[r] \in PastLock[row[1]]
    BY <2>1, MovingStaysAhead DEF HoldersAreAhead
  <2>3. ASSUME pc'[r] = "resolve" PROVE \A k \in todo'[r] : holder'[BetRow(k)] # r
    <3>1. CASE CollectBets(r)
      <4>1. pc[r] = "collect" /\ holder' = holder /\ todo'[r] \in SUBSET Keys
        BY <1>1, <3>1 DEF CollectBets, At, Pending, BetsOn
      <4>. QED
        BY <4>1, Facts DEF Ending
    <3>2. ASSUME NEW k \in Keys, ResolveBet(r, k)
          PROVE  \A j \in todo'[r] : holder'[BetRow(j)] # r
      <4>1. pc[r] = "resolve"
        BY <3>2 DEF ResolveBet, At
      <4>2. todo' = [todo EXCEPT ![r] = @ \ {k}] /\ Lock(r, BetRow(k))
        BY <1>1, <2>3, <3>2 DEF ResolveBet, Answer, Finish
      <4>3. ASSUME NEW j \in todo'[r] PROVE holder'[BetRow(j)] # r
        <5>1. j \in todo[r] /\ j # k /\ j \in Keys
          BY <1>1, <4>2, <4>3
        <5>2. holder[BetRow(j)] # r
          BY <4>1, <5>1 DEF HoldersAreAhead, Ahead, At
        <5>3. BetRow(j) # BetRow(k) /\ BetRow(j) \in Locks /\ BetRow(k) \in Locks
          BY <5>1, Rows, RowsDiffer
        <5>. QED
          BY <1>1, <4>2, <5>2, <5>3, LockStep
      <4>. QED
        BY <4>3
    <3>. QED
      BY <1>3, <2>3, <3>1, <3>2, LoopEntered
  <2>4. Ahead(r)'
    BY <2>2, <2>3 DEF Ahead, At
  <2>. QED
    BY <1>2, <2>1, <2>4
<1>4. ASSUME NEW r \in Requests, Abort(r) PROVE HoldersAreAhead'
  <2>1. OthersUntouched(r) /\ Ended(r)
    BY <1>1, <1>4, FinishStep DEF Abort, Answer, Replies
  <2>. QED
    BY <1>2, <2>1 DEF Ended, Ahead, At
<1>5. ASSUME NEW r \in Requests, NEW a \in Calls, Arrive(r, a) PROVE HoldersAreAhead'
  <2>1. /\ pc[r] = "idle" /\ pc'[r] = FirstStatement[a.op] /\ OthersUntouched(r)
        /\ holder' = holder
    BY <1>1, <1>5 DEF Arrive, At, OthersUntouched, Untouched, SessionTypeOK
  <2>2. \A row \in Locks : holder[row] # r
    BY <2>1, Kinds DEF HoldersAreAhead, Ahead, PastLock, Ending
  <2>3. pc'[r] # "resolve"
    BY <2>1, CallFields DEF FirstStatement, Ops
  <2>4. Ahead(r)'
    BY <2>1, <2>2, <2>3 DEF Ahead, At
  <2>. QED
    BY <1>2, <2>1, <2>4
<1>6. CASE Quiet \/ UNCHANGED vars
  <2>1. pc' = pc /\ todo' = todo /\ holder' = holder
    BY <1>6 DEF Quiet, vars, session
  <2>. QED
    BY <2>1 DEF HoldersAreAhead, Ahead, At
<1>. QED
  BY <1>3, <1>4, <1>5, <1>6 DEF Next

\* Whoever holds a row is past every statement that asks for an earlier one, in
\* every interleaving, and nobody who is answered or rolled back holds any.
THEOREM HoldersStayAhead == Spec => []HoldersAreAhead
<1>1. Init => HoldersAreAhead
  <2> SUFFICES ASSUME Init, NEW r \in Requests PROVE Ahead(r)
    BY DEF HoldersAreAhead
  <2>1. pc[r] = "idle" /\ \A l \in Locks : holder[l] = None
    BY DEF Init, SessionInit
  <2>. QED
    BY <2>1, NoneAssumption DEF Ahead, At
<1>. QED
  BY <1>1, NextAhead, LocksAreKept, PTL DEF Spec

-----------------------------------------------------------------------------
(* The order of the locks. *)

LEMMA Ordered ==
  ASSUME LockDiscipline, HoldersAreAhead, NEW r \in Requests, NEW held \in Locks,
         NEW row \in Locks, holder[held] = r, Wants(r, row)
  PROVE  \/ Rank[held[1]] < Rank[row[1]]
         \/ /\ pc[r] = "resolve"
            /\ \E k, j \in Keys :
                 LET m == MarketOf[bet[k].selection] IN
                 /\ held = BetRow(k) /\ row = BetRow(j) /\ k # j
                 /\ m = MarketOf[bet[j].selection] /\ holder[MarketRow(m)] = r
<1>1. pc[r] \in PastLock[held[1]] /\ held[1] \in {"market", "wallet", "bet", "competition"}
  BY Kinds DEF HoldersAreAhead, Ahead
<1>2. pc[r] \notin {"stake", "reopen", "claim", "insert", "upsert"}
  BY <1>1 DEF PastLock, Ending
<1>3. CASE pc[r] = "wallet"
  <2>1. row[1] = "wallet" /\ held[1] = "market"
    BY <1>1, <1>3, Kinds DEF PastLock, Ending, Wants, At
  <2>. QED
    BY <2>1 DEF Rank
<1>4. CASE pc[r] \in {"bet", "void"}
  <2>1. row[1] = "bet" /\ held[1] \in {"market", "wallet"}
    BY <1>1, <1>4, Kinds DEF PastLock, Ending, Wants, At
  <2>. QED
    BY <2>1 DEF Rank
<1>5. CASE pc[r] = "touch"
  <2>1. row[1] = "competition" /\ held[1] \in {"market", "wallet", "bet"}
    BY <1>1, <1>5, Kinds DEF PastLock, Ending, Wants, At
  <2>. QED
    BY <2>1 DEF Rank
<1>6. CASE pc[r] = "resolve"
  <2>1. PICK j \in todo[r] : bet[j].status = "PENDING" /\ row = BetRow(j)
    BY <1>6 DEF Wants, At
  <2>2. row[1] = "bet" /\ held[1] \in {"market", "bet"}
    BY <1>1, <1>6, <2>1, Kinds DEF PastLock, Ending
  <2>3. CASE held[1] = "market"
    BY <2>2, <2>3 DEF Rank
  <2>4. CASE held[1] = "bet"
    <3>1. PICK k \in Keys : held = BetRow(k)
      BY <2>4 DEF Locks, BetRow
    <3>2. /\ call[r].op = "settle"
          /\ todo[r] \cup Resolved(r) = Pending(call[r].market)
          /\ holder[MarketRow(call[r].market)] = r
      BY <1>6, Facts, WhereIs
      DEF Ready, SettleReady, Handles, MarketHeld, HoldsMarket, TargetMarket
    <3>3. k \in Pending(call[r].market) /\ j \in Pending(call[r].market)
      BY <3>1, <3>2 DEF Resolved
    <3>4. /\ j \in Keys /\ MarketOf[bet[k].selection] = call[r].market
          /\ MarketOf[bet[j].selection] = call[r].market
      BY <3>3 DEF Pending, BetsOn
    <3>5. k # j
      BY <1>6, <2>1, <3>1 DEF HoldersAreAhead, Ahead, At
    <3>. QED
      BY <1>6, <2>1, <3>1, <3>2, <3>4, <3>5
  <2>. QED
    BY <2>2, <2>3, <2>4
<1>. QED
  BY <1>2, <1>3, <1>4, <1>5, <1>6 DEF Wants, At

\* A transaction asks for a row only when it comes after all it holds: market
\* before wallet before bet before competition (all handlers of FauxStakes).
THEOREM RowsAreTakenInOrder == Spec => []LocksInOrder
<1>1. LockDiscipline /\ HoldersAreAhead => LocksInOrder
  BY Ordered DEF LocksInOrder
<1>. QED
  BY <1>1, LocksAreKept, HoldersStayAhead, PTL

\* The loop of a settlement never waits: who else could hold a pending bet of its
\* market would hold the market.
LEMMA LoopGoesOn ==
  ASSUME LockDiscipline, HoldersAreAhead, NEW r \in Requests, pc[r] = "resolve"
  PROVE  ~Waits(r)
<1> SUFFICES ASSUME NEW row \in Locks, Wants(r, row), holder[row] # None PROVE FALSE
  BY DEF Waits
<1>1. PICK j \in todo[r] : bet[j].status = "PENDING" /\ row = BetRow(j)
  BY DEF Wants, At
<1>2. /\ call[r].op = "settle" /\ HoldsMarket(r)
      /\ todo[r] \cup Resolved(r) = Pending(call[r].market)
      /\ TargetMarket(r) = call[r].market
  BY Facts, WhereIs DEF Ready, SettleReady, Handles, HoldsMarket, TargetMarket
<1>3. /\ j \in Keys /\ bet[j] # None /\ MarketOf[bet[j].selection] = call[r].market
  BY <1>1, <1>2 DEF Pending, BetsOn
<1>4. PICK q \in Requests : holder[row] = q
  BY DEF LockDiscipline, TypeOK, SessionTypeOK
<1>5. q # r
  BY <1>1, <1>4 DEF HoldersAreAhead, Ahead, At
<1>6. pc[q] # "idle" /\ Ready(q)
  BY <1>1, <1>3, <1>4, Kinds, Facts, Rows DEF HoldersAreAhead, Ahead, PastLock, Ending, LockDiscipline
<1>7. CASE Handles(q, {"place", "undo"}, Ending) /\ call[q].key = j
  <2>1. call[q].op = "undo"
    BY <1>3, <1>6, <1>7 DEF Ready, StakeReady, Handles
  <2>2. HoldsMarket(q) /\ TargetMarket(q) = call[r].market
    BY <1>3, <1>7, <2>1 DEF HoldsMarket, TargetMarket, Handles
  <2>. QED
    BY <1>2, <1>5, <2>2, MarketsApart
<1>8. CASE Handles(q, {"settle"}, {"resolve"} \cup Ending)
  <2>1. j \in Pending(call[q].market)
    BY <1>1, <1>3, <1>4, <1>6, <1>8 DEF Ready, SettleReady, Resolved, Handles
  <2>2. HoldsMarket(q) /\ TargetMarket(q) = call[r].market
    BY <1>3, <1>8, <2>1 DEF HoldsMarket, TargetMarket, Handles, Pending, BetsOn
  <2>. QED
    BY <1>2, <1>5, <2>2, MarketsApart
<1>. QED
  BY <1>1, <1>3, <1>4, <1>6, <1>7, <1>8 DEF Ready, BetHeld

GoesOn == \E r \in Requests : Open(r) /\ ~Waits(r)

\* The holder of a row is open, and if it waits, it waits for a later row.
LEMMA WaitsForLater ==
  ASSUME LockDiscipline, HoldersAreAhead, NEW held \in Locks, holder[held] # None, ~GoesOn
  PROVE  \E row \in Locks : holder[row] # None /\ Rank[held[1]] < Rank[row[1]]
<1>1. PICK q \in Requests : holder[held] = q
  BY DEF LockDiscipline, TypeOK, SessionTypeOK
<1>2. Open(q)
  BY <1>1, Kinds DEF HoldersAreAhead, Ahead, PastLock, Ending, Open
<1>3. PICK row \in Locks : Wants(q, row) /\ holder[row] # None
  BY <1>2 DEF GoesOn, Waits
<1>4. pc[q] # "resolve"
  BY <1>2, LoopGoesOn DEF GoesOn
<1>5. Rank[held[1]] < Rank[row[1]]
  BY <1>1, <1>3, <1>4, Ordered
<1>. QED
  BY <1>3, <1>5

LEMMA SomebodyGoesOn ==
  ASSUME LockDiscipline, HoldersAreAhead
  PROVE  NoStandstill
<1> SUFFICES ASSUME NEW r \in Requests, Open(r), ~GoesOn PROVE FALSE
  BY DEF NoStandstill, GoesOn
<1>1. PICK first \in Locks : holder[first] # None
  BY DEF GoesOn, Waits
<1>2. PICK second \in Locks : holder[second] # None /\ Rank[first[1]] < Rank[second[1]]
  BY <1>1, WaitsForLater
<1>3. PICK third \in Locks : holder[third] # None /\ Rank[second[1]] < Rank[third[1]]
  BY <1>2, WaitsForLater
<1>4. PICK fourth \in Locks : holder[fourth] # None /\ Rank[third[1]] < Rank[fourth[1]]
  BY <1>3, WaitsForLater
<1>5. PICK fifth \in Locks : Rank[fourth[1]] < Rank[fifth[1]]
  BY <1>4, WaitsForLater
<1>6. \A row \in Locks : Rank[row[1]] \in 1 .. 4
  BY Kinds DEF Rank
<1>7. /\ Rank[first[1]] \in 1 .. 4 /\ Rank[second[1]] \in 1 .. 4 /\ Rank[third[1]] \in 1 .. 4
      /\ Rank[fourth[1]] \in 1 .. 4 /\ Rank[fifth[1]] \in 1 .. 4
  BY <1>6
<1>. QED
  BY <1>2, <1>3, <1>4, <1>5, <1>7

\* For any number of calls that lock the rows of any number of markets, wallets,
\* bets and competitions, while one is being handled some call has the row of its
\* next statement free.
THEOREM NobodyStandsStill == Spec => []NoStandstill
BY SomebodyGoesOn, LocksAreKept, HoldersStayAhead, PTL

=============================================================================
