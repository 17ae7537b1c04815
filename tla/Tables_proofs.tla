--------------------------- MODULE Tables_proofs ----------------------------
(***************************************************************************)
(* Facts about sums over the ledger, what each handler's writes keep true   *)
(* of the committed rows whoever applies them, and the books of the atomic  *)
(* game: what each of its steps keeps true of stakes, ledger, settlements   *)
(* and starting credits.  The steps are stated here by what they write, so  *)
(* that the handlers (FauxStakes_proofs), the readers (Leaderboard_proofs)  *)
(* and the events (Realtime_proofs), which reach the game through an        *)
(* INSTANCE, share these facts.                                             *)
(***************************************************************************)
EXTENDS Tables, FiniteSetTheorems, TLAPS

-----------------------------------------------------------------------------
(* Chips: the sum over a finite set of ledger rows. *)

Pieces(rows) == UNION {{e} \X (1 .. e.amount) : e \in rows}

Heap(e) == {e} \X (1 .. e.amount)

LEMMA HeapSize ==
  ASSUME NEW e, e.amount \in Nat
  PROVE  IsFiniteSet(Heap(e)) /\ Cardinality(Heap(e)) = e.amount
<1>1. IsFiniteSet(1 .. e.amount) /\ Cardinality(1 .. e.amount) = e.amount
  BY FS_Interval
<1>2. IsFiniteSet({e}) /\ Cardinality({e}) = 1
  BY FS_Singleton
<1>. QED
  BY <1>1, <1>2, FS_Product DEF Heap

\* Finitely many rows hold finitely many Orakls.
LEMMA PiecesFinite ==
  ASSUME NEW rows, rows \subseteq LedgerTxn, IsFiniteSet(rows)
  PROVE  IsFiniteSet(Pieces(rows)) /\ Chips(rows) \in Nat
<1> DEFINE heaps == {Heap(e) : e \in rows}
           f == [e \in rows |-> Heap(e)]
<1>1. \A h \in heaps : IsFiniteSet(h)
  BY HeapSize DEF LedgerTxn
<1>2. f \in Surjection(rows, heaps)
  BY DEF Surjection
<1>3. IsFiniteSet(heaps)
  BY <1>2, FS_Surjection
<1>4. IsFiniteSet(UNION heaps)
  BY <1>1, <1>3, FS_UNION
<1>5. UNION heaps = Pieces(rows)
  BY DEF Pieces, Heap
<1>. QED
  BY <1>4, <1>5, FS_CardinalityType DEF Pieces, Chips

\* Fewer rows hold no more Orakls.
LEMMA ChipsMonotone ==
  ASSUME NEW rows, rows \subseteq LedgerTxn, IsFiniteSet(rows),
         NEW some \in SUBSET rows
  PROVE  Chips(some) <= Chips(rows)
<1>1. Pieces(some) \in SUBSET Pieces(rows)
  BY DEF Pieces
<1>. QED
  BY <1>1, PiecesFinite, FS_Subset DEF Chips, Pieces

\* One more row holds its amount more.
LEMMA ChipsOfOneMore ==
  ASSUME NEW rows, rows \subseteq LedgerTxn, IsFiniteSet(rows),
         NEW e \in LedgerTxn
  PROVE  Chips(rows \cup {e}) =
           IF e \in rows THEN Chips(rows) ELSE Chips(rows) + e.amount
<1>1. CASE e \in rows
  BY <1>1
<1>2. CASE e \notin rows
  <2>1. Pieces(rows \cup {e}) = Pieces(rows) \cup Heap(e)
    BY DEF Pieces, Heap
  <2>2. Pieces(rows) \cap Heap(e) = {}
    BY <1>2 DEF Pieces, Heap
  <2>3. e.amount \in Nat
    BY DEF LedgerTxn
  <2>4. IsFiniteSet(Heap(e)) /\ Cardinality(Heap(e)) = e.amount
    BY <2>3, HeapSize
  <2>5. IsFiniteSet(Pieces(rows)) /\ Chips(rows) \in Nat
    BY PiecesFinite
  <2>6. Cardinality(Pieces(rows) \cup Heap(e)) =
          Cardinality(Pieces(rows)) + Cardinality(Heap(e))
            - Cardinality(Pieces(rows) \cap Heap(e))
    BY <2>4, <2>5, FS_Union
  <2>7. Cardinality(Pieces(rows) \cap Heap(e)) = 0
    BY <2>2, FS_EmptySet
  <2>8. Chips(rows) = Cardinality(Pieces(rows))
    BY DEF Chips, Pieces
  <2>9. Chips(rows \cup {e}) = Cardinality(Pieces(rows \cup {e}))
    BY DEF Chips, Pieces
  <2>10. Cardinality(Pieces(rows) \cup Heap(e)) = Chips(rows) + e.amount
    BY <2>3, <2>4, <2>5, <2>6, <2>7, <2>8
  <2>. QED
    BY <1>2, <2>1, <2>9, <2>10
<1>. QED
  BY <1>1, <1>2

LEMMA NetType ==
  ASSUME NEW rows, rows \subseteq LedgerTxn, IsFiniteSet(rows)
  PROVE  Net(rows) \in Int
<1>1. /\ Debits(rows) \subseteq LedgerTxn /\ rows \ Debits(rows) \subseteq LedgerTxn
      /\ Debits(rows) \in SUBSET rows /\ rows \ Debits(rows) \in SUBSET rows
  BY DEF Debits
<1>2. IsFiniteSet(Debits(rows)) /\ IsFiniteSet(rows \ Debits(rows))
  BY <1>1, FS_Subset
<1>3. Chips(Debits(rows)) \in Nat /\ Chips(rows \ Debits(rows)) \in Nat
  BY <1>1, <1>2, PiecesFinite
<1>. QED
  BY <1>3 DEF Net

\* Money that comes in never lowers a balance.
LEMMA NetOfIncome ==
  ASSUME NEW rows, rows \subseteq LedgerTxn, IsFiniteSet(rows),
         NEW more, more \subseteq LedgerTxn, IsFiniteSet(more),
         \A e \in more : e.type # "DEBIT"
  PROVE  Net(rows \cup more) >= Net(rows)
<1> DEFINE all == rows \cup more
<1>1. Debits(all) = Debits(rows)
  BY DEF Debits
<1>2. rows \ Debits(rows) \in SUBSET (all \ Debits(all))
  BY DEF Debits
<1>3. all \subseteq LedgerTxn /\ IsFiniteSet(all)
  BY FS_Union
<1>4. /\ all \ Debits(all) \subseteq LedgerTxn
      /\ IsFiniteSet(all \ Debits(all))
  BY <1>3, FS_Difference
<1>5. Chips(rows \ Debits(rows)) <= Chips(all \ Debits(all))
  BY <1>2, <1>4, ChipsMonotone
<1>6. /\ rows \ Debits(rows) \subseteq LedgerTxn /\ IsFiniteSet(rows \ Debits(rows))
      /\ Debits(rows) \subseteq LedgerTxn /\ IsFiniteSet(Debits(rows))
  <2>1. Debits(rows) \in SUBSET rows
    BY DEF Debits
  <2>. QED
    BY <2>1, FS_Subset, FS_Difference
<1>7. /\ Chips(rows \ Debits(rows)) \in Nat /\ Chips(all \ Debits(all)) \in Nat
      /\ Chips(Debits(rows)) \in Nat
  BY <1>4, <1>6, PiecesFinite
<1>. QED
  BY <1>1, <1>5, <1>7 DEF Net

\* A debit lowers a balance by no more than its amount.
LEMMA NetOfDebit ==
  ASSUME NEW rows, rows \subseteq LedgerTxn, IsFiniteSet(rows),
         NEW e \in LedgerTxn, e.type = "DEBIT"
  PROVE  Net(rows \cup {e}) >= Net(rows) - e.amount
<1>1. Debits(rows \cup {e}) = Debits(rows) \cup {e}
  BY DEF Debits
<1>2. (rows \cup {e}) \ Debits(rows \cup {e}) = rows \ Debits(rows)
  BY DEF Debits
<1>3. Debits(rows) \in SUBSET rows
  BY DEF Debits
<1>4. /\ Debits(rows) \subseteq LedgerTxn /\ IsFiniteSet(Debits(rows))
      /\ rows \ Debits(rows) \subseteq LedgerTxn /\ IsFiniteSet(rows \ Debits(rows))
  BY <1>3, FS_Subset, FS_Difference
<1>5. Chips(Debits(rows)) \in Nat /\ Chips(rows \ Debits(rows)) \in Nat
  BY <1>4, PiecesFinite
<1>6. Chips(Debits(rows) \cup {e}) =
        IF e \in Debits(rows) THEN Chips(Debits(rows)) ELSE Chips(Debits(rows)) + e.amount
  BY <1>4, ChipsOfOneMore
<1>7. e.amount \in Nat
  BY DEF LedgerTxn
<1>8. Net(rows \cup {e}) = Chips(rows \ Debits(rows)) - Chips(Debits(rows) \cup {e})
  BY <1>1, <1>2 DEF Net
<1>9. Net(rows) = Chips(rows \ Debits(rows)) - Chips(Debits(rows))
  BY DEF Net
<1>10. Chips(Debits(rows) \cup {e}) \in Nat
       /\ Chips(Debits(rows) \cup {e}) <= Chips(Debits(rows)) + e.amount
  BY <1>5, <1>6, <1>7
<1>. QED
  BY <1>5, <1>7, <1>8, <1>9, <1>10

\* Sets of rows that have none in common hold together what each of them holds.
LEMMA ChipsOfBoth ==
  ASSUME NEW rows, rows \subseteq LedgerTxn, IsFiniteSet(rows),
         NEW more, more \subseteq LedgerTxn, IsFiniteSet(more), rows \cap more = {}
  PROVE  Chips(rows \cup more) = Chips(rows) + Chips(more)
<1>1. /\ IsFiniteSet(Pieces(rows)) /\ Chips(rows) \in Nat
      /\ IsFiniteSet(Pieces(more)) /\ Chips(more) \in Nat
  BY PiecesFinite
<1>2. Pieces(rows \cup more) = Pieces(rows) \cup Pieces(more)
  BY DEF Pieces
<1>3. Pieces(rows) \cap Pieces(more) = {}
  BY DEF Pieces
<1>4. Cardinality(Pieces(rows) \cup Pieces(more)) =
        Cardinality(Pieces(rows)) + Cardinality(Pieces(more))
          - Cardinality(Pieces(rows) \cap Pieces(more))
  BY <1>1, FS_Union
<1>5. Cardinality(Pieces(rows) \cap Pieces(more)) = 0
  BY <1>3, FS_EmptySet
<1>6. /\ Chips(rows) = Cardinality(Pieces(rows)) /\ Chips(more) = Cardinality(Pieces(more))
      /\ Chips(rows \cup more) = Cardinality(Pieces(rows \cup more))
  BY DEF Chips, Pieces
<1>7. Chips(rows \cup more) = Cardinality(Pieces(rows) \cup Pieces(more))
  BY <1>2, <1>6
<1>. QED
  BY <1>1, <1>4, <1>5, <1>6, <1>7

LEMMA NetOfBoth ==
  ASSUME NEW rows, rows \subseteq LedgerTxn, IsFiniteSet(rows),
         NEW more, more \subseteq LedgerTxn, IsFiniteSet(more), rows \cap more = {}
  PROVE  Net(rows \cup more) = Net(rows) + Net(more)
<1> DEFINE all == rows \cup more
<1>1. /\ Debits(all) = Debits(rows) \cup Debits(more)
      /\ all \ Debits(all) = (rows \ Debits(rows)) \cup (more \ Debits(more))
      /\ Debits(rows) \cap Debits(more) = {}
      /\ (rows \ Debits(rows)) \cap (more \ Debits(more)) = {}
  BY DEF Debits
<1>2. /\ Debits(rows) \in SUBSET rows /\ rows \ Debits(rows) \in SUBSET rows
      /\ Debits(more) \in SUBSET more /\ more \ Debits(more) \in SUBSET more
  BY DEF Debits
<1>3. /\ IsFiniteSet(Debits(rows)) /\ IsFiniteSet(rows \ Debits(rows))
      /\ IsFiniteSet(Debits(more)) /\ IsFiniteSet(more \ Debits(more))
  BY <1>2, FS_Subset
<1>4. /\ Debits(rows) \subseteq LedgerTxn /\ rows \ Debits(rows) \subseteq LedgerTxn
      /\ Debits(more) \subseteq LedgerTxn /\ more \ Debits(more) \subseteq LedgerTxn
  BY <1>2
<1>5. Chips(Debits(all)) = Chips(Debits(rows)) + Chips(Debits(more))
  BY <1>1, <1>3, <1>4, ChipsOfBoth
<1>6. Chips(all \ Debits(all)) = Chips(rows \ Debits(rows)) + Chips(more \ Debits(more))
  BY <1>1, <1>3, <1>4, ChipsOfBoth
<1>7. /\ Chips(Debits(rows)) \in Nat /\ Chips(rows \ Debits(rows)) \in Nat
      /\ Chips(Debits(more)) \in Nat /\ Chips(more \ Debits(more)) \in Nat
  BY <1>3, <1>4, PiecesFinite
<1>. QED
  BY <1>5, <1>6, <1>7 DEF Net

\* Every refund is that of a stake in the same set, of the same amount and market.
Matched(rows) ==
  /\ \A e \in rows : e.type = "REFUND" =>
       \E d \in rows : /\ d.type = "DEBIT" /\ d.bet = e.bet
                       /\ d.amount = e.amount /\ d.market = e.market
  /\ \A e, f \in rows : e.type = "REFUND" /\ f.type = "REFUND" /\ e.bet = f.bet => e = f

\* Stakes, and refunds of some of them, are no income.
LEMMA NetOfStakes ==
  ASSUME NEW rows, rows \subseteq LedgerTxn, IsFiniteSet(rows), Matched(rows),
         \A e \in rows : e.type \in {"DEBIT", "REFUND"}
  PROVE  Net(rows) <= 0
<1> DEFINE back == rows \ Debits(rows)
           gone == Debits(rows)
           stake == [e \in back |-> CHOOSE d \in gone : d.bet = e.bet /\ d.amount = e.amount]
           f == [p \in Pieces(back) |-> <<stake[p[1]], p[2]>>]
<1>1. /\ back \in SUBSET rows /\ gone \in SUBSET rows
      /\ \A e \in back : e \in rows /\ e.type = "REFUND"
  BY DEF Debits
<1>2. /\ back \subseteq LedgerTxn /\ IsFiniteSet(back)
      /\ gone \subseteq LedgerTxn /\ IsFiniteSet(gone)
  BY <1>1, FS_Subset
<1>3. /\ IsFiniteSet(Pieces(back)) /\ Chips(back) \in Nat
      /\ IsFiniteSet(Pieces(gone)) /\ Chips(gone) \in Nat
  <2> HIDE DEF back, gone
  <2>. QED
    BY <1>2, PiecesFinite
<1>4. \A e \in back : stake[e] \in gone /\ stake[e].bet = e.bet /\ stake[e].amount = e.amount
  <2> TAKE e \in back
  <2>1. \E d \in gone : d.bet = e.bet /\ d.amount = e.amount
    BY <1>1 DEF Matched, Debits
  <2>. QED
    BY <2>1
<1>5. \A p \in Pieces(back) :
        /\ p = <<p[1], p[2]>> /\ p[1] \in back /\ p[2] \in 1 .. p[1].amount
  BY DEF Pieces
<1>6. \A d \in gone : \A i \in 1 .. d.amount : <<d, i>> \in Pieces(gone)
  BY DEF Pieces
<1> HIDE DEF back, gone, stake
<1>7. f \in [Pieces(back) -> Pieces(gone)]
  <2>1. \A p \in Pieces(back) : <<stake[p[1]], p[2]>> \in Pieces(gone)
    BY <1>4, <1>5, <1>6
  <2>. QED
    BY <2>1
<1>8. ASSUME NEW p \in Pieces(back), NEW q \in Pieces(back), f[p] = f[q] PROVE p = q
  <2>1. stake[p[1]] = stake[q[1]] /\ p[2] = q[2]
    BY <1>8
  <2>2. p[1] \in back /\ q[1] \in back /\ p[1].bet = q[1].bet
    BY <1>4, <1>5, <2>1
  <2>3. p[1] = q[1]
    BY <1>1, <2>2 DEF Matched
  <2>. QED
    BY <1>5, <2>1, <2>3
<1> HIDE DEF f
<1>9. f \in Injection(Pieces(back), Pieces(gone))
  BY <1>7, <1>8 DEF Injection, IsInjective
<1>10. Cardinality(Pieces(back)) <= Cardinality(Pieces(gone))
  BY <1>3, <1>9, FS_Injection
<1>11. Chips(back) <= Chips(gone)
  BY <1>10 DEF Chips, Pieces
<1>12. Net(rows) = Chips(back) - Chips(gone)
  BY DEF Net, back, gone
<1>. QED
  BY <1>3, <1>11, <1>12

-----------------------------------------------------------------------------
(* The writes keep the rows well typed. *)

LEMMA EntryType ==
  ASSUME NEW c \in Competitions, NEW u \in Users, NEW type \in LedgerType,
         NEW amount \in Nat, NEW k \in Keys \cup {None},
         NEW m \in Markets \cup {None}, NEW r \in Requests \cup {None}
  PROVE  /\ Entry(c, u, type, amount, k, m, r) \in LedgerTxn
         /\ Entry(c, u, type, amount, k, m, r).competition = c
         /\ Entry(c, u, type, amount, k, m, r).user = u
         /\ Entry(c, u, type, amount, k, m, r).type = type
         /\ Entry(c, u, type, amount, k, m, r).amount = amount
         /\ Entry(c, u, type, amount, k, m, r).bet = k
         /\ Entry(c, u, type, amount, k, m, r).market = m
  BY DEF Entry, LedgerTxn

LEMMA InitTablesTypeOK == TablesInit => TablesTypeOK
<1> SUFFICES ASSUME TablesInit PROVE TablesTypeOK
  OBVIOUS
<1> DEFINE credit(p) == Entry(p[1], p[2], "CREDIT", StartingChips[p[1]], None, None, None)
           f == [p \in StartMembers |-> credit(p)]
<1>1. \A p \in StartMembers : credit(p) \in LedgerTxn
  <2> TAKE p \in StartMembers
  <2>1. p[1] \in Competitions /\ p[2] \in Users
    BY StartAssumption
  <2>2. StartingChips[p[1]] \in Nat
    BY <2>1, MoneyAssumption
  <2>. QED
    BY <2>1, <2>2, EntryType DEF LedgerType
<1>2. f \in Surjection(StartMembers, {credit(p) : p \in StartMembers})
  BY DEF Surjection
<1>3. IsFiniteSet({credit(p) : p \in StartMembers})
  BY <1>2, FS_Surjection, FiniteAssumption
<1>4. ledger \subseteq LedgerTxn /\ IsFiniteSet(ledger)
  BY <1>1, <1>3 DEF TablesInit
<1>5. /\ member \subseteq Competitions \X Users
      /\ status \in [Markets -> MarketStatus]
      /\ selection \in [Selections -> SelectionStatus]
      /\ bet \in [Keys -> Bet \cup {None}]
  BY StartAssumption DEF TablesInit, MarketStatus, SelectionStatus
<1>. QED
  BY <1>4, <1>5 DEF TablesTypeOK

LEMMA WritePlaceType ==
  ASSUME TablesTypeOK, NEW c \in Competitions, NEW u \in Users, NEW s \in Selections,
         NEW stake \in Stakes, NEW k \in Keys, NEW m \in Markets, NEW r \in Requests,
         WritePlace(c, u, s, stake, k, m, r)
  PROVE  TablesTypeOK'
<1>1. stake \in Nat /\ Return[s][stake] \in Nat
  BY MoneyAssumption
<1>2. Entry(c, u, "DEBIT", stake, k, m, r) \in LedgerTxn
  BY <1>1, EntryType DEF LedgerType
<1>3. ledger' \subseteq LedgerTxn /\ IsFiniteSet(ledger')
  BY <1>2, FS_AddElement DEF WritePlace, TablesTypeOK
<1>4. bet' \in [Keys -> Bet \cup {None}]
  BY <1>1 DEF WritePlace, TablesTypeOK, Bet, BetStatus
<1>. QED
  BY <1>3, <1>4 DEF WritePlace, TablesTypeOK

LEMMA WriteUndoType ==
  ASSUME TablesTypeOK, NEW c \in Competitions, NEW k \in Keys, NEW r \in Requests,
         bet[k] # None, WriteUndo(c, k, r)
  PROVE  TablesTypeOK'
<1>1. bet[k] \in Bet
  BY DEF TablesTypeOK
<1>2. /\ bet[k].user \in Users /\ bet[k].stake \in Nat
      /\ MarketOf[bet[k].selection] \in Markets
  BY <1>1, MoneyAssumption, ShapeAssumption DEF Bet
<1>3. Entry(c, bet[k].user, "REFUND", bet[k].stake, k,
            MarketOf[bet[k].selection], r) \in LedgerTxn
  BY <1>2, EntryType DEF LedgerType
<1>4. ledger' \subseteq LedgerTxn /\ IsFiniteSet(ledger')
  BY <1>3, FS_AddElement DEF WriteUndo, TablesTypeOK
<1>5. bet' \in [Keys -> Bet \cup {None}]
  BY <1>1 DEF WriteUndo, TablesTypeOK, Bet, BetStatus
<1>. QED
  BY <1>4, <1>5 DEF WriteUndo, TablesTypeOK

LEMMA WriteStatusType ==
  ASSUME TablesTypeOK, NEW m \in Markets, NEW to \in MarketStatus, WriteStatus(m, to)
  PROVE  TablesTypeOK'
  BY DEF WriteStatus, TablesTypeOK

\* The rows a settlement pays are finitely many and pay money in.
LEMMA PayoutRows ==
  ASSUME TablesTypeOK, NEW c \in Competitions, NEW m \in Markets, NEW r \in Requests,
         NEW won \in SUBSET Keys, \A k \in won : bet[k] # None
  PROVE  /\ Payouts(c, m, won, r) \subseteq LedgerTxn
         /\ IsFiniteSet(Payouts(c, m, won, r))
         /\ \A e \in Payouts(c, m, won, r) :
              e.type = "PAYOUT" /\ e.bet \in won /\ e.market = m
<1> DEFINE row(k) == Entry(c, bet[k].user, "PAYOUT", bet[k].return, k, m, r)
           f == [k \in won |-> row(k)]
<1>1. \A k \in won : /\ row(k) \in LedgerTxn
                     /\ row(k).type = "PAYOUT" /\ row(k).bet = k /\ row(k).market = m
  <2> TAKE k \in won
  <2>1. bet[k] \in Bet
    BY DEF TablesTypeOK
  <2>2. bet[k].user \in Users /\ bet[k].return \in Nat
    BY <2>1 DEF Bet
  <2>. QED
    BY <2>2, EntryType DEF LedgerType
<1>2. f \in Surjection(won, Payouts(c, m, won, r))
  BY DEF Surjection, Payouts
<1>3. IsFiniteSet(won)
  BY FiniteAssumption, FS_Subset
<1>4. IsFiniteSet(Payouts(c, m, won, r))
  BY <1>2, <1>3, FS_Surjection
<1>. QED
  BY <1>1, <1>4 DEF Payouts

LEMMA WriteSettleType ==
  ASSUME TablesTypeOK, NEW c \in Competitions, NEW m \in Markets,
         NEW winner \in Selections, NEW resolved \in SUBSET Keys, NEW r \in Requests,
         \A k \in resolved : bet[k] # None,
         WriteSettle(c, m, winner, resolved, r)
  PROVE  TablesTypeOK'
<1> DEFINE won == {k \in resolved : bet[k].selection = winner}
<1>1. won \in SUBSET Keys /\ \A k \in won : bet[k] # None
  OBVIOUS
<1>2. ledger' = ledger \cup Payouts(c, m, won, r)
  BY DEF WriteSettle
<1> HIDE DEF won
<1>3. Payouts(c, m, won, r) \subseteq LedgerTxn /\ IsFiniteSet(Payouts(c, m, won, r))
  BY <1>1, PayoutRows
<1>4. ledger' \subseteq LedgerTxn /\ IsFiniteSet(ledger')
  BY <1>2, <1>3, FS_Union DEF TablesTypeOK
<1>5. bet' \in [Keys -> Bet \cup {None}]
  <2>1. \A k \in resolved : bet[k] \in Bet
    BY DEF TablesTypeOK
  <2>2. \A k \in resolved, st \in BetStatus : [bet[k] EXCEPT !.status = st] \in Bet
    BY <2>1 DEF Bet
  <2>. QED
    BY <2>2 DEF WriteSettle, TablesTypeOK, BetStatus
<1>6. status' \in [Markets -> MarketStatus]
  BY DEF WriteSettle, TablesTypeOK, MarketStatus
<1>7. selection' \in [Selections -> SelectionStatus]
  BY DEF WriteSettle, TablesTypeOK, SelectionStatus
<1>. QED
  BY <1>4, <1>5, <1>6, <1>7 DEF WriteSettle, TablesTypeOK

LEMMA WriteJoinType ==
  ASSUME TablesTypeOK, NEW c \in Competitions, NEW u \in Users, NEW owed \in BOOLEAN,
         NEW r \in Requests, WriteJoin(c, u, owed, r)
  PROVE  TablesTypeOK'
<1>1. StartingChips[c] \in Nat
  BY MoneyAssumption
<1>2. Entry(c, u, "CREDIT", StartingChips[c], None, None, r) \in LedgerTxn
  BY <1>1, EntryType DEF LedgerType
<1>3. ledger' \subseteq LedgerTxn /\ IsFiniteSet(ledger')
  BY <1>2, FS_AddElement DEF WriteJoin, TablesTypeOK
<1>. QED
  BY <1>3 DEF WriteJoin, TablesTypeOK

-----------------------------------------------------------------------------
(* The writes keep every balance at or above zero. *)

LEMMA AccountFinite ==
  ASSUME TablesTypeOK, NEW c, NEW u
  PROVE  Account(c, u) \subseteq LedgerTxn /\ IsFiniteSet(Account(c, u))
<1>1. Account(c, u) \in SUBSET ledger
  BY DEF Account
<1>. QED
  BY <1>1, FS_Subset DEF TablesTypeOK

\* Whatever pays money in leaves every balance at least where it was.
LEMMA IncomeKeepsNoOverdraft ==
  ASSUME TablesTypeOK, NoOverdraft,
         NEW more, more \subseteq LedgerTxn, IsFiniteSet(more),
         \A e \in more : e.type # "DEBIT",
         ledger' = ledger \cup more
  PROVE  NoOverdraft'
<1> SUFFICES ASSUME NEW c \in Competitions, NEW u \in Users
             PROVE  Balance(c, u)' >= 0
  BY DEF NoOverdraft
<1> DEFINE mine == {e \in more : e.competition = c /\ e.user = u}
<1>1. Account(c, u)' = Account(c, u) \cup mine
  BY DEF Account
<1>2. /\ mine \subseteq LedgerTxn /\ mine \in SUBSET more
      /\ \A e \in mine : e.type # "DEBIT"
  OBVIOUS
<1> HIDE DEF mine
<1>3. IsFiniteSet(mine)
  BY <1>2, FS_Subset
<1>4. Account(c, u) \subseteq LedgerTxn /\ IsFiniteSet(Account(c, u))
  BY AccountFinite
<1>5. Net(Account(c, u) \cup mine) >= Net(Account(c, u))
  BY <1>2, <1>3, <1>4, NetOfIncome
<1>6. Net(Account(c, u)) \in Int
  BY <1>4, NetType
<1>7. Account(c, u) \cup mine \subseteq LedgerTxn /\ IsFiniteSet(Account(c, u) \cup mine)
  BY <1>2, <1>3, <1>4, FS_Union
<1>8. Net(Account(c, u) \cup mine) \in Int
  BY <1>7, NetType
<1>9. Net(Account(c, u)) >= 0
  BY DEF NoOverdraft, Balance
<1>10. Balance(c, u)' = Net(Account(c, u)')
  BY DEF Balance
<1>. QED
  BY <1>1, <1>5, <1>6, <1>8, <1>9, <1>10

\* A stake the balance covers leaves it at or above zero, and touches no other.
LEMMA StakeKeepsNoOverdraft ==
  ASSUME TablesTypeOK, NoOverdraft,
         NEW c \in Competitions, NEW u \in Users, NEW s \in Selections,
         NEW stake \in Stakes, NEW k \in Keys, NEW m \in Markets, NEW r \in Requests,
         Balance(c, u) >= stake,
         WritePlace(c, u, s, stake, k, m, r)
  PROVE  NoOverdraft'
<1> DEFINE e == Entry(c, u, "DEBIT", stake, k, m, r)
<1>1. stake \in Nat
  BY MoneyAssumption
<1>2. /\ e \in LedgerTxn
      /\ e.competition = c /\ e.user = u /\ e.type = "DEBIT" /\ e.amount = stake
  BY <1>1, EntryType DEF LedgerType
<1>3. ledger' = ledger \cup {e}
  BY DEF WritePlace
<1> HIDE DEF e
<1> SUFFICES ASSUME NEW cc \in Competitions, NEW uu \in Users
             PROVE  Balance(cc, uu)' >= 0
  BY DEF NoOverdraft
<1>4. Balance(cc, uu)' = Net(Account(cc, uu)')
  BY DEF Balance
<1>5. CASE cc = c /\ uu = u
  <2>1. Account(c, u)' = Account(c, u) \cup {e}
    BY <1>2, <1>3 DEF Account
  <2>2. Account(c, u) \subseteq LedgerTxn /\ IsFiniteSet(Account(c, u))
    BY AccountFinite
  <2>3. Net(Account(c, u) \cup {e}) >= Net(Account(c, u)) - e.amount
    BY <1>2, <2>2, NetOfDebit
  <2>4. Account(c, u) \cup {e} \subseteq LedgerTxn /\ IsFiniteSet(Account(c, u) \cup {e})
    BY <1>2, <2>2, FS_AddElement
  <2>5. Net(Account(c, u)) \in Int /\ Net(Account(c, u) \cup {e}) \in Int
    BY <2>2, <2>4, NetType
  <2>6. Net(Account(c, u)) >= stake
    BY DEF Balance
  <2>. QED
    BY <1>1, <1>2, <1>4, <1>5, <2>1, <2>3, <2>5, <2>6
<1>6. CASE ~(cc = c /\ uu = u)
  <2>1. Account(cc, uu)' = Account(cc, uu)
    BY <1>2, <1>3, <1>6 DEF Account
  <2>. QED
    BY <1>4, <2>1 DEF NoOverdraft, Balance
<1>. QED
  BY <1>5, <1>6

\* At the start every account holds one starting credit or nothing.
LEMMA InitNoOverdraft == TablesInit => NoOverdraft
<1> SUFFICES ASSUME TablesInit, NEW c \in Competitions, NEW u \in Users
             PROVE  Balance(c, u) >= 0
  BY DEF NoOverdraft
<1>1. TablesTypeOK
  BY InitTablesTypeOK
<1>2. Account(c, u) \subseteq LedgerTxn /\ IsFiniteSet(Account(c, u))
  BY <1>1, AccountFinite
<1>3. \A e \in Account(c, u) : e.type # "DEBIT"
  BY DEF TablesInit, Account, Entry
<1>4. {} \subseteq LedgerTxn /\ IsFiniteSet({})
  BY FS_EmptySet
<1>5. Net({} \cup Account(c, u)) >= Net({})
  BY <1>2, <1>3, <1>4, NetOfIncome
<1>6. {} \cup Account(c, u) = Account(c, u)
  OBVIOUS
<1>7. Net({}) = 0
  <2>1. Debits({}) = {} /\ {} \ Debits({}) = {}
    BY DEF Debits
  <2>2. Chips({}) \in Nat
    BY <1>4, PiecesFinite
  <2>. QED
    BY <2>1, <2>2 DEF Net
<1>. QED
  BY <1>5, <1>6, <1>7 DEF Balance

-----------------------------------------------------------------------------
(* The steps of the game. *)

Moves(m, to) ==
  /\ \/ status[m] = "ABSENT" /\ to = "DRAFT"
     \/ status[m] = "DRAFT" /\ to = "OPEN"
     \/ status[m] = "OPEN" /\ to = "CLOSED"
  /\ WriteStatus(m, to)

Settles(winner, r) ==
  /\ status[MarketOf[winner]] = "CLOSED"
  /\ WriteSettle(CompetitionOf[MarketOf[winner]], MarketOf[winner], winner,
                 Pending(MarketOf[winner]), r)

Wagers(u, s, stake, k, r) ==
  /\ <<CompetitionOf[MarketOf[s]], u>> \in member
  /\ bet[k] = None
  /\ status[MarketOf[s]] = "OPEN"
  /\ Balance(CompetitionOf[MarketOf[s]], u) >= stake
  /\ WritePlace(CompetitionOf[MarketOf[s]], u, s, stake, k, MarketOf[s], r)

Undoes(k, r) ==
  /\ bet[k] # None
  /\ bet[k].status = "PENDING"
  /\ status[MarketOf[bet[k].selection]] = "OPEN"
  /\ WriteUndo(bet[k].competition, k, r)

Joins(c, u, r) == WriteJoin(c, u, StartingCredits(c, u) = {}, r)

BookStep ==
  \/ \E m \in Markets, to \in {"DRAFT", "OPEN", "CLOSED"} : Moves(m, to)
  \/ \E s \in Selections, r \in Requests : Settles(s, r)
  \/ \E u \in Users, s \in Selections, stake \in Stakes, k \in Keys, r \in Requests :
       Wagers(u, s, stake, k, r)
  \/ \E k \in Keys, r \in Requests : Undoes(k, r)
  \/ \E c \in Competitions, u \in Users, r \in Requests : Joins(c, u, r)
  \/ UNCHANGED tables

-----------------------------------------------------------------------------
(* Types and balances. *)

LEMMA StepKeepsTypes ==
  ASSUME TablesTypeOK, BookStep
  PROVE  TablesTypeOK'
<1>1. ASSUME NEW m \in Markets, NEW to \in {"DRAFT", "OPEN", "CLOSED"}, Moves(m, to)
      PROVE  TablesTypeOK'
  BY <1>1, WriteStatusType DEF Moves, MarketStatus
<1>2. ASSUME NEW s \in Selections, NEW r \in Requests, Settles(s, r)
      PROVE  TablesTypeOK'
  <2>1. MarketOf[s] \in Markets /\ CompetitionOf[MarketOf[s]] \in Competitions
    BY ShapeAssumption
  <2>2. Pending(MarketOf[s]) \in SUBSET Keys /\ \A k \in Pending(MarketOf[s]) : bet[k] # None
    BY DEF Pending, BetsOn
  <2>. QED
    BY <1>2, <2>1, <2>2, WriteSettleType DEF Settles
<1>3. ASSUME NEW u \in Users, NEW s \in Selections, NEW stake \in Stakes, NEW k \in Keys,
             NEW r \in Requests, Wagers(u, s, stake, k, r)
      PROVE  TablesTypeOK'
  <2>1. MarketOf[s] \in Markets /\ CompetitionOf[MarketOf[s]] \in Competitions
    BY ShapeAssumption
  <2>. QED
    BY <1>3, <2>1, WritePlaceType DEF Wagers
<1>4. ASSUME NEW k \in Keys, NEW r \in Requests, Undoes(k, r)
      PROVE  TablesTypeOK'
  <2>1. bet[k].competition \in Competitions
    BY <1>4 DEF Undoes, TablesTypeOK, Bet
  <2>. QED
    BY <1>4, <2>1, WriteUndoType DEF Undoes
<1>5. ASSUME NEW c \in Competitions, NEW u \in Users, NEW r \in Requests, Joins(c, u, r)
      PROVE  TablesTypeOK'
  BY <1>5, WriteJoinType DEF Joins
<1>6. ASSUME UNCHANGED tables
      PROVE  TablesTypeOK'
  BY <1>6 DEF tables, TablesTypeOK
<1>. QED
  BY <1>1, <1>2, <1>3, <1>4, <1>5, <1>6 DEF BookStep

LEMMA StepKeepsNoOverdraft ==
  ASSUME TablesTypeOK, NoOverdraft, BookStep
  PROVE  NoOverdraft'
<1>1. ASSUME NEW m \in Markets, NEW to \in {"DRAFT", "OPEN", "CLOSED"}, Moves(m, to)
      PROVE  NoOverdraft'
  BY <1>1 DEF Moves, WriteStatus, NoOverdraft, Balance, Account
<1>2. ASSUME NEW s \in Selections, NEW r \in Requests, Settles(s, r)
      PROVE  NoOverdraft'
  <2> DEFINE m == MarketOf[s]
             c == CompetitionOf[m]
             won == {k \in Pending(m) : bet[k].selection = s}
  <2>1. m \in Markets /\ c \in Competitions
    BY ShapeAssumption
  <2>2. won \in SUBSET Keys /\ \A k \in won : bet[k] # None
    BY DEF Pending, BetsOn
  <2>3. ledger' = ledger \cup Payouts(c, m, won, r)
    BY <1>2 DEF Settles, WriteSettle
  <2> HIDE DEF m, c, won
  <2>4. /\ Payouts(c, m, won, r) \subseteq LedgerTxn /\ IsFiniteSet(Payouts(c, m, won, r))
        /\ \A e \in Payouts(c, m, won, r) : e.type = "PAYOUT"
    BY <2>1, <2>2, PayoutRows
  <2>5. \A e \in Payouts(c, m, won, r) : e.type # "DEBIT"
    BY <2>4
  <2>. QED
    BY <2>3, <2>4, <2>5, IncomeKeepsNoOverdraft
<1>3. ASSUME NEW u \in Users, NEW s \in Selections, NEW stake \in Stakes, NEW k \in Keys,
             NEW r \in Requests, Wagers(u, s, stake, k, r)
      PROVE  NoOverdraft'
  <2>1. MarketOf[s] \in Markets /\ CompetitionOf[MarketOf[s]] \in Competitions
    BY ShapeAssumption
  <2>. QED
    BY <1>3, <2>1, StakeKeepsNoOverdraft DEF Wagers
<1>4. ASSUME NEW k \in Keys, NEW r \in Requests, Undoes(k, r)
      PROVE  NoOverdraft'
  <2> DEFINE e == Entry(bet[k].competition, bet[k].user, "REFUND", bet[k].stake, k,
                        MarketOf[bet[k].selection], r)
  <2>1. bet[k] \in Bet
    BY <1>4 DEF Undoes, TablesTypeOK
  <2>2. /\ bet[k].competition \in Competitions /\ bet[k].user \in Users
        /\ bet[k].stake \in Nat /\ MarketOf[bet[k].selection] \in Markets
    BY <2>1, MoneyAssumption, ShapeAssumption DEF Bet
  <2>3. e \in LedgerTxn /\ e.type = "REFUND"
    BY <2>2, EntryType DEF LedgerType
  <2>4. ledger' = ledger \cup {e}
    BY <1>4 DEF Undoes, WriteUndo
  <2> HIDE DEF e
  <2>5. {e} \subseteq LedgerTxn /\ IsFiniteSet({e}) /\ \A x \in {e} : x.type # "DEBIT"
    BY <2>3, FS_Singleton
  <2>. QED
    BY <2>4, <2>5, IncomeKeepsNoOverdraft
<1>5. ASSUME NEW c \in Competitions, NEW u \in Users, NEW r \in Requests, Joins(c, u, r)
      PROVE  NoOverdraft'
  <2> DEFINE e == Entry(c, u, "CREDIT", StartingChips[c], None, None, r)
  <2>1. e \in LedgerTxn /\ e.type = "CREDIT"
    <3>1. StartingChips[c] \in Nat
      BY MoneyAssumption
    <3>. QED
      BY <3>1, EntryType DEF LedgerType
  <2>2. ledger' = ledger \/ ledger' = ledger \cup {e}
    BY <1>5 DEF Joins, WriteJoin
  <2> HIDE DEF e
  <2>3. {e} \subseteq LedgerTxn /\ IsFiniteSet({e}) /\ \A x \in {e} : x.type # "DEBIT"
    BY <2>1, FS_Singleton
  <2>4. CASE ledger' = ledger
    BY <2>4 DEF NoOverdraft, Balance, Account
  <2>5. CASE ledger' = ledger \cup {e}
    BY <2>3, <2>5, IncomeKeepsNoOverdraft
  <2>. QED
    BY <2>2, <2>4, <2>5
<1>6. ASSUME UNCHANGED tables
      PROVE  NoOverdraft'
  BY <1>6 DEF tables, NoOverdraft, Balance, Account
<1>. QED
  BY <1>1, <1>2, <1>3, <1>4, <1>5, <1>6 DEF BookStep

-----------------------------------------------------------------------------
(* Bets and the markets they are on. *)

\* The selection of a bet, and its market, are there.
LEMMA BetFields ==
  ASSUME TablesTypeOK, NEW k \in Keys, bet[k] # None
  PROVE  /\ bet[k] \in Bet
         /\ bet[k].selection \in Selections /\ MarketOf[bet[k].selection] \in Markets
         /\ bet[k].competition \in Competitions /\ bet[k].user \in Users
         /\ bet[k].status \in BetStatus
<1>1. bet[k] \in Bet
  BY DEF TablesTypeOK
<1>. QED
  BY <1>1, ShapeAssumption DEF Bet

\* Nothing changes what a bet that is there is about.
LEMMA BetsStay ==
  ASSUME TablesTypeOK, BookStep, NEW k \in Keys, bet[k] # None
  PROVE  /\ bet'[k] # None
         /\ bet'[k].selection = bet[k].selection /\ bet'[k].competition = bet[k].competition
         /\ bet'[k].user = bet[k].user /\ bet'[k].stake = bet[k].stake
         /\ bet'[k].return = bet[k].return
<1>1. bet[k] \in Bet /\ None \notin Bet /\ bet \in [Keys -> Bet \cup {None}]
  BY BetFields, NoneAssumption DEF TablesTypeOK
<1>2. \A x \in BetStatus : [bet[k] EXCEPT !.status = x] \in Bet
  BY <1>1 DEF Bet
<1>3. ASSUME NEW s \in Selections, NEW r \in Requests, Settles(s, r)
      PROVE  bet'[k] = bet[k] \/ \E x \in BetStatus : bet'[k] = [bet[k] EXCEPT !.status = x]
  BY <1>3 DEF Settles, WriteSettle, BetStatus
<1>4. ASSUME NEW j \in Keys, NEW r \in Requests, Undoes(j, r)
      PROVE  bet'[k] = bet[k] \/ \E x \in BetStatus : bet'[k] = [bet[k] EXCEPT !.status = x]
  BY <1>1, <1>4 DEF Undoes, WriteUndo, BetStatus
<1>5. ASSUME NEW u \in Users, NEW s \in Selections, NEW stake \in Stakes, NEW j \in Keys,
             NEW r \in Requests, Wagers(u, s, stake, j, r)
      PROVE  bet'[k] = bet[k]
  BY <1>1, <1>5 DEF Wagers, WritePlace
<1>6. bet'[k] = bet[k] \/ \E x \in BetStatus : bet'[k] = [bet[k] EXCEPT !.status = x]
  BY <1>3, <1>4, <1>5 DEF BookStep, Moves, WriteStatus, Joins, WriteJoin, tables
<1>. QED
  BY <1>1, <1>2, <1>6 DEF Bet

-----------------------------------------------------------------------------
(* StakesBelong *)

LEMMA StepKeepsStakesBelong ==
  ASSUME TablesTypeOK, StakesBelong, BookStep
  PROVE  StakesBelong'
<1> USE DEF StakesBelong
<1>1. ASSUME NEW m \in Markets, NEW to \in {"DRAFT", "OPEN", "CLOSED"}, Moves(m, to)
      PROVE  StakesBelong'
  <2> SUFFICES ASSUME NEW k \in Keys, bet[k] # None
               PROVE  status'[MarketOf[bet[k].selection]] \in {"OPEN", "CLOSED", "SETTLED"}
    BY <1>1 DEF Moves, WriteStatus
  <2>. QED
    BY <1>1, BetFields DEF Moves, WriteStatus, TablesTypeOK
<1>2. ASSUME NEW s \in Selections, NEW r \in Requests, Settles(s, r)
      PROVE  StakesBelong'
  <2> SUFFICES ASSUME NEW k \in Keys, bet'[k] # None
               PROVE  /\ bet'[k].competition = CompetitionOf[MarketOf[bet'[k].selection]]
                      /\ <<bet'[k].competition, bet'[k].user>> \in member
                      /\ status'[MarketOf[bet'[k].selection]] \in {"OPEN", "CLOSED", "SETTLED"}
    BY <1>2 DEF Settles, WriteSettle
  <2>1. bet[k] # None
    BY <1>2 DEF Settles, WriteSettle, Pending, BetsOn
  <2>2. BookStep
    BY <1>2 DEF BookStep
  <2>3. /\ bet'[k].selection = bet[k].selection /\ bet'[k].competition = bet[k].competition
        /\ bet'[k].user = bet[k].user
    BY <2>1, <2>2, BetsStay
  <2>4. status' = [status EXCEPT ![MarketOf[s]] = "SETTLED"]
    BY <1>2 DEF Settles, WriteSettle
  <2>. QED
    BY <2>1, <2>3, <2>4, BetFields DEF TablesTypeOK
<1>3. ASSUME NEW u \in Users, NEW s \in Selections, NEW stake \in Stakes, NEW k \in Keys,
             NEW r \in Requests, Wagers(u, s, stake, k, r)
      PROVE  StakesBelong'
  BY <1>3 DEF Wagers, WritePlace, TablesTypeOK
<1>4. ASSUME NEW k \in Keys, NEW r \in Requests, Undoes(k, r)
      PROVE  StakesBelong'
  <2>1. bet' = [bet EXCEPT ![k].status = "VOID"] /\ bet[k] \in Bet
    BY <1>4, BetFields DEF Undoes, WriteUndo
  <2>2. /\ bet'[k].selection = bet[k].selection /\ bet'[k].competition = bet[k].competition
        /\ bet'[k].user = bet[k].user /\ bet[k] # None
    BY <1>4, BetsStay DEF Undoes
  <2>3. UNCHANGED <<status, member>> /\ \A j \in Keys \ {k} : bet'[j] = bet[j]
    BY <1>4, <2>1 DEF Undoes, WriteUndo, TablesTypeOK
  <2>. QED
    BY <2>2, <2>3
<1>5. ASSUME NEW c \in Competitions, NEW u \in Users, NEW r \in Requests, Joins(c, u, r)
      PROVE  StakesBelong'
  BY <1>5 DEF Joins, WriteJoin
<1>6. CASE UNCHANGED tables
  BY <1>6 DEF tables
<1>. QED
  BY <1>1, <1>2, <1>3, <1>4, <1>5, <1>6 DEF BookStep

-----------------------------------------------------------------------------
(* SettlementComplete, market by market *)

Verdict(s) == IF selection[s] = "WINNER" THEN "WON" ELSE "LOST"

Options(m) == {s \in Selections : MarketOf[s] = m}

OneWinner(m) ==
  \E w \in Options(m) : \A s \in Options(m) :
    selection[s] = IF s = w THEN "WINNER" ELSE "LOSER"

SettledWell(m) ==
  IF status[m] = "SETTLED"
  THEN /\ OneWinner(m)
       /\ \A k \in BetsOn(m) : bet[k].status \in {"VOID", Verdict(bet[k].selection)}
  ELSE /\ \A s \in Options(m) : selection[s] = "ACTIVE"
       /\ \A k \in BetsOn(m) : bet[k].status \in {"PENDING", "VOID"}

LEMMA SettlementByMarket ==
  /\ SettlementComplete <=> \A m \in Markets : SettledWell(m)
  /\ SettlementComplete' <=> \A m \in Markets : SettledWell(m)'
<1>1. SettlementComplete <=> \A m \in Markets : SettledWell(m)
  BY DEF SettlementComplete, SettledWell, OneWinner, Options, Verdict
<1>2. SettlementComplete' <=> \A m \in Markets : SettledWell(m)'
  BY DEF SettlementComplete, SettledWell, OneWinner, Options, Verdict
<1>. QED
  BY <1>1, <1>2

\* A market that a step does not touch stays as well settled as it was.
LEMMA UntouchedMarket ==
  ASSUME TablesTypeOK, NEW m \in Markets, SettledWell(m),
         status'[m] = status[m],
         \A s \in Options(m) : selection'[s] = selection[s],
         BetsOn(m)' = BetsOn(m), \A k \in BetsOn(m) : bet'[k] = bet[k]
  PROVE  SettledWell(m)'
<1>1. OneWinner(m)' <=> OneWinner(m)
  BY DEF OneWinner, Options
<1>2. \A k \in BetsOn(m) : bet[k].selection \in Options(m)
  BY BetFields DEF BetsOn, Options
<1>3. Options(m)' = Options(m)
  BY DEF Options
<1>. QED
  BY <1>1, <1>2, <1>3 DEF SettledWell, Verdict

\* The stakes on a market, and what a step makes of them.
LEMMA SettlesEffect ==
  ASSUME TablesTypeOK, NEW s \in Selections, NEW r \in Requests, Settles(s, r)
  PROVE  LET m == MarketOf[s] IN
         /\ status' = [status EXCEPT ![m] = "SETTLED"]
         /\ \A x \in Selections : selection'[x] =
              IF MarketOf[x] # m THEN selection[x]
              ELSE IF x = s THEN "WINNER" ELSE "LOSER"
         /\ \A k \in Keys \ Pending(m) : bet'[k] = bet[k]
         /\ \A k \in Pending(m) :
              bet'[k].status = IF bet[k].selection = s THEN "WON" ELSE "LOST"
         /\ \A n \in Markets : BetsOn(n)' = BetsOn(n)
<1> DEFINE m == MarketOf[s]
<1>1. \A k \in Pending(m) : bet[k] # None /\ bet[k] \in Bet
  BY BetFields DEF Pending, BetsOn
<1>2. \A k \in Pending(m) :
        bet'[k] = [bet[k] EXCEPT !.status = IF bet[k].selection = s THEN "WON" ELSE "LOST"]
  BY DEF Settles, WriteSettle, Pending, BetsOn
<1>3. \A k \in Pending(m) :
        bet'[k].status = IF bet[k].selection = s THEN "WON" ELSE "LOST"
  BY <1>1, <1>2 DEF Bet
<1>4. \A k \in Keys \ Pending(m) : bet'[k] = bet[k]
  BY DEF Settles, WriteSettle
<1>5. \A k \in Pending(m) : bet'[k] # None /\ bet'[k].selection = bet[k].selection
  BY <1>1, BetsStay DEF BookStep, Pending, BetsOn
<1>6. \A n \in Markets : BetsOn(n)' = BetsOn(n)
  BY <1>1, <1>4, <1>5 DEF BetsOn
<1>7. /\ status' = [status EXCEPT ![m] = "SETTLED"]
      /\ \A x \in Selections : selection'[x] =
              IF MarketOf[x] # m THEN selection[x]
              ELSE IF x = s THEN "WINNER" ELSE "LOSER"
  BY DEF Settles, WriteSettle
<1>. QED
  BY <1>3, <1>4, <1>6, <1>7

LEMMA UndoesEffect ==
  ASSUME TablesTypeOK, NEW k \in Keys, NEW r \in Requests, Undoes(k, r)
  PROVE  /\ bet'[k] \in Bet /\ bet'[k] # None /\ bet'[k].status = "VOID"
         /\ bet'[k].selection = bet[k].selection
         /\ \A j \in Keys \ {k} : bet'[j] = bet[j]
         /\ \A n \in Markets : BetsOn(n)' = BetsOn(n)
<1>1. bet[k] \in Bet /\ bet' = [bet EXCEPT ![k].status = "VOID"] /\ bet[k] # None
  BY BetFields DEF Undoes, WriteUndo
<1>2. bet'[k] = [bet[k] EXCEPT !.status = "VOID"] /\ \A j \in Keys \ {k} : bet'[j] = bet[j]
  BY <1>1 DEF TablesTypeOK
<1>3. /\ bet'[k] \in Bet /\ bet'[k].status = "VOID"
      /\ bet'[k].selection = bet[k].selection
  BY <1>1, <1>2 DEF Bet, BetStatus
<1>4. bet'[k] # None
  BY <1>3, NoneAssumption
<1>. QED
  BY <1>1, <1>2, <1>3, <1>4 DEF BetsOn

LEMMA WagersEffect ==
  ASSUME TablesTypeOK, NEW u \in Users, NEW s \in Selections, NEW stake \in Stakes,
         NEW k \in Keys, NEW r \in Requests, Wagers(u, s, stake, k, r)
  PROVE  /\ bet'[k] # None /\ bet'[k].status = "PENDING" /\ bet'[k].selection = s
         /\ bet'[k].competition = CompetitionOf[MarketOf[s]] /\ bet'[k].user = u
         /\ bet'[k].stake = stake
         /\ \A j \in Keys \ {k} : bet'[j] = bet[j]
         /\ \A n \in Markets \ {MarketOf[s]} : BetsOn(n)' = BetsOn(n)
         /\ BetsOn(MarketOf[s])' = BetsOn(MarketOf[s]) \cup {k}
<1>1. MarketOf[s] \in Markets /\ CompetitionOf[MarketOf[s]] \in Competitions
  BY ShapeAssumption
<1>2. Return[s][stake] \in Nat
  BY MoneyAssumption
<1>3. /\ bet'[k] = [competition |-> CompetitionOf[MarketOf[s]], user |-> u, selection |-> s,
                    stake |-> stake, return |-> Return[s][stake], status |-> "PENDING"]
      /\ \A j \in Keys \ {k} : bet'[j] = bet[j]
      /\ bet[k] = None
  BY DEF Wagers, WritePlace, TablesTypeOK
<1>4. bet'[k] \in Bet
  BY <1>1, <1>2, <1>3 DEF Bet, BetStatus
<1>5. bet'[k] # None /\ bet'[k].selection = s
  BY <1>3, <1>4, NoneAssumption
<1>. QED
  BY <1>3, <1>5 DEF BetsOn

LEMMA StepKeepsSettlementComplete ==
  ASSUME TablesTypeOK, SettlementComplete, BookStep
  PROVE  SettlementComplete'
<1> SUFFICES ASSUME NEW n \in Markets PROVE SettledWell(n)'
  BY SettlementByMarket
<1>0. SettledWell(n)
  BY SettlementByMarket
<1>1. ASSUME NEW m \in Markets, NEW to \in {"DRAFT", "OPEN", "CLOSED"}, Moves(m, to)
      PROVE  SettledWell(n)'
  <2>1. /\ UNCHANGED <<selection, bet>>
        /\ status'[n] = "SETTLED" <=> status[n] = "SETTLED"
    BY <1>1 DEF Moves, WriteStatus, TablesTypeOK
  <2>. QED
    BY <1>0, <2>1 DEF SettledWell, OneWinner, Verdict, Options, BetsOn
<1>2. ASSUME NEW s \in Selections, NEW r \in Requests, Settles(s, r)
      PROVE  SettledWell(n)'
  <2>1. CASE n = MarketOf[s]
    <3>1. status'[n] = "SETTLED"
      BY <1>2, <2>1, SettlesEffect DEF TablesTypeOK
    <3>2. OneWinner(n)'
      BY <1>2, <2>1, SettlesEffect DEF OneWinner, Options
    <3>3. ASSUME NEW k \in BetsOn(n)'
          PROVE  bet'[k].status \in
                   {"VOID", IF selection'[bet[k].selection] = "WINNER" THEN "WON" ELSE "LOST"}
      <4>1. k \in BetsOn(n)
        BY <1>2, <3>3, SettlesEffect
      <4>2. /\ bet[k].selection \in Selections /\ MarketOf[bet[k].selection] = n
            /\ k \in Keys /\ bet[k] # None
        BY <4>1, BetFields DEF BetsOn
      <4>3. CASE k \in Pending(n)
        BY <1>2, <2>1, <4>2, <4>3, SettlesEffect
      <4>4. CASE k \notin Pending(n)
        <5>1. status[n] # "SETTLED"
          BY <1>2, <2>1 DEF Settles
        <5>2. bet[k].status \in {"PENDING", "VOID"}
          BY <1>0, <4>1, <5>1 DEF SettledWell
        <5>3. bet[k].status # "PENDING"
          BY <4>1, <4>4 DEF Pending
        <5>4. bet'[k] = bet[k]
          BY <1>2, <2>1, <4>2, <4>4, SettlesEffect
        <5>. QED
          BY <5>2, <5>3, <5>4
      <4>. QED
        BY <4>3, <4>4
    <3>4. \A k \in BetsOn(n)' : bet'[k].selection = bet[k].selection
      <4>1. BookStep /\ BetsOn(n)' = BetsOn(n)
        BY <1>2, SettlesEffect DEF BookStep
      <4>. QED
        BY <4>1, BetsStay DEF BetsOn
    <3>. QED
      BY <3>1, <3>2, <3>3, <3>4 DEF SettledWell, Verdict
  <2>2. CASE n # MarketOf[s]
    <3>1. \A k \in BetsOn(n) : k \notin Pending(MarketOf[s]) /\ k \in Keys
      BY <2>2 DEF BetsOn, Pending
    <3>2. /\ status'[n] = status[n]
          /\ \A x \in Options(n) : selection'[x] = selection[x]
          /\ BetsOn(n)' = BetsOn(n) /\ \A k \in BetsOn(n) : bet'[k] = bet[k]
      BY <1>2, <2>2, <3>1, SettlesEffect DEF Options, TablesTypeOK
    <3>. QED
      BY <1>0, <3>2, UntouchedMarket
  <2>. QED
    BY <2>1, <2>2
<1>3. ASSUME NEW u \in Users, NEW s \in Selections, NEW stake \in Stakes, NEW k \in Keys,
             NEW r \in Requests, Wagers(u, s, stake, k, r)
      PROVE  SettledWell(n)'
  <2>1. UNCHANGED <<status, selection>> /\ status[MarketOf[s]] = "OPEN" /\ bet[k] = None
    BY <1>3 DEF Wagers, WritePlace
  <2>2. k \notin BetsOn(n)
    BY <2>1 DEF BetsOn
  <2>3. \A j \in BetsOn(n) : bet'[j] = bet[j]
    BY <1>3, <2>2, WagersEffect DEF BetsOn
  <2>4. CASE n = MarketOf[s]
    BY <1>0, <1>3, <2>1, <2>3, <2>4, WagersEffect DEF SettledWell, Options
  <2>5. CASE n # MarketOf[s]
    BY <1>0, <1>3, <2>1, <2>3, <2>5, WagersEffect, UntouchedMarket
  <2>. QED
    BY <2>4, <2>5
<1>4. ASSUME NEW k \in Keys, NEW r \in Requests, Undoes(k, r)
      PROVE  SettledWell(n)'
  <2>1. UNCHANGED <<status, selection>> /\ status[MarketOf[bet[k].selection]] = "OPEN"
    BY <1>4 DEF Undoes, WriteUndo
  <2>2. BetsOn(n)' = BetsOn(n) /\ \A j \in BetsOn(n) \ {k} : bet'[j] = bet[j]
    BY <1>4, UndoesEffect DEF BetsOn
  <2>3. CASE k \in BetsOn(n)
    BY <1>0, <1>4, <2>1, <2>2, <2>3, UndoesEffect DEF SettledWell, Options, BetsOn
  <2>4. CASE k \notin BetsOn(n)
    BY <1>0, <2>1, <2>2, <2>4, UntouchedMarket
  <2>. QED
    BY <2>3, <2>4
<1>5. ASSUME NEW c \in Competitions, NEW u \in Users, NEW r \in Requests, Joins(c, u, r)
      PROVE  SettledWell(n)'
  BY <1>0, <1>5 DEF Joins, WriteJoin, SettledWell, OneWinner, Verdict, Options, BetsOn
<1>6. CASE UNCHANGED tables
  BY <1>0, <1>6 DEF tables, SettledWell, OneWinner, Verdict, Options, BetsOn
<1>. QED
  BY <1>1, <1>2, <1>3, <1>4, <1>5, <1>6 DEF BookStep

-----------------------------------------------------------------------------
(* LedgerMatchesBets, key by key *)

Told(k) ==
  IF bet[k] = None
  THEN \A e \in ledger : e.bet # k
  ELSE /\ Moved(k, "DEBIT", bet[k].stake)
       /\ IF bet[k].status = "VOID" THEN Moved(k, "REFUND", bet[k].stake)
          ELSE Movements(k, "REFUND") = {}
       /\ IF bet[k].status = "WON" THEN Moved(k, "PAYOUT", bet[k].return)
          ELSE Movements(k, "PAYOUT") = {}

LEMMA LedgerByKey ==
  /\ LedgerMatchesBets <=> \A k \in Keys : Told(k)
  /\ LedgerMatchesBets' <=> \A k \in Keys : Told(k)'
<1>1. LedgerMatchesBets <=> \A k \in Keys : Told(k)
  BY DEF LedgerMatchesBets, Told
<1>2. LedgerMatchesBets' <=> \A k \in Keys : Told(k)'
  BY DEF LedgerMatchesBets, Told
<1>. QED
  BY <1>1, <1>2

\* A step that leaves a bet alone and adds rows of other bets only.
LEMMA UntouchedKey ==
  ASSUME NEW k \in Keys, Told(k), bet'[k] = bet[k],
         NEW more, ledger' = ledger \cup more, \A e \in more : e.bet # k
  PROVE  Told(k)'
<1>1. \A type : Movements(k, type)' = Movements(k, type)
  BY DEF Movements
<1>2. \A type, amount : Moved(k, type, amount)' <=> Moved(k, type, amount)
  BY <1>1 DEF Moved
<1>. QED
  BY <1>1, <1>2 DEF Told

LEMMA StepKeepsLedger ==
  ASSUME TablesTypeOK, StakesBelong, LedgerMatchesBets, BookStep
  PROVE  LedgerMatchesBets'
<1> SUFFICES ASSUME NEW k \in Keys PROVE Told(k)'
  BY LedgerByKey
<1>0. Told(k)
  BY LedgerByKey
<1>1. ASSUME NEW m \in Markets, NEW to \in {"DRAFT", "OPEN", "CLOSED"}, Moves(m, to)
      PROVE  Told(k)'
  BY <1>0, <1>1 DEF Moves, WriteStatus, Told, Moved, Movements
<1>2. ASSUME NEW s \in Selections, NEW r \in Requests, Settles(s, r)
      PROVE  Told(k)'
  <2> DEFINE m == MarketOf[s]
             won == {j \in Pending(m) : bet[j].selection = s}
             more == Payouts(CompetitionOf[m], m, won, r)
  <2>1. ledger' = ledger \cup more
    BY <1>2 DEF Settles, WriteSettle
  <2>2. \A x \in more : x.bet \in won
    BY DEF Payouts, Entry
  <2>3. CASE k \in won
    <3>1. k \in Pending(m) /\ bet[k] # None /\ bet[k].status = "PENDING"
      BY <2>3 DEF Pending, BetsOn
    <3>2. bet'[k].status = "WON"
      BY <1>2, <2>3, <3>1, SettlesEffect
    <3>3. /\ bet'[k] # None
          /\ bet'[k].selection = s /\ bet'[k].competition = bet[k].competition
          /\ bet'[k].user = bet[k].user /\ bet'[k].stake = bet[k].stake
          /\ bet'[k].return = bet[k].return
      BY <1>2, <2>3, <3>1, BetsStay DEF BookStep
    <3>4. bet[k].competition = CompetitionOf[m] /\ bet[k].selection = s
      BY <2>3, <3>1 DEF StakesBelong
    <3>5. Movements(k, "REFUND") = {} /\ Movements(k, "PAYOUT") = {}
          /\ Moved(k, "DEBIT", bet[k].stake)
      BY <1>0, <3>1 DEF Told
    <3> DEFINE e == Entry(bet'[k].competition, bet'[k].user, "PAYOUT", bet[k].return, k,
                          MarketOf[bet'[k].selection], r)
    <3>6. /\ e \in more /\ e.bet = k /\ e.type = "PAYOUT"
          /\ \A x \in more : x.bet = k => x = e
      BY <2>3, <3>3, <3>4 DEF Payouts, Entry
    <3> HIDE DEF e, more, won
    <3>7. /\ Movements(k, "PAYOUT")' = {e}
          /\ Movements(k, "DEBIT")' = Movements(k, "DEBIT")
          /\ Movements(k, "REFUND")' = Movements(k, "REFUND")
      <4>1. Movements(k, "PAYOUT")' = {e}
        BY <2>1, <3>5, <3>6 DEF Movements
      <4>2. Movements(k, "DEBIT")' = Movements(k, "DEBIT")
        BY <2>1, <3>6 DEF Movements
      <4>3. Movements(k, "REFUND")' = Movements(k, "REFUND")
        BY <2>1, <3>6 DEF Movements
      <4>. QED
        BY <4>1, <4>2, <4>3
    <3>8. Moved(k, "DEBIT", bet[k].stake)'
      BY <3>3, <3>4, <3>5, <3>7 DEF Moved
    <3>9. Moved(k, "PAYOUT", bet[k].return)'
      BY <3>3, <3>7 DEF Moved, e
    <3>. QED
      BY <3>2, <3>3, <3>5, <3>7, <3>8, <3>9 DEF Told
  <2>4. CASE k \notin won /\ k \in Pending(m)
    <3>1. bet[k] # None /\ bet[k].status = "PENDING" /\ bet[k].selection # s
      BY <2>4 DEF Pending, BetsOn
    <3>2. bet'[k].status = "LOST"
      BY <1>2, <2>4, <3>1, SettlesEffect
    <3>3. /\ bet'[k] # None
          /\ bet'[k].selection = bet[k].selection /\ bet'[k].competition = bet[k].competition
          /\ bet'[k].user = bet[k].user /\ bet'[k].stake = bet[k].stake
      BY <1>2, <3>1, BetsStay DEF BookStep
    <3>4. \A type : Movements(k, type)' = Movements(k, type)
      BY <2>1, <2>2, <2>4 DEF Movements
    <3>. QED
      BY <1>0, <3>1, <3>2, <3>3, <3>4 DEF Told, Moved
  <2>5. CASE k \notin Pending(m)
    <3>1. bet'[k] = bet[k]
      BY <1>2, <2>5, SettlesEffect
    <3>2. \A x \in more : x.bet # k
      BY <2>2, <2>5
    <3>. QED
      BY <1>0, <2>1, <3>1, <3>2, UntouchedKey
  <2>. QED
    BY <2>3, <2>4, <2>5
<1>3. ASSUME NEW u \in Users, NEW s \in Selections, NEW stake \in Stakes, NEW j \in Keys,
             NEW r \in Requests, Wagers(u, s, stake, j, r)
      PROVE  Told(k)'
  <2> DEFINE e == Entry(CompetitionOf[MarketOf[s]], u, "DEBIT", stake, j, MarketOf[s], r)
             more == {e}
  <2>1. ledger' = ledger \cup more /\ bet[j] = None
    BY <1>3 DEF Wagers, WritePlace
  <2>2. e.bet = j
    BY DEF Entry
  <2>3. CASE k = j
    <3>1. \A type : Movements(k, type) = {}
      BY <1>0, <2>1, <2>3 DEF Told, Movements
    <3>2. /\ bet'[k] # None /\ bet'[k].status = "PENDING" /\ bet'[k].stake = stake
          /\ e = Entry(bet'[k].competition, bet'[k].user, "DEBIT", stake, k,
                       MarketOf[bet'[k].selection], r)
      BY <1>3, <2>3, WagersEffect
    <3>3. e \in more /\ e.bet = k /\ e.type = "DEBIT" /\ \A x \in more : x = e
      BY <2>3 DEF Entry
    <3> HIDE DEF e, more
    <3>4. /\ Movements(k, "DEBIT")' = {e}
          /\ Movements(k, "REFUND")' = {} /\ Movements(k, "PAYOUT")' = {}
      <4>1. Movements(k, "DEBIT")' = {e}
        BY <2>1, <3>1, <3>3 DEF Movements
      <4>2. Movements(k, "REFUND")' = {}
        BY <2>1, <3>1, <3>3 DEF Movements
      <4>3. Movements(k, "PAYOUT")' = {}
        BY <2>1, <3>1, <3>3 DEF Movements
      <4>. QED
        BY <4>1, <4>2, <4>3
    <3>5. Moved(k, "DEBIT", bet[k].stake)'
      BY <3>2, <3>4 DEF Moved
    <3>. QED
      BY <3>2, <3>4, <3>5 DEF Told
  <2>4. CASE k # j
    <3>1. bet'[k] = bet[k]
      BY <1>3, <2>4, WagersEffect
    <3>2. \A x \in more : x.bet # k
      BY <2>2, <2>4
    <3> HIDE DEF more
    <3>. QED
      BY <1>0, <2>1, <3>1, <3>2, UntouchedKey
  <2>. QED
    BY <2>3, <2>4
<1>4. ASSUME NEW j \in Keys, NEW r \in Requests, Undoes(j, r)
      PROVE  Told(k)'
  <2> DEFINE e == Entry(bet[j].competition, bet[j].user, "REFUND", bet[j].stake, j,
                        MarketOf[bet[j].selection], r)
             more == {e}
  <2>1. /\ ledger' = ledger \cup more /\ bet[j] # None /\ bet[j].status = "PENDING"
    BY <1>4 DEF Undoes, WriteUndo
  <2>2. e.bet = j
    BY DEF Entry
  <2>3. CASE k = j
    <3>1. /\ Movements(k, "REFUND") = {} /\ Movements(k, "PAYOUT") = {}
          /\ Moved(k, "DEBIT", bet[k].stake)
      BY <1>0, <2>1, <2>3 DEF Told
    <3>2. /\ bet'[k] # None
          /\ bet'[k].selection = bet[k].selection /\ bet'[k].competition = bet[k].competition
          /\ bet'[k].user = bet[k].user /\ bet'[k].stake = bet[k].stake
      BY <1>4, <2>1, <2>3, BetsStay DEF BookStep
    <3>3. bet'[k].status = "VOID"
      BY <1>4, <2>3, UndoesEffect
    <3>4. e = Entry(bet'[k].competition, bet'[k].user, "REFUND", bet[k].stake, k,
                    MarketOf[bet'[k].selection], r)
      BY <2>3, <3>2
    <3>5. e \in more /\ e.bet = k /\ e.type = "REFUND" /\ \A x \in more : x = e
      BY <2>3 DEF Entry
    <3> HIDE DEF e, more
    <3>6. /\ Movements(k, "REFUND")' = {e}
          /\ Movements(k, "DEBIT")' = Movements(k, "DEBIT") /\ Movements(k, "PAYOUT")' = {}
      <4>1. Movements(k, "REFUND")' = {e}
        BY <2>1, <3>1, <3>5 DEF Movements
      <4>2. Movements(k, "DEBIT")' = Movements(k, "DEBIT")
        BY <2>1, <3>5 DEF Movements
      <4>3. Movements(k, "PAYOUT")' = {}
        BY <2>1, <3>1, <3>5 DEF Movements
      <4>. QED
        BY <4>1, <4>2, <4>3
    <3>7. Moved(k, "REFUND", bet[k].stake)'
      BY <3>2, <3>4, <3>6 DEF Moved
    <3>8. Moved(k, "DEBIT", bet[k].stake)'
      BY <3>1, <3>2, <3>6 DEF Moved
    <3>. QED
      BY <3>2, <3>3, <3>6, <3>7, <3>8 DEF Told
  <2>4. CASE k # j
    <3>1. bet'[k] = bet[k]
      BY <1>4, <2>4, UndoesEffect
    <3>2. \A x \in more : x.bet # k
      BY <2>2, <2>4
    <3> HIDE DEF more
    <3>. QED
      BY <1>0, <2>1, <3>1, <3>2, UntouchedKey
  <2>. QED
    BY <2>3, <2>4
<1>5. ASSUME NEW c \in Competitions, NEW u \in Users, NEW r \in Requests, Joins(c, u, r)
      PROVE  Told(k)'
  <2> DEFINE e == Entry(c, u, "CREDIT", StartingChips[c], None, None, r)
             more == IF StartingCredits(c, u) = {} THEN {e} ELSE {}
  <2>1. ledger' = ledger \cup more /\ bet'[k] = bet[k]
    BY <1>5 DEF Joins, WriteJoin
  <2>2. \A x \in more : x.bet # k
    BY NoneAssumption DEF Entry
  <2> HIDE DEF more
  <2>. QED
    BY <1>0, <2>1, <2>2, UntouchedKey
<1>6. CASE UNCHANGED tables
  BY <1>0, <1>6 DEF tables, Told, Moved, Movements
<1>. QED
  BY <1>1, <1>2, <1>3, <1>4, <1>5, <1>6 DEF BookStep

-----------------------------------------------------------------------------
(* OneStartingCredit, player by player *)

Credited(c, u) ==
  IF <<c, u>> \in member
  THEN \E e \in ledger : StartingCredits(c, u) = {e} /\ e.amount = StartingChips[c]
  ELSE StartingCredits(c, u) = {}

\* A step that adds no membership and only rows that are about bets.
LEMMA BetRowsAreNoCredit ==
  ASSUME NEW c \in Competitions, NEW u \in Users, Credited(c, u), member' = member,
         NEW more, ledger' = ledger \cup more, \A e \in more : e.bet # None
  PROVE  Credited(c, u)'
<1>1. StartingCredits(c, u)' = StartingCredits(c, u)
  BY DEF StartingCredits, Account
<1>. QED
  BY <1>1 DEF Credited

LEMMA StepKeepsOneStartingCredit ==
  ASSUME TablesTypeOK, OneStartingCredit, BookStep
  PROVE  OneStartingCredit'
<1> SUFFICES ASSUME NEW c \in Competitions, NEW u \in Users PROVE Credited(c, u)'
  BY DEF OneStartingCredit, Credited
<1>0. Credited(c, u) /\ \A k \in Keys : k # None
  BY NoneAssumption DEF OneStartingCredit, Credited
<1>1. ASSUME NEW m \in Markets, NEW to \in {"DRAFT", "OPEN", "CLOSED"}, Moves(m, to)
      PROVE  Credited(c, u)'
  BY <1>0, <1>1 DEF Moves, WriteStatus, Credited, StartingCredits, Account
<1>2. ASSUME NEW s \in Selections, NEW r \in Requests, Settles(s, r)
      PROVE  Credited(c, u)'
  <2> DEFINE m == MarketOf[s]
             won == {j \in Pending(m) : bet[j].selection = s}
             more == Payouts(CompetitionOf[m], m, won, r)
  <2>1. ledger' = ledger \cup more /\ member' = member
    BY <1>2 DEF Settles, WriteSettle
  <2>2. \A e \in more : e.bet \in Keys
    BY DEF Payouts, Entry, Pending, BetsOn
  <2> HIDE DEF more
  <2>. QED
    BY <1>0, <2>1, <2>2, BetRowsAreNoCredit
<1>3. ASSUME NEW v \in Users, NEW s \in Selections, NEW stake \in Stakes, NEW k \in Keys,
             NEW r \in Requests, Wagers(v, s, stake, k, r)
      PROVE  Credited(c, u)'
  <2> DEFINE more == {Entry(CompetitionOf[MarketOf[s]], v, "DEBIT", stake, k, MarketOf[s], r)}
  <2>1. ledger' = ledger \cup more /\ member' = member
    BY <1>3 DEF Wagers, WritePlace
  <2>2. \A e \in more : e.bet = k
    BY DEF Entry
  <2> HIDE DEF more
  <2>. QED
    BY <1>0, <2>1, <2>2, BetRowsAreNoCredit
<1>4. ASSUME NEW k \in Keys, NEW r \in Requests, Undoes(k, r)
      PROVE  Credited(c, u)'
  <2> DEFINE more == {Entry(bet[k].competition, bet[k].user, "REFUND", bet[k].stake, k,
                            MarketOf[bet[k].selection], r)}
  <2>1. ledger' = ledger \cup more /\ member' = member
    BY <1>4 DEF Undoes, WriteUndo
  <2>2. \A e \in more : e.bet = k
    BY DEF Entry
  <2> HIDE DEF more
  <2>. QED
    BY <1>0, <2>1, <2>2, BetRowsAreNoCredit
<1>5. ASSUME NEW d \in Competitions, NEW v \in Users, NEW r \in Requests, Joins(d, v, r)
      PROVE  Credited(c, u)'
  <2> DEFINE e == Entry(d, v, "CREDIT", StartingChips[d], None, None, r)
             more == IF StartingCredits(d, v) = {} THEN {e} ELSE {}
  <2>1. /\ ledger' = ledger \cup more
        /\ member' = member \cup {<<d, v>>}
    BY <1>5 DEF Joins, WriteJoin
  <2>2. CASE c = d /\ u = v /\ StartingCredits(c, u) = {}
    <3>1. ledger' = ledger \cup {e} /\ <<c, u>> \in member'
      BY <2>1, <2>2
    <3>2. StartingCredits(c, u)' = {e}
      BY <2>2, <3>1 DEF StartingCredits, Account, Entry
    <3>3. e.amount = StartingChips[c]
      BY <2>2 DEF Entry
    <3>. QED
      BY <3>1, <3>2, <3>3 DEF Credited
  <2>3. CASE ~(c = d /\ u = v /\ StartingCredits(c, u) = {})
    <3>1. \A x \in more : ~(x.competition = c /\ x.user = u)
      BY <2>3 DEF Entry
    <3>2. StartingCredits(c, u)' = StartingCredits(c, u)
      <4> HIDE DEF more
      <4>. QED
        BY <2>1, <3>1 DEF StartingCredits, Account
    <3>3. <<c, u>> \in member' <=> <<c, u>> \in member
      BY <1>0, <2>1, <2>3 DEF Credited
    <3>4. ledger \subseteq ledger'
      BY <2>1
    <3>. QED
      BY <1>0, <3>2, <3>3, <3>4 DEF Credited
  <2>. QED
    BY <2>2, <2>3
<1>6. CASE UNCHANGED tables
  BY <1>0, <1>6 DEF tables, Credited, StartingCredits, Account
<1>. QED
  BY <1>1, <1>2, <1>3, <1>4, <1>5, <1>6 DEF BookStep

-----------------------------------------------------------------------------
(* SettledIsFinal *)

RowsOf(m) == {e \in ledger : e.market = m}

Final(m) ==
  /\ status'[m] = "SETTLED"
  /\ \A s \in Selections : MarketOf[s] = m => selection'[s] = selection[s]
  /\ BetsOn(m)' = BetsOn(m)
  /\ \A k \in BetsOn(m) : bet'[k] = bet[k]
  /\ RowsOf(m)' = RowsOf(m)

\* Rows of other markets leave those of a market as they are.
LEMMA OtherRows ==
  ASSUME NEW m \in Markets, NEW more, ledger' = ledger \cup more, \A e \in more : e.market # m
  PROVE  RowsOf(m)' = RowsOf(m)
BY DEF RowsOf

LEMMA SettledStays ==
  ASSUME TablesTypeOK, BookStep, NEW m \in Markets, status[m] = "SETTLED"
  PROVE  Final(m)
<1>1. ASSUME NEW n \in Markets, NEW to \in {"DRAFT", "OPEN", "CLOSED"}, Moves(n, to)
      PROVE  Final(m)
  <2>1. n # m
    BY <1>1 DEF Moves
  <2>. QED
    BY <1>1, <2>1 DEF Moves, WriteStatus, Final, BetsOn, RowsOf, TablesTypeOK
<1>2. ASSUME NEW s \in Selections, NEW r \in Requests, Settles(s, r)
      PROVE  Final(m)
  <2> DEFINE n == MarketOf[s]
             won == {j \in Pending(n) : bet[j].selection = s}
             more == Payouts(CompetitionOf[n], n, won, r)
  <2>1. ledger' = ledger \cup more
    BY <1>2 DEF Settles, WriteSettle
  <2>2. n # m
    BY <1>2 DEF Settles
  <2>3. \A e \in more : e.market # m
    BY <2>2 DEF Payouts, Entry
  <2>4. \A k \in BetsOn(m) : k \in Keys \ Pending(n)
    BY <2>2 DEF BetsOn, Pending
  <2> HIDE DEF more
  <2>5. RowsOf(m)' = RowsOf(m)
    BY <2>1, <2>3, OtherRows
  <2>. QED
    BY <1>2, <2>2, <2>4, <2>5, SettlesEffect DEF Final, TablesTypeOK
<1>3. ASSUME NEW u \in Users, NEW s \in Selections, NEW stake \in Stakes, NEW k \in Keys,
             NEW r \in Requests, Wagers(u, s, stake, k, r)
      PROVE  Final(m)
  <2> DEFINE more == {Entry(CompetitionOf[MarketOf[s]], u, "DEBIT", stake, k, MarketOf[s], r)}
  <2>1. ledger' = ledger \cup more /\ UNCHANGED <<status, selection>>
    BY <1>3 DEF Wagers, WritePlace
  <2>2. MarketOf[s] # m /\ k \notin BetsOn(m)
    BY <1>3 DEF Wagers, BetsOn
  <2>3. \A e \in more : e.market # m
    BY <2>2 DEF Entry
  <2> HIDE DEF more
  <2>4. RowsOf(m)' = RowsOf(m)
    BY <2>1, <2>3, OtherRows
  <2>5. \A j \in BetsOn(m) : j \in Keys \ {k}
    BY <2>2 DEF BetsOn
  <2>. QED
    BY <1>3, <2>1, <2>2, <2>4, <2>5, WagersEffect DEF Final
<1>4. ASSUME NEW k \in Keys, NEW r \in Requests, Undoes(k, r)
      PROVE  Final(m)
  <2> DEFINE more == {Entry(bet[k].competition, bet[k].user, "REFUND", bet[k].stake, k,
                            MarketOf[bet[k].selection], r)}
  <2>1. ledger' = ledger \cup more /\ UNCHANGED <<status, selection>>
    BY <1>4 DEF Undoes, WriteUndo
  <2>2. MarketOf[bet[k].selection] # m /\ k \notin BetsOn(m)
    BY <1>4 DEF Undoes, BetsOn
  <2>3. \A e \in more : e.market # m
    BY <2>2 DEF Entry
  <2> HIDE DEF more
  <2>4. RowsOf(m)' = RowsOf(m)
    BY <2>1, <2>3, OtherRows
  <2>5. \A j \in BetsOn(m) : j \in Keys \ {k}
    BY <2>2 DEF BetsOn
  <2>. QED
    BY <1>4, <2>1, <2>2, <2>4, <2>5, UndoesEffect DEF Final
<1>5. ASSUME NEW c \in Competitions, NEW u \in Users, NEW r \in Requests, Joins(c, u, r)
      PROVE  Final(m)
  <2> DEFINE e == Entry(c, u, "CREDIT", StartingChips[c], None, None, r)
             more == IF StartingCredits(c, u) = {} THEN {e} ELSE {}
  <2>1. ledger' = ledger \cup more /\ UNCHANGED <<status, selection, bet>>
    BY <1>5 DEF Joins, WriteJoin
  <2>2. \A x \in more : x.market # m
    BY NoneAssumption DEF Entry
  <2> HIDE DEF more
  <2>3. RowsOf(m)' = RowsOf(m)
    BY <2>1, <2>2, OtherRows
  <2>. QED
    BY <2>1, <2>3 DEF Final, BetsOn
<1>6. CASE UNCHANGED tables
  BY <1>6 DEF tables, Final, BetsOn, RowsOf
<1>. QED
  BY <1>1, <1>2, <1>3, <1>4, <1>5, <1>6 DEF BookStep

-----------------------------------------------------------------------------
(* BetsAreFinal *)

\* The movements of a bet, of all types.
RowsOfBet(k) == {e \in ledger : e.bet = k}

\* What BetsAreFinal says of one bet that is there.
Lasting(k) ==
  /\ bet'[k] # None
  /\ bet'[k] = [bet[k] EXCEPT !.status = bet'[k].status]
  /\ bet[k].status # "PENDING" => bet'[k] = bet[k] /\ RowsOfBet(k)' = RowsOfBet(k)

LEMMA OtherRowsOfBet ==
  ASSUME NEW k \in Keys, NEW more, ledger' = ledger \cup more, \A e \in more : e.bet # k
  PROVE  RowsOfBet(k)' = RowsOfBet(k)
BY DEF RowsOfBet

LEMMA BetsLast ==
  ASSUME TablesTypeOK, BookStep, NEW k \in Keys, bet[k] # None
  PROVE  Lasting(k)
<1>1. bet[k] \in Bet /\ bet'[k] # None /\ bet \in [Keys -> Bet \cup {None}]
  BY BetFields, BetsStay DEF TablesTypeOK
<1>2. bet[k] = [bet[k] EXCEPT !.status = bet[k].status]
  BY <1>1 DEF Bet
<1>3. ASSUME bet'[k] = bet[k], RowsOfBet(k)' = RowsOfBet(k)
      PROVE  Lasting(k)
  BY <1>1, <1>2, <1>3 DEF Lasting
<1>4. ASSUME bet[k].status = "PENDING", NEW x, bet'[k] = [bet[k] EXCEPT !.status = x]
      PROVE  Lasting(k)
  <2>1. bet'[k].status = x
    BY <1>1, <1>4 DEF Bet
  <2>. QED
    BY <1>1, <1>4, <2>1 DEF Lasting
<1>5. ASSUME NEW m \in Markets, NEW to \in {"DRAFT", "OPEN", "CLOSED"}, Moves(m, to)
      PROVE  Lasting(k)
  BY <1>3, <1>5 DEF Moves, WriteStatus, RowsOfBet
<1>6. ASSUME NEW s \in Selections, NEW r \in Requests, Settles(s, r)
      PROVE  Lasting(k)
  <2> DEFINE n == MarketOf[s]
             won == {j \in Pending(n) : bet[j].selection = s}
             more == Payouts(CompetitionOf[n], n, won, r)
  <2>1. CASE k \in Pending(n)
    <3>1. bet[k].status = "PENDING"
      BY <2>1 DEF Pending
    <3>2. \E x \in {"WON", "LOST"} : bet'[k] = [bet[k] EXCEPT !.status = x]
      BY <1>6, <2>1 DEF Settles, WriteSettle
    <3>. QED
      BY <1>4, <3>1, <3>2
  <2>2. CASE k \notin Pending(n)
    <3>1. ledger' = ledger \cup more /\ bet'[k] = bet[k]
      BY <1>6, <2>2 DEF Settles, WriteSettle
    <3>2. \A e \in more : e.bet # k
      BY <2>2 DEF Payouts, Entry
    <3> HIDE DEF more
    <3>. QED
      BY <1>3, <3>1, <3>2, OtherRowsOfBet
  <2>. QED
    BY <2>1, <2>2
<1>7. ASSUME NEW u \in Users, NEW s \in Selections, NEW stake \in Stakes, NEW j \in Keys,
             NEW r \in Requests, Wagers(u, s, stake, j, r)
      PROVE  Lasting(k)
  <2> DEFINE more == {Entry(CompetitionOf[MarketOf[s]], u, "DEBIT", stake, j, MarketOf[s], r)}
  <2>1. ledger' = ledger \cup more /\ j # k
    BY <1>7 DEF Wagers, WritePlace
  <2>2. bet'[k] = bet[k]
    BY <1>1, <1>7, <2>1 DEF Wagers, WritePlace
  <2>3. \A e \in more : e.bet # k
    BY <2>1 DEF Entry
  <2> HIDE DEF more
  <2>. QED
    BY <1>3, <2>1, <2>2, <2>3, OtherRowsOfBet
<1>8. ASSUME NEW j \in Keys, NEW r \in Requests, Undoes(j, r)
      PROVE  Lasting(k)
  <2> DEFINE more == {Entry(bet[j].competition, bet[j].user, "REFUND", bet[j].stake, j,
                            MarketOf[bet[j].selection], r)}
  <2>1. CASE j = k
    <3>1. bet[k].status = "PENDING" /\ bet'[k] = [bet[k] EXCEPT !.status = "VOID"]
      BY <1>1, <1>8, <2>1 DEF Undoes, WriteUndo
    <3>. QED
      BY <1>4, <3>1
  <2>2. CASE j # k
    <3>1. ledger' = ledger \cup more /\ bet'[k] = bet[k]
      BY <1>1, <1>8, <2>2 DEF Undoes, WriteUndo
    <3>2. \A e \in more : e.bet # k
      BY <2>2 DEF Entry
    <3> HIDE DEF more
    <3>. QED
      BY <1>3, <3>1, <3>2, OtherRowsOfBet
  <2>. QED
    BY <2>1, <2>2
<1>9. ASSUME NEW c \in Competitions, NEW u \in Users, NEW r \in Requests, Joins(c, u, r)
      PROVE  Lasting(k)
  <2> DEFINE e == Entry(c, u, "CREDIT", StartingChips[c], None, None, r)
             more == IF StartingCredits(c, u) = {} THEN {e} ELSE {}
  <2>1. ledger' = ledger \cup more /\ bet' = bet
    BY <1>9 DEF Joins, WriteJoin
  <2>2. \A x \in more : x.bet # k
    BY NoneAssumption DEF Entry
  <2> HIDE DEF more
  <2>. QED
    BY <1>3, <2>1, <2>2, OtherRowsOfBet
<1>10. CASE UNCHANGED tables
  BY <1>3, <1>10 DEF tables, RowsOfBet
<1>. QED
  BY <1>5, <1>6, <1>7, <1>8, <1>9, <1>10 DEF BookStep

-----------------------------------------------------------------------------
(* What no step takes back. *)

\* A market never goes back to a status before.
LEMMA StatusAdvances ==
  ASSUME TablesTypeOK, BookStep, NEW m \in Markets
  PROVE  /\ status[m] # "ABSENT" => status'[m] # "ABSENT"
         /\ status[m] \in {"CLOSED", "SETTLED"} => status'[m] \in {"CLOSED", "SETTLED"}
BY DEF BookStep, Moves, Settles, Wagers, Undoes, Joins, WriteStatus, WriteSettle, WritePlace,
       WriteUndo, WriteJoin, tables, TablesTypeOK

LEMMA MembersStay ==
  ASSUME BookStep
  PROVE  member \subseteq member'
BY DEF BookStep, Moves, Settles, Wagers, Undoes, Joins, WriteStatus, WriteSettle, WritePlace,
       WriteUndo, WriteJoin, tables

-----------------------------------------------------------------------------
(* All of it together. *)

\* A row is a starting credit, or a movement of a bet.
RowShape(e) ==
  \/ e.type = "CREDIT" /\ e.bet = None /\ e.market = None
  \/ e.type \in {"DEBIT", "REFUND", "PAYOUT"} /\ e.bet \in Keys

RowsHaveShape == \A e \in ledger : RowShape(e)

\* The books are in order: the inductive invariant of the tables.
Books ==
  /\ TablesTypeOK
  /\ NoOverdraft
  /\ StakesBelong
  /\ SettlementComplete
  /\ LedgerMatchesBets
  /\ OneStartingCredit
  /\ RowsHaveShape

LEMMA StepKeepsShape ==
  ASSUME TablesTypeOK, RowsHaveShape, BookStep
  PROVE  RowsHaveShape'
<1> SUFFICES ASSUME NEW e \in ledger', e \notin ledger PROVE RowShape(e)
  BY DEF RowsHaveShape, RowShape
<1>1. ASSUME NEW s \in Selections, NEW r \in Requests, Settles(s, r)
      PROVE  RowShape(e)
  BY <1>1 DEF Settles, WriteSettle, Payouts, Entry, Pending, BetsOn, RowShape
<1>2. ASSUME NEW u \in Users, NEW s \in Selections, NEW stake \in Stakes, NEW k \in Keys,
             NEW r \in Requests, Wagers(u, s, stake, k, r)
      PROVE  RowShape(e)
  BY <1>2 DEF Wagers, WritePlace, Entry, RowShape
<1>3. ASSUME NEW k \in Keys, NEW r \in Requests, Undoes(k, r)
      PROVE  RowShape(e)
  BY <1>3 DEF Undoes, WriteUndo, Entry, RowShape
<1>4. ASSUME NEW c \in Competitions, NEW u \in Users, NEW r \in Requests, Joins(c, u, r)
      PROVE  RowShape(e)
  BY <1>4 DEF Joins, WriteJoin, Entry, RowShape
<1>. QED
  BY <1>1, <1>2, <1>3, <1>4 DEF BookStep, Moves, WriteStatus, tables

\* A quiescent start has its books in order.
LEMMA InitBooks ==
  ASSUME TablesInit
  PROVE  Books
<1>2. StakesBelong /\ SettlementComplete
  BY StartAssumption DEF TablesInit, StakesBelong, SettlementComplete, BetsOn
<1>3. LedgerMatchesBets
  <2>1. \A e \in ledger : e.bet = None
    BY DEF TablesInit, Entry
  <2>2. \A k \in Keys : bet[k] = None /\ k # None
    BY NoneAssumption DEF TablesInit
  <2>. QED
    BY <2>1, <2>2 DEF LedgerMatchesBets
<1>4. OneStartingCredit
  <2> SUFFICES ASSUME NEW c \in Competitions, NEW u \in Users PROVE Credited(c, u)
    BY DEF OneStartingCredit, Credited
  <2> DEFINE e == Entry(c, u, "CREDIT", StartingChips[c], None, None, None)
  <2>1. \A x \in StartingCredits(c, u) : <<c, u>> \in StartMembers /\ x = e
    <3> TAKE x \in StartingCredits(c, u)
    <3>1. x \in ledger /\ x.competition = c /\ x.user = u
      BY DEF StartingCredits, Account
    <3>2. PICK p \in StartMembers :
            x = Entry(p[1], p[2], "CREDIT", StartingChips[p[1]], None, None, None)
      BY <3>1 DEF TablesInit
    <3>3. p[1] = c /\ p[2] = u
      BY <3>1, <3>2 DEF Entry
    <3>4. p = <<p[1], p[2]>>
      BY StartAssumption
    <3>. QED
      BY <3>2, <3>3, <3>4
  <2>2. CASE <<c, u>> \in member
    <3>1. <<c, u>> \in StartMembers
      BY <2>2 DEF TablesInit
    <3>2. e \in ledger
      BY <3>1 DEF TablesInit
    <3>3. /\ e.competition = c /\ e.user = u /\ e.type = "CREDIT"
          /\ e.bet = None /\ e.market = None /\ e.amount = StartingChips[c]
      BY DEF Entry
    <3>4. e \in StartingCredits(c, u)
      BY <3>2, <3>3 DEF StartingCredits, Account
    <3> HIDE DEF e
    <3>5. StartingCredits(c, u) = {e}
      BY <2>1, <3>4
    <3>. QED
      BY <2>2, <3>2, <3>3, <3>5 DEF Credited
  <2>3. CASE <<c, u>> \notin member
    <3>1. <<c, u>> \notin StartMembers
      BY <2>3 DEF TablesInit
    <3>. QED
      BY <2>1, <2>3, <3>1 DEF Credited
  <2>. QED
    BY <2>2, <2>3
<1>5. RowsHaveShape
  BY DEF TablesInit, RowsHaveShape, RowShape, Entry
<1>. QED
  BY <1>2, <1>3, <1>4, <1>5, InitTablesTypeOK, InitNoOverdraft DEF Books

\* Every step of the game keeps the books in order.
LEMMA StepKeepsBooks ==
  ASSUME Books, BookStep
  PROVE  Books'
BY StepKeepsTypes, StepKeepsNoOverdraft, StepKeepsStakesBelong, StepKeepsSettlementComplete,
   StepKeepsLedger, StepKeepsOneStartingCredit, StepKeepsShape DEF Books

-----------------------------------------------------------------------------
(* What a row of the ledger says. *)

\* A movement of a bet is its only one of that type, and repeats what the bet says.
LEMMA RowOfABet ==
  ASSUME Books, NEW e \in ledger, e.type # "CREDIT"
  PROVE  /\ e.bet \in Keys /\ bet[e.bet] # None /\ bet[e.bet] \in Bet
         /\ e.competition = bet[e.bet].competition /\ e.user = bet[e.bet].user
         /\ e.market = MarketOf[bet[e.bet].selection] /\ e.market \in Markets
         /\ e.competition = CompetitionOf[e.market]
         /\ e.type = "REFUND" => bet[e.bet].status = "VOID"
         /\ e.type = "PAYOUT" => bet[e.bet].status = "WON"
         /\ e.type \in {"DEBIT", "REFUND"} => e.amount = bet[e.bet].stake
         /\ \A f \in ledger : f.type = e.type /\ f.bet = e.bet => f = e
<1> DEFINE k == e.bet
<1>1. k \in Keys /\ e.type \in {"DEBIT", "REFUND", "PAYOUT"}
  BY DEF Books, RowsHaveShape, RowShape
<1>2. bet[k] # None /\ Told(k)
  BY <1>1, LedgerByKey DEF Books, LedgerMatchesBets
<1>3. e \in Movements(k, e.type)
  BY DEF Movements
<1>4. /\ e.type = "DEBIT" => Moved(k, e.type, bet[k].stake)
      /\ e.type = "REFUND" => Moved(k, e.type, bet[k].stake) /\ bet[k].status = "VOID"
      /\ e.type = "PAYOUT" => Moved(k, e.type, bet[k].return) /\ bet[k].status = "WON"
  BY <1>1, <1>2, <1>3 DEF Told
<1>5. \E amount : /\ Moved(k, e.type, amount)
                  /\ e.type \in {"DEBIT", "REFUND"} => amount = bet[k].stake
  BY <1>1, <1>4
<1>6. PICK amount : /\ Moved(k, e.type, amount)
                    /\ e.type \in {"DEBIT", "REFUND"} => amount = bet[k].stake
  BY <1>5
<1>7. PICK r \in Requests :
        Movements(k, e.type) = {Entry(bet[k].competition, bet[k].user, e.type, amount, k,
                                      MarketOf[bet[k].selection], r)}
  BY <1>6 DEF Moved
<1>8. e = Entry(bet[k].competition, bet[k].user, e.type, amount, k,
                MarketOf[bet[k].selection], r)
  BY <1>3, <1>7
<1>9. /\ e.competition = bet[k].competition /\ e.user = bet[k].user
      /\ e.market = MarketOf[bet[k].selection] /\ e.amount = amount
  BY <1>8 DEF Entry
<1>10. \A f \in ledger : f.type = e.type /\ f.bet = k => f \in Movements(k, e.type)
  BY DEF Movements
<1>11. bet[k] \in Bet
  BY <1>1, <1>2 DEF Books, TablesTypeOK
<1>12. MarketOf[bet[k].selection] \in Markets
  BY <1>11, ShapeAssumption DEF Bet
<1>13. bet[k].competition = CompetitionOf[MarketOf[bet[k].selection]]
  BY <1>1, <1>2 DEF Books, StakesBelong
<1>. QED
  BY <1>1, <1>2, <1>3, <1>4, <1>6, <1>7, <1>9, <1>10, <1>11, <1>12, <1>13

\* A credit is the starting credit of a member.
LEMMA RowOfACredit ==
  ASSUME Books, NEW e \in ledger, e.type = "CREDIT"
  PROVE  /\ e.bet = None /\ e.market = None
         /\ e \in StartingCredits(e.competition, e.user)
         /\ <<e.competition, e.user>> \in member
<1>1. e.bet = None /\ e.market = None
  BY DEF Books, RowsHaveShape, RowShape
<1>2. e \in StartingCredits(e.competition, e.user)
  BY <1>1 DEF StartingCredits, Account
<1>3. e.competition \in Competitions /\ e.user \in Users
  BY DEF Books, TablesTypeOK, LedgerTxn
<1>. QED
  BY <1>1, <1>2, <1>3 DEF Books, OneStartingCredit

\* A refund has its stake next to it.
LEMMA RefundHasStake ==
  ASSUME Books, NEW e \in ledger, e.type = "REFUND"
  PROVE  \E d \in ledger : /\ d.type = "DEBIT" /\ d.bet = e.bet /\ d.amount = e.amount
                           /\ d.competition = e.competition /\ d.user = e.user
                           /\ d.market = e.market
<1> DEFINE k == e.bet
<1>1. /\ k \in Keys /\ bet[k] # None /\ e.amount = bet[k].stake
      /\ e.competition = bet[k].competition /\ e.user = bet[k].user
      /\ e.market = MarketOf[bet[k].selection]
  BY RowOfABet
<1>2. Moved(k, "DEBIT", bet[k].stake)
  BY <1>1 DEF Books, LedgerMatchesBets
<1>3. PICK d \in Movements(k, "DEBIT") : TRUE
  BY <1>2 DEF Moved
<1>4. d \in ledger /\ d.bet = k /\ d.type = "DEBIT"
  BY <1>3 DEF Movements
<1>5. /\ d.amount = bet[k].stake /\ d.competition = bet[k].competition
      /\ d.user = bet[k].user /\ d.market = MarketOf[bet[k].selection]
  BY <1>4, RowOfABet
<1>. QED
  BY <1>1, <1>4, <1>5

\* Whatever is neither a stake nor its refund nor a credit was won on a settled market.
LEMMA WonOnSettled ==
  ASSUME Books, NEW e \in ledger, e.type \notin {"DEBIT", "REFUND"}
  PROVE  \/ e.market = None
         \/ /\ e.market \in Markets /\ status[e.market] = "SETTLED"
            /\ CompetitionOf[e.market] = e.competition
<1>1. CASE e.type = "CREDIT"
  BY <1>1, RowOfACredit
<1>2. CASE e.type # "CREDIT"
  <2> DEFINE k == e.bet
  <2>1. e.type = "PAYOUT"
    BY <1>2 DEF Books, TablesTypeOK, LedgerTxn, LedgerType
  <2>2. /\ k \in Keys /\ bet[k] # None /\ bet[k].status = "WON" /\ e.market \in Markets
        /\ e.market = MarketOf[bet[k].selection] /\ e.competition = CompetitionOf[e.market]
    BY <1>2, <2>1, RowOfABet
  <2>3. k \in BetsOn(e.market)
    BY <2>2 DEF BetsOn
  <2>4. status[e.market] = "SETTLED"
    BY <2>2, <2>3 DEF Books, SettlementComplete
  <2>. QED
    BY <2>2, <2>4
<1>. QED
  BY <1>1, <1>2

=============================================================================
