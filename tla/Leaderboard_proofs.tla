------------------------- MODULE Leaderboard_proofs -------------------------
(***************************************************************************)
(* The readers of the ledger see standings of one moment, although their   *)
(* SELECTs are apart.  The argument is that the books are append-only in   *)
(* the right places: members stay, a settled market and its rows stay, and *)
(* what is not settled yet can only be stakes and refunds of stakes.       *)
(***************************************************************************)
EXTENDS Leaderboard, Tables_proofs, SequenceTheorems

-----------------------------------------------------------------------------
(* What each task may rely on, statement by statement. *)

\* What is left of the standings before the first statement, after each of the
\* three reads of getSettledBalances, and what a player's page is left with.
Unread      == {<<"members", "markets", "ledger">>, <<"members", "markets", "ledger", "own">>,
                <<"members", "markets", "ledger", "insert">>}
MembersRead == {<<"markets", "ledger">>, <<"markets", "ledger", "own">>,
                <<"markets", "ledger", "insert">>}
MarketsRead == {<<"ledger">>, <<"ledger", "own">>, <<"ledger", "insert">>}
AllRead     == {<<>>, <<"own">>, <<"insert">>}
PageLeft    == {<<"ledger", "markets">>, <<"markets">>, <<>>}

ScoreRows(c, u, M) == {e \in Account(c, u) : e.market \in M \cup {None}}

\* Standings: members stay members, settled markets stay settled, and what they
\* paid stays what it was; so the rows counted are those of the score.
StandingsSoFar(x) ==
  LET c == x.competition IN
  /\ x.todo \in Unread \cup MembersRead \cup MarketsRead \cup AllRead
  /\ x.todo \notin Unread => \A u \in x.seen : <<c, u>> \in member
  /\ x.todo \in MarketsRead \cup AllRead =>
       /\ x.settled \subseteq SettledNow(c)
       /\ \A u \in x.seen : Score(c, u, x.settled) >= 0
  /\ x.todo \in AllRead =>
       \A u \in x.seen :
         {e \in x.txns : e.user = u /\ Included(e, x.settled)} = ScoreRows(c, u, x.settled)

\* All rows that are neither a stake nor its refund are of the markets of M, or of none.
Outside(rows, M) ==
  \A e \in rows : e.type \notin {"DEBIT", "REFUND"} => e.market \in M \cup {None}

\* A page: the rows read were those of a balance, and whatever they count as won was
\* won on a market that is settled by the time the markets are read.
PageSoFar(x) ==
  /\ x.user \in Users
  /\ x.todo \in PageLeft
  /\ x.todo # <<"ledger", "markets">> =>
       /\ Net(x.txns) >= 0 /\ IsFiniteSet(x.txns) /\ Matched(x.txns)
       /\ Outside(x.txns, SettledNow(x.competition))
  /\ x.todo = <<>> => Outside(x.txns, x.settled)

SoFar(x) == IF x.kind = "me" THEN PageSoFar(x) ELSE StandingsSoFar(x)

Reading(t) == task[t] # None => SoFar(task[t])

Bettors(m) == {bet[k].user : k \in BetsOn(m)}

\* The standings a snapshot is taken of list everyone who staked on the market,
\* and count the market itself.
Snapshotting(m, x) ==
  /\ x.kind = "snapshot" /\ x.competition = CompetitionOf[m]
  /\ x.todo \notin Unread => Bettors(m) \subseteq x.seen
  /\ x.todo \in MarketsRead \cup AllRead => m \in x.settled

OfOneMoment(m, scores) ==
  LET c == CompetitionOf[m] IN
  /\ Bettors(m) \subseteq DOMAIN scores
  /\ \A u \in DOMAIN scores : <<c, u>> \in member
  /\ \E M \in SUBSET SettledNow(c) :
       m \in M /\ \A u \in DOMAIN scores : scores[u] = Score(c, u, M)

\* A market has one snapshot at most, taken after its settlement.
Snapshotted(m) ==
  /\ status[m] # "SETTLED" => task[m] = None /\ DOMAIN snapshot[m] = {}
  /\ task[m] # None => DOMAIN snapshot[m] = {} /\ Snapshotting(m, task[m])
  /\ DOMAIN snapshot[m] # {} => OfOneMoment(m, snapshot[m])

\* The inductive invariant of the readers.
ReadersInvariant ==
  /\ TypeOK /\ Books
  /\ snapshot = [m \in Markets |-> snapshot[m]]
  /\ \A t \in Tasks : Reading(t)
  /\ \A m \in Markets : Snapshotted(m)

-----------------------------------------------------------------------------
(* Plans. *)

Kinds == {"leaderboard", "summary", "snapshot", "me"}
SelectNames == {"members", "markets", "ledger", "own", "insert"}

LEMMA StandingsThen ==
  ASSUME NEW x \in SelectNames
  PROVE  StandingsReads \o <<x>> = <<"members", "markets", "ledger", x>>
<1> DEFINE s == StandingsReads
           t == <<"members", "markets", "ledger", x>>
<1>1. s \in Seq(SelectNames) /\ <<x>> \in Seq(SelectNames) /\ t \in Seq(SelectNames)
  BY DEF StandingsReads, SelectNames
<1>2. /\ Len(s) = 3 /\ s[1] = "members" /\ s[2] = "markets" /\ s[3] = "ledger"
      /\ Len(<<x>>) = 1 /\ <<x>>[1] = x
  BY DEF StandingsReads
<1>3. /\ Len(t) = 4 /\ t[1] = "members" /\ t[2] = "markets" /\ t[3] = "ledger" /\ t[4] = x
  OBVIOUS
<1> DEFINE u == s \o <<x>>
<1>4. /\ u \in Seq(SelectNames) /\ Len(u) = Len(s) + Len(<<x>>)
      /\ \A i \in 1 .. Len(s) + Len(<<x>>) :
           u[i] = IF i <= Len(s) THEN s[i] ELSE <<x>>[i - Len(s)]
  BY <1>1, ConcatProperties
<1> HIDE DEF s, t, u
<1>5. /\ Len(u) = 4 /\ u[1] = "members" /\ u[2] = "markets" /\ u[3] = "ledger" /\ u[4] = x
  BY <1>2, <1>4
<1>6. \A i \in 1 .. Len(u) : i = 1 \/ i = 2 \/ i = 3 \/ i = 4
  BY <1>5
<1>7. \A i \in 1 .. Len(u) : u[i] = t[i]
  BY <1>3, <1>5, <1>6
<1>8. u = t
  BY <1>1, <1>3, <1>4, <1>5, <1>7, SeqEqual
<1>. QED
  BY <1>8 DEF u, s, t

LEMMA PlanOf ==
  /\ DOMAIN Plan = Kinds
  /\ Plan["leaderboard"] \in Unread /\ Plan["summary"] \in Unread
  /\ Plan["snapshot"] \in Unread
  /\ Plan["me"] = <<"ledger", "markets">>
<1>1. /\ StandingsReads \o <<"own">> = <<"members", "markets", "ledger", "own">>
      /\ StandingsReads \o <<"insert">> = <<"members", "markets", "ledger", "insert">>
  BY StandingsThen DEF SelectNames
<1>. QED
  BY <1>1 DEF Plan, Kinds, StandingsReads, PlayerReads, Unread

\* Each statement of the standings leads from one stage to the next ...
LEMMA StandingsStages ==
  /\ \A s \in Unread : s # <<>> /\ Head(s) = "members" /\ Tail(s) \in MembersRead
  /\ \A s \in MembersRead : s # <<>> /\ Head(s) = "markets" /\ Tail(s) \in MarketsRead
  /\ \A s \in MarketsRead : s # <<>> /\ Head(s) = "ledger" /\ Tail(s) \in AllRead
  /\ \A s \in AllRead : s # <<>> => Head(s) \in {"own", "insert"} /\ Tail(s) = <<>>
BY DEF Unread, MembersRead, MarketsRead, AllRead

\* ... which are apart, ...
LEMMA StagesApart ==
  /\ Unread \cap (MembersRead \cup MarketsRead \cup AllRead) = {}
  /\ MembersRead \cap (MarketsRead \cup AllRead) = {}
  /\ MarketsRead \cap AllRead = {}
BY DEF Unread, MembersRead, MarketsRead, AllRead

\* ... and so are those of a page.
LEMMA PageStages ==
  /\ Head(<<"ledger", "markets">>) = "ledger" /\ Tail(<<"ledger", "markets">>) = <<"markets">>
  /\ Head(<<"markets">>) = "markets" /\ Tail(<<"markets">>) = <<>>
  /\ <<"ledger", "markets">> # <<"markets">> /\ <<"ledger", "markets">> # <<>>
  /\ <<"markets">> # <<>>
OBVIOUS

LEMMA SeqsOfNames ==
  Unread \cup MembersRead \cup MarketsRead \cup AllRead \cup PageLeft \subseteq Seq(SelectNames)
BY DEF Unread, MembersRead, MarketsRead, AllRead, PageLeft, SelectNames

-----------------------------------------------------------------------------
(* The game moves by steps of the books. *)

\* A move of the game that is no settlement settles nothing.
LEMMA PlayIsBookStep ==
  ASSUME TablesTypeOK, Play
  PROVE  /\ BookStep
         /\ \A m \in Markets : status'[m] = "SETTLED" => status[m] = "SETTLED"
<1>1. ASSUME NEW m \in Markets, Game!Create(m) \/ Game!Open(m) \/ Game!Close(m)
      PROVE  \E to \in {"DRAFT", "OPEN", "CLOSED"} : Moves(m, to)
  BY <1>1 DEF Moves, WriteStatus, Game!Create, Game!Open, Game!Close, Game!WriteStatus
<1>2. ASSUME NEW u \in Users, NEW s \in Selections, NEW stake \in Stakes, NEW k \in Keys,
             NEW r \in Requests, Game!Place(u, s, stake, k, r)
      PROVE  Wagers(u, s, stake, k, r)
  <2> DEFINE c == CompetitionOf[MarketOf[s]]
  <2>1. Game!Balance(c, u) = Balance(c, u)
    BY DEF Balance, Account, Net, Debits, Chips, Game!Balance, Game!Account, Game!Net,
           Game!Debits, Game!Chips, Cardinality, Game!Cardinality
  <2>2. Game!WritePlace(c, u, s, stake, k, MarketOf[s], r)
          => WritePlace(c, u, s, stake, k, MarketOf[s], r)
    BY DEF WritePlace, Entry, Game!WritePlace, Game!Entry
  <2>. QED
    BY <1>2, <2>1, <2>2 DEF Wagers, Game!Place
<1>3. ASSUME NEW k \in Keys, NEW r \in Requests, Game!Undo(k, r)
      PROVE  Undoes(k, r)
  BY <1>3 DEF Undoes, WriteUndo, Entry, Game!Undo, Game!WriteUndo, Game!Entry
<1>4. ASSUME NEW c \in Competitions, NEW u \in Users, NEW r \in Requests,
             Game!Join(c, u, r)
      PROVE  Joins(c, u, r)
  <2>1. Game!StartingCredits(c, u) = StartingCredits(c, u)
    BY DEF StartingCredits, Account, Game!StartingCredits, Game!Account
  <2>. QED
    BY <1>4, <2>1 DEF Joins, WriteJoin, Entry, Game!Join, Game!WriteJoin, Game!Entry
<1>5. CASE \E m \in Markets : Game!Create(m) \/ Game!Open(m) \/ Game!Close(m)
  <2>1. PICK m \in Markets : Game!Create(m) \/ Game!Open(m) \/ Game!Close(m)
    BY <1>5
  <2>2. PICK to \in {"DRAFT", "OPEN", "CLOSED"} : Moves(m, to)
    BY <1>1, <2>1
  <2>3. \A n \in Markets : status'[n] = "SETTLED" => status[n] = "SETTLED"
    BY <2>2 DEF Moves, WriteStatus, TablesTypeOK
  <2>. QED
    BY <2>2, <2>3 DEF BookStep
<1>6. CASE \E r \in Requests :
             \/ \E u \in Users, s \in Selections, stake \in Stakes, k \in Keys :
                  Game!Place(u, s, stake, k, r)
             \/ \E k \in Keys : Game!Undo(k, r)
             \/ \E c \in Competitions, u \in Users : Game!Join(c, u, r)
  <2>1. \/ \E u \in Users, s \in Selections, stake \in Stakes, k \in Keys, r \in Requests :
             Wagers(u, s, stake, k, r)
        \/ \E k \in Keys, r \in Requests : Undoes(k, r)
        \/ \E c \in Competitions, u \in Users, r \in Requests : Joins(c, u, r)
    BY <1>2, <1>3, <1>4, <1>6
  <2>2. status' = status
    BY <2>1 DEF Wagers, Undoes, Joins, WritePlace, WriteUndo, WriteJoin
  <2>. QED
    BY <2>1, <2>2 DEF BookStep
<1>. QED
  BY <1>5, <1>6 DEF Play

\* A settlement settles its own market, which was closed, and no other.
LEMMA SettleIsBookStep ==
  ASSUME TablesTypeOK, NEW s \in Selections, NEW r \in Requests, Settle(s, r)
  PROVE  /\ BookStep
         /\ MarketOf[s] \in Markets
         /\ status[MarketOf[s]] = "CLOSED" /\ status'[MarketOf[s]] = "SETTLED"
         /\ \A m \in Markets \ {MarketOf[s]} : status'[m] = status[m]
<1>1. Game!Pending(MarketOf[s]) = Pending(MarketOf[s])
  BY DEF Pending, BetsOn, Game!Pending, Game!BetsOn
<1>2. Settles(s, r)
  BY <1>1 DEF Settle, Settles, WriteSettle, Payouts, Entry, Game!Settle, Game!WriteSettle,
              Game!Payouts, Game!Entry
<1>3. MarketOf[s] \in Markets
  BY ShapeAssumption
<1>4. /\ status[MarketOf[s]] = "CLOSED"
      /\ status' = [status EXCEPT ![MarketOf[s]] = "SETTLED"]
  BY <1>2 DEF Settles, WriteSettle
<1>. QED
  BY <1>2, <1>3, <1>4 DEF BookStep, TablesTypeOK

-----------------------------------------------------------------------------
(* What a reader has read stays as it is. *)

LEMMA LedgerGrows ==
  ASSUME BookStep
  PROVE  ledger \subseteq ledger'
BY DEF BookStep, Moves, Settles, Wagers, Undoes, Joins, WriteStatus, WriteSettle, WritePlace,
       WriteUndo, WriteJoin, tables

LEMMA SettledStaysSettled ==
  ASSUME TablesTypeOK, BookStep, NEW c \in Competitions
  PROVE  SettledNow(c) \subseteq SettledNow(c)'
BY SettledStays DEF SettledNow, Final

LEMMA BettorsStay ==
  ASSUME TablesTypeOK, BookStep, NEW m \in Markets, status[m] = "SETTLED"
  PROVE  Bettors(m)' = Bettors(m)
<1>1. Final(m)
  BY SettledStays
<1>. QED
  BY <1>1 DEF Final, Bettors

\* Without a market there are only starting credits, ...
LEMMA CreditsOnly ==
  ASSUME NEW c \in Competitions, NEW u \in Users
  PROVE  /\ Books => {e \in Account(c, u) : e.market = None} = StartingCredits(c, u)
         /\ Books' => {e \in Account(c, u) : e.market = None}' = StartingCredits(c, u)'
<1>1. Books => {e \in Account(c, u) : e.market = None} = StartingCredits(c, u)
  <2> SUFFICES ASSUME Books PROVE {e \in Account(c, u) : e.market = None} = StartingCredits(c, u)
    OBVIOUS
  <2>1. \A e \in Account(c, u) : e.market = None => e \in StartingCredits(c, u)
    <3> SUFFICES ASSUME NEW e \in Account(c, u), e.market = None
                 PROVE  e \in StartingCredits(c, u)
      OBVIOUS
    <3>1. e \in ledger /\ e.competition = c /\ e.user = u
      BY DEF Account
    <3>2. e.type = "CREDIT"
      BY <3>1, RowOfABet, NoneAssumption
    <3>. QED
      BY <3>1, <3>2, RowOfACredit
  <2>. QED
    BY <2>1 DEF StartingCredits
<1>2. (Books => {e \in Account(c, u) : e.market = None} = StartingCredits(c, u))'
  BY <1>1, PTL
<1>. QED
  BY <1>1, <1>2

\* ... and a member's is there for good.
LEMMA CreditsStay ==
  ASSUME Books, Books', BookStep, NEW c \in Competitions, NEW u \in Users,
         <<c, u>> \in member
  PROVE  {e \in Account(c, u) : e.market = None}' = {e \in Account(c, u) : e.market = None}
<1>1. /\ {e \in Account(c, u) : e.market = None} = StartingCredits(c, u)
      /\ {e \in Account(c, u) : e.market = None}' = StartingCredits(c, u)'
  BY CreditsOnly
<1>3. StartingCredits(c, u) \subseteq StartingCredits(c, u)'
  BY LedgerGrows DEF StartingCredits, Account
<1>4. <<c, u>> \in member'
  BY MembersStay
<1>5. PICK e \in ledger : StartingCredits(c, u) = {e}
  BY DEF Books, OneStartingCredit
<1>6. PICK f \in ledger' : StartingCredits(c, u)' = {f}
  BY <1>4 DEF Books, OneStartingCredit
<1>. QED
  BY <1>1, <1>3, <1>5, <1>6

\* The score of a member over markets that are settled is final.
LEMMA ScoreStays ==
  ASSUME Books, Books', BookStep, NEW c \in Competitions, NEW u \in Users,
         <<c, u>> \in member, NEW M \in SUBSET Markets, \A m \in M : status[m] = "SETTLED"
  PROVE  /\ ScoreRows(c, u, M)' = ScoreRows(c, u, M)
         /\ Score(c, u, M)' = Score(c, u, M)
<1>1. \A m \in M : RowsOf(m)' = RowsOf(m)
  BY SettledStays DEF Books, Final
<1>2. {e \in Account(c, u) : e.market = None}' = {e \in Account(c, u) : e.market = None}
  BY CreditsStay
<1>3. \A e \in ledger' : e.market \in M => e \in ledger
  BY <1>1 DEF RowsOf
<1>4. \A e \in ledger' : e.market = None /\ e.competition = c /\ e.user = u => e \in ledger
  BY <1>2 DEF Account
<1>5. ledger \subseteq ledger'
  BY LedgerGrows
<1>6. ScoreRows(c, u, M)' = ScoreRows(c, u, M)
  BY <1>3, <1>4, <1>5 DEF ScoreRows, Account
<1>. QED
  BY <1>6 DEF Score, ScoreRows

-----------------------------------------------------------------------------
(* Leaving out stakes that are still open never lowers a balance. *)

LEMMA ExcludingStakes ==
  ASSUME NEW rows, rows \subseteq LedgerTxn, IsFiniteSet(rows), Matched(rows),
         NEW M, Outside(rows, M)
  PROVE  Net({e \in rows : e.market \in M \cup {None}}) >= Net(rows)
<1> DEFINE kept == {e \in rows : e.market \in M \cup {None}}
           rest == {e \in rows : e.market \notin M \cup {None}}
<1>1. kept \cup rest = rows /\ kept \cap rest = {}
  OBVIOUS
<1>2. kept \in SUBSET rows /\ rest \in SUBSET rows
  OBVIOUS
<1>3. \A e \in rest : e.type \in {"DEBIT", "REFUND"}
  BY DEF Outside
<1>4. Matched(rest)
  BY DEF Matched
<1> HIDE DEF kept, rest
<1>5. /\ kept \subseteq LedgerTxn /\ IsFiniteSet(kept)
      /\ rest \subseteq LedgerTxn /\ IsFiniteSet(rest)
  BY <1>2, FS_Subset
<1>6. Net(rest) <= 0
  BY <1>3, <1>4, <1>5, NetOfStakes
<1>7. Net(rows) = Net(kept) + Net(rest)
  <2>1. Net(kept \cup rest) = Net(kept) + Net(rest)
    BY <1>1, <1>5, NetOfBoth
  <2>. QED
    BY <1>1, <2>1
<1>8. Net(kept) \in Int /\ Net(rest) \in Int
  BY <1>5, NetType
<1>9. Net(kept) >= Net(rows)
  BY <1>6, <1>7, <1>8
<1>. QED
  BY <1>9 DEF kept

\* In a player's account refunds match stakes, and what was won was won on a
\* market that is settled.
LEMMA AccountMatched ==
  ASSUME Books, NEW c \in Competitions, NEW u \in Users
  PROVE  /\ Account(c, u) \subseteq LedgerTxn /\ IsFiniteSet(Account(c, u))
         /\ Matched(Account(c, u))
         /\ Outside(Account(c, u), SettledNow(c))
         /\ Net(Account(c, u)) >= 0
<1>1. Account(c, u) \in SUBSET ledger /\ ledger \subseteq LedgerTxn /\ IsFiniteSet(ledger)
  BY DEF Account, Books, TablesTypeOK
<1>2. Account(c, u) \subseteq LedgerTxn /\ IsFiniteSet(Account(c, u))
  BY <1>1, FS_Subset
<1>3. ASSUME NEW e \in Account(c, u), e.type = "REFUND"
      PROVE  \E d \in Account(c, u) : /\ d.type = "DEBIT" /\ d.bet = e.bet
                                      /\ d.amount = e.amount /\ d.market = e.market
  <2>1. e \in ledger /\ e.competition = c /\ e.user = u
    BY DEF Account
  <2>2. PICK d \in ledger : /\ d.type = "DEBIT" /\ d.bet = e.bet /\ d.amount = e.amount
                            /\ d.competition = e.competition /\ d.user = e.user
                            /\ d.market = e.market
    BY <1>3, <2>1, RefundHasStake
  <2>3. d \in Account(c, u)
    BY <2>1, <2>2 DEF Account
  <2>. QED
    BY <2>2, <2>3
<1>4. ASSUME NEW e \in Account(c, u), NEW f \in Account(c, u),
             e.type = "REFUND", f.type = "REFUND", e.bet = f.bet
      PROVE  e = f
  <2>1. e \in ledger /\ f \in ledger
    BY DEF Account
  <2>. QED
    BY <1>4, <2>1, RowOfABet
<1>5. Matched(Account(c, u))
  BY <1>3, <1>4 DEF Matched
<1>6. ASSUME NEW e \in Account(c, u), e.type \notin {"DEBIT", "REFUND"}
      PROVE  e.market \in SettledNow(c) \cup {None}
  <2>1. e \in ledger /\ e.competition = c
    BY DEF Account
  <2>. QED
    BY <1>6, <2>1, WonOnSettled DEF SettledNow
<1>7. Outside(Account(c, u), SettledNow(c))
  BY <1>6 DEF Outside
<1>8. Net(Account(c, u)) >= 0
  BY DEF Books, NoOverdraft, Balance
<1>. QED
  BY <1>2, <1>5, <1>7, <1>8

\* Nobody owes anything on the markets that are over.
LEMMA ScoreIsNoDebt ==
  ASSUME Books, NEW c \in Competitions, NEW u \in Users
  PROVE  Score(c, u, SettledNow(c)) >= 0
<1> DEFINE rows == Account(c, u)
           kept == {e \in rows : e.market \in SettledNow(c) \cup {None}}
<1>1. /\ rows \subseteq LedgerTxn /\ IsFiniteSet(rows) /\ Matched(rows)
      /\ Outside(rows, SettledNow(c)) /\ Net(rows) >= 0
  BY AccountMatched
<1>2. kept \in SUBSET rows
  OBVIOUS
<1>3. Score(c, u, SettledNow(c)) = Net(kept)
  BY DEF Score
<1> HIDE DEF rows
<1>4. Net(kept) >= Net(rows)
  BY <1>1, ExcludingStakes
<1> HIDE DEF kept
<1>5. Net(rows) \in Int /\ Net(kept) \in Int
  BY <1>1, <1>2, NetType, FS_Subset
<1>. QED
  BY <1>1, <1>3, <1>4, <1>5

-----------------------------------------------------------------------------
(* What the commits of others leave of all this. *)

LEMMA SoFarStays ==
  ASSUME Books, Books', BookStep, NEW x \in TaskType, SoFar(x)
  PROVE  SoFar(x)'
<1> DEFINE c == x.competition
<1>1. /\ c \in Competitions /\ x.seen \in SUBSET Users /\ x.settled \in SUBSET Markets
      /\ TablesTypeOK
  BY DEF TaskType, Books
<1>2. SettledNow(c) \subseteq SettledNow(c)' /\ member \subseteq member'
  BY <1>1, SettledStaysSettled, MembersStay
<1>3. CASE x.kind = "me"
  BY <1>2, <1>3 DEF SoFar, PageSoFar, Outside
<1>4. CASE x.kind # "me"
  <2>0. StandingsSoFar(x)
    BY <1>4 DEF SoFar
  <2>1. x.todo \in MarketsRead \cup AllRead =>
          /\ \A u \in x.seen : u \in Users /\ <<c, u>> \in member
          /\ \A m \in x.settled : status[m] = "SETTLED"
    BY <1>1, <2>0, StagesApart DEF StandingsSoFar, SettledNow
  <2>2. x.todo \in MarketsRead \cup AllRead =>
          \A u \in x.seen : /\ ScoreRows(c, u, x.settled)' = ScoreRows(c, u, x.settled)
                            /\ Score(c, u, x.settled)' = Score(c, u, x.settled)
    BY <1>1, <2>1, ScoreStays
  <2>3. StandingsSoFar(x)'
    BY <1>2, <2>0, <2>2 DEF StandingsSoFar
  <2>. QED
    BY <1>4, <2>3 DEF SoFar
<1>. QED
  BY <1>3, <1>4

LEMMA SnapshottingStays ==
  ASSUME Books, BookStep, NEW m \in Markets, status[m] = "SETTLED",
         NEW x, Snapshotting(m, x)
  PROVE  Snapshotting(m, x)'
<1>1. Bettors(m)' = Bettors(m)
  BY BettorsStay DEF Books
<1>. QED
  BY <1>1 DEF Snapshotting

LEMMA MomentStays ==
  ASSUME Books, Books', BookStep, NEW m \in Markets, status[m] = "SETTLED",
         NEW scores, DOMAIN scores \subseteq Users, OfOneMoment(m, scores)
  PROVE  OfOneMoment(m, scores)'
<1> DEFINE c == CompetitionOf[m]
<1>1. c \in Competitions /\ TablesTypeOK
  BY ShapeAssumption DEF Books
<1>2. Bettors(m)' = Bettors(m)
  BY <1>1, BettorsStay
<1>3. SettledNow(c) \subseteq SettledNow(c)' /\ member \subseteq member'
  BY <1>1, SettledStaysSettled, MembersStay
<1>4. PICK M \in SUBSET SettledNow(c) :
        m \in M /\ \A u \in DOMAIN scores : scores[u] = Score(c, u, M)
  BY DEF OfOneMoment
<1>5. M \in SUBSET Markets /\ \A n \in M : status[n] = "SETTLED"
  BY <1>4 DEF SettledNow
<1>6. \A u \in DOMAIN scores : Score(c, u, M)' = Score(c, u, M)
  BY <1>1, <1>5, ScoreStays DEF OfOneMoment
<1>7. M \in SUBSET SettledNow(c)'
  BY <1>3, <1>4
<1>. QED
  BY <1>2, <1>3, <1>4, <1>6, <1>7 DEF OfOneMoment

LEMMA ReadingStays ==
  ASSUME ReadersInvariant, Books', BookStep, NEW t \in Tasks, task'[t] = task[t]
  PROVE  Reading(t)'
<1> SUFFICES ASSUME task[t] # None PROVE Reading(t)'
  BY DEF Reading
<1>1. PICK x \in TaskType : x = task[t]
  BY DEF ReadersInvariant, TypeOK
<1>2. SoFar(x)
  BY <1>1 DEF ReadersInvariant, Reading
<1>3. SoFar(x)'
  BY <1>2, SoFarStays DEF ReadersInvariant
<1>4. task'[t] = x
  BY <1>1
<1>. QED
  BY <1>3, <1>4 DEF Reading

LEMMA SnapshottedStays ==
  ASSUME ReadersInvariant, Books', BookStep, NEW m \in Markets,
         task'[m] = task[m], snapshot'[m] = snapshot[m],
         status'[m] = "SETTLED" => status[m] = "SETTLED"
  PROVE  Snapshotted(m)'
<1>0. Snapshotted(m) /\ Books /\ TablesTypeOK /\ DOMAIN snapshot[m] \subseteq Users
  BY DEF ReadersInvariant, TypeOK, Books
<1>1. status[m] = "SETTLED" => status'[m] = "SETTLED"
  BY <1>0, SettledStays DEF Final
<1>2. ASSUME task[m] # None PROVE Snapshotting(m, task[m])'
  <2>1. status[m] = "SETTLED"
    BY <1>0, <1>2 DEF Snapshotted
  <2>2. PICK x : x = task[m]
    OBVIOUS
  <2>3. Snapshotting(m, x)
    BY <1>0, <1>2, <2>2 DEF Snapshotted
  <2>4. Snapshotting(m, x)'
    BY <1>0, <2>1, <2>3, SnapshottingStays
  <2>5. task'[m] = x
    BY <2>2
  <2>. QED
    BY <2>4, <2>5
<1>3. ASSUME DOMAIN snapshot[m] # {} PROVE OfOneMoment(m, snapshot[m])'
  <2>1. status[m] = "SETTLED"
    BY <1>0, <1>3 DEF Snapshotted
  <2>2. PICK scores : scores = snapshot[m]
    OBVIOUS
  <2>3. OfOneMoment(m, scores) /\ DOMAIN scores \subseteq Users
    BY <1>0, <1>3, <2>2 DEF Snapshotted
  <2>4. OfOneMoment(m, scores)'
    BY <1>0, <2>1, <2>3, MomentStays
  <2>5. snapshot'[m] = scores
    BY <2>2
  <2>. QED
    BY <2>4, <2>5
<1>4. task'[m] # None => DOMAIN snapshot'[m] = {} /\ Snapshotting(m, task[m])'
  BY <1>0, <1>2 DEF Snapshotted
<1>5. DOMAIN snapshot'[m] # {} => OfOneMoment(m, snapshot[m])'
  BY <1>3
<1>6. status'[m] # "SETTLED" => task'[m] = None /\ DOMAIN snapshot'[m] = {}
  BY <1>0, <1>1 DEF Snapshotted
<1>. QED
  BY <1>4, <1>5, <1>6 DEF Snapshotted

-----------------------------------------------------------------------------
(* What each statement adds to what its task has read. *)

LEMMA NewTaskSoFar ==
  ASSUME NEW kind \in DOMAIN Plan, NEW u \in Users \cup {None}, NEW c \in Competitions,
         kind = "me" => u \in Users
  PROVE  /\ NewTask(kind, u, c) \in TaskType
         /\ SoFar(NewTask(kind, u, c))
<1> DEFINE x == NewTask(kind, u, c)
<1>1. /\ x.kind = kind /\ x.user = u /\ x.competition = c /\ x.todo = Plan[kind]
      /\ x.seen = {} /\ x.settled = {} /\ x.txns = {} /\ x.own = {}
  BY DEF NewTask
<1>2. /\ kind = "me" => Plan[kind] = <<"ledger", "markets">>
      /\ kind # "me" => Plan[kind] \in Unread
  BY PlanOf DEF Kinds
<1>3. Plan[kind] \in Seq(SelectNames)
  BY <1>2, SeqsOfNames DEF PageLeft
<1>4. x \in TaskType
  BY <1>3 DEF NewTask, TaskType, SelectNames
<1> HIDE DEF x
<1>5. kind = "me" => SoFar(x)
  BY <1>1, <1>2, PageStages DEF SoFar, PageSoFar, PageLeft
<1>6. kind # "me" => SoFar(x)
  BY <1>1, <1>2, StagesApart DEF SoFar, StandingsSoFar
<1>. QED
  BY <1>4, <1>5, <1>6 DEF x

\* What the head of the statements left says about the stage.
LEMMA StageOf ==
  ASSUME NEW x \in TaskType, SoFar(x), x.todo # <<>>
  PROVE  /\ Head(x.todo) = "members" => x.kind # "me" /\ x.todo \in Unread
         /\ Head(x.todo) = "markets" =>
              IF x.kind = "me" THEN x.todo = <<"markets">> ELSE x.todo \in MembersRead
         /\ Head(x.todo) = "ledger" =>
              IF x.kind = "me" THEN x.todo = <<"ledger", "markets">> ELSE x.todo \in MarketsRead
         /\ Head(x.todo) = "own" => x.kind # "me" /\ x.todo \in AllRead
         /\ Head(x.todo) = "insert" => x.kind # "me" /\ x.todo \in AllRead
<1>1. CASE x.kind = "me"
  BY <1>1, PageStages DEF SoFar, PageSoFar, PageLeft
<1>2. CASE x.kind # "me"
  BY <1>2, StandingsStages DEF SoFar, StandingsSoFar
<1>. QED
  BY <1>1, <1>2

LEMMA MembersThen ==
  ASSUME NEW x \in TaskType, SoFar(x), x.todo # <<>>, Head(x.todo) = "members",
         NEW rows, rows = {u \in Users : <<x.competition, u>> \in member},
         NEW y, y = [x EXCEPT !.seen = rows, !.todo = Tail(x.todo)]
  PROVE  y \in TaskType /\ SoFar(y) /\ x.todo \in Unread /\ y.todo \in MembersRead
<1>1. x.kind # "me" /\ x.todo \in Unread /\ Tail(x.todo) \in MembersRead
  BY StageOf, StandingsStages
<1>2. Tail(x.todo) \in Seq(SelectNames)
  BY <1>1, SeqsOfNames
<1>3. y \in TaskType
  BY <1>2 DEF TaskType, SelectNames
<1>4. /\ y.kind = x.kind /\ y.competition = x.competition /\ y.seen = rows
      /\ y.todo = Tail(x.todo)
  BY DEF TaskType
<1>5. y.todo \notin MarketsRead \cup AllRead
  BY <1>1, <1>4, StagesApart
<1>6. StandingsSoFar(y)
  BY <1>1, <1>4, <1>5 DEF StandingsSoFar
<1>. QED
  BY <1>1, <1>3, <1>4, <1>6 DEF SoFar

LEMMA MarketsThen ==
  ASSUME Books, NEW x \in TaskType, SoFar(x), x.todo # <<>>, Head(x.todo) = "markets",
         NEW rows, rows = SettledNow(x.competition),
         NEW y, y = [x EXCEPT !.settled = rows, !.todo = Tail(x.todo)]
  PROVE  /\ y \in TaskType /\ SoFar(y)
         /\ x.kind # "me" => x.todo \in MembersRead /\ y.todo \in MarketsRead
<1>0. x.competition \in Competitions /\ x.seen \in SUBSET Users
  BY DEF TaskType
<1>1. /\ y.kind = x.kind /\ y.competition = x.competition /\ y.seen = x.seen
      /\ y.todo = Tail(x.todo) /\ y.settled = rows /\ y.txns = x.txns /\ y.user = x.user
  BY DEF TaskType
<1>2. Tail(x.todo) \in Seq(SelectNames) => y \in TaskType
  BY DEF TaskType, SelectNames, SettledNow
<1>3. CASE x.kind = "me"
  <2>1. x.todo = <<"markets">> /\ y.todo = <<>>
    BY <1>1, <1>3, StageOf, PageStages
  <2>2. <<>> \in Seq(SelectNames)
    OBVIOUS
  <2>3. PageSoFar(x)
    BY <1>3 DEF SoFar
  <2>4. PageSoFar(y)
    BY <1>1, <2>1, <2>3, PageStages DEF PageSoFar, PageLeft
  <2>. QED
    BY <1>1, <1>2, <1>3, <2>1, <2>2, <2>4 DEF SoFar
<1>4. CASE x.kind # "me"
  <2>1. x.todo \in MembersRead /\ y.todo \in MarketsRead
    BY <1>1, <1>4, StageOf, StandingsStages
  <2>2. y.todo \in Seq(SelectNames)
    BY <2>1, SeqsOfNames
  <2>3. x.todo \notin Unread /\ y.todo \notin AllRead
    BY <2>1, StagesApart
  <2>4. \A u \in Users : Score(x.competition, u, rows) >= 0
    BY <1>0, ScoreIsNoDebt
  <2>5. StandingsSoFar(x)
    BY <1>4 DEF SoFar
  <2>6. StandingsSoFar(y)
    BY <1>0, <1>1, <2>1, <2>3, <2>4, <2>5 DEF StandingsSoFar
  <2>. QED
    BY <1>1, <1>2, <1>4, <2>1, <2>2, <2>6 DEF SoFar
<1>. QED
  BY <1>3, <1>4

LEMMA LedgerThen ==
  ASSUME Books, NEW x \in TaskType, SoFar(x), x.todo # <<>>, Head(x.todo) = "ledger",
         NEW rows,
         rows = {e \in Rows(x.competition) : x.kind = "me" => e.user = x.user},
         NEW y, y = [x EXCEPT !.txns = rows, !.todo = Tail(x.todo)]
  PROVE  /\ y \in TaskType /\ SoFar(y)
         /\ x.kind # "me" => x.todo \in MarketsRead /\ y.todo \in AllRead
<1>0. /\ x.competition \in Competitions /\ x.seen \in SUBSET Users
      /\ ledger \subseteq LedgerTxn
  BY DEF TaskType, Books, TablesTypeOK
<1>1. /\ y.kind = x.kind /\ y.competition = x.competition /\ y.seen = x.seen
      /\ y.todo = Tail(x.todo) /\ y.settled = x.settled /\ y.txns = rows /\ y.user = x.user
  BY DEF TaskType
<1>2. Tail(x.todo) \in Seq(SelectNames) => y \in TaskType
  BY <1>0 DEF TaskType, SelectNames, Rows
<1>3. CASE x.kind = "me"
  <2>1. x.todo = <<"ledger", "markets">> /\ y.todo = <<"markets">>
    BY <1>1, <1>3, StageOf, PageStages
  <2>2. y.todo \in Seq(SelectNames)
    BY <2>1, SeqsOfNames DEF PageLeft
  <2>3. PageSoFar(x)
    BY <1>3 DEF SoFar
  <2>4. rows = Account(x.competition, x.user)
    BY <1>3 DEF Rows, Account
  <2>5. /\ Net(rows) >= 0 /\ IsFiniteSet(rows) /\ Matched(rows)
        /\ Outside(rows, SettledNow(x.competition))
    BY <1>0, <2>3, <2>4, AccountMatched DEF PageSoFar
  <2>6. PageSoFar(y)
    BY <1>1, <2>1, <2>3, <2>5, PageStages DEF PageSoFar, PageLeft
  <2>. QED
    BY <1>1, <1>2, <1>3, <2>2, <2>6 DEF SoFar
<1>4. CASE x.kind # "me"
  <2>1. x.todo \in MarketsRead /\ y.todo \in AllRead
    BY <1>1, <1>4, StageOf, StandingsStages
  <2>2. y.todo \in Seq(SelectNames)
    BY <2>1, SeqsOfNames
  <2>3. x.todo \notin Unread /\ y.todo \notin Unread
    BY <2>1, StagesApart
  <2>4. \A u \in x.seen :
          {e \in rows : e.user = u /\ Included(e, x.settled)}
            = ScoreRows(x.competition, u, x.settled)
    BY <1>4 DEF Rows, Included, ScoreRows, Account
  <2>5. StandingsSoFar(x)
    BY <1>4 DEF SoFar
  <2>6. StandingsSoFar(y)
    BY <1>1, <2>1, <2>3, <2>4, <2>5 DEF StandingsSoFar
  <2>. QED
    BY <1>1, <1>2, <1>4, <2>1, <2>2, <2>6 DEF SoFar
<1>. QED
  BY <1>3, <1>4

LEMMA OwnThen ==
  ASSUME Books, NEW x \in TaskType, SoFar(x), x.todo # <<>>, Head(x.todo) = "own",
         NEW rows, rows = Account(x.competition, x.user),
         NEW y, y = [x EXCEPT !.own = rows, !.todo = Tail(x.todo)]
  PROVE  y \in TaskType /\ SoFar(y) /\ x.todo \in AllRead /\ y.todo \in AllRead
<1>1. x.kind # "me" /\ x.todo \in AllRead /\ Tail(x.todo) = <<>>
  BY StageOf, StandingsStages
<1>2. /\ y.kind = x.kind /\ y.competition = x.competition /\ y.seen = x.seen
      /\ y.todo = <<>> /\ y.settled = x.settled /\ y.txns = x.txns
  BY <1>1 DEF TaskType
<1>3. <<>> \in AllRead /\ <<>> \in Seq(SelectNames)
  BY DEF AllRead
<1>4. y \in TaskType
  BY <1>1, <1>3 DEF TaskType, SelectNames, Account, Books, TablesTypeOK
<1>5. x.todo \notin Unread /\ y.todo \notin Unread
  BY <1>1, <1>2, <1>3, StagesApart
<1>6. StandingsSoFar(y)
  BY <1>1, <1>2, <1>3, <1>5 DEF SoFar, StandingsSoFar
<1>. QED
  BY <1>1, <1>2, <1>3, <1>4, <1>6 DEF SoFar

-----------------------------------------------------------------------------
(* One step of one task. *)

\* A task that moves while nothing else does, to a state it may be in.
LEMMA OneTaskMoves ==
  ASSUME ReadersInvariant, UNCHANGED <<tables, snapshot>>,
         NEW t \in Tasks, NEW y \in TaskType \cup {None},
         task' = [task EXCEPT ![t] = y],
         y # None => SoFar(y),
         y # None /\ t \in Markets => task[t] # None /\ Snapshotting(t, y)
  PROVE  ReadersInvariant'
<1>1. BookStep /\ Books /\ TypeOK
  BY DEF BookStep, ReadersInvariant
<1>2. Books'
  BY <1>1, StepKeepsBooks
<1>3. task'[t] = y /\ \A i \in Tasks \ {t} : task'[i] = task[i]
  BY <1>1 DEF TypeOK
<1>4. TypeOK'
  BY <1>1, <1>2 DEF TypeOK, Books
<1>5. ASSUME NEW i \in Tasks PROVE Reading(i)'
  <2>1. CASE i # t
    BY <1>1, <1>2, <1>3, <2>1, ReadingStays
  <2>2. CASE i = t /\ y # None
    <3>1. SoFar(y)'
      BY <1>1, <1>2, <2>2, SoFarStays
    <3>. QED
      BY <1>3, <2>2, <3>1 DEF Reading
  <2>3. CASE i = t /\ y = None
    BY <1>3, <2>3 DEF Reading
  <2>. QED
    BY <2>1, <2>2, <2>3
<1>6. ASSUME NEW m \in Markets PROVE Snapshotted(m)'
  <2>0. /\ Snapshotted(m) /\ m \in Tasks /\ status' = status /\ snapshot' = snapshot
        /\ DOMAIN snapshot[m] \subseteq Users
    BY DEF ReadersInvariant, TypeOK, Tasks, tables
  <2>1. CASE m # t
    BY <1>1, <1>2, <1>3, <2>0, <2>1, SnapshottedStays
  <2>2. CASE m = t
    <3>1. DOMAIN snapshot[m] # {} => OfOneMoment(m, snapshot[m])'
      <4> SUFFICES ASSUME DOMAIN snapshot[m] # {} PROVE OfOneMoment(m, snapshot[m])'
        OBVIOUS
      <4>1. PICK scores : scores = snapshot[m]
        OBVIOUS
      <4>2. status[m] = "SETTLED" /\ OfOneMoment(m, scores) /\ DOMAIN scores \subseteq Users
        BY <2>0, <4>1 DEF Snapshotted
      <4>3. OfOneMoment(m, scores)'
        BY <1>1, <1>2, <4>2, MomentStays
      <4>4. snapshot'[m] = scores
        BY <2>0, <4>1
      <4>. QED
        BY <4>3, <4>4
    <3>2. y # None => /\ status[m] = "SETTLED" /\ DOMAIN snapshot[m] = {}
                      /\ Snapshotting(m, y)'
      BY <1>1, <2>0, <2>2, SnapshottingStays DEF Snapshotted
    <3>3. task'[m] # None => DOMAIN snapshot'[m] = {} /\ Snapshotting(m, task[m])'
      BY <1>3, <2>0, <2>2, <3>2
    <3>4. status'[m] # "SETTLED" => task'[m] = None /\ DOMAIN snapshot'[m] = {}
      BY <1>3, <2>0, <2>2, <3>2 DEF Snapshotted
    <3>5. DOMAIN snapshot'[m] # {} => OfOneMoment(m, snapshot[m])'
      BY <2>0, <3>1
    <3>. QED
      BY <3>3, <3>4, <3>5 DEF Snapshotted
  <2>. QED
    BY <2>1, <2>2
<1>7. snapshot' = [m \in Markets |-> snapshot'[m]]
  BY DEF ReadersInvariant
<1>. QED
  BY <1>2, <1>4, <1>5, <1>6, <1>7 DEF ReadersInvariant

LEMMA AskKeepsReaders ==
  ASSUME ReadersInvariant, NEW t \in Readers, NEW kind \in DOMAIN Plan, NEW u \in Users,
         NEW c \in Competitions, Ask(t, kind, u, c)
  PROVE  ReadersInvariant'
<1>1. t \in Tasks /\ t \notin Markets
  BY ReadersAssumption DEF Tasks
<1>2. NewTask(kind, u, c) \in TaskType /\ SoFar(NewTask(kind, u, c))
  BY NewTaskSoFar
<1>3. PICK y \in TaskType : y = NewTask(kind, u, c)
  BY <1>2
<1>. QED
  BY <1>1, <1>2, <1>3, OneTaskMoves DEF Ask

LEMMA EndKeepsReaders ==
  ASSUME ReadersInvariant, NEW t \in Tasks, Answer(t) \/ Fail(t)
  PROVE  ReadersInvariant'
<1>1. PICK y \in {None} : TRUE
  OBVIOUS
<1>2. task' = [task EXCEPT ![t] = y] /\ UNCHANGED <<tables, snapshot>>
  BY <1>1 DEF Answer, Fail
<1>. QED
  BY <1>1, <1>2, OneTaskMoves

\* The task of a market that is under way follows a settlement.
LEMMA TaskUnderWay ==
  ASSUME ReadersInvariant, NEW t \in Tasks, task[t] # None
  PROVE  /\ task[t] \in TaskType /\ SoFar(task[t])
         /\ t \in Markets => status[t] = "SETTLED" /\ Snapshotting(t, task[t])
BY DEF ReadersInvariant, TypeOK, Reading, Snapshotted

LEMMA MembersReadKeeps ==
  ASSUME ReadersInvariant, NEW t \in Tasks, ReadMembers(t)
  PROVE  ReadersInvariant'
<1>1. PICK x \in TaskType : x = task[t]
  BY TaskUnderWay DEF ReadMembers, Select
<1>2. PICK rows : rows = {u \in Users : <<x.competition, u>> \in member}
  OBVIOUS
<1>3. PICK y : y = [x EXCEPT !.seen = rows, !.todo = Tail(x.todo)]
  OBVIOUS
<1>4. /\ task[t] # None /\ x.todo # <<>> /\ Head(x.todo) = "members"
      /\ task' = [task EXCEPT ![t] = y] /\ UNCHANGED <<tables, snapshot>>
  BY <1>1, <1>2, <1>3 DEF ReadMembers, Select, ReadersInvariant, TypeOK
<1>5. SoFar(x) /\ (t \in Markets => status[t] = "SETTLED" /\ Snapshotting(t, x))
  BY <1>1, <1>4, TaskUnderWay
<1>6. /\ y \in TaskType /\ SoFar(y) /\ x.todo \in Unread /\ y.todo \in MembersRead
  BY <1>2, <1>3, <1>4, <1>5, MembersThen
<1>7. t \in Markets => Snapshotting(t, y)
  <2>1. /\ y.kind = x.kind /\ y.competition = x.competition /\ y.seen = rows
    BY <1>3 DEF TaskType
  <2>2. y.todo \notin MarketsRead \cup AllRead
    BY <1>6, StagesApart
  <2>3. ASSUME t \in Markets PROVE Bettors(t) \subseteq {u \in Users : <<CompetitionOf[t], u>> \in member}
    BY <2>3, BetFields DEF ReadersInvariant, Books, StakesBelong, Bettors, BetsOn
  <2>. QED
    BY <1>2, <1>5, <1>6, <2>1, <2>2, <2>3 DEF Snapshotting
<1>. QED
  BY <1>1, <1>4, <1>6, <1>7, OneTaskMoves

LEMMA MarketsReadKeeps ==
  ASSUME ReadersInvariant, NEW t \in Tasks, ReadMarkets(t)
  PROVE  ReadersInvariant'
<1>1. PICK x \in TaskType : x = task[t]
  BY TaskUnderWay DEF ReadMarkets, Select
<1>2. PICK rows : rows = SettledNow(x.competition)
  OBVIOUS
<1>3. PICK y : y = [x EXCEPT !.settled = rows, !.todo = Tail(x.todo)]
  OBVIOUS
<1>4. /\ task[t] # None /\ x.todo # <<>> /\ Head(x.todo) = "markets"
      /\ task' = [task EXCEPT ![t] = y] /\ UNCHANGED <<tables, snapshot>>
  BY <1>1, <1>2, <1>3 DEF ReadMarkets, Select, ReadersInvariant, TypeOK, SettledNow
<1>5. SoFar(x) /\ (t \in Markets => status[t] = "SETTLED" /\ Snapshotting(t, x))
  BY <1>1, <1>4, TaskUnderWay
<1>6. /\ y \in TaskType /\ SoFar(y)
      /\ x.kind # "me" => x.todo \in MembersRead /\ y.todo \in MarketsRead
  BY <1>2, <1>3, <1>4, <1>5, MarketsThen DEF ReadersInvariant
<1>7. t \in Markets => Snapshotting(t, y)
  <2>1. /\ y.kind = x.kind /\ y.competition = x.competition /\ y.seen = x.seen
        /\ y.settled = rows
    BY <1>3 DEF TaskType
  <2>2. ASSUME t \in Markets
        PROVE  /\ x.todo \notin Unread /\ t \in SettledNow(CompetitionOf[t])
    BY <1>5, <1>6, <2>2, StagesApart DEF Snapshotting, SettledNow
  <2>. QED
    BY <1>2, <1>5, <2>1, <2>2 DEF Snapshotting
<1>. QED
  BY <1>1, <1>4, <1>6, <1>7, OneTaskMoves

LEMMA LedgerReadKeeps ==
  ASSUME ReadersInvariant, NEW t \in Tasks, ReadLedger(t)
  PROVE  ReadersInvariant'
<1>1. PICK x \in TaskType : x = task[t]
  BY TaskUnderWay DEF ReadLedger, Select
<1>2. PICK rows : rows = {e \in Rows(x.competition) : x.kind = "me" => e.user = x.user}
  OBVIOUS
<1>3. PICK y : y = [x EXCEPT !.txns = rows, !.todo = Tail(x.todo)]
  OBVIOUS
<1>4. /\ task[t] # None /\ x.todo # <<>> /\ Head(x.todo) = "ledger"
      /\ task' = [task EXCEPT ![t] = y] /\ UNCHANGED <<tables, snapshot>>
  BY <1>1, <1>2, <1>3 DEF ReadLedger, Select, ReadersInvariant, TypeOK
<1>5. SoFar(x) /\ (t \in Markets => status[t] = "SETTLED" /\ Snapshotting(t, x))
  BY <1>1, <1>4, TaskUnderWay
<1>6. /\ y \in TaskType /\ SoFar(y)
      /\ x.kind # "me" => x.todo \in MarketsRead /\ y.todo \in AllRead
  BY <1>2, <1>3, <1>4, <1>5, LedgerThen DEF ReadersInvariant
<1>7. t \in Markets => Snapshotting(t, y)
  <2>1. /\ y.kind = x.kind /\ y.competition = x.competition /\ y.seen = x.seen
        /\ y.settled = x.settled
    BY <1>3 DEF TaskType
  <2>2. ASSUME t \in Markets PROVE x.todo \in MarketsRead /\ x.todo \notin Unread
    BY <1>5, <1>6, <2>2, StagesApart DEF Snapshotting
  <2>. QED
    BY <1>5, <2>1, <2>2 DEF Snapshotting
<1>. QED
  BY <1>1, <1>4, <1>6, <1>7, OneTaskMoves

LEMMA OwnReadKeeps ==
  ASSUME ReadersInvariant, NEW t \in Tasks, ReadOwn(t)
  PROVE  ReadersInvariant'
<1>1. PICK x \in TaskType : x = task[t]
  BY TaskUnderWay DEF ReadOwn, Select
<1>2. PICK rows : rows = Account(x.competition, x.user)
  OBVIOUS
<1>3. PICK y : y = [x EXCEPT !.own = rows, !.todo = Tail(x.todo)]
  OBVIOUS
<1>4. /\ task[t] # None /\ x.todo # <<>> /\ Head(x.todo) = "own"
      /\ task' = [task EXCEPT ![t] = y] /\ UNCHANGED <<tables, snapshot>>
  BY <1>1, <1>2, <1>3 DEF ReadOwn, Select, ReadersInvariant, TypeOK
<1>5. SoFar(x) /\ (t \in Markets => status[t] = "SETTLED" /\ Snapshotting(t, x))
  BY <1>1, <1>4, TaskUnderWay
<1>6. y \in TaskType /\ SoFar(y) /\ x.todo \in AllRead /\ y.todo \in AllRead
  BY <1>2, <1>3, <1>4, <1>5, OwnThen DEF ReadersInvariant
<1>7. t \in Markets => Snapshotting(t, y)
  <2>1. /\ y.kind = x.kind /\ y.competition = x.competition /\ y.seen = x.seen
        /\ y.settled = x.settled
    BY <1>3 DEF TaskType
  <2>. QED
    BY <1>5, <1>6, <2>1, StagesApart DEF Snapshotting
<1>. QED
  BY <1>1, <1>4, <1>6, <1>7, OneTaskMoves

\* The rows of a snapshot are the scores over the markets its standings saw settled.
LEMMA InsertKeepsReaders ==
  ASSUME ReadersInvariant, NEW m \in Markets, InsertSnapshot(m)
  PROVE  ReadersInvariant'
<1>0. m \in Tasks /\ BookStep /\ Books /\ TypeOK
  BY DEF Tasks, InsertSnapshot, BookStep, ReadersInvariant
<1>1. PICK x \in TaskType : x = task[m]
  BY <1>0, TaskUnderWay DEF InsertSnapshot
<1>2. PICK scores :
        scores = [u \in x.seen |-> Net({e \in x.txns : e.user = u /\ Included(e, x.settled)})]
  OBVIOUS
<1>3. /\ task[m] # None /\ x.todo = <<"insert">> /\ SoFar(x)
      /\ status[m] = "SETTLED" /\ Snapshotting(m, x) /\ DOMAIN snapshot[m] = {}
  BY <1>0, <1>1, TaskUnderWay DEF InsertSnapshot, ReadersInvariant, Snapshotted
<1>4. /\ UNCHANGED tables
      /\ task'[m] = None /\ \A i \in Tasks \ {m} : task'[i] = task[i]
      /\ \A n \in Markets \ {m} : snapshot'[n] = snapshot[n]
      /\ snapshot'[m] = scores
      /\ snapshot' = [n \in Markets |-> snapshot'[n]]
  <2>1. UNCHANGED tables /\ task' = [task EXCEPT ![m] = None]
    BY DEF InsertSnapshot
  <2>2. snapshot' = [snapshot EXCEPT ![m] =
           [u \in DOMAIN snapshot[m] \cup task[m].seen |->
              IF u \in DOMAIN snapshot[m] THEN snapshot[m][u] ELSE Standings(m)[u]]]
    BY DEF InsertSnapshot
  <2>3. [u \in DOMAIN snapshot[m] \cup task[m].seen |->
           IF u \in DOMAIN snapshot[m] THEN snapshot[m][u] ELSE Standings(m)[u]] = scores
    BY <1>1, <1>2, <1>3 DEF Standings
  <2>. QED
    BY <2>1, <2>2, <2>3, <1>0 DEF TypeOK, ReadersInvariant
<1>5. OfOneMoment(m, scores) /\ DOMAIN scores \subseteq Users
  <2> DEFINE c == CompetitionOf[m]
  <2>1. x.todo \in AllRead /\ x.todo \notin Unread
    BY <1>3, StagesApart DEF AllRead
  <2>2. x.kind # "me" /\ x.competition = c /\ Bettors(m) \subseteq x.seen /\ m \in x.settled
    BY <1>3, <2>1 DEF Snapshotting
  <2>3. /\ \A u \in x.seen : <<c, u>> \in member
        /\ x.settled \subseteq SettledNow(c)
        /\ \A u \in x.seen : {e \in x.txns : e.user = u /\ Included(e, x.settled)}
                               = ScoreRows(c, u, x.settled)
    BY <1>3, <2>1, <2>2 DEF SoFar, StandingsSoFar
  <2>4. \A u \in x.seen : scores[u] = Score(c, u, x.settled)
    BY <1>2, <2>3 DEF Score, ScoreRows
  <2>5. DOMAIN scores = x.seen /\ x.seen \subseteq Users
    BY <1>2 DEF TaskType
  <2>. QED
    BY <2>2, <2>3, <2>4, <2>5 DEF OfOneMoment
<1>6. Books'
  BY <1>0, StepKeepsBooks
<1>7. OfOneMoment(m, scores)'
  BY <1>0, <1>3, <1>5, <1>6, MomentStays
<1>8. TypeOK'
  <2>1. task' \in [Tasks -> TaskType \cup {None}]
    BY <1>0 DEF InsertSnapshot, TypeOK
  <2>2. \A n \in Markets : DOMAIN snapshot'[n] \subseteq Users
    BY <1>0, <1>4, <1>5 DEF TypeOK
  <2>. QED
    BY <1>6, <2>1, <2>2 DEF TypeOK, Books
<1>9. ASSUME NEW t \in Tasks PROVE Reading(t)'
  <2>1. CASE t # m
    BY <1>0, <1>4, <1>6, <2>1, ReadingStays
  <2>2. CASE t = m
    BY <1>4, <2>2 DEF Reading
  <2>. QED
    BY <2>1, <2>2
<1>10. ASSUME NEW n \in Markets PROVE Snapshotted(n)'
  <2>1. CASE n # m
    BY <1>0, <1>4, <1>6, <2>1, SnapshottedStays DEF Tasks, tables
  <2>2. CASE n = m
    <3>1. status'[m] = "SETTLED" /\ task'[m] = None
      BY <1>3, <1>4 DEF tables
    <3>2. OfOneMoment(m, snapshot[m])'
      BY <1>4, <1>7
    <3>. QED
      BY <2>2, <3>1, <3>2 DEF Snapshotted
  <2>. QED
    BY <2>1, <2>2
<1>. QED
  BY <1>4, <1>6, <1>8, <1>9, <1>10 DEF ReadersInvariant

\* A settlement starts the only snapshot of its market.
LEMMA SettleKeepsReaders ==
  ASSUME ReadersInvariant, NEW s \in Selections, NEW r \in Requests, Settle(s, r)
  PROVE  ReadersInvariant'
<1> DEFINE m == MarketOf[s]
<1>0. Books /\ TypeOK /\ TablesTypeOK
  BY DEF ReadersInvariant, Books
<1>1. /\ BookStep /\ m \in Markets /\ m \in Tasks
      /\ status[m] = "CLOSED" /\ status'[m] = "SETTLED"
      /\ \A n \in Markets \ {m} : status'[n] = status[n]
  BY <1>0, SettleIsBookStep DEF Tasks
<1>2. Books'
  BY <1>0, <1>1, StepKeepsBooks
<1>3. DOMAIN snapshot[m] = {}
  BY <1>1 DEF ReadersInvariant, Snapshotted
<1>4. PICK x : x = NewTask("snapshot", None, CompetitionOf[m])
  OBVIOUS
<1>5. x \in TaskType /\ SoFar(x)
  <2>1. "snapshot" \in DOMAIN Plan /\ CompetitionOf[m] \in Competitions
    BY <1>1, PlanOf, ShapeAssumption DEF Kinds
  <2>. QED
    BY <1>4, <2>1, NewTaskSoFar
<1>6. /\ x.kind = "snapshot" /\ x.competition = CompetitionOf[m] /\ x.todo \in Unread
      /\ x.todo \notin MarketsRead \cup AllRead
  BY <1>4, PlanOf, StagesApart DEF NewTask
<1>7. /\ task' = [task EXCEPT ![m] = x] /\ snapshot' = snapshot
  BY <1>4 DEF Settle
<1>8. task'[m] = x /\ \A i \in Tasks \ {m} : task'[i] = task[i]
  BY <1>0, <1>1, <1>7 DEF TypeOK
<1>9. TypeOK'
  <2>1. task' \in [Tasks -> TaskType \cup {None}]
    BY <1>0, <1>5, <1>7 DEF TypeOK
  <2>. QED
    BY <1>0, <1>2, <1>7, <2>1 DEF TypeOK, Books
<1> HIDE DEF m
<1>10. ASSUME NEW t \in Tasks PROVE Reading(t)'
  <2>1. CASE t # m
    BY <1>1, <1>2, <1>8, <2>1, ReadingStays
  <2>2. CASE t = m
    <3>1. SoFar(x)'
      BY <1>0, <1>1, <1>2, <1>5, SoFarStays
    <3>. QED
      BY <1>8, <2>2, <3>1 DEF Reading
  <2>. QED
    BY <2>1, <2>2
<1>11. ASSUME NEW n \in Markets PROVE Snapshotted(n)'
  <2>1. CASE n # m
    BY <1>1, <1>2, <1>7, <1>8, <2>1, SnapshottedStays DEF Tasks
  <2>2. CASE n = m
    <3>1. Snapshotting(m, x)'
      BY <1>6 DEF Snapshotting
    <3>2. Snapshotting(m, task[m])'
      BY <1>8, <3>1
    <3>3. DOMAIN snapshot'[m] = {}
      BY <1>3, <1>7
    <3>. QED
      BY <1>1, <2>2, <3>2, <3>3 DEF Snapshotted
  <2>. QED
    BY <2>1, <2>2
<1>12. snapshot' = [n \in Markets |-> snapshot'[n]]
  BY <1>7 DEF ReadersInvariant
<1>. QED
  BY <1>2, <1>9, <1>10, <1>11, <1>12 DEF ReadersInvariant

\* The game goes on, the readers stay where they are.
LEMMA GameKeepsReaders ==
  ASSUME ReadersInvariant, UNCHANGED reading, BookStep,
         \A m \in Markets : status'[m] = "SETTLED" => status[m] = "SETTLED"
  PROVE  ReadersInvariant'
<1>1. task' = task /\ snapshot' = snapshot /\ Books /\ TypeOK
  BY DEF reading, ReadersInvariant
<1>2. Books'
  BY <1>1, StepKeepsBooks
<1>3. TypeOK'
  BY <1>1, <1>2 DEF TypeOK, Books
<1>4. \A t \in Tasks : Reading(t)'
  BY <1>1, <1>2, ReadingStays
<1>5. \A m \in Markets : Snapshotted(m)'
  BY <1>1, <1>2, SnapshottedStays
<1>6. snapshot' = [m \in Markets |-> snapshot'[m]]
  BY <1>1 DEF ReadersInvariant
<1>. QED
  BY <1>2, <1>3, <1>4, <1>5, <1>6 DEF ReadersInvariant

-----------------------------------------------------------------------------
(* The theorems. *)

LEMMA InitReaders == Init => ReadersInvariant
<1> SUFFICES ASSUME Init PROVE ReadersInvariant
  OBVIOUS
<1>1. TablesInit
  BY DEF Init, Game!Init, Game!TablesInit, TablesInit, Entry, Game!Entry
<1>2. Books
  BY <1>1, InitBooks
<1>3. /\ task = [t \in Tasks |-> None] /\ snapshot = [m \in Markets |-> <<>>]
  BY DEF Init
<1>4. \A m \in Markets : DOMAIN snapshot[m] = {}
  BY <1>3
<1>5. TypeOK
  BY <1>2, <1>3, <1>4 DEF TypeOK, Books
<1>6. \A t \in Tasks : task[t] = None
  BY <1>3
<1>7. \A t \in Tasks : Reading(t)
  BY <1>6 DEF Reading
<1>8. \A m \in Markets : Snapshotted(m)
  BY <1>4, <1>6 DEF Snapshotted, Tasks
<1>9. snapshot = [m \in Markets |-> snapshot[m]]
  BY <1>3
<1>. QED
  BY <1>2, <1>5, <1>7, <1>8, <1>9 DEF ReadersInvariant

LEMMA NextKeepsReaders ==
  ASSUME ReadersInvariant, [Next]_<<tables, reading>>
  PROVE  ReadersInvariant'
<1>0. TablesTypeOK
  BY DEF ReadersInvariant, Books
<1>1. CASE Play
  <2>1. UNCHANGED reading
    BY <1>1 DEF Play
  <2>. QED
    BY <1>0, <1>1, <2>1, PlayIsBookStep, GameKeepsReaders
<1>2. CASE UNCHANGED <<tables, reading>>
  <2>1. BookStep /\ UNCHANGED reading /\ status' = status
    BY <1>2 DEF BookStep, tables
  <2>. QED
    BY <2>1, GameKeepsReaders
<1>. QED
  BY <1>1, <1>2, SettleKeepsReaders, AskKeepsReaders, MembersReadKeeps, MarketsReadKeeps,
     LedgerReadKeeps, OwnReadKeeps, InsertKeepsReaders, EndKeepsReaders DEF Next, Tasks

\* What the readers have read is true of the books, statement by statement, for any
\* number of readers, players and markets and whatever commits in between.
THEOREM ReadersAreKept == Spec => []ReadersInvariant
<1>. QED
  BY InitReaders, NextKeepsReaders, PTL DEF Spec

\* The readers keep members, markets and ledger rows, and a snapshot is by user.
THEOREM TypesAreKept == Spec => []TypeOK
<1>1. ReadersInvariant => TypeOK
  BY DEF ReadersInvariant
<1>. QED
  BY <1>1, ReadersAreKept, PTL

\* What has been read when a statement is no longer to come.
LEMMA StageReached ==
  ASSUME ReadersInvariant, NEW t \in Tasks, HasRead(t, {"members", "markets", "ledger"})
  PROVE  /\ task[t] # None /\ task[t] \in TaskType /\ SoFar(task[t])
         /\ IF task[t].kind = "me" THEN task[t].todo = <<>> ELSE task[t].todo \in AllRead
<1>1. task[t] # None /\ task[t] \in TaskType /\ SoFar(task[t])
  BY TaskUnderWay DEF HasRead
<1>2. task[t].todo # <<>> => Head(task[t].todo) \notin {"members", "markets", "ledger"}
  <2> SUFFICES ASSUME task[t].todo # <<>>
               PROVE  Head(task[t].todo) \notin {"members", "markets", "ledger"}
    OBVIOUS
  <2>1. task[t].todo \in Seq({"members", "markets", "ledger", "own", "insert"})
    BY <1>1 DEF TaskType
  <2>2. 1 \in 1 .. Len(task[t].todo) /\ Head(task[t].todo) = task[t].todo[1]
    BY <2>1
  <2>. QED
    BY <2>2 DEF HasRead
<1>3. CASE task[t].kind = "me"
  <2>1. task[t].todo \in PageLeft
    BY <1>1, <1>3 DEF SoFar, PageSoFar
  <2>. QED
    BY <1>1, <1>2, <1>3, <2>1, PageStages DEF PageLeft
<1>4. CASE task[t].kind # "me"
  <2>1. task[t].todo \in Unread \cup MembersRead \cup MarketsRead \cup AllRead
    BY <1>1, <1>4 DEF SoFar, StandingsSoFar
  <2>. QED
    BY <1>1, <1>2, <1>4, <2>1, StandingsStages
<1>. QED
  BY <1>3, <1>4

\* A leaderboard, a summary and a snapshot show everyone they list exactly the
\* settled markets they saw, with all that was staked and won there and nothing of
\* a market that was running, and show nobody a debt (getSettledBalances).
THEOREM StandingsOfOneMoment == Spec => []StandingsAreOfOneMoment
<1>1. ReadersInvariant => StandingsAreOfOneMoment
  <2> SUFFICES ASSUME ReadersInvariant, NEW t \in Tasks,
                      HasRead(t, {"members", "markets", "ledger"}), task[t].kind # "me"
               PROVE  LET c == task[t].competition IN
                      /\ task[t].settled \subseteq SettledNow(c)
                      /\ \A u \in task[t].seen : /\ <<c, u>> \in member
                                                 /\ Standings(t)[u] = Score(c, u, task[t].settled)
                                                 /\ Standings(t)[u] >= 0
    BY DEF StandingsAreOfOneMoment
  <2> DEFINE x == task[t]
             c == x.competition
  <2>1. SoFar(x) /\ x.todo \in AllRead /\ x.todo \notin Unread
    BY StageReached, StagesApart
  <2>2. StandingsSoFar(x)
    BY <2>1 DEF SoFar
  <2>3. /\ x.settled \subseteq SettledNow(c)
        /\ \A u \in x.seen :
             /\ <<c, u>> \in member
             /\ Score(c, u, x.settled) >= 0
             /\ {e \in x.txns : e.user = u /\ Included(e, x.settled)} = ScoreRows(c, u, x.settled)
    BY <2>1, <2>2 DEF StandingsSoFar
  <2>4. \A u \in x.seen : Standings(t)[u] = Score(c, u, x.settled)
    BY <2>3 DEF Standings, Score, ScoreRows
  <2>. QED
    BY <2>3, <2>4
<1>. QED
  BY <1>1, ReadersAreKept, PTL

\* A player's page never shows more available than settled, and never a debt, though
\* its ledger is read before its markets (getPlayerState).
THEOREM AvailableIsWithinSettled == Spec => []AvailableWithinSettled
<1>1. ReadersInvariant => AvailableWithinSettled
  <2> SUFFICES ASSUME ReadersInvariant, NEW t \in Readers,
                      HasRead(t, {"members", "markets", "ledger"}), task[t].kind = "me"
               PROVE  0 <= CurrentBalance(t) /\ CurrentBalance(t) <= SettledBalance(t)
    BY DEF AvailableWithinSettled
  <2> DEFINE rows == task[t].txns
             settled == task[t].settled
  <2>1. /\ task[t] \in TaskType /\ SoFar(task[t]) /\ task[t].todo = <<>>
    BY StageReached DEF Tasks
  <2>2. /\ rows \subseteq LedgerTxn /\ Net(rows) >= 0 /\ IsFiniteSet(rows) /\ Matched(rows)
        /\ Outside(rows, settled)
    BY <2>1, PageStages DEF SoFar, PageSoFar, TaskType
  <2> HIDE DEF rows, settled
  <2>3. Net({e \in rows : e.market \in settled \cup {None}}) >= Net(rows)
    BY <2>2, ExcludingStakes
  <2>4. {e \in rows : e.market \in settled \cup {None}} = {e \in rows : Included(e, settled)}
    BY DEF Included
  <2>5. Net(rows) \in Int /\ Net({e \in rows : Included(e, settled)}) \in Int
    <3>1. {e \in rows : Included(e, settled)} \in SUBSET rows
      OBVIOUS
    <3>. QED
      BY <2>2, <3>1, NetType, FS_Subset
  <2>6. CurrentBalance(t) = Net(rows)
        /\ SettledBalance(t) = Net({e \in rows : Included(e, settled)})
    BY DEF CurrentBalance, SettledBalance, rows, settled
  <2>. QED
    BY <2>2, <2>3, <2>4, <2>5, <2>6
<1>. QED
  BY <1>1, ReadersAreKept, PTL

\* The snapshot of a market lists everyone who staked on it and scores them over
\* that market and others that were settled, whole (createSnapshot).
THEOREM SnapshotsOfOneMoment == Spec => []SnapshotsAreOfOneMoment
<1>1. ReadersInvariant => SnapshotsAreOfOneMoment
  BY DEF ReadersInvariant, Snapshotted, OfOneMoment, Bettors, SnapshotsAreOfOneMoment
<1>. QED
  BY <1>1, ReadersAreKept, PTL

=============================================================================
