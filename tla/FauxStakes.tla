----------------------------- MODULE FauxStakes -----------------------------
(***************************************************************************)
(* Every handler that moves Orakls or a market, running at once over one   *)
(* database.                                                               *)
(***************************************************************************)
EXTENDS BetsService, MarketsService, CompetitionsService

Init == TablesInit /\ SessionInit

\* One statement of a request that has arrived.
Step(r) ==
  PlaceBet(r) \/ UndoBet(r) \/ MarketStep(r) \/ JoinCompetition(r)
  \/ TouchCompetition(r)

\* Every request has been answered or will never be sent.
Quiet ==
  /\ \A r \in Requests : pc[r] \in {"idle", "done"}
  /\ UNCHANGED vars

Next ==
  \/ \E r \in Requests, a \in Calls : Arrive(r, a)
  \/ \E r \in Requests : Step(r)
  \/ \E r \in Requests : Abort(r)
  \/ Quiet

Spec == Init /\ [][Next]_vars

\* A server that is up executes the next statement of every open request, and
\* PostgreSQL grants a lock that stays free.  Arrivals and aborts are not owed.
Fairness == \A r \in Requests : WF_vars(Step(r))

FairSpec == Spec /\ Fairness

-----------------------------------------------------------------------------

TypeOK == TablesTypeOK /\ SessionTypeOK

Atomic == INSTANCE Wagering

\* Every behaviour of the interleaved transactions is one of the atomic game.
ImplementsWagering == Atomic!Spec

\* The checks after the locks are never what fails: nobody loses a race after
\* having been let in ('Bet is no longer pending' and 'A stake changed while
\* this market was being resolved' are never thrown).
NoLateConflict == \A r \in Requests : reply[r] # "conflict"

\* What the answer "ok" tells the caller: the bet of the key is the caller's own,
\* in the competition of the URL, and an undo has left it void.
Truthful(r) ==
  LET a == call[r] IN
  /\ a.op \in {"place", "undo"} => bet[a.key] # None /\ Mine(a.key, a)
  /\ a.op = "undo" => bet[a.key].status = "VOID"

\* Nobody is answered with somebody else's bet, whoever sent the key first, in
\* whichever competition, and on whichever of its three paths placeBet finds the
\* bet (the lookup, its own insert, or the copy that won the race); and what a
\* player was told is still so when others have gone on.
AnswersHold == \A r \in Requests : reply[r] = "ok" => Truthful(r)

\* A call is being handled.
Open(r) == pc[r] \notin {"idle", "done"}

\* The next statement of a call has to lock the row.  A statement that finds
\* nothing to update, and one that only reads, locks none; the loop of a
\* settlement may be at any bet it has left.
Wants(r, row) ==
  LET a == call[r]
      IsOpen(m) == CompetitionOf[m] = a.competition /\ status[m] = "OPEN"
  IN  \/ /\ At(r, "stake")
         /\ IsOpen(a.market)
         /\ row = MarketRow(a.market)
      \/ /\ At(r, "reopen")
         /\ IsOpen(MarketOf[bet[a.key].selection])
         /\ row = MarketRow(MarketOf[bet[a.key].selection])
      \/ /\ At(r, "claim")
         /\ CompetitionOf[a.market] = a.competition
         /\ status[a.market] = From[a.op]
         /\ row = MarketRow(a.market)
      \/ At(r, "insert") /\ row = MarketRow(a.market)
      \/ /\ At(r, "wallet")
         /\ <<a.competition, a.user>> \in member
         /\ row = WalletRow(a.competition, a.user)
      \/ At(r, "upsert") /\ row = WalletRow(a.competition, a.user)
      \/ At(r, "bet") /\ row = BetRow(a.key)
      \/ /\ At(r, "void")
         /\ bet[a.key].status = "PENDING"
         /\ row = BetRow(a.key)
      \/ /\ At(r, "resolve")
         /\ \E k \in todo[r] : bet[k].status = "PENDING" /\ row = BetRow(k)
      \/ At(r, "touch") /\ row = CompetitionRow(a.competition)

Waits(r) == \E row \in Locks : Wants(r, row) /\ holder[row] # None

\* Open transactions never wait for each other in a circle: while a call is
\* being handled, the next statement of some call has its row free (placeBet
\* locks market, wallet, key and competition; undoBet, settleMarket and
\* joinCompetition lock some of them, starting elsewhere).
NoStandstill ==
  (\E r \in Requests : Open(r)) => \E r \in Requests : Open(r) /\ ~Waits(r)

Rank == [market |-> 1, wallet |-> 2, bet |-> 3, competition |-> 4]

\* The order behind it: a transaction asks for a row only when it comes after
\* all it holds, market before wallet before bet before competition.  Only a
\* settlement asks for bets while it holds bets, and it holds their market.
LocksInOrder ==
  \A r \in Requests, held, row \in Locks :
    holder[held] = r /\ Wants(r, row) =>
      \/ Rank[held[1]] < Rank[row[1]]
      \/ \E k, j \in Keys :
           LET m == MarketOf[bet[k].selection] IN
           /\ held = BetRow(k) /\ row = BetRow(j) /\ k # j
           /\ m = MarketOf[bet[j].selection] /\ holder[MarketRow(m)] = r

\* Every call that arrives is answered, whatever the others do: no circle of
\* waits, and no path through a handler that leaves a lock behind.
EveryCallEnds == \A r \in Requests : pc[r] # "idle" ~> At(r, "done")

\* What the rules of the game allow a call to do on the committed rows.
Allowed(a) ==
  CASE a.op = "place" ->
         /\ bet[a.key] = None
         /\ CompetitionOf[a.market] = a.competition
         /\ status[a.market] = "OPEN"
         /\ MarketOf[a.selection] = a.market
         /\ Balance(a.competition, a.user) >= a.stake
    [] a.op = "undo" ->
         /\ bet[a.key] # None
         /\ Mine(a.key, a)
         /\ bet[a.key].status = "PENDING"
         /\ status[MarketOf[bet[a.key].selection]] = "OPEN"
    [] a.op = "create" -> status[a.market] = "ABSENT"
    [] a.op = "open" ->
         CompetitionOf[a.market] = a.competition /\ status[a.market] = "DRAFT"
    [] a.op = "close" ->
         CompetitionOf[a.market] = a.competition /\ status[a.market] = "OPEN"
    [] a.op = "settle" ->
         /\ CompetitionOf[a.market] = a.competition
         /\ status[a.market] = "CLOSED"
         /\ MarketOf[a.selection] = a.market
    [] a.op = "join" -> TRUE

\* A call is refused only at a moment when the rules forbid it: no refusal
\* comes from what another transaction was about to do and then did not, from a
\* balance read too early, or from a boundary (a stake of the whole balance).
RefusalsJustified ==
  [][\A r \in Requests :
       reply[r] = None /\ reply'[r] = "refused" => ~Allowed(call[r])]_vars

\* "Turns simultaneous copies of one idempotency key into one bet": a copy of a
\* stake that has been taken is answered with the bet, it is never refused.
CopiesGetTheBet ==
  [][\A r \in Requests :
       LET a == call[r] IN
       (/\ pc[r] # "done" /\ reply'[r] = "refused"
        /\ a.op = "place" /\ bet[a.key] # None)
       => ~(Mine(a.key, a) /\ bet[a.key].selection = a.selection
                           /\ bet[a.key].stake = a.stake)]_vars

=============================================================================
