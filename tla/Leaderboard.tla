---------------------------- MODULE Leaderboard ----------------------------
(***************************************************************************)
(* The readers of the ledger: the leaderboard, the summary of a            *)
(* competition, a player's own balances, and the snapshot of the standings *)
(* that follows the settlement of a market.  Each of them is a sequence of *)
(* SELECTs without a transaction, so stakes, joins and settlements commit  *)
(* between any two.                                                        *)
(*                                                                         *)
(* A SELECT sees committed rows only, and the commits of the handlers are  *)
(* the steps of Wagering (theorem Implements), so the game moves here in   *)
(* whole transactions.  Ranks are left out: they are a sort of the scores. *)
(***************************************************************************)
EXTENDS Tables, Sequences

CONSTANT Readers        \* calls that may be under way at once

ASSUME ReadersAssumption == Readers \cap Markets = {}

VARIABLES
  task,       \* what a reader, or the snapshot of a settled market, has read
  snapshot    \* LeaderboardSnapshot.settledBalance of a market, by user

reading == <<task, snapshot>>

Game == INSTANCE Wagering

Tasks == Readers \cup Markets

\* A fault the runs must expose: the standings read the ledger before the markets.
LedgerFirst == <<"members", "ledger", "markets">>

\* getSettledBalances and getCompetitionSummary, statement by statement
StandingsReads == <<"members", "markets", "ledger">>

\* A fault the runs must expose: a player's page reads the markets first.
MarketsFirst == <<"markets", "ledger">>

\* getPlayerState, statement by statement
PlayerReads == <<"ledger", "markets">>

\* The statements of each task, in order.
Plan ==
  [leaderboard |-> StandingsReads,
   summary     |-> StandingsReads \o <<"own">>,
   snapshot    |-> StandingsReads \o <<"insert">>,
   me          |-> PlayerReads]

Rows(c) == {e \in ledger : e.competition = c}

NewTask(kind, u, c) ==
  [kind |-> kind, user |-> u, competition |-> c, todo |-> Plan[kind],
   seen |-> {}, settled |-> {}, txns |-> {}, own |-> {}]

TaskType ==
  [kind : DOMAIN Plan, user : Users \cup {None}, competition : Competitions,
   todo : Seq({"members", "markets", "ledger", "own", "insert"}),
   seen : SUBSET Users, settled : SUBSET Markets,
   txns : SUBSET LedgerTxn, own : SUBSET LedgerTxn]

-----------------------------------------------------------------------------
(* What a task makes of the rows it has read. *)

\* A fault the runs must expose: live balances, open stakes included.
IncludedLive(e, settled) == TRUE

\* shouldInclude
Included(e, settled) == e.market = None \/ e.market \in settled

\* getSettledBalances: the settled balance of each member read
Standings(t) ==
  [u \in task[t].seen |->
     Net({e \in task[t].txns : e.user = u /\ Included(e, task[t].settled)})]

\* getPlayerState: the two balances shown to the player
CurrentBalance(t) == Net(task[t].txns)
SettledBalance(t) == Net({e \in task[t].txns : Included(e, task[t].settled)})

-----------------------------------------------------------------------------
Init ==
  /\ Game!Init
  /\ task = [t \in Tasks |-> None]
  /\ snapshot = [m \in Markets |-> <<>>]

\* The game moves between the statements of the readers.
Play ==
  /\ \/ \E m \in Markets : Game!Create(m) \/ Game!Open(m) \/ Game!Close(m)
     \/ \E r \in Requests :
          \/ \E u \in Users, s \in Selections, stake \in Stakes, k \in Keys :
               Game!Place(u, s, stake, k, r)
          \/ \E k \in Keys : Game!Undo(k, r)
          \/ \E c \in Competitions, u \in Users :
               <<c, u>> \notin member /\ Game!Join(c, u, r)
  /\ UNCHANGED reading

\* A settlement has committed; its handler goes on to createSnapshot.
Settle(winner, r) ==
  LET m == MarketOf[winner] IN
  /\ Game!Settle(winner, r)
  /\ task' = [task EXCEPT ![m] = NewTask("snapshot", None, CompetitionOf[m])]
  /\ UNCHANGED snapshot

\* getLeaderboard, getAll and getMe all begin with the membership.
Ask(t, kind, u, c) ==
  /\ task[t] = None
  /\ kind # "snapshot"
  /\ <<c, u>> \in member
  /\ task' = [task EXCEPT ![t] = NewTask(kind, u, c)]
  /\ UNCHANGED <<tables, snapshot>>

\* The next statement of task t is a SELECT, whose rows it keeps in a field.
Select(t, statement, field, rows) ==
  /\ task[t] # None
  /\ task[t].todo # <<>>
  /\ Head(task[t].todo) = statement
  /\ task' = [task EXCEPT ![t][field] = rows, ![t].todo = Tail(@)]
  /\ UNCHANGED <<tables, snapshot>>

ReadMembers(t) ==
  Select(t, "members", "seen", {u \in Users : <<task[t].competition, u>> \in member})

ReadMarkets(t) ==
  Select(t, "markets", "settled",
         {m \in Markets : /\ CompetitionOf[m] = task[t].competition
                          /\ status[m] = "SETTLED"})

\* getPlayerState reads the player's own rows, the others those of everybody.
ReadLedger(t) ==
  Select(t, "ledger", "txns",
         {e \in Rows(task[t].competition) :
            task[t].kind = "me" => e.user = task[t].user})

\* getCompetitionSummary ends in a call of getPlayerState, of which it keeps
\* the current balance only.
ReadOwn(t) ==
  Select(t, "own", "own", Account(task[t].competition, task[t].user))

\* createMany with skipDuplicates: rows that are there already stay.
InsertSnapshot(m) ==
  /\ task[m] # None
  /\ task[m].todo = <<"insert">>
  /\ snapshot' = [snapshot EXCEPT ![m] =
       [u \in DOMAIN @ \cup task[m].seen |->
          IF u \in DOMAIN @ THEN @[u] ELSE Standings(m)[u]]]
  /\ task' = [task EXCEPT ![m] = None]
  /\ UNCHANGED tables

Answer(t) ==
  /\ task[t] # None
  /\ task[t].todo = <<>>
  /\ task' = [task EXCEPT ![t] = None]
  /\ UNCHANGED <<tables, snapshot>>

\* A statement fails, the connection is lost or the server stops: a reader's
\* client gets an error, a snapshot is logged as missing and never retried.
Fail(t) ==
  /\ task[t] # None
  /\ task[t].todo # <<>>
  /\ task' = [task EXCEPT ![t] = None]
  /\ UNCHANGED <<tables, snapshot>>

Next ==
  \/ Play
  \/ \E s \in Selections, r \in Requests : Settle(s, r)
  \/ \E t \in Readers, kind \in DOMAIN Plan, u \in Users, c \in Competitions :
       Ask(t, kind, u, c)
  \/ \E t \in Tasks :
       ReadMembers(t) \/ ReadMarkets(t) \/ ReadLedger(t) \/ ReadOwn(t) \/ Fail(t)
  \/ \E m \in Markets : InsertSnapshot(m)
  \/ \E t \in Readers : Answer(t)

Spec == Init /\ [][Next]_<<tables, reading>>

-----------------------------------------------------------------------------
TypeOK ==
  /\ TablesTypeOK
  /\ task \in [Tasks -> TaskType \cup {None}]
  /\ \A m \in Markets : DOMAIN snapshot[m] \subseteq Users

HasRead(t, statements) ==
  /\ task[t] # None
  /\ \A i \in 1 .. Len(task[t].todo) : task[t].todo[i] \notin statements

\* A member's score when the markets of M, and no others, are over.
Score(c, u, M) == Net({e \in Account(c, u) : e.market \in M \cup {None}})

SettledNow(c) == {m \in Markets : CompetitionOf[m] = c /\ status[m] = "SETTLED"}

\* Standings read in three statements are those of one moment: for everyone
\* they list, exactly the settled markets they saw are counted, with every
\* stake and every payout on them, and nothing of a market that was still
\* running, whatever committed in between ("Returning live balances would
\* reveal how many Orakls other players have committed to unresolved markets",
\* faux-stakes-leaderboard.service.ts:165).
StandingsAreOfOneMoment ==
  \A t \in Tasks :
    (HasRead(t, {"members", "markets", "ledger"}) /\ task[t].kind # "me") =>
      LET c == task[t].competition IN
      /\ task[t].settled \subseteq SettledNow(c)
      /\ \A u \in task[t].seen : /\ <<c, u>> \in member
                                 /\ Standings(t)[u] = Score(c, u, task[t].settled)
                                 /\ Standings(t)[u] >= 0

\* A player's own page never shows more Orakls available than the settled
\* balance it shows next to them, and never shows a debt, although the two come
\* from a ledger read before the markets (getPlayerState).
AvailableWithinSettled ==
  \A t \in Readers :
    (HasRead(t, {"members", "markets", "ledger"}) /\ task[t].kind = "me") =>
      0 <= CurrentBalance(t) /\ CurrentBalance(t) <= SettledBalance(t)

\* The snapshot of a market, once there, is the standings after that market
\* and some of the other settled ones, for everyone who staked on it: no
\* settlement that commits meanwhile is counted by half, and the payouts of its
\* own market never miss (createSnapshot, after the commit of settleMarket).
SnapshotsAreOfOneMoment ==
  \A m \in Markets : DOMAIN snapshot[m] # {} =>
    LET c == CompetitionOf[m] IN
    /\ {bet[k].user : k \in BetsOn(m)} \subseteq DOMAIN snapshot[m]
    /\ \E M \in SUBSET SettledNow(c) :
         /\ m \in M
         /\ \A u \in DOMAIN snapshot[m] : snapshot[m][u] = Score(c, u, M)

=============================================================================
