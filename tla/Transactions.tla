---------------------------- MODULE Transactions ----------------------------
(***************************************************************************)
(* Requests as processes over the tables.  A handler is a sequence of SQL  *)
(* statements; each statement is one step and pc names the next one.       *)
(*                                                                         *)
(* PostgreSQL runs the handlers at READ COMMITTED.  A statement reads the  *)
(* committed rows; a statement that writes or locks a row takes the row's  *)
(* lock and keeps it until the transaction ends, and waits while another   *)
(* transaction has it; an UPDATE whose WHERE clause no committed row meets *)
(* updates nothing and does not wait.  What a transaction writes becomes   *)
(* visible when it commits, all at once; no statement of a handler reads   *)
(* back what the same transaction wrote, so the writes are applied there.  *)
(***************************************************************************)
EXTENDS Tables

CONSTANT Calls     \* the calls clients may make

\* A market is created inside the competition of the URL; every other id in a
\* call is whatever the client sends.
CallType ==
  [op : {"place"}, user : Users, competition : Competitions, market : Markets,
   selection : Selections, stake : Stakes, key : Keys]
  \cup [op : {"undo"}, user : Users, competition : Competitions, key : Keys]
  \cup {a \in [op : {"create"}, user : Users, competition : Competitions,
               market : Markets] : CompetitionOf[a.market] = a.competition}
  \cup [op : {"open", "close"}, user : Users, competition : Competitions,
        market : Markets]
  \cup [op : {"settle"}, user : Users, competition : Competitions,
        market : Markets, selection : Selections]
  \cup [op : {"join"}, user : Users, competition : Competitions]

ASSUME CallsAssumption == Calls \subseteq CallType /\ None \notin Calls

VARIABLES
  pc,      \* the next statement of each request
  call,    \* the call a request carries
  reply,   \* how it ended
  todo,    \* settleMarket: the keys of the bets its loop has not reached
  owed,    \* joinCompetition: whether the starting credit is missing
  holder   \* the request whose open transaction has locked a row

session == <<pc, call, reply, todo, owed>>
vars == <<tables, session, holder>>

\* Rows that transactions contend for.  The lock of a bet's row is also the
\* lock of its key in the unique index, and the wallet is the membership row.
Locks == ({"market"} \X Markets)
         \cup ({"wallet"} \X (Competitions \X Users))
         \cup ({"bet"} \X Keys)
         \cup ({"competition"} \X Competitions)

MarketRow(m) == <<"market", m>>
WalletRow(c, u) == <<"wallet", <<c, u>>>>
BetRow(k) == <<"bet", k>>
CompetitionRow(c) == <<"competition", c>>

FirstStatement ==
  [place |-> "lookup", undo |-> "own", create |-> "insert", open |-> "find",
   close |-> "find", settle |-> "find", join |-> "upsert"]

\* The statements between BEGIN and COMMIT.
InTransaction ==
  {"stake", "wallet", "odds", "balance", "bet", "own", "reopen", "reread", "void",
   "insert", "claim", "winner", "collect", "resolve", "upsert", "credit",
   "touch", "commit"}

Statements == InTransaction \cup {"idle", "lookup", "replay", "find", "done"}

\* ok: the promise resolves; refused: it throws what its checks call for;
\* conflict: it throws because a row changed under a lock; aborted: the
\* transaction was rolled back from outside.
Replies == {None, "ok", "refused", "conflict", "aborted"}

ASSUME ReplyAssumption == None \notin {"ok", "refused", "conflict", "aborted"}

SessionTypeOK ==
  /\ pc \in [Requests -> Statements]
  /\ call \in [Requests -> Calls \cup {None}]
  /\ reply \in [Requests -> Replies]
  /\ todo \in [Requests -> SUBSET Keys]
  /\ owed \in [Requests -> BOOLEAN]
  /\ holder \in [Locks -> Requests \cup {None}]

SessionInit ==
  /\ pc = [r \in Requests |-> "idle"]
  /\ call = [r \in Requests |-> None]
  /\ reply = [r \in Requests |-> None]
  /\ todo = [r \in Requests |-> {}]
  /\ owed = [r \in Requests |-> FALSE]
  /\ holder = [l \in Locks |-> None]

-----------------------------------------------------------------------------

At(r, statement) == pc[r] = statement

Goto(r, statement) ==
  /\ pc' = [pc EXCEPT ![r] = statement]
  /\ UNCHANGED <<call, reply>>

\* Wait for the row and lock it until the transaction ends.
Lock(r, row) ==
  /\ holder[row] = None
  /\ holder' = [holder EXCEPT ![row] = r]

\* COMMIT and ROLLBACK drop every lock of the transaction.
Release(r) == holder' = [l \in Locks |-> IF holder[l] = r THEN None ELSE holder[l]]

Finish(r, answer) ==
  /\ pc' = [pc EXCEPT ![r] = "done"]
  /\ reply' = [reply EXCEPT ![r] = answer]
  /\ todo' = [todo EXCEPT ![r] = {}]
  /\ owed' = [owed EXCEPT ![r] = FALSE]
  /\ Release(r)
  /\ UNCHANGED call

\* End without writing: a failed check throws and PostgreSQL rolls back.
Answer(r, answer) == Finish(r, answer) /\ UNCHANGED tables

\* A fault the runs must expose: a failed check leaves the transaction open.
RefuseLeavingOpen(r) ==
  /\ pc' = [pc EXCEPT ![r] = "done"]
  /\ reply' = [reply EXCEPT ![r] = "refused"]
  /\ UNCHANGED <<tables, call, todo, owed, holder>>

Refuse(r) == Answer(r, "refused")

-----------------------------------------------------------------------------

\* FauxStakesMemberGuard and FauxStakesAdminGuard.  The only role above PLAYER
\* that the code ever writes is the HOST's, and nobody joins through a guard.
Admitted(a) ==
  \/ a.op = "join"
  \/ a.op \in {"place", "undo"} /\ <<a.competition, a.user>> \in member
  \/ a.op \in {"create", "open", "close", "settle"} /\ a.user = Host[a.competition]

\* A request arrives, passes its guards and reaches its handler.
Arrive(r, a) ==
  /\ At(r, "idle")
  /\ Admitted(a)
  /\ pc' = [pc EXCEPT ![r] = FirstStatement[a.op]]
  /\ call' = [call EXCEPT ![r] = a]
  /\ UNCHANGED <<tables, reply, todo, owed, holder>>

\* tx.competition.update lastActivityAt, the last statement of every handler.
\* Nothing in this module reads the timestamp; the row's lock is what counts.
TouchCompetition(r) ==
  /\ At(r, "touch")
  /\ Lock(r, CompetitionRow(call[r].competition))
  /\ Goto(r, "commit")
  /\ UNCHANGED <<tables, todo, owed>>

\* The transaction is rolled back from outside: Prisma's transaction timeout, a
\* lost connection, a server that stops.
Abort(r) == pc[r] \in InTransaction /\ Answer(r, "aborted")

=============================================================================
