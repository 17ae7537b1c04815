------------------------------ MODULE RowLocks ------------------------------
(***************************************************************************)
(* Every handler as the row locks PostgreSQL takes for its statements, the *)
(* foreign key checks of its inserts included, together with the deletion  *)
(* of the competition, which cascades to all of its rows.                  *)
(*                                                                         *)
(* A row is a pair of its table and its name.  A transaction works off its *)
(* demands in order.  Inserted rows appear at the commit.  A demand that   *)
(* names several rows takes them one by one in some order, and skips those *)
(* that are not there.                                                     *)
(*                                                                         *)
(* The unique index on the names of the teams makes a transaction that     *)
(* gives a team a name wait for every other that is giving, changing or    *)
(* deleting the same name.  An entry of that index is locked like a row.   *)
(***************************************************************************)
EXTENDS Integers, Sequences, FiniteSets

CONSTANTS
  Requests, None,
  Markets, Users, Teams,
  Names,            \* the normalised names teams may have
  Keys, MarketOf,   \* idempotency keys, and the market each key is used on
  Calls,            \* the calls clients may make
  Present           \* the rows that are there when the model starts

Competition == <<"competition", "c">>
Market(m) == <<"market", m>>
Wallet(u) == <<"member", u>>
Bet(k) == <<"bet", k>>
Team(t) == <<"team", t>>
Name(w) == <<"name", w>>
Snapshot(m) == <<"snapshot", m>>

\* FOR KEY SHARE, FOR NO KEY UPDATE, FOR UPDATE; a row a transaction has inserted
\* is its own like one it locked FOR UPDATE.
Modes == {"key", "update", "lock"}

Conflict(mode, other) == "lock" \in {mode, other} \/ (mode = "update" /\ other = "update")

Need(row, mode) == [rows |-> {row}, mode |-> mode, as |-> "there"]
Each(rows, mode) == [rows |-> rows, mode |-> mode, as |-> "any"]
Insert(row) == [rows |-> {row}, mode |-> "lock", as |-> "new"]
Upsert(row) == [rows |-> {row}, mode |-> "update", as |-> "either"]

-----------------------------------------------------------------------------
(* What the handlers lock, statement by statement. *)

Touch == Need(Competition, "update")

\* The foreign keys of a new row whose other parents the handler already holds.
Reference == Need(Competition, "key")

PlaceBet(k, u) ==
  <<Need(Market(MarketOf[k]), "update"), Need(Wallet(u), "lock"), Insert(Bet(k)), Reference, Touch>>

\* A fault the runs must expose: the bet is voided before the market is locked.
UndoBetFirst(k) ==
  <<Need(Bet(k), "update"), Need(Market(MarketOf[k]), "update"), Reference, Touch>>

UndoBet(k) ==
  <<Need(Market(MarketOf[k]), "update"), Need(Bet(k), "update"), Reference, Touch>>

CreateMarket(m, t) == <<Insert(Market(m)), Reference, Need(Team(t), "key"), Touch>>

\* openMarket and closeMarket
ChangeMarket(m) == <<Need(Market(m), "update"), Touch>>

SettleMarket(m) ==
  <<Need(Market(m), "update"), Each({Bet(k) : k \in {x \in Keys : MarketOf[x] = m}}, "update"),
    Reference, Touch>>

\* A fault the runs must expose: snapshots do not refer to their competition.
CreateSnapshotDetached(m) == <<Insert(Snapshot(m))>>

\* createSnapshot, in a transaction of its own after the settlement
CreateSnapshot(m) ==
  <<Insert(Snapshot(m)), Reference, Need(Market(m), "key")>>

JoinCompetition(u) == <<Upsert(Wallet(u)), Reference, Touch>>

MarkSeen(u) == <<Need(Wallet(u), "update")>>

\* createMany claims the names one by one, in the order of the request.  The ids of
\* the new teams are new, so one row stands for all of them.
CreateTeams(t, names) ==
  <<Need(Competition, "lock"), Each({Name(w) : w \in names}, "lock"), Insert(Team(t))>>

\* The normalised name is a key column, so the update takes the strongest lock; with the
\* row it has the name the team had, and the new entry waits for whoever has that name.
EditTeam(t, old, new) ==
  <<Need(Team(t), "lock"), Need(Name(old), "lock"), Need(Name(new), "lock")>>

\* With the team rows go their names.
DeleteCompetition(rows) == <<Need(Competition, "lock"), Each(rows \ {Competition}, "lock")>>

\* What a call may run, short of the deletion and of the edits of teams.
Handlers ==
  {PlaceBet(k, u) : k \in Keys, u \in Users} \cup {UndoBet(k) : k \in Keys}
  \cup {CreateMarket(m, t) : m \in Markets, t \in Teams}
  \cup {ChangeMarket(m) : m \in Markets} \cup {SettleMarket(m) : m \in Markets}
  \cup {CreateSnapshot(m) : m \in Markets}
  \cup {JoinCompetition(u) : u \in Users} \cup {MarkSeen(u) : u \in Users}
  \cup {CreateTeams(t, names) : t \in Teams, names \in SUBSET Names}

Edits == {EditTeam(t, old, new) : t \in Teams, old \in Names, new \in Names}

\* A call that locks its rows in the one order there is.
Orderly(a) == ~a.deletes /\ a.demands \notin Edits

-----------------------------------------------------------------------------
\* The rows the calls of this model can speak of.
Rows == Present \cup UNION {d.rows : d \in UNION {{a.demands[i] : i \in DOMAIN a.demands} : a \in Calls}}

ASSUME RowLocksAssumption ==
  /\ Competition \in Present
  /\ None \notin Calls
  /\ \A a \in Calls :
       /\ a.deletes \in BOOLEAN
       /\ IF a.deletes THEN a.demands = DeleteCompetition(Rows)
          ELSE a.demands \in Handlers \cup Edits

VARIABLES
  present,   \* the committed rows
  call,      \* the call of a request
  todo,      \* the demands its transaction has not met
  held,      \* the rows it has locked, with the mode
  fresh,     \* the rows it has inserted
  pc         \* "idle", "open" or "done"

vars == <<present, call, todo, held, fresh, pc>>

Init ==
  /\ present = Present
  /\ call = [r \in Requests |-> None]
  /\ todo = [r \in Requests |-> <<>>]
  /\ held = [r \in Requests |-> {}]
  /\ fresh = [r \in Requests |-> {}]
  /\ pc = [r \in Requests |-> "idle"]

Arrive(r, a) ==
  /\ pc[r] = "idle"
  /\ pc' = [pc EXCEPT ![r] = "open"]
  /\ call' = [call EXCEPT ![r] = a]
  /\ todo' = [todo EXCEPT ![r] = a.demands]
  /\ UNCHANGED <<present, held, fresh>>

\* q keeps r from locking a row: the row, or the key it is about to insert.
Blocks(q, r, row, mode) ==
  q # r /\ \E h \in held[q] : h.row = row /\ Conflict(mode, h.mode)

Working(r) == pc[r] = "open" /\ todo[r] # <<>>

\* The one row the next statement of r needs.
Wants(r, row) ==
  /\ Working(r)
  /\ Head(todo[r]).as # "any"
  /\ Head(todo[r]).rows = {row}

WaitsFor(r, q) ==
  /\ Working(r)
  /\ \E row \in Rows \cap Head(todo[r]).rows :
       Wants(r, row) /\ Blocks(q, r, row, Head(todo[r]).mode)

\* Which names committed teams have is not kept: every name can be claimed, and one that
\* proves to be taken ends the call as any refusal does (Abort).
There(row) == row \in present \cup {Name(w) : w \in Names}

\* The database takes the rows of a demand that are there, in some order.
Choose(r) ==
  /\ Working(r)
  /\ LET d == Head(todo[r])
         there == {row \in d.rows : There(row)}
     IN  /\ d.as = "any"
         /\ IF there = {} THEN todo' = [todo EXCEPT ![r] = Tail(@)]
            ELSE \E row \in there :
                   todo' = [todo EXCEPT ![r] = <<Need(row, d.mode), Each(there \ {row}, d.mode)>>
                                                 \o Tail(@)]
  /\ UNCHANGED <<present, call, held, fresh, pc>>

Finish(r) ==
  /\ pc' = [pc EXCEPT ![r] = "done"]
  /\ held' = [held EXCEPT ![r] = {}]
  /\ fresh' = [fresh EXCEPT ![r] = {}]
  /\ todo' = [todo EXCEPT ![r] = <<>>]
  /\ UNCHANGED call

\* A fault the runs must expose: a handler that refuses leaves its transaction open.
RollBackLeavingOpen(r) ==
  /\ pc' = [pc EXCEPT ![r] = "done"]
  /\ todo' = [todo EXCEPT ![r] = <<>>]
  /\ UNCHANGED <<present, call, held, fresh>>

RollBack(r) == Finish(r) /\ UNCHANGED present

\* The next row is locked or inserted once nobody blocks it.  A row that should be
\* there and is not, or should not be there and is, ends the call.
Take(r) ==
  /\ Working(r)
  /\ \E row \in Rows \cap Head(todo[r]).rows :
       /\ Wants(r, row)
       /\ LET d == Head(todo[r])
              there == There(row)
              new == d.as = "new" \/ (d.as = "either" /\ ~there)
              mode == IF new THEN "lock" ELSE d.mode
          IN
          /\ \A q \in Requests : ~Blocks(q, r, row, mode)
          /\ IF (d.as = "there" /\ ~there) \/ (d.as = "new" /\ there)
             THEN RollBack(r)
             ELSE /\ todo' = [todo EXCEPT ![r] = Tail(@)]
                  /\ held' = [held EXCEPT ![r] = @ \cup {[row |-> row, mode |-> mode]}]
                  /\ fresh' = [fresh EXCEPT ![r] = IF new THEN @ \cup {row} ELSE @]
                  /\ UNCHANGED <<present, call, pc>>

Commit(r) ==
  /\ pc[r] = "open"
  /\ todo[r] = <<>>
  /\ present' = IF call[r].deletes THEN {} ELSE present \cup fresh[r]
  /\ Finish(r)

\* Lost connection, timeout, restart, or a refusal for what the rows hold.
Abort(r) == pc[r] = "open" /\ RollBack(r)

Step(r) == Choose(r) \/ Take(r) \/ Commit(r)

\* Requests each of which waits for another of them.
Circle(S) == S # {} /\ \A r \in S : \E q \in S : WaitsFor(r, q)

\* PostgreSQL's deadlock detector rolls back one request of a circle.
BreakCircle ==
  \E S \in SUBSET {q \in Requests : Working(q)} :
    /\ Circle(S)
    /\ \A T \in SUBSET S : Circle(T) => T = S
    /\ \E r \in S : RollBack(r)

Quiet == (\A r \in Requests : pc[r] \in {"idle", "done"}) /\ UNCHANGED vars

Next ==
  \/ \E r \in Requests, a \in Calls : Arrive(r, a)
  \/ \E r \in Requests : Step(r)
  \/ \E r \in Requests : Abort(r)
  \/ BreakCircle
  \/ Quiet

Spec == Init /\ [][Next]_vars

\* The server goes on with every open transaction, and the database looks for circles.
FairSpec == Spec /\ (\A r \in Requests : WF_vars(Step(r))) /\ WF_vars(BreakCircle)

-----------------------------------------------------------------------------
TypeOK ==
  /\ present \subseteq Rows
  /\ \A r \in Requests :
       /\ held[r] \subseteq [row : Rows, mode : Modes]
       /\ fresh[r] \subseteq Rows
       /\ pc[r] \in {"idle", "open", "done"}
       /\ pc[r] # "open" => held[r] = {} /\ fresh[r] = {}

\* Every circle of waiting transactions has a deletion or an edit of a team in it: the
\* other handlers, however many and with all the locks their foreign keys and unique
\* indexes take, never wait for each other in a circle.  placeBet, undoBet, settleMarket
\* and the rest lock market before wallet before bet before competition, and createTeams
\* locks the competition before any name.
NoCircle ==
  \A S \in SUBSET {r \in Requests : pc[r] = "open" /\ Orderly(call[r])} : ~Circle(S)

\* deleteCompetition leaves no row behind, also none that another transaction was
\* about to add when the competition went (onDelete: Cascade in the schema).
NoOrphans == Competition \in present \/ present = {}

\* Every call ends, also one that waits for a deletion, or for the edit of another team
\* to the name it gives up, which waits for it.
EveryCallEnds == \A r \in Requests : pc[r] = "open" ~> pc[r] = "done"

=============================================================================
