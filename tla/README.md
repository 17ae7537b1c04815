# A TLA+ model of the Orakl API

Orakl is a NestJS server over PostgreSQL (through Prisma) for competitions among
friends. A competition is played under a *game*; the one game in the code is
**Faux Stakes**: members stake play money ("Orakls") on the selections of a
market, an admin opens, closes and settles the market, and a ledger of credits,
debits, payouts and refunds is every player's balance. This directory models that
game as the code runs it, as SQL statements of many requests interleaved over one
database, checks it with TLC and proves its main properties with TLAPS.

Paths below are relative to the repository root (`src/games/...` is
`src/src/games/...` in `PROJECT.json`).

## 1. The system

| Part | State it keeps | Operations | Interacts with |
|---|---|---|---|
| Bets service (`games/faux-stakes/bets`) | rows of `Bet`, DEBIT and REFUND rows of `CompetitionLedgerTxn` | `placeBet` (idempotent by key), `undoBet`, listings | locks the `Market` row and the player's `CompetitionMember` row; ends by updating `Competition.lastActivityAt`; emits no events |
| Markets service (`games/faux-stakes/markets`) | `Market.status`, `Selection.status`, the outcome of bets, PAYOUT rows | `createMarket`, `openMarket`, `closeMarket`, `settleMarket`, listings | after a settlement commits: a snapshot, then an event; failures of either are logged and swallowed |
| Competitions service (`platform/competitions`) | `Competition`, `CompetitionMember`, `lastSeenAt` | `createCompetition`, `joinCompetition`, `markSeen`, `getAll`, `getMe`, `deleteCompetition` | calls the game engine's hooks inside its transactions, one after a join's commit, and the engine's readers outside any |
| Faux Stakes engine (`games/faux-stakes/engine`) | none of its own | `onCompetitionCreated`, `onUserJoined` (starting credit), `afterUserJoined` (event), `getPlayerState`, `getCompetitionSummary` | called by the platform through the game registry |
| Leaderboard and snapshots | `LeaderboardSnapshot` rows | `getSettledBalances`, `createSnapshot`, `getLeaderboardForCompetition` | reads members, markets and ledger in three SELECTs without a transaction |
| Row locks and transactions (Prisma, PostgreSQL) | locks of open transactions | `FOR UPDATE`, conditional `updateMany`, unique indexes, commit, rollback | every service |
| Access guards | none | membership or host check before a handler | read the membership once, before the transaction |
| Teams (`games/faux-stakes/teams`) | `Team` rows | `createTeams` (at most 100), `editTeam` | `createTeams` locks the `Competition` row; `editTeam` is one UPDATE; both wait for names in the unique index |
| Realtime gateway (`games/faux-stakes/realtime`) | sockets and rooms, in the memory of the server | admission, entry into a room, events | called after the commits of `createMarket`, `closeMarket`, `settleMarket`, `createTeams` and `joinCompetition` |
| Authentication; registry, configuration, bootstrap | none that changes | token check, wiring | in front of everything |

What is hard here is concurrency in the database. Requests of many players run
at once at READ COMMITTED; each handler reads, checks and writes in separate
statements and is correct only through the row locks it takes; a transaction may
be rolled back in the middle (timeout, lost connection, restart); clients retry
under an idempotency key; readers take no locks at all. The hazards are listed in
`PROJECT.json` at the lines where they bite, each with the properties that would
catch it or a note why none does.

What makes each part correct:

* **Bets**: a balance never goes below zero; a key is one bet and one debit; no
  stake on a market that is not open or is in another competition; an undone
  stake is refunded once and never paid.
* **Markets**: the life of a market goes one way; a settlement happens once,
  resolves exactly the stakes that are pending, pays exactly the winners, and is final.
* **Joining**: one starting credit per member, however often and simultaneously
  the player joins.
* **Handlers together**: circles of waiting transactions only where a competition is
  deleted or a team edited, and those the database breaks; every call is answered with
  what is the caller's own, and each handler looks to all others as if it had happened at one moment.
* **Setup**: join codes are unique and their retry ends; a competition has distinct
  team names, at most its limit of them, and an addition is whole or leaves nothing.
* **After a commit**: nothing that fails there fails the call; events tell committed
  facts, to members (or those whose competition was deleted), and a room hears of what
  was committed.
* **Readers**: standings that correspond to one set of settled markets and do not
  show stakes on open ones.

## 2. Modules

```
Tables ──────────── committed rows, what each handler writes, properties of rows
  ├─ Wagering ───── the atomic game: what Faux Stakes promises      (abstract)
  ├─ Transactions ─ requests, row locks, commit, rollback
  │    ├─ BetsService         placeBet, undoBet          statement by statement
  │    ├─ MarketsService      create, open, close, settle
  │    └─ CompetitionsService joinCompetition + onUserJoined
  │         └─ FauxStakes     all handlers over one database         (detailed)
  │              └─ LockDiscipline   the inductive invariants
  │                   └─ MCFauxStakes   small worlds for TLC
  ├─ Leaderboard ── readers and snapshots over Wagering
  │    └─ MCLeaderboard
  └─ Realtime ───── after the commit: snapshot, events, sockets, over Wagering
       └─ MCRealtime

TeamSheet ───────── what setup promises                             (abstract)
  └─ Setup ──────── createCompetition, createTeams, editTeam       (detailed)
       └─ MCSetup

RowLocks ────────── the row locks of every handler, foreign keys and deletion included
  └─ MCRowLocks
```

The proofs: Tables_proofs has the sums over the ledger and the books of the game, and is
extended by those who play it: Statements_proofs and then FauxStakes_proofs (the
handlers), Wagering_proofs, Leaderboard_proofs (the readers) and Realtime_proofs.
Setup_proofs and RowLocks_proofs stand on their own component.

**Tables.** `member`, `status`, `selection`, `bet`, `ledger` are the committed rows
of `CompetitionMember`, `Market.status`, `Selection.status`, `Bet` and
`CompetitionLedgerTxn`. Columns that never change are constants (`CompetitionOf`,
`MarketOf`, `Return` for stake × odds as the column stores it). A bet is named by
its `idempotencyKey`, which is unique; a market that is not there yet is `"ABSENT"`.
`Write*` operators say what a handler leaves behind when it commits. `Balance` is
the reduce over `signedAmount` (`bets.service.ts:16-47`).

**Wagering.** Each operation is one step, guarded by the rule of the game.

**Transactions.** A request has a program counter `pc` that names its next SQL
statement, the `call` it carries, its `reply`, and two locals (`todo`: bets the
settlement's loop has not reached, `owed`: whether the starting credit is missing).
`holder` is the lock table: market rows, wallets (the membership row), bet rows
(with their key in the unique index) and competition rows. `Arrive` is the guards
and the entry into the handler, `Abort` a rollback from outside at any statement of
a transaction, `TouchCompetition` the `lastActivityAt` update every handler ends with.

**BetsService, MarketsService, CompetitionsService.** One action per statement:

| Handler | Statements (`pc`) |
|---|---|
| `placeBet` | `lookup` → `stake` (lock the open market) → `wallet` (FOR UPDATE) → `odds` → `balance` → `bet` (unique key) → `touch` → `commit`; `replay` after a unique violation |
| `undoBet` | `own` → `reopen` (lock the market, still OPEN) → `reread` → `void` → `touch` → `commit` |
| `createMarket` | `insert` → `touch` → `commit` |
| `openMarket`, `closeMarket` | `find` → `claim` (conditional update) → `touch` → `commit` |
| `settleMarket` | `find` → `claim` → `winner` → `collect` → `resolve` (once per bet) → `touch` → `commit` |
| `joinCompetition` | `upsert` → `credit` → `touch` → `commit` |

**Leaderboard.** Readers see committed rows only, and the commits of the handlers
are steps of Wagering (theorem `Implements`), so the game moves in atomic steps
here while the readers go one SELECT at a time (`Plan`). `Settle` starts the
snapshot that `settleMarket` takes after its commit; `Fail` loses it for good,
because the error is swallowed and a settled market cannot be settled again.

**Realtime.** A call is the list of steps its handler still has to do (`Steps`):
`commit`, then for a settlement the snapshot, for a join the player's name, then the
event. `Commit` is a step of Wagering, `Reject` a transaction that fails. `Answer` is
the reply. A `session` is a socket: admitted by the middleware with its user
(`Connect`), checked for membership (`RequireMember`), and put into the room a step
later (`EnterRoom`), which asks nothing again. Memberships end: `DeleteCompetition`
cascades to them (`deleted`), and so does the removal of a user from the database
(`removed`, `RemoveUser`), which no code of this API does, but `afterUserJoined` expects:
when the player is gone it returns without an event and without a line in the log
(`UserGone`). Neither takes a socket out of its room. `member` and the other rows of
Tables keep what was committed; `IsMember` says which memberships are left. `Restart` takes away every socket, every room and the rest of every
handler, and leaves the committed rows. `unannounced` is the log of emissions that failed.

**TeamSheet and Setup.** TeamSheet is the promise: each competition has a code of
its own and a sheet of names, and `Create`, `Add`, `Rename` change it in one step.
Setup runs the code: `createCompetition` (`start` → `draw` → `row` → `initial` →
`commit`, back to `draw` when the code is taken), `createTeams` (`start` → `count` →
`insert` → `commit`) and `editTeam` (one UPDATE). Locks are not a variable here: which
rows a request holds follows from its next statement (`HoldsCode`, `HoldsTeams`,
`HoldsName`). The refinement (`Sheet`) maps the rows of `Team` to the number of teams
per normalised name, so that a name held twice is not hidden by a set.

**RowLocks.** Transactions and Setup each know the locks they need; RowLocks asks
whether all handlers together can wait in a circle. A handler is reduced to the list
of rows it demands, each with its mode: KEY SHARE for the parent of a foreign key, NO
KEY UPDATE for an update or an upsert, FOR UPDATE for a lock, a delete or a change of
a key column. An entry of the unique index on the names of teams (`Name`) is demanded
like a row: by `createTeams` one name after the other, and by `editTeam` both the name
the team had and the one it gets. `deleteCompetition` locks the competition and then its children in any
order; `Choose` is that order, also for the bets of a settlement. `Handlers` is every
list of demands a call may bring, for all `Markets`, `Users`, `Teams`, `Names` and `Keys`,
short of the deletion and of the `Edits`, which lock in no one order. `Commit` makes inserted rows
visible, or removes all rows of the competition. `BreakCircle` is PostgreSQL's
deadlock detector.

`PROJECT.json` maps each definition to the lines it models. Definitions whose
comment begins "A fault the runs must expose" are mutated forms of a neighbour: no
specification uses them; they show that each property can fail.

**Waiting.** `Wants(r, row)` in FauxStakes says for which row the next statement of a
request has to wait: the guards of the locking statements, without their effects. A call
`Waits` when another transaction holds that row. `NoStandstill` says that some open call is
always free of it and `LocksInOrder` why.

**Answers.** A call that ends with the reply `"ok"` was told something: a stake, that the
bet under its key is its own; an undo, that it is void. `AnswersHold` says so (`Truthful`)
and that it stays so, for every path on which `getExistingBetResult` or a commit answers.

### What the model of the database assumes

* READ COMMITTED, the default; nothing in the code asks for another level.
* A statement that locks or writes a row waits for whoever holds it and keeps it to
  the end of the transaction; `updateMany` with a condition no committed row meets
  updates nothing and does not wait. A request that waited sees the row as committed
  when it gets the lock.
* Writes become visible at the commit. The model applies them there because no
  handler reads back a row it wrote itself in a way its next check depends on.
* Unique indexes: `Bet.idempotencyKey`, a market's name in its competition, the
  membership, and `CompetitionLedgerTxn(betId, type)`.
* The membership upsert is PostgreSQL's `INSERT ... ON CONFLICT DO UPDATE`.
* Foreign-key checks take KEY SHARE locks, which do not conflict with updates of
  other columns but do with `createTeams` and a deletion (RowLocks); `Bet` and the ledger have no foreign key to `CompetitionMember`.
* In RowLocks: a request does not wait behind another one that waits; a row already held
  more strongly is not locked again; `User`, `Selection`, the ledger and the configuration
  are left out, because a handler reaches them only behind the market or the
  competition it has locked; a snapshot's foreign keys are taken in one order. One row
  stands for all the new teams of a call. Which names are taken is not kept: any name can
  be claimed, and one that proves to be taken ends the call as any refusal does (`Abort`).
* In Setup an edit is one step, because it is one statement and holds nothing when it has
  ended; that PostgreSQL may choose it, or a creation, as the victim of a circle is `Abort`.

## 3. Runs

Every passing run explores its whole state space; no constraint cuts it. The bound
is the world itself: the number of `Requests` (a request is used once), and the set
`Calls` of what clients may send, each of which may be sent by several requests,
which is how retries and duplicates come about.

| Run | World | Distinct states | Shows |
|---|---|---|---|
| `wallet_races` | 4 requests; two stakes of one wallet (3 Orakls: one takes 2, one takes all 3) on two markets, undo, close, settle | 35,733 | `TypeOK`, `NoOverdraft`, `LedgerMatchesBets`, `NoStandstill`, `LocksInOrder`, `RefusalsJustified`, `BetsAreFinal` |
| `settlement_races` | 4 requests; stakes on both sides of a market, undo, close, settlement both ways | 56,175 | `SettlementComplete`, `LedgerMatchesBets`, `NoLateConflict`, `SettledIsFinal`, `ImplementsWagering` |
| `market_life` | 5 requests; a market is created, opened, staked on, closed, settled, also on a foreign selection | 46,424 | `RefusalsJustified`, `ImplementsWagering` |
| `cross_competition` | 4 requests; ids and keys of two competitions and two players mixed, repeated first joins | 49,932 | `StakesBelong`, `OneStartingCredit`, `LockDiscipline`, `AnswersHold`, `ImplementsWagering` |
| `calls_end` | 3 requests of `wallet_races`, with fairness | 27,587 | `EveryCallEnds` |
| `leaderboard_reads` | one reader, one key, two markets, one of them not there yet | 695,782 | `StandingsAreOfOneMoment`, `AvailableWithinSettled` |
| `snapshots` | two keys, two markets, snapshots of both | 95,664 | `TypeOK`, `SnapshotsAreOfOneMoment` |
| `setup` | 3 requests, 2 codes of which one is taken, 3 names of which two are one, a limit of 2 teams, 2 draws of a code; with fairness | 147,694 | `TypeOK`, `TeamLimit`, `ImplementsSheet`, `RefusalsJustified`, `EveryCallEnds` |
| `row_locks` | 3 requests, each any of 11 calls on one competition, among them two edits that swap the names of two teams and an addition of both names, with aborts | 573,857 | `TypeOK`, `NoCircle`, `NoOrphans` |
| `row_locks_end` | 3 requests: a market is opened or closed, two teams swap names, deletion; with fairness | 49,267 | `EveryCallEnds` |
| `realtime` | 2 requests, one socket; a market to settle two ways, one to close, one to create, a player to join, deletion of the competition, removal of the player; with fairness | 242,592 | `TypeOK`, `EventsAreTrue`, `OnlyMembersHear`, `CommitsAreFollowedUp`, `CommittedCallsSucceed`, `RoomsHear` |
| `simultaneous_copies` | 2 requests with the same stake, 2 of the 3 Orakls in the wallet | violation | `CopiesGetTheBet` fails |

**Why the bounds are enough.** The races of this code are between two transactions
on one row (two stakes, stake and close, undo and settlement, two settlements, two
joins), set up by at most one or two earlier ones; with four requests every pair
runs after every short history. Two selections per market give a winner and a
loser, two markets two sources of debit for one wallet, stakes of 2 and 3 against
3 Orakls the boundary "exactly everything" and "one too many". `market_life` needs
five requests to reach a settled market. In `setup` two requests race for the last place
of a competition of two, for the last free code and for a name, while a third adds,
edits or is rolled back. A circle of waiting needs a pair of rows taken in two orders:
`row_locks` runs every three handlers, so circles of three are covered too.
`realtime` has every pair of handlers; a restart may come any number of times, a
deletion at every moment. What bounds cannot show, the proofs do.

**Symmetry.** `Requests` are permuted in the runs of safety properties only: they
are interchangeable and no constant mentions one (`row_locks` among them). The runs with a liveness
property use none.

**Deadlock** is checked everywhere except in `snapshots`, where the game really
comes to an end: both markets are settled and nobody asks for anything. In `realtime` a
restart is always possible, so there the check says little. In
`FauxStakes`, `Quiet` is the end of a world whose requests are all answered; a state
in which a call is open and nothing can run would be reported.

**Fairness.** `FairSpec` adds weak fairness of `Step(r)` for each request: a running
server executes the next statement of an open handler, and PostgreSQL grants a lock
that stays free. Nothing is assumed of arrivals or of rollbacks. That weak fairness
suffices is part of the result: rows are taken in an order in which the holder of a
contended row never waits for the one behind it, and a request is used once, so
there is no endless stream of overtakers. With unlimited traffic the code relies on
PostgreSQL's fair lock queues, which are not modelled. Setup and Realtime assume the same of
the next statement of a handler (`Step`, `Handle`); neither assumes anything of
clients, rollbacks or restarts. `row_locks_end` assumes in addition that the database
keeps looking for circles (`deadlock_timeout`): without it a deletion and a stake, or two
edits that swap names, would wait for each other for ever.

### A disagreement with the test suite

`simultaneous_copies`. A test (`test/faux-stakes-concurrency.e2e-spec.ts:290`, "turns
20 simultaneous copies of one idempotency key into one bet and one debit") and a
comment (`bets.service.ts:234`, "The unique idempotencyKey is the final protection
against two simultaneous copies of the same stake") say that every copy of a stake is
answered with its bet. The code looks the key up *before* its transaction. A second
copy that missed the key waits for the market row, and once the first copy has
committed is judged against the balance the first has already reduced: it gets
"Insufficient balance" (`bets.service.ts:183`) when the rest of the wallet no longer
covers the stake, or "Market is not open for staking" when the market was closed meanwhile, although the bet stands. It never reaches the unique index.
The test does not see this because its player can afford several copies. No Orakl is
lost: `LedgerMatchesBets` holds throughout; only the answer is wrong.

## 4. Proofs

All theorems hold for every number of requests, players, competitions, markets,
keys, stakes and returns, under the named assumptions `ShapeAssumption`,
`MoneyAssumption`, `StartAssumption`, `FiniteAssumption`, `NoneAssumption` (Tables),
`CallsAssumption` and `ReplyAssumption` (Transactions), `ReadersAssumption` (Leaderboard),
`NoCallAssumption` (Realtime),
`SetupAssumption`, `StartCodeAssumption`,
`NoRowAssumption` and `NoReplyAssumption` (Setup), and `RowLocksAssumption` (RowLocks):
ids refer to rows that agree, stakes are positive and returns natural, the host is a
member, there are finitely many keys and initial members, a reader is not a market, a
call demands the rows of one of the `Handlers` or is the deletion, the competition is
there at first, and `None` is none of the values it stands beside. TLC evaluates all of
them in every run that extends the module.

| Theorem | Statement |
|---|---|
| **FauxStakes_proofs** | |
| `LocksAreKept` | `Spec => []LockDiscipline`, the inductive invariant of the handlers |
| `TypesAreKept` | `Spec => []TypeOK` |
| `NobodyOverdraws` | `Spec => []NoOverdraft` |
| `NobodyLosesLate` | `Spec => []NoLateConflict`: 'Bet is no longer pending' and 'A stake changed while this market was being resolved' are never thrown |
| `Implements` | `Spec => ImplementsWagering`: the interleaved statements implement the atomic game |
| `BooksAreKept` | `Spec => []Books`, the inductive invariant of the committed rows |
| `StakesAlwaysBelong`, `SettlementsAreComplete`, `LedgerAlwaysMatches`, `MembersAreCreditedOnce` | `Spec => []StakesBelong`, `[]SettlementComplete`, `[]LedgerMatchesBets`, `[]OneStartingCredit` |
| `SettlementsAreFinal` | `Spec => SettledIsFinal` |
| `BetsStayFinal` | `Spec => BetsAreFinal`: a bet that was undone, won or lost stays as it is, whatever is retried |
| `RefusalsAreJust` | `Spec => RefusalsJustified`: no call is refused at a moment when the rules allow it |
| `AnswersAreKept` | `Spec => []AnswersHold`: who is answered "ok" was told of a bet of their own, and a confirmed undo stays void |
| `HoldersStayAhead` | `Spec => []HoldersAreAhead`, the inductive invariant of the order of the locks |
| `RowsAreTakenInOrder` | `Spec => []LocksInOrder`: market before wallet before bet before competition |
| `NobodyStandsStill` | `Spec => []NoStandstill`: while a call is open, some open call does not wait |
| **Wagering_proofs** `BalancesStayPositive` | no balance below zero in the atomic game |
| **Leaderboard_proofs** | |
| `ReadersAreKept` | `Spec => []ReadersInvariant`, the inductive invariant of the readers |
| `TypesAreKept` | `Spec => []TypeOK` |
| `StandingsOfOneMoment` | `Spec => []StandingsAreOfOneMoment` |
| `AvailableIsWithinSettled` | `Spec => []AvailableWithinSettled` |
| `SnapshotsOfOneMoment` | `Spec => []SnapshotsAreOfOneMoment` |
| **Realtime_proofs** | |
| `NewsIsKept` | `Spec => []NewsInvariant`, the inductive invariant of what follows a commit |
| `TypesAreKept`, `EventsStayTrue`, `StrangersHearNothing` | `Spec => []TypeOK`, `[]EventsAreTrue`, `[]OnlyMembersHear` |
| `CommitsAreNotForgotten` | `Spec => CommitsAreFollowedUp`: what fails after a commit is no error, and the room hears, the log says why not, or the joined player is gone |
| **Setup_proofs** | |
| `DisciplineIsKept` | `Spec => []SetupDiscipline`, the inductive invariant of setup |
| `TypeCorrect`, `TeamsStayWithinLimit` | `Spec => []TypeOK`, `[]TeamLimit` |
| `RefusalsAreJust` | `Spec => RefusalsJustified` |
| `SheetImplemented` | `Spec => ImplementsSheet`: the interleaved setup implements the sheet |
| **RowLocks_proofs** | |
| `LocksAreInOrder` | `Spec => []LocksInvariant`, the inductive invariant of the locks |
| `TypesAreKept`, `NoRowIsLeft` | `Spec => []TypeOK`, `[]NoOrphans` |
| `NobodyWaitsInACircle` | `Spec => []NoCircle` |

**The argument.** `NoOverdraft` is not inductive: between the statement that reads a
balance and the commit that debits it, everything depends on who else may write that
account. `LockDiscipline` says it for every statement of every handler: which rows
the request holds (`MarketHeld`, `WalletHeld`, `BetHeld`) and which of the facts it
has read are therefore still true (`StakeReady`, `UndoReady`, `SettleReady`,
`JoinReady`). Its preservation splits in two. For the request that moves, there is a
lemma per statement (`LockOpenMarketKeeps`, ...). For all others there is one frame: a
step that writes only rows whose locks it holds leaves the facts of every other request
alone (`Frame`, `RespectedIsReady`). Both are in Statements_proofs. The five commits,
which write the tables, are in FauxStakes_proofs. The arithmetic of balances (a sum over
a finite set of ledger rows) is in Tables_proofs.

`Implements` follows: at a commit, `LockDiscipline` gives exactly the guard of the
corresponding step of Wagering (`Commit*Maps`); every other statement is a stutter.
It makes anything proved of Wagering true of the code's interleavings, and is why the
readers can be modelled over Wagering.

The books use it that way: each step of the handlers is a `BookStep` (a step of the
game with the guards the books depend on) or a stutter, so the properties of the tables
are shown for five writes instead of for every statement. `StakesBelong`,
`SettlementComplete` and `OneStartingCredit` are then inductive between well typed
tables; `LedgerMatchesBets` needs `StakesBelong` beside it, because the PAYOUT carries the
competition of the market and has to agree with that of the bet. `Books` is all of them
with the shape of a ledger row, and is stated once in Tables_proofs for the handlers, the
atomic game, the readers and the events.

`RefusalsAreJust` goes through every statement that can refuse. Behind a lock
`LockDiscipline` says that what was read is still so. Before one, `Entitled` says what
no step takes away: the guard let the call in, members stay members, and a key
that was in use stays in use.

`AnswersHold` is inductive with one addition, that a request that was answered is over
(`AnswersKept`): an answer is true when it is given (`PlaceReplies`, `UndoReplies`), and
the books never take a bet from its player or a void bet back (`TruthfulStays`).

`NoStandstill` needs to know where the holder of a row is. `HoldersAreAhead` says it: whoever
holds a row is at a statement of `PastLock`, past those that ask for rows of that kind or
of an earlier one, and nobody holds a row after its end. With `LockDiscipline` this is
inductive, and `LocksInOrder` follows by the kinds of rows. The order alone is
not enough, because the loop of a settlement asks for bets while it holds bets. That loop
never waits (`LoopGoesOn`): another holder of a pending bet of its market, an undo or a
settlement, would hold the market itself. Everybody else who waits has its row held
by somebody further on (`WaitsForLater`), and there are four kinds of rows, so a world in
which all open calls wait would need a fifth (`SomebodyGoesOn`).

`BetsAreFinal` comes from the books: of the steps of the game only a stake writes a key,
which must be free, and only an undo or a settlement writes a bet, which must be
pending (`BetsLast`).

Readers take no locks, so `ReadersInvariant` says what no commit can undo, SELECT by
SELECT. For standings: members stay, a settled market stays settled, and its ledger
rows are complete when it is (`SettlementComplete`, `LedgerMatchesBets`); so the rows the
last SELECT counts are those of `Score` now, whenever now is. The score is not negative
because stakes on markets that are not settled only lower a balance that is never
below zero. For a player's page, whose ledger is read first, the invariant keeps what
the rows read say (`Matched`: every refund stands beside the stake it returns) and that
whatever they count as won is on a market that will be settled when the markets are
read (`Outside`). For a snapshot it adds that everyone who staked on the market is
among the members read.

`NewsInvariant` ties what is left of a handler to the tables: a call whose event is ahead
and whose commit is behind has its fact in the books (`Truthful`), and facts are never
taken back by a `BookStep`. For the gateway, admission to a competition implies that its
user had joined (`Trusted`); a membership that was committed and is not there any more
went with its competition or its user, which is what `OnlyMembersHear` allows. `Restart`
takes both away at once.
`CommitsAreFollowedUp` is the part of the two liveness properties that a single step can
break. Neither the snapshot nor the player's name is ever the last step that is left
(`EventIsLast`, from `Truthful`), so a handler can only run out at its event, at a failure
that is logged, in a restart, or where the name of a removed player is missing, which only
a join asks for (`NamesAreForJoins`).

`LocksInvariant` gives, for each handler, the places it can be at: the demands that are
left and the locks it has (`Placing`, `Settling`, ...). Together with the exclusion of
conflicting locks that is inductive, and all that the rest needs is `After`: the row asked
for comes after the rows held, market before member before bet before competition
before team and name. Three cases do not follow from an order of tables. A snapshot goes back from
the competition to its market, but asks for a key lock, which only blocks behind the
creation of that market. Two transactions never contend for a bet, because both hold its
market. A creation of teams locks the competition first, then names and teams, so nobody
who holds a key lock on the competition can meet it at a team, and no two creations meet
at a name. `Place` turns
this into a number that grows from whoever waits to whoever is waited for (`FurtherOn`), so
a circle cannot close. A deletion asks for every row in any order, and an edit for two
names in the order of its player's wish; both do close circles, two edits that swap names
with each other, an edit and a creation of several teams likewise. `NoCircle` says that
every circle has one of them in it (`Orderly`), and the deadlock detector ends it. `NoRowIsLeft` uses the
same invariant: a handler that inserted a row commits with a lock on the
competition, which the deletion then cannot have.

Setup_proofs has the same plan for `TeamLimit` and `SheetImplemented`. Neither is inductive: a
count of teams is old when the insert uses it. `SetupDiscipline` says what each open
transaction knows and which row keeps it true: the code it inserted is nobody else's, the
count it took is still the count while it holds the competition, the names it inserted
are held by no other row. Each statement keeps it for the request that moves and
for the others, and each commit is then one step of the sheet. Refusals are judged where
they are made, under the locks that make their reading current.

**Model-checked only.** Liveness (`EveryCallEnds` of three components,
`CommittedCallsSucceed`, `RoomsHear`) is outside the prover's reach; TLC checks it. Of each the part that speaks of states and
steps is proved: nobody waits in a circle (`NobodyStandsStill` for the statements of the
handlers, `NobodyWaitsInACircle` with the foreign keys), and no handler ends after its
commit without its event or one of the named exceptions (`CommitsAreNotForgotten`). `CopiesGetTheBet` is the property that
fails. All other properties of the runs are theorems.

## 5. What is not modelled, and what comes next

| Left out | Why, or when |
|---|---|
| `lastActivityAt`, `lastSeenAt`, `hasUpdates` | timestamps are taken before the locks are waited for, so `lastActivityAt` can go backwards; no document says what `hasUpdates` promises. `markSeen` is modelled as the row it locks |
| Overwritten edits | `editTeam` ignores `oldName`: the last edit wins. Setup has it, TeamSheet allows it |
| Ranks, `previousRank` | ranks are a sort of the scores; nothing in the repository says which settlement the previous rank should belong to |
| Rounding of stake × odds | `Return` is a constant, the amount as the column stores it |
| The order of events | two handlers may emit in the other order than they committed, and a room may hear of a settlement before the close. Realtime has these behaviours; the code promises nothing about them |
| `team_created` | its teams are rows of Setup, not of Tables; it follows its commit as the other events do |
| A settled balance that mixes two moments | `getPlayerState` reads the ledger before the markets, so its `settledBalance` may miss the payout of a market settled in between. The model has these states; the property checked is the one that holds, `AvailableWithinSettled` |
| Deletion of a competition in Tables, Wagering, FauxStakes and Leaderboard | the rows are kept as committed. A call on a competition that is gone is refused for rows it does not find, which RowLocks and Realtime have; the properties of the game are about competitions that exist. A reader whose SELECTs straddle a deletion can combine rows from before with none from after it: standings of zeros (markets read, ledger gone), or a page with more available than settled (ledger read, markets gone). `NoOrphans` says that nothing else is left behind |
| Sockets in the rooms of deleted competitions | no code takes them out. Realtime has them, and `OnlyMembersHear` excepts them: they can hear what had been committed before the deletion. The same holds for a socket whose membership was checked before the deletion and that entered after it |
| Removal of users | nothing in the API removes a user; the schema cascades if the login server does. Realtime has it for the one place that expects it (`afterUserJoined`) |
| Rollback of half-written transactions | writes appear at the commit, so that a failing statement leaves nothing is assumed of the database, not checked; likewise for the configuration and the credit that `onCompetitionCreated` writes |
| Authentication, registry, configuration, logging, listings | a library, constants, or reads that return rows unchanged |

What would come next: the rounding of `potentialReturn` at the two decimals of the column
as an operator, and ranks as an operator on a set of scores.

## 6. Running it

```
tlc -config wallet_races.cfg MCFauxStakes        # likewise the other runs of MCFauxStakes
tlc -config leaderboard_reads.cfg MCLeaderboard  # and snapshots.cfg
tlc -config setup.cfg MCSetup
tlc -config row_locks.cfg MCRowLocks             # and row_locks_end.cfg
tlc -config realtime.cfg MCRealtime
tlapm FauxStakes_proofs.tla                      # and the other *_proofs modules
```
