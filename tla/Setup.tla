------------------------------- MODULE Setup --------------------------------
(***************************************************************************)
(* How a competition is set up: createCompetition with its retry of join   *)
(* codes and the teams of its configuration, createTeams and editTeam,     *)
(* many at once, statement by statement.                                   *)
(*                                                                         *)
(* A request that creates a competition gives it its id.  Which row locks  *)
(* a request holds follows from its next statement (HoldsCode, HoldsTeams, *)
(* HoldsName); the locks of other handlers on the same competition row are *)
(* the subject of RowLocks.                                                *)
(***************************************************************************)
EXTENDS Integers, FiniteSets

CONSTANTS
  Requests, Codes, None,
  Existing,      \* competitions that are there when the model starts
  StartCode,     \* their join codes
  Names,         \* team names as the client sends them, trimmed
  Normal,        \* normalizeTeamName
  MaxTeams,      \* MAX_TEAMS_PER_COMPETITION and MAX_INITIAL_TEAMS
  MaxAttempts,   \* draws of a join code
  Calls          \* the calls clients may make

Ids == Requests \cup Existing
TeamIds == Requests \X Names
Words == {Normal[n] : n \in Names}

CallType ==
  [op : {"create"}, names : SUBSET Names]
  \cup [op : {"teams"}, competition : Ids, names : SUBSET Names]
  \cup [op : {"edit"}, competition : Ids, team : TeamIds, name : Names]

ASSUME SetupAssumption ==
  /\ IsFiniteSet(Names) /\ IsFiniteSet(Requests)
  /\ Normal \in [Names -> STRING]
  /\ MaxTeams \in Nat /\ MaxAttempts \in Nat
  /\ Calls \subseteq CallType

ASSUME StartCodeAssumption ==
  /\ Requests \cap Existing = {}
  /\ None \notin Codes
  /\ StartCode \in [Existing -> Codes]
  /\ \A c, d \in Existing : StartCode[c] = StartCode[d] => c = d

TeamRow == [competition : Ids, name : Names]

ASSUME NoRowAssumption == None \notin TeamRow \cup Calls

ASSUME NoReplyAssumption == None \notin {"ok", "refused", "error", "aborted"}

VARIABLES
  code,      \* Competition.joinCode; None where there is no competition
  team,      \* the Team rows, by id
  pc,        \* the next statement of each request
  call,      \* the call a request carries
  reply,     \* how it ended
  drawn,     \* createCompetition: the join code of this attempt
  attempt    \* createCompetition: attempts that met a collision

rows == <<code, team>>
session == <<pc, call, reply, drawn, attempt>>
vars == <<rows, session>>

TeamsOf(c) == {i \in TeamIds : team[i] # None /\ team[i].competition = c}

WordsOf(names) == {Normal[n] : n \in names}

\* The normalised names in use in a competition, but for those of some teams.
Taken(c, besides) == {Normal[team[i].name] : i \in TeamsOf(c) \ besides}

Distinct(names) == Cardinality(WordsOf(names)) = Cardinality(names)

At(r, op, statement) == pc[r] = statement /\ call[r].op = op

\* The transaction of r holds: a join code it has inserted, the competition row
\* it has locked, a team name it has inserted.
HoldsCode(r, k) ==
  pc[r] \in {"initial", "commit"} /\ call[r].op = "create" /\ drawn[r] = k

HoldsTeams(r, c) ==
  /\ pc[r] \in {"count", "insert", "commit"}
  /\ call[r].op = "teams"
  /\ call[r].competition = c

HoldsName(r, c, word) ==
  HoldsTeams(r, c) /\ pc[r] = "commit" /\ word \in WordsOf(call[r].names)

Goto(r, statement) ==
  pc' = [pc EXCEPT ![r] = statement] /\ UNCHANGED <<call, reply>>

Finish(r, answer) ==
  /\ pc' = [pc EXCEPT ![r] = "done"]
  /\ reply' = [reply EXCEPT ![r] = answer]
  /\ UNCHANGED <<call, drawn, attempt>>

Answer(r, answer) == Finish(r, answer) /\ UNCHANGED rows

\* The rows that the transaction of r adds, under ids of its own.
Added(r, c, names) ==
  [i \in TeamIds |-> IF i[1] = r /\ i[2] \in names
                     THEN [competition |-> c, name |-> i[2]]
                     ELSE team[i]]

-----------------------------------------------------------------------------
Init ==
  /\ code = [c \in Ids |-> IF c \in Existing THEN StartCode[c] ELSE None]
  /\ team = [i \in TeamIds |-> None]
  /\ pc = [r \in Requests |-> "idle"]
  /\ call = [r \in Requests |-> None]
  /\ reply = [r \in Requests |-> None]
  /\ drawn = [r \in Requests |-> None]
  /\ attempt = [r \in Requests |-> 0]

\* FauxStakesAdminGuard lets a request for an existing competition through.
Arrive(r, a) ==
  /\ pc[r] = "idle"
  /\ a.op # "create" => code[a.competition] # None
  /\ pc' = [pc EXCEPT ![r] = "start"]
  /\ call' = [call EXCEPT ![r] = a]
  /\ UNCHANGED <<rows, reply, drawn, attempt>>

-----------------------------------------------------------------------------
(* createCompetition *)

\* validateCompetitionConfig, before anything is written
CheckConfig(r) ==
  LET names == call[r].names IN
  /\ At(r, "create", "start")
  /\ IF Cardinality(names) <= MaxTeams /\ Distinct(names)
     THEN Goto(r, "draw") /\ UNCHANGED <<rows, drawn, attempt>>
     ELSE Answer(r, "refused")

\* A fault the runs must expose: the loop has no bound.
DrawCodeForever(r) ==
  /\ At(r, "create", "draw")
  /\ \E k \in Codes : drawn' = [drawn EXCEPT ![r] = k]
  /\ Goto(r, "row")
  /\ UNCHANGED <<rows, attempt>>

\* generateJoinCode, at most MaxAttempts times
DrawCode(r) ==
  /\ At(r, "create", "draw")
  /\ IF attempt[r] < MaxAttempts
     THEN /\ \E k \in Codes : drawn' = [drawn EXCEPT ![r] = k]
          /\ Goto(r, "row")
          /\ UNCHANGED <<rows, attempt>>
     ELSE Answer(r, "error")

\* A fault the runs must expose: an attempt that collides is not counted.
InsertCompetitionUncounted(r) ==
  LET k == drawn[r] IN
  /\ At(r, "create", "row")
  /\ \A q \in Requests : ~HoldsCode(q, k)
  /\ IF \E c \in Ids : code[c] = k THEN Goto(r, "draw") ELSE Goto(r, "initial")
  /\ UNCHANGED <<rows, drawn, attempt>>

\* tx.competition.create: the unique index waits for another transaction that
\* has inserted the code; a code that is taken ends this attempt.
InsertCompetition(r) ==
  LET k == drawn[r] IN
  /\ At(r, "create", "row")
  /\ \A q \in Requests : ~HoldsCode(q, k)
  /\ IF \E c \in Ids : code[c] = k
     THEN attempt' = [attempt EXCEPT ![r] = @ + 1] /\ Goto(r, "draw")
     ELSE Goto(r, "initial") /\ UNCHANGED attempt
  /\ UNCHANGED <<rows, drawn>>

\* onCompetitionCreated: the initial teams, which nobody else can see yet
InitialTeams(r) ==
  /\ At(r, "create", "initial")
  /\ Goto(r, "commit")
  /\ UNCHANGED <<rows, drawn, attempt>>

CommitCompetition(r) ==
  /\ At(r, "create", "commit")
  /\ code' = [code EXCEPT ![r] = drawn[r]]
  /\ team' = Added(r, r, call[r].names)
  /\ Finish(r, "ok")

CreateCompetition(r) ==
  CheckConfig(r) \/ DrawCode(r) \/ InsertCompetition(r) \/ InitialTeams(r)
  \/ CommitCompetition(r)

-----------------------------------------------------------------------------
(* createTeams *)

\* A fault the runs must expose: the competition row is read, not locked.
LockCompetitionUnlocked(r) ==
  /\ At(r, "teams", "start")
  /\ IF Distinct(call[r].names)
     THEN Goto(r, "count") /\ UNCHANGED <<rows, drawn, attempt>>
     ELSE Answer(r, "refused")

\* SELECT ... FOR UPDATE of the competition row, after the names were compared
LockCompetition(r) ==
  /\ At(r, "teams", "start")
  /\ IF Distinct(call[r].names)
     THEN /\ \A q \in Requests : ~HoldsTeams(q, call[r].competition)
          /\ Goto(r, "count")
          /\ UNCHANGED <<rows, drawn, attempt>>
     ELSE Answer(r, "refused")

\* A fault the runs must expose: a competition is never filled.
CountTeamsStrict(r) ==
  LET n == Cardinality(TeamsOf(call[r].competition)) IN
  /\ At(r, "teams", "count")
  /\ IF n + Cardinality(call[r].names) >= MaxTeams
     THEN Answer(r, "refused")
     ELSE Goto(r, "insert") /\ UNCHANGED <<rows, drawn, attempt>>

\* tx.team.count and the limit
CountTeams(r) ==
  LET n == Cardinality(TeamsOf(call[r].competition)) IN
  /\ At(r, "teams", "count")
  /\ IF n + Cardinality(call[r].names) > MaxTeams
     THEN Answer(r, "refused")
     ELSE Goto(r, "insert") /\ UNCHANGED <<rows, drawn, attempt>>

\* A fault the runs must expose: no unique index on the normalised name.
InsertTeamsUnindexed(r) ==
  /\ At(r, "teams", "insert")
  /\ Goto(r, "commit")
  /\ UNCHANGED <<rows, drawn, attempt>>

\* tx.team.createMany under the unique index on competition and normalised name
InsertTeams(r) ==
  LET a == call[r] IN
  /\ At(r, "teams", "insert")
  /\ IF WordsOf(a.names) \cap Taken(a.competition, {}) = {}
     THEN Goto(r, "commit") /\ UNCHANGED <<rows, drawn, attempt>>
     ELSE Answer(r, "refused")

CommitTeams(r) ==
  /\ At(r, "teams", "commit")
  /\ team' = Added(r, call[r].competition, call[r].names)
  /\ UNCHANGED code
  /\ Finish(r, "ok")

CreateTeams(r) ==
  LockCompetition(r) \/ CountTeams(r) \/ InsertTeams(r) \/ CommitTeams(r)

-----------------------------------------------------------------------------
(* editTeam: one UPDATE.  It waits for a creation that has inserted the name, *)
(* and ignores dto.oldName, so of two edits the last one wins.                *)

EditTeam(r) ==
  LET a == call[r] IN
  /\ At(r, "edit", "start")
  /\ \A q \in Requests : ~HoldsName(q, a.competition, Normal[a.name])
  /\ IF /\ a.team \in TeamsOf(a.competition)
        /\ Normal[a.name] \notin Taken(a.competition, {a.team})
     THEN /\ team' = [team EXCEPT ![a.team].name = a.name]
          /\ UNCHANGED code
          /\ Finish(r, "ok")
     ELSE Answer(r, "refused")

-----------------------------------------------------------------------------

\* A transaction is rolled back from outside: a timeout, a lost connection, or a circle of
\* waits for names that the database breaks.  An edit is a transaction of one statement.
Abort(r) ==
  /\ pc[r] \in {"row", "initial", "count", "insert", "commit"} \/ At(r, "edit", "start")
  /\ Answer(r, "aborted")

Step(r) == CreateCompetition(r) \/ CreateTeams(r) \/ EditTeam(r)

Quiet ==
  /\ \A r \in Requests : pc[r] \in {"idle", "done"}
  /\ UNCHANGED vars

Next ==
  \/ \E r \in Requests, a \in Calls : Arrive(r, a)
  \/ \E r \in Requests : Step(r)
  \/ \E r \in Requests : Abort(r)
  \/ Quiet

Spec == Init /\ [][Next]_vars

\* The server executes the next statement of every open request.
FairSpec == Spec /\ \A r \in Requests : WF_vars(Step(r))

-----------------------------------------------------------------------------
TypeOK ==
  /\ code \in [Ids -> Codes \cup {None}]
  /\ team \in [TeamIds -> TeamRow \cup {None}]
  /\ pc \in [Requests -> {"idle", "start", "draw", "row", "initial", "count",
                          "insert", "commit", "done"}]
  /\ call \in [Requests -> Calls \cup {None}]
  /\ reply \in [Requests -> {None, "ok", "refused", "error", "aborted"}]
  /\ drawn \in [Requests -> Codes \cup {None}]
  /\ attempt \in [Requests -> 0 .. MaxAttempts]

\* Simultaneous creations never push a competition past its limit of teams
\* ("concurrent requests cannot both observe the same old count and push the
\* competition beyond the 100-team limit", teams.service.ts:34).
TeamLimit == \A c \in Ids : Cardinality(TeamsOf(c)) <= MaxTeams

\* The teams of a competition as the number of teams that have a name.
NamedSo(c, w) == {i \in TeamsOf(c) : Normal[team[i].name] = w}

Sheets == [c \in Ids |-> [w \in Words |-> Cardinality(NamedSo(c, w))]]

Sheet == INSTANCE TeamSheet WITH
           code <- code,
           sheet <- Sheets,
           StartCode <- [c \in Ids |-> IF c \in Existing THEN StartCode[c] ELSE None]

\* Creations, additions and edits in any interleaving are steps of the sheet:
\* codes stay unique, names stay distinct, an addition is whole or leaves
\* nothing, and a rename changes one name (createCompetition, createTeams, editTeam).
ImplementsSheet == Sheet!Spec

Allowed(a) ==
  CASE a.op = "create" -> Cardinality(a.names) <= MaxTeams /\ Distinct(a.names)
    [] a.op = "teams" ->
         /\ Distinct(a.names)
         /\ WordsOf(a.names) \cap Taken(a.competition, {}) = {}
         /\ Cardinality(TeamsOf(a.competition)) + Cardinality(a.names) <= MaxTeams
    [] a.op = "edit" ->
         /\ a.team \in TeamsOf(a.competition)
         /\ Normal[a.name] \notin Taken(a.competition, {a.team})

\* A call is refused only at a moment when the rules forbid it: a competition
\* can be filled to the last team, and no refusal comes from teams that another
\* transaction was about to add and did not.
RefusalsJustified ==
  [][\A r \in Requests :
       reply[r] = None /\ reply'[r] = "refused" => ~Allowed(call[r])]_vars

\* Every call is answered, whatever the others do; a creation that meets only
\* taken codes gives up (createCompetition's loop).
EveryCallEnds == \A r \in Requests : pc[r] # "idle" ~> pc[r] = "done"

=============================================================================
