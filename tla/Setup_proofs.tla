---------------------------- MODULE Setup_proofs ----------------------------
(***************************************************************************)
(* However many creations, additions and edits run at once, no competition *)
(* gets too many teams, and together they implement the sheet of teams.    *)
(*                                                                         *)
(* TeamLimit is not inductive: between the count and the commit everything *)
(* depends on who else may add teams.  SetupDiscipline says, for every     *)
(* statement, what a request has found and why it is still so.  No call is *)
(* refused that the committed rows allow.                                  *)
(***************************************************************************)
EXTENDS Setup, FiniteSetTheorems, TLAPS

Creating(r) == pc[r] \in {"draw", "row", "initial", "commit"} /\ call[r].op = "create"

\* What a creation knows of its configuration and its code.
CreationReady(r) ==
  Creating(r) =>
    /\ Cardinality(call[r].names) <= MaxTeams
    /\ Distinct(call[r].names)
    /\ pc[r] # "draw" => drawn[r] \in Codes
    /\ pc[r] = "row" => attempt[r] < MaxAttempts
    /\ pc[r] \in {"initial", "commit"} => \A d \in Ids : code[d] # drawn[r]

\* What an addition knows of the competition it has locked.
AdditionReady(r) ==
  \A c \in Ids : HoldsTeams(r, c) =>
    /\ pc[r] # "count" => Cardinality(TeamsOf(c)) + Cardinality(call[r].names) <= MaxTeams
    /\ pc[r] = "commit" => WordsOf(call[r].names) \cap Taken(c, {}) = {}
    /\ Distinct(call[r].names)

\* A request adds rows only when it is done, and its call is one of Calls.
Fresh(r) ==
  /\ pc[r] # "done" => code[r] = None /\ \A n \in Names : team[<<r, n>>] = None
  /\ pc[r] # "idle" => call[r] \in Calls
  /\ pc[r] \notin {"idle", "done"} /\ call[r].op # "create" => code[call[r].competition] # None

RowsAgree ==
  /\ \A i \in TeamIds : team[i] # None => code[team[i].competition] # None
  /\ \A c, d \in Ids : code[c] = code[d] /\ code[c] # None => c = d
  /\ \A c \in Ids : \A i, j \in TeamsOf(c) :
       Normal[team[i].name] = Normal[team[j].name] => i = j

LocksAreOwn ==
  \A q, r \in Requests :
    /\ \A c \in Ids : HoldsTeams(q, c) /\ HoldsTeams(r, c) => q = r
    /\ \A k \in Codes : HoldsCode(q, k) /\ HoldsCode(r, k) => q = r

SetupDiscipline ==
  /\ TypeOK
  /\ TeamLimit
  /\ RowsAgree
  /\ LocksAreOwn
  /\ \A r \in Requests : Fresh(r) /\ CreationReady(r) /\ AdditionReady(r)

-----------------------------------------------------------------------------
(* Finite sets of teams and names. *)

LEMMA FiniteTeams ==
  ASSUME NEW c
  PROVE  IsFiniteSet(TeamsOf(c)) /\ Cardinality(TeamsOf(c)) \in Nat
<1>1. IsFiniteSet(TeamIds)
  BY FS_Product, SetupAssumption DEF TeamIds
<1>2. TeamsOf(c) \in SUBSET TeamIds
  BY DEF TeamsOf
<1>. QED
  BY <1>1, <1>2, FS_Subset, FS_CardinalityType

LEMMA FiniteNames ==
  ASSUME NEW names \in SUBSET Names
  PROVE  /\ IsFiniteSet(names) /\ Cardinality(names) \in Nat
         /\ IsFiniteSet(WordsOf(names)) /\ Cardinality(WordsOf(names)) \in Nat
         /\ Cardinality(WordsOf(names)) <= Cardinality(names)
         /\ Distinct(names) => \A m, n \in names : Normal[m] = Normal[n] => m = n
<1> DEFINE f == [n \in names |-> Normal[n]]
<1>1. IsFiniteSet(names)
  BY FS_Subset, SetupAssumption
<1>2. f \in Surjection(names, WordsOf(names))
  BY DEF Surjection, WordsOf
<1>3. /\ IsFiniteSet(WordsOf(names))
      /\ Cardinality(WordsOf(names)) <= Cardinality(names)
      /\ Cardinality(WordsOf(names)) = Cardinality(names) <=> f \in Injection(names, WordsOf(names))
  BY <1>1, <1>2, FS_Surjection
<1>4. f \in Injection(names, WordsOf(names)) =>
        \A m, n \in names : Normal[m] = Normal[n] => m = n
  BY DEF Injection, IsInjective
<1>. QED
  BY <1>1, <1>3, <1>4, FS_CardinalityType DEF Distinct

\* What a transaction that adds teams leaves behind.
LEMMA AddedTeams ==
  ASSUME NEW r \in Requests, NEW c \in Ids, NEW names \in SUBSET Names,
         TypeOK, \A n \in Names : team[<<r, n>>] = None,
         team' = Added(r, c, names)
  PROVE  /\ team' \in [TeamIds -> TeamRow \cup {None}]
         /\ TeamsOf(c)' = TeamsOf(c) \cup ({r} \X names)
         /\ \A d \in Ids \ {c} : TeamsOf(d)' = TeamsOf(d)
         /\ \A n \in names : team'[<<r, n>>] = [competition |-> c, name |-> n]
         /\ \A i \in TeamIds : team[i] # None => team'[i] = team[i]
         /\ \A i \in TeamIds : team'[i] # None /\ team[i] = None => i \in {r} \X names
         /\ Cardinality(TeamsOf(c)') <= Cardinality(TeamsOf(c)) + Cardinality(names)
<1>1. \A i \in TeamIds : /\ i[1] \in Requests /\ i[2] \in Names /\ i = <<i[1], i[2]>>
                         /\ i[1] = r => team[i] = None
  BY DEF TeamIds
<1>2. \A i \in TeamIds :
        team'[i] = IF i \in {r} \X names THEN [competition |-> c, name |-> i[2]] ELSE team[i]
  BY <1>1 DEF Added
<1>3. \A i \in {r} \X names : i \in TeamIds /\ i[2] \in names /\ team[i] = None
  BY <1>1 DEF TeamIds
<1>4. \A i \in {r} \X names : [competition |-> c, name |-> i[2]] \in TeamRow
  BY <1>3 DEF TeamRow
<1>5. None \notin TeamRow
  BY NoRowAssumption
<1>6. team' \in [TeamIds -> TeamRow \cup {None}]
  <2>1. \A i \in TeamIds :
          (IF i[1] = r /\ i[2] \in names THEN [competition |-> c, name |-> i[2]]
           ELSE team[i]) \in TeamRow \cup {None}
    BY <1>1 DEF TypeOK, TeamRow
  <2>. QED
    BY <2>1 DEF Added
<1>. DEFINE new == {r} \X names
<1>7. /\ \A i \in new : team'[i] # None /\ team'[i].competition = c
      /\ \A i \in TeamIds \ new : team'[i] = team[i]
  <2>1. ASSUME NEW i \in new PROVE team'[i] # None /\ team'[i].competition = c
    <3>1. team'[i] = [competition |-> c, name |-> i[2]]
      BY <1>2, <1>3
    <3>2. team'[i] \in TeamRow
      BY <1>4, <3>1
    <3>. QED
      BY <1>5, <3>1, <3>2
  <2>2. \A i \in TeamIds \ new : team'[i] = team[i]
    BY <1>2
  <2>. QED
    BY <2>1, <2>2
<1>8. new \subseteq TeamIds /\ \A i \in new : team[i] = None
  BY <1>3
<1>9. ASSUME NEW d \in Ids, NEW i \in TeamIds
      PROVE  i \in TeamsOf(d)' <=> i \in TeamsOf(d) \/ (d = c /\ i \in new)
  <2> HIDE DEF new
  <2>1. CASE i \in new
    <3>1. team'[i] # None /\ team'[i].competition = c /\ team[i] = None
      BY <1>7, <1>8, <2>1
    <3>. QED
      BY <2>1, <3>1 DEF TeamsOf
  <2>2. CASE i \notin new
    <3>1. team'[i] = team[i]
      BY <1>7, <2>2
    <3>. QED
      BY <2>2, <3>1 DEF TeamsOf
  <2>. QED
    BY <2>1, <2>2
<1>10. TeamsOf(c)' = TeamsOf(c) \cup ({r} \X names)
  <2>1. TeamsOf(c)' \subseteq TeamIds /\ TeamsOf(c) \subseteq TeamIds
    BY DEF TeamsOf
  <2> HIDE DEF new
  <2>2. TeamsOf(c)' = TeamsOf(c) \cup new
    BY <1>8, <1>9, <2>1
  <2>. QED
    BY <2>2 DEF new
<1>11. \A d \in Ids \ {c} : TeamsOf(d)' = TeamsOf(d)
  <2>1. \A d \in Ids : TeamsOf(d)' \subseteq TeamIds /\ TeamsOf(d) \subseteq TeamIds
    BY DEF TeamsOf
  <2> HIDE DEF new
  <2>. QED
    BY <1>9, <2>1
<1>12. \A n \in names : team'[<<r, n>>] = [competition |-> c, name |-> n]
  <2> TAKE n \in names
  <2>1. <<r, n>> \in {r} \X names /\ <<r, n>>[2] = n
    OBVIOUS
  <2>. QED
    BY <1>2, <1>3, <2>1
<1>13. Cardinality(TeamsOf(c)') <= Cardinality(TeamsOf(c)) + Cardinality(names)
  <2>1. IsFiniteSet({r} \X names) /\ Cardinality({r} \X names) = Cardinality(names)
    <3>1. IsFiniteSet({r}) /\ Cardinality({r}) = 1
      BY FS_Singleton
    <3>2. IsFiniteSet(names) /\ Cardinality(names) \in Nat
      BY FiniteNames
    <3>3. /\ IsFiniteSet({r} \X names)
          /\ Cardinality({r} \X names) = Cardinality({r}) * Cardinality(names)
      BY <3>1, <3>2, FS_Product
    <3>. QED
      BY <3>1, <3>2, <3>3
  <2>2. /\ Cardinality(TeamsOf(c) \cup ({r} \X names)) =
             Cardinality(TeamsOf(c)) + Cardinality({r} \X names)
               - Cardinality(TeamsOf(c) \cap ({r} \X names))
        /\ IsFiniteSet(TeamsOf(c) \cap ({r} \X names))
    BY <2>1, FiniteTeams, FS_Union, FS_Intersection
  <2>3. Cardinality(TeamsOf(c) \cap ({r} \X names)) \in Nat
    BY <2>2, FS_CardinalityType
  <2>4. Cardinality(TeamsOf(c)) \in Nat /\ Cardinality(names) \in Nat
    BY FiniteTeams, FiniteNames
  <2> DEFINE all == Cardinality(TeamsOf(c)')
             old == Cardinality(TeamsOf(c))
             added == Cardinality(names)
             both == Cardinality(TeamsOf(c) \cap ({r} \X names))
  <2>5. all = old + added - both /\ old \in Nat /\ added \in Nat /\ both \in Nat
    BY <1>10, <2>1, <2>2, <2>3, <2>4
  <2> HIDE DEF all, old, added, both
  <2>6. all <= old + added
    BY <2>5
  <2>. QED
    BY <2>6 DEF all, old, added
<1>14. /\ \A i \in TeamIds : team[i] # None => team'[i] = team[i]
       /\ \A i \in TeamIds : team'[i] # None /\ team[i] = None => i \in {r} \X names
  BY <1>2, <1>3
<1>. QED
  BY <1>6, <1>10, <1>11, <1>12, <1>13, <1>14

-----------------------------------------------------------------------------
(* Statements that write no rows. *)

LEMMA CallFields ==
  ASSUME NEW a \in Calls
  PROVE  /\ a.op \in {"create", "teams", "edit"}
         /\ a.op \in {"create", "teams"} => a.names \in SUBSET Names
         /\ a.op \in {"teams", "edit"} => a.competition \in Ids
         /\ a.op = "edit" => a.name \in Names
BY SetupAssumption DEF CallType

\* What the statement of one request leaves alone of another's session.
Others(r) ==
  \A q \in Requests \ {r} :
    /\ pc'[q] = pc[q] /\ call'[q] = call[q]
    /\ drawn'[q] = drawn[q] /\ attempt'[q] = attempt[q]

\* A request that has just taken these locks is the only one.
LocksAreFree(r) ==
  \A q \in Requests \ {r} :
    /\ \A c \in Ids : HoldsTeams(r, c)' => ~HoldsTeams(q, c)
    /\ \A k \in Codes : HoldsCode(r, k)' => ~HoldsCode(q, k)

LEMMA StatementKeeps ==
  ASSUME NEW r \in Requests, SetupDiscipline, TypeOK', UNCHANGED rows, Others(r),
         LocksAreFree(r), Fresh(r)', CreationReady(r)', AdditionReady(r)'
  PROVE  SetupDiscipline'
<1>1. \A c \in Ids : TeamsOf(c)' = TeamsOf(c) /\ Taken(c, {})' = Taken(c, {})
  BY DEF rows, TeamsOf, Taken
<1>2. TeamLimit' /\ RowsAgree'
  <2>1. TeamLimit'
    BY <1>1 DEF SetupDiscipline, TeamLimit
  <2>2. RowsAgree'
    BY <1>1 DEF SetupDiscipline, RowsAgree, rows
  <2>. QED
    BY <2>1, <2>2
<1>3. ASSUME NEW q \in Requests \ {r}
      PROVE  /\ \A c \in Ids : HoldsTeams(q, c)' = HoldsTeams(q, c)
             /\ \A k \in Codes : HoldsCode(q, k)' = HoldsCode(q, k)
             /\ Fresh(q)' /\ CreationReady(q)' /\ AdditionReady(q)'
  <2>1. /\ pc'[q] = pc[q] /\ call'[q] = call[q]
        /\ drawn'[q] = drawn[q] /\ attempt'[q] = attempt[q]
    BY DEF Others
  <2>2. /\ \A c \in Ids : HoldsTeams(q, c)' = HoldsTeams(q, c)
        /\ \A k \in Codes : HoldsCode(q, k)' = HoldsCode(q, k)
    BY <2>1 DEF HoldsTeams, HoldsCode
  <2>3. Fresh(q)' /\ CreationReady(q)'
    BY <2>1 DEF SetupDiscipline, Fresh, CreationReady, Creating, rows
  <2>4. AdditionReady(q)'
    BY <1>1, <2>1, <2>2 DEF SetupDiscipline, AdditionReady
  <2>. QED
    BY <2>2, <2>3, <2>4
<1>4. LocksAreOwn'
  <2> SUFFICES ASSUME NEW p \in Requests, NEW q \in Requests, p # q
               PROVE  /\ \A c \in Ids : ~(HoldsTeams(p, c)' /\ HoldsTeams(q, c)')
                      /\ \A k \in Codes : ~(HoldsCode(p, k)' /\ HoldsCode(q, k)')
    BY DEF LocksAreOwn
  <2>1. CASE p # r /\ q # r
    BY <1>3, <2>1 DEF SetupDiscipline, LocksAreOwn
  <2>2. CASE p = r \/ q = r
    BY <1>3, <2>2 DEF LocksAreFree
  <2>. QED
    BY <2>1, <2>2
<1>. QED
  BY <1>2, <1>3, <1>4 DEF SetupDiscipline

\* A request that ends without a commit.
LEMMA AnswerKeeps ==
  ASSUME NEW r \in Requests, SetupDiscipline, pc[r] # "idle",
         NEW answer \in {"refused", "error", "aborted"}, Answer(r, answer)
  PROVE  SetupDiscipline'
<1> USE DEF Answer, Finish
<1>1. TypeOK'
  BY DEF SetupDiscipline, TypeOK, rows
<1>2. Others(r) /\ pc'[r] = "done" /\ call'[r] = call[r]
  BY DEF Others, SetupDiscipline, TypeOK
<1>3. LocksAreFree(r) /\ Fresh(r)' /\ CreationReady(r)' /\ AdditionReady(r)'
  BY <1>2 DEF LocksAreFree, HoldsTeams, HoldsCode, Fresh, CreationReady, Creating,
              AdditionReady, SetupDiscipline
<1>. QED
  BY <1>1, <1>2, <1>3, StatementKeeps

LEMMA ArriveKeeps ==
  ASSUME NEW r \in Requests, NEW a \in Calls, SetupDiscipline, Arrive(r, a)
  PROVE  SetupDiscipline'
<1>1. TypeOK'
  BY DEF Arrive, SetupDiscipline, TypeOK, rows
<1>2. Others(r) /\ pc'[r] = "start" /\ call'[r] = a
  BY DEF Arrive, Others, SetupDiscipline, TypeOK
<1>3. Fresh(r)'
  BY <1>2 DEF Arrive, Fresh, SetupDiscipline, rows
<1>4. LocksAreFree(r) /\ CreationReady(r)' /\ AdditionReady(r)'
  BY <1>2 DEF LocksAreFree, HoldsTeams, HoldsCode, CreationReady, Creating, AdditionReady
<1>. QED
  BY <1>1, <1>2, <1>3, <1>4, StatementKeeps DEF Arrive

LEMMA CheckConfigKeeps ==
  ASSUME NEW r \in Requests, SetupDiscipline, CheckConfig(r)
  PROVE  SetupDiscipline'
<1> DEFINE names == call[r].names
<1>1. pc[r] = "start" /\ call[r].op = "create"
  BY DEF CheckConfig, At
<1>2. CASE ~(Cardinality(names) <= MaxTeams /\ Distinct(names))
  <2>1. Answer(r, "refused")
    BY <1>2 DEF CheckConfig
  <2>. QED
    BY <1>1, <2>1, AnswerKeeps
<1>3. CASE Cardinality(names) <= MaxTeams /\ Distinct(names)
  <2>1. Goto(r, "draw") /\ UNCHANGED <<rows, drawn, attempt>>
    BY <1>3 DEF CheckConfig
  <2>2. TypeOK'
    BY <2>1 DEF Goto, SetupDiscipline, TypeOK, rows
  <2>3. Others(r) /\ pc'[r] = "draw" /\ call'[r] = call[r]
    BY <2>1 DEF Goto, Others, SetupDiscipline, TypeOK
  <2>4. Fresh(r)'
    BY <1>1, <2>1, <2>3 DEF Fresh, SetupDiscipline, rows
  <2>5. CreationReady(r)'
    BY <1>3, <2>3 DEF CreationReady, Distinct, WordsOf
  <2>6. LocksAreFree(r) /\ AdditionReady(r)'
    BY <2>3 DEF LocksAreFree, HoldsTeams, HoldsCode, AdditionReady
  <2>. QED
    BY <2>1, <2>2, <2>3, <2>4, <2>5, <2>6, StatementKeeps
<1>. QED
  BY <1>2, <1>3

LEMMA DrawCodeKeeps ==
  ASSUME NEW r \in Requests, SetupDiscipline, DrawCode(r)
  PROVE  SetupDiscipline'
<1>1. pc[r] = "draw" /\ call[r].op = "create" /\ attempt[r] \in Nat
  BY DEF DrawCode, At, SetupDiscipline, TypeOK
<1>2. CASE ~(attempt[r] < MaxAttempts)
  <2>1. Answer(r, "error")
    BY <1>2 DEF DrawCode
  <2>. QED
    BY <1>1, <2>1, AnswerKeeps
<1>3. CASE attempt[r] < MaxAttempts
  <2>1. PICK k \in Codes : drawn' = [drawn EXCEPT ![r] = k]
    BY <1>3 DEF DrawCode
  <2>2. Goto(r, "row") /\ UNCHANGED <<rows, attempt>>
    BY <1>3 DEF DrawCode
  <2>3. TypeOK'
    BY <2>1, <2>2 DEF Goto, SetupDiscipline, TypeOK, rows
  <2>4. /\ Others(r) /\ pc'[r] = "row" /\ call'[r] = call[r]
        /\ drawn'[r] = k /\ attempt'[r] = attempt[r]
    BY <2>1, <2>2 DEF Goto, Others, SetupDiscipline, TypeOK
  <2>5. Fresh(r)'
    BY <1>1, <2>2, <2>4 DEF Fresh, SetupDiscipline, rows
  <2>6. CreationReady(r)'
    BY <1>1, <1>3, <2>4 DEF SetupDiscipline, CreationReady, Creating, Distinct, WordsOf
  <2>7. LocksAreFree(r) /\ AdditionReady(r)'
    BY <2>4 DEF LocksAreFree, HoldsTeams, HoldsCode, AdditionReady
  <2>. QED
    BY <2>2, <2>3, <2>4, <2>5, <2>6, <2>7, StatementKeeps
<1>. QED
  BY <1>2, <1>3

LEMMA InsertCompetitionKeeps ==
  ASSUME NEW r \in Requests, SetupDiscipline, InsertCompetition(r)
  PROVE  SetupDiscipline'
<1> DEFINE k == drawn[r]
<1>1. /\ pc[r] = "row" /\ call[r].op = "create" /\ attempt[r] \in Nat /\ Creating(r)
      /\ attempt[r] < MaxAttempts /\ k \in Codes
      /\ UNCHANGED <<rows, drawn>>
  BY DEF InsertCompetition, At, SetupDiscipline, TypeOK, CreationReady, Creating
<1>2. CASE \E c \in Ids : code[c] = k
  <2>1. attempt' = [attempt EXCEPT ![r] = @ + 1] /\ Goto(r, "draw")
    BY <1>2 DEF InsertCompetition
  <2>2. attempt[r] + 1 \in 0 .. MaxAttempts
    BY <1>1, SetupAssumption
  <2>3. TypeOK'
    BY <1>1, <2>1, <2>2 DEF Goto, SetupDiscipline, TypeOK, rows
  <2>4. Others(r) /\ pc'[r] = "draw" /\ call'[r] = call[r]
    BY <1>1, <2>1 DEF Goto, Others, SetupDiscipline, TypeOK
  <2>5. Fresh(r)'
    BY <1>1, <2>4 DEF Fresh, SetupDiscipline, rows
  <2>6. CreationReady(r)'
    BY <1>1, <2>4 DEF SetupDiscipline, CreationReady, Distinct, WordsOf
  <2>7. LocksAreFree(r) /\ AdditionReady(r)'
    BY <2>4 DEF LocksAreFree, HoldsTeams, HoldsCode, AdditionReady
  <2>. QED
    BY <1>1, <2>3, <2>4, <2>5, <2>6, <2>7, StatementKeeps
<1>3. CASE ~ \E c \in Ids : code[c] = k
  <2>1. Goto(r, "initial") /\ UNCHANGED attempt
    BY <1>3 DEF InsertCompetition
  <2>2. TypeOK'
    BY <1>1, <2>1 DEF Goto, SetupDiscipline, TypeOK, rows
  <2>3. Others(r) /\ pc'[r] = "initial" /\ call'[r] = call[r] /\ drawn'[r] = k
    BY <1>1, <2>1 DEF Goto, Others, SetupDiscipline, TypeOK
  <2>4. Fresh(r)'
    BY <1>1, <2>3 DEF Fresh, SetupDiscipline, rows
  <2>5. CreationReady(r)'
    BY <1>1, <1>3, <2>3 DEF SetupDiscipline, CreationReady, Distinct, WordsOf, rows
  <2>6. LocksAreFree(r)
    BY <2>3 DEF LocksAreFree, InsertCompetition, HoldsTeams, HoldsCode
  <2>7. AdditionReady(r)'
    BY <2>3 DEF HoldsTeams, AdditionReady
  <2>. QED
    BY <1>1, <2>2, <2>3, <2>4, <2>5, <2>6, <2>7, StatementKeeps
<1>. QED
  BY <1>2, <1>3

LEMMA InitialTeamsKeeps ==
  ASSUME NEW r \in Requests, SetupDiscipline, InitialTeams(r)
  PROVE  SetupDiscipline'
<1>1. /\ pc[r] = "initial" /\ call[r].op = "create" /\ Creating(r)
      /\ Goto(r, "commit") /\ UNCHANGED <<rows, drawn, attempt>>
  BY DEF InitialTeams, At, Creating
<1>2. TypeOK'
  BY <1>1 DEF Goto, SetupDiscipline, TypeOK, rows
<1>3. Others(r) /\ pc'[r] = "commit" /\ call'[r] = call[r] /\ drawn'[r] = drawn[r]
  BY <1>1 DEF Goto, Others, SetupDiscipline, TypeOK
<1>4. Fresh(r)'
  BY <1>1, <1>3 DEF Fresh, SetupDiscipline, rows
<1>5. CreationReady(r)'
  BY <1>1, <1>3 DEF SetupDiscipline, CreationReady, Distinct, WordsOf, rows
<1>6. LocksAreFree(r)
  BY <1>1, <1>3 DEF LocksAreFree, SetupDiscipline, LocksAreOwn, HoldsTeams, HoldsCode
<1>7. AdditionReady(r)'
  BY <1>1, <1>3 DEF HoldsTeams, AdditionReady
<1>. QED
  BY <1>1, <1>2, <1>3, <1>4, <1>5, <1>6, <1>7, StatementKeeps

LEMMA LockCompetitionKeeps ==
  ASSUME NEW r \in Requests, SetupDiscipline, LockCompetition(r)
  PROVE  SetupDiscipline'
<1> DEFINE names == call[r].names
<1>1. pc[r] = "start" /\ call[r].op = "teams"
  BY DEF LockCompetition, At
<1>2. CASE ~Distinct(names)
  <2>1. Answer(r, "refused")
    BY <1>2 DEF LockCompetition
  <2>. QED
    BY <1>1, <2>1, AnswerKeeps
<1>3. CASE Distinct(names)
  <2>1. /\ Goto(r, "count") /\ UNCHANGED <<rows, drawn, attempt>>
        /\ \A q \in Requests : ~HoldsTeams(q, call[r].competition)
    BY <1>3 DEF LockCompetition
  <2>2. TypeOK'
    BY <2>1 DEF Goto, SetupDiscipline, TypeOK, rows
  <2>3. Others(r) /\ pc'[r] = "count" /\ call'[r] = call[r]
    BY <2>1 DEF Goto, Others, SetupDiscipline, TypeOK
  <2>4. Fresh(r)'
    BY <1>1, <2>1, <2>3 DEF Fresh, SetupDiscipline, rows
  <2>5. AdditionReady(r)'
    BY <1>3, <2>3 DEF AdditionReady, HoldsTeams, Distinct, WordsOf
  <2>6. LocksAreFree(r)
    BY <2>1, <2>3 DEF LocksAreFree, HoldsTeams, HoldsCode
  <2>7. CreationReady(r)'
    BY <2>3 DEF CreationReady, Creating
  <2>. QED
    BY <2>1, <2>2, <2>3, <2>4, <2>5, <2>6, <2>7, StatementKeeps
<1>. QED
  BY <1>2, <1>3

\* The two statements under the lock of the competition row.
LEMMA UnderTheLock ==
  ASSUME NEW r \in Requests, NEW statement \in {"insert", "commit"}, SetupDiscipline,
         pc[r] \in {"count", "insert"}, call[r].op = "teams", Goto(r, statement),
         UNCHANGED <<rows, drawn, attempt>>,
         Cardinality(TeamsOf(call[r].competition)) + Cardinality(call[r].names) <= MaxTeams,
         statement = "commit" => WordsOf(call[r].names) \cap Taken(call[r].competition, {}) = {}
  PROVE  SetupDiscipline'
<1>1. call[r].competition \in Ids
  BY CallFields DEF SetupDiscipline, Fresh
<1>2. TypeOK'
  BY DEF Goto, SetupDiscipline, TypeOK, rows
<1>3. Others(r) /\ pc'[r] = statement /\ call'[r] = call[r]
  BY DEF Goto, Others, SetupDiscipline, TypeOK
<1>4. Fresh(r)'
  BY <1>3 DEF Fresh, SetupDiscipline, rows
<1>5. HoldsTeams(r, call[r].competition)
  BY DEF HoldsTeams
<1>6. AdditionReady(r)'
  <2>1. Distinct(call[r].names)
    BY <1>1, <1>5 DEF SetupDiscipline, AdditionReady
  <2>2. /\ TeamsOf(call[r].competition)' = TeamsOf(call[r].competition)
        /\ Taken(call[r].competition, {})' = Taken(call[r].competition, {})
    BY <1>3 DEF rows, TeamsOf, Taken
  <2>. QED
    BY <1>3, <2>1, <2>2 DEF AdditionReady, HoldsTeams, Distinct, WordsOf
<1>7. LocksAreFree(r)
  BY <1>1, <1>3, <1>5 DEF LocksAreFree, SetupDiscipline, LocksAreOwn, HoldsTeams, HoldsCode
<1>8. CreationReady(r)'
  BY <1>3 DEF CreationReady, Creating
<1>. QED
  BY <1>2, <1>3, <1>4, <1>6, <1>7, <1>8, StatementKeeps

LEMMA CountTeamsKeeps ==
  ASSUME NEW r \in Requests, SetupDiscipline, CountTeams(r)
  PROVE  SetupDiscipline'
<1> DEFINE n == Cardinality(TeamsOf(call[r].competition))
           m == Cardinality(call[r].names)
<1>1. pc[r] = "count" /\ call[r].op = "teams"
  BY DEF CountTeams, At
<1>2. CASE n + m > MaxTeams
  <2>1. Answer(r, "refused")
    BY <1>2 DEF CountTeams
  <2>. QED
    BY <1>1, <2>1, AnswerKeeps
<1>3. CASE ~(n + m > MaxTeams)
  <2>1. Goto(r, "insert") /\ UNCHANGED <<rows, drawn, attempt>>
    BY <1>3 DEF CountTeams
  <2>2. n \in Nat /\ m \in Nat
    <3>1. call[r].names \in SUBSET Names
      BY <1>1, CallFields DEF SetupDiscipline, Fresh
    <3>. QED
      BY <3>1, FiniteTeams, FiniteNames
  <2>3. n + m <= MaxTeams
    BY <1>3, <2>2, SetupAssumption
  <2>. QED
    BY <1>1, <2>1, <2>3, UnderTheLock
<1>. QED
  BY <1>2, <1>3

LEMMA InsertTeamsKeeps ==
  ASSUME NEW r \in Requests, SetupDiscipline, InsertTeams(r)
  PROVE  SetupDiscipline'
<1> DEFINE a == call[r]
<1>1. pc[r] = "insert" /\ a.op = "teams"
  BY DEF InsertTeams, At
<1>2. CASE WordsOf(a.names) \cap Taken(a.competition, {}) # {}
  <2>1. Answer(r, "refused")
    BY <1>2 DEF InsertTeams
  <2>. QED
    BY <1>1, <2>1, AnswerKeeps
<1>3. CASE WordsOf(a.names) \cap Taken(a.competition, {}) = {}
  <2>1. Goto(r, "commit") /\ UNCHANGED <<rows, drawn, attempt>>
    BY <1>3 DEF InsertTeams
  <2>2. a.competition \in Ids /\ HoldsTeams(r, a.competition)
    BY <1>1, CallFields DEF SetupDiscipline, Fresh, HoldsTeams
  <2>3. Cardinality(TeamsOf(a.competition)) + Cardinality(a.names) <= MaxTeams
    BY <1>1, <2>2 DEF SetupDiscipline, AdditionReady
  <2>. QED
    BY <1>1, <1>3, <2>1, <2>3, UnderTheLock
<1>. QED
  BY <1>2, <1>3

-----------------------------------------------------------------------------
(* Statements that write rows. *)

\* The commit of a transaction that adds teams to a competition of its own, or to
\* one whose row it has locked.
LEMMA AddingKeeps ==
  ASSUME NEW r \in Requests, NEW c \in Ids, NEW names \in SUBSET Names,
         SetupDiscipline, pc[r] = "commit", team' = Added(r, c, names), Finish(r, "ok"),
         Cardinality(TeamsOf(c)) + Cardinality(names) <= MaxTeams,
         Distinct(names), WordsOf(names) \cap Taken(c, {}) = {},
         code' \in [Ids -> Codes \cup {None}], code'[c] # None,
         \A d \in Ids \ {c} : code'[d] = code[d] /\ code'[d] # code'[c],
         \A d \in Ids : code[d] # None => code'[d] = code[d],
         \A q \in Requests \ {r} :
           /\ ~HoldsTeams(q, c)
           /\ \A k \in Codes : HoldsCode(q, k) => code'[c] # k
           /\ pc[q] # "done" => q # c
  PROVE  SetupDiscipline'
<1>1. \A n \in Names : team[<<r, n>>] = None
  BY DEF SetupDiscipline, Fresh
<1>2. /\ team' \in [TeamIds -> TeamRow \cup {None}]
      /\ TeamsOf(c)' = TeamsOf(c) \cup ({r} \X names)
      /\ \A d \in Ids \ {c} : TeamsOf(d)' = TeamsOf(d)
      /\ \A n \in names : team'[<<r, n>>] = [competition |-> c, name |-> n]
      /\ \A i \in TeamIds : team[i] # None => team'[i] = team[i]
      /\ \A i \in TeamIds : team'[i] # None /\ team[i] = None => i \in {r} \X names
      /\ Cardinality(TeamsOf(c)') <= Cardinality(TeamsOf(c)) + Cardinality(names)
  BY <1>1, AddedTeams DEF SetupDiscipline
<1>3. TypeOK'
  BY <1>2 DEF SetupDiscipline, TypeOK, Finish
<1>4. Others(r) /\ pc'[r] = "done" /\ call'[r] = call[r]
  BY DEF Others, Finish, SetupDiscipline, TypeOK
<1>5. TeamLimit'
  <2>1. Cardinality(TeamsOf(c)') <= MaxTeams
    <3>1. /\ Cardinality(TeamsOf(c)) \in Nat /\ Cardinality(names) \in Nat
          /\ MaxTeams \in Nat /\ Cardinality(TeamsOf(c)') \in Int
      <4>1. IsFiniteSet({r} \X names)
        BY FiniteNames, FS_Singleton, FS_Product
      <4>2. IsFiniteSet(TeamsOf(c) \cup ({r} \X names))
        BY <4>1, FiniteTeams, FS_Union
      <4>3. IsFiniteSet(TeamsOf(c)')
        BY <1>2, <4>2
      <4>. QED
        BY <4>3, FiniteTeams, FiniteNames, SetupAssumption, FS_CardinalityType
    <3>. QED
      BY <1>2, <3>1
  <2>. QED
    BY <1>2, <2>1 DEF SetupDiscipline, TeamLimit
<1>6. RowsAgree'
  <2>1. ASSUME NEW i \in TeamIds, team'[i] # None
        PROVE  code'[team'[i].competition] # None
    <3>1. CASE team[i] # None
      <4>1. code[team[i].competition] # None /\ team[i].competition \in Ids
        BY <3>1 DEF SetupDiscipline, RowsAgree, TypeOK, TeamRow
      <4>. QED
        BY <1>2, <3>1, <4>1
    <3>2. CASE team[i] = None
      <4>1. PICK n \in names : i = <<r, n>>
        BY <1>2, <2>1, <3>2
      <4>2. team'[<<r, n>>] = [competition |-> c, name |-> n]
        BY <1>2
      <4>3. team'[i].competition = c
        BY <4>1, <4>2
      <4>. QED
        BY <4>3
    <3>. QED
      BY <3>1, <3>2
  <2>2. ASSUME NEW d \in Ids, NEW e \in Ids, code'[d] = code'[e], code'[d] # None
        PROVE  d = e
    BY <2>2 DEF SetupDiscipline, RowsAgree
  <2>3. ASSUME NEW d \in Ids, NEW i \in TeamsOf(d)', NEW j \in TeamsOf(d)',
               Normal[team'[i].name] = Normal[team'[j].name]
        PROVE  i = j
    <3>1. \A x \in TeamsOf(d) : x \in TeamIds /\ team[x] # None /\ team'[x] = team[x]
      BY <1>2 DEF TeamsOf
    <3>2. i \in TeamsOf(d) /\ j \in TeamsOf(d) => i = j
      BY <2>3, <3>1 DEF SetupDiscipline, RowsAgree
    <3>3. CASE d # c
      BY <1>2, <3>2, <3>3
    <3>4. CASE d = c
      <4>1. \A x \in {r} \X names : \E n \in names : x = <<r, n>> /\ team'[x].name = n
        <5> TAKE x \in {r} \X names
        <5>1. PICK n \in names : x = <<r, n>>
          OBVIOUS
        <5>2. team'[<<r, n>>] = [competition |-> c, name |-> n]
          BY <1>2
        <5>3. team'[x].name = n
          BY <5>1, <5>2
        <5>. QED
          BY <5>1, <5>3
      <4>2. \A x \in {r} \X names, y \in TeamsOf(c) :
              Normal[team'[x].name] # Normal[team'[y].name]
        <5>1. \A y \in TeamsOf(c) : Normal[team'[y].name] \in Taken(c, {})
          BY <3>1, <3>4 DEF Taken
        <5>2. \A x \in {r} \X names : Normal[team'[x].name] \in WordsOf(names)
          BY <4>1 DEF WordsOf
        <5>. QED
          BY <5>1, <5>2
      <4>3. \A x, y \in {r} \X names :
              Normal[team'[x].name] = Normal[team'[y].name] => x = y
        BY <4>1, FiniteNames
      <4>. QED
        BY <1>2, <2>3, <3>2, <3>4, <4>2, <4>3
    <3>. QED
      BY <3>3, <3>4
  <2>. QED
    BY <2>1, <2>2, <2>3 DEF RowsAgree
<1>7. ASSUME NEW q \in Requests \ {r}
      PROVE  /\ \A d \in Ids : HoldsTeams(q, d)' = HoldsTeams(q, d)
             /\ \A k \in Codes : HoldsCode(q, k)' = HoldsCode(q, k)
             /\ Fresh(q)' /\ CreationReady(q)' /\ AdditionReady(q)'
  <2>1. /\ pc'[q] = pc[q] /\ call'[q] = call[q]
        /\ drawn'[q] = drawn[q] /\ attempt'[q] = attempt[q]
    BY <1>4 DEF Others
  <2>2. /\ \A d \in Ids : HoldsTeams(q, d)' = HoldsTeams(q, d)
        /\ \A k \in Codes : HoldsCode(q, k)' = HoldsCode(q, k)
    BY <2>1 DEF HoldsTeams, HoldsCode
  <2>3. Fresh(q)'
    <3>1. ASSUME pc[q] # "done"
          PROVE  code'[q] = None /\ \A n \in Names : team'[<<q, n>>] = None
      <4>1. code[q] = None /\ q # c /\ q \in Ids /\ \A n \in Names : team[<<q, n>>] = None
        BY <3>1 DEF SetupDiscipline, Fresh, Ids
      <4>2. \A n \in Names : <<q, n>> \in TeamIds /\ <<q, n>> \notin {r} \X names
        BY DEF TeamIds
      <4>. QED
        BY <1>2, <4>1, <4>2
    <3>2. ASSUME pc[q] \notin {"idle", "done"}, call[q].op # "create"
          PROVE  code'[call[q].competition] # None
      <4>1. /\ code[call[q].competition] # None
            /\ call[q].competition \in Ids
        BY <3>2, CallFields DEF SetupDiscipline, Fresh
      <4>. QED
        BY <4>1
    <3>. QED
      BY <2>1, <3>1, <3>2 DEF SetupDiscipline, Fresh
  <2>4. CreationReady(q)'
    <3>1. ASSUME Creating(q), pc[q] \in {"initial", "commit"}, NEW d \in Ids
          PROVE  code'[d] # drawn[q]
      <4>1. drawn[q] \in Codes /\ HoldsCode(q, drawn[q]) /\ code[d] # drawn[q]
        BY <3>1 DEF SetupDiscipline, CreationReady, Creating, HoldsCode
      <4>. QED
        BY <4>1
    <3>. QED
      BY <2>1, <3>1 DEF SetupDiscipline, CreationReady, Creating, Distinct, WordsOf
  <2>5. AdditionReady(q)'
    <3>1. ASSUME NEW d \in Ids, HoldsTeams(q, d)
          PROVE  TeamsOf(d)' = TeamsOf(d) /\ Taken(d, {})' = Taken(d, {})
      <4>1. TeamsOf(d)' = TeamsOf(d) /\ \A i \in TeamsOf(d) : team'[i] = team[i]
        BY <1>2, <3>1 DEF TeamsOf
      <4>. QED
        BY <4>1 DEF Taken
    <3>. QED
      BY <2>1, <2>2, <3>1 DEF SetupDiscipline, AdditionReady, Distinct, WordsOf
  <2>. QED
    BY <2>2, <2>3, <2>4, <2>5
<1>8. Fresh(r)' /\ CreationReady(r)' /\ AdditionReady(r)' /\ LocksAreFree(r)
  BY <1>4 DEF SetupDiscipline, Fresh, CreationReady, Creating, AdditionReady, HoldsTeams,
              HoldsCode, LocksAreFree
<1>9. LocksAreOwn'
  BY <1>4, <1>7 DEF SetupDiscipline, LocksAreOwn, HoldsTeams, HoldsCode
<1>. QED
  BY <1>3, <1>5, <1>6, <1>7, <1>8, <1>9 DEF SetupDiscipline

LEMMA CommitCompetitionKeeps ==
  ASSUME NEW r \in Requests, SetupDiscipline, CommitCompetition(r)
  PROVE  SetupDiscipline'
<1> DEFINE names == call[r].names
<1>1. /\ pc[r] = "commit" /\ call[r].op = "create" /\ Creating(r) /\ r \in Ids
      /\ code' = [code EXCEPT ![r] = drawn[r]] /\ team' = Added(r, r, names)
      /\ Finish(r, "ok")
  BY DEF CommitCompetition, At, Creating, Ids
<1>2. /\ names \in SUBSET Names /\ Cardinality(names) <= MaxTeams /\ Distinct(names)
      /\ drawn[r] \in Codes /\ code[r] = None /\ HoldsCode(r, drawn[r])
      /\ \A d \in Ids : code[d] # drawn[r]
  BY <1>1, CallFields DEF SetupDiscipline, CreationReady, Fresh, HoldsCode
<1>3. drawn[r] # None /\ code \in [Ids -> Codes \cup {None}]
  BY <1>2, StartCodeAssumption DEF SetupDiscipline, TypeOK
<1>4. TeamsOf(r) = {} /\ Taken(r, {}) = {}
  <2>1. TeamsOf(r) = {}
    BY <1>2 DEF SetupDiscipline, RowsAgree, TeamsOf
  <2>. QED
    BY <2>1 DEF Taken
<1>5. Cardinality(TeamsOf(r)) + Cardinality(names) <= MaxTeams
  <2>1. Cardinality(TeamsOf(r)) = 0 /\ Cardinality(names) \in Nat
    BY <1>2, <1>4, FS_EmptySet, FiniteNames
  <2>. QED
    BY <1>2, <2>1
<1>6. ASSUME NEW q \in Requests \ {r}
      PROVE  ~HoldsTeams(q, r) /\ \A k \in Codes : HoldsCode(q, k) => drawn[r] # k
  BY <1>1, <1>2 DEF SetupDiscipline, Fresh, HoldsTeams, LocksAreOwn
<1>. QED
  BY <1>1, <1>2, <1>3, <1>4, <1>5, <1>6, AddingKeeps

LEMMA CommitTeamsKeeps ==
  ASSUME NEW r \in Requests, SetupDiscipline, CommitTeams(r)
  PROVE  SetupDiscipline'
<1> DEFINE c == call[r].competition
           names == call[r].names
<1>1. /\ pc[r] = "commit" /\ call[r].op = "teams"
      /\ team' = Added(r, c, names) /\ code' = code /\ Finish(r, "ok")
  BY DEF CommitTeams, At
<1>2. c \in Ids /\ names \in SUBSET Names /\ code[c] # None
  BY <1>1, CallFields DEF SetupDiscipline, Fresh
<1>3. /\ HoldsTeams(r, c) /\ Distinct(names) /\ WordsOf(names) \cap Taken(c, {}) = {}
      /\ Cardinality(TeamsOf(c)) + Cardinality(names) <= MaxTeams
  BY <1>1, <1>2 DEF SetupDiscipline, AdditionReady, HoldsTeams
<1>4. ASSUME NEW q \in Requests \ {r}
      PROVE  /\ ~HoldsTeams(q, c)
             /\ \A k \in Codes : HoldsCode(q, k) => code[c] # k
             /\ pc[q] # "done" => q # c
  <2>1. ~HoldsTeams(q, c)
    BY <1>2, <1>3 DEF SetupDiscipline, LocksAreOwn
  <2>2. \A k \in Codes : HoldsCode(q, k) => code[c] # k
    BY <1>2 DEF SetupDiscipline, CreationReady, Creating, HoldsCode
  <2>3. pc[q] # "done" => q # c
    BY <1>2 DEF SetupDiscipline, Fresh
  <2>. QED
    BY <2>1, <2>2, <2>3
<1>5. \A d \in Ids \ {c} : code[d] # code[c]
  BY <1>2 DEF SetupDiscipline, RowsAgree
<1>. QED
  BY <1>1, <1>2, <1>3, <1>4, <1>5, AddingKeeps DEF SetupDiscipline, TypeOK

LEMMA RenamingKeeps ==
  ASSUME NEW r \in Requests, NEW c \in Ids, NEW t \in TeamsOf(c), NEW n \in Names,
         SetupDiscipline, pc[r] = "start", team' = [team EXCEPT ![t].name = n],
         UNCHANGED code, Finish(r, "ok"),
         Normal[n] \notin Taken(c, {t}),
         \A q \in Requests : ~HoldsName(q, c, Normal[n])
  PROVE  SetupDiscipline'
<1>1. /\ t \in TeamIds /\ team[t] \in TeamRow /\ team[t].competition = c
      /\ team \in [TeamIds -> TeamRow \cup {None}] /\ None \notin TeamRow
  BY NoRowAssumption DEF TeamsOf, SetupDiscipline, TypeOK
<1>2. /\ team'[t] \in TeamRow /\ team'[t].competition = c /\ team'[t].name = n
      /\ \A i \in TeamIds \ {t} : team'[i] = team[i]
  BY <1>1 DEF TeamRow
<1>3. team' \in [TeamIds -> TeamRow \cup {None}]
  BY <1>1, <1>2
<1>4. TypeOK'
  BY <1>3 DEF SetupDiscipline, TypeOK, Finish
<1>5. ASSUME NEW d \in Ids, NEW i \in TeamIds
      PROVE  i \in TeamsOf(d)' <=> i \in TeamsOf(d)
  BY <1>1, <1>2 DEF TeamsOf
<1>6. \A d \in Ids : TeamsOf(d)' = TeamsOf(d)
  <2>1. \A d \in Ids : TeamsOf(d)' \subseteq TeamIds /\ TeamsOf(d) \subseteq TeamIds
    BY DEF TeamsOf
  <2>. QED
    BY <1>5, <2>1
<1>7. \A d \in Ids : Taken(d, {})' \subseteq Taken(d, {}) \cup (IF d = c THEN {Normal[n]} ELSE {})
  <2> TAKE d \in Ids
  <2>1. \A i \in TeamsOf(d) : /\ d # c => i # t
                              /\ Normal[team'[i].name] =
                                   IF i = t THEN Normal[n] ELSE Normal[team[i].name]
    BY <1>1, <1>2 DEF TeamsOf
  <2>2. ASSUME NEW w \in Taken(d, {})'
        PROVE  w \in Taken(d, {}) \/ (d = c /\ w = Normal[n])
    <3>1. PICK i \in TeamsOf(d) : w = Normal[team'[i].name]
      BY <1>6, <2>2 DEF Taken
    <3>2. CASE i = t
      <4>1. w = Normal[n]
        BY <1>2, <3>1, <3>2
      <4>2. d = c
        BY <2>1, <3>2
      <4>. QED
        BY <4>1, <4>2
    <3>3. CASE i # t
      BY <2>1, <3>1, <3>3 DEF Taken
    <3>. QED
      BY <3>2, <3>3
  <2>. QED
    BY <2>2
<1>8. TeamLimit' /\ RowsAgree'
  <2>1. TeamLimit'
    BY <1>6 DEF SetupDiscipline, TeamLimit
  <2>2. ASSUME NEW i \in TeamIds, team'[i] # None
        PROVE  code[team'[i].competition] # None
    BY <1>1, <1>2, <2>2 DEF SetupDiscipline, RowsAgree
  <2>3. ASSUME NEW d \in Ids, NEW i \in TeamsOf(d), NEW j \in TeamsOf(d),
               Normal[team'[i].name] = Normal[team'[j].name]
        PROVE  i = j
    <3>1. \A x \in TeamsOf(d) \ {t} : x \in TeamIds /\ team'[x] = team[x]
      BY <1>2 DEF TeamsOf
    <3>2. CASE i # t /\ j # t
      BY <2>3, <3>1, <3>2 DEF SetupDiscipline, RowsAgree
    <3>3. ASSUME NEW x \in TeamsOf(d) \ {t}, t \in TeamsOf(d)
          PROVE  Normal[team[x].name] # Normal[n]
      <4>1. d = c
        BY <1>1, <3>3 DEF TeamsOf
      <4>. QED
        BY <4>1 DEF Taken
    <3>. QED
      BY <1>2, <2>3, <3>1, <3>2, <3>3
  <2>4. RowsAgree'
    BY <1>6, <2>2, <2>3 DEF SetupDiscipline, RowsAgree
  <2>. QED
    BY <2>1, <2>4
<1>9. Others(r) /\ pc'[r] = "done" /\ call'[r] = call[r]
  BY DEF Others, Finish, SetupDiscipline, TypeOK
<1>10. ASSUME NEW q \in Requests \ {r}
       PROVE  /\ \A d \in Ids : HoldsTeams(q, d)' = HoldsTeams(q, d)
              /\ \A k \in Codes : HoldsCode(q, k)' = HoldsCode(q, k)
              /\ Fresh(q)' /\ CreationReady(q)' /\ AdditionReady(q)'
  <2>1. /\ pc'[q] = pc[q] /\ call'[q] = call[q]
        /\ drawn'[q] = drawn[q] /\ attempt'[q] = attempt[q]
    BY <1>9 DEF Others
  <2>2. /\ \A d \in Ids : HoldsTeams(q, d)' = HoldsTeams(q, d)
        /\ \A k \in Codes : HoldsCode(q, k)' = HoldsCode(q, k)
    BY <2>1 DEF HoldsTeams, HoldsCode
  <2>3. Fresh(q)'
    <3>1. ASSUME pc[q] # "done", NEW m \in Names
          PROVE  team'[<<q, m>>] = None
      <4>1. team[<<q, m>>] = None /\ <<q, m>> \in TeamIds
        BY <3>1 DEF SetupDiscipline, Fresh, TeamIds
      <4>2. <<q, m>> # t
        BY <1>1, <4>1
      <4>. QED
        BY <1>2, <4>1, <4>2
    <3>. QED
      BY <2>1, <3>1 DEF SetupDiscipline, Fresh
  <2>4. CreationReady(q)'
    BY <2>1 DEF SetupDiscipline, CreationReady, Creating, Distinct, WordsOf
  <2>5. AdditionReady(q)'
    <3>1. ASSUME NEW d \in Ids, HoldsTeams(q, d), pc[q] = "commit"
          PROVE  WordsOf(call[q].names) \cap Taken(d, {})' = {}
      <4>1. WordsOf(call[q].names) \cap Taken(d, {}) = {}
        BY <3>1 DEF SetupDiscipline, AdditionReady
      <4>2. d = c => Normal[n] \notin WordsOf(call[q].names)
        BY <3>1 DEF HoldsName
      <4>. QED
        BY <1>7, <4>1, <4>2
    <3>2. \A d \in Ids : TeamsOf(d)' = TeamsOf(d)
      BY <1>6
    <3>. QED
      BY <2>1, <2>2, <3>1, <3>2 DEF SetupDiscipline, AdditionReady, Distinct, WordsOf
  <2>. QED
    BY <2>2, <2>3, <2>4, <2>5
<1>11. Fresh(r)' /\ CreationReady(r)' /\ AdditionReady(r)'
  BY <1>9 DEF SetupDiscipline, Fresh, CreationReady, Creating, AdditionReady, HoldsTeams
<1>12. LocksAreOwn'
  BY <1>9, <1>10 DEF SetupDiscipline, LocksAreOwn, HoldsTeams, HoldsCode
<1>. QED
  BY <1>4, <1>8, <1>10, <1>11, <1>12 DEF SetupDiscipline

LEMMA EditTeamKeeps ==
  ASSUME NEW r \in Requests, SetupDiscipline, EditTeam(r)
  PROVE  SetupDiscipline'
<1> DEFINE a == call[r]
           possible == /\ a.team \in TeamsOf(a.competition)
                       /\ Normal[a.name] \notin Taken(a.competition, {a.team})
<1>1. /\ pc[r] = "start" /\ a.op = "edit"
      /\ \A q \in Requests : ~HoldsName(q, a.competition, Normal[a.name])
  BY DEF EditTeam, At
<1>2. a.competition \in Ids /\ a.name \in Names
  BY <1>1, CallFields DEF SetupDiscipline, Fresh
<1>3. CASE possible
  <2>1. team' = [team EXCEPT ![a.team].name = a.name] /\ UNCHANGED code /\ Finish(r, "ok")
    BY <1>3 DEF EditTeam
  <2>. QED
    BY <1>1, <1>2, <1>3, <2>1, RenamingKeeps
<1>4. CASE ~possible
  <2>1. Answer(r, "refused")
    BY <1>4 DEF EditTeam
  <2>. QED
    BY <1>1, <2>1, AnswerKeeps
<1>. QED
  BY <1>3, <1>4

-----------------------------------------------------------------------------
(* Every step. *)

LEMMA InitDiscipline == Init => SetupDiscipline
<1> SUFFICES ASSUME Init PROVE SetupDiscipline
  OBVIOUS
<1> USE DEF Init
<1>1. /\ \A c \in Existing : code[c] = StartCode[c] /\ StartCode[c] \in Codes
      /\ \A r \in Requests : r \notin Existing /\ code[r] = None
  BY StartCodeAssumption DEF Ids
<1>2. TypeOK
  BY SetupAssumption, StartCodeAssumption DEF TypeOK
<1>3. \A c : TeamsOf(c) = {}
  BY DEF TeamsOf
<1>4. TeamLimit
  <2>1. \A c \in Ids : Cardinality(TeamsOf(c)) = 0
    BY <1>3, FS_EmptySet
  <2>2. MaxTeams \in Nat
    BY SetupAssumption
  <2> HIDE DEF Init
  <2>. QED
    BY <2>1, <2>2 DEF TeamLimit
<1>5. RowsAgree
  BY <1>1, <1>3, StartCodeAssumption DEF RowsAgree, Ids
<1>6. \A r \in Requests : Fresh(r)
  BY <1>1 DEF Fresh, TeamIds
<1>7. LocksAreOwn /\ \A r \in Requests : CreationReady(r) /\ AdditionReady(r)
  BY DEF LocksAreOwn, HoldsTeams, HoldsCode, CreationReady, Creating, AdditionReady
<1>. QED
  BY <1>2, <1>4, <1>5, <1>6, <1>7 DEF SetupDiscipline

LEMMA NextDiscipline ==
  ASSUME SetupDiscipline, [Next]_vars
  PROVE  SetupDiscipline'
<1>1. ASSUME NEW r \in Requests, NEW a \in Calls, Arrive(r, a) PROVE SetupDiscipline'
  BY <1>1, ArriveKeeps
<1>2. ASSUME NEW r \in Requests, CreateCompetition(r) PROVE SetupDiscipline'
  BY <1>2, CheckConfigKeeps, DrawCodeKeeps, InsertCompetitionKeeps, InitialTeamsKeeps,
     CommitCompetitionKeeps DEF CreateCompetition
<1>3. ASSUME NEW r \in Requests, CreateTeams(r) PROVE SetupDiscipline'
  BY <1>3, LockCompetitionKeeps, CountTeamsKeeps, InsertTeamsKeeps, CommitTeamsKeeps
     DEF CreateTeams
<1>4. ASSUME NEW r \in Requests, EditTeam(r) PROVE SetupDiscipline'
  BY <1>4, EditTeamKeeps
<1>5. ASSUME NEW r \in Requests, Abort(r) PROVE SetupDiscipline'
  BY <1>5, AnswerKeeps DEF Abort, At
<1>6. CASE UNCHANGED vars
  <2>1. TypeOK' /\ TeamLimit' /\ RowsAgree' /\ LocksAreOwn'
    BY <1>6 DEF SetupDiscipline, vars, rows, session, TypeOK, TeamLimit, RowsAgree, TeamsOf,
                LocksAreOwn, HoldsTeams, HoldsCode
  <2>2. ASSUME NEW r \in Requests
        PROVE  Fresh(r)' /\ CreationReady(r)' /\ AdditionReady(r)'
    <3>1. Fresh(r)' /\ CreationReady(r)'
      BY <1>6 DEF SetupDiscipline, vars, rows, session, Fresh, CreationReady, Creating,
                  Distinct, WordsOf
    <3>2. \A c \in Ids : /\ TeamsOf(c)' = TeamsOf(c) /\ Taken(c, {})' = Taken(c, {})
                         /\ HoldsTeams(r, c)' = HoldsTeams(r, c)
      BY <1>6 DEF vars, rows, session, TeamsOf, Taken, HoldsTeams
    <3>3. AdditionReady(r)'
      BY <1>6, <3>2 DEF SetupDiscipline, vars, rows, session, AdditionReady, Distinct, WordsOf
    <3>. QED
      BY <3>1, <3>3
  <2>. QED
    BY <2>1, <2>2 DEF SetupDiscipline
<1>. QED
  BY <1>1, <1>2, <1>3, <1>4, <1>5, <1>6 DEF Next, Step, Quiet

\* What each open transaction of Setup knows is kept true by the locks it holds: its
\* code and names are still free, and its count of teams still leaves room.
THEOREM DisciplineIsKept == Spec => []SetupDiscipline
BY InitDiscipline, NextDiscipline, PTL DEF Spec

\* Competitions, teams and the sessions of the requests stay well typed; no creation
\* draws more than MaxAttempts codes (createCompetition, createTeams, editTeam).
THEOREM TypeCorrect == Spec => []TypeOK
<1>1. SetupDiscipline => TypeOK
  BY DEF SetupDiscipline
<1>. QED
  BY <1>1, DisciplineIsKept, PTL

\* However many requests add teams at once, no competition gets more than MaxTeams:
\* the count of createTeams is still true at its commit, because the row of the
\* competition is locked, and editTeam adds none.
THEOREM TeamsStayWithinLimit == Spec => []TeamLimit
<1>1. SetupDiscipline => TeamLimit
  BY DEF SetupDiscipline
<1>. QED
  BY <1>1, DisciplineIsKept, PTL

-----------------------------------------------------------------------------
(* Refusals. *)

\* Request r is answered with a refusal by this step.
Refuses(r) == reply[r] = None /\ reply'[r] = "refused"

LEMMA OnlyOwnRefusal ==
  ASSUME SetupDiscipline, NEW q \in Requests, Step(q) \/ Abort(q),
         NEW r \in Requests, Refuses(r)
  PROVE  r = q /\ Step(r)
<1>1. ASSUME r # q PROVE reply'[r] = reply[r]
  BY <1>1 DEF SetupDiscipline, TypeOK, Step, Abort, CreateCompetition, CheckConfig, DrawCode,
     InsertCompetition, InitialTeams, CommitCompetition, CreateTeams, LockCompetition,
     CountTeams, InsertTeams, CommitTeams, EditTeam, Goto, Answer, Finish
<1>2. r = q
  BY <1>1, NoReplyAssumption DEF Refuses
<1>3. ~Abort(r)
  BY DEF Abort, Answer, Finish, Refuses, SetupDiscipline, TypeOK
<1>. QED
  BY <1>2, <1>3

LEMMA CreationRefusesJustly ==
  ASSUME SetupDiscipline, NEW r \in Requests, CreateCompetition(r), Refuses(r)
  PROVE  ~Allowed(call[r])
<1>1. CheckConfig(r)
  BY NoReplyAssumption DEF CreateCompetition, DrawCode, InsertCompetition, InitialTeams,
     CommitCompetition, Goto, Answer, Finish, Refuses, SetupDiscipline, TypeOK
<1>2. ~(Cardinality(call[r].names) <= MaxTeams /\ Distinct(call[r].names))
  BY <1>1, NoReplyAssumption DEF CheckConfig, Goto, Refuses
<1>3. call[r].op = "create"
  BY <1>1 DEF CheckConfig, At
<1>. QED
  BY <1>2, <1>3 DEF Allowed

LEMMA AdditionRefusesJustly ==
  ASSUME SetupDiscipline, NEW r \in Requests, CreateTeams(r), Refuses(r)
  PROVE  ~Allowed(call[r])
<1> DEFINE a == call[r]
<1>1. a.op = "teams"
  BY DEF CreateTeams, LockCompetition, CountTeams, InsertTeams, CommitTeams, At
<1>2. a \in Calls
  BY <1>1, CallFields DEF SetupDiscipline, Fresh, TypeOK, CreateTeams, LockCompetition,
     CountTeams, InsertTeams, CommitTeams, At
<1>3. /\ Cardinality(TeamsOf(a.competition)) \in Nat
      /\ Cardinality(a.names) \in Nat
  BY <1>1, <1>2, CallFields, FiniteTeams, FiniteNames
<1>4. \/ ~Distinct(a.names)
      \/ Cardinality(TeamsOf(a.competition)) + Cardinality(a.names) > MaxTeams
      \/ WordsOf(a.names) \cap Taken(a.competition, {}) # {}
  BY NoReplyAssumption DEF CreateTeams, LockCompetition, CountTeams, InsertTeams, CommitTeams,
     Goto, Answer, Finish, Refuses, SetupDiscipline, TypeOK
<1>. QED
  BY <1>1, <1>3, <1>4, SetupAssumption DEF Allowed

LEMMA EditRefusesJustly ==
  ASSUME SetupDiscipline, NEW r \in Requests, EditTeam(r), Refuses(r)
  PROVE  ~Allowed(call[r])
<1>1. call[r].op = "edit"
  BY DEF EditTeam, At
<1>2. ~(/\ call[r].team \in TeamsOf(call[r].competition)
        /\ Normal[call[r].name] \notin Taken(call[r].competition, {call[r].team}))
  BY NoReplyAssumption DEF EditTeam, Finish, Answer, Refuses, SetupDiscipline, TypeOK
<1>. QED
  BY <1>1, <1>2 DEF Allowed

LEMMA NextRefusesJustly ==
  ASSUME SetupDiscipline, Next, NEW r \in Requests, Refuses(r)
  PROVE  ~Allowed(call[r])
<1>1. ASSUME NEW q \in Requests, NEW a \in Calls, Arrive(q, a) PROVE FALSE
  BY <1>1, NoReplyAssumption DEF Arrive, Refuses
<1>2. ASSUME Quiet PROVE FALSE
  BY <1>2, NoReplyAssumption DEF Quiet, vars, session, Refuses
<1>3. PICK q \in Requests : Step(q) \/ Abort(q)
  BY <1>1, <1>2 DEF Next
<1>4. Step(r)
  BY <1>3, OnlyOwnRefusal
<1>. QED
  BY <1>4, CreationRefusesJustly, AdditionRefusesJustly, EditRefusesJustly DEF Step

\* Whatever other transactions are half way through adding, a creation, an addition or an
\* edit is refused only when the committed rows forbid it at that moment: the limit can
\* be reached exactly, and a name that is never committed refuses nobody.
THEOREM RefusalsAreJust == Spec => RefusalsJustified
<1>1. SetupDiscipline /\ [Next]_vars
        => [\A r \in Requests :
              reply[r] = None /\ reply'[r] = "refused" => ~Allowed(call[r])]_vars
  BY NextRefusesJustly DEF Refuses
<1>. QED
  BY <1>1, DisciplineIsKept, PTL DEF Spec, RefusalsJustified

-----------------------------------------------------------------------------
(* The statements implement the sheet of teams. *)

\* The sheet of the state: names are distinct, so each is used once or not at all.
SheetNow == [c \in Ids |-> [w \in Words |-> IF w \in Taken(c, {}) THEN 1 ELSE 0]]

LEMMA TakenWords ==
  ASSUME TypeOK, NEW c \in Ids
  PROVE  /\ Taken(c, {}) \subseteq Words
         /\ \A i \in TeamsOf(c) : team[i].name \in Names
BY DEF TypeOK, TeamRow, TeamsOf, Taken, Words

LEMMA SheetsAreNow ==
  ASSUME TypeOK, RowsAgree
  PROVE  Sheets = SheetNow
<1>1. ASSUME NEW c \in Ids, NEW w \in Words
      PROVE  Cardinality(NamedSo(c, w)) = IF w \in Taken(c, {}) THEN 1 ELSE 0
  <2>1. CASE w \notin Taken(c, {})
    <3>1. NamedSo(c, w) = {}
      BY <2>1 DEF NamedSo, Taken
    <3>. QED
      BY <2>1, <3>1, FS_EmptySet
  <2>2. CASE w \in Taken(c, {})
    <3>1. PICK i \in TeamsOf(c) : w = Normal[team[i].name]
      BY <2>2 DEF Taken
    <3>2. NamedSo(c, w) = {i}
      BY <3>1 DEF NamedSo, RowsAgree
    <3>. QED
      BY <2>2, <3>2, FS_Singleton
  <2>. QED
    BY <2>1, <2>2
<1>. QED
  BY <1>1 DEF Sheets, SheetNow

LEMMA SheetsAreNowNext == (TypeOK /\ RowsAgree => Sheets = SheetNow)'
<1>1. TypeOK /\ RowsAgree => Sheets = SheetNow
  BY SheetsAreNow
<1>. QED
  BY <1>1, PTL

LEMMA UsedWords ==
  ASSUME TypeOK, RowsAgree, NEW c \in Ids
  PROVE  Sheet!Used(c) = Taken(c, {})
<1>1. Sheets[c] = [w \in Words |-> IF w \in Taken(c, {}) THEN 1 ELSE 0]
  BY SheetsAreNow DEF SheetNow
<1>2. Sheet!Used(c) = {w \in Words : Sheets[c][w] > 0}
  BY DEF Sheet!Used, Sheets
<1>3. \A w \in Words : Sheets[c][w] > 0 <=> w \in Taken(c, {})
  BY <1>1
<1>. QED
  BY <1>2, <1>3, TakenWords

\* A step that gives one competition these names and leaves the others theirs.
LEMMA SheetWrite ==
  ASSUME TypeOK, RowsAgree, TypeOK', RowsAgree', NEW c \in Ids, NEW used \in SUBSET Words,
         Taken(c, {})' = used, \A d \in Ids \ {c} : Taken(d, {})' = Taken(d, {})
  PROVE  Sheet!Write(c, used)
<1>1. Sheets = SheetNow /\ Sheets' = SheetNow'
  BY SheetsAreNow, SheetsAreNowNext
<1>2. SheetNow' = [SheetNow EXCEPT ![c] = [w \in Words |-> IF w \in used THEN 1 ELSE 0]]
  <2> DEFINE names == [d \in Ids |-> Taken(d, {})]
  <2>1. names' = [names EXCEPT ![c] = used]
    OBVIOUS
  <2>2. /\ SheetNow = [d \in Ids |-> [w \in Words |-> IF w \in names[d] THEN 1 ELSE 0]]
        /\ SheetNow' = [d \in Ids |-> [w \in Words |-> IF w \in names'[d] THEN 1 ELSE 0]]
    BY DEF SheetNow
  <2>3. names = [d \in Ids |-> names[d]]
    OBVIOUS
  <2> HIDE DEF names
  <2>. QED
    BY <2>1, <2>2, <2>3
<1>3. Sheets' = [Sheets EXCEPT ![c] = [w \in Words |-> IF w \in used THEN 1 ELSE 0]]
  BY <1>1, <1>2
<1>. QED
  BY <1>3 DEF Sheet!Write, Sheets

LEMMA TakenIsSmall ==
  ASSUME NEW c \in Ids
  PROVE  /\ Cardinality(Taken(c, {})) \in Nat
         /\ Cardinality(Taken(c, {})) <= Cardinality(TeamsOf(c))
<1> DEFINE f == [i \in TeamsOf(c) |-> Normal[team[i].name]]
<1>1. f \in Surjection(TeamsOf(c), Taken(c, {}))
  BY DEF Surjection, Taken
<1>2. IsFiniteSet(Taken(c, {})) /\ Cardinality(Taken(c, {})) <= Cardinality(TeamsOf(c))
  BY <1>1, FiniteTeams, FS_Surjection
<1>. QED
  BY <1>2, FS_CardinalityType

LEMMA AddedWords ==
  ASSUME NEW r \in Requests, NEW c \in Ids, NEW names \in SUBSET Names,
         TypeOK, \A n \in Names : team[<<r, n>>] = None,
         team' = Added(r, c, names)
  PROVE  /\ Taken(c, {})' = Taken(c, {}) \cup WordsOf(names)
         /\ \A d \in Ids \ {c} : Taken(d, {})' = Taken(d, {})
<1>1. /\ TeamsOf(c)' = TeamsOf(c) \cup ({r} \X names)
      /\ \A d \in Ids \ {c} : TeamsOf(d)' = TeamsOf(d)
  BY AddedTeams
<1>2. \A d \in Ids : \A i \in TeamsOf(d) : team'[i] = team[i]
  <2>1. \A d \in Ids : \A i \in TeamsOf(d) : i \in TeamIds /\ team[i] # None
    BY DEF TeamsOf
  <2>. QED
    BY <2>1, AddedTeams
<1>3. \A n \in names : team'[<<r, n>>] = [competition |-> c, name |-> n]
  BY AddedTeams
<1>4. \A n \in names : team'[<<r, n>>].name = n
  <2> TAKE n \in names
  <2>1. team'[<<r, n>>] = [competition |-> c, name |-> n]
    BY <1>3
  <2>. QED
    BY <2>1
<1>5. ASSUME NEW w
      PROVE  w \in Taken(c, {})' <=> w \in Taken(c, {}) \cup WordsOf(names)
  <2>1. ASSUME w \in Taken(c, {})'
        PROVE  w \in Taken(c, {}) \cup WordsOf(names)
    <3>1. PICK i \in TeamsOf(c) \cup ({r} \X names) : w = Normal[team'[i].name]
      BY <1>1, <2>1 DEF Taken
    <3>2. CASE i \in TeamsOf(c)
      BY <1>2, <3>1, <3>2 DEF Taken
    <3>3. CASE i \in {r} \X names
      <4>1. PICK n \in names : i = <<r, n>>
        BY <3>3
      <4>. QED
        BY <1>4, <3>1, <4>1 DEF WordsOf
    <3>. QED
      BY <3>1, <3>2, <3>3
  <2>2. ASSUME w \in Taken(c, {}) PROVE w \in Taken(c, {})'
    <3>1. PICK i \in TeamsOf(c) : w = Normal[team[i].name]
      BY <2>2 DEF Taken
    <3>2. i \in TeamsOf(c)' /\ team'[i] = team[i]
      BY <1>1, <1>2
    <3>. QED
      BY <3>1, <3>2 DEF Taken
  <2>3. ASSUME w \in WordsOf(names) PROVE w \in Taken(c, {})'
    <3>1. PICK n \in names : w = Normal[n]
      BY <2>3 DEF WordsOf
    <3>2. <<r, n>> \in TeamsOf(c)' /\ team'[<<r, n>>].name = n
      BY <1>1, <1>4
    <3>. QED
      BY <3>1, <3>2 DEF Taken
  <2>. QED
    BY <2>1, <2>2, <2>3
<1>6. ASSUME NEW d \in Ids \ {c} PROVE Taken(d, {})' = Taken(d, {})
  BY <1>1, <1>2 DEF Taken
<1>. QED
  BY <1>5, <1>6

SheetStep == Sheet!Next \/ UNCHANGED <<code, Sheets>>

LEMMA SameCardinality == \A S : Sheet!Cardinality(S) = Cardinality(S)
BY DEF Cardinality, Sheet!Cardinality

LEMMA RowsStutter ==
  ASSUME UNCHANGED rows
  PROVE  SheetStep
BY DEF SheetStep, rows, Sheets, NamedSo, TeamsOf

LEMMA WordsFacts ==
  ASSUME NEW names \in SUBSET Names
  PROVE  WordsOf(names) \in SUBSET Words
BY DEF WordsOf, Words

LEMMA CreationMaps ==
  ASSUME NEW r \in Requests, NEW k \in Codes, NEW names \in SUBSET Names,
         SetupDiscipline, SetupDiscipline', code[r] = None,
         Cardinality(names) <= MaxTeams, Distinct(names),
         \A d \in Ids : code[d] # k, \A n \in Names : team[<<r, n>>] = None,
         code' = [code EXCEPT ![r] = k], team' = Added(r, r, names)
  PROVE  SheetStep
<1>1. r \in Ids /\ WordsOf(names) \in SUBSET Words
  BY WordsFacts DEF Ids
<1>2. Cardinality(WordsOf(names)) <= MaxTeams
  BY DEF Distinct
<1>3. Taken(r, {}) = {}
  BY DEF SetupDiscipline, RowsAgree, TeamsOf, Taken
<1>4. Taken(r, {})' = WordsOf(names) /\ \A d \in Ids \ {r} : Taken(d, {})' = Taken(d, {})
  BY <1>1, <1>3, AddedWords DEF SetupDiscipline
<1>5. Sheet!Write(r, WordsOf(names))
  BY <1>1, <1>4, SheetWrite DEF SetupDiscipline
<1>6. Sheet!Create(r, k, WordsOf(names))
  BY <1>2, <1>5, SameCardinality DEF Sheet!Create
<1>. QED
  BY <1>1, <1>6 DEF SheetStep, Sheet!Next

LEMMA CommitCompetitionMaps ==
  ASSUME NEW r \in Requests, SetupDiscipline, SetupDiscipline', CommitCompetition(r)
  PROVE  SheetStep
<1> DEFINE names == call[r].names
<1>1. /\ pc[r] = "commit" /\ call[r].op = "create" /\ Creating(r)
      /\ code' = [code EXCEPT ![r] = drawn[r]] /\ team' = Added(r, r, names)
  BY DEF CommitCompetition, At, Creating
<1>2. /\ names \in SUBSET Names /\ Cardinality(names) <= MaxTeams /\ Distinct(names)
      /\ drawn[r] \in Codes /\ code[r] = None
      /\ \A d \in Ids : code[d] # drawn[r]
      /\ \A n \in Names : team[<<r, n>>] = None
  BY <1>1, CallFields DEF SetupDiscipline, CreationReady, Fresh
<1>. QED
  BY <1>1, <1>2, CreationMaps

LEMMA AdditionMaps ==
  ASSUME NEW r \in Requests, NEW c \in Ids, NEW names \in SUBSET Names,
         SetupDiscipline, SetupDiscipline', code[c] # None,
         Distinct(names), WordsOf(names) \cap Taken(c, {}) = {},
         Cardinality(TeamsOf(c)) + Cardinality(names) <= MaxTeams,
         \A n \in Names : team[<<r, n>>] = None,
         code' = code, team' = Added(r, c, names)
  PROVE  SheetStep
<1> DEFINE words == WordsOf(names)
<1>1. Sheet!Used(c) = Taken(c, {}) /\ Taken(c, {}) \subseteq Words /\ words \in SUBSET Words
  BY UsedWords, TakenWords, WordsFacts DEF SetupDiscipline
<1>2. Cardinality(Taken(c, {})) + Cardinality(words) <= MaxTeams
  <2>1. /\ Cardinality(words) \in Nat /\ Cardinality(names) \in Nat
        /\ Cardinality(words) <= Cardinality(names)
    BY FiniteNames
  <2>2. /\ Cardinality(Taken(c, {})) \in Nat /\ Cardinality(TeamsOf(c)) \in Nat
        /\ Cardinality(Taken(c, {})) <= Cardinality(TeamsOf(c))
    BY TakenIsSmall, FiniteTeams
  <2>. QED
    BY <2>1, <2>2, SetupAssumption
<1>3. /\ Taken(c, {})' = Taken(c, {}) \cup words
      /\ \A d \in Ids \ {c} : Taken(d, {})' = Taken(d, {})
  BY AddedWords DEF SetupDiscipline
<1> DEFINE used == Taken(c, {}) \cup words
<1>4. ASSUME NEW u \in SUBSET Words, Taken(c, {})' = u PROVE Sheet!Write(c, u)
  BY <1>3, <1>4, SheetWrite DEF SetupDiscipline
<1>5. Sheet!Write(c, Sheet!Used(c) \cup words)
  BY <1>1, <1>3, <1>4
<1>6. Sheet!Add(c, words)
  BY <1>1, <1>2, <1>5, SameCardinality DEF Sheet!Add
<1>. QED
  BY <1>1, <1>6 DEF SheetStep, Sheet!Next

LEMMA CommitTeamsMaps ==
  ASSUME NEW r \in Requests, SetupDiscipline, SetupDiscipline', CommitTeams(r)
  PROVE  SheetStep
<1> DEFINE c == call[r].competition
           names == call[r].names
<1>1. /\ pc[r] = "commit" /\ call[r].op = "teams" /\ team' = Added(r, c, names) /\ code' = code
  BY DEF CommitTeams, At
<1>2. /\ c \in Ids /\ names \in SUBSET Names /\ code[c] # None
      /\ \A n \in Names : team[<<r, n>>] = None
  BY <1>1, CallFields DEF SetupDiscipline, Fresh
<1>3. /\ Distinct(names) /\ WordsOf(names) \cap Taken(c, {}) = {}
      /\ Cardinality(TeamsOf(c)) + Cardinality(names) <= MaxTeams
  BY <1>1, <1>2 DEF SetupDiscipline, AdditionReady, HoldsTeams
<1>. QED
  BY <1>1, <1>2, <1>3, AdditionMaps

LEMMA RenamingMaps ==
  ASSUME NEW c \in Ids, NEW t \in TeamsOf(c), NEW n \in Names,
         SetupDiscipline, SetupDiscipline',
         team' = [team EXCEPT ![t].name = n], UNCHANGED code,
         Normal[n] \notin Taken(c, {t})
  PROVE  SheetStep
<1> DEFINE old == Normal[team[t].name]
           new == Normal[n]
<1>1. /\ t \in TeamIds /\ team[t] \in TeamRow /\ team[t].competition = c
      /\ team \in [TeamIds -> TeamRow \cup {None}] /\ None \notin TeamRow
  BY NoRowAssumption DEF TeamsOf, SetupDiscipline, TypeOK
<1>2. /\ team'[t] \in TeamRow /\ team'[t].competition = c /\ team'[t].name = n
      /\ \A i \in TeamIds \ {t} : team'[i] = team[i]
  BY <1>1 DEF TeamRow
<1>3. \A d \in Ids : TeamsOf(d)' = TeamsOf(d)
  <2>1. ASSUME NEW d \in Ids, NEW i \in TeamIds
        PROVE  i \in TeamsOf(d)' <=> i \in TeamsOf(d)
    BY <1>1, <1>2 DEF TeamsOf
  <2>2. \A d \in Ids : TeamsOf(d)' \subseteq TeamIds /\ TeamsOf(d) \subseteq TeamIds
    BY DEF TeamsOf
  <2>. QED
    BY <2>1, <2>2
<1>4. /\ Taken(c, {}) = Taken(c, {t}) \cup {old}
      /\ Taken(c, {})' = Taken(c, {t}) \cup {new}
  <2>1. \A i \in TeamsOf(c) \ {t} : team'[i] = team[i]
    BY <1>2 DEF TeamsOf
  <2>2. Taken(c, {}) = Taken(c, {t}) \cup {old}
    BY DEF Taken
  <2>3. Taken(c, {})' = {Normal[team'[i].name] : i \in TeamsOf(c)}
    BY <1>3 DEF Taken
  <2>4. {Normal[team'[i].name] : i \in TeamsOf(c)}
          = {Normal[team'[i].name] : i \in TeamsOf(c) \ {t}} \cup {new}
    BY <1>2
  <2>5. {Normal[team'[i].name] : i \in TeamsOf(c) \ {t}} = Taken(c, {t})
    BY <2>1 DEF Taken
  <2>. QED
    BY <2>2, <2>3, <2>4, <2>5
<1>5. old \notin Taken(c, {t})
  BY DEF SetupDiscipline, RowsAgree, Taken
<1>6. \A d \in Ids \ {c} : Taken(d, {})' = Taken(d, {})
  <2> TAKE d \in Ids \ {c}
  <2>1. \A i \in TeamsOf(d) : team'[i] = team[i]
    BY <1>1, <1>2 DEF TeamsOf
  <2>2. TeamsOf(d)' = TeamsOf(d)
    BY <1>3
  <2>3. Taken(d, {})' = {Normal[team'[i].name] : i \in TeamsOf(d)}
    BY <2>2 DEF Taken
  <2>4. Taken(d, {}) = {Normal[team[i].name] : i \in TeamsOf(d)}
    BY DEF Taken
  <2>5. ASSUME NEW w PROVE w \in Taken(d, {})' <=> w \in Taken(d, {})
    <3>1. \A i \in TeamsOf(d) : w = Normal[team'[i].name] <=> w = Normal[team[i].name]
      BY <2>1
    <3>. QED
      BY <2>3, <2>4, <3>1
  <2>. QED
    BY <2>5
<1>7. Sheet!Used(c) = Taken(c, {}) /\ Taken(c, {}) \subseteq Words
  BY UsedWords, TakenWords DEF SetupDiscipline
<1>8. old \in Words /\ new \in Words
  BY <1>1 DEF TeamRow, Words
<1>9. Taken(c, {})' = (Sheet!Used(c) \ {old}) \cup {new}
  BY <1>4, <1>5, <1>7
<1>10. Sheet!Write(c, (Sheet!Used(c) \ {old}) \cup {new})
  BY <1>6, <1>7, <1>8, <1>9, SheetWrite DEF SetupDiscipline
<1>11. Sheet!Rename(c, old, new)
  BY <1>4, <1>7, <1>10 DEF Sheet!Rename
<1>. QED
  BY <1>8, <1>11 DEF SheetStep, Sheet!Next

LEMMA EditTeamMaps ==
  ASSUME NEW r \in Requests, SetupDiscipline, SetupDiscipline', EditTeam(r)
  PROVE  SheetStep
<1> DEFINE a == call[r]
           possible == /\ a.team \in TeamsOf(a.competition)
                       /\ Normal[a.name] \notin Taken(a.competition, {a.team})
<1>1. a.competition \in Ids /\ a.name \in Names
  BY CallFields DEF EditTeam, At, SetupDiscipline, Fresh
<1>2. CASE possible
  <2>1. team' = [team EXCEPT ![a.team].name = a.name] /\ UNCHANGED code
    BY <1>2 DEF EditTeam
  <2>. QED
    BY <1>1, <1>2, <2>1, RenamingMaps
<1>3. CASE ~possible
  BY <1>3, RowsStutter DEF EditTeam, Answer
<1>. QED
  BY <1>2, <1>3

LEMMA StepMaps ==
  ASSUME SetupDiscipline, SetupDiscipline', [Next]_vars
  PROVE  SheetStep
<1>1. ASSUME NEW r \in Requests, NEW a \in Calls, Arrive(r, a) PROVE SheetStep
  BY <1>1, RowsStutter DEF Arrive
<1>2. ASSUME NEW r \in Requests, CreateCompetition(r) PROVE SheetStep
  <2>1. CASE CommitCompetition(r)
    BY <2>1, CommitCompetitionMaps
  <2>2. CASE ~CommitCompetition(r)
    <3>1. UNCHANGED rows
      BY <1>2, <2>2 DEF CreateCompetition, CheckConfig, DrawCode, InsertCompetition,
                        InitialTeams, Answer
    <3>. QED
      BY <3>1, RowsStutter
  <2>. QED
    BY <2>1, <2>2
<1>3. ASSUME NEW r \in Requests, CreateTeams(r) PROVE SheetStep
  <2>1. CASE CommitTeams(r)
    BY <2>1, CommitTeamsMaps
  <2>2. CASE ~CommitTeams(r)
    <3>1. UNCHANGED rows
      BY <1>3, <2>2 DEF CreateTeams, LockCompetition, CountTeams, InsertTeams, Answer
    <3>. QED
      BY <3>1, RowsStutter
  <2>. QED
    BY <2>1, <2>2
<1>4. ASSUME NEW r \in Requests, EditTeam(r) PROVE SheetStep
  BY <1>4, EditTeamMaps
<1>5. ASSUME NEW r \in Requests, Abort(r) PROVE SheetStep
  BY <1>5, RowsStutter DEF Abort, Answer
<1>6. CASE UNCHANGED vars
  BY <1>6, RowsStutter DEF vars, rows
<1>. QED
  BY <1>1, <1>2, <1>3, <1>4, <1>5, <1>6 DEF Next, Step, Quiet

LEMMA InitMaps == Init => Sheet!Init
<1> SUFFICES ASSUME Init PROVE Sheet!Init
  OBVIOUS
<1>1. code = [c \in Ids |-> IF c \in Existing THEN StartCode[c] ELSE None]
  BY DEF Init
<1>2. \A c \in Ids, w \in Words : Cardinality(NamedSo(c, w)) = 0
  <2>1. \A c \in Ids, w \in Words : NamedSo(c, w) = {}
    BY DEF Init, NamedSo, TeamsOf
  <2>. QED
    BY <2>1, FS_EmptySet
<1>. QED
  BY <1>1, <1>2 DEF Sheet!Init, Sheets

\* Any number of creations, additions and edits, interleaved statement by statement
\* and aborted anywhere, behave like indivisible changes of the sheet: join codes and
\* names stay unique, an addition is whole or leaves nothing, nobody's row is lost.
THEOREM SheetImplemented == Spec => ImplementsSheet
<1>1. SetupDiscipline /\ SetupDiscipline' /\ [Next]_vars => SheetStep
  BY StepMaps
<1>2. SheetStep => [Sheet!Next]_<<code, Sheets>>
  BY DEF SheetStep
<1>. QED
  BY <1>1, <1>2, InitMaps, DisciplineIsKept, PTL DEF Spec, ImplementsSheet, Sheet!Spec

=============================================================================
