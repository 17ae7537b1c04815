--------------------------- MODULE Realtime_proofs ---------------------------
(***************************************************************************)
(* Events and rooms: whatever a socket has heard is committed, and whoever *)
(* hears it is a member or was one until a deletion.  The argument is that *)
(* what was committed and who has joined are never taken back by a step of *)
(* the game, only deleted with everything, and that a handler that has its *)
(* event still ahead of it has its commit behind it.  After its commit a   *)
(* handler ends with its event, with a line in the log, with the server,   *)
(* or with the removal of the player whose name the event would give.      *)
(***************************************************************************)
EXTENDS Realtime, Tables_proofs

\* What is left to do of a handler, at each point of it.
Left ==
  [create |-> {<<"commit", "emit">>, <<"emit">>, <<>>},
   close  |-> {<<"commit", "emit">>, <<"emit">>, <<>>},
   settle |-> {<<"commit", "snapshot", "emit">>, <<"snapshot", "emit">>, <<"emit">>, <<>>},
   join   |-> {<<"commit", "user", "emit">>, <<"user", "emit">>, <<"emit">>, <<>>}]

\* A handler that has committed, and has its event still to come, tells the truth.
Truthful(r) ==
  call[r] # None =>
    LET a == call[r].asked
        left == call[r].todo
    IN  /\ left \in Left[a.kind]
        /\ left \notin {Steps[a.kind], <<>>} => Fact(a)

\* What a socket has been let into, by a membership that was there, and has heard.
Trusted(k) ==
  session[k] # None =>
    /\ \A c \in session[k].admitted \cup session[k].rooms : <<c, session[k].user>> \in member
    /\ \A e \in session[k].heard :
         Fact(e) /\ <<e.competition, session[k].user>> \in member

\* The inductive invariant of the gateway and of what follows a commit.
NewsInvariant ==
  /\ TypeOK
  /\ \A r \in Requests : Truthful(r)
  /\ \A k \in Sockets : Trusted(k)

-----------------------------------------------------------------------------
(* What is left of a handler. *)

LEMMA AskedFields ==
  ASSUME NEW a \in Asked
  PROVE  /\ a.kind \in {"create", "close", "settle", "join"}
         /\ a.competition \in Competitions
         /\ a.kind \in {"create", "close"} => a.subject \in Markets
         /\ a.kind = "settle" => a.subject \in Selections
         /\ a.kind = "join" => a.subject \in Users
BY DEF Asked

LEMMA LeftType ==
  ASSUME NEW kind \in {"create", "close", "settle", "join"}
  PROVE  /\ Left[kind] \subseteq Seq(StepNames)
         /\ Steps[kind] \in Left[kind] /\ <<>> \in Left[kind]
<1>1. /\ <<"commit", "emit">> \in Seq(StepNames) /\ <<"emit">> \in Seq(StepNames)
      /\ <<>> \in Seq(StepNames) /\ <<"snapshot", "emit">> \in Seq(StepNames)
      /\ <<"user", "emit">> \in Seq(StepNames)
  BY DEF StepNames
<1>2. /\ <<"commit", "snapshot", "emit">> \in Seq(StepNames)
      /\ <<"commit", "user", "emit">> \in Seq(StepNames)
  BY DEF StepNames
<1>3. kind \in {"create", "close"} => Left[kind] = {<<"commit", "emit">>, <<"emit">>, <<>>}
  BY DEF Left
<1>4. kind = "settle" => Left[kind] =
        {<<"commit", "snapshot", "emit">>, <<"snapshot", "emit">>, <<"emit">>, <<>>}
  BY DEF Left
<1>5. kind = "join" => Left[kind] =
        {<<"commit", "user", "emit">>, <<"user", "emit">>, <<"emit">>, <<>>}
  BY DEF Left
<1>6. /\ kind \in {"create", "close"} => Steps[kind] = <<"commit", "emit">>
      /\ kind = "settle" => Steps[kind] = <<"commit", "snapshot", "emit">>
      /\ kind = "join" => Steps[kind] = <<"commit", "user", "emit">>
  BY DEF Steps
<1>. QED
  BY <1>1, <1>2, <1>3, <1>4, <1>5, <1>6

\* Going on keeps to the plan, and only the commit starts from all of it.
LEMMA LeftTail ==
  ASSUME NEW kind \in {"create", "close", "settle", "join"}, NEW left \in Left[kind], left # <<>>
  PROVE  /\ Tail(left) \in Left[kind]
         /\ Tail(left) # Steps[kind]
         /\ Head(left) # "commit" => left # Steps[kind]
<1>1. CASE kind \in {"create", "close"}
  <2>1. left \in {<<"commit", "emit">>, <<"emit">>}
    BY <1>1 DEF Left
  <2>2. CASE left = <<"commit", "emit">>
    BY <1>1, <2>2 DEF Left, Steps
  <2>3. CASE left = <<"emit">>
    BY <1>1, <2>3 DEF Left, Steps
  <2>. QED
    BY <2>1, <2>2, <2>3
<1>2. CASE kind = "settle"
  <2>1. left \in {<<"commit", "snapshot", "emit">>, <<"snapshot", "emit">>, <<"emit">>}
    BY <1>2 DEF Left
  <2>2. CASE left = <<"commit", "snapshot", "emit">>
    BY <1>2, <2>2 DEF Left, Steps
  <2>3. CASE left = <<"snapshot", "emit">>
    BY <1>2, <2>3 DEF Left, Steps
  <2>4. CASE left = <<"emit">>
    BY <1>2, <2>4 DEF Left, Steps
  <2>. QED
    BY <2>1, <2>2, <2>3, <2>4
<1>3. CASE kind = "join"
  <2>1. left \in {<<"commit", "user", "emit">>, <<"user", "emit">>, <<"emit">>}
    BY <1>3 DEF Left
  <2>2. CASE left = <<"commit", "user", "emit">>
    BY <1>3, <2>2 DEF Left, Steps
  <2>3. CASE left = <<"user", "emit">>
    BY <1>3, <2>3 DEF Left, Steps
  <2>4. CASE left = <<"emit">>
    BY <1>3, <2>4 DEF Left, Steps
  <2>. QED
    BY <2>1, <2>2, <2>3, <2>4
<1>. QED
  BY <1>1, <1>2, <1>3

-----------------------------------------------------------------------------
(* Commits are steps of the game, and the game takes nothing back. *)

LEMMA CommitIsBookStep ==
  ASSUME NewsInvariant, NEW r \in Requests, Commit(r)
  PROVE  BookStep /\ Fact(call[r].asked)'
<1> DEFINE a == call[r].asked
           m == MarketOf[a.subject]
<1>1. a \in Asked /\ call[r] # None /\ TablesTypeOK
  BY DEF Commit, At, NewsInvariant, TypeOK, CallRecord
<1>2. call'[r].asked = a
  BY DEF Commit, Proceed, At, NewsInvariant, TypeOK
<1>3. CASE a.kind = "create" /\ Game!Create(a.subject)
  <2>1. a.subject \in Markets
    BY <1>1, <1>3, AskedFields
  <2>2. Moves(a.subject, "DRAFT")
    BY <1>3 DEF Moves, WriteStatus, Game!Create, Game!WriteStatus
  <2>3. status'[a.subject] = "DRAFT"
    BY <1>1, <2>1, <2>2 DEF Moves, WriteStatus, TablesTypeOK
  <2>. QED
    BY <1>2, <1>3, <2>1, <2>2, <2>3 DEF BookStep, Fact
<1>4. CASE a.kind = "close" /\ Game!Close(a.subject)
  <2>1. a.subject \in Markets
    BY <1>1, <1>4, AskedFields
  <2>2. Moves(a.subject, "CLOSED")
    BY <1>4 DEF Moves, WriteStatus, Game!Close, Game!WriteStatus
  <2>3. status'[a.subject] = "CLOSED"
    BY <1>1, <2>1, <2>2 DEF Moves, WriteStatus, TablesTypeOK
  <2>. QED
    BY <1>2, <1>4, <2>1, <2>2, <2>3 DEF BookStep, Fact
<1>5. CASE a.kind = "settle" /\ Game!Settle(a.subject, r)
  <2>1. a.subject \in Selections /\ m \in Markets
    BY <1>1, <1>5, AskedFields, ShapeAssumption
  <2>2. Game!Pending(m) = Pending(m)
    BY DEF Pending, BetsOn, Game!Pending, Game!BetsOn
  <2>3. Settles(a.subject, r)
    BY <1>5, <2>2 DEF Settles, WriteSettle, Payouts, Entry, Game!Settle, Game!WriteSettle,
                      Game!Payouts, Game!Entry
  <2>4. status'[m] = "SETTLED" /\ selection'[a.subject] = "WINNER"
    BY <1>1, <2>1, <2>3 DEF Settles, WriteSettle, TablesTypeOK
  <2>. QED
    BY <1>2, <1>5, <2>1, <2>3, <2>4 DEF BookStep, Fact
<1>6. CASE a.kind = "join" /\ Game!Join(a.competition, a.subject, r)
  <2>1. a.subject \in Users /\ a.competition \in Competitions
    BY <1>1, <1>6, AskedFields
  <2>2. Game!StartingCredits(a.competition, a.subject)
          = StartingCredits(a.competition, a.subject)
    BY DEF StartingCredits, Account, Game!StartingCredits, Game!Account
  <2>3. Joins(a.competition, a.subject, r)
    BY <1>6, <2>2 DEF Joins, WriteJoin, Entry, Game!Join, Game!WriteJoin, Game!Entry
  <2>4. <<a.competition, a.subject>> \in member'
    BY <2>3 DEF Joins, WriteJoin
  <2>. QED
    BY <1>2, <1>6, <2>1, <2>3, <2>4 DEF BookStep, Fact
<1>. QED
  BY <1>3, <1>4, <1>5, <1>6 DEF Commit

LEMMA FactsStay ==
  ASSUME TablesTypeOK, BookStep, NEW e \in Asked, Fact(e)
  PROVE  Fact(e)'
<1>1. CASE e.kind \in {"create", "close"}
  BY <1>1, AskedFields, StatusAdvances DEF Fact
<1>2. CASE e.kind = "settle"
  <2>1. e.subject \in Selections /\ MarketOf[e.subject] \in Markets
    BY <1>2, AskedFields, ShapeAssumption
  <2>2. status[MarketOf[e.subject]] = "SETTLED" /\ selection[e.subject] = "WINNER"
    BY <1>2 DEF Fact
  <2>3. Final(MarketOf[e.subject])
    BY <2>1, <2>2, SettledStays
  <2>. QED
    BY <1>2, <2>1, <2>2, <2>3 DEF Final, Fact
<1>3. CASE e.kind = "join"
  BY <1>3, MembersStay DEF Fact
<1>. QED
  BY <1>1, <1>2, <1>3, AskedFields

-----------------------------------------------------------------------------
(* The steps, by what they leave alone. *)

\* The game may move; a call that stays, and a socket that stays, stays in order.
LEMMA Undisturbed ==
  ASSUME NewsInvariant, BookStep
  PROVE  /\ TablesTypeOK'
         /\ \A r \in Requests : call'[r] = call[r] => Truthful(r)'
         /\ \A k \in Sockets : session'[k] = session[k] => Trusted(k)'
<1>1. TablesTypeOK /\ member \subseteq member'
  BY MembersStay DEF NewsInvariant, TypeOK
<1>2. \A r \in Requests : call[r] # None => call[r].asked \in Asked
  BY DEF NewsInvariant, TypeOK, CallRecord
<1>3. \A k \in Sockets : session[k] # None => session[k] \in Session
  BY DEF NewsInvariant, TypeOK
<1>4. ASSUME NEW r \in Requests, call'[r] = call[r] PROVE Truthful(r)'
  <2>1. call[r] # None /\ Fact(call[r].asked) => Fact(call[r].asked)'
    <3>1. SUFFICES ASSUME call[r] # None, Fact(call[r].asked) PROVE Fact(call[r].asked)'
      OBVIOUS
    <3>2. PICK e \in Asked : e = call[r].asked
      BY <1>2, <3>1
    <3>3. Fact(e)'
      BY <1>1, <3>1, <3>2, FactsStay
    <3>. QED
      BY <1>4, <3>2, <3>3 DEF Fact
  <2>. QED
    BY <1>4, <2>1 DEF NewsInvariant, Truthful, Fact
<1>5. ASSUME NEW k \in Sockets, session'[k] = session[k] PROVE Trusted(k)'
  <2>1. session[k] # None => \A e \in session[k].heard : e \in Asked /\ Fact(e)
    BY <1>3 DEF Session, NewsInvariant, Trusted
  <2>2. session[k] # None => \A e \in session[k].heard : Fact(e)'
    BY <1>1, <2>1, FactsStay
  <2>. QED
    BY <1>1, <1>5, <2>2 DEF NewsInvariant, Trusted, Fact
<1>. QED
  BY <1>1, <1>4, <1>5, StepKeepsTypes

-----------------------------------------------------------------------------
(* A handler moves. *)

LEMMA CallRecords ==
  ASSUME NewsInvariant, NEW r \in Requests, call[r] # None
  PROVE  call[r] \in CallRecord /\ call[r].todo \in Left[call[r].asked.kind]
BY DEF NewsInvariant, TypeOK, Truthful

\* A request changes its record, and no socket changes.
LEMMA CallMoves ==
  ASSUME NewsInvariant, BookStep, NEW r \in Requests, NEW x \in CallRecord,
         call' = [call EXCEPT ![r] = x], session' = session, UNCHANGED <<deleted, removed>>,
         unannounced' = unannounced \/ unannounced' = unannounced \cup {call[r].asked},
         unannounced' # unannounced => call[r] # None,
         Truthful(r)'
  PROVE  NewsInvariant'
<1>1. call' \in [Requests -> CallRecord \cup {None}]
  BY DEF NewsInvariant, TypeOK
<1>2. unannounced' \subseteq Asked
  BY DEF NewsInvariant, TypeOK, CallRecord
<1>3. TablesTypeOK' /\ \A k \in Sockets : Trusted(k)'
  BY Undisturbed
<1>4. ASSUME NEW q \in Requests \ {r} PROVE Truthful(q)'
  BY <1>4, Undisturbed DEF NewsInvariant, TypeOK
<1>5. session' \in [Sockets -> Session \cup {None}]
  BY DEF NewsInvariant, TypeOK
<1>. QED
  BY <1>1, <1>2, <1>3, <1>4, <1>5 DEF NewsInvariant, TypeOK

\* The record of a handler that goes on.
LEMMA ProceedRecord ==
  ASSUME NewsInvariant, BookStep, NEW r \in Requests, call[r] # None, call[r].todo # <<>>,
         Proceed(r), Head(call[r].todo) = "commit" => Fact(call[r].asked)'
  PROVE  \E x \in CallRecord : call' = [call EXCEPT ![r] = x] /\ Truthful(r)'
<1> DEFINE a == call[r].asked
           left == call[r].todo
           x == [call[r] EXCEPT !.todo = Tail(left)]
<1>1. call[r] \in CallRecord /\ left \in Left[a.kind] /\ call \in [Requests -> CallRecord \cup {None}]
  BY CallRecords DEF NewsInvariant, TypeOK
<1>2. a \in Asked /\ a.kind \in {"create", "close", "settle", "join"}
  BY <1>1, AskedFields DEF CallRecord
<1>3. /\ Tail(left) \in Left[a.kind] /\ Tail(left) # Steps[a.kind]
      /\ Head(left) # "commit" => left # Steps[a.kind]
  BY <1>1, <1>2, LeftTail
<1>4. Tail(left) \in Seq(StepNames)
  BY <1>2, <1>3, LeftType
<1>5. x \in CallRecord /\ x.asked = a /\ x.todo = Tail(left)
  BY <1>1, <1>4 DEF CallRecord
<1>6. call' = [call EXCEPT ![r] = x]
  BY DEF Proceed
<1>7. call'[r] = x
  BY <1>1, <1>6
<1>8. Fact(a) => Fact(call[r].asked)'
  <2>1. PICK e \in Asked : e = call[r].asked
    BY <1>2
  <2>2. call'[r].asked = e
    BY <1>5, <1>7, <2>1
  <2>3. Fact(e) => Fact(e)'
    BY FactsStay DEF NewsInvariant, TypeOK
  <2>. QED
    BY <2>1, <2>2, <2>3 DEF Fact
<1>9. Fact(call[r].asked)'
  <2>1. Head(left) # "commit" => Fact(a)
    BY <1>3 DEF NewsInvariant, Truthful
  <2>. QED
    BY <1>8, <2>1
<1>10. Truthful(r)'
  BY <1>3, <1>5, <1>7, <1>9 DEF Truthful
<1>. QED
  BY <1>5, <1>6, <1>10

\* The record of a handler that ends: nothing is left of it.
LEMMA EndRecord ==
  ASSUME NewsInvariant, NEW r \in Requests, call[r] # None,
         NEW answer \in {None, "ok", "error", "lost"},
         call' = [call EXCEPT ![r] = [call[r] EXCEPT !.todo = <<>>, !.reply = answer]]
  PROVE  \E x \in CallRecord : call' = [call EXCEPT ![r] = x] /\ Truthful(r)'
<1> DEFINE x == [call[r] EXCEPT !.todo = <<>>, !.reply = answer]
<1>1. call[r] \in CallRecord /\ call \in [Requests -> CallRecord \cup {None}]
  BY CallRecords DEF NewsInvariant, TypeOK
<1>2. <<>> \in Seq(StepNames)
  OBVIOUS
<1>3. x \in CallRecord /\ x.asked = call[r].asked /\ x.todo = <<>> /\ x.asked \in Asked
  BY <1>1, <1>2 DEF CallRecord
<1>4. call'[r] = x
  BY <1>1
<1>5. <<>> \in Left[x.asked.kind]
  BY <1>3, AskedFields, LeftType
<1>6. Truthful(r)'
  BY <1>3, <1>4, <1>5 DEF Truthful
<1>. QED
  BY <1>3, <1>6

LEMMA StutterIsBookStep ==
  ASSUME UNCHANGED tables
  PROVE  BookStep
BY DEF BookStep

LEMMA AskKeeps ==
  ASSUME NewsInvariant, NEW r \in Requests, NEW a \in Asked, Ask(r, a)
  PROVE  NewsInvariant'
<1> DEFINE x == [asked |-> a, todo |-> Steps[a.kind], reply |-> None]
<1>1. a.kind \in {"create", "close", "settle", "join"}
  BY AskedFields
<1>2. Steps[a.kind] \in Left[a.kind] /\ Steps[a.kind] \in Seq(StepNames)
  BY <1>1, LeftType
<1>3. x \in CallRecord /\ x.asked = a /\ x.todo = Steps[a.kind]
  BY <1>2 DEF CallRecord
<1>4. call' = [call EXCEPT ![r] = x]
  BY DEF Ask
<1>5. call'[r] = x
  BY <1>4 DEF NewsInvariant, TypeOK
<1>6. Truthful(r)'
  BY <1>2, <1>3, <1>5 DEF Truthful
<1>. QED
  BY <1>3, <1>4, <1>6, CallMoves, StutterIsBookStep DEF Ask, database

\* The steps of a handler, except the one that reaches the sockets.
LEMMA HandleKeeps ==
  ASSUME NewsInvariant, NEW r \in Requests, Handle(r), ~Emit(r)
  PROVE  NewsInvariant'
<1>1. CASE Commit(r)
  <2>1. PICK x \in CallRecord : call' = [call EXCEPT ![r] = x] /\ Truthful(r)'
    BY <1>1, CommitIsBookStep, ProceedRecord DEF Commit, At
  <2>. QED
    BY <1>1, <2>1, CommitIsBookStep, CallMoves DEF Commit
<1>2. CASE Reject(r)
  <2>1. call' = [call EXCEPT ![r] = [call[r] EXCEPT !.todo = <<>>, !.reply = "error"]]
    BY <1>2 DEF Reject, Throw
  <2>2. PICK x \in CallRecord : call' = [call EXCEPT ![r] = x] /\ Truthful(r)'
    BY <1>2, <2>1, EndRecord DEF Reject, At
  <2>. QED
    BY <1>2, <2>2, StutterIsBookStep, CallMoves DEF Reject, database
<1>3. CASE Derive(r) \/ SnapshotFails(r) \/ EmitFails(r)
  <2>1. /\ call[r] # None /\ call[r].todo # <<>> /\ Head(call[r].todo) # "commit"
        /\ Proceed(r) /\ BookStep
    BY <1>3, StutterIsBookStep DEF Derive, SnapshotFails, EmitFails, At, database
  <2>2. PICK x \in CallRecord : call' = [call EXCEPT ![r] = x] /\ Truthful(r)'
    BY <2>1, ProceedRecord
  <2>. QED
    BY <1>3, <2>1, <2>2, CallMoves DEF Derive, SnapshotFails, EmitFails, database
<1>4. CASE UserFails(r) \/ UserGone(r)
  <2>1. call[r] # None /\ call[r] \in CallRecord
    BY <1>4, CallRecords DEF UserFails, UserGone, At
  <2>2. call' = [call EXCEPT ![r] = [call[r] EXCEPT !.todo = <<>>, !.reply = call[r].reply]]
    BY <1>4, <2>1 DEF UserFails, UserGone, CallRecord
  <2>3. call[r].reply \in {None, "ok", "error", "lost"}
    BY <2>1 DEF CallRecord
  <2>4. PICK x \in CallRecord : call' = [call EXCEPT ![r] = x] /\ Truthful(r)'
    BY <2>1, <2>2, <2>3, EndRecord
  <2>. QED
    BY <1>4, <2>1, <2>4, StutterIsBookStep, CallMoves DEF UserFails, UserGone, database
<1>5. CASE Answer(r)
  <2>1. call[r] # None /\ call[r].todo = <<>> /\ call[r] \in CallRecord
    BY <1>5, CallRecords DEF Answer
  <2>2. call' = [call EXCEPT ![r] = [call[r] EXCEPT !.todo = <<>>, !.reply = "ok"]]
    BY <1>5, <2>1 DEF Answer, CallRecord
  <2>3. PICK x \in CallRecord : call' = [call EXCEPT ![r] = x] /\ Truthful(r)'
    BY <2>1, <2>2, EndRecord
  <2>. QED
    BY <1>5, <2>3, StutterIsBookStep, CallMoves DEF Answer, database
<1>. QED
  BY <1>1, <1>2, <1>3, <1>4, <1>5 DEF Handle

\* The event of a committed call reaches the sockets of its room.
LEMMA EmitKeeps ==
  ASSUME NewsInvariant, NEW r \in Requests, Emit(r)
  PROVE  NewsInvariant'
<1> DEFINE a == call[r].asked
<1>1. BookStep /\ UNCHANGED tables /\ call[r] # None /\ call[r].todo # <<>>
      /\ Head(call[r].todo) = "emit" /\ Proceed(r)
  BY StutterIsBookStep DEF Emit, At, database
<1>2. call[r].todo \in Left[a.kind] /\ a \in Asked
  BY <1>1, CallRecords DEF CallRecord
<1>3. call[r].todo # Steps[a.kind]
  BY <1>1, <1>2, AskedFields, LeftTail
<1>4. Fact(a)
  BY <1>1, <1>3 DEF NewsInvariant, Truthful
<1>5. PICK x \in CallRecord : call' = [call EXCEPT ![r] = x] /\ Truthful(r)'
  BY <1>1, ProceedRecord
<1>6. call' \in [Requests -> CallRecord \cup {None}]
      /\ \A q \in Requests \ {r} : call'[q] = call[q]
  BY <1>5 DEF NewsInvariant, TypeOK
<1>7. TablesTypeOK' /\ \A q \in Requests : Truthful(q)'
  BY <1>1, <1>5, <1>6, Undisturbed
<1>8. \A k \in Sockets : \/ session'[k] = session[k]
                         \/ /\ session[k] # None /\ a.competition \in session[k].rooms
                            /\ session'[k] = [session[k] EXCEPT !.heard = @ \cup {a}]
  BY DEF Emit
<1>9. ASSUME NEW k \in Sockets, session[k] # None, a.competition \in session[k].rooms,
             session'[k] = [session[k] EXCEPT !.heard = @ \cup {a}]
      PROVE  session'[k] \in Session /\ Trusted(k)'
  <2>1. session[k] \in Session
    BY <1>9 DEF NewsInvariant, TypeOK
  <2>2. session'[k] \in Session
    BY <1>2, <1>9, <2>1 DEF Session
  <2>3. /\ session'[k].user = session[k].user /\ session'[k].admitted = session[k].admitted
        /\ session'[k].rooms = session[k].rooms
        /\ session'[k].heard = session[k].heard \cup {a}
    BY <1>9, <2>1 DEF Session
  <2>4. /\ \A e \in session[k].heard \cup {a} : Fact(e)
        /\ \A e \in session[k].heard \cup {a} : <<e.competition, session[k].user>> \in member
        /\ \A c \in session[k].admitted \cup session[k].rooms :
             <<c, session[k].user>> \in member
    BY <1>4, <1>9 DEF NewsInvariant, Trusted
  <2>5. \A e : Fact(e)' <=> Fact(e)
    BY <1>1 DEF Fact, tables
  <2>6. Trusted(k)'
    BY <1>1, <2>3, <2>4, <2>5 DEF Trusted, Fact, tables
  <2>. QED
    BY <2>2, <2>6
<1>10. session' \in [Sockets -> Session \cup {None}]
  <2>1. session' = [k \in Sockets |->
          IF session[k] # None /\ a.competition \in session[k].rooms
          THEN [session[k] EXCEPT !.heard = @ \cup {a}] ELSE session[k]]
    BY DEF Emit
  <2>2. \A k \in Sockets : session'[k] \in Session \cup {None}
    BY <1>8, <1>9 DEF NewsInvariant, TypeOK
  <2>. QED
    BY <2>1, <2>2
<1>11. \A k \in Sockets : Trusted(k)'
  BY <1>1, <1>8, <1>9, Undisturbed
<1>. QED
  BY <1>6, <1>7, <1>10, <1>11 DEF NewsInvariant, TypeOK, Emit, database

-----------------------------------------------------------------------------
(* The gateway. *)

\* One socket changes, and nothing else.
LEMMA SocketMoves ==
  ASSUME NewsInvariant, NEW k \in Sockets, NEW x \in Session \cup {None},
         session' = [session EXCEPT ![k] = x], UNCHANGED <<database, call, unannounced>>,
         Trusted(k)'
  PROVE  NewsInvariant'
<1>1. session' \in [Sockets -> Session \cup {None}]
      /\ \A j \in Sockets \ {k} : session'[j] = session[j]
  BY DEF NewsInvariant, TypeOK
<1>2. BookStep
  BY StutterIsBookStep DEF database
<1>3. TablesTypeOK' /\ (\A r \in Requests : Truthful(r)') /\ \A j \in Sockets : Trusted(j)'
  BY <1>1, <1>2, Undisturbed
<1>. QED
  BY <1>1, <1>3 DEF NewsInvariant, TypeOK, database

LEMMA GatewayKeeps ==
  ASSUME NewsInvariant, NEW k \in Sockets,
         \/ \E u \in Users : Connect(k, u)
         \/ \E c \in Competitions : RequireMember(k, c) \/ EnterRoom(k, c)
         \/ Disconnect(k)
  PROVE  NewsInvariant'
<1>0. session \in [Sockets -> Session \cup {None}]
  BY DEF NewsInvariant, TypeOK
<1>1. ASSUME NEW u \in Users, Connect(k, u) PROVE NewsInvariant'
  <2> DEFINE x == [user |-> u, admitted |-> {}, rooms |-> {}, heard |-> {}]
  <2>1. x \in Session
    BY DEF Session
  <2>2. session' = [session EXCEPT ![k] = x]
    BY <1>1 DEF Connect
  <2>3. Trusted(k)'
    BY <1>0, <2>2 DEF Trusted
  <2>. QED
    BY <1>1, <2>1, <2>2, <2>3, SocketMoves DEF Connect
<1>2. ASSUME NEW c \in Competitions, RequireMember(k, c) PROVE NewsInvariant'
  <2> DEFINE x == [session[k] EXCEPT !.admitted = session[k].admitted \cup {c}]
  <2>1. session[k] # None /\ session[k] \in Session /\ <<c, session[k].user>> \in member
    BY <1>0, <1>2 DEF RequireMember, IsMember
  <2>2. /\ x \in Session /\ x.user = session[k].user /\ x.rooms = session[k].rooms
        /\ x.heard = session[k].heard /\ x.admitted = session[k].admitted \cup {c}
    BY <2>1 DEF Session
  <2>3. session' = [session EXCEPT ![k] = x]
    BY <1>2 DEF RequireMember
  <2>4. session'[k] = x /\ UNCHANGED tables
    BY <1>0, <1>2, <2>3 DEF RequireMember, database
  <2> HIDE DEF x
  <2>5. Trusted(k)'
    BY <2>1, <2>2, <2>4 DEF NewsInvariant, Trusted, Fact, tables
  <2>. QED
    BY <1>2, <2>2, <2>3, <2>5, SocketMoves DEF RequireMember
<1>3. ASSUME NEW c \in Competitions, EnterRoom(k, c) PROVE NewsInvariant'
  <2> DEFINE x == [session[k] EXCEPT !.admitted = session[k].admitted \ {c},
                                     !.rooms = session[k].rooms \cup {c}]
  <2>1. session[k] # None /\ session[k] \in Session /\ c \in session[k].admitted
    BY <1>0, <1>3 DEF EnterRoom
  <2>2. /\ x \in Session /\ x.user = session[k].user /\ x.rooms = session[k].rooms \cup {c}
        /\ x.heard = session[k].heard /\ x.admitted = session[k].admitted \ {c}
    BY <2>1 DEF Session
  <2>3. session' = [session EXCEPT ![k] = x]
    BY <1>3 DEF EnterRoom
  <2>4. session'[k] = x /\ UNCHANGED tables
    BY <1>0, <1>3, <2>3 DEF EnterRoom, database
  <2> HIDE DEF x
  <2>5. Trusted(k)'
    BY <2>1, <2>2, <2>4 DEF NewsInvariant, Trusted, Fact, tables
  <2>. QED
    BY <1>3, <2>2, <2>3, <2>5, SocketMoves DEF EnterRoom
<1>4. CASE Disconnect(k)
  <2>1. Trusted(k)'
    BY <1>0, <1>4 DEF Disconnect, Trusted
  <2>. QED
    BY <1>4, <2>1, SocketMoves DEF Disconnect
<1>. QED
  BY <1>1, <1>2, <1>3, <1>4

\* A deletion takes nothing back of what was committed, and leaves the sockets alone.
LEMMA DeletionKeeps ==
  ASSUME NewsInvariant,
         (\E c \in Competitions : DeleteCompetition(c)) \/ (\E u \in Users : RemoveUser(u))
  PROVE  NewsInvariant'
<1>1. UNCHANGED <<tables, live>> /\ BookStep
  BY StutterIsBookStep DEF DeleteCompetition, RemoveUser
<1>2. deleted' \subseteq Competitions /\ removed' \subseteq Users
  BY DEF NewsInvariant, TypeOK, DeleteCompetition, RemoveUser
<1>. QED
  BY <1>1, <1>2, Undisturbed DEF NewsInvariant, TypeOK, live

LEMMA RestartKeeps ==
  ASSUME NewsInvariant, Restart
  PROVE  NewsInvariant'
<1>1. BookStep /\ UNCHANGED <<tables, deleted, removed, unannounced>>
  BY StutterIsBookStep DEF Restart, database
<1>2. session' \in [Sockets -> Session \cup {None}] /\ \A k \in Sockets : Trusted(k)'
  BY DEF Restart, Trusted
<1>3. ASSUME NEW r \in Requests, call'[r] # call[r]
      PROVE  call'[r] \in CallRecord /\ Truthful(r)'
  <2>1. call[r] # None /\ call'[r] = [call[r] EXCEPT !.todo = <<>>, !.reply = "lost"]
    BY <1>3 DEF Restart
  <2>2. call[r] \in CallRecord /\ <<>> \in Seq(StepNames)
    BY <2>1, CallRecords
  <2>3. call'[r] \in CallRecord /\ call'[r].todo = <<>> /\ call'[r].asked \in Asked
    BY <2>1, <2>2 DEF CallRecord
  <2>4. <<>> \in Left[call'[r].asked.kind]
    BY <2>3, AskedFields, LeftType
  <2>. QED
    BY <2>3, <2>4 DEF Truthful
<1>4. TablesTypeOK' /\ \A r \in Requests : Truthful(r)'
  BY <1>1, <1>3, Undisturbed
<1>5. call' \in [Requests -> CallRecord \cup {None}]
  <2>1. \A r \in Requests : call'[r] \in CallRecord \cup {None}
    BY <1>3 DEF NewsInvariant, TypeOK
  <2>2. call' = [r \in Requests |->
          IF call[r] # None /\ call[r].reply = None
          THEN [call[r] EXCEPT !.todo = <<>>, !.reply = "lost"] ELSE call[r]]
    BY DEF Restart
  <2>. QED
    BY <2>1, <2>2
<1>. QED
  BY <1>1, <1>2, <1>4, <1>5 DEF NewsInvariant, TypeOK

LEMMA InitNews == Init => NewsInvariant
<1> SUFFICES ASSUME Init PROVE NewsInvariant
  OBVIOUS
<1>1. TablesInit
  BY DEF Init, Game!Init, Game!TablesInit, TablesInit, Game!Entry, Entry
<1>2. TablesTypeOK
  BY <1>1, InitTablesTypeOK
<1>. QED
  BY <1>2 DEF Init, NewsInvariant, TypeOK, Truthful, Trusted

LEMMA NextNews ==
  ASSUME NewsInvariant, [Next]_vars
  PROVE  NewsInvariant'
<1>1. CASE UNCHANGED vars
  <2>1. BookStep /\ UNCHANGED <<deleted, removed, live>>
    BY <1>1, StutterIsBookStep DEF vars, database
  <2>. QED
    BY <2>1, Undisturbed DEF NewsInvariant, TypeOK, live
<1>. QED
  BY <1>1, AskKeeps, HandleKeeps, EmitKeeps, GatewayKeeps, DeletionKeeps, RestartKeeps DEF Next

\* A handler that has its event still to come has committed, whatever failed in
\* between, and what sockets have heard is true and of a competition their user has
\* joined, across restarts, deletions of competitions and removals of users.
THEOREM NewsIsKept == Spec => []NewsInvariant
BY InitNews, NextNews, PTL DEF Spec

\* The rows, the calls and the sockets stay well typed, and a handler never leaves
\* the order of its steps.
THEOREM TypesAreKept == Spec => []TypeOK
<1>1. NewsInvariant => TypeOK
  BY DEF NewsInvariant
<1>. QED
  BY <1>1, NewsIsKept, PTL

\* No event is heard of a call whose transaction failed or was rolled back, and what
\* it says stays true (every handler emits after $transaction has resolved, and a
\* settled market is final).
THEOREM EventsStayTrue == Spec => []EventsAreTrue
<1>1. NewsInvariant => EventsAreTrue
  BY DEF NewsInvariant, Trusted, EventsAreTrue
<1>. QED
  BY <1>1, NewsIsKept, PTL

\* Whoever is in the room of a competition, or has heard of it, is a member of it, unless
\* the competition or the user has been deleted, be it since the socket entered the room
\* or between the check of the membership and the entry (handleJoinCompetitionRoom,
\* deleteCompetition).
THEOREM StrangersHearNothing == Spec => []OnlyMembersHear
<1>1. NewsInvariant => OnlyMembersHear
  BY DEF NewsInvariant, Trusted, OnlyMembersHear, IsMember
<1>. QED
  BY <1>1, NewsIsKept, PTL

-----------------------------------------------------------------------------
(* What follows a commit, step by step. *)

\* Neither the snapshot nor the name of the player is the last step of a handler.
LEMMA EventIsLast ==
  ASSUME NEW kind \in {"create", "close", "settle", "join"}, NEW left \in Left[kind],
         left # <<>>, Head(left) \in {"snapshot", "user"}
  PROVE  Tail(left) # <<>>
<1>1. CASE kind \in {"create", "close"}
  <2>1. left \in {<<"commit", "emit">>, <<"emit">>}
    BY <1>1 DEF Left
  <2>. QED
    BY <2>1
<1>2. CASE kind = "settle"
  <2>1. left \in {<<"commit", "snapshot", "emit">>, <<"snapshot", "emit">>, <<"emit">>}
    BY <1>2 DEF Left
  <2>2. left = <<"snapshot", "emit">>
    BY <2>1
  <2>3. Tail(left) = <<"emit">>
    BY <2>2
  <2>. QED
    BY <2>3
<1>3. CASE kind = "join"
  <2>1. left \in {<<"commit", "user", "emit">>, <<"user", "emit">>, <<"emit">>}
    BY <1>3 DEF Left
  <2>2. left = <<"user", "emit">>
    BY <2>1
  <2>3. Tail(left) = <<"emit">>
    BY <2>2
  <2>. QED
    BY <2>3
<1>. QED
  BY <1>1, <1>2, <1>3

\* Only a join reads the name of a player.
LEMMA NamesAreForJoins ==
  ASSUME NEW kind \in {"create", "close", "settle", "join"}, NEW left \in Left[kind],
         left # <<>>, Head(left) = "user"
  PROVE  kind = "join"
<1>1. kind \notin {"create", "close"}
  <2>1. SUFFICES ASSUME left \in {<<"commit", "emit">>, <<"emit">>} PROVE FALSE
    BY DEF Left
  <2>. QED
    BY <2>1
<1>2. kind # "settle"
  <2>1. SUFFICES ASSUME left \in {<<"commit", "snapshot", "emit">>, <<"snapshot", "emit">>, <<"emit">>}
                 PROVE  FALSE
    BY DEF Left
  <2>. QED
    BY <2>1
<1>. QED
  BY <1>1, <1>2

\* A committed handler has no commit at the head of what is left.
LEMMA CommitIsBehind ==
  ASSUME NewsInvariant, NEW r \in Requests, Committed(r)
  PROVE  /\ call[r] \in CallRecord
         /\ ~Commit(r) /\ ~Reject(r) /\ \A a \in Asked : ~Ask(r, a)
<1>1. call[r] \in CallRecord /\ call[r].todo \in Seq(StepNames)
  BY CallRecords DEF Committed, CallRecord
<1>2. call[r].todo # <<>> => Head(call[r].todo) # "commit"
  <2>1. SUFFICES ASSUME call[r].todo # <<>> PROVE Head(call[r].todo) # "commit"
    OBVIOUS
  <2>2. 1 \in 1 .. Len(call[r].todo) /\ Head(call[r].todo) = call[r].todo[1]
    BY <1>1, <2>1
  <2>. QED
    BY <2>2 DEF Committed
<1>. QED
  BY <1>1, <1>2 DEF Committed, Commit, Reject, Ask, At

LEMMA GoingOnKeepsCommit ==
  ASSUME NewsInvariant, NEW r \in Requests, Committed(r), call[r].todo # <<>>, Proceed(r)
  PROVE  Committed(r)' /\ call'[r].todo = Tail(call[r].todo)
<1>1. call[r] \in CallRecord /\ call[r].todo \in Seq(StepNames) /\ call[r] # None
  BY CommitIsBehind DEF CallRecord, Committed
<1>2. call'[r] = [call[r] EXCEPT !.todo = Tail(call[r].todo)]
  BY DEF Proceed, NewsInvariant, TypeOK
<1>3. /\ call'[r].todo = Tail(call[r].todo) /\ call'[r].reply = call[r].reply
      /\ call'[r].asked = call[r].asked
  BY <1>1, <1>2 DEF CallRecord
<1>4. Tail(call[r].todo) \in Seq(StepNames)
  BY <1>1
<1>5. call'[r] \in CallRecord
  BY <1>1, <1>2, <1>4 DEF CallRecord
<1>6. call'[r] # None
  BY <1>5, NoCallAssumption
<1>7. ASSUME NEW i \in 1 .. Len(Tail(call[r].todo)) PROVE Tail(call[r].todo)[i] # "commit"
  <2>1. /\ i + 1 \in 1 .. Len(call[r].todo)
        /\ Tail(call[r].todo)[i] = call[r].todo[i + 1]
    BY <1>1
  <2>. QED
    BY <2>1 DEF Committed
<1>. QED
  BY <1>3, <1>6, <1>7 DEF Committed

LEMMA EmptyIsSteps == <<>> \in Seq(StepNames)
OBVIOUS

\* The end of a handler is the event, or the log, or the end of the server.
LEMMA HandleFollowsUp ==
  ASSUME NewsInvariant, NEW r \in Requests, Committed(r), Handle(r)
  PROVE  /\ Committed(r)'
         /\ call[r].todo # <<>> /\ call'[r].todo = <<>> =>
              \/ call[r].asked \in unannounced'
              \/ Nameless(call[r].asked)
              \/ \A k \in Sockets :
                   session[k] # None /\ call[r].asked.competition \in session[k].rooms
                     => call[r].asked \in session'[k].heard
<1>1. /\ call[r] \in CallRecord /\ call[r].asked \in Asked /\ call[r] # None
      /\ call[r].todo \in Left[call[r].asked.kind]
  BY CommitIsBehind, CallRecords DEF CallRecord, Committed
<1>2. CASE Derive(r) \/ SnapshotFails(r)
  <2>1. call[r].todo # <<>> /\ Head(call[r].todo) \in {"snapshot", "user"} /\ Proceed(r)
    BY <1>2 DEF Derive, SnapshotFails, At
  <2>2. Tail(call[r].todo) # <<>>
    BY <1>1, <2>1, EventIsLast, AskedFields
  <2>. QED
    BY <2>1, <2>2, GoingOnKeepsCommit
<1>3. CASE UserFails(r) \/ UserGone(r)
  <2>1. call'[r] = [call[r] EXCEPT !.todo = <<>>]
    BY <1>3 DEF UserFails, UserGone, NewsInvariant, TypeOK
  <2>2. /\ call'[r].todo = <<>> /\ call'[r].reply = call[r].reply
        /\ call'[r] \in CallRecord
    BY <1>1, <2>1, EmptyIsSteps DEF CallRecord
  <2>3. Committed(r)'
    BY <2>2, NoCallAssumption DEF Committed
  <2>4. UserGone(r) => Nameless(call[r].asked)
    <3>1. ASSUME UserGone(r) PROVE call[r].asked.kind = "join"
      <4>1. call[r].todo # <<>> /\ Head(call[r].todo) = "user"
        BY <3>1 DEF UserGone, At
      <4>. QED
        BY <1>1, <4>1, AskedFields, NamesAreForJoins
    <3>. QED
      BY <3>1 DEF UserGone, Nameless
  <2>. QED
    BY <1>3, <2>3, <2>4 DEF UserFails
<1>4. CASE Emit(r)
  <2>1. call[r].todo # <<>> /\ Proceed(r)
    BY <1>4 DEF Emit, At
  <2>2. PICK a \in Asked : a = call[r].asked
    BY <1>1
  <2>3. session' = [k \in Sockets |->
          IF session[k] # None /\ a.competition \in session[k].rooms
          THEN [session[k] EXCEPT !.heard = @ \cup {a}]
          ELSE session[k]]
    BY <1>4, <2>2 DEF Emit
  <2>4. ASSUME NEW k \in Sockets, session[k] # None, a.competition \in session[k].rooms
        PROVE  a \in session'[k].heard
    <3>1. session[k] \in Session
      BY <2>4 DEF NewsInvariant, TypeOK
    <3>2. session'[k] = [session[k] EXCEPT !.heard = @ \cup {a}]
      BY <2>3, <2>4
    <3>. QED
      BY <3>1, <3>2 DEF Session
  <2>. QED
    BY <2>1, <2>2, <2>4, GoingOnKeepsCommit
<1>5. CASE EmitFails(r)
  <2>1. call[r].todo # <<>> /\ Proceed(r) /\ call[r].asked \in unannounced'
    BY <1>5 DEF EmitFails, At
  <2>. QED
    BY <2>1, GoingOnKeepsCommit
<1>6. CASE Answer(r)
  <2>1. call'[r] = [call[r] EXCEPT !.reply = "ok"] /\ call[r].todo = <<>>
    BY <1>6 DEF Answer, NewsInvariant, TypeOK
  <2>2. call'[r].todo = <<>> /\ call'[r].reply = "ok" /\ call'[r] \in CallRecord
    BY <1>1, <2>1 DEF CallRecord
  <2>3. Committed(r)'
    BY <2>2, NoCallAssumption DEF Committed
  <2>. QED
    BY <2>1, <2>3
<1>. QED
  BY <1>2, <1>3, <1>4, <1>5, <1>6, CommitIsBehind DEF Handle

\* Another request, and a socket, leave a handler where it is.
LEMMA OthersFollowUp ==
  ASSUME NewsInvariant, NEW r \in Requests, Committed(r), call'[r] = call[r]
  PROVE  Committed(r)' /\ (call[r].todo # <<>> => call'[r].todo # <<>>)
BY DEF Committed

LEMMA RestartFollowsUp ==
  ASSUME NewsInvariant, NEW r \in Requests, Committed(r), Restart
  PROVE  /\ Committed(r)'
         /\ call[r].todo # <<>> /\ call'[r].todo = <<>> => call'[r].reply = "lost"
<1>1. CASE call'[r] = call[r]
  BY <1>1, OthersFollowUp
<1>2. CASE call'[r] # call[r]
  <2>1. call'[r] = [call[r] EXCEPT !.todo = <<>>, !.reply = "lost"]
    BY <1>2 DEF Restart
  <2>2. call[r] \in CallRecord
    BY CommitIsBehind
  <2>3. call'[r].todo = <<>> /\ call'[r].reply = "lost" /\ call'[r] \in CallRecord
    BY <2>1, <2>2, EmptyIsSteps DEF CallRecord
  <2>. QED
    BY <2>3, NoCallAssumption DEF Committed
<1>. QED
  BY <1>1, <1>2

LEMMA NextFollowsUp ==
  ASSUME NewsInvariant, Next, NEW r \in Requests, Committed(r)
  PROVE  /\ Committed(r)'
         /\ call[r].todo # <<>> /\ call'[r].todo = <<>> =>
              \/ call'[r].reply = "lost"
              \/ call[r].asked \in unannounced'
              \/ Nameless(call[r].asked)
              \/ \A k \in Sockets :
                   session[k] # None /\ call[r].asked.competition \in session[k].rooms
                     => call[r].asked \in session'[k].heard
<1>1. CASE Handle(r)
  BY <1>1, HandleFollowsUp
<1>2. CASE \E q \in Requests : q # r /\ (Handle(q) \/ \E a \in Asked : Ask(q, a))
  <2>1. PICK q \in Requests : q # r /\ (Handle(q) \/ \E a \in Asked : Ask(q, a))
    BY <1>2
  <2>2. call'[r] = call[r]
    BY <2>1 DEF Handle, Ask, Commit, Reject, Derive, SnapshotFails, UserGone, UserFails, Emit, EmitFails,
                Answer, Proceed, Throw, NewsInvariant, TypeOK
  <2>. QED
    BY <2>2, OthersFollowUp
<1>3. CASE \E k \in Sockets :
             \/ \E u \in Users : Connect(k, u)
             \/ \E c \in Competitions : RequireMember(k, c) \/ EnterRoom(k, c)
             \/ Disconnect(k)
  <2>1. call'[r] = call[r]
    BY <1>3 DEF Connect, RequireMember, EnterRoom, Disconnect
  <2>. QED
    BY <2>1, OthersFollowUp
<1>4. CASE Restart
  BY <1>4, RestartFollowsUp
<1>5. CASE (\E c \in Competitions : DeleteCompetition(c)) \/ (\E u \in Users : RemoveUser(u))
  <2>1. call'[r] = call[r]
    BY <1>5 DEF DeleteCompetition, RemoveUser, live
  <2>. QED
    BY <2>1, OthersFollowUp
<1>. QED
  BY <1>1, <1>2, <1>3, <1>4, <1>5, CommitIsBehind DEF Next

\* Whatever fails after the commit of a call, and at whatever moment, the call does not
\* turn into an error, and it is over only when its room has heard, or the log, the end of
\* the server or the removal of the joined player says why not (settleMarket and
\* joinCompetition after $transaction, afterUserJoined).
THEOREM CommitsAreNotForgotten == Spec => CommitsAreFollowedUp
<1>1. ASSUME NewsInvariant, [Next]_vars
      PROVE  [\A r \in Requests : Committed(r) =>
                /\ Committed(r)'
                /\ call[r].todo # <<>> /\ call'[r].todo = <<>> =>
                     \/ call'[r].reply = "lost"
                     \/ call[r].asked \in unannounced'
                     \/ Nameless(call[r].asked)
                     \/ \A k \in Sockets :
                          session[k] # None /\ call[r].asked.competition \in session[k].rooms
                            => call[r].asked \in session'[k].heard]_vars
  BY <1>1, NextFollowsUp
<1>. QED
  BY <1>1, NewsIsKept, PTL DEF Spec, CommitsAreFollowedUp

=============================================================================
