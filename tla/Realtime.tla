------------------------------ MODULE Realtime ------------------------------
(***************************************************************************)
(* What happens around a commit: the realtime gateway with its sockets and *)
(* rooms, and the part of each handler that follows its transaction.  That *)
(* part runs in the memory of one server and dies with it: a settlement    *)
(* takes its snapshot, a join reads the name of the player, and then an    *)
(* event goes to the room of the competition.                              *)
(*                                                                         *)
(* As in Leaderboard the transactions are the steps of Wagering (theorem   *)
(* Implements).  Stakes, undos and openMarket emit nothing and are left    *)
(* out; so is team_created, whose teams are rows of Setup.                 *)
(*                                                                         *)
(* A competition may be deleted, and a user may be removed from the        *)
(* database the API shares with the server that logs users in.  Both       *)
(* cascade to the rows of Tables, which keep here what was committed: what *)
(* is left of it are the rows of nobody and nothing deleted.               *)
(***************************************************************************)
EXTENDS Tables, Sequences

CONSTANT Sockets      \* socket.io connections that clients may hold

VARIABLES
  deleted,        \* the competitions that are gone, with all of their rows
  removed,        \* the users that are gone, with all of their rows
  call,           \* a request: what it asks, what is left to do, its reply
  session,        \* a socket: its user, its rooms and what it has heard
  unannounced     \* events whose emission failed, which the server only logs

database == <<tables, deleted, removed>>
live == <<call, session, unannounced>>

Game == INSTANCE Wagering

\* A fault the runs must expose: a settlement is announced while its
\* transaction may still fail.
StepsEmitFirst ==
  [create |-> <<"commit", "emit">>,
   close  |-> <<"commit", "emit">>,
   settle |-> <<"emit", "commit", "snapshot">>,
   join   |-> <<"commit", "user", "emit">>]

\* The steps of each handler, in order.
Steps ==
  [create |-> <<"commit", "emit">>,
   close  |-> <<"commit", "emit">>,
   settle |-> <<"commit", "snapshot", "emit">>,
   join   |-> <<"commit", "user", "emit">>]

\* What a request asks; an event repeats it to the room.  A settlement names
\* its winner, the other calls on a market name the market itself.
Asked ==
  [kind : {"create", "close"}, competition : Competitions, subject : Markets]
    \cup [kind : {"settle"}, competition : Competitions, subject : Selections]
    \cup [kind : {"join"}, competition : Competitions, subject : Users]

StepNames == {"commit", "snapshot", "user", "emit"}

CallRecord == [asked : Asked, todo : Seq(StepNames), reply : {None, "ok", "error", "lost"}]

ASSUME NoCallAssumption == None \notin CallRecord

Session == [user : Users, admitted : SUBSET Competitions,
            rooms : SUBSET Competitions, heard : SUBSET Asked]

Init ==
  /\ Game!Init
  /\ deleted = {}
  /\ removed = {}
  /\ call = [r \in Requests |-> None]
  /\ session = [k \in Sockets |-> None]
  /\ unannounced = {}

-----------------------------------------------------------------------------
(* The handlers. *)

\* The admin calls name a market of the competition they came to.
Ask(r, a) ==
  /\ call[r] = None
  /\ a.kind \in {"create", "close"} => CompetitionOf[a.subject] = a.competition
  /\ a.kind = "settle" => CompetitionOf[MarketOf[a.subject]] = a.competition
  /\ call' = [call EXCEPT ![r] = [asked |-> a, todo |-> Steps[a.kind], reply |-> None]]
  /\ UNCHANGED <<database, session, unannounced>>

At(r, step) ==
  /\ call[r] # None
  /\ call[r].todo # <<>>
  /\ Head(call[r].todo) = step

\* The handler goes on to its next step, or returns what it has prepared.
Proceed(r) == call' = [call EXCEPT ![r].todo = Tail(@)]

\* The handler throws: what is left of it is not done.
Throw(r) == call' = [call EXCEPT ![r].todo = <<>>, ![r].reply = "error"]

\* $transaction resolves.
Commit(r) ==
  LET a == call[r].asked IN
  /\ At(r, "commit")
  /\ a.competition \notin deleted
  /\ a.kind = "join" => a.subject \notin removed
  /\ \/ a.kind = "create" /\ Game!Create(a.subject)
     \/ a.kind = "close" /\ Game!Close(a.subject)
     \/ a.kind = "settle" /\ Game!Settle(a.subject, r)
     \/ a.kind = "join" /\ Game!Join(a.competition, a.subject, r)
  /\ Proceed(r)
  /\ UNCHANGED <<deleted, removed, session, unannounced>>

\* $transaction rejects, because the rules refuse the call, because what it speaks of
\* is gone, or because the database rolled it back.
Reject(r) ==
  /\ At(r, "commit")
  /\ Throw(r)
  /\ UNCHANGED <<database, session, unannounced>>

\* createSnapshot succeeds, or findUnique finds the player's display name.
Derive(r) ==
  /\ At(r, "snapshot") \/ (At(r, "user") /\ call[r].asked.subject \notin removed)
  /\ Proceed(r)
  /\ UNCHANGED <<database, session, unannounced>>

\* findUnique finds no player: afterUserJoined returns and says nothing.
UserGone(r) ==
  /\ At(r, "user")
  /\ call[r].asked.subject \in removed
  /\ call' = [call EXCEPT ![r].todo = <<>>]
  /\ UNCHANGED <<database, session, unannounced>>

\* A fault the runs must expose: a failed snapshot fails the settlement.
SnapshotFailsThrowing(r) ==
  /\ At(r, "snapshot")
  /\ Throw(r)
  /\ UNCHANGED <<database, session, unannounced>>

\* A fault the runs must expose: snapshot and event share one try block.
SnapshotFailsSilently(r) ==
  /\ At(r, "snapshot")
  /\ call' = [call EXCEPT ![r].todo = <<>>]
  /\ UNCHANGED <<database, session, unannounced>>

\* createSnapshot fails: settleMarket logs it and goes on.
SnapshotFails(r) ==
  /\ At(r, "snapshot")
  /\ Proceed(r)
  /\ UNCHANGED <<database, session, unannounced>>

\* afterUserJoined fails before its event: joinCompetition logs it and returns.
UserFails(r) ==
  /\ At(r, "user")
  /\ call' = [call EXCEPT ![r].todo = <<>>]
  /\ unannounced' = unannounced \cup {call[r].asked}
  /\ UNCHANGED <<database, session>>

\* emitToCompetition: every socket in the room hears of it.
Emit(r) ==
  LET a == call[r].asked IN
  /\ At(r, "emit")
  /\ session' = [k \in Sockets |->
       IF session[k] # None /\ a.competition \in session[k].rooms
       THEN [session[k] EXCEPT !.heard = @ \cup {a}]
       ELSE session[k]]
  /\ Proceed(r)
  /\ UNCHANGED <<database, unannounced>>

\* emit throws: emitToCompetition logs it and returns.
EmitFails(r) ==
  /\ At(r, "emit")
  /\ Proceed(r)
  /\ unannounced' = unannounced \cup {call[r].asked}
  /\ UNCHANGED <<database, session>>

Answer(r) ==
  /\ call[r] # None
  /\ call[r].todo = <<>>
  /\ call[r].reply = None
  /\ call' = [call EXCEPT ![r].reply = "ok"]
  /\ UNCHANGED <<database, session, unannounced>>

-----------------------------------------------------------------------------
(* What ends a membership. *)

\* A row of CompetitionMember that is still there.
IsMember(c, u) == <<c, u>> \in member /\ c \notin deleted /\ u \notin removed

\* The host or an admin deletes the competition.  Nobody tells the sockets in its room.
DeleteCompetition(c) ==
  /\ c \notin deleted
  /\ deleted' = deleted \cup {c}
  /\ UNCHANGED <<tables, removed, live>>

\* Nothing in the API removes a user.  Who has created a competition cannot go before it
\* (createdBy has no onDelete).
RemoveUser(u) ==
  /\ u \notin removed
  /\ \A c \in Competitions : Host[c] = u => c \in deleted
  /\ removed' = removed \cup {u}
  /\ UNCHANGED <<tables, deleted, live>>

-----------------------------------------------------------------------------
(* The gateway. *)

\* A fault the runs must expose: the middleware forgets who the socket is.
ConnectAnonymous(k, u) ==
  /\ session[k] = None
  /\ session' = [session EXCEPT ![k] =
       [user |-> None, admitted |-> {}, rooms |-> {}, heard |-> {}]]
  /\ UNCHANGED <<database, call, unannounced>>

\* The middleware lets a socket in once its token is verified.
Connect(k, u) ==
  /\ session[k] = None
  /\ session' = [session EXCEPT ![k] =
       [user |-> u, admitted |-> {}, rooms |-> {}, heard |-> {}]]
  /\ UNCHANGED <<database, call, unannounced>>

\* A fault the runs must expose: whoever is logged in is let into a room.
RequireMemberTrusting(k, c) ==
  /\ session[k] # None
  /\ session' = [session EXCEPT ![k].admitted = @ \cup {c}]
  /\ UNCHANGED <<database, call, unannounced>>

\* handleJoinCompetitionRoom awaits requireGameCompetition; a socket whose user
\* is not a member gets an exception and nothing changes.
RequireMember(k, c) ==
  /\ session[k] # None
  /\ IsMember(c, session[k].user)
  /\ session' = [session EXCEPT ![k].admitted = @ \cup {c}]
  /\ UNCHANGED <<database, call, unannounced>>

\* client.join, which does nothing once the socket is gone, and asks nothing again.
EnterRoom(k, c) ==
  /\ session[k] # None
  /\ c \in session[k].admitted
  /\ session' = [session EXCEPT ![k].admitted = @ \ {c}, ![k].rooms = @ \cup {c}]
  /\ UNCHANGED <<database, call, unannounced>>

\* socket.io takes a socket that is gone out of its rooms.
Disconnect(k) ==
  /\ session[k] # None
  /\ session' = [session EXCEPT ![k] = None]
  /\ UNCHANGED <<database, call, unannounced>>

\* The server stops and comes back: the database rolls back what was open, the
\* rest of each handler, the sockets and their rooms are gone.
Restart ==
  /\ call' = [r \in Requests |->
       IF call[r] # None /\ call[r].reply = None
       THEN [call[r] EXCEPT !.todo = <<>>, !.reply = "lost"]
       ELSE call[r]]
  /\ session' = [k \in Sockets |-> None]
  /\ UNCHANGED <<database, unannounced>>

-----------------------------------------------------------------------------
Handle(r) ==
  \/ Commit(r) \/ Reject(r)
  \/ Derive(r) \/ SnapshotFails(r) \/ UserGone(r) \/ UserFails(r)
  \/ Emit(r) \/ EmitFails(r)
  \/ Answer(r)

Next ==
  \/ \E r \in Requests : Handle(r) \/ \E a \in Asked : Ask(r, a)
  \/ \E k \in Sockets :
       \/ \E u \in Users : Connect(k, u)
       \/ \E c \in Competitions : RequireMember(k, c) \/ EnterRoom(k, c)
       \/ Disconnect(k)
  \/ \E c \in Competitions : DeleteCompetition(c)
  \/ \E u \in Users : RemoveUser(u)
  \/ Restart

vars == <<database, live>>

Spec == Init /\ [][Next]_vars

\* A handler that can go on does: the event loop runs every continuation, and
\* the database and the pool end what they were asked.  Nothing is assumed of
\* the clients, and a restart may come at any time.
FairSpec == Spec /\ \A r \in Requests : WF_vars(Handle(r))

-----------------------------------------------------------------------------
TypeOK ==
  /\ TablesTypeOK
  /\ deleted \subseteq Competitions /\ removed \subseteq Users
  /\ call \in [Requests -> CallRecord \cup {None}]
  /\ session \in [Sockets -> Session \cup {None}]
  /\ unannounced \subseteq Asked

\* What an event says was committed.
Fact(e) ==
  CASE e.kind = "create" -> status[e.subject] # "ABSENT"
    [] e.kind = "close"  -> status[e.subject] \in {"CLOSED", "SETTLED"}
    [] e.kind = "settle" -> /\ status[MarketOf[e.subject]] = "SETTLED"
                            /\ selection[e.subject] = "WINNER"
    [] e.kind = "join"   -> <<e.competition, e.subject>> \in member

\* Whatever a client has heard is committed, and stays so until the competition is
\* deleted: no market is announced as closed or settled, and no player as joined, by a
\* call whose transaction fails, is rolled back or finds its competition gone, whatever
\* runs next to it ("A failed database transaction must never emit a successful 'member
\* joined' event", competitions.service.ts:307).
EventsAreTrue ==
  \A k \in Sockets : session[k] # None => \A e \in session[k].heard : Fact(e)

\* Whoever is in a room, or has heard of its competition, is a member, unless the
\* competition or the user has been deleted: the deletion takes the members but not the
\* sockets in the room, and one that comes between the check of the membership and
\* client.join lets a socket into the room that is nobody's any more
\* (handleJoinCompetitionRoom).
OnlyMembersHear ==
  \A k \in Sockets : session[k] # None =>
    \A c \in session[k].rooms \cup {e.competition : e \in session[k].heard} :
      IsMember(c, session[k].user) \/ c \in deleted \/ session[k].user \in removed

Committed(r) ==
  /\ call[r] # None
  /\ call[r].reply # "error"
  /\ \A i \in 1 .. Len(call[r].todo) : call[r].todo[i] # "commit"

\* A call whose transaction has committed is answered with success, whether its
\* snapshot, the player's name or its event failed, unless the server stops
\* ("They are not allowed to turn successful settlement into an HTTP failure",
\* markets.service.ts:497).
CommittedCallsSucceed ==
  \A r \in Requests :
    Committed(r) ~> (call[r] # None /\ call[r].reply \in {"ok", "lost"})

\* The player whose name the event would give has been removed.
Nameless(a) == a.kind = "join" /\ a.subject \in removed

\* A client that is in the room when a transaction commits hears of it, even if
\* the snapshot of the settlement failed in between or the competition is deleted,
\* unless the client leaves, the server stops, the emission itself failed and is in
\* the log, or the player who has joined is removed before the name is read.
RoomsHear ==
  \A r \in Requests, k \in Sockets :
    (/\ Committed(r)
     /\ call[r].todo # <<>>
     /\ session[k] # None
     /\ call[r].asked.competition \in session[k].rooms)
    ~> (/\ call[r] # None
        /\ \/ session[k] = None
           \/ call[r].asked \in session[k].heard
           \/ call[r].asked \in unannounced
           \/ Nameless(call[r].asked))

\* What the two properties above need step by step: a handler that has committed
\* cannot turn into an error, and it comes to the end of its steps only by telling
\* every socket in the room, by an event that is in the log as failed, because the
\* server stopped, or because the player who has joined was removed in between (the try
\* blocks of settleMarket and of joinCompetition, and the early return of
\* afterUserJoined).
CommitsAreFollowedUp ==
  [][\A r \in Requests : Committed(r) =>
       /\ Committed(r)'
       /\ call[r].todo # <<>> /\ call'[r].todo = <<>> =>
            \/ call'[r].reply = "lost"
            \/ call[r].asked \in unannounced'
            \/ Nameless(call[r].asked)
            \/ \A k \in Sockets :
                 session[k] # None /\ call[r].asked.competition \in session[k].rooms
                   => call[r].asked \in session'[k].heard]_vars

=============================================================================
