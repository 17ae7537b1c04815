-------------------------- MODULE RowLocks_proofs ---------------------------
(***************************************************************************)
(* The handlers but the edits of teams lock their rows in one order, so    *)
(* they never wait for each other in a circle, and the deletion of the     *)
(* competition leaves no row.                                              *)
(* How far a transaction is, is told by the demands it has left and the    *)
(* locks it has; what follows from that for whoever it waits for needs no  *)
(* more than the tables of the rows.                                       *)
(***************************************************************************)
EXTENDS RowLocks, SequenceTheorems, TLAPS

-----------------------------------------------------------------------------
(* Rows and locks. *)

L(row, mode) == [row |-> row, mode |-> mode]

TableOf(row) == row[1]

LEMMA Tables ==
  ASSUME NEW x
  PROVE  /\ TableOf(Competition) = "competition" /\ TableOf(Market(x)) = "market"
         /\ TableOf(Wallet(x)) = "member" /\ TableOf(Bet(x)) = "bet"
         /\ TableOf(Team(x)) = "team" /\ TableOf(Snapshot(x)) = "snapshot"
         /\ TableOf(Name(x)) = "name"
         /\ Bet(x)[2] = x
BY DEF TableOf, Competition, Market, Wallet, Bet, Team, Snapshot, Name

-----------------------------------------------------------------------------
(* How far a transaction is: demands s left, locks H, inserted rows F.      *)

\* The foreign key of the new row, if that is left, and the touch of the competition.
Closing(s, H, G) ==
  \/ s = <<Reference, Touch>> /\ H = G
  \/ s = <<Touch>> /\ H = G \cup {L(Competition, "key")}
  \/ s = <<>> /\ H = G \cup {L(Competition, "key"), L(Competition, "update")}

Placing(k, u, s, H) ==
  LET m == L(Market(MarketOf[k]), "update")
      w == L(Wallet(u), "lock")
  IN  \/ s = PlaceBet(k, u) /\ H = {}
      \/ s = <<Need(Wallet(u), "lock"), Insert(Bet(k)), Reference, Touch>> /\ H = {m}
      \/ s = <<Insert(Bet(k)), Reference, Touch>> /\ H = {m, w}
      \/ Closing(s, H, {m, w, L(Bet(k), "lock")})

Undoing(k, s, H) ==
  LET m == L(Market(MarketOf[k]), "update") IN
  \/ s = UndoBet(k) /\ H = {}
  \/ s = <<Need(Bet(k), "update"), Reference, Touch>> /\ H = {m}
  \/ Closing(s, H, {m, L(Bet(k), "update")})

Creating(m, t, s, H) ==
  LET x == L(Market(m), "lock")
      c == L(Competition, "key")
      y == L(Team(t), "key")
  IN  \/ s = CreateMarket(m, t) /\ H = {}
      \/ s = <<Reference, Need(Team(t), "key"), Touch>> /\ H = {x}
      \/ s = <<Need(Team(t), "key"), Touch>> /\ H = {x, c}
      \/ s = <<Touch>> /\ H = {x, c, y}
      \/ s = <<>> /\ H = {x, c, y, L(Competition, "update")}

Changing(m, s, H) ==
  LET x == L(Market(m), "update") IN
  \/ s = ChangeMarket(m) /\ H = {}
  \/ s = <<Touch>> /\ H = {x}
  \/ s = <<>> /\ H = {x, L(Competition, "update")}

BetsOf(m) == {Bet(k) : k \in {x \in Keys : MarketOf[x] = m}}

\* A settlement, with bets it has locked and others it has not come to.
Settling(m, s, H) ==
  \/ s = SettleMarket(m) /\ H = {}
  \/ \E done \in SUBSET BetsOf(m) :
       LET G == {L(Market(m), "update")} \cup {L(b, "update") : b \in done} IN
       \/ \E left \in SUBSET BetsOf(m) :
            \/ s = <<Each(left, "update"), Reference, Touch>> /\ H = G
            \/ \E b \in BetsOf(m) :
                 s = <<Need(b, "update"), Each(left, "update"), Reference, Touch>> /\ H = G
       \/ Closing(s, H, G)

Recording(m, s, H) ==
  LET x == L(Snapshot(m), "lock")
      c == L(Competition, "key")
  IN  \/ s = CreateSnapshot(m) /\ H = {}
      \/ s = <<Reference, Need(Market(m), "key")>> /\ H = {x}
      \/ s = <<Need(Market(m), "key")>> /\ H = {x, c}
      \/ s = <<>> /\ H = {x, c, L(Market(m), "key")}

Joining(u, s, H) ==
  \/ s = JoinCompetition(u) /\ H = {}
  \/ \E mode \in {"update", "lock"} : Closing(s, H, {L(Wallet(u), mode)})

Seeing(u, s, H, F) ==
  /\ F = {}
  /\ \/ s = MarkSeen(u) /\ H = {}
     \/ s = <<>> /\ H = {L(Wallet(u), "update")}

NamesOf(names) == {Name(w) : w \in names}

\* A creation of teams, with names it has claimed and others it has not come to.
Adding(t, names, s, H) ==
  \/ s = CreateTeams(t, names) /\ H = {}
  \/ \E done \in SUBSET NamesOf(names) :
       LET G == {L(Competition, "lock")} \cup {L(n, "lock") : n \in done} IN
       \/ \E left \in SUBSET NamesOf(names) :
            \/ s = <<Each(left, "lock"), Insert(Team(t))>> /\ H = G
            \/ \E n \in NamesOf(names) :
                 s = <<Need(n, "lock"), Each(left, "lock"), Insert(Team(t))>> /\ H = G
       \/ s = <<Insert(Team(t))>> /\ H = G
       \/ s = <<>> /\ H = G \cup {L(Team(t), "lock")}

\* An edit has inserted nothing, and the competition is nowhere among its rows.
Editing(t, old, new, s, H, F) ==
  LET x == L(Team(t), "lock")
      y == L(Name(old), "lock")
  IN  /\ F = {}
      /\ \/ s = EditTeam(t, old, new) /\ H = {}
         \/ s = <<Need(Name(old), "lock"), Need(Name(new), "lock")>> /\ H = {x}
         \/ s = <<Need(Name(new), "lock")>> /\ H = {x, y}
         \/ s = <<>> /\ H = {x, y, L(Name(new), "lock")}

Handling(s, H, F) ==
  \/ \E k \in Keys, u \in Users : Placing(k, u, s, H)
  \/ \E k \in Keys : Undoing(k, s, H)
  \/ \E m \in Markets, t \in Teams : Creating(m, t, s, H)
  \/ \E m \in Markets : Changing(m, s, H) \/ Settling(m, s, H) \/ Recording(m, s, H)
  \/ \E u \in Users : Joining(u, s, H) \/ Seeing(u, s, H, F)
  \/ \E t \in Teams, names \in SUBSET Names : Adding(t, names, s, H)

\* The lock that meets demand d for a row of it, and whether the row is new.
Meets(d, lock, new) ==
  /\ d.as # "any" /\ d.rows = {lock.row}
  /\ d.as = "new" => new
  /\ d.as = "there" => ~new
  /\ lock.mode = IF new THEN "lock" ELSE d.mode
  /\ new \in BOOLEAN

-----------------------------------------------------------------------------
(* What meeting a demand leads to. *)

LEMMA SingleDemand ==
  ASSUME NEW row, NEW mode
  PROVE  /\ Need(row, mode).rows = {row} /\ Need(row, mode).mode = mode
         /\ Need(row, mode).as = "there"
         /\ Insert(row).rows = {row} /\ Insert(row).mode = "lock" /\ Insert(row).as = "new"
         /\ Upsert(row).rows = {row} /\ Upsert(row).mode = "update" /\ Upsert(row).as = "either"
BY DEF Need, Insert, Upsert

LEMMA ManyDemand ==
  ASSUME NEW rows, NEW mode
  PROVE  /\ Each(rows, mode).rows = rows /\ Each(rows, mode).mode = mode
         /\ Each(rows, mode).as = "any"
BY DEF Each

\* A single row is met by one lock, of that row.
LEMMA MeetsNeed ==
  ASSUME NEW row, NEW mode, NEW lock \in [row : Rows, mode : Modes], NEW new
  PROVE  /\ Meets(Need(row, mode), lock, new) => lock = L(row, mode) /\ ~new
         /\ Meets(Insert(row), lock, new) => lock = L(row, "lock")
         /\ Meets(Upsert(row), lock, new) => lock = L(row, "lock") \/ lock = L(row, "update")
<1>1. lock = L(lock.row, lock.mode)
  BY DEF L
<1>2. Meets(Need(row, mode), lock, new) => lock.row = row /\ lock.mode = mode /\ ~new
  BY DEF Meets, Need
<1>3. Meets(Insert(row), lock, new) => lock.row = row /\ lock.mode = "lock"
  BY DEF Meets, Insert
<1>4. Meets(Upsert(row), lock, new) => lock.row = row /\ lock.mode \in {"lock", "update"}
  BY DEF Meets, Upsert
<1>. QED
  BY <1>1, <1>2, <1>3, <1>4

\* A statement for several rows locks none as a whole.
LEMMA MeetsNoEach ==
  ASSUME NEW rows, NEW mode, NEW lock, NEW new
  PROVE  ~Meets(Each(rows, mode), lock, new)
BY DEF Meets, Each

LEMMA ClosingGoesOn ==
  ASSUME NEW s, NEW H, NEW G, Closing(s, H, G), s # <<>>,
         NEW lock \in [row : Rows, mode : Modes], NEW new, Meets(Head(s), lock, new)
  PROVE  Closing(Tail(s), H \cup {lock}, G)
<1>1. CASE s = <<Reference, Touch>> /\ H = G
  <2>1. Head(s) = Reference /\ Tail(s) = <<Touch>>
    BY <1>1
  <2>2. lock = L(Competition, "key")
    BY <2>1, MeetsNeed DEF Reference
  <2>. QED
    BY <1>1, <2>1, <2>2 DEF Closing
<1>2. CASE s = <<Touch>> /\ H = G \cup {L(Competition, "key")}
  <2>1. Head(s) = Touch /\ Tail(s) = <<>>
    BY <1>2
  <2>2. lock = L(Competition, "update")
    BY <2>1, MeetsNeed DEF Touch
  <2>. QED
    BY <1>2, <2>1, <2>2 DEF Closing
<1>. QED
  BY <1>1, <1>2 DEF Closing

LEMMA PlacingGoesOn ==
  ASSUME NEW k, NEW u, NEW s, NEW H, Placing(k, u, s, H), s # <<>>,
         NEW lock \in [row : Rows, mode : Modes], NEW new, Meets(Head(s), lock, new)
  PROVE  Placing(k, u, Tail(s), H \cup {lock})
<1> DEFINE m == L(Market(MarketOf[k]), "update")
           w == L(Wallet(u), "lock")
<1>1. CASE s = PlaceBet(k, u) /\ H = {}
  <2>1. /\ Head(s) = Need(Market(MarketOf[k]), "update")
        /\ Tail(s) = <<Need(Wallet(u), "lock"), Insert(Bet(k)), Reference, Touch>>
    BY <1>1 DEF PlaceBet
  <2>2. lock = m
    BY <2>1, MeetsNeed
  <2>. QED
    BY <1>1, <2>1, <2>2 DEF Placing
<1>2. CASE s = <<Need(Wallet(u), "lock"), Insert(Bet(k)), Reference, Touch>> /\ H = {m}
  <2>1. Head(s) = Need(Wallet(u), "lock") /\ Tail(s) = <<Insert(Bet(k)), Reference, Touch>>
    BY <1>2
  <2>2. lock = w
    BY <2>1, MeetsNeed
  <2>3. H \cup {lock} = {m, w}
    BY <1>2, <2>2
  <2>. QED
    BY <2>1, <2>3 DEF Placing
<1>3. CASE s = <<Insert(Bet(k)), Reference, Touch>> /\ H = {m, w}
  <2>1. Head(s) = Insert(Bet(k)) /\ Tail(s) = <<Reference, Touch>>
    BY <1>3
  <2>2. lock = L(Bet(k), "lock")
    BY <2>1, MeetsNeed
  <2>3. H \cup {lock} = {m, w, L(Bet(k), "lock")}
    BY <1>3, <2>2
  <2>. QED
    BY <2>1, <2>3 DEF Placing, Closing
<1>4. CASE Closing(s, H, {m, w, L(Bet(k), "lock")})
  BY <1>4, ClosingGoesOn DEF Placing
<1>. QED
  BY <1>1, <1>2, <1>3, <1>4 DEF Placing

LEMMA UndoingGoesOn ==
  ASSUME NEW k, NEW s, NEW H, Undoing(k, s, H), s # <<>>,
         NEW lock \in [row : Rows, mode : Modes], NEW new, Meets(Head(s), lock, new)
  PROVE  Undoing(k, Tail(s), H \cup {lock})
<1> DEFINE m == L(Market(MarketOf[k]), "update")
<1>1. CASE s = UndoBet(k) /\ H = {}
  <2>1. /\ Head(s) = Need(Market(MarketOf[k]), "update")
        /\ Tail(s) = <<Need(Bet(k), "update"), Reference, Touch>>
    BY <1>1 DEF UndoBet
  <2>2. lock = m
    BY <2>1, MeetsNeed
  <2>. QED
    BY <1>1, <2>1, <2>2 DEF Undoing
<1>2. CASE s = <<Need(Bet(k), "update"), Reference, Touch>> /\ H = {m}
  <2>1. Head(s) = Need(Bet(k), "update") /\ Tail(s) = <<Reference, Touch>>
    BY <1>2
  <2>2. lock = L(Bet(k), "update")
    BY <2>1, MeetsNeed
  <2>3. H \cup {lock} = {m, L(Bet(k), "update")}
    BY <1>2, <2>2
  <2>. QED
    BY <2>1, <2>3 DEF Undoing, Closing
<1>3. CASE Closing(s, H, {m, L(Bet(k), "update")})
  BY <1>3, ClosingGoesOn DEF Undoing
<1>. QED
  BY <1>1, <1>2, <1>3 DEF Undoing

LEMMA CreatingGoesOn ==
  ASSUME NEW m, NEW t, NEW s, NEW H, Creating(m, t, s, H), s # <<>>,
         NEW lock \in [row : Rows, mode : Modes], NEW new, Meets(Head(s), lock, new)
  PROVE  Creating(m, t, Tail(s), H \cup {lock})
<1> DEFINE x == L(Market(m), "lock")
           c == L(Competition, "key")
           y == L(Team(t), "key")
<1>1. CASE s = CreateMarket(m, t) /\ H = {}
  <2>1. /\ Head(s) = Insert(Market(m))
        /\ Tail(s) = <<Reference, Need(Team(t), "key"), Touch>>
    BY <1>1 DEF CreateMarket
  <2>2. lock = x
    BY <2>1, MeetsNeed
  <2>. QED
    BY <1>1, <2>1, <2>2 DEF Creating
<1>2. CASE s = <<Reference, Need(Team(t), "key"), Touch>> /\ H = {x}
  <2>1. Head(s) = Reference /\ Tail(s) = <<Need(Team(t), "key"), Touch>>
    BY <1>2
  <2>2. lock = c
    BY <2>1, MeetsNeed DEF Reference
  <2>3. H \cup {lock} = {x, c}
    BY <1>2, <2>2
  <2>. QED
    BY <2>1, <2>3 DEF Creating
<1>3. CASE s = <<Need(Team(t), "key"), Touch>> /\ H = {x, c}
  <2>1. Head(s) = Need(Team(t), "key") /\ Tail(s) = <<Touch>>
    BY <1>3
  <2>2. lock = y
    BY <2>1, MeetsNeed
  <2>3. H \cup {lock} = {x, c, y}
    BY <1>3, <2>2
  <2>. QED
    BY <2>1, <2>3 DEF Creating
<1>4. CASE s = <<Touch>> /\ H = {x, c, y}
  <2>1. Head(s) = Touch /\ Tail(s) = <<>>
    BY <1>4
  <2>2. lock = L(Competition, "update")
    BY <2>1, MeetsNeed DEF Touch
  <2>3. H \cup {lock} = {x, c, y, L(Competition, "update")}
    BY <1>4, <2>2
  <2>. QED
    BY <2>1, <2>3 DEF Creating
<1>. QED
  BY <1>1, <1>2, <1>3, <1>4 DEF Creating

LEMMA ChangingGoesOn ==
  ASSUME NEW m, NEW s, NEW H, Changing(m, s, H), s # <<>>,
         NEW lock \in [row : Rows, mode : Modes], NEW new, Meets(Head(s), lock, new)
  PROVE  Changing(m, Tail(s), H \cup {lock})
<1> DEFINE x == L(Market(m), "update")
<1>1. CASE s = ChangeMarket(m) /\ H = {}
  <2>1. Head(s) = Need(Market(m), "update") /\ Tail(s) = <<Touch>>
    BY <1>1 DEF ChangeMarket
  <2>2. lock = x
    BY <2>1, MeetsNeed
  <2>. QED
    BY <1>1, <2>1, <2>2 DEF Changing
<1>2. CASE s = <<Touch>> /\ H = {x}
  <2>1. Head(s) = Touch /\ Tail(s) = <<>>
    BY <1>2
  <2>2. lock = L(Competition, "update")
    BY <2>1, MeetsNeed DEF Touch
  <2>3. H \cup {lock} = {x, L(Competition, "update")}
    BY <1>2, <2>2
  <2>. QED
    BY <2>1, <2>3 DEF Changing
<1>. QED
  BY <1>1, <1>2 DEF Changing

LEMMA SettlingGoesOn ==
  ASSUME NEW m, NEW s, NEW H, Settling(m, s, H), s # <<>>,
         NEW lock \in [row : Rows, mode : Modes], NEW new, Meets(Head(s), lock, new)
  PROVE  Settling(m, Tail(s), H \cup {lock})
<1> DEFINE G(done) == {L(Market(m), "update")} \cup {L(b, "update") : b \in done}
<1>1. CASE s = SettleMarket(m) /\ H = {}
  <2>1. /\ Head(s) = Need(Market(m), "update")
        /\ Tail(s) = <<Each(BetsOf(m), "update"), Reference, Touch>>
    BY <1>1 DEF SettleMarket, BetsOf
  <2>2. lock = L(Market(m), "update")
    BY <2>1, MeetsNeed
  <2>3. H \cup {lock} = G({})
    BY <1>1, <2>2
  <2>4. {} \in SUBSET BetsOf(m) /\ BetsOf(m) \in SUBSET BetsOf(m)
    OBVIOUS
  <2>. QED
    BY <2>1, <2>3, <2>4 DEF Settling
<1>2. ASSUME NEW done \in SUBSET BetsOf(m), NEW left \in SUBSET BetsOf(m),
             s = <<Each(left, "update"), Reference, Touch>>
      PROVE  FALSE
  <2>1. Head(s) = Each(left, "update")
    BY <1>2
  <2>. QED
    BY <2>1, MeetsNoEach
<1>3. ASSUME NEW done \in SUBSET BetsOf(m), NEW left \in SUBSET BetsOf(m),
             NEW b \in BetsOf(m), H = G(done),
             s = <<Need(b, "update"), Each(left, "update"), Reference, Touch>>
      PROVE  Settling(m, Tail(s), H \cup {lock})
  <2>1. Head(s) = Need(b, "update") /\ Tail(s) = <<Each(left, "update"), Reference, Touch>>
    BY <1>3
  <2>2. lock = L(b, "update")
    BY <2>1, MeetsNeed
  <2>3. H \cup {lock} = G(done \cup {b})
    BY <1>3, <2>2
  <2>4. done \cup {b} \in SUBSET BetsOf(m)
    BY <1>3
  <2>. QED
    BY <2>1, <2>3, <2>4 DEF Settling
<1>4. ASSUME NEW done \in SUBSET BetsOf(m), Closing(s, H, G(done))
      PROVE  Settling(m, Tail(s), H \cup {lock})
  <2>1. Closing(Tail(s), H \cup {lock}, G(done))
    BY <1>4, ClosingGoesOn
  <2>. QED
    BY <2>1 DEF Settling
<1>. QED
  BY <1>1, <1>2, <1>3, <1>4 DEF Settling

LEMMA RecordingGoesOn ==
  ASSUME NEW m, NEW s, NEW H, Recording(m, s, H), s # <<>>,
         NEW lock \in [row : Rows, mode : Modes], NEW new, Meets(Head(s), lock, new)
  PROVE  Recording(m, Tail(s), H \cup {lock})
<1> DEFINE x == L(Snapshot(m), "lock")
           c == L(Competition, "key")
<1>1. CASE s = CreateSnapshot(m) /\ H = {}
  <2>1. Head(s) = Insert(Snapshot(m)) /\ Tail(s) = <<Reference, Need(Market(m), "key")>>
    BY <1>1 DEF CreateSnapshot
  <2>2. lock = x
    BY <2>1, MeetsNeed
  <2>. QED
    BY <1>1, <2>1, <2>2 DEF Recording
<1>2. CASE s = <<Reference, Need(Market(m), "key")>> /\ H = {x}
  <2>1. Head(s) = Reference /\ Tail(s) = <<Need(Market(m), "key")>>
    BY <1>2
  <2>2. lock = c
    BY <2>1, MeetsNeed DEF Reference
  <2>3. H \cup {lock} = {x, c}
    BY <1>2, <2>2
  <2>. QED
    BY <2>1, <2>3 DEF Recording
<1>3. CASE s = <<Need(Market(m), "key")>> /\ H = {x, c}
  <2>1. Head(s) = Need(Market(m), "key") /\ Tail(s) = <<>>
    BY <1>3
  <2>2. lock = L(Market(m), "key")
    BY <2>1, MeetsNeed
  <2>3. H \cup {lock} = {x, c, L(Market(m), "key")}
    BY <1>3, <2>2
  <2>. QED
    BY <2>1, <2>3 DEF Recording
<1>. QED
  BY <1>1, <1>2, <1>3 DEF Recording

LEMMA JoiningGoesOn ==
  ASSUME NEW u, NEW s, NEW H, Joining(u, s, H), s # <<>>,
         NEW lock \in [row : Rows, mode : Modes], NEW new, Meets(Head(s), lock, new)
  PROVE  Joining(u, Tail(s), H \cup {lock})
<1>1. CASE s = JoinCompetition(u) /\ H = {}
  <2>1. Head(s) = Upsert(Wallet(u)) /\ Tail(s) = <<Reference, Touch>>
    BY <1>1 DEF JoinCompetition
  <2>2. lock = L(Wallet(u), "lock") \/ lock = L(Wallet(u), "update")
    BY <2>1, MeetsNeed
  <2>. QED
    BY <1>1, <2>1, <2>2 DEF Joining, Closing
<1>2. ASSUME NEW mode \in {"update", "lock"}, Closing(s, H, {L(Wallet(u), mode)})
      PROVE  Joining(u, Tail(s), H \cup {lock})
  <2>1. Closing(Tail(s), H \cup {lock}, {L(Wallet(u), mode)})
    BY <1>2, ClosingGoesOn
  <2>. QED
    BY <2>1 DEF Joining
<1>. QED
  BY <1>1, <1>2 DEF Joining

LEMMA SeeingGoesOn ==
  ASSUME NEW u, NEW s, NEW H, NEW F, Seeing(u, s, H, F), s # <<>>,
         NEW lock \in [row : Rows, mode : Modes], NEW new, Meets(Head(s), lock, new)
  PROVE  ~new /\ Seeing(u, Tail(s), H \cup {lock}, F)
<1>1. s = <<Need(Wallet(u), "update")>> /\ H = {} /\ F = {}
  BY DEF Seeing, MarkSeen
<1>2. Head(s) = Need(Wallet(u), "update") /\ Tail(s) = <<>>
  BY <1>1
<1>3. lock = L(Wallet(u), "update") /\ ~new
  BY <1>2, MeetsNeed
<1>. QED
  BY <1>1, <1>2, <1>3 DEF Seeing

LEMMA AddingGoesOn ==
  ASSUME NEW t, NEW names, NEW s, NEW H, Adding(t, names, s, H), s # <<>>,
         NEW lock \in [row : Rows, mode : Modes], NEW new, Meets(Head(s), lock, new)
  PROVE  Adding(t, names, Tail(s), H \cup {lock})
<1> DEFINE G(done) == {L(Competition, "lock")} \cup {L(n, "lock") : n \in done}
<1>1. CASE s = CreateTeams(t, names) /\ H = {}
  <2>1. /\ Head(s) = Need(Competition, "lock")
        /\ Tail(s) = <<Each(NamesOf(names), "lock"), Insert(Team(t))>>
    BY <1>1 DEF CreateTeams, NamesOf
  <2>2. lock = L(Competition, "lock")
    BY <2>1, MeetsNeed
  <2>3. H \cup {lock} = G({})
    BY <1>1, <2>2
  <2>4. {} \in SUBSET NamesOf(names) /\ NamesOf(names) \in SUBSET NamesOf(names)
    OBVIOUS
  <2>. QED
    BY <2>1, <2>3, <2>4 DEF Adding
<1>2. ASSUME NEW left, s = <<Each(left, "lock"), Insert(Team(t))>>
      PROVE  FALSE
  <2>1. Head(s) = Each(left, "lock")
    BY <1>2
  <2>. QED
    BY <2>1, MeetsNoEach
<1>3. ASSUME NEW done \in SUBSET NamesOf(names), NEW left \in SUBSET NamesOf(names),
             NEW n \in NamesOf(names), H = G(done),
             s = <<Need(n, "lock"), Each(left, "lock"), Insert(Team(t))>>
      PROVE  Adding(t, names, Tail(s), H \cup {lock})
  <2>1. Head(s) = Need(n, "lock") /\ Tail(s) = <<Each(left, "lock"), Insert(Team(t))>>
    BY <1>3
  <2>2. lock = L(n, "lock")
    BY <2>1, MeetsNeed
  <2>3. H \cup {lock} = G(done \cup {n})
    BY <1>3, <2>2
  <2>4. done \cup {n} \in SUBSET NamesOf(names)
    BY <1>3
  <2>. QED
    BY <2>1, <2>3, <2>4 DEF Adding
<1>4. ASSUME NEW done \in SUBSET NamesOf(names), s = <<Insert(Team(t))>>, H = G(done)
      PROVE  Adding(t, names, Tail(s), H \cup {lock})
  <2>1. Head(s) = Insert(Team(t)) /\ Tail(s) = <<>>
    BY <1>4
  <2>2. lock = L(Team(t), "lock")
    BY <2>1, MeetsNeed
  <2>. QED
    BY <1>4, <2>1, <2>2 DEF Adding
<1>. QED
  BY <1>1, <1>2, <1>3, <1>4 DEF Adding

LEMMA EditingGoesOn ==
  ASSUME NEW t, NEW old, NEW name, NEW s, NEW H, NEW F, Editing(t, old, name, s, H, F), s # <<>>,
         NEW lock \in [row : Rows, mode : Modes], NEW new, Meets(Head(s), lock, new)
  PROVE  ~new /\ Editing(t, old, name, Tail(s), H \cup {lock}, F)
<1> DEFINE x == L(Team(t), "lock")
           y == L(Name(old), "lock")
<1>1. CASE s = EditTeam(t, old, name) /\ H = {}
  <2>1. /\ Head(s) = Need(Team(t), "lock")
        /\ Tail(s) = <<Need(Name(old), "lock"), Need(Name(name), "lock")>>
    BY <1>1 DEF EditTeam
  <2>2. lock = x /\ ~new
    BY <2>1, MeetsNeed
  <2>. QED
    BY <1>1, <2>1, <2>2 DEF Editing
<1>2. CASE s = <<Need(Name(old), "lock"), Need(Name(name), "lock")>> /\ H = {x}
  <2>1. Head(s) = Need(Name(old), "lock") /\ Tail(s) = <<Need(Name(name), "lock")>>
    BY <1>2
  <2>2. lock = y /\ ~new
    BY <2>1, MeetsNeed
  <2>3. H \cup {lock} = {x, y}
    BY <1>2, <2>2
  <2>. QED
    BY <2>1, <2>2, <2>3 DEF Editing
<1>3. CASE s = <<Need(Name(name), "lock")>> /\ H = {x, y}
  <2>1. Head(s) = Need(Name(name), "lock") /\ Tail(s) = <<>>
    BY <1>3
  <2>2. lock = L(Name(name), "lock") /\ ~new
    BY <2>1, MeetsNeed
  <2>3. H \cup {lock} = {x, y, L(Name(name), "lock")}
    BY <1>3, <2>2
  <2>. QED
    BY <2>1, <2>2, <2>3 DEF Editing
<1>. QED
  BY <1>1, <1>2, <1>3 DEF Editing

\* A handler that has locked what it asked for is one statement on.
LEMMA HandlingGoesOn ==
  ASSUME NEW s, NEW H, NEW F, Handling(s, H, F), s # <<>>,
         NEW lock \in [row : Rows, mode : Modes], NEW new, Meets(Head(s), lock, new),
         NEW more, ~new => more = F
  PROVE  Handling(Tail(s), H \cup {lock}, more)
BY PlacingGoesOn, UndoingGoesOn, CreatingGoesOn, ChangingGoesOn, SettlingGoesOn,
   RecordingGoesOn, JoiningGoesOn, SeeingGoesOn, AddingGoesOn DEF Handling

-----------------------------------------------------------------------------
(* The order of the locks. *)

\* Whoever locks a bet has the market of the bet.
BetsInMarkets(H) ==
  \A h \in H : TableOf(h.row) = "bet" => L(Market(MarketOf[h.row[2]]), "update") \in H

\* Row w, asked for by a transaction with locks H, comes after all of them: market
\* before wallet before bet before competition, and a team or a name after the competition.
\* Only a snapshot goes back to its market, for the weakest of locks.
After(w, mode, H) ==
  /\ TableOf(w) = "bet" => L(Market(MarketOf[w[2]]), "update") \in H
  /\ TableOf(w) = "name" => L(Competition, "lock") \in H
  /\ H # {} =>
       /\ TableOf(w) \in {"market", "member", "bet", "competition", "team", "name"}
       /\ TableOf(w) = "competition" => mode # "lock"
       /\ TableOf(w) = "team" => mode = "key" \/ L(Competition, "lock") \in H
  /\ \A h \in H :
       /\ TableOf(h.row) = "market" => TableOf(w) \in {"member", "bet", "competition", "team"}
       /\ TableOf(h.row) \in {"member", "bet"} => TableOf(w) \in {"bet", "competition"}
       /\ TableOf(h.row) = "competition" =>
            h.mode = "key" \/ (h.mode = "lock" /\ TableOf(w) \in {"team", "name"})
       /\ TableOf(h.row) = "team" => h.mode = "key" /\ L(Competition, "key") \in H
       /\ TableOf(h.row) = "name" => L(Competition, "lock") \in H

\* The next demand is for the bets of a settlement, for the names of a creation, or for
\* one row, in order;
\* nobody inserts the competition.
InOrder(s, H) ==
  s # <<>> =>
    \/ Head(s).as = "any" /\ \E m \in Markets : Settling(m, s, H)
    \/ Head(s).as = "any" /\ \E t \in Teams, names \in SUBSET Names : Adding(t, names, s, H)
    \/ /\ Head(s).as # "any" /\ Head(s).mode \in Modes
       /\ \E w :
            /\ Head(s).rows = {w} /\ After(w, Head(s).mode, H)
            /\ TableOf(w) = "competition" => Head(s).as = "there"

Ordered(s, H) == BetsInMarkets(H) /\ InOrder(s, H)

LEMMA SingleInOrder ==
  ASSUME NEW s, NEW H, NEW w, NEW mode \in Modes, s # <<>>, After(w, mode, H),
         \/ Head(s) = Need(w, mode)
         \/ Head(s) = Insert(w) /\ mode = "lock" /\ TableOf(w) # "competition"
         \/ Head(s) = Upsert(w) /\ mode = "update" /\ TableOf(w) # "competition"
  PROVE  InOrder(s, H)
<1>1. /\ Need(w, mode).rows = {w} /\ Need(w, mode).mode = mode
      /\ Need(w, mode).as = "there"
      /\ Insert(w).rows = {w} /\ Insert(w).mode = "lock" /\ Insert(w).as # "any"
      /\ Upsert(w).rows = {w} /\ Upsert(w).mode = "update" /\ Upsert(w).as # "any"
  BY SingleDemand
<1>2. /\ Head(s).rows = {w} /\ Head(s).mode = mode /\ Head(s).as # "any"
      /\ TableOf(w) = "competition" => Head(s).as = "there"
  BY <1>1
<1>. QED
  BY <1>2 DEF InOrder

\* With nothing locked any row but a bet or a name is in order.
LEMMA FirstInOrder ==
  ASSUME NEW s, NEW w, NEW mode \in Modes, s # <<>>,
         TableOf(w) \notin {"bet", "name"},
         \/ Head(s) = Need(w, mode)
         \/ Head(s) = Insert(w) /\ mode = "lock" /\ TableOf(w) # "competition"
         \/ Head(s) = Upsert(w) /\ mode = "update" /\ TableOf(w) # "competition"
  PROVE  Ordered(s, {})
<1>1. After(w, mode, {})
  BY DEF After
<1>2. InOrder(s, {})
  BY <1>1, SingleInOrder
<1>. QED
  BY <1>2 DEF Ordered, BetsInMarkets

LEMMA ClosingInOrder ==
  ASSUME NEW s, NEW H, NEW G, Closing(s, H, G), BetsInMarkets(G),
         \A g \in G : TableOf(g.row) \in {"market", "member", "bet"}
  PROVE  Ordered(s, H)
<1> DEFINE c == L(Competition, "key")
           t == L(Competition, "update")
<1>1. /\ TableOf(Competition) = "competition" /\ c.row = Competition /\ c.mode = "key"
      /\ t.row = Competition
  BY Tables DEF L
<1> HIDE DEF c, t
<1>2. CASE s = <<Reference, Touch>> /\ H = G
  <2>1. s # <<>> /\ Head(s) = Need(Competition, "key")
    BY <1>2 DEF Reference
  <2>2. After(Competition, "key", G)
    BY <1>1 DEF After
  <2>. QED
    BY <1>2, <2>1, <2>2, SingleInOrder DEF Modes, Ordered
<1>3. CASE s = <<Touch>> /\ H = G \cup {c}
  <2>1. s # <<>> /\ Head(s) = Need(Competition, "update")
    BY <1>3 DEF Touch
  <2>2. After(Competition, "update", G \cup {c})
    BY <1>1 DEF After
  <2>3. BetsInMarkets(G \cup {c})
    BY <1>1 DEF BetsInMarkets
  <2>. QED
    BY <1>3, <2>1, <2>2, <2>3, SingleInOrder DEF Modes, Ordered
<1>4. CASE s = <<>> /\ H = G \cup {c, t}
  BY <1>1, <1>4 DEF BetsInMarkets, Ordered, InOrder
<1>. QED
  BY <1>2, <1>3, <1>4 DEF Closing, c, t

LEMMA PlacingInOrder ==
  ASSUME NEW k, NEW u, NEW s, NEW H, Placing(k, u, s, H)
  PROVE  Ordered(s, H)
<1> DEFINE m == L(Market(MarketOf[k]), "update")
           w == L(Wallet(u), "lock")
           b == L(Bet(k), "lock")
<1>1. /\ TableOf(m.row) = "market" /\ TableOf(w.row) = "member" /\ TableOf(b.row) = "bet"
      /\ b.row[2] = k /\ m = L(Market(MarketOf[k]), "update")
  BY Tables DEF L
<1>2. /\ TableOf(Market(MarketOf[k])) = "market" /\ TableOf(Wallet(u)) = "member"
      /\ TableOf(Bet(k)) = "bet" /\ Bet(k)[2] = k
  BY Tables
<1> HIDE DEF m, w, b
<1>3. CASE s = PlaceBet(k, u) /\ H = {}
  BY <1>2, <1>3, FirstInOrder DEF PlaceBet, Modes
<1>4. CASE s = <<Need(Wallet(u), "lock"), Insert(Bet(k)), Reference, Touch>> /\ H = {m}
  <2>1. s # <<>> /\ Head(s) = Need(Wallet(u), "lock")
    BY <1>4
  <2>2. After(Wallet(u), "lock", {m}) /\ BetsInMarkets({m})
    BY <1>1, <1>2 DEF After, BetsInMarkets
  <2>. QED
    BY <1>4, <2>1, <2>2, SingleInOrder DEF Modes, Ordered
<1>5. CASE s = <<Insert(Bet(k)), Reference, Touch>> /\ H = {m, w}
  <2>1. s # <<>> /\ Head(s) = Insert(Bet(k))
    BY <1>5
  <2>2. After(Bet(k), "lock", {m, w}) /\ BetsInMarkets({m, w})
    BY <1>1, <1>2 DEF After, BetsInMarkets
  <2>. QED
    BY <1>2, <1>5, <2>1, <2>2, SingleInOrder DEF Modes, Ordered
<1>6. CASE Closing(s, H, {m, w, b})
  <2>1. BetsInMarkets({m, w, b})
    BY <1>1 DEF BetsInMarkets
  <2>. QED
    BY <1>1, <1>6, <2>1, ClosingInOrder
<1>. QED
  BY <1>3, <1>4, <1>5, <1>6 DEF Placing, m, w, b

LEMMA UndoingInOrder ==
  ASSUME NEW k, NEW s, NEW H, Undoing(k, s, H)
  PROVE  Ordered(s, H)
<1> DEFINE m == L(Market(MarketOf[k]), "update")
           b == L(Bet(k), "update")
<1>1. /\ TableOf(m.row) = "market" /\ TableOf(b.row) = "bet"
      /\ b.row[2] = k /\ m = L(Market(MarketOf[k]), "update")
  BY Tables DEF L
<1>2. /\ TableOf(Market(MarketOf[k])) = "market" /\ TableOf(Bet(k)) = "bet" /\ Bet(k)[2] = k
  BY Tables
<1> HIDE DEF m, b
<1>3. CASE s = UndoBet(k) /\ H = {}
  BY <1>2, <1>3, FirstInOrder DEF UndoBet, Modes
<1>4. CASE s = <<Need(Bet(k), "update"), Reference, Touch>> /\ H = {m}
  <2>1. s # <<>> /\ Head(s) = Need(Bet(k), "update")
    BY <1>4
  <2>2. After(Bet(k), "update", {m}) /\ BetsInMarkets({m})
    BY <1>1, <1>2 DEF After, BetsInMarkets
  <2>. QED
    BY <1>4, <2>1, <2>2, SingleInOrder DEF Modes, Ordered
<1>5. CASE Closing(s, H, {m, b})
  <2>1. BetsInMarkets({m, b})
    BY <1>1 DEF BetsInMarkets
  <2>. QED
    BY <1>1, <1>5, <2>1, ClosingInOrder
<1>. QED
  BY <1>3, <1>4, <1>5 DEF Undoing, m, b

LEMMA CreatingInOrder ==
  ASSUME NEW m, NEW t, NEW s, NEW H, Creating(m, t, s, H)
  PROVE  Ordered(s, H)
<1> DEFINE x == L(Market(m), "lock")
           c == L(Competition, "key")
           y == L(Team(t), "key")
           z == L(Competition, "update")
<1>1. /\ TableOf(x.row) = "market" /\ TableOf(c.row) = "competition" /\ c.mode = "key"
      /\ TableOf(y.row) = "team" /\ y.mode = "key" /\ c = L(Competition, "key")
      /\ TableOf(z.row) = "competition"
  BY Tables DEF L
<1>2. /\ TableOf(Market(m)) = "market" /\ TableOf(Competition) = "competition"
      /\ TableOf(Team(t)) = "team"
  BY Tables
<1> HIDE DEF x, c, y, z
<1>3. CASE s = CreateMarket(m, t) /\ H = {}
  BY <1>2, <1>3, FirstInOrder DEF CreateMarket, Modes
<1>4. CASE s = <<Reference, Need(Team(t), "key"), Touch>> /\ H = {x}
  <2>1. s # <<>> /\ Head(s) = Need(Competition, "key")
    BY <1>4 DEF Reference
  <2>2. After(Competition, "key", {x}) /\ BetsInMarkets({x})
    BY <1>1, <1>2 DEF After, BetsInMarkets
  <2>. QED
    BY <1>4, <2>1, <2>2, SingleInOrder DEF Modes, Ordered
<1>5. CASE s = <<Need(Team(t), "key"), Touch>> /\ H = {x, c}
  <2>1. s # <<>> /\ Head(s) = Need(Team(t), "key")
    BY <1>5
  <2>2. After(Team(t), "key", {x, c}) /\ BetsInMarkets({x, c})
    BY <1>1, <1>2 DEF After, BetsInMarkets
  <2>. QED
    BY <1>2, <1>5, <2>1, <2>2, SingleInOrder DEF Modes, Ordered
<1>6. CASE s = <<Touch>> /\ H = {x, c, y}
  <2>1. s # <<>> /\ Head(s) = Need(Competition, "update")
    BY <1>6 DEF Touch
  <2>2. After(Competition, "update", {x, c, y}) /\ BetsInMarkets({x, c, y})
    BY <1>1, <1>2 DEF After, BetsInMarkets
  <2>. QED
    BY <1>6, <2>1, <2>2, SingleInOrder DEF Modes, Ordered
<1>7. CASE s = <<>> /\ H = {x, c, y, z}
  BY <1>1, <1>7 DEF BetsInMarkets, Ordered, InOrder
<1>. QED
  BY <1>3, <1>4, <1>5, <1>6, <1>7 DEF Creating, x, c, y, z

LEMMA ChangingInOrder ==
  ASSUME NEW m, NEW s, NEW H, Changing(m, s, H)
  PROVE  Ordered(s, H)
<1> DEFINE x == L(Market(m), "update")
           z == L(Competition, "update")
<1>1. TableOf(x.row) = "market" /\ TableOf(z.row) = "competition"
  BY Tables DEF L
<1>2. TableOf(Market(m)) = "market" /\ TableOf(Competition) = "competition"
  BY Tables
<1> HIDE DEF x, z
<1>3. CASE s = ChangeMarket(m) /\ H = {}
  BY <1>2, <1>3, FirstInOrder DEF ChangeMarket, Modes
<1>4. CASE s = <<Touch>> /\ H = {x}
  <2>1. s # <<>> /\ Head(s) = Need(Competition, "update")
    BY <1>4 DEF Touch
  <2>2. After(Competition, "update", {x}) /\ BetsInMarkets({x})
    BY <1>1, <1>2 DEF After, BetsInMarkets
  <2>. QED
    BY <1>4, <2>1, <2>2, SingleInOrder DEF Modes, Ordered
<1>5. CASE s = <<>> /\ H = {x, z}
  BY <1>1, <1>5 DEF BetsInMarkets, Ordered, InOrder
<1>. QED
  BY <1>3, <1>4, <1>5 DEF Changing, x, z

LEMMA SettlingInOrder ==
  ASSUME NEW m \in Markets, NEW s, NEW H, Settling(m, s, H)
  PROVE  Ordered(s, H)
<1> DEFINE x == L(Market(m), "update")
           G(done) == {x} \cup {L(b, "update") : b \in done}
<1>1. TableOf(x.row) = "market" /\ x = L(Market(m), "update")
  BY Tables DEF L
<1>2. /\ TableOf(Market(m)) = "market"
      /\ \A b \in BetsOf(m) : TableOf(b) = "bet" /\ MarketOf[b[2]] = m
  BY Tables DEF BetsOf
<1>3. \A b : L(b, "update").row = b
  BY DEF L
<1> HIDE DEF x
<1>4. ASSUME NEW done \in SUBSET BetsOf(m)
      PROVE  /\ BetsInMarkets(G(done))
             /\ \A g \in G(done) : TableOf(g.row) \in {"market", "bet"}
  BY <1>1, <1>2, <1>3 DEF BetsInMarkets
<1>5. CASE s = SettleMarket(m) /\ H = {}
  BY <1>2, <1>5, FirstInOrder DEF SettleMarket, Modes
<1>6. ASSUME NEW done \in SUBSET BetsOf(m), NEW left \in SUBSET BetsOf(m), H = G(done),
             s = <<Each(left, "update"), Reference, Touch>>
      PROVE  Ordered(s, H)
  <2>1. s # <<>> /\ Head(s) = Each(left, "update")
    BY <1>6
  <2>2. Head(s).as = "any"
    BY <2>1, ManyDemand
  <2>. QED
    BY <1>4, <1>6, <2>1, <2>2 DEF Ordered, InOrder, Settling
<1>7. ASSUME NEW done \in SUBSET BetsOf(m), NEW left \in SUBSET BetsOf(m),
             NEW b \in BetsOf(m), H = G(done),
             s = <<Need(b, "update"), Each(left, "update"), Reference, Touch>>
      PROVE  Ordered(s, H)
  <2>1. s # <<>> /\ Head(s) = Need(b, "update")
    BY <1>7
  <2>2. x \in G(done) /\ x = L(Market(MarketOf[b[2]]), "update")
    BY <1>1, <1>2
  <2>3. BetsInMarkets(G(done)) /\ \A g \in G(done) : TableOf(g.row) \in {"market", "bet"}
    BY <1>4
  <2>4. After(b, "update", G(done))
    <3> HIDE DEF G
    <3>. QED
      BY <1>2, <2>2, <2>3 DEF After
  <2>. QED
    BY <1>7, <2>1, <2>3, <2>4, SingleInOrder DEF Modes, Ordered
<1>8. ASSUME NEW done \in SUBSET BetsOf(m), Closing(s, H, G(done))
      PROVE  Ordered(s, H)
  <2>1. BetsInMarkets(G(done)) /\ \A g \in G(done) : TableOf(g.row) \in {"market", "bet"}
    BY <1>4
  <2> HIDE DEF G
  <2>. QED
    BY <1>8, <2>1, ClosingInOrder
<1>. QED
  BY <1>5, <1>6, <1>7, <1>8 DEF Settling, x

LEMMA RecordingInOrder ==
  ASSUME NEW m, NEW s, NEW H, Recording(m, s, H)
  PROVE  Ordered(s, H)
<1> DEFINE x == L(Snapshot(m), "lock")
           c == L(Competition, "key")
           y == L(Market(m), "key")
<1>1. /\ TableOf(x.row) = "snapshot" /\ TableOf(c.row) = "competition" /\ c.mode = "key"
      /\ TableOf(y.row) = "market"
  BY Tables DEF L
<1>2. /\ TableOf(Market(m)) = "market" /\ TableOf(Competition) = "competition"
      /\ TableOf(Snapshot(m)) = "snapshot"
  BY Tables
<1> HIDE DEF x, c, y
<1>3. CASE s = CreateSnapshot(m) /\ H = {}
  BY <1>2, <1>3, FirstInOrder DEF CreateSnapshot, Modes
<1>4. CASE s = <<Reference, Need(Market(m), "key")>> /\ H = {x}
  <2>1. s # <<>> /\ Head(s) = Need(Competition, "key")
    BY <1>4 DEF Reference
  <2>2. After(Competition, "key", {x}) /\ BetsInMarkets({x})
    BY <1>1, <1>2 DEF After, BetsInMarkets
  <2>. QED
    BY <1>4, <2>1, <2>2, SingleInOrder DEF Modes, Ordered
<1>5. CASE s = <<Need(Market(m), "key")>> /\ H = {x, c}
  <2>1. s # <<>> /\ Head(s) = Need(Market(m), "key")
    BY <1>5
  <2>2. After(Market(m), "key", {x, c}) /\ BetsInMarkets({x, c})
    BY <1>1, <1>2 DEF After, BetsInMarkets
  <2>. QED
    BY <1>2, <1>5, <2>1, <2>2, SingleInOrder DEF Modes, Ordered
<1>6. CASE s = <<>> /\ H = {x, c, y}
  BY <1>1, <1>6 DEF BetsInMarkets, Ordered, InOrder
<1>. QED
  BY <1>3, <1>4, <1>5, <1>6 DEF Recording, x, c, y

LEMMA JoiningInOrder ==
  ASSUME NEW u, NEW s, NEW H, Joining(u, s, H)
  PROVE  Ordered(s, H)
<1>1. TableOf(Wallet(u)) = "member" /\ \A mode : L(Wallet(u), mode).row = Wallet(u)
  BY Tables DEF L
<1>2. CASE s = JoinCompetition(u) /\ H = {}
  BY <1>1, <1>2, FirstInOrder DEF JoinCompetition, Modes
<1>3. ASSUME NEW mode \in {"update", "lock"}, Closing(s, H, {L(Wallet(u), mode)})
      PROVE  Ordered(s, H)
  <2>1. BetsInMarkets({L(Wallet(u), mode)})
    BY <1>1 DEF BetsInMarkets
  <2>. QED
    BY <1>1, <1>3, <2>1, ClosingInOrder
<1>. QED
  BY <1>2, <1>3 DEF Joining

LEMMA SeeingInOrder ==
  ASSUME NEW u, NEW s, NEW H, NEW F, Seeing(u, s, H, F)
  PROVE  Ordered(s, H)
<1> DEFINE w == L(Wallet(u), "update")
<1>1. TableOf(w.row) = "member" /\ TableOf(Wallet(u)) = "member"
  BY Tables DEF L
<1> HIDE DEF w
<1>2. CASE s = MarkSeen(u) /\ H = {}
  BY <1>1, <1>2, FirstInOrder DEF MarkSeen, Modes
<1>3. CASE s = <<>> /\ H = {w}
  BY <1>1, <1>3 DEF BetsInMarkets, Ordered, InOrder
<1>. QED
  BY <1>2, <1>3 DEF Seeing, w

LEMMA AddingInOrder ==
  ASSUME NEW t \in Teams, NEW names \in SUBSET Names, NEW s, NEW H, Adding(t, names, s, H)
  PROVE  Ordered(s, H)
<1> DEFINE c == L(Competition, "lock")
           x == L(Team(t), "lock")
           G(done) == {c} \cup {L(n, "lock") : n \in done}
<1>1. /\ TableOf(c.row) = "competition" /\ c.mode = "lock" /\ TableOf(x.row) = "team"
      /\ TableOf(Competition) = "competition" /\ TableOf(Team(t)) = "team"
  BY Tables DEF L
<1>2. \A n \in NamesOf(names) : TableOf(n) = "name"
  BY Tables DEF NamesOf
<1>3. ASSUME NEW done \in SUBSET NamesOf(names)
      PROVE  /\ c \in G(done)
             /\ \A g \in G(done) : g = c \/ TableOf(g.row) = "name"
             /\ BetsInMarkets(G(done)) /\ BetsInMarkets(G(done) \cup {x})
  <2>1. \A n \in done : TableOf(L(n, "lock").row) = "name"
    BY <1>2 DEF L
  <2>2. c \in G(done) /\ \A g \in G(done) : g = c \/ TableOf(g.row) = "name"
    BY <2>1
  <2> HIDE DEF G, c, x
  <2>. QED
    BY <1>1, <2>2 DEF BetsInMarkets
<1>4. CASE s = CreateTeams(t, names) /\ H = {}
  BY <1>1, <1>4, FirstInOrder DEF CreateTeams, Modes
<1>5. ASSUME NEW done \in SUBSET NamesOf(names), NEW left \in SUBSET NamesOf(names),
             s = <<Each(left, "lock"), Insert(Team(t))>>, H = G(done)
      PROVE  Ordered(s, H)
  <2>1. s # <<>> /\ Head(s) = Each(left, "lock")
    BY <1>5
  <2>2. Head(s).as = "any"
    BY <2>1, ManyDemand
  <2>. QED
    BY <1>3, <1>5, <2>2 DEF Ordered, InOrder
<1>6. ASSUME NEW done \in SUBSET NamesOf(names), NEW left \in SUBSET NamesOf(names),
             NEW n \in NamesOf(names), H = G(done),
             s = <<Need(n, "lock"), Each(left, "lock"), Insert(Team(t))>>
      PROVE  Ordered(s, H)
  <2>1. s # <<>> /\ Head(s) = Need(n, "lock")
    BY <1>6
  <2>2. TableOf(n) = "name"
    BY <1>2
  <2>3. After(n, "lock", H)
    <3>1. c \in H /\ c = L(Competition, "lock") /\ \A g \in H : g = c \/ TableOf(g.row) = "name"
      BY <1>3, <1>6
    <3> HIDE DEF c, G
    <3>. QED
      BY <1>1, <2>2, <3>1 DEF After
  <2>. QED
    BY <1>3, <1>6, <2>1, <2>2, <2>3, SingleInOrder DEF Modes, Ordered
<1>7. ASSUME NEW done \in SUBSET NamesOf(names), s = <<Insert(Team(t))>>, H = G(done)
      PROVE  Ordered(s, H)
  <2>1. s # <<>> /\ Head(s) = Insert(Team(t))
    BY <1>7
  <2>2. After(Team(t), "lock", H)
    <3>1. c \in H /\ c = L(Competition, "lock") /\ \A g \in H : g = c \/ TableOf(g.row) = "name"
      BY <1>3, <1>7
    <3> HIDE DEF c, G
    <3>. QED
      BY <1>1, <3>1 DEF After
  <2>. QED
    BY <1>1, <1>3, <1>7, <2>1, <2>2, SingleInOrder DEF Modes, Ordered
<1>8. ASSUME NEW done \in SUBSET NamesOf(names), s = <<>>, H = G(done) \cup {x}
      PROVE  Ordered(s, H)
  BY <1>3, <1>8 DEF Ordered, InOrder
<1>. QED
  BY <1>4, <1>5, <1>6, <1>7, <1>8 DEF Adding

LEMMA HandlingInOrder ==
  ASSUME NEW s, NEW H, NEW F, Handling(s, H, F)
  PROVE  Ordered(s, H)
BY PlacingInOrder, UndoingInOrder, CreatingInOrder, ChangingInOrder, SettlingInOrder,
   RecordingInOrder, JoiningInOrder, SeeingInOrder, AddingInOrder DEF Handling

-----------------------------------------------------------------------------
(* The deletion, and what the locks of all transactions are worth. *)

LockType == [row : Rows, mode : Modes]

DeletionDemand == [rows : SUBSET Rows, mode : {"lock"}, as : {"there", "any"}]

\* From its first lock to its end the deletion has the competition to itself.
Deleting(s, H) ==
  /\ s \in Seq(DeletionDemand)
  /\ s = DeleteCompetition(Rows) \/ L(Competition, "lock") \in H

OnItsWay(r) ==
  pc[r] = "open" =>
    /\ call[r] \in Calls
    /\ call[r].deletes => Deleting(todo[r], held[r])
    /\ Orderly(call[r]) => Handling(todo[r], held[r], fresh[r])
    /\ call[r].demands \in Edits /\ ~call[r].deletes =>
         \E t \in Teams, old, new \in Names : Editing(t, old, new, todo[r], held[r], fresh[r])

Exclusive ==
  \A q, r \in Requests : q # r =>
    \A h \in held[q], g \in held[r] : h.row = g.row => ~Conflict(h.mode, g.mode)

\* While someone has a lock on the competition it is there.
Standing(r) == \A h \in held[r] : h.row = Competition => Competition \in present

LocksType ==
  /\ present \subseteq Rows
  /\ call \in [Requests -> Calls \cup {None}]
  /\ todo = [r \in Requests |-> todo[r]]
  /\ held \in [Requests -> SUBSET LockType]
  /\ fresh \in [Requests -> SUBSET Rows]
  /\ pc \in [Requests -> {"idle", "open", "done"}]
  /\ \A r \in Requests : pc[r] # "open" => held[r] = {} /\ fresh[r] = {}

\* The inductive invariant of the locks.
LocksInvariant ==
  /\ LocksType
  /\ Exclusive
  /\ NoOrphans
  /\ \A r \in Requests : OnItsWay(r) /\ Standing(r)

LEMMA DeletionDemands ==
  /\ DeleteCompetition(Rows) \in Seq(DeletionDemand)
  /\ DeleteCompetition(Rows) # <<>>
  /\ Head(DeleteCompetition(Rows)) = Need(Competition, "lock")
<1>1. Competition \in Rows
  BY RowLocksAssumption DEF Rows
<1>2. Need(Competition, "lock") \in DeletionDemand
  BY <1>1 DEF Need, DeletionDemand
<1>3. Each(Rows \ {Competition}, "lock") \in DeletionDemand
  BY DEF Each, DeletionDemand
<1>. QED
  BY <1>2, <1>3 DEF DeleteCompetition

LEMMA HandlersStart ==
  ASSUME NEW s \in Handlers
  PROVE  Handling(s, {}, {})
<1>1. \A k \in Keys, u \in Users : Placing(k, u, PlaceBet(k, u), {})
  BY DEF Placing
<1>2. \A k \in Keys : Undoing(k, UndoBet(k), {})
  BY DEF Undoing
<1>3. \A m \in Markets, t \in Teams : Creating(m, t, CreateMarket(m, t), {})
  BY DEF Creating
<1>4. \A m \in Markets : /\ Changing(m, ChangeMarket(m), {})
                         /\ Settling(m, SettleMarket(m), {})
                         /\ Recording(m, CreateSnapshot(m), {})
  BY DEF Changing, Settling, Recording
<1>5. \A u \in Users : Joining(u, JoinCompetition(u), {}) /\ Seeing(u, MarkSeen(u), {}, {})
  BY DEF Joining, Seeing
<1>6. \A t \in Teams, names \in SUBSET Names : Adding(t, names, CreateTeams(t, names), {})
  BY DEF Adding
<1>. QED
  BY <1>1, <1>2, <1>3, <1>4, <1>5, <1>6 DEF Handlers, Handling

\* A handler that has inserted something ends with a lock on the competition.
LEMMA HandlersEnd ==
  ASSUME NEW s, NEW H, NEW F, Handling(s, H, F), s = <<>>
  PROVE  F = {} \/ \E h \in H : h.row = Competition
<1>1. /\ L(Competition, "key").row = Competition /\ L(Competition, "update").row = Competition
      /\ L(Competition, "lock").row = Competition
  BY DEF L
<1>2. \A G : Closing(s, H, G) => L(Competition, "key") \in H
  BY DEF Closing
<1>3. /\ \A k, u : Placing(k, u, s, H) => L(Competition, "key") \in H
      /\ \A k : Undoing(k, s, H) => L(Competition, "key") \in H
      /\ \A u : Joining(u, s, H) => L(Competition, "key") \in H
  BY <1>2 DEF Placing, Undoing, Joining, PlaceBet, UndoBet, JoinCompetition
<1>4. \A m : Settling(m, s, H) => L(Competition, "key") \in H
  BY <1>2 DEF Settling, SettleMarket
<1>5. /\ \A m, t : Creating(m, t, s, H) => L(Competition, "key") \in H
      /\ \A m : Changing(m, s, H) => L(Competition, "update") \in H
      /\ \A m : Recording(m, s, H) => L(Competition, "key") \in H
      /\ \A t, names : Adding(t, names, s, H) => L(Competition, "lock") \in H
  BY DEF Creating, Changing, Recording, Adding, CreateMarket, ChangeMarket, CreateSnapshot,
         CreateTeams
<1>6. \A u : Seeing(u, s, H, F) => F = {}
  BY DEF Seeing
<1>. QED
  BY <1>1, <1>3, <1>4, <1>5, <1>6 DEF Handling

LEMMA TwoAndTwo ==
  ASSUME NEW a, NEW b, NEW c, NEW d
  PROVE  <<a, b>> \o <<c, d>> = <<a, b, c, d>>
<1> DEFINE S == {a, b, c, d}
           u == <<a, b>> \o <<c, d>>
           v == <<a, b, c, d>>
<1>1. <<a, b>> \in Seq(S) /\ <<c, d>> \in Seq(S) /\ v \in Seq(S)
  OBVIOUS
<1>2. /\ u \in Seq(S) /\ Len(u) = Len(<<a, b>>) + Len(<<c, d>>)
      /\ \A i \in 1 .. Len(<<a, b>>) + Len(<<c, d>>) :
           u[i] = IF i <= Len(<<a, b>>) THEN <<a, b>>[i] ELSE <<c, d>>[i - Len(<<a, b>>)]
  BY <1>1, ConcatProperties
<1>3. Len(<<a, b>>) = 2 /\ Len(<<c, d>>) = 2 /\ Len(v) = 4
  OBVIOUS
<1>4. /\ <<a, b>>[1] = a /\ <<a, b>>[2] = b /\ <<c, d>>[1] = c /\ <<c, d>>[2] = d
      /\ v[1] = a /\ v[2] = b /\ v[3] = c /\ v[4] = d
  OBVIOUS
<1> HIDE DEF S, u, v
<1>5. Len(u) = 4 /\ u[1] = a /\ u[2] = b /\ u[3] = c /\ u[4] = d
  BY <1>2, <1>3, <1>4
<1>6. \A i \in 1 .. Len(u) : i = 1 \/ i = 2 \/ i = 3 \/ i = 4
  BY <1>5
<1>7. \A i \in 1 .. Len(u) : u[i] = v[i]
  BY <1>4, <1>5, <1>6
<1>8. u = v
  BY <1>1, <1>2, <1>3, <1>5, <1>7, SeqEqual
<1>. QED
  BY <1>8 DEF u, v

LEMMA TwoAndOne ==
  ASSUME NEW a, NEW b, NEW c
  PROVE  <<a, b>> \o <<c>> = <<a, b, c>>
<1> DEFINE S == {a, b, c}
           u == <<a, b>> \o <<c>>
           v == <<a, b, c>>
<1>1. <<a, b>> \in Seq(S) /\ <<c>> \in Seq(S) /\ v \in Seq(S)
  OBVIOUS
<1>2. /\ u \in Seq(S) /\ Len(u) = Len(<<a, b>>) + Len(<<c>>)
      /\ \A i \in 1 .. Len(<<a, b>>) + Len(<<c>>) :
           u[i] = IF i <= Len(<<a, b>>) THEN <<a, b>>[i] ELSE <<c>>[i - Len(<<a, b>>)]
  BY <1>1, ConcatProperties
<1>3. Len(<<a, b>>) = 2 /\ Len(<<c>>) = 1 /\ Len(v) = 3
  OBVIOUS
<1>4. /\ <<a, b>>[1] = a /\ <<a, b>>[2] = b /\ <<c>>[1] = c
      /\ v[1] = a /\ v[2] = b /\ v[3] = c
  OBVIOUS
<1> HIDE DEF S, u, v
<1>5. Len(u) = 3 /\ u[1] = a /\ u[2] = b /\ u[3] = c
  BY <1>2, <1>3, <1>4
<1>6. \A i \in 1 .. Len(u) : i = 1 \/ i = 2 \/ i = 3
  BY <1>5
<1>7. \A i \in 1 .. Len(u) : u[i] = v[i]
  BY <1>4, <1>5, <1>6
<1>8. u = v
  BY <1>1, <1>2, <1>3, <1>5, <1>7, SeqEqual
<1>. QED
  BY <1>8 DEF u, v

\* The bets a settlement goes through come one by one.
LEMMA SettlingChooses ==
  ASSUME NEW m \in Markets, NEW s, NEW H, Settling(m, s, H), s # <<>>, Head(s).as = "any",
         NEW there, there \in SUBSET Head(s).rows
  PROVE  /\ Settling(m, Tail(s), H)
         /\ \A row \in there :
              Settling(m, <<Need(row, Head(s).mode), Each(there \ {row}, Head(s).mode)>> \o Tail(s), H)
<1> DEFINE G(done) == {L(Market(m), "update")} \cup {L(b, "update") : b \in done}
<1>1. ASSUME s = SettleMarket(m) PROVE FALSE
  <2>1. Head(s) = Need(Market(m), "update")
    BY <1>1 DEF SettleMarket
  <2>. QED
    BY <2>1, SingleDemand
<1>2. ASSUME NEW b, NEW left, s = <<Need(b, "update"), Each(left, "update"), Reference, Touch>>
      PROVE  FALSE
  <2>1. Head(s) = Need(b, "update")
    BY <1>2
  <2>. QED
    BY <2>1, SingleDemand
<1>3. ASSUME NEW K, Closing(s, H, K)
      PROVE  FALSE
  <2>1. Head(s) = Need(Competition, "key") \/ Head(s) = Need(Competition, "update")
    BY <1>3 DEF Closing, Reference, Touch
  <2>. QED
    BY <2>1, SingleDemand
<1>4. PICK done \in SUBSET BetsOf(m), left \in SUBSET BetsOf(m) :
        s = <<Each(left, "update"), Reference, Touch>> /\ H = G(done)
  <2>1. PICK done \in SUBSET BetsOf(m) :
          \/ \E left \in SUBSET BetsOf(m) :
               \/ s = <<Each(left, "update"), Reference, Touch>> /\ H = G(done)
               \/ \E b \in BetsOf(m) :
                    s = <<Need(b, "update"), Each(left, "update"), Reference, Touch>> /\ H = G(done)
          \/ Closing(s, H, G(done))
    BY <1>1 DEF Settling
  <2> HIDE DEF G
  <2>2. ~Closing(s, H, G(done))
    BY <1>3
  <2>3. PICK left \in SUBSET BetsOf(m) :
          \/ s = <<Each(left, "update"), Reference, Touch>> /\ H = G(done)
          \/ \E b \in BetsOf(m) :
               s = <<Need(b, "update"), Each(left, "update"), Reference, Touch>> /\ H = G(done)
    BY <2>1, <2>2
  <2>4. s = <<Each(left, "update"), Reference, Touch>> /\ H = G(done)
    BY <1>2, <2>3
  <2>. QED
    BY <2>4
<1>5. Head(s) = Each(left, "update") /\ Tail(s) = <<Reference, Touch>>
  BY <1>4
<1>6. Head(s).rows = left /\ Head(s).mode = "update"
  BY <1>5, ManyDemand
<1>7. Settling(m, Tail(s), H)
  BY <1>4, <1>5 DEF Settling, Closing
<1>8. ASSUME NEW row \in there
      PROVE  Settling(m, <<Need(row, Head(s).mode), Each(there \ {row}, Head(s).mode)>> \o Tail(s), H)
  <2>1. row \in BetsOf(m) /\ there \ {row} \in SUBSET BetsOf(m)
    BY <1>6
  <2>2. <<Need(row, "update"), Each(there \ {row}, "update")>> \o <<Reference, Touch>>
          = <<Need(row, "update"), Each(there \ {row}, "update"), Reference, Touch>>
    BY TwoAndTwo
  <2>. QED
    BY <1>4, <1>5, <1>6, <2>1, <2>2 DEF Settling
<1>. QED
  BY <1>7, <1>8

\* The names of a creation come one by one.
LEMMA AddingChooses ==
  ASSUME NEW t, NEW names, NEW s, NEW H, Adding(t, names, s, H), s # <<>>, Head(s).as = "any",
         NEW there, there \in SUBSET Head(s).rows
  PROVE  /\ Adding(t, names, Tail(s), H)
         /\ \A row \in there :
              Adding(t, names, <<Need(row, Head(s).mode), Each(there \ {row}, Head(s).mode)>> \o Tail(s), H)
<1> DEFINE G(done) == {L(Competition, "lock")} \cup {L(n, "lock") : n \in done}
<1>1. s # CreateTeams(t, names)
  <2>1. ASSUME s = CreateTeams(t, names) PROVE Head(s) = Need(Competition, "lock")
    BY <2>1 DEF CreateTeams
  <2>. QED
    BY <2>1, SingleDemand
<1>2. ASSUME NEW n, NEW left, s = <<Need(n, "lock"), Each(left, "lock"), Insert(Team(t))>>
      PROVE  FALSE
  <2>1. Head(s) = Need(n, "lock")
    BY <1>2
  <2>. QED
    BY <2>1, SingleDemand
<1>3. s # <<Insert(Team(t))>>
  <2>1. ASSUME s = <<Insert(Team(t))>> PROVE Head(s) = Insert(Team(t))
    BY <2>1
  <2>. QED
    BY <2>1, SingleDemand
<1>4. PICK done \in SUBSET NamesOf(names), left \in SUBSET NamesOf(names) :
        s = <<Each(left, "lock"), Insert(Team(t))>> /\ H = G(done)
  <2> HIDE DEF G
  <2>. QED
    BY <1>1, <1>2, <1>3 DEF Adding, G
<1>5. Head(s) = Each(left, "lock") /\ Tail(s) = <<Insert(Team(t))>>
  BY <1>4
<1>6. Head(s).rows = left /\ Head(s).mode = "lock"
  BY <1>5, ManyDemand
<1>7. Adding(t, names, Tail(s), H)
  BY <1>4, <1>5 DEF Adding
<1>8. ASSUME NEW row \in there
      PROVE  Adding(t, names, <<Need(row, Head(s).mode), Each(there \ {row}, Head(s).mode)>> \o Tail(s), H)
  <2>1. row \in NamesOf(names) /\ there \ {row} \in SUBSET NamesOf(names)
    BY <1>6
  <2>2. <<Need(row, "lock"), Each(there \ {row}, "lock")>> \o <<Insert(Team(t))>>
          = <<Need(row, "lock"), Each(there \ {row}, "lock"), Insert(Team(t))>>
    BY TwoAndOne
  <2>. QED
    BY <1>4, <1>5, <1>6, <2>1, <2>2 DEF Adding
<1>. QED
  BY <1>7, <1>8

\* An edit asks for a team or for a name, and for each by itself.
LEMMA EditingAsks ==
  ASSUME NEW t, NEW old, NEW name, NEW s, NEW H, NEW F, Editing(t, old, name, s, H, F), s # <<>>
  PROVE  \E row : Head(s) = Need(row, "lock") /\ row # Competition
<1>1. \A x : Team(x) # Competition /\ Name(x) # Competition
  BY DEF Team, Name, Competition
<1>2. Head(s) \in {Need(Team(t), "lock"), Need(Name(old), "lock"), Need(Name(name), "lock")}
  BY DEF Editing, EditTeam
<1>. QED
  BY <1>1, <1>2

-----------------------------------------------------------------------------
(* One step of one transaction. *)

\* What a request rests on while others move: its own locks, and the rows of others.
LEMMA OthersStay ==
  ASSUME LocksInvariant, NEW r \in Requests,
         pc'[r] = pc[r], call'[r] = call[r], todo'[r] = todo[r], held'[r] = held[r],
         fresh'[r] = fresh[r]
  PROVE  OnItsWay(r)'
BY DEF LocksInvariant, OnItsWay, Deleting

LEMMA ArriveKeepsLocks ==
  ASSUME LocksInvariant, NEW r \in Requests, NEW a \in Calls, Arrive(r, a)
  PROVE  LocksInvariant'
<1>1. /\ pc'[r] = "open" /\ call'[r] = a /\ todo'[r] = a.demands
      /\ held' = held /\ fresh' = fresh /\ present' = present
      /\ held[r] = {} /\ fresh[r] = {}
  BY DEF Arrive, LocksInvariant, LocksType
<1>2. \A q \in Requests \ {r} : pc'[q] = pc[q] /\ call'[q] = call[q] /\ todo'[q] = todo[q]
  BY DEF Arrive, LocksInvariant, LocksType
<1>3. LocksType'
  BY DEF Arrive, LocksInvariant, LocksType
<1>4. Exclusive' /\ NoOrphans'
  BY <1>1 DEF LocksInvariant, Exclusive, NoOrphans
<1>5. OnItsWay(r)'
  <2>1. CASE a.deletes
    BY <1>1, <2>1, DeletionDemands, RowLocksAssumption DEF OnItsWay, Deleting, Orderly
  <2>2. CASE ~a.deletes /\ a.demands \in Edits
    <3>1. PICK t \in Teams, old \in Names, new \in Names : a.demands = EditTeam(t, old, new)
      BY <2>2 DEF Edits
    <3>2. Editing(t, old, new, EditTeam(t, old, new), {}, {})
      BY DEF Editing
    <3>3. Editing(t, old, new, todo[r], held[r], fresh[r])'
      BY <1>1, <3>1, <3>2
    <3>. QED
      BY <1>1, <2>2, <3>3 DEF OnItsWay, Orderly
  <2>3. CASE Orderly(a)
    <3>1. a.demands \in Handlers /\ ~a.deletes
      BY <2>3, RowLocksAssumption DEF Orderly
    <3>2. Handling(todo[r], held[r], fresh[r])'
      BY <1>1, <3>1, HandlersStart
    <3>. QED
      BY <1>1, <2>3, <3>1, <3>2 DEF OnItsWay, Orderly
  <2>. QED
    BY <2>1, <2>2, <2>3 DEF Orderly
<1>6. \A q \in Requests : OnItsWay(q)'
  BY <1>1, <1>2, <1>5, OthersStay
<1>7. \A q \in Requests : Standing(q)'
  BY <1>1 DEF LocksInvariant, Standing
<1>. QED
  BY <1>3, <1>4, <1>6, <1>7 DEF LocksInvariant

LEMMA FinishKeepsLocks ==
  ASSUME LocksInvariant, NEW r \in Requests, Finish(r),
         present' \subseteq Rows, NoOrphans',
         Competition \in present /\ Competition \notin present' =>
           \A q \in Requests \ {r} : \A h \in held[q] : h.row # Competition
  PROVE  LocksInvariant'
<1>1. /\ pc'[r] = "done" /\ held'[r] = {} /\ fresh'[r] = {} /\ call' = call
      /\ \A q \in Requests \ {r} : /\ pc'[q] = pc[q] /\ todo'[q] = todo[q]
                                   /\ held'[q] = held[q] /\ fresh'[q] = fresh[q]
  BY DEF Finish, LocksInvariant, LocksType
<1>2. LocksType'
  BY DEF Finish, LocksInvariant, LocksType
<1>3. Exclusive'
  BY <1>1 DEF LocksInvariant, Exclusive
<1>4. \A q \in Requests : OnItsWay(q)'
  <2>1. OnItsWay(r)'
    BY <1>1 DEF OnItsWay
  <2>. QED
    BY <1>1, <2>1, OthersStay
<1>5. \A q \in Requests : Standing(q)'
  BY <1>1 DEF LocksInvariant, Standing
<1>. QED
  BY <1>2, <1>3, <1>4, <1>5 DEF LocksInvariant

LEMMA RollBackKeepsLocks ==
  ASSUME LocksInvariant, NEW r \in Requests, RollBack(r)
  PROVE  LocksInvariant'
<1>1. Finish(r) /\ present' = present
  BY DEF RollBack
<1>2. present' \subseteq Rows /\ NoOrphans'
  BY <1>1 DEF LocksInvariant, LocksType, NoOrphans
<1>. QED
  BY <1>1, <1>2, FinishKeepsLocks

LEMMA ChooseKeepsLocks ==
  ASSUME LocksInvariant, NEW r \in Requests, Choose(r)
  PROVE  LocksInvariant'
<1> DEFINE s == todo[r]
           d == Head(s)
           there == {row \in d.rows : There(row)}
<1>1. /\ pc[r] = "open" /\ s # <<>> /\ d.as = "any"
      /\ present' = present /\ call' = call /\ held' = held /\ fresh' = fresh /\ pc' = pc
  BY DEF Choose, Working
<1>2. \/ todo' = [todo EXCEPT ![r] = Tail(s)]
      \/ \E row \in there :
           todo' = [todo EXCEPT ![r] = <<Need(row, d.mode), Each(there \ {row}, d.mode)>> \o Tail(s)]
  BY DEF Choose
<1>3. /\ \A q \in Requests \ {r} : todo'[q] = todo[q]
      /\ todo' = [q \in Requests |-> todo'[q]]
  BY <1>2 DEF LocksInvariant, LocksType
<1>4. \/ todo'[r] = Tail(s)
      \/ \E row \in there :
           todo'[r] = <<Need(row, d.mode), Each(there \ {row}, d.mode)>> \o Tail(s)
  BY <1>2 DEF LocksInvariant, LocksType
<1>5. LocksType' /\ Exclusive' /\ NoOrphans'
  BY <1>1, <1>3 DEF LocksInvariant, LocksType, Exclusive, NoOrphans
<1>6. OnItsWay(r)'
  <2>0. call[r] \in Calls
    BY <1>1 DEF LocksInvariant, OnItsWay
  <2> HIDE DEF s
  <2>1. CASE call[r].deletes
    <3>1. Deleting(s, held[r])
      BY <1>1, <2>1 DEF LocksInvariant, OnItsWay, s
    <3>2. d # Need(Competition, "lock")
      BY <1>1, SingleDemand
    <3>3. L(Competition, "lock") \in held[r] /\ s \in Seq(DeletionDemand)
      BY <3>1, <3>2, DeletionDemands DEF Deleting
    <3>4. d \in DeletionDemand /\ Tail(s) \in Seq(DeletionDemand)
      BY <1>1, <3>3
    <3>5. /\ d.rows \in SUBSET Rows /\ d.mode = "lock"
      BY <3>4 DEF DeletionDemand
    <3>6. ASSUME NEW row \in there
          PROVE  <<Need(row, d.mode), Each(there \ {row}, d.mode)>> \o Tail(s) \in Seq(DeletionDemand)
      <4>1. Need(row, d.mode) \in DeletionDemand /\ Each(there \ {row}, d.mode) \in DeletionDemand
        BY <3>5, <3>6 DEF Need, Each, DeletionDemand
      <4>2. <<Need(row, d.mode), Each(there \ {row}, d.mode)>> \in Seq(DeletionDemand)
        BY <4>1
      <4>. QED
        BY <3>4, <4>2, ConcatProperties
    <3>7. todo'[r] \in Seq(DeletionDemand)
      BY <1>4, <3>4, <3>6
    <3>. QED
      BY <1>1, <2>0, <2>1, <3>3, <3>7 DEF OnItsWay, Deleting, Orderly
  <2>2. ASSUME ~call[r].deletes, call[r].demands \in Edits PROVE FALSE
    <3>1. PICK t \in Teams, old \in Names, new \in Names :
            Editing(t, old, new, s, held[r], fresh[r])
      BY <1>1, <2>2 DEF LocksInvariant, OnItsWay, s
    <3>2. d.as = "there"
      BY <1>1, <3>1, EditingAsks, SingleDemand
    <3>. QED
      BY <1>1, <3>2
  <2>3. there \in SUBSET d.rows
    OBVIOUS
  <2>4. ASSUME Orderly(call[r]), NEW m \in Markets, Settling(m, s, held[r])
        PROVE  OnItsWay(r)'
    <3>1. ~call[r].deletes /\ call[r].demands \notin Edits
      BY <2>4 DEF Orderly
    <3>4. /\ Settling(m, Tail(s), held[r])
          /\ \A row \in there :
               Settling(m, <<Need(row, d.mode), Each(there \ {row}, d.mode)>> \o Tail(s), held[r])
      <4> HIDE DEF there
      <4>. QED
        BY <1>1, <2>3, <2>4, SettlingChooses
    <3>5. PICK x : x = todo'[r]
      OBVIOUS
    <3>6. Settling(m, x, held[r])
      BY <1>4, <3>4, <3>5
    <3>7. Handling(x, held[r], fresh[r])
      BY <3>6 DEF Handling
    <3>. QED
      BY <1>1, <2>0, <3>1, <3>5, <3>7 DEF OnItsWay
  <2>5. ASSUME Orderly(call[r]), NEW t \in Teams, NEW names \in SUBSET Names,
               Adding(t, names, s, held[r])
        PROVE  OnItsWay(r)'
    <3>1. ~call[r].deletes /\ call[r].demands \notin Edits
      BY <2>5 DEF Orderly
    <3>4. /\ Adding(t, names, Tail(s), held[r])
          /\ \A row \in there :
               Adding(t, names, <<Need(row, d.mode), Each(there \ {row}, d.mode)>> \o Tail(s), held[r])
      <4> HIDE DEF there
      <4>. QED
        BY <1>1, <2>3, <2>5, AddingChooses
    <3>5. PICK x : x = todo'[r]
      OBVIOUS
    <3>6. Adding(t, names, x, held[r])
      BY <1>4, <3>4, <3>5
    <3>7. Handling(x, held[r], fresh[r])
      BY <3>6 DEF Handling
    <3>. QED
      BY <1>1, <2>0, <3>1, <3>5, <3>7 DEF OnItsWay
  <2>6. CASE Orderly(call[r])
    <3>1. Handling(s, held[r], fresh[r])
      BY <1>1, <2>6 DEF LocksInvariant, OnItsWay, s
    <3>. QED
      BY <1>1, <2>4, <2>5, <2>6, <3>1, HandlingInOrder DEF Ordered, InOrder
  <2>. QED
    BY <2>1, <2>2, <2>6 DEF Orderly
<1>7. \A q \in Requests : OnItsWay(q)'
  BY <1>1, <1>3, <1>6, OthersStay
<1>8. \A q \in Requests : Standing(q)'
  BY <1>1 DEF LocksInvariant, Standing
<1>. QED
  BY <1>5, <1>7, <1>8 DEF LocksInvariant

\* What Take finds in the first demand of a transaction on its way.
LEMMA DemandIsKept ==
  ASSUME LocksInvariant, NEW r \in Requests, NEW row \in Rows, Wants(r, row)
  PROVE  /\ Head(todo[r]).mode \in Modes
         /\ row = Competition => Head(todo[r]).as = "there"
<1> DEFINE s == todo[r]
<1>1. pc[r] = "open" /\ s # <<>> /\ Head(s).as # "any" /\ Head(s).rows = {row}
  BY DEF Wants, Working
<1>2. CASE call[r].deletes
  <2>1. Deleting(s, held[r])
    BY <1>1, <1>2 DEF LocksInvariant, OnItsWay
  <2> HIDE DEF s
  <2>2. Head(s) \in DeletionDemand
    BY <1>1, <2>1 DEF Deleting
  <2>. QED
    BY <1>1, <2>2 DEF DeletionDemand, Modes, s
<1>3. CASE ~call[r].deletes /\ call[r].demands \in Edits
  <2>1. PICK t \in Teams, old \in Names, new \in Names :
          Editing(t, old, new, s, held[r], fresh[r])
    BY <1>1, <1>3 DEF LocksInvariant, OnItsWay
  <2>2. PICK w : Head(s) = Need(w, "lock") /\ w # Competition
    BY <1>1, <2>1, EditingAsks
  <2>3. Head(s).rows = {w} /\ Head(s).mode = "lock"
    BY <2>2, SingleDemand
  <2>. QED
    BY <1>1, <2>2, <2>3 DEF Modes
<1>4. CASE Orderly(call[r])
  <2>1. Handling(s, held[r], fresh[r])
    BY <1>1, <1>4 DEF LocksInvariant, OnItsWay
  <2> HIDE DEF s
  <2>2. InOrder(s, held[r])
    BY <2>1, HandlingInOrder DEF Ordered
  <2>3. TableOf(Competition) = "competition"
    BY Tables
  <2> DEFINE d == Head(s)
  <2>5. d.as # "any" /\ s # <<>>
    BY <1>1 DEF s
  <2>6. /\ d.mode \in Modes
        /\ \E w :
             /\ d.rows = {w} /\ After(w, d.mode, held[r])
             /\ TableOf(w) = "competition" => d.as = "there"
    BY <2>2, <2>5 DEF InOrder
  <2>7. d.rows = {row}
    BY <1>1 DEF s
  <2> HIDE DEF d
  <2>4. PICK w : d.rows = {w} /\ (TableOf(w) = "competition" => d.as = "there")
    BY <2>6
  <2>8. w = row
    BY <2>4, <2>7
  <2>. QED
    BY <2>3, <2>4, <2>6, <2>8 DEF d, s
<1>. QED
  BY <1>2, <1>3, <1>4 DEF Orderly

LEMMA TakeKeepsLocks ==
  ASSUME LocksInvariant, NEW r \in Requests, Take(r)
  PROVE  LocksInvariant'
<1> DEFINE s == todo[r]
           d == Head(s)
<1>1. PICK row \in Rows :
        /\ Wants(r, row)
        /\ LET there == There(row)
               new == d.as = "new" \/ (d.as = "either" /\ ~there)
               mode == IF new THEN "lock" ELSE d.mode
           IN  /\ \A q \in Requests : ~Blocks(q, r, row, mode)
               /\ IF (d.as = "there" /\ ~there) \/ (d.as = "new" /\ there)
                  THEN RollBack(r)
                  ELSE /\ todo' = [todo EXCEPT ![r] = Tail(@)]
                       /\ held' = [held EXCEPT ![r] = @ \cup {[row |-> row, mode |-> mode]}]
                       /\ fresh' = [fresh EXCEPT ![r] = IF new THEN @ \cup {row} ELSE @]
                       /\ UNCHANGED <<present, call, pc>>
  BY DEF Take
<1> DEFINE new == d.as = "new" \/ (d.as = "either" /\ ~There(row))
           mode == IF new THEN "lock" ELSE d.mode
           lock == L(row, mode)
<1>2. pc[r] = "open" /\ s # <<>> /\ d.as # "any" /\ d.rows = {row}
  BY <1>1 DEF Wants, Working
<1>3. d.mode \in Modes /\ (row = Competition => d.as = "there")
  BY <1>1, DemandIsKept
<1>4. lock \in LockType /\ lock.row = row /\ lock.mode = mode
  BY <1>3 DEF L, LockType, Modes
<1>5. CASE RollBack(r)
  BY <1>5, RollBackKeepsLocks
<1>6. ASSUME /\ todo' = [todo EXCEPT ![r] = Tail(s)]
             /\ held' = [held EXCEPT ![r] = held[r] \cup {lock}]
             /\ fresh' = [fresh EXCEPT ![r] = IF new THEN fresh[r] \cup {row} ELSE fresh[r]]
             /\ UNCHANGED <<present, call, pc>>
             /\ d.as = "there" => There(row)
      PROVE  LocksInvariant'
  <2>1. /\ todo'[r] = Tail(s) /\ held'[r] = held[r] \cup {lock}
        /\ fresh'[r] = (IF new THEN fresh[r] \cup {row} ELSE fresh[r])
        /\ call' = call /\ pc' = pc /\ present' = present
        /\ \A q \in Requests \ {r} : todo'[q] = todo[q] /\ held'[q] = held[q] /\ fresh'[q] = fresh[q]
    BY <1>6 DEF LocksInvariant, LocksType
  <2>2. LocksType'
    BY <1>2, <1>4, <1>6 DEF LocksInvariant, LocksType, LockType
  <2>3. Exclusive'
    <3>1. \A q \in Requests \ {r} : \A h \in held[q] : h.row = row => ~Conflict(mode, h.mode)
      BY <1>1 DEF Blocks
    <3>2. \A x, y : Conflict(x, y) <=> Conflict(y, x)
      BY DEF Conflict
    <3>3. \A q \in Requests \ {r} : \A h \in held'[q] : \A g \in held'[r] :
            h.row = g.row => ~Conflict(h.mode, g.mode)
      <4> HIDE DEF lock, mode
      <4>. QED
        BY <1>4, <2>1, <3>1, <3>2 DEF LocksInvariant, Exclusive
    <3>4. \A q, p \in Requests \ {r} : q # p =>
            \A h \in held'[q], g \in held'[p] : h.row = g.row => ~Conflict(h.mode, g.mode)
      BY <2>1 DEF LocksInvariant, Exclusive
    <3>5. ASSUME NEW q \in Requests, NEW p \in Requests, q # p,
                 NEW h \in held'[q], NEW g \in held'[p], h.row = g.row
          PROVE  ~Conflict(h.mode, g.mode)
      <4>1. CASE p = r
        BY <3>3, <3>5, <4>1
      <4>2. CASE q = r
        BY <3>2, <3>3, <3>5, <4>2
      <4>3. CASE p # r /\ q # r
        BY <3>4, <3>5, <4>3
      <4>. QED
        BY <4>1, <4>2, <4>3
    <3>. QED
      BY <3>5 DEF Exclusive
  <2>4. NoOrphans'
    BY <2>1 DEF LocksInvariant, NoOrphans
  <2>5. OnItsWay(r)'
    <3>0. call[r] \in Calls
      BY <1>2 DEF LocksInvariant, OnItsWay
    <3>1. PICK t : t = todo'[r]
      OBVIOUS
    <3>2. PICK H : H = held'[r]
      OBVIOUS
    <3>3. PICK more : more = fresh'[r]
      OBVIOUS
    <3>4. t = Tail(s) /\ H = held[r] \cup {lock} /\ (~new => more = fresh[r])
      BY <2>1, <3>1, <3>2, <3>3
    <3> HIDE DEF s
    <3>5. CASE call[r].deletes
      <4>1. Deleting(s, held[r])
        BY <1>2, <3>5 DEF LocksInvariant, OnItsWay, s
      <4>2. t \in Seq(DeletionDemand)
        BY <1>2, <3>4, <4>1 DEF Deleting
      <4>3. ASSUME s = DeleteCompetition(Rows)
            PROVE  lock = L(Competition, "lock")
        <5>1. d = Need(Competition, "lock")
          BY <4>3, DeletionDemands
        <5>2. d.rows = {Competition} /\ d.mode = "lock" /\ d.as = "there"
          BY <5>1, SingleDemand
        <5>3. row = Competition /\ mode = "lock"
          BY <1>2, <5>2
        <5>. QED
          BY <5>3
      <4>4. L(Competition, "lock") \in H
        BY <3>4, <4>1, <4>3 DEF Deleting
      <4>. QED
        BY <2>1, <3>0, <3>1, <3>2, <3>5, <4>2, <4>4 DEF OnItsWay, Deleting, Orderly
    <3>7. CASE ~call[r].deletes /\ call[r].demands \in Edits
      <4>1. PICK t1 \in Teams, old \in Names, name \in Names :
              Editing(t1, old, name, s, held[r], fresh[r])
        BY <1>2, <3>7 DEF LocksInvariant, OnItsWay, s
      <4>2. lock \in [row : Rows, mode : Modes]
        BY <1>4 DEF LockType
      <4>3. Meets(d, lock, new)
        BY <1>2, <1>4 DEF Meets
      <4>4. Editing(t1, old, name, t, H, more)
        <5> HIDE DEF lock, new, mode
        <5>1. ~new /\ Editing(t1, old, name, Tail(s), held[r] \cup {lock}, fresh[r])
          BY <1>2, <4>1, <4>2, <4>3, EditingGoesOn
        <5>. QED
          BY <3>4, <5>1
      <4>. QED
        BY <2>1, <3>0, <3>1, <3>2, <3>3, <3>7, <4>4 DEF OnItsWay, Orderly
    <3>6. CASE Orderly(call[r])
      <4>1. Handling(s, held[r], fresh[r])
        BY <1>2, <3>6 DEF LocksInvariant, OnItsWay, s
      <4>2. lock \in [row : Rows, mode : Modes]
        BY <1>4 DEF LockType
      <4>3. Meets(d, lock, new)
        BY <1>2, <1>4 DEF Meets
      <4>4. Handling(t, H, more)
        <5> HIDE DEF lock, new, mode
        <5>. QED
          BY <1>2, <3>4, <4>1, <4>2, <4>3, HandlingGoesOn
      <4>. QED
        BY <2>1, <3>0, <3>1, <3>2, <3>3, <3>6, <4>4 DEF OnItsWay, Orderly
    <3>. QED
      BY <3>5, <3>6, <3>7 DEF Orderly
  <2>6. \A q \in Requests : OnItsWay(q)'
    BY <2>1, <2>5, OthersStay
  <2>7. \A q \in Requests : Standing(q)'
    <3>1. There(Competition) => Competition \in present
      BY DEF There, Competition, Name
    <3>2. row = Competition => Competition \in present
      BY <1>3, <1>6, <3>1
    <3>3. Standing(r)'
      BY <1>4, <2>1, <3>2 DEF LocksInvariant, Standing
    <3>. QED
      BY <2>1, <3>3 DEF LocksInvariant, Standing
  <2>. QED
    BY <2>2, <2>3, <2>4, <2>6, <2>7 DEF LocksInvariant
<1>. QED
  BY <1>1, <1>5, <1>6 DEF L

LEMMA CommitKeepsLocks ==
  ASSUME LocksInvariant, NEW r \in Requests, Commit(r)
  PROVE  LocksInvariant'
<1>1. /\ pc[r] = "open" /\ todo[r] = <<>> /\ Finish(r)
      /\ present' = IF call[r].deletes THEN {} ELSE present \cup fresh[r]
  BY DEF Commit
<1>2. CASE call[r].deletes
  <2>1. L(Competition, "lock") \in held[r]
    BY <1>1, <1>2, DeletionDemands DEF LocksInvariant, OnItsWay, Deleting
  <2>2. \A q \in Requests \ {r} : \A h \in held[q] : h.row # Competition
    BY <2>1 DEF LocksInvariant, Exclusive, L, Conflict
  <2>3. present' \subseteq Rows /\ NoOrphans'
    BY <1>1, <1>2 DEF NoOrphans
  <2>. QED
    BY <1>1, <2>2, <2>3, FinishKeepsLocks
<1>3. CASE ~call[r].deletes
  <2>1. ASSUME call[r].demands \in Edits PROVE fresh[r] = {}
    BY <1>1, <1>3, <2>1 DEF LocksInvariant, OnItsWay, Editing
  <2>5. ASSUME Orderly(call[r])
        PROVE  fresh[r] = {} \/ Competition \in present
    <3>1. Handling(todo[r], held[r], fresh[r])
      BY <1>1, <2>5 DEF LocksInvariant, OnItsWay
    <3>. QED
      BY <1>1, <3>1, HandlersEnd DEF LocksInvariant, Standing
  <2>2. fresh[r] = {} \/ Competition \in present
    BY <1>3, <2>1, <2>5 DEF Orderly
  <2>3. present' \subseteq Rows /\ NoOrphans'
    BY <1>1, <1>3, <2>2 DEF LocksInvariant, LocksType, NoOrphans
  <2>4. Competition \in present => Competition \in present'
    BY <1>1, <1>3
  <2>. QED
    BY <1>1, <2>3, <2>4, FinishKeepsLocks
<1>. QED
  BY <1>2, <1>3

LEMMA LocksAtFirst == Init => LocksInvariant
<1> SUFFICES ASSUME Init PROVE LocksInvariant
  OBVIOUS
<1>1. LocksType /\ Exclusive
  BY DEF Init, LocksType, Exclusive, Rows
<1>2. NoOrphans
  BY RowLocksAssumption DEF Init, NoOrphans
<1>3. \A r \in Requests : OnItsWay(r) /\ Standing(r)
  BY DEF Init, OnItsWay, Standing
<1>. QED
  BY <1>1, <1>2, <1>3 DEF LocksInvariant

LEMMA NextKeepsLocks == LocksInvariant /\ [Next]_vars => LocksInvariant'
<1> SUFFICES ASSUME LocksInvariant, [Next]_vars PROVE LocksInvariant'
  OBVIOUS
<1>1. ASSUME NEW r \in Requests, NEW a \in Calls, Arrive(r, a) PROVE LocksInvariant'
  BY <1>1, ArriveKeepsLocks
<1>2. ASSUME NEW r \in Requests, Step(r) PROVE LocksInvariant'
  BY <1>2, ChooseKeepsLocks, TakeKeepsLocks, CommitKeepsLocks DEF Step
<1>3. ASSUME NEW r \in Requests, RollBack(r) PROVE LocksInvariant'
  BY <1>3, RollBackKeepsLocks
<1>4. CASE UNCHANGED vars
  BY <1>4 DEF vars, LocksInvariant, LocksType, Exclusive, NoOrphans, OnItsWay, Deleting, Standing
<1>. QED
  BY <1>1, <1>2, <1>3, <1>4 DEF Next, Abort, BreakCircle, Quiet

\* Every transaction is at one of the places of its handler, with the locks of that place,
\* no two hold locks that exclude each other, and whoever locks the competition finds it
\* there.
THEOREM LocksAreInOrder == Spec => []LocksInvariant
<1>. QED
  BY LocksAtFirst, NextKeepsLocks, PTL DEF Spec

\* Rows, locks and requests keep their types; who has no transaction has no locks.
THEOREM TypesAreKept == Spec => []TypeOK
<1>1. LocksInvariant => TypeOK
  BY DEF LocksInvariant, LocksType, LockType, TypeOK
<1>. QED
  BY <1>1, LocksAreInOrder, PTL

\* Deleting the competition leaves no row behind, also none that a market, a bet, a
\* member or a snapshot was about to add: its foreign key holds the competition until
\* the commit, or finds it gone.
THEOREM NoRowIsLeft == Spec => []NoOrphans
<1>1. LocksInvariant => NoOrphans
  BY DEF LocksInvariant
<1>. QED
  BY <1>1, LocksAreInOrder, PTL

-----------------------------------------------------------------------------
(* Whoever is waited for waits further on. *)

\* The place of row w among the rows a transaction with locks H may ask for.
Place(w, H) ==
  IF H = {} THEN 0
  ELSE IF TableOf(w) = "market" THEN 1
  ELSE IF TableOf(w) = "member" THEN 2
  ELSE IF TableOf(w) = "bet" THEN 3
  ELSE IF TableOf(w) = "competition" THEN 4
  ELSE 5

\* The rules of the locks, for two transactions: r asks for row w, q holds it and asks
\* for row v.
LEMMA FurtherOn ==
  ASSUME NEW H, NEW G, NEW w, NEW v, NEW mode \in Modes, NEW other,
         After(w, mode, H), After(v, other, G), BetsInMarkets(G),
         \A h \in H, g \in G : h.row = g.row => ~Conflict(h.mode, g.mode),
         NEW g \in G, g.row = w, Conflict(mode, g.mode)
  PROVE  Place(w, H) < Place(v, G)
<1>1. Place(v, G) \in 1 .. 5
  BY DEF Place
<1>2. CASE H = {}
  BY <1>1, <1>2 DEF Place
<1>3. CASE H # {}
  <2>1. TableOf(w) \in {"market", "member", "bet", "competition", "team", "name"}
    BY <1>3 DEF After
  <2>2. CASE TableOf(w) = "market"
    <3>1. TableOf(v) \in {"member", "bet", "competition", "team"}
      BY <2>2 DEF After
    <3>. QED
      BY <1>3, <2>2, <3>1 DEF Place
  <2>3. CASE TableOf(w) = "member"
    <3>1. TableOf(v) \in {"bet", "competition"}
      BY <2>3 DEF After
    <3>. QED
      BY <1>3, <2>3, <3>1 DEF Place
  <2>4. ASSUME TableOf(w) = "bet" PROVE FALSE
    <3>1. L(Market(MarketOf[w[2]]), "update") \in H \cap G
      BY <2>4 DEF After, BetsInMarkets
    <3>. QED
      BY <3>1 DEF L, Conflict
  <2>5. CASE TableOf(w) = "competition"
    <3>1. mode # "lock"
      BY <1>3, <2>5 DEF After
    <3>2. g.mode # "key"
      BY <3>1 DEF Conflict
    <3>3. TableOf(v) \in {"team", "name"}
      BY <2>5, <3>2 DEF After
    <3>. QED
      BY <1>3, <2>5, <3>3 DEF Place
  <2>6. ASSUME TableOf(w) = "team" PROVE FALSE
    <3>1. g.mode = "key" /\ L(Competition, "key") \in G
      BY <2>6 DEF After
    <3>2. mode # "key"
      BY <3>1 DEF Conflict
    <3>3. L(Competition, "lock") \in H
      BY <1>3, <2>6, <3>2 DEF After
    <3>. QED
      BY <3>1, <3>3 DEF L, Conflict
  <2>7. ASSUME TableOf(w) = "name" PROVE FALSE
    <3>1. L(Competition, "lock") \in H \cap G
      BY <2>7 DEF After
    <3>. QED
      BY <3>1 DEF L, Conflict
  <2>. QED
    BY <2>1, <2>2, <2>3, <2>4, <2>5, <2>6, <2>7
<1>. QED
  BY <1>2, <1>3

\* What a handler asks for is in order.
LEMMA WantsInOrder ==
  ASSUME LocksInvariant, NEW r \in Requests, Orderly(call[r]), NEW row, Wants(r, row)
  PROVE  /\ After(row, Head(todo[r]).mode, held[r])
         /\ Head(todo[r]).mode \in Modes
         /\ BetsInMarkets(held[r])
<1> DEFINE s == todo[r]
           d == Head(s)
<1>1. pc[r] = "open" /\ s # <<>> /\ d.as # "any" /\ d.rows = {row}
  BY DEF Wants, Working
<1>2. Handling(s, held[r], fresh[r])
  BY <1>1 DEF LocksInvariant, OnItsWay
<1>3. Ordered(s, held[r])
  BY <1>2, HandlingInOrder
<1> HIDE DEF s
<1>4. d.mode \in Modes /\ \E w : d.rows = {w} /\ After(w, d.mode, held[r])
  BY <1>1, <1>3 DEF Ordered, InOrder
<1> HIDE DEF d
<1>5. PICK w : d.rows = {w} /\ After(w, d.mode, held[r])
  BY <1>4
<1>6. w = row
  BY <1>1, <1>5
<1>. QED
  BY <1>3, <1>4, <1>5, <1>6 DEF Ordered, d, s

LEMMA WaitingGoesUp ==
  ASSUME LocksInvariant, NEW r \in Requests, NEW q \in Requests,
         Orderly(call[r]), Orderly(call[q]),
         NEW row, Wants(r, row), Blocks(q, r, row, Head(todo[r]).mode),
         NEW next, Wants(q, next)
  PROVE  Place(row, held[r]) < Place(next, held[q])
<1>1. PICK g \in held[q] : g.row = row /\ Conflict(Head(todo[r]).mode, g.mode) /\ q # r
  BY DEF Blocks
<1>2. \A h \in held[r], f \in held[q] : h.row = f.row => ~Conflict(h.mode, f.mode)
  BY <1>1 DEF LocksInvariant, Exclusive
<1>3. /\ After(row, Head(todo[r]).mode, held[r]) /\ Head(todo[r]).mode \in Modes
      /\ After(next, Head(todo[q]).mode, held[q]) /\ BetsInMarkets(held[q])
  BY WantsInOrder
<1>. QED
  BY <1>1, <1>2, <1>3, FurtherOn

LEMMA NobodyGoesRound == LocksInvariant => NoCircle
<1> SUFFICES ASSUME LocksInvariant,
                    NEW S \in SUBSET {r \in Requests : pc[r] = "open" /\ Orderly(call[r])},
                    Circle(S)
             PROVE  FALSE
  BY DEF NoCircle
<1> DEFINE Below(n) == \A r \in S : \A row \in Rows : Wants(r, row) => Place(row, held[r]) < n
<1>1. \A row, H : Place(row, H) \in 0 .. 5
  BY DEF Place
<1>2. ASSUME NEW n \in Int, Below(n) PROVE Below(n - 1)
  <2> SUFFICES ASSUME NEW r \in S, NEW row \in Rows, Wants(r, row)
               PROVE  Place(row, held[r]) < n - 1
    OBVIOUS
  <2>1. PICK q \in S : WaitsFor(r, q)
    BY DEF Circle
  <2>2. PICK w \in Rows : Wants(r, w) /\ Blocks(q, r, w, Head(todo[r]).mode)
    BY <2>1 DEF WaitsFor
  <2>3. w = row
    BY <2>2 DEF Wants
  <2>4. PICK next \in Rows : Wants(q, next)
    BY DEF Circle, WaitsFor
  <2>5. Place(row, held[r]) < Place(next, held[q])
    BY <2>2, <2>3, <2>4, WaitingGoesUp
  <2>6. Place(next, held[q]) < n
    BY <1>2, <2>4
  <2>. QED
    BY <1>1, <2>5, <2>6
<1>3. Below(6)
  BY <1>1
<1> HIDE DEF Below
<1>4. Below(0)
  <2>1. Below(5)
    BY <1>2, <1>3
  <2>2. Below(4)
    BY <1>2, <2>1
  <2>3. Below(3)
    BY <1>2, <2>2
  <2>4. Below(2)
    BY <1>2, <2>3
  <2>5. Below(1)
    BY <1>2, <2>4
  <2>. QED
    BY <1>2, <2>5
<1>5. \E r \in S : \E row \in Rows : Wants(r, row)
  BY DEF Circle, WaitsFor
<1>. QED
  BY <1>1, <1>4, <1>5 DEF Below

\* However many markets, bets, members and teams there are and however many calls run at
\* once: every circle of waiting transactions has a deletion of the competition or an edit
\* of a team in it, also with the locks of foreign keys and the waits for unique names.
THEOREM NobodyWaitsInACircle == Spec => []NoCircle
<1>. QED
  BY NobodyGoesRound, LocksAreInOrder, PTL

=============================================================================
