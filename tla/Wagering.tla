------------------------------ MODULE Wagering ------------------------------
(***************************************************************************)
(* What Faux Stakes promises its players: staking, undoing, joining and    *)
(* the life of a market, each as one indivisible step whose guard is the   *)
(* rule of the game.  FauxStakes.tla, where the same operations run as     *)
(* interleaved database transactions, is shown to implement it.            *)
(***************************************************************************)
EXTENDS Tables

Create(m) == status[m] = "ABSENT" /\ WriteStatus(m, "DRAFT")

Open(m) == status[m] = "DRAFT" /\ WriteStatus(m, "OPEN")

Close(m) == status[m] = "OPEN" /\ WriteStatus(m, "CLOSED")

\* Only a closed market is settled, on one of its own selections, and the
\* settlement resolves every stake that is still pending on it.
Settle(winner, r) ==
  LET m == MarketOf[winner] IN
  /\ status[m] = "CLOSED"
  /\ WriteSettle(CompetitionOf[m], m, winner, Pending(m), r)

\* Only a member stakes, under a fresh key, on an open market, and never more
\* than the balance.
Place(u, s, stake, k, r) ==
  LET m == MarketOf[s]
      c == CompetitionOf[m]
  IN  /\ <<c, u>> \in member
      /\ bet[k] = None
      /\ status[m] = "OPEN"
      /\ selection[s] = "ACTIVE"
      /\ Balance(c, u) >= stake
      /\ WritePlace(c, u, s, stake, k, m, r)

\* Only a pending stake on a market that is still open is undone.
Undo(k, r) ==
  /\ bet[k] # None
  /\ bet[k].status = "PENDING"
  /\ status[MarketOf[bet[k].selection]] = "OPEN"
  /\ WriteUndo(bet[k].competition, k, r)

Join(c, u, r) == WriteJoin(c, u, StartingCredits(c, u) = {}, r)

Init == TablesInit

Next ==
  \/ \E m \in Markets : Create(m) \/ Open(m) \/ Close(m)
  \/ \E r \in Requests :
       \/ \E s \in Selections : Settle(s, r)
       \/ \E u \in Users, s \in Selections, stake \in Stakes, k \in Keys :
            Place(u, s, stake, k, r)
       \/ \E k \in Keys : Undo(k, r)
       \/ \E c \in Competitions, u \in Users : Join(c, u, r)

Spec == Init /\ [][Next]_tables

TypeOK == TablesTypeOK

=============================================================================
