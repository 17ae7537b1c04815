------------------------ MODULE CompetitionsService -------------------------
(***************************************************************************)
(* joinCompetition with the Faux Stakes engine's onUserJoined hook, which  *)
(* runs inside the same transaction.                                       *)
(***************************************************************************)
EXTENDS Transactions

\* A fault the runs must expose: the membership is looked up, not upserted.
UpsertMemberUnlocked(r) ==
  /\ At(r, "upsert")
  /\ Goto(r, "credit")
  /\ UNCHANGED <<tables, todo, owed, holder>>

\* tx.competitionMember.upsert: INSERT ... ON CONFLICT DO UPDATE, which locks
\* the membership row whether it exists or not.
UpsertMember(r) ==
  LET a == call[r] IN
  /\ At(r, "upsert")
  /\ Lock(r, WalletRow(a.competition, a.user))
  /\ Goto(r, "credit")
  /\ UNCHANGED <<tables, todo, owed>>

\* onUserJoined: is there a starting credit already?
ReadStartingCredit(r) ==
  LET a == call[r] IN
  /\ At(r, "credit")
  /\ owed' = [owed EXCEPT ![r] = StartingCredits(a.competition, a.user) = {}]
  /\ Goto(r, "touch")
  /\ UNCHANGED <<tables, todo, holder>>

CommitJoin(r) ==
  LET a == call[r] IN
  /\ At(r, "commit")
  /\ a.op = "join"
  /\ WriteJoin(a.competition, a.user, owed[r], r)
  /\ Finish(r, "ok")

JoinCompetition(r) == UpsertMember(r) \/ ReadStartingCredit(r) \/ CommitJoin(r)

=============================================================================
