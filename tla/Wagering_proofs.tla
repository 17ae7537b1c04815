-------------------------- MODULE Wagering_proofs ---------------------------
(***************************************************************************)
(* What the atomic game keeps true in every state: types and balances.     *)
(***************************************************************************)
EXTENDS Wagering, Tables_proofs

LEMMA NextIsBookStep ==
  ASSUME [Next]_tables
  PROVE  BookStep
<1>1. ASSUME NEW m \in Markets, Create(m) \/ Open(m) \/ Close(m)
      PROVE  \E to \in {"DRAFT", "OPEN", "CLOSED"} : Moves(m, to)
  BY <1>1 DEF Create, Open, Close, Moves
<1>2. \A s \in Selections, r \in Requests : Settle(s, r) => Settles(s, r)
  BY DEF Settle, Settles
<1>3. \A u \in Users, s \in Selections, stake \in Stakes, k \in Keys, r \in Requests :
        Place(u, s, stake, k, r) => Wagers(u, s, stake, k, r)
  BY DEF Place, Wagers
<1>4. \A k \in Keys, r \in Requests : Undo(k, r) => Undoes(k, r)
  BY DEF Undo, Undoes
<1>5. \A c \in Competitions, u \in Users, r \in Requests : Join(c, u, r) => Joins(c, u, r)
  BY DEF Join, Joins
<1>. QED
  BY <1>1, <1>2, <1>3, <1>4, <1>5 DEF Next, BookStep

\* The committed rows stay well typed.
THEOREM TypeCorrect == Spec => []TypeOK
<1>1. Init => TypeOK
  BY InitTablesTypeOK DEF Init, TypeOK
<1>2. TypeOK /\ [Next]_tables => TypeOK'
  BY NextIsBookStep, StepKeepsTypes DEF TypeOK
<1>. QED
  BY <1>1, <1>2, PTL DEF Spec

\* No balance of the atomic game ever goes below zero: the check in placeBet and
\* the write it allows, made in one step, are enough.
THEOREM BalancesStayPositive == Spec => []NoOverdraft
<1>1. Init => NoOverdraft
  BY InitNoOverdraft DEF Init
<1>2. TypeOK /\ NoOverdraft /\ [Next]_tables => NoOverdraft'
  BY NextIsBookStep, StepKeepsNoOverdraft DEF TypeOK
<1>. QED
  BY <1>1, <1>2, TypeCorrect, PTL DEF Spec

=============================================================================
