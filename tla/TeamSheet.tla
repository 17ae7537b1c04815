----------------------------- MODULE TeamSheet ------------------------------
(***************************************************************************)
(* What the setup of competitions promises: every competition has a join   *)
(* code of its own and a sheet of distinct team names, at most MaxTeams of *)
(* them, and every change of it is one indivisible step.                   *)
(***************************************************************************)
EXTENDS Integers, FiniteSets

CONSTANTS
  Ids,        \* competitions that are there or may be created
  Codes,      \* join codes
  Words,      \* normalised team names
  MaxTeams,   \* MAX_TEAMS_PER_COMPETITION
  None,       \* the code of a competition that does not exist
  StartCode   \* the codes when the model starts

VARIABLES
  code,       \* the join code of a competition
  sheet       \* how many teams of a competition have a name

Used(c) == {w \in Words : sheet[c][w] > 0}

Init ==
  /\ code = StartCode
  /\ sheet = [c \in Ids |-> [w \in Words |-> 0]]

Write(c, used) ==
  sheet' = [sheet EXCEPT ![c] = [w \in Words |-> IF w \in used THEN 1 ELSE 0]]

\* A competition is created under a code nobody else has, with its first teams.
Create(c, k, words) ==
  /\ code[c] = None
  /\ \A d \in Ids : code[d] # k
  /\ Cardinality(words) <= MaxTeams
  /\ code' = [code EXCEPT ![c] = k]
  /\ Write(c, words)

\* Teams are added all together, none of them there yet, within the limit.
Add(c, words) ==
  /\ code[c] # None
  /\ words \cap Used(c) = {}
  /\ Cardinality(Used(c)) + Cardinality(words) <= MaxTeams
  /\ Write(c, Used(c) \cup words)
  /\ UNCHANGED code

\* A team takes a name that no other team of its competition has.
Rename(c, old, new) ==
  /\ old \in Used(c)
  /\ new \notin Used(c) \ {old}
  /\ Write(c, (Used(c) \ {old}) \cup {new})
  /\ UNCHANGED code

Next ==
  \E c \in Ids :
    \/ \E k \in Codes, words \in SUBSET Words : Create(c, k, words)
    \/ \E words \in SUBSET Words : Add(c, words)
    \/ \E old, new \in Words : Rename(c, old, new)

Spec == Init /\ [][Next]_<<code, sheet>>

=============================================================================
