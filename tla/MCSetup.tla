------------------------------ MODULE MCSetup -------------------------------
(* A competition that is there, another that is being created, three names,  *)
(* two of which are one and the same once normalised.                         *)
EXTENDS Setup

MCStartCode == [c \in Existing |-> "code1"]
MCNormal == [n \in Names |-> IF n = "Red" THEN "red" ELSE n]

Create(names) == [op |-> "create", names |-> names]
Teams(names) == {[op |-> "teams", competition |-> c, names |-> names] : c \in Existing}
Edit(name) ==
  {[op |-> "edit", competition |-> c, team |-> i, name |-> name] :
     c \in Existing, i \in Requests \X {"red", "blue"}}

SetupCalls ==
  {Create({"red"}), Create({"red", "Red"})}
  \cup Teams({"red"}) \cup Teams({"Red", "blue"}) \cup Teams({"red", "Red"})
  \cup Edit("blue")

=============================================================================
