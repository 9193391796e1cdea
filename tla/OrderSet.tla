------------------------------ MODULE OrderSet -------------------------------
(***************************************************************************)
(* What the order table of a book promises: the set of the order numbers   *)
(* that rest in the book, at most TableSize of them.                       *)
(***************************************************************************)
EXTENDS Naturals, FiniteSets

CONSTANTS OrderNos, TableSize

VARIABLE members

Init == members = {}

Insert(o) ==
  /\ o \in members \/ Cardinality(members) < TableSize
  /\ members' = members \cup {o}

Erase(o) == members' = members \ {o}

Next == \E o \in OrderNos : Insert(o) \/ Erase(o)

Spec == Init /\ [][Next]_members
==============================================================================
