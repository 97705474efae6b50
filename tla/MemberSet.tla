----------------------------- MODULE MemberSet ------------------------------
(* What the group routes of EIM promise of the members of a group: they are *)
(* a set that additions and removals change one at a time, each in one step.*)
EXTENDS Naturals

CONSTANTS Users

VARIABLES members

Init == members \subseteq Users

Add(S) == members' = members \cup S

Remove(u) == members' = members \ {u}

Next == (\E S \in SUBSET Users : Add(S)) \/ (\E u \in Users : Remove(u))

Spec == Init /\ [][Next]_members
=============================================================================
