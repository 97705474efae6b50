------------------------------ MODULE MCGroups ------------------------------
(* Model checking of Groups.                                               *)
EXTENDS Groups, TLC

Symmetry == Permutations(Requests)
=============================================================================
