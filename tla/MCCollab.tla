------------------------------ MODULE MCCollab ------------------------------
(* Model checking of Collab.                                               *)
EXTENDS Collab
=============================================================================
