----------------------------- MODULE MCDocStore -----------------------------
(* Model checking of DocStore.                                             *)
EXTENDS DocStore
=============================================================================
