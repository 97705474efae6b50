----------------------------- MODULE MCPresence -----------------------------
(* Model checking of Presence.                                             *)
EXTENDS Presence
=============================================================================
