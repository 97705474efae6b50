-------------------------- MODULE MCRouteRegistry ---------------------------
(* Model checking of RouteRegistry: one default route and two that are     *)
(* created.                                                                *)
EXTENDS RouteRegistry

MCDefaultKey == [r \in {1} |-> <<"GET", [prefixed |-> TRUE, name |-> "hello"]>>]
=============================================================================
