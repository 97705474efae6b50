----------------------------- MODULE MCAppStore -----------------------------
(* Model checking of AppStore: tabs, pages and components are              *)
(* interchangeable.                                                        *)
EXTENDS AppStore, TLC

Symmetry == Permutations(Tabs) \cup Permutations(PageIds) \cup Permutations(ComponentIds)
=============================================================================
