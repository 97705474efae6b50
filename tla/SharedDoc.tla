------------------------------ MODULE SharedDoc -----------------------------
(***************************************************************************)
(* What gdocs promises of one document as long as nobody restores an older *)
(* state or deletes the document, no save is cut short and the edits of a  *)
(* page reach the server in order: there is one stored content, it only    *)
(* grows, and a page shows its own edits and stored content, nothing else. *)
(* In particular no page shows another page's edit that a crash of the     *)
(* server between two turns could still lose.                              *)
(***************************************************************************)
CONSTANTS Clients, Ops

VARIABLES stored,   \* the content of the state file
          shown,    \* the content of each page
          disturbed \* the promise is off

Init ==
    /\ stored = {}
    /\ shown = [c \in Clients |-> {}]
    /\ disturbed = FALSE

\* A page edits its content.
Edit(c) ==
    /\ \E o \in Ops : /\ o.cl = c
                      /\ shown' = [shown EXCEPT ![c] = @ \cup {o}]
    /\ UNCHANGED stored

\* Edits become part of the stored content.
Store ==
    /\ stored \subseteq stored'
    /\ stored' \subseteq Ops
    /\ UNCHANGED shown

\* A page receives stored content.
Fetch(c) ==
    /\ \E U \in SUBSET stored : shown' = [shown EXCEPT ![c] = @ \cup U]
    /\ UNCHANGED stored

\* A page is closed.
Close(c) ==
    /\ shown' = [shown EXCEPT ![c] = {}]
    /\ UNCHANGED stored

Promised ==
    /\ UNCHANGED disturbed
    /\ Store \/ \E c \in Clients : Edit(c) \/ Fetch(c) \/ Close(c)

Next == Promised \/ disturbed'

Spec == Init /\ [][Next]_<<stored, shown, disturbed>>
=============================================================================
