-------------------------------- MODULE YDoc --------------------------------
(***************************************************************************)
(* The part of Yjs that gdocs relies on (external code: modelled from how  *)
(* server/src/socket.ts, client/src/lib/collab.ts and CollabEditor.tsx use *)
(* it).  A document holds one Y.Map key, 'editorContent'/'json'.  Setting  *)
(* it creates an item with an identifier (clientID, clock) whose left      *)
(* origin is the item that was visible when it was created.  A replica is  *)
(* the set of items it knows of.  An item whose predecessors are missing   *)
(* is kept aside (pending): it is encoded with the rest of the document,   *)
(* but it is not part of the content until the gap is filled.              *)
(***************************************************************************)
EXTENDS Naturals

CONSTANTS Clients,    \* the Y.Doc instances, identified by their clientID
          MaxEdits    \* bound: the edits all of them make

ASSUME ClientsAssumption == Clients \subseteq Nat
ASSUME MaxEditsAssumption == MaxEdits \in Nat

\* The identifier of an item; Root is the left origin of an item that was
\* created when the key was not set.
Root == <<0, 0>>
Ids  == Clients \X (1..MaxEdits)

\* An item of the map key: its clientID, its clock and its left origin.
Ops == [cl : Clients, n : 1..MaxEdits, left : Ids \cup {Root}]

Id(o) == <<o.cl, o.n>>

IdsOf(S) == {Id(o) : o \in S}

\* Every item of S has its predecessor (the previous clock of its client)
\* and its left origin in S.
Closed(S) ==
    \A o \in S : /\ o.n = 1 \/ \E p \in S : p.cl = o.cl /\ p.n = o.n - 1
                 /\ o.left = Root \/ o.left \in IdsOf(S)

\* The items of K that Yjs integrates: the largest closed part of K.
Integrated(K) == UNION {S \in SUBSET K : Closed(S)}

\* Y.applyUpdate: the items of the update are added, pending ones included.
\* doc.on('update') fires if and only if something was integrated.
ApplyUpdate(K, U) == K \cup U

Fires(K, U) == Integrated(K \cup U) # Integrated(K)

\* What the 'update' event carries: the newly integrated items.
Delta(K, U) == Integrated(K \cup U) \ Integrated(K)

-----------------------------------------------------------------------------
(* The visible item.  Items with the same left origin are ordered by       *)
(* clientID, the items that follow an item come right after it, and the    *)
(* rightmost item is the value of the key.                                 *)

Children(S, id) == {o \in S : o.left = id}

RightmostChild(S, id) ==
    CHOOSE o \in Children(S, id) : \A p \in Children(S, id) : p.cl <= o.cl

\* A set of identifiers closed under going to the rightmost child.
DescendsRight(S, A) ==
    /\ Root \in A
    /\ \A id \in A : Children(S, id) # {} => Id(RightmostChild(S, id)) \in A

Spine(S) ==
    {id \in IdsOf(S) \cup {Root} :
        \A A \in SUBSET (IdsOf(S) \cup {Root}) : DescendsRight(S, A) => id \in A}

\* id identifies the visible item of the closed set of items S.
IsVisible(S, id) == id \in Spine(S) /\ Children(S, id) = {}
=============================================================================
