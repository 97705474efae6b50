---------------------------- MODULE GroupsProofs ----------------------------
(* Proofs about Groups: types, InOnce and the refinement of MemberSet, for *)
(* any users and any number of concurrent requests.                        *)
EXTENDS Groups, TLAPS

(* A removal is of one user, and the copy it holds is the array itself as   *)
(* long as nobody has changed the version.                                 *)
CopyInv ==
    \A r \in Requests : Loaded(r) =>
        /\ req[r].kind = "remove" => \E u \in Users : req[r].users = Only(u)
        /\ req[r].version <= version
        /\ req[r].version = version => req[r].copy = entries

(* A user about to be added is not in the array yet, and is listed once by *)
(* one request only, unless additions overlapped or repeated the user.     *)
AddInv ==
    \A u \in Users \ twice :
        /\ entries[u] <= 1
        /\ \A r \in Requests : Adds(r, u) => entries[u] = 0 /\ req[r].users[u] = 1
        /\ \A r, q \in Requests : Adds(r, u) /\ Adds(q, u) => r = q

GroupInv == TypeOK /\ CopyInv /\ AddInv

Records == [status : {"new", "loaded", "ok", "failed"}, kind : Kinds,
            users : Lists, copy : [Users -> Nat], version : Nat]

\* Nobody and Only(u) are lists a request may carry.
LEMMA ListTypes ==
    /\ Nobody \in Lists /\ Nobody \in [Users -> Nat]
    /\ \A u \in Users : /\ Only(u) \in Lists
                        /\ \A v \in Users : Only(u)[v] > 0 <=> v = u
BY MaxListedAssumption DEF Nobody, Only, Lists

\* The group as it is created.
LEMMA InitInv == Init => GroupInv
<1> SUFFICES ASSUME Init PROVE GroupInv OBVIOUS
<1>1. TypeOK
  <2>1. req \in [Requests -> Records]
    BY ListTypes DEF Init, NoCopy, Records, Kinds
  <2>2. entries \in [Users -> Nat]
    <3>1. PICK L \in Lists : entries = [u \in Users |-> (IF u = Owner THEN 1 ELSE 0) + L[u]]
      BY DEF Init
    <3>2. \A u \in Users : L[u] \in Nat
      BY MaxListedAssumption DEF Lists
    <3> QED BY <3>1, <3>2
  <2>3. version \in Nat /\ about \subseteq Requests /\ twice \subseteq Users
    BY DEF Init
  <2> QED BY <2>1, <2>2, <2>3 DEF TypeOK, Records
<1>2. \A r \in Requests : ~Loaded(r)
  BY DEF Init, Loaded, NoCopy
<1>3. \A u \in Users \ twice : entries[u] <= 1
  <2>1. \A u \in Users : entries[u] \in Nat /\ (entries[u] > 1 => u \in twice)
    BY <1>1 DEF Init, TypeOK
  <2>2. ASSUME NEW u \in Users, u \notin twice
        PROVE  entries[u] <= 1
    <3>1. entries[u] \in Nat /\ ~(entries[u] > 1)
      BY <2>1, <2>2
    <3> QED BY <3>1, SMT
  <2> QED BY <2>2
<1>4. AddInv
  BY <1>2, <1>3 DEF AddInv, Adds
<1> QED BY <1>1, <1>2, <1>4 DEF GroupInv, CopyInv

(* What a request that is over leaves of req.                              *)
LEMMA FinishReq ==
    ASSUME TypeOK, NEW r \in Requests, NEW o \in {"ok", "failed"}, Finish(r, o)
    PROVE  /\ req' \in [Requests -> Records]
           /\ ~Loaded(r)'
           /\ \A q \in Requests : Loaded(q)' => q # r /\ Loaded(q) /\ req'[q] = req[q]
<1>1. NoCopy(o) \in Records
  BY ListTypes DEF NoCopy, Records, Kinds
<1>2. req \in [Requests -> Records]
  BY DEF TypeOK, Records
<1>3. NoCopy(o).status # "loaded"
  BY DEF NoCopy
<1> QED BY <1>1, <1>2, <1>3 DEF Finish, Loaded

(* A step that leaves the members alone, and finishes a request.           *)
LEMMA QuietStep ==
    ASSUME GroupInv, NEW r \in Requests, NEW o \in {"ok", "failed"}, Finish(r, o),
           UNCHANGED <<entries, version, twice>>, about' \subseteq Requests
    PROVE  GroupInv'
<1>1. /\ req' \in [Requests -> Records]
      /\ \A q \in Requests : Loaded(q)' => q # r /\ Loaded(q) /\ req'[q] = req[q]
  BY FinishReq DEF GroupInv
<1>2. TypeOK'
  BY <1>1 DEF GroupInv, TypeOK, Records
<1>3. CopyInv'
  BY <1>1 DEF GroupInv, CopyInv
<1>4. AddInv'
  BY <1>1 DEF GroupInv, AddInv, Adds
<1> QED BY <1>2, <1>3, <1>4 DEF GroupInv

\* What a request wants is a list too, of users who are not members when it is
\* an addition.
LEMMA WantedType ==
    ASSUME NEW kind, NEW L \in Lists
    PROVE  /\ Wanted(kind, L) \in Lists
           /\ kind = "add" => \A u \in Users : Wanted(kind, L)[u] > 0 => ~IsMember(entries, u)
           /\ kind # "add" => Wanted(kind, L) = L
BY MaxListedAssumption DEF Wanted, Lists

\* A request that loads the group gets a copy of it, and what it wants to add
\* is not in the array.
LEMMA LoadStep ==
    ASSUME GroupInv, NEW r \in Requests, NEW kind \in Kinds, NEW by \in Users,
           NEW L \in Lists, Load(r, kind, by, L)
    PROVE  GroupInv'
<1> DEFINE w == Wanted(kind, L)
           rec == [status |-> "loaded", kind |-> kind, users |-> w,
                   copy |-> entries, version |-> version]
<1>1. req' = [req EXCEPT ![r] = rec] /\ UNCHANGED <<entries, version, about>>
  BY DEF Load
<1>2. w \in Lists /\ \A u \in Users : w[u] \in Nat
  BY WantedType, MaxListedAssumption DEF Lists
<1>3. kind = "remove" => \E u \in Users : w = Only(u)
  BY WantedType DEF Load, Allowed, Kinds
<1>4. kind = "add" => \A u \in Users : w[u] > 0 => entries[u] = 0
  BY WantedType DEF IsMember, GroupInv, TypeOK
<1> HIDE DEF w
<1>5. rec \in Records
  BY <1>2 DEF GroupInv, TypeOK, Records
<1>6. req \in [Requests -> Records]
  BY DEF GroupInv, TypeOK, Records
<1>7. req'[r] = rec /\ \A q \in Requests : q # r => req'[q] = req[q]
  BY <1>1, <1>6
<1>8. /\ twice \subseteq twice' /\ twice' \subseteq Users
      /\ \A u \in Users \ twice' : kind = "add" =>
            w[u] \in {0, 1} /\ (w[u] = 1 => \A q \in Requests : ~Adds(q, u))
  <2>1. twice' = twice \cup {u \in Users : /\ kind = "add"
                                         /\ \/ w[u] > 1
                                            \/ w[u] = 1 /\ \E q \in Requests : Adds(q, u)}
    BY <1>7 DEF Load
  <2>2. twice \subseteq Users
    BY DEF GroupInv, TypeOK
  <2>3. ASSUME NEW u \in Users \ twice', kind = "add"
        PROVE  ~(w[u] > 1) /\ (w[u] = 1 => \A q \in Requests : ~Adds(q, u))
    BY <2>1, <2>3
  <2>4. \A u \in Users \ twice' : kind = "add" => w[u] \in {0, 1}
    BY <1>2, <2>3
  <2> QED BY <2>1, <2>2, <2>3, <2>4
<1>9. TypeOK'
  BY <1>1, <1>5, <1>6, <1>8 DEF GroupInv, TypeOK, Records
<1>10. CopyInv'
  <2>1. ASSUME NEW q \in Requests, Loaded(q)'
        PROVE  /\ req'[q].kind = "remove" => \E u \in Users : req'[q].users = Only(u)
               /\ req'[q].version <= version
               /\ req'[q].version = version => req'[q].copy = entries
    <3>1. CASE q = r
      BY <3>1, <1>3, <1>7 DEF GroupInv, TypeOK
    <3>2. CASE q # r
      BY <3>2, <2>1, <1>7 DEF GroupInv, CopyInv, Loaded
    <3> QED BY <3>1, <3>2
  <2> QED BY <2>1, <1>1 DEF CopyInv
<1>11. AddInv'
  <2> SUFFICES ASSUME NEW u \in Users \ twice'
               PROVE  /\ entries[u] <= 1
                      /\ \A q \in Requests : Adds(q, u)' => entries[u] = 0 /\ req'[q].users[u] = 1
                      /\ \A p, q \in Requests : Adds(p, u)' /\ Adds(q, u)' => p = q
    BY <1>1 DEF AddInv
  <2>1. u \notin twice
    BY <1>8
  <2>2. \A q \in Requests : q # r => (Adds(q, u)' <=> Adds(q, u)) /\ req'[q] = req[q]
    BY <1>7 DEF Adds, Loaded
  <2>3. Adds(r, u)' => /\ entries[u] = 0 /\ req'[r].users[u] = 1
                       /\ \A q \in Requests : ~Adds(q, u)
    <3> SUFFICES ASSUME Adds(r, u)'
                 PROVE  /\ entries[u] = 0 /\ req'[r].users[u] = 1
                        /\ \A q \in Requests : ~Adds(q, u)
      OBVIOUS
    <3>1. kind = "add" /\ w[u] > 0
      BY <1>7 DEF Adds
    <3> QED BY <3>1, <1>2, <1>4, <1>7, <1>8
  <2> QED BY <2>1, <2>2, <2>3 DEF GroupInv, AddInv
<1> QED BY <1>9, <1>10, <1>11 DEF GroupInv

\* The users a request lists.
Listed(r) == {u \in Users : req[r].users[u] > 0}

\* An addition is pushed to the array as it is now; the users it adds are not
\* there, or were repeated or added by overlapping requests.
LEMMA AddStep ==
    ASSUME GroupInv, NEW r \in Requests, SaveAdd(r)
    PROVE  GroupInv' /\ Members' = Members \cup Listed(r)
<1>1. /\ req' \in [Requests -> Records]
      /\ \A q \in Requests : Loaded(q)' => q # r /\ Loaded(q) /\ req'[q] = req[q]
  BY FinishReq DEF GroupInv, SaveAdd
<1>2. /\ entries' = [u \in Users |-> entries[u] + req[r].users[u]]
      /\ version' = version + 1 \/ (req[r].users = Nobody /\ version' = version)
      /\ Loaded(r) /\ req[r].kind = "add"
      /\ UNCHANGED <<about, twice>>
  BY DEF SaveAdd
<1>3. /\ entries \in [Users -> Nat] /\ version \in Nat
      /\ req \in [Requests -> Records]
      /\ \A u \in Users : req[r].users[u] \in Nat
  BY MaxListedAssumption DEF GroupInv, TypeOK, Records, Lists
<1>4. TypeOK'
  BY <1>1, <1>2, <1>3 DEF GroupInv, TypeOK, Records
<1>5. version' = version => entries' = entries
  <2>1. ASSUME req[r].users = Nobody
        PROVE  entries' = entries
    <3>1. \A u \in Users : req[r].users[u] = 0
      BY <2>1 DEF Nobody
    <3> QED BY <3>1, <1>2, <1>3
  <2> QED BY <2>1, <1>2, <1>3
<1>6. version <= version'
  BY <1>2, <1>3
<1>7. \A q \in Requests : req[q].version \in Nat
  BY <1>3 DEF Records
<1>8. CopyInv'
  <2> SUFFICES ASSUME NEW q \in Requests, Loaded(q)'
               PROVE  /\ req'[q].kind = "remove" => \E u \in Users : req'[q].users = Only(u)
                      /\ req'[q].version <= version'
                      /\ req'[q].version = version' => req'[q].copy = entries'
    BY DEF CopyInv
  <2>1. Loaded(q) /\ req'[q] = req[q]
    BY <1>1
  <2>2. version' \in Nat
    BY <1>4 DEF TypeOK
  <2> QED BY <2>1, <2>2, <1>3, <1>5, <1>6, <1>7 DEF GroupInv, CopyInv
<1>9. AddInv'
  <2> SUFFICES ASSUME NEW u \in Users \ twice
               PROVE  /\ entries'[u] <= 1
                      /\ \A q \in Requests : Adds(q, u)' => entries'[u] = 0 /\ req'[q].users[u] = 1
                      /\ \A p, q \in Requests : Adds(p, u)' /\ Adds(q, u)' => p = q
    BY <1>2 DEF AddInv
  <2>1. \A q \in Requests : Adds(q, u)' => q # r /\ Adds(q, u) /\ req'[q] = req[q]
    BY <1>1 DEF Adds
  <2>2. CASE req[r].users[u] > 0
    <3>1. Adds(r, u)
      BY <2>2, <1>2 DEF Adds
    <3>2. /\ entries[u] = 0 /\ req[r].users[u] = 1
          /\ \A q \in Requests : Adds(q, u) => q = r
      BY <3>1 DEF GroupInv, AddInv
    <3> QED BY <3>2, <2>1, <2>2, <1>2
  <2>3. CASE ~(req[r].users[u] > 0)
    <3>1. entries'[u] = entries[u]
      BY <2>3, <1>2, <1>3
    <3> QED BY <2>1, <3>1 DEF GroupInv, AddInv
  <2> QED BY <2>2, <2>3
<1>10. Members' = Members \cup Listed(r)
  BY <1>2, <1>3 DEF Members, IsMember, Listed
<1> QED BY <1>4, <1>8, <1>9, <1>10 DEF GroupInv

\* A removal that is saved takes one user out of the array as it is now.
LEMMA RemoveStep ==
    ASSUME GroupInv, NEW r \in Requests, SaveRemove(r)
    PROVE  GroupInv' /\ (Members' = Members \/ \E u \in Users : Members' = Members \ {u})
<1> DEFINE Absent == \A u \in Users : req[r].users[u] > 0 => req[r].copy[u] = 0
<1>1. /\ req' \in [Requests -> Records]
      /\ \A q \in Requests : Loaded(q)' => q # r /\ Loaded(q) /\ req'[q] = req[q]
  BY FinishReq DEF GroupInv, SaveRemove
<1>2. CASE Absent
  <2>1. UNCHANGED <<entries, version, about, twice>> /\ Finish(r, "ok")
    BY <1>2 DEF SaveRemove
  <2>2. GroupInv'
    BY <2>1, QuietStep DEF GroupInv, TypeOK
  <2> QED BY <2>1, <2>2 DEF Members, IsMember
<1>3. CASE ~Absent
  <2>1. /\ version = req[r].version
        /\ entries' = [u \in Users |-> IF req[r].users[u] > 0 THEN 0 ELSE req[r].copy[u]]
        /\ version' = version + 1
        /\ UNCHANGED <<about, twice>>
        /\ Loaded(r) /\ req[r].kind = "remove"
    BY <1>3 DEF SaveRemove
  <2>2. req[r].copy = entries
    BY <2>1 DEF GroupInv, CopyInv
  <2>3. PICK v \in Users : req[r].users = Only(v)
    BY <2>1 DEF GroupInv, CopyInv
  <2>4. entries' = [entries EXCEPT ![v] = 0]
    <3>1. \A u \in Users : req[r].users[u] > 0 <=> u = v
      BY <2>3, ListTypes
    <3> QED BY <2>1, <2>2, <3>1 DEF GroupInv, TypeOK
  <2>5. TypeOK'
    BY <2>1, <2>4, <1>1 DEF GroupInv, TypeOK, Records
  <2>6. CopyInv'
    <3>1. \A q \in Requests : req[q].version \in Nat
      BY DEF GroupInv, TypeOK
    <3> QED BY <3>1, <1>1, <2>1 DEF GroupInv, CopyInv, TypeOK
  <2>7. AddInv'
    BY <1>1, <2>1, <2>4 DEF GroupInv, AddInv, Adds, TypeOK
  <2>8. Members' = Members \ {v}
    BY <2>4 DEF Members, IsMember, GroupInv, TypeOK
  <2> QED BY <2>5, <2>6, <2>7, <2>8 DEF GroupInv
<1> QED BY <1>2, <1>3

\* Every step keeps GroupInv and changes the members as MemberSet allows.
LEMMA Step ==
    ASSUME GroupInv, [Next]_vars
    PROVE  GroupInv' /\ [Abstract!Next]_Members
<1>1. CASE UNCHANGED vars
  <2>1. GroupInv'
    BY <1>1 DEF vars, GroupInv, TypeOK, CopyInv, AddInv, Adds, Loaded
  <2> QED BY <1>1, <2>1 DEF vars, Members, IsMember
<1>2. ASSUME NEW r \in Requests, NEW kind \in Kinds, NEW by \in Users, NEW L \in Lists,
             Load(r, kind, by, L)
      PROVE  GroupInv' /\ Members' = Members
  BY <1>2, LoadStep DEF Load, Members, IsMember
<1>3. ASSUME NEW r \in Requests, SaveAdd(r)
      PROVE  GroupInv' /\ Abstract!Add(Listed(r)) /\ Listed(r) \in SUBSET Users
  BY <1>3, AddStep DEF Abstract!Add, Listed
<1>4. ASSUME NEW r \in Requests, SaveRemove(r)
      PROVE  GroupInv' /\ (Members' = Members \/ \E u \in Users : Abstract!Remove(u))
  BY <1>4, RemoveStep DEF Abstract!Remove
<1>5. ASSUME NEW r \in Requests, RemoveFails(r) \/ SaveOther(r) \/ Abandon(r)
      PROVE  GroupInv' /\ Members' = Members
  <2>1. /\ Finish(r, "ok") \/ Finish(r, "failed")
        /\ UNCHANGED <<entries, version, twice>> /\ about' \subseteq Requests
    BY <1>5 DEF RemoveFails, SaveOther, Abandon, GroupInv, TypeOK
  <2> QED BY <2>1, QuietStep DEF Members, IsMember
<1>6. CASE Next
  <2>1. GroupInv'
    BY <1>6, <1>2, <1>3, <1>4, <1>5 DEF Next
  <2>2. Abstract!Next \/ Members' = Members
    BY <1>6, <1>2, <1>3, <1>4, <1>5 DEF Next, Abstract!Next
  <2> QED BY <2>1, <2>2
<1> QED BY <1>1, <1>6

\* GroupInv holds in every reachable state.
LEMMA InvHolds == Spec => []GroupInv
<1>1. GroupInv /\ [Next]_vars => GroupInv'
  BY Step
<1> QED BY <1>1, InitInv, PTL DEF Spec

\* The state of a group and of its requests is well typed.
THEOREM GroupTypeCorrect == Spec => []TypeOK
<1>1. GroupInv => TypeOK
  BY DEF GroupInv
<1> QED BY <1>1, InvHolds, PTL

\* However many requests run concurrently, a user is in the array more than
\* once only if two requests that added the user overlapped, one of them or the
\* creation of the group listed the user more than once, or the creation listed
\* the owner.
THEOREM InOnceHolds == Spec => []InOnce
<1>1. GroupInv => InOnce
  BY DEF GroupInv, AddInv, InOnce, TypeOK
<1> QED BY <1>1, InvHolds, PTL

\* Loading, checking and saving in separate steps implements a set of members
\* that every request changes in one step.
THEOREM MemberSetImplemented == Spec => ImplementsMemberSet
<1>1. Init => Abstract!Init
  BY DEF Init, Abstract!Init, Members
<1>2. GroupInv /\ [Next]_vars => [Abstract!Next]_Members
  BY Step
<1> QED BY <1>1, <1>2, InvHolds, PTL DEF Spec, ImplementsMemberSet, Abstract!Spec
=============================================================================
