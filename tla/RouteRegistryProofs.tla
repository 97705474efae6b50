------------------------ MODULE RouteRegistryProofs -------------------------
(***************************************************************************)
(* Theorems about RouteRegistry, for every set of ids, methods and names   *)
(* and every choice of default routes.                                     *)
(***************************************************************************)
EXTENDS RouteRegistry, TLAPS

\* What a client writes becomes a key.
LEMMA NormaliseType ==
    ASSUME NEW m \in Methods, NEW p \in RawPaths
    PROVE  <<m, Normalise(p)>> \in Keys
  <1>1. Normalise(p) \in Paths
    BY DEF Normalise, RawPaths, Paths
  <1>2. QED
    BY <1>1 DEF Keys

\* The placeholder for a route object that does not exist yet is a key.
LEMMA AnyKeyType == AnyKey \in Keys
  BY KeysAssumption DEF AnyKey

\* The index entry of the default routes under a key.
LEMMA DefaultIndex ==
    ASSUME NEW k, \E r \in DOMAIN DefaultKey : DefaultKey[r] = k
    PROVE  /\ (CHOOSE r \in DOMAIN DefaultKey : DefaultKey[r] = k) \in DOMAIN DefaultKey
           /\ DefaultKey[CHOOSE r \in DOMAIN DefaultKey : DefaultKey[r] = k] = k
  OBVIOUS

-----------------------------------------------------------------------------
(* Type correctness.                                                       *)

\* The initial state is well typed.
LEMMA TypeInit == Init => TypeOK
  <1> SUFFICES ASSUME Init
               PROVE  TypeOK
    OBVIOUS
  <1>1. key \in [RouteIds -> Keys]
    BY DefaultKeyAssumption, AnyKeyType DEF Init
  <1>2. index \in [Keys -> RouteIds \cup {NoRoute}]
    BY DefaultKeyAssumption, DefaultIndex DEF Init
  <1>3. usage \in [RouteIds -> 0..MaxUsage]
    BY MaxUsageAssumption DEF Init
  <1>4. QED
    BY <1>1, <1>2, <1>3, DefaultKeyAssumption DEF Init, TypeOK

\* Every step preserves the types.
LEMMA TypeStep == TypeOK /\ [Next]_vars => TypeOK'
  <1> SUFFICES ASSUME TypeOK, [Next]_vars
               PROVE  TypeOK'
    OBVIOUS
  <1> USE DEF TypeOK
  <1>1. ASSUME NEW r \in RouteIds, NEW m \in Methods, NEW p \in RawPaths, Create(r, m, p)
        PROVE  TypeOK'
    BY <1>1, NormaliseType DEF Create
  <1>2. ASSUME NEW r \in RouteIds, NEW m \in Methods, NEW p \in RawPaths, Update(r, m, p)
        PROVE  TypeOK'
    BY <1>2, NormaliseType DEF Update, Reindex
  <1>3. ASSUME NEW r \in RouteIds, NEW m \in Methods, NEW p \in RawPaths,
               UpdateRaises(r, m, p)
        PROVE  TypeOK'
    BY <1>3, NormaliseType DEF UpdateRaises
  <1>4. ASSUME NEW r \in RouteIds, Delete(r)
        PROVE  TypeOK'
    BY <1>4 DEF Delete
  <1>5. ASSUME NEW r \in RouteIds, NEW b \in BOOLEAN, Toggle(r, b)
        PROVE  TypeOK'
    BY <1>5 DEF Toggle
  <1>6. ASSUME NEW k \in Keys, Request(k)
        PROVE  TypeOK'
    BY <1>6, MaxUsageAssumption DEF Request
  <1>7. CASE UNCHANGED vars
    BY <1>7 DEF vars
  <1>8. QED
    BY <1>1, <1>2, <1>3, <1>4, <1>5, <1>6, <1>7 DEF Next, Manage

\* The state of the route manager has its types at all times.
THEOREM RouteTypeCorrect == Spec => []TypeOK
  BY TypeInit, TypeStep, PTL DEF Spec

-----------------------------------------------------------------------------
(* The index and the routes agree.                                         *)

\* IndexSound and Reachable are inductive together with two facts: ids are
\* drawn once, and the history variable tells whether keys are shared now.
RouteInv ==
    /\ routes \subseteq made
    /\ ~clashed => ~Clash(routes, key)
    /\ IndexSound
    /\ Reachable

\* The invariant holds initially.
LEMMA RouteInvInit == Init => RouteInv
  <1> SUFFICES ASSUME Init
               PROVE  RouteInv
    OBVIOUS
  <1>1. \A r \in routes : key[r] = DefaultKey[r]
    BY DefaultKeyAssumption DEF Init
  <1>2. ~Clash(routes, key)
    BY <1>1, DefaultKeyAssumption DEF Init, Clash
  <1>3. ASSUME NEW k \in Keys, index[k] # NoRoute
        PROVE  index[k] \in routes /\ key[index[k]] = k
    BY <1>1, <1>3, DefaultIndex DEF Init
  <1>4. ASSUME NEW r \in routes
        PROVE  index[key[r]] = r
    <2>1. r \in DOMAIN DefaultKey /\ key[r] = DefaultKey[r] /\ key[r] \in Keys
      BY <1>1, DefaultKeyAssumption DEF Init
    <2>2. index[key[r]] = CHOOSE q \in DOMAIN DefaultKey : DefaultKey[q] = key[r]
      BY <2>1 DEF Init
    <2>3. QED
      BY <2>1, <2>2, DefaultIndex, DefaultKeyAssumption
  <1>5. QED
    BY <1>2, <1>3, <1>4 DEF Init, RouteInv, IndexSound, Reachable

\* Every step preserves the invariant.
LEMMA RouteInvStep == TypeOK /\ RouteInv /\ [Next]_vars => RouteInv'
  <1> SUFFICES ASSUME TypeOK, RouteInv, [Next]_vars
               PROVE  RouteInv'
    OBVIOUS
  <1> USE DEF TypeOK, RouteInv
  <1>1. ASSUME NEW r \in RouteIds, NEW m \in Methods, NEW p \in RawPaths, Create(r, m, p)
        PROVE  RouteInv'
    <2> DEFINE k0 == <<m, Normalise(p)>>
    <2>1. k0 \in Keys /\ r \notin routes
      BY <1>1, NormaliseType DEF Create
    <2> HIDE DEF k0
    <2>2. /\ routes' = routes \cup {r} /\ made' = made \cup {r} /\ torn' = torn
          /\ key' = [key EXCEPT ![r] = k0] /\ index' = [index EXCEPT ![k0] = r]
          /\ clashed' = (clashed \/ Clash(routes', key'))
      BY <1>1 DEF Create, k0
    <2>3. ~clashed' => ~Clash(routes, key)' /\ ~clashed
      BY <2>2 DEF Clash
    <2>4. IndexSound'
      BY <2>1, <2>2 DEF IndexSound
    <2>5. Reachable'
      BY <2>1, <2>2, <2>3 DEF Reachable, Clash
    <2>6. QED
      BY <2>2, <2>3, <2>4, <2>5
  <1>2. ASSUME NEW r \in RouteIds, NEW m \in Methods, NEW p \in RawPaths, Update(r, m, p)
        PROVE  RouteInv'
    <2> DEFINE k0 == <<m, Normalise(p)>>
    <2>1. k0 \in Keys /\ r \in routes /\ key[r] \in Keys
      BY <1>2, NormaliseType DEF Update
    <2> HIDE DEF k0
    <2>2. /\ UNCHANGED <<routes, made, torn>>
          /\ key' = [key EXCEPT ![r] = k0] /\ key'[r] = k0
          /\ clashed' = (clashed \/ Clash(routes, key'))
          /\ Reindex(r, key[r], k0)
      BY <1>2, <2>1 DEF Update, k0
    <2>3. ~clashed' => ~Clash(routes, key)' /\ ~clashed
      BY <2>2 DEF Clash
    <2>4. CASE key[r] = k0
      <3>1. index' = index /\ key' = key
        BY <2>1, <2>2, <2>4 DEF Reindex
      <3>2. QED
        BY <2>2, <2>3, <3>1 DEF IndexSound, Reachable
    <2>5. CASE key[r] # k0 /\ index[key[r]] # NoRoute
      <3>1. index' = [index EXCEPT ![key[r]] = NoRoute, ![k0] = r]
        BY <2>2, <2>5 DEF Reindex
      <3>2. IndexSound'
        BY <2>1, <2>2, <3>1 DEF IndexSound
      <3>3. Reachable'
        BY <2>1, <2>2, <2>3, <2>5, <3>1 DEF Reachable, Clash
      <3>4. QED
        BY <2>2, <2>3, <3>2, <3>3
    <2>6. CASE key[r] # k0 /\ index[key[r]] = NoRoute
      <3>1. index' = index
        BY <2>2, <2>6 DEF Reindex
      <3>2. IndexSound'
        BY <2>1, <2>2, <2>6, <3>1, NoRouteAssumption DEF IndexSound
      <3>3. Reachable'
        BY <2>1, <2>2, <2>3, <2>6, NoRouteAssumption DEF Reachable
      <3>4. QED
        BY <2>2, <2>3, <3>2, <3>3
    <2>7. QED
      BY <2>4, <2>5, <2>6
  <1>3. ASSUME NEW r \in RouteIds, NEW m \in Methods, NEW p \in RawPaths,
               UpdateRaises(r, m, p)
        PROVE  RouteInv'
    <2> DEFINE k0 == <<m, Normalise(p)>>
    <2>1. k0 \in Keys /\ r \in routes
      BY <1>3, NormaliseType DEF UpdateRaises
    <2> HIDE DEF k0
    <2>2. /\ UNCHANGED <<routes, made, index>>
          /\ key' = [key EXCEPT ![r] = k0] /\ key'[r] = k0
          /\ clashed' = (clashed \/ Clash(routes, key'))
          /\ torn' = (torn \/ (index[key[r]] = r /\ k0 # key[r]))
      BY <1>3, <2>1 DEF UpdateRaises, k0
    <2>3. ~clashed' => ~Clash(routes, key)' /\ ~clashed
      BY <2>2 DEF Clash
    <2>4. ~torn' => ~torn /\ (index[key[r]] # r \/ key' = key)
      BY <2>1, <2>2
    <2>5. IndexSound'
      BY <2>1, <2>2, <2>4 DEF IndexSound
    <2>6. Reachable'
      BY <2>1, <2>2, <2>3, <2>4 DEF Reachable
    <2>7. QED
      BY <2>2, <2>3, <2>5, <2>6
  <1>4. ASSUME NEW r \in RouteIds, Delete(r)
        PROVE  RouteInv'
    <2>1. /\ routes' = routes \ {r} /\ UNCHANGED <<made, key, torn, clashed>>
          /\ index' = [index EXCEPT ![key[r]] = NoRoute]
      BY <1>4 DEF Delete
    <2>2. ~clashed' => ~Clash(routes, key)'
      BY <2>1 DEF Clash
    <2>3. IndexSound'
      BY <2>1 DEF IndexSound
    <2>4. Reachable'
      BY <1>4, <2>1 DEF Reachable, Clash, Delete
    <2>5. QED
      BY <2>1, <2>2, <2>3, <2>4
  <1>5. ASSUME NEW r \in RouteIds, NEW b \in BOOLEAN, Toggle(r, b)
        PROVE  RouteInv'
    BY <1>5 DEF Toggle, IndexSound, Reachable, Clash
  <1>6. ASSUME NEW k \in Keys, Request(k)
        PROVE  RouteInv'
    BY <1>6 DEF Request, IndexSound, Reachable, Clash
  <1>7. CASE UNCHANGED vars
    BY <1>7 DEF vars, IndexSound, Reachable, Clash
  <1>8. QED
    BY <1>1, <1>2, <1>3, <1>4, <1>5, <1>6, <1>7 DEF Next, Manage

\* Unless an update of the route manager has raised half-way, the index that
\* the middleware consults holds existing routes under their own keys.
THEOREM IndexSoundHolds == Spec => []IndexSound
  <1>1. TypeOK /\ RouteInv /\ [Next]_vars => TypeOK' /\ RouteInv'
    BY TypeStep, RouteInvStep
  <1>2. RouteInv => IndexSound
    BY DEF RouteInv
  <1>3. QED
    BY TypeInit, RouteInvInit, <1>1, <1>2, PTL DEF Spec

\* Unless an update has raised half-way or two routes have shared a key,
\* every route of the manager is found by the middleware under its key.
THEOREM ReachableHolds == Spec => []Reachable
  <1>1. TypeOK /\ RouteInv /\ [Next]_vars => TypeOK' /\ RouteInv'
    BY TypeStep, RouteInvStep
  <1>2. RouteInv => Reachable
    BY DEF RouteInv
  <1>3. QED
    BY TypeInit, RouteInvInit, <1>1, <1>2, PTL DEF Spec
=============================================================================
