--------------------------- MODULE RouteRegistry ----------------------------
(***************************************************************************)
(* The dynamic routes of pyAPI (main.py): DynamicRouteManager, the         *)
(* endpoints that manage it and the middleware that answers requests from  *)
(* it.                                                                     *)
(*                                                                         *)
(* The manager keeps the routes by id and, separately, an index from       *)
(* "METHOD:path" to a route, which is all the middleware consults.  The    *)
(* index refers to route objects, so an object that was deleted from the   *)
(* routes still answers as long as the index refers to it.                 *)
(*                                                                         *)
(* Granularity.  Every endpoint is an async function that runs to its end  *)
(* without an await, so it is one step of the event loop.  The middleware  *)
(* looks the route up, checks it and counts its use without an await, too; *)
(* what it sends after that changes nothing here.                          *)
(*                                                                         *)
(* A definition whose comment begins with "Faulty" is not the code: it is  *)
(* a plausible mistake in the definition that follows it, kept to show     *)
(* which property would notice the mistake.                                *)
(***************************************************************************)
EXTENDS Naturals

CONSTANTS RouteIds,     \* the default ids and those that create_route draws
          NoRoute,      \* no entry in the index
          Methods,      \* HTTP methods, upper case
          Names,        \* what a path says after its prefix
          DefaultKey,   \* the keys of the default routes, by id
          MaxUsage      \* bound: the uses of a route that are counted

\* A path as a client writes it, with or without the prefix "/dynamic/", and
\* as the manager stores it, with the prefix: two ways to write a path end
\* in one key.
RawPaths == [prefixed : BOOLEAN, name : Names]
Paths    == [prefixed : {TRUE}, name : Names]

Normalise(p) == [p EXCEPT !.prefixed = TRUE]

\* "METHOD:path"
Keys == Methods \X Paths

ASSUME NoRouteAssumption == NoRoute \notin RouteIds

\* The default routes have different keys (_init_default_routes).
ASSUME DefaultKeyAssumption ==
    /\ DOMAIN DefaultKey \subseteq RouteIds
    /\ \A r \in DOMAIN DefaultKey : DefaultKey[r] \in Keys
    /\ \A r, q \in DOMAIN DefaultKey : DefaultKey[r] = DefaultKey[q] => r = q

ASSUME KeysAssumption == Keys # {}

ASSUME MaxUsageAssumption == MaxUsage \in Nat

VARIABLES
    routes,     \* the ids in self.routes
    made,       \* the ids drawn so far
    key,        \* method and path of each route object
    active,     \* is_active of each route object
    usage,      \* usage_count of each route object
    index,      \* self._route_by_path
    torn,       \* history: an update raised after it had moved an indexed route
    clashed     \* history: two routes have had the same key at one time

vars == <<routes, made, key, active, usage, index, torn, clashed>>

AnyKey == CHOOSE k \in Keys : TRUE

Init ==
    /\ routes = DOMAIN DefaultKey
    /\ made = DOMAIN DefaultKey
    /\ key = [r \in RouteIds |-> IF r \in DOMAIN DefaultKey THEN DefaultKey[r] ELSE AnyKey]
    /\ active = [r \in RouteIds |-> TRUE]
    /\ usage = [r \in RouteIds |-> 0]
    /\ index = [k \in Keys |-> IF \E r \in DOMAIN DefaultKey : DefaultKey[r] = k
                               THEN CHOOSE r \in DOMAIN DefaultKey : DefaultKey[r] = k
                               ELSE NoRoute]
    /\ torn = FALSE
    /\ clashed = FALSE

\* Whether two of the routes S have the same key under f.
Clash(S, f) == \E r, q \in S : r # q /\ f[r] = f[q]

\* Faulty: the path is stored as the client wrote it.
CreateRaw(r, m, p) ==
    /\ r \notin made
    /\ made' = made \cup {r}
    /\ routes' = routes \cup {r}
    /\ key' = [key EXCEPT ![r] = <<m, p>>]
    /\ index' = [index EXCEPT ![<<m, p>>] = r]
    /\ clashed' = (clashed \/ Clash(routes', key'))
    /\ UNCHANGED <<active, usage, torn>>

\* create_route: a fresh id; the index entry of a route that has the same
\* key is overwritten.  An unknown route_type raises before anything changes.
Create(r, m, p) ==
    /\ r \notin made
    /\ made' = made \cup {r}
    /\ routes' = routes \cup {r}
    /\ key' = [key EXCEPT ![r] = <<m, Normalise(p)>>]
    /\ index' = [index EXCEPT ![<<m, Normalise(p)>>] = r]
    /\ clashed' = (clashed \/ Clash(routes', key'))
    /\ UNCHANGED <<active, usage, torn>>

\* Faulty: the old key is not taken out of the index.
ReindexKeepsOld(r, old, new) ==
    index' = IF old = new THEN index ELSE [index EXCEPT ![new] = r]

\* Faulty: the new key is not put into the index.
ReindexNoNew(r, old, new) ==
    index' = IF old = new THEN index ELSE [index EXCEPT ![old] = NoRoute]

\* The end of update_route: del raises KeyError if the old key is gone, and
\* then the new key is not indexed.
Reindex(r, old, new) ==
    \/ /\ old = new
       /\ UNCHANGED index
    \/ /\ old # new
       /\ index[old] # NoRoute
       /\ index' = [index EXCEPT ![old] = NoRoute, ![new] = r]
    \/ /\ old # new
       /\ index[old] = NoRoute
       /\ UNCHANGED index

\* update_route: of the fields, path and method matter here; a request
\* without one of them leaves that part of the key alone.
Update(r, m, p) ==
    /\ r \in routes
    /\ key' = [key EXCEPT ![r] = <<m, Normalise(p)>>]
    /\ Reindex(r, key[r], key'[r])
    /\ clashed' = (clashed \/ Clash(routes, key'))
    /\ UNCHANGED <<routes, made, active, usage, torn>>

\* update_route with a value that makes the loop over the fields raise: a
\* null method after the path was set, or an unknown route_type after path
\* and method were set.  The index is not brought up to date.
UpdateRaises(r, m, p) ==
    /\ r \in routes
    /\ key' = [key EXCEPT ![r] = <<m, Normalise(p)>>]
    /\ torn' = (torn \/ (index[key[r]] = r /\ key'[r] # key[r]))
    /\ clashed' = (clashed \/ Clash(routes, key'))
    /\ UNCHANGED <<routes, made, active, usage, index>>

\* delete_route: the second del raises KeyError if the key is not indexed,
\* when the route is already gone from self.routes.
Delete(r) ==
    /\ r \in routes
    /\ routes' = routes \ {r}
    /\ \/ /\ index[key[r]] # NoRoute
          /\ index' = [index EXCEPT ![key[r]] = NoRoute]
       \/ /\ index[key[r]] = NoRoute
          /\ UNCHANGED index
    /\ UNCHANGED <<made, key, active, usage, torn, clashed>>

\* toggle_route
Toggle(r, b) ==
    /\ r \in routes
    /\ active' = [active EXCEPT ![r] = b]
    /\ UNCHANGED <<routes, made, key, usage, index, torn, clashed>>

\* The route that answers a request (NoRoute: the request is passed on).
Answers(k) ==
    IF index[k] # NoRoute /\ active[index[k]] THEN index[k] ELSE NoRoute

\* dynamic_route_middleware lets a request through to a route, and
\* _execute_dynamic_route counts it if the route is still in self.routes.
Request(k) ==
    /\ Answers(k) # NoRoute
    /\ Answers(k) \in routes
    /\ usage[Answers(k)] < MaxUsage
    /\ usage' = [usage EXCEPT ![Answers(k)] = @ + 1]
    /\ UNCHANGED <<routes, made, key, active, index, torn, clashed>>

Manage(r) ==
    \/ \E m \in Methods, p \in RawPaths : \/ Create(r, m, p)
                                          \/ Update(r, m, p)
                                          \/ UpdateRaises(r, m, p)
    \/ Delete(r)
    \/ \E b \in BOOLEAN : Toggle(r, b)

Next == (\E r \in RouteIds : Manage(r)) \/ (\E k \in Keys : Request(k))

Spec == Init /\ [][Next]_vars

-----------------------------------------------------------------------------
(* Properties.                                                             *)

\* Types: in particular whatever way a client writes a path, the key of a
\* route and the keys of the index have the "/dynamic/" prefix that the
\* middleware asks for.
TypeOK ==
    /\ routes \in SUBSET RouteIds
    /\ made \in SUBSET RouteIds
    /\ key \in [RouteIds -> Keys]
    /\ active \in [RouteIds -> BOOLEAN]
    /\ usage \in [RouteIds -> 0..MaxUsage]
    /\ index \in [Keys -> RouteIds \cup {NoRoute}]
    /\ torn \in BOOLEAN
    /\ clashed \in BOOLEAN

\* Unless an update has raised half-way, whatever the middleware finds under
\* a key is a route that exists and has that key, also after keys were
\* shared, taken over and given up and after KeyErrors.
IndexSound ==
    ~torn => \A k \in Keys : index[k] # NoRoute =>
                                 index[k] \in routes /\ key[index[k]] = k

\* Unless an update has raised half-way or two routes have shared a key,
\* every route is found under its key: managing one route never makes
\* another one unreachable.
Reachable ==
    (~torn /\ ~clashed) => \A r \in routes : index[key[r]] = r

\* The endpoint that deletes a route reports "deleted" when delete_route
\* returns True: from then on the route answers no request.
DeletedIsGone ==
    [][\A r \in RouteIds :
          (Delete(r) /\ index[key[r]] # NoRoute) => \A k \in Keys : Answers(k)' # r]_vars

=============================================================================
