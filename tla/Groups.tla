------------------------------- MODULE Groups -------------------------------
(* The members of one EIM group under concurrent requests                  *)
(* (server/src/routes/groupRoutes.js, models/Group.js, and group_message   *)
(* of socket/index.js). A handler loads the group, checks and changes its  *)
(* copy, and saves it: two steps, with other requests in between. Mongoose *)
(* sends what changed: $push for members that were pushed, the whole array *)
(* when it was assigned, and then only if nobody else changed the array    *)
(* (__v), a plain $set for other fields.                                   *)
EXTENDS Naturals

CONSTANTS
    Users,
    Owner,      \* the user who created the group, the only one with a role
    Requests,   \* bound: the requests, each used once
    MaxListed   \* bound: how often a request lists one user

ASSUME OwnerAssumption == Owner \in Users
ASSUME MaxListedAssumption == MaxListed \in Nat \ {0}

VARIABLES
    entries,   \* entries of members per user: an array may hold a user twice
    version,   \* __v
    about,     \* name, description, avatar and lastMessage: the request that set them last
    req,       \* the requests and the copies of the group they loaded
    twice      \* history: users added by overlapping requests, or twice by one

vars == <<entries, version, about, req, twice>>

Kinds == {"add", "remove", "edit", "message"}

(* The users a request lists, as how often it lists each: the server takes  *)
(* the list as it is, repetitions included.                                *)
Lists == [Users -> 0..MaxListed]
Nobody == [u \in Users |-> 0]
Only(u) == [Nobody EXCEPT ![u] = 1]

(* A request that is not under way holds no copy.                          *)
NoCopy(status) == [status |-> status, kind |-> "edit", users |-> Nobody,
                   copy |-> Nobody, version |-> 0]
Loaded(r) == req[r].status = "loaded"

IsMember(e, u) == e[u] > 0
(* getMemberRole is owner or admin: no route makes an admin or an owner.   *)
MayManage(e, u) == u = Owner /\ IsMember(e, u)

(* POST /groups: the owner, then the users listed, with the owner or not.  *)
Init ==
    /\ \E L \in Lists : entries = [u \in Users |-> (IF u = Owner THEN 1 ELSE 0) + L[u]]
    /\ twice = {u \in Users : entries[u] > 1}
    /\ version = 0
    /\ about = {}
    /\ req = [r \in Requests |-> NoCopy("new")]

(* findById and the checks of the route; a request that is refused leaves  *)
(* no trace. A user may always remove themselves.                          *)
Allowed(kind, by, L) ==
    CASE kind = "add" -> MayManage(entries, by)
      [] kind = "remove" -> \E u \in Users : L = Only(u) /\ (u = by \/ MayManage(entries, by))
      [] kind = "edit" -> L = Nobody /\ MayManage(entries, by)
      [] kind = "message" -> L = Nobody /\ IsMember(entries, by)

(* Faulty: the users are not compared with the members.                    *)
WantedAll(kind, L) == L

(* Additions of users who are members already are filtered out.            *)
Wanted(kind, L) ==
    IF kind = "add" THEN [u \in Users |-> IF IsMember(entries, u) THEN 0 ELSE L[u]] ELSE L

(* Request r is about to add user u.                                       *)
Adds(r, u) == Loaded(r) /\ req[r].kind = "add" /\ req[r].users[u] > 0

Load(r, kind, by, L) ==
    /\ req[r].status = "new"
    /\ Allowed(kind, by, L)
    /\ req' = [req EXCEPT ![r] = [status |-> "loaded", kind |-> kind, users |-> Wanted(kind, L),
                                  copy |-> entries, version |-> version]]
    /\ twice' = twice \cup
         {u \in Users : /\ kind = "add"
                        /\ \/ req'[r].users[u] > 1
                           \/ req'[r].users[u] = 1 /\ \E q \in Requests : Adds(q, u)}
    /\ UNCHANGED <<entries, version, about>>

Finish(r, outcome) == req' = [req EXCEPT ![r] = NoCopy(outcome)]

(* members.push(...): $push, and __v is incremented (or not, when there was *)
(* nothing to push).                                                       *)
SaveAdd(r) ==
    /\ Loaded(r) /\ req[r].kind = "add"
    /\ entries' = [u \in Users |-> entries[u] + req[r].users[u]]
    /\ \/ version' = version + 1
       \/ req[r].users = Nobody /\ version' = version
    /\ Finish(r, "ok")
    /\ UNCHANGED <<about, twice>>

(* Faulty: the array is written whatever its version.                      *)
SaveRemoveUnchecked(r) ==
    /\ Loaded(r) /\ req[r].kind = "remove"
    /\ entries' = [u \in Users |-> IF req[r].users[u] > 0 THEN 0 ELSE req[r].copy[u]]
    /\ version' = version + 1
    /\ Finish(r, "ok")
    /\ UNCHANGED <<about, twice>>

(* members = members.filter(...): the filtered copy replaces the array if   *)
(* the version is still the one loaded; without a change nothing is sent.  *)
SaveRemove(r) ==
    /\ Loaded(r) /\ req[r].kind = "remove"
    /\ IF \A u \in Users : req[r].users[u] > 0 => req[r].copy[u] = 0
       THEN UNCHANGED <<entries, version>>
       ELSE /\ version = req[r].version
            /\ entries' = [u \in Users |-> IF req[r].users[u] > 0 THEN 0 ELSE req[r].copy[u]]
            /\ version' = version + 1
    /\ Finish(r, "ok")
    /\ UNCHANGED <<about, twice>>

(* Faulty: a request that met a VersionError waits for a retry.            *)
RemoveRetries(r) ==
    /\ Loaded(r) /\ req[r].kind = "remove"
    /\ version # req[r].version
    /\ Finish(r, "retry")
    /\ UNCHANGED <<entries, version, about, twice>>

(* VersionError: answered with 500.                                        *)
RemoveFails(r) ==
    /\ Loaded(r) /\ req[r].kind = "remove"
    /\ version # req[r].version
    /\ \E u \in Users : req[r].users[u] > 0 /\ req[r].copy[u] > 0
    /\ Finish(r, "failed")
    /\ UNCHANGED <<entries, version, about, twice>>

(* name, description and avatar, or the lastMessage of group_message.      *)
SaveOther(r) ==
    /\ Loaded(r) /\ req[r].kind \in {"edit", "message"}
    /\ about' = {r}
    /\ Finish(r, "ok")
    /\ UNCHANGED <<entries, version, twice>>

(* The server stops, or the database fails, between the two steps.         *)
Abandon(r) ==
    /\ Loaded(r)
    /\ Finish(r, "failed")
    /\ UNCHANGED <<entries, version, about, twice>>

Next ==
    \E r \in Requests :
        \/ \E kind \in Kinds, by \in Users, L \in Lists : Load(r, kind, by, L)
        \/ SaveAdd(r) \/ SaveRemove(r) \/ RemoveFails(r) \/ SaveOther(r) \/ Abandon(r)

Spec == Init /\ [][Next]_vars

-----------------------------------------------------------------------------
(* Types of the state.                                                     *)
TypeOK ==
    /\ entries \in [Users -> Nat]
    /\ version \in Nat
    /\ about \subseteq Requests
    /\ req \in [Requests -> [status : {"new", "loaded", "ok", "failed"}, kind : Kinds,
                             users : Lists, copy : [Users -> Nat], version : Nat]]
    /\ twice \subseteq Users

(* A user is in the array once, unless requests that added the user         *)
(* overlapped (each loaded the group before the other one saved it), one    *)
(* request listed the user more than once, or the creation listed the       *)
(* owner: the check of POST members is against a copy of the array, and     *)
(* neither it nor the creation looks for repetitions in what it is sent.    *)
InOnce == \A u \in Users : entries[u] > 1 => u \in twice

(* The users the group has, however often the array lists them.            *)
Members == {u \in Users : IsMember(entries, u)}
Abstract == INSTANCE MemberSet WITH members <- Members

(* As a set, the members change as if every request took one step: a       *)
(* removal never takes back an addition that was saved after the removal   *)
(* loaded the group, and other saves do not touch the members.             *)
ImplementsMemberSet == Abstract!Spec
=============================================================================
