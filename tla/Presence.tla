------------------------------ MODULE Presence ------------------------------
(* Presence of one user of EIM: the user's entry of connectedUsers, the    *)
(* status stored in the database and the status the clients were last told *)
(* (server/src/socket/index.js, server/src/routes/userRoutes.js). The      *)
(* handlers of one user's sockets and requests interleave at their awaits, *)
(* and the database performs the writes that are under way in any order,   *)
(* since they use the connections of a pool.                               *)
EXTENDS Naturals

CONSTANTS
    Sockets,    \* bound: the connections of the user, each used once
    Updates,    \* bound: the user_status_update events and PUT /users/profile requests
    Statuses,   \* what a user may choose
    NoSocket    \* no entry in connectedUsers

ASSUME NoSocketAssumption == NoSocket \notin Sockets
ASSUME StatusesAssumption == "online" \in Statuses

VARIABLES
    conn,     \* a socket is "new", "open" or "closed"
    on,       \* its connection handler, see Steps
    off,      \* its disconnect handler
    entry,    \* connectedUsers.get(userId)
    stored,   \* status of the user's record
    told,     \* status of the last user_status event
    upd,      \* the handlers of these events and requests
    wish,     \* the status each of them asks for
    chosen,   \* history: the status chosen last that was told
    silent,   \* history: nobody is told of what was stored last
    overlap,  \* history: a socket connected before the ones before it were settled
    raced     \* history: an update was under way with another one or with a disconnect

vars == <<conn, on, off, entry, stored, told, upd, wish, chosen, silent, overlap, raced>>

(* A handler that writes a status: not called; waiting for the write ("put" *)
(* if it is a request's), which is performed; run to its end.              *)
Steps == {"idle", "sent", "put", "stored", "done"}
Underway(step) == step \in {"sent", "stored"}
NoUpdate == \A u \in Updates : ~Underway(upd[u])
Settled(s) == conn[s] # "open" /\ ~Underway(on[s]) /\ ~Underway(off[s])

Init ==
    /\ conn = [s \in Sockets |-> "new"]
    /\ on = [s \in Sockets |-> "idle"]
    /\ off = [s \in Sockets |-> "idle"]
    /\ entry = NoSocket
    /\ stored = "offline"
    /\ told = "offline"
    /\ upd = [u \in Updates |-> "idle"]
    /\ wish = [u \in Updates |-> "online"]
    /\ chosen = "online"
    /\ silent = FALSE
    /\ overlap = FALSE
    /\ raced = FALSE

Advance(f, x, from, to) == f[x] = from /\ f' = [f EXCEPT ![x] = to]

(* Faulty: the entry is set after the await, with the handlers.            *)
ConnectSetsLater(s) ==
    /\ Advance(conn, s, "new", "open")
    /\ Advance(on, s, "idle", "sent")
    /\ chosen' = "online"
    /\ overlap' = (overlap \/ \E t \in Sockets : ~Settled(t))
    /\ raced' = (raced \/ ~NoUpdate)
    /\ UNCHANGED <<off, entry, stored, told, upd, wish, silent>>

Connect(s) ==
    /\ Advance(conn, s, "new", "open")
    /\ Advance(on, s, "idle", "sent")
    /\ entry' = s
    /\ chosen' = "online"
    /\ overlap' = (overlap \/ \E t \in Sockets : ~Settled(t))
    /\ raced' = (raced \/ ~NoUpdate)
    /\ UNCHANGED <<off, stored, told, upd, wish, silent>>

(* The database performs the write of the connection handler.              *)
OnlineStored(s) ==
    /\ Advance(on, s, "sent", "stored")
    /\ stored' = "online"
    /\ silent' = FALSE
    /\ UNCHANGED <<conn, off, entry, told, upd, wish, chosen, overlap, raced>>

(* The rest of the connection handler, also for a socket that has closed:  *)
(* it tells everybody and registers the handlers of the socket.            *)
OnlineTold(s) ==
    /\ Advance(on, s, "stored", "done")
    /\ told' = "online"
    /\ UNCHANGED <<conn, off, entry, stored, upd, wish, chosen, silent, overlap, raced>>

(* The socket closes before anybody listens for its disconnect event.      *)
CloseUnheard(s) ==
    /\ Advance(conn, s, "open", "closed")
    /\ on[s] # "done"
    /\ UNCHANGED <<on, off, entry, stored, told, upd, wish, chosen, silent, overlap, raced>>

(* Faulty: the handler is registered before the await.                     *)
DisconnectAnyTime(s) ==
    /\ Advance(conn, s, "open", "closed")
    /\ Advance(off, s, "idle", "sent")
    /\ entry' = NoSocket
    /\ raced' = (raced \/ ~NoUpdate)
    /\ UNCHANGED <<on, stored, told, upd, wish, chosen, silent, overlap>>

(* Faulty: the entry is not deleted.                                       *)
DisconnectKeepsEntry(s) ==
    /\ on[s] = "done"
    /\ Advance(conn, s, "open", "closed")
    /\ Advance(off, s, "idle", "sent")
    /\ raced' = (raced \/ ~NoUpdate)
    /\ UNCHANGED <<on, entry, stored, told, upd, wish, chosen, silent, overlap>>

Disconnect(s) ==
    /\ on[s] = "done"
    /\ Advance(conn, s, "open", "closed")
    /\ Advance(off, s, "idle", "sent")
    /\ entry' = NoSocket
    /\ raced' = (raced \/ ~NoUpdate)
    /\ UNCHANGED <<on, stored, told, upd, wish, chosen, silent, overlap>>

OfflineStored(s) ==
    /\ Advance(off, s, "sent", "stored")
    /\ stored' = "offline"
    /\ silent' = FALSE
    /\ UNCHANGED <<conn, on, entry, told, upd, wish, chosen, overlap, raced>>

(* Faulty: nobody is told.                                                 *)
OfflineSilent(s) ==
    /\ Advance(off, s, "stored", "done")
    /\ UNCHANGED <<conn, on, entry, stored, told, upd, wish, chosen, silent, overlap, raced>>

OfflineTold(s) ==
    /\ Advance(off, s, "stored", "done")
    /\ told' = "offline"
    /\ UNCHANGED <<conn, on, entry, stored, upd, wish, chosen, silent, overlap, raced>>

UpdateStatus(s, u, st) ==
    /\ conn[s] = "open" /\ on[s] = "done"
    /\ Advance(upd, u, "idle", "sent")
    /\ wish' = [wish EXCEPT ![u] = st]
    /\ raced' = (raced \/ ~NoUpdate)
    /\ UNCHANGED <<conn, on, off, entry, stored, told, chosen, silent, overlap>>

UpdateStored(u) ==
    /\ Advance(upd, u, "sent", "stored")
    /\ stored' = wish[u]
    /\ silent' = FALSE
    /\ UNCHANGED <<conn, on, off, entry, told, wish, chosen, overlap, raced>>

(* Faulty: the event carries no status.                                    *)
UpdateToldEmpty(u) ==
    /\ Advance(upd, u, "stored", "done")
    /\ told' = "undefined"
    /\ chosen' = wish[u]
    /\ UNCHANGED <<conn, on, off, entry, stored, wish, silent, overlap, raced>>

UpdateTold(u) ==
    /\ Advance(upd, u, "stored", "done")
    /\ told' = wish[u]
    /\ chosen' = wish[u]
    /\ UNCHANGED <<conn, on, off, entry, stored, wish, silent, overlap, raced>>

(* The call of the database fails, with the write performed or not: the    *)
(* error is logged and nobody is told.                                     *)
UpdateFailed(u) ==
    /\ Underway(upd[u])
    /\ upd' = [upd EXCEPT ![u] = "done"]
    /\ silent' = (silent \/ upd[u] = "stored")
    /\ UNCHANGED <<conn, on, off, entry, stored, told, wish, chosen, overlap, raced>>

(* PUT /users/profile with a status, with or without a socket.             *)
PutProfile(u, st) ==
    /\ Advance(upd, u, "idle", "put")
    /\ wish' = [wish EXCEPT ![u] = st]
    /\ UNCHANGED <<conn, on, off, entry, stored, told, chosen, silent, overlap, raced>>

(* The database performs the write of the request; no socket is told.      *)
ProfileStored(u) ==
    /\ Advance(upd, u, "put", "done")
    /\ stored' = wish[u]
    /\ silent' = TRUE
    /\ UNCHANGED <<conn, on, off, entry, told, wish, chosen, overlap, raced>>

(* The write of the request fails: the answer is 500.                      *)
ProfileFailed(u) ==
    /\ Advance(upd, u, "put", "done")
    /\ UNCHANGED <<conn, on, off, entry, stored, told, wish, chosen, silent, overlap, raced>>

(* What the database and the event loop do by themselves.                  *)
Continue ==
    \/ \E s \in Sockets : OnlineStored(s) \/ OnlineTold(s) \/ OfflineStored(s) \/ OfflineTold(s)
    \/ \E u \in Updates : UpdateStored(u) \/ UpdateTold(u) \/ ProfileStored(u)

Next ==
    \/ Continue
    \/ \E s \in Sockets : Connect(s) \/ CloseUnheard(s) \/ Disconnect(s)
    \/ \E s \in Sockets, u \in Updates, st \in Statuses : UpdateStatus(s, u, st)
    \/ \E u \in Updates, st \in Statuses : PutProfile(u, st)
    \/ \E u \in Updates : UpdateFailed(u) \/ ProfileFailed(u)

Spec == Init /\ [][Next]_vars
FairSpec == Spec /\ WF_vars(Continue)

-----------------------------------------------------------------------------
(* Types of the state.                                                     *)
TypeOK ==
    /\ conn \in [Sockets -> {"new", "open", "closed"}]
    /\ on \in [Sockets -> Steps]
    /\ off \in [Sockets -> Steps]
    /\ entry \in Sockets \cup {NoSocket}
    /\ stored \in Statuses \cup {"offline"}
    /\ told \in Statuses \cup {"offline"}
    /\ upd \in [Updates -> Steps]
    /\ wish \in [Updates -> Statuses]
    /\ chosen \in Statuses
    /\ silent \in BOOLEAN
    /\ overlap \in BOOLEAN
    /\ raced \in BOOLEAN

(* A message is never sent to a socket whose disconnect was handled: what  *)
(* private_message finds in connectedUsers is a socket that is connected,  *)
(* or whose disconnect event nobody heard.                                 *)
EntryNotGone == entry # NoSocket => conn[entry] # "new" /\ off[entry] = "idle"

(* The handlers for the disconnect of every socket that connected have got *)
(* as far as steps.                                                        *)
AllLeft(steps) == \A s \in Sockets : conn[s] = "new" \/ off[s] \in steps

(* When every socket of the user has disconnected and the writes have been *)
(* performed, the user is stored as offline, and shown as offline once the *)
(* events are sent, however the sockets overlapped: a disconnect handler   *)
(* is registered only after the socket's own "online" was stored, so each  *)
(* "offline" comes after it. Excepted are users with a status update under *)
(* way, and the stored status after a write that nobody is told of, which  *)
(* can make a user who has left online in the database again. A disconnect *)
(* event nobody heard leaves the user online.                              *)
GoneIsOffline ==
    ~raced /\ NoUpdate =>
        /\ AllLeft({"stored", "done"}) => stored = "offline" \/ silent
        /\ AllLeft({"done"}) => told = "offline" /\ entry = NoSocket

(* As long as every socket connected after the earlier ones were settled,  *)
(* the user is reachable through the open socket from the start, and when  *)
(* no update is under way the status told is the one chosen last, as is    *)
(* the one stored unless it was written last without telling anybody:      *)
(* writes and events of an earlier socket do not come late.                *)
LiveIsOnline ==
    ~overlap => \A s \in Sockets : conn[s] = "open" =>
        /\ entry = s
        /\ on[s] = "done" /\ ~raced /\ NoUpdate =>
              told = chosen /\ (stored = chosen \/ silent)

(* A user whose sockets all close with their handlers run ends up offline  *)
(* for everybody, and in the database too unless a request writes another  *)
(* status there, or the user connects again.                               *)
EndsOffline ==
    AllLeft({"sent", "stored", "done"}) /\ ~raced /\ NoUpdate
        ~> \/ told = "offline" /\ (stored = "offline" \/ silent)
           \/ \E s \in Sockets : conn[s] = "open"
=============================================================================
