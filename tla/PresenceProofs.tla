--------------------------- MODULE PresenceProofs ---------------------------
(* Proofs about Presence, for any number of sockets and status updates.    *)
EXTENDS Presence, TLAPS

(* How far the handlers of a socket can be: a disconnect is handled only   *)
(* after the connection handler has run to its end.                        *)
SocketInv ==
    \A s \in Sockets :
        /\ conn[s] = "new" => on[s] = "idle" /\ off[s] = "idle"
        /\ conn[s] = "open" => off[s] = "idle"
        /\ off[s] # "idle" => on[s] = "done"

(* While an update is under way and has not raced, a socket has not left.  *)
UpdateInv ==
    \A u \in Updates : ~raced /\ Underway(upd[u]) =>
        \E s \in Sockets : conn[s] # "new" /\ off[s] = "idle"

LeftInv ==
    ~raced /\ NoUpdate =>
        /\ AllLeft({"stored", "done"}) => stored = "offline" \/ silent
        /\ AllLeft({"done"}) => told = "offline"

(* At most one update is under way; until its write is performed the       *)
(* status stored is the one chosen last, then the one it asks for, unless  *)
(* a request has replaced it.                                              *)
ChosenInv ==
    /\ told = chosen
    /\ NoUpdate => stored = chosen \/ silent
    /\ \A u \in Updates : Underway(upd[u]) =>
          /\ upd[u] = "sent" => stored = chosen \/ silent
          /\ upd[u] = "stored" => stored = wish[u] \/ silent
          /\ \A v \in Updates : Underway(upd[v]) => v = u

(* An open socket that did not overlap is the only one with handlers that   *)
(* run; until its connection handler ends, the user has chosen nothing.    *)
AloneInv ==
    ~overlap => \A s \in Sockets : conn[s] = "open" =>
        /\ entry = s
        /\ \A t \in Sockets : t # s => Settled(t)
        /\ ~raced /\ on[s] # "done" =>
              /\ chosen = "online" /\ NoUpdate
              /\ on[s] = "stored" => stored = "online" \/ silent
        /\ ~raced /\ on[s] = "done" => ChosenInv

PresenceInv == AloneInv /\ TypeOK /\ SocketInv /\ UpdateInv /\ EntryNotGone /\ LeftInv

\* The state at the start of the server.
LEMMA InitInv == Init => PresenceInv
<1> SUFFICES ASSUME Init PROVE PresenceInv OBVIOUS
<1> USE DEF Init
<1>1. TypeOK
  BY StatusesAssumption DEF TypeOK, Steps
<1>2. SocketInv /\ UpdateInv /\ EntryNotGone
  BY DEF SocketInv, UpdateInv, EntryNotGone, Underway
<1>3. LeftInv
  BY DEF LeftInv
<1>4. AloneInv
  BY DEF AloneInv
<1> QED BY <1>1, <1>2, <1>3, <1>4 DEF PresenceInv

\* Every step keeps the types.
LEMMA TypeStep == TypeOK /\ [Next]_vars => TypeOK'
<1> SUFFICES ASSUME TypeOK, [Next]_vars PROVE TypeOK' OBVIOUS
<1> USE DEF TypeOK, Steps, Advance
<1>1. ASSUME NEW s \in Sockets, Connect(s) PROVE TypeOK'
  BY <1>1, StatusesAssumption DEF Connect
<1>2. ASSUME NEW s \in Sockets, OnlineStored(s) \/ OnlineTold(s) PROVE TypeOK'
  BY <1>2, StatusesAssumption DEF OnlineStored, OnlineTold
<1>3. ASSUME NEW s \in Sockets, CloseUnheard(s) \/ Disconnect(s) PROVE TypeOK'
  BY <1>3 DEF CloseUnheard, Disconnect
<1>4. ASSUME NEW s \in Sockets, OfflineStored(s) \/ OfflineTold(s) PROVE TypeOK'
  BY <1>4 DEF OfflineStored, OfflineTold
<1>5. ASSUME NEW s \in Sockets, NEW u \in Updates, NEW st \in Statuses, UpdateStatus(s, u, st)
      PROVE  TypeOK'
  BY <1>5 DEF UpdateStatus
<1>6. ASSUME NEW u \in Updates, UpdateStored(u) \/ UpdateTold(u) PROVE TypeOK'
  <2>1. CASE UpdateStored(u)
    BY <2>1 DEF UpdateStored
  <2>2. CASE UpdateTold(u)
    BY <2>2 DEF UpdateTold
  <2> QED BY <1>6, <2>1, <2>2
<1>7. CASE UNCHANGED vars
  BY <1>7 DEF vars
<1>8. ASSUME NEW u \in Updates, UpdateFailed(u) \/ ProfileStored(u) \/ ProfileFailed(u)
      PROVE  TypeOK'
  <2>1. CASE UpdateFailed(u)
    <3>1. silent' \in BOOLEAN
      BY <2>1, Zenon DEF UpdateFailed
    <3> QED BY <2>1, <3>1 DEF UpdateFailed
  <2>2. CASE ProfileStored(u)
    BY <2>2 DEF ProfileStored
  <2>3. CASE ProfileFailed(u)
    BY <2>3 DEF ProfileFailed
  <2> QED BY <1>8, <2>1, <2>2, <2>3
<1>9. ASSUME NEW u \in Updates, NEW st \in Statuses, PutProfile(u, st) PROVE TypeOK'
  BY <1>9 DEF PutProfile
<1> QED BY <1>1, <1>2, <1>3, <1>4, <1>5, <1>6, <1>7, <1>8, <1>9 DEF Next, Continue

\* Every step keeps the order of the handlers of a socket.
LEMMA SocketStep == TypeOK /\ SocketInv /\ [Next]_vars => SocketInv'
<1> SUFFICES ASSUME TypeOK, SocketInv, [Next]_vars PROVE SocketInv' OBVIOUS
<1> USE DEF TypeOK, SocketInv, Advance
<1>1. ASSUME NEW s \in Sockets, Connect(s) \/ CloseUnheard(s) \/ Disconnect(s) PROVE SocketInv'
  BY <1>1 DEF Connect, CloseUnheard, Disconnect
<1>2. ASSUME NEW s \in Sockets, OnlineStored(s) \/ OnlineTold(s) PROVE SocketInv'
  BY <1>2 DEF OnlineStored, OnlineTold
<1>3. ASSUME NEW s \in Sockets, OfflineStored(s) \/ OfflineTold(s) PROVE SocketInv'
  BY <1>3 DEF OfflineStored, OfflineTold
<1>4. ASSUME NEW s \in Sockets, NEW u \in Updates, NEW st \in Statuses, UpdateStatus(s, u, st)
      PROVE  SocketInv'
  BY <1>4 DEF UpdateStatus
<1>5. ASSUME NEW u \in Updates, UpdateStored(u) \/ UpdateTold(u) PROVE SocketInv'
  BY <1>5 DEF UpdateStored, UpdateTold
<1>6. CASE UNCHANGED vars
  BY <1>6 DEF vars
<1>8. ASSUME NEW u \in Updates, UpdateFailed(u) \/ ProfileStored(u) \/ ProfileFailed(u)
      PROVE  SocketInv'
  BY <1>8 DEF UpdateFailed, ProfileStored, ProfileFailed
<1>9. ASSUME NEW u \in Updates, NEW st \in Statuses, PutProfile(u, st) PROVE SocketInv'
  BY <1>9 DEF PutProfile
<1> QED BY <1>1, <1>2, <1>3, <1>4, <1>5, <1>6, <1>8, <1>9 DEF Next, Continue

\* connectedUsers never keeps a socket whose disconnect was handled.
LEMMA EntryStep == TypeOK /\ SocketInv /\ EntryNotGone /\ [Next]_vars => EntryNotGone'
<1> SUFFICES ASSUME TypeOK, SocketInv, EntryNotGone, [Next]_vars PROVE EntryNotGone' OBVIOUS
<1> USE NoSocketAssumption DEF TypeOK, SocketInv, EntryNotGone, Advance
<1>1. ASSUME NEW s \in Sockets, Connect(s) \/ CloseUnheard(s) \/ Disconnect(s) PROVE EntryNotGone'
  BY <1>1 DEF Connect, CloseUnheard, Disconnect
<1>2. ASSUME NEW s \in Sockets, OnlineStored(s) \/ OnlineTold(s) PROVE EntryNotGone'
  BY <1>2 DEF OnlineStored, OnlineTold
<1>3. ASSUME NEW s \in Sockets, OfflineStored(s) \/ OfflineTold(s) PROVE EntryNotGone'
  BY <1>3 DEF OfflineStored, OfflineTold
<1>4. ASSUME NEW s \in Sockets, NEW u \in Updates, NEW st \in Statuses, UpdateStatus(s, u, st)
      PROVE  EntryNotGone'
  BY <1>4 DEF UpdateStatus
<1>5. ASSUME NEW u \in Updates, UpdateStored(u) \/ UpdateTold(u) PROVE EntryNotGone'
  BY <1>5 DEF UpdateStored, UpdateTold
<1>6. CASE UNCHANGED vars
  BY <1>6 DEF vars
<1>8. ASSUME NEW u \in Updates, UpdateFailed(u) \/ ProfileStored(u) \/ ProfileFailed(u)
      PROVE  EntryNotGone'
  BY <1>8 DEF UpdateFailed, ProfileStored, ProfileFailed
<1>9. ASSUME NEW u \in Updates, NEW st \in Statuses, PutProfile(u, st) PROVE EntryNotGone'
  BY <1>9 DEF PutProfile
<1> QED BY <1>1, <1>2, <1>3, <1>4, <1>5, <1>6, <1>8, <1>9 DEF Next, Continue

\* A disconnect during an update is a race, and an update is of an open socket.
LEMMA UpdateStep == TypeOK /\ SocketInv /\ UpdateInv /\ [Next]_vars => UpdateInv'
<1> SUFFICES ASSUME TypeOK, SocketInv, UpdateInv, [Next]_vars PROVE UpdateInv' OBVIOUS
<1> USE DEF TypeOK, Advance
<1>1. ASSUME NEW s \in Sockets, Connect(s) \/ CloseUnheard(s) PROVE UpdateInv'
  BY <1>1 DEF Connect, CloseUnheard, UpdateInv
<1>2. ASSUME NEW s \in Sockets, Disconnect(s) PROVE UpdateInv'
  <2>1. raced' \/ \A u \in Updates : ~Underway(upd'[u])
    BY <1>2 DEF Disconnect, NoUpdate
  <2> QED BY <2>1 DEF UpdateInv
<1>3. ASSUME NEW s \in Sockets, OnlineStored(s) \/ OnlineTold(s) PROVE UpdateInv'
  BY <1>3 DEF OnlineStored, OnlineTold, UpdateInv
<1>4. ASSUME NEW s \in Sockets, OfflineStored(s) \/ OfflineTold(s) PROVE UpdateInv'
  <2>1. off[s] # "idle" /\ UNCHANGED <<conn, upd, raced>>
    BY <1>4 DEF OfflineStored, OfflineTold
  <2>2. \A t \in Sockets : t # s => off'[t] = off[t]
    BY <1>4 DEF OfflineStored, OfflineTold
  <2> QED BY <2>1, <2>2 DEF UpdateInv
<1>5. ASSUME NEW s \in Sockets, NEW u \in Updates, NEW st \in Statuses, UpdateStatus(s, u, st)
      PROVE  UpdateInv'
  <2>1. conn'[s] # "new" /\ off'[s] = "idle"
    BY <1>5 DEF UpdateStatus, SocketInv
  <2> QED BY <2>1 DEF UpdateInv
<1>6. ASSUME NEW u \in Updates, UpdateStored(u) \/ UpdateTold(u) PROVE UpdateInv'
  <2>1. \A v \in Updates : Underway(upd'[v]) => Underway(upd[v])
    BY <1>6 DEF UpdateStored, UpdateTold, Underway
  <2>2. UNCHANGED <<conn, off, raced>>
    BY <1>6 DEF UpdateStored, UpdateTold
  <2> QED BY <2>1, <2>2 DEF UpdateInv
<1>7. CASE UNCHANGED vars
  BY <1>7 DEF vars, UpdateInv
<1>8. ASSUME NEW u \in Updates, UpdateFailed(u) \/ ProfileStored(u) \/ ProfileFailed(u)
      PROVE  UpdateInv'
  <2>1. \A v \in Updates : Underway(upd'[v]) => Underway(upd[v])
    BY <1>8 DEF UpdateFailed, ProfileStored, ProfileFailed, Underway
  <2>2. UNCHANGED <<conn, off, raced>>
    BY <1>8 DEF UpdateFailed, ProfileStored, ProfileFailed
  <2> QED BY <2>1, <2>2 DEF UpdateInv
<1>9. ASSUME NEW u \in Updates, NEW st \in Statuses, PutProfile(u, st) PROVE UpdateInv'
  <2>1. \A v \in Updates : Underway(upd'[v]) => Underway(upd[v])
    BY <1>9 DEF PutProfile, Underway
  <2>2. UNCHANGED <<conn, off, raced>>
    BY <1>9 DEF PutProfile
  <2> QED BY <2>1, <2>2 DEF UpdateInv
<1> QED BY <1>1, <1>2, <1>3, <1>4, <1>5, <1>6, <1>7, <1>8, <1>9 DEF Next, Continue

\* "online" is written and told only while its socket has not left, and the
\* status of an update only while some socket has not.
LEMMA LeftStep ==
    ASSUME TypeOK, SocketInv, UpdateInv, LeftInv, [Next]_vars
    PROVE  LeftInv'
<1> USE DEF TypeOK, Advance
<1>1. ASSUME NEW s \in Sockets, Connect(s) PROVE LeftInv'
  <2>1. conn'[s] # "new" /\ off'[s] = "idle"
    BY <1>1 DEF Connect, SocketInv
  <2> QED BY <2>1 DEF LeftInv, AllLeft
<1>2. ASSUME NEW s \in Sockets, OnlineStored(s) \/ OnlineTold(s) PROVE LeftInv'
  <2>1. conn'[s] # "new" /\ off'[s] = "idle"
    BY <1>2 DEF OnlineStored, OnlineTold, SocketInv
  <2> QED BY <2>1 DEF LeftInv, AllLeft
<1>3. ASSUME NEW s \in Sockets, CloseUnheard(s) \/ Disconnect(s) PROVE LeftInv'
  <2>1. conn'[s] # "new" /\ off'[s] \in {"idle", "sent"}
    BY <1>3 DEF CloseUnheard, Disconnect, SocketInv
  <2> QED BY <2>1 DEF LeftInv, AllLeft
<1>4. ASSUME NEW s \in Sockets, OfflineStored(s) PROVE LeftInv'
  <2>1. stored' = "offline" /\ conn'[s] # "new" /\ off'[s] = "stored"
    BY <1>4 DEF OfflineStored, SocketInv
  <2> QED BY <2>1 DEF LeftInv, AllLeft
<1>5. ASSUME NEW s \in Sockets, OfflineTold(s) PROVE LeftInv'
  <2>1. told' = "offline" /\ off[s] = "stored" /\ UNCHANGED <<conn, stored, silent, upd, raced>>
    BY <1>5 DEF OfflineTold
  <2>2. \A t \in Sockets : t # s => off'[t] = off[t]
    BY <1>5 DEF OfflineTold
  <2>3. AllLeft({"stored", "done"})' => AllLeft({"stored", "done"})
    BY <2>1, <2>2 DEF AllLeft
  <2> QED BY <2>1, <2>3 DEF LeftInv, NoUpdate
<1>6. ASSUME NEW s \in Sockets, NEW u \in Updates, NEW st \in Statuses, UpdateStatus(s, u, st)
      PROVE  LeftInv'
  <2>1. Underway(upd'[u])
    BY <1>6 DEF UpdateStatus, Underway
  <2> QED BY <2>1 DEF LeftInv, NoUpdate
<1>7. ASSUME NEW u \in Updates, UpdateStored(u) \/ UpdateTold(u) \/ UpdateFailed(u) PROVE LeftInv'
  <2>1. Underway(upd[u]) /\ UNCHANGED <<conn, off, raced>>
    BY <1>7 DEF UpdateStored, UpdateTold, UpdateFailed, Underway
  <2>2. raced \/ \E s \in Sockets : conn[s] # "new" /\ off[s] = "idle"
    BY <2>1 DEF UpdateInv
  <2> QED BY <2>1, <2>2 DEF LeftInv, AllLeft
<1>8. ASSUME NEW u \in Updates,
             ProfileStored(u) \/ ProfileFailed(u) \/ \E st \in Statuses : PutProfile(u, st)
      PROVE  LeftInv'
  <2>1. NoUpdate' => NoUpdate
    <3>1. \A v \in Updates : Underway(upd[v]) => Underway(upd'[v])
      BY <1>8 DEF ProfileStored, ProfileFailed, PutProfile, Underway
    <3> QED BY <3>1 DEF NoUpdate
  <2>2. UNCHANGED <<conn, off, told, raced>> /\ (UNCHANGED <<stored, silent>> \/ silent')
    BY <1>8 DEF ProfileStored, ProfileFailed, PutProfile
  <2>3. \A steps : AllLeft(steps)' = AllLeft(steps)
    BY <2>2 DEF AllLeft
  <2> QED BY <2>1, <2>2, <2>3 DEF LeftInv
<1>9. CASE UNCHANGED vars
  BY <1>9 DEF vars, LeftInv, NoUpdate, AllLeft
<1> QED BY <1>1, <1>2, <1>3, <1>4, <1>5, <1>6, <1>7, <1>8, <1>9 DEF Next, Continue

\* Handlers that run belong to the open socket, so nothing but its own writes
\* and the updates the user sends through it happens.
LEMMA AloneStep ==
    ASSUME TypeOK, SocketInv, AloneInv, [Next]_vars
    PROVE  AloneInv'
<1> SUFFICES ASSUME ~overlap', NEW s \in Sockets, conn'[s] = "open"
             PROVE  /\ entry' = s
                    /\ \A t \in Sockets : t # s => Settled(t)'
                    /\ ~raced' /\ on'[s] # "done" =>
                          /\ chosen' = "online" /\ NoUpdate'
                          /\ on'[s] = "stored" => stored' = "online" \/ silent'
                    /\ ~raced' /\ on'[s] = "done" => ChosenInv'
  BY DEF AloneInv
<1> DEFINE Goal == /\ entry' = s
                   /\ \A t \in Sockets : t # s => Settled(t)'
                   /\ ~raced' /\ on'[s] # "done" =>
                         /\ chosen' = "online" /\ NoUpdate'
                         /\ on'[s] = "stored" => stored' = "online" \/ silent'
                   /\ ~raced' /\ on'[s] = "done" => ChosenInv'
<1> USE DEF TypeOK, Advance
<1>1. ASSUME NEW x \in Sockets, Connect(x) PROVE Goal
  <2>1. \A t \in Sockets : Settled(t)
    BY <1>1 DEF Connect
  <2>2. x = s
    BY <1>1, <2>1 DEF Connect, Settled
  <2>3. entry' = s /\ on'[s] = "sent" /\ chosen' = "online"
    BY <1>1, <2>2 DEF Connect
  <2>4. \A t \in Sockets : t # s => Settled(t)'
    BY <1>1, <2>1, <2>2 DEF Connect, Settled
  <2>5. ~raced' => NoUpdate'
    BY <1>1 DEF Connect, NoUpdate
  <2> QED BY <2>3, <2>4, <2>5
\* The other steps open no socket: s was open and alone before.
<1>2. ASSUME conn[s] = "open", ~overlap
      PROVE  /\ entry = s /\ off[s] = "idle"
             /\ \A t \in Sockets : t # s => Settled(t)
             /\ ~raced /\ on[s] # "done" =>
                   /\ chosen = "online" /\ NoUpdate
                   /\ on[s] = "stored" => stored = "online" \/ silent
             /\ ~raced /\ on[s] = "done" => ChosenInv
  BY <1>2 DEF AloneInv, SocketInv
<1>3. ASSUME NEW x \in Sockets, OnlineStored(x) \/ OnlineTold(x) PROVE Goal
  <2>1. conn[s] = "open" /\ ~overlap /\ Underway(on[x])
    BY <1>3 DEF OnlineStored, OnlineTold, Underway
  <2>2. x = s
    BY <1>2, <2>1 DEF Settled
  <2>3. \A t \in Sockets : t # s => Settled(t)'
    BY <1>2, <1>3, <2>1, <2>2 DEF OnlineStored, OnlineTold, Settled
  <2>4. CASE OnlineStored(s)
    <3>1. NoUpdate' = NoUpdate
      BY <2>4 DEF OnlineStored, NoUpdate
    <3> QED BY <1>2, <2>1, <2>3, <2>4, <3>1 DEF OnlineStored
  <2>5. CASE OnlineTold(s)
    <3>1. on[s] = "stored" /\ on'[s] = "done" /\ told' = "online"
          /\ UNCHANGED <<entry, stored, chosen, silent, raced, upd, wish>>
      BY <2>5 DEF OnlineTold
    <3>2. ~raced => chosen = "online" /\ NoUpdate /\ (stored = "online" \/ silent)
      BY <1>2, <2>1, <3>1
    <3>3. ~raced => ChosenInv'
      BY <3>1, <3>2 DEF ChosenInv, NoUpdate
    <3> QED BY <1>2, <2>1, <2>3, <3>1, <3>3
  <2> QED BY <1>3, <2>2, <2>4, <2>5
<1>4. ASSUME NEW x \in Sockets, CloseUnheard(x) \/ Disconnect(x) PROVE Goal
  <2>1. x # s /\ conn[x] = "open" /\ conn[s] = "open" /\ ~overlap
    BY <1>4 DEF CloseUnheard, Disconnect
  <2> QED BY <1>2, <2>1 DEF Settled
<1>5. ASSUME NEW x \in Sockets, OfflineStored(x) \/ OfflineTold(x) PROVE Goal
  <2>1. Underway(off[x]) /\ off[x] # "idle" /\ conn[s] = "open" /\ ~overlap
    BY <1>5 DEF OfflineStored, OfflineTold, Underway
  <2> QED BY <1>2, <2>1 DEF Settled
<1>6. ASSUME NEW x \in Sockets, NEW u \in Updates, NEW st \in Statuses, UpdateStatus(x, u, st)
      PROVE  Goal
  <2>1. /\ conn[x] = "open" /\ on[x] = "done" /\ conn[s] = "open" /\ ~overlap
        /\ UNCHANGED <<conn, on, off, entry, stored, told, chosen, silent>>
    BY <1>6 DEF UpdateStatus
  <2>2. x = s
    BY <1>2, <2>1 DEF Settled
  <2>3. \A t \in Sockets : t # s => Settled(t)'
    BY <1>2, <2>1 DEF Settled
  <2>4. ~raced' => ChosenInv'
    <3> SUFFICES ASSUME ~raced' PROVE ChosenInv'
      OBVIOUS
    <3>1. /\ upd'[u] = "sent" /\ NoUpdate /\ ~raced
          /\ \A v \in Updates : v # u => ~Underway(upd'[v])
      BY <1>6 DEF UpdateStatus, NoUpdate
    <3>2. Underway(upd'[u])
      BY <3>1 DEF Underway
    <3>3. told = chosen /\ (stored = chosen \/ silent)
      BY <1>2, <2>1, <2>2, <3>1 DEF ChosenInv
    <3> QED BY <2>1, <3>1, <3>2, <3>3 DEF ChosenInv, NoUpdate
  <2> QED BY <1>2, <2>1, <2>2, <2>3, <2>4
<1>7. ASSUME NEW u \in Updates, UpdateStored(u) \/ UpdateTold(u) \/ UpdateFailed(u) PROVE Goal
  <2>1. /\ Underway(upd[u]) /\ conn[s] = "open" /\ ~overlap
        /\ UNCHANGED <<conn, on, off, entry, wish, raced>>
        /\ \A v \in Updates : v # u => upd'[v] = upd[v]
    BY <1>7 DEF UpdateStored, UpdateTold, UpdateFailed, Underway
  <2>2. ~NoUpdate
    BY <2>1 DEF NoUpdate
  <2>3. \A t \in Sockets : t # s => Settled(t)'
    BY <1>2, <2>1 DEF Settled
  <2>4. ~raced => on[s] = "done" /\ ChosenInv
    BY <1>2, <2>1, <2>2
  <2>5. ~raced => ChosenInv'
    <3> SUFFICES ASSUME ~raced PROVE ChosenInv'
      OBVIOUS
    <3>1. /\ told = chosen
          /\ upd[u] = "sent" => stored = chosen \/ silent
          /\ upd[u] = "stored" => stored = wish[u] \/ silent
          /\ \A v \in Updates : v # u => ~Underway(upd'[v])
      BY <2>1, <2>4 DEF ChosenInv
    <3>2. CASE UpdateStored(u)
      <4>1. stored' = wish'[u] /\ UNCHANGED <<told, chosen>> /\ upd'[u] = "stored"
            /\ Underway(upd'[u])
        BY <3>2 DEF UpdateStored, Underway
      <4> QED BY <3>1, <4>1 DEF ChosenInv, NoUpdate
    <3>3. CASE UpdateTold(u)
      <4>1. /\ told' = wish[u] /\ chosen' = wish[u] /\ UNCHANGED <<stored, silent>>
            /\ upd[u] = "stored" /\ ~Underway(upd'[u])
        BY <3>3 DEF UpdateTold, Underway
      <4> QED BY <3>1, <4>1 DEF ChosenInv
    <3>4. CASE UpdateFailed(u)
      <4>1. /\ UNCHANGED <<stored, told, chosen>> /\ ~Underway(upd'[u])
            /\ upd[u] = "stored" => silent'
            /\ upd[u] \in {"sent", "stored"} /\ (silent => silent')
        BY <3>4 DEF UpdateFailed, Underway
      <4> QED BY <3>1, <4>1 DEF ChosenInv
    <3> QED BY <1>7, <3>2, <3>3, <3>4
  <2> QED BY <1>2, <2>1, <2>3, <2>4, <2>5
<1>8. ASSUME NEW u \in Updates,
             ProfileStored(u) \/ ProfileFailed(u) \/ \E st \in Statuses : PutProfile(u, st)
      PROVE  Goal
  <2>1. /\ conn[s] = "open" /\ ~overlap
        /\ UNCHANGED <<conn, on, off, entry, told, chosen, raced>>
        /\ UNCHANGED <<stored, silent>> \/ silent'
    BY <1>8 DEF ProfileStored, ProfileFailed, PutProfile
  <2>2. ~Underway(upd[u]) /\ ~Underway(upd'[u])
    BY <1>8 DEF ProfileStored, ProfileFailed, PutProfile, Underway
  <2>3. \A v \in Updates : v # u => upd'[v] = upd[v] /\ wish'[v] = wish[v]
    BY <1>8 DEF ProfileStored, ProfileFailed, PutProfile
  <2>4. NoUpdate' = NoUpdate
    BY <2>2, <2>3 DEF NoUpdate
  <2>5. ChosenInv => ChosenInv'
    BY <2>1, <2>2, <2>3, <2>4 DEF ChosenInv
  <2>6. \A t \in Sockets : t # s => Settled(t)'
    BY <1>2, <2>1 DEF Settled
  <2> QED BY <1>2, <2>1, <2>4, <2>5, <2>6
<1>9. CASE UNCHANGED vars
  BY <1>2, <1>9 DEF vars, Settled, NoUpdate, ChosenInv
<1> QED BY <1>1, <1>3, <1>4, <1>5, <1>6, <1>7, <1>8, <1>9 DEF Next, Continue

\* PresenceInv holds in every reachable state.
LEMMA InvHolds == Spec => []PresenceInv
<1>1. PresenceInv /\ [Next]_vars => PresenceInv'
  BY TypeStep, SocketStep, EntryStep, UpdateStep, LeftStep, AloneStep DEF PresenceInv
<1> QED BY <1>1, InitInv, PTL DEF Spec

\* The presence of a user is well typed.
THEOREM PresenceTypeCorrect == Spec => []TypeOK
<1>1. PresenceInv => TypeOK
  BY DEF PresenceInv
<1> QED BY <1>1, InvHolds, PTL

\* private_message never finds a socket whose disconnect was handled.
THEOREM EntryNotGoneHolds == Spec => []EntryNotGone
<1>1. PresenceInv => EntryNotGone
  BY DEF PresenceInv
<1> QED BY <1>1, InvHolds, PTL

\* However many sockets of a user overlap, a user who has left is shown offline,
\* and stored so unless something that tells nobody has written the status since.
THEOREM GoneIsOfflineHolds == Spec => []GoneIsOffline
<1>1. PresenceInv => GoneIsOffline
  <2> SUFFICES ASSUME PresenceInv, ~raced, NoUpdate
               PROVE  /\ AllLeft({"stored", "done"}) => stored = "offline" \/ silent
                      /\ AllLeft({"done"}) => told = "offline" /\ entry = NoSocket
    BY DEF GoneIsOffline
  <2>1. AllLeft({"done"}) => entry = NoSocket
    BY DEF PresenceInv, EntryNotGone, AllLeft, TypeOK
  <2> QED BY <2>1 DEF PresenceInv, LeftInv
<1> QED BY <1>1, InvHolds, PTL

\* While the connections of a user do not overlap, the open one is reachable
\* and the user is shown as they chose, and stored so unless something that
\* tells nobody has written the status since.
THEOREM LiveIsOnlineHolds == Spec => []LiveIsOnline
<1>1. PresenceInv => LiveIsOnline
  BY DEF PresenceInv, AloneInv, ChosenInv, LiveIsOnline
<1> QED BY <1>1, InvHolds, PTL
=============================================================================
