------------------------------- MODULE Collab -------------------------------
(***************************************************************************)
(* The synchronisation of one gdocs document: the Socket.IO room of the    *)
(* server (gdocs/server/src/socket.ts), its state file and its history     *)
(* (services/documentService.ts, routes.ts) and the browser pages that     *)
(* edit it (client/src/lib/collab.ts, components/CollabEditor.tsx).        *)
(*                                                                         *)
(* Granularity.  The server is one Node.js process: a handler runs without *)
(* interruption up to its first await.  The only handler that suspends     *)
(* where it matters is 'join' of a document with no room: its continuation *)
(* runs as a microtask, before any packet of another socket, timer or HTTP *)
(* request, but after the packets of the same socket that were decoded in  *)
(* the same turn (Socket.IO dispatches those with process.nextTick).       *)
(* A turn is one step, unless it is cut short: the process may stop, or a  *)
(* write may fail, between the broadcast of an update and its save, or     *)
(* inside a save, which leaves a state file that does not decode.          *)
(* Either end of a connection notices on its own that it is lost.          *)
(*                                                                         *)
(* A definition whose comment begins with "Faulty" is not the code: it is  *)
(* a plausible mistake in the definition that follows it, kept to show     *)
(* which property would notice the mistake.                                *)
(***************************************************************************)
EXTENDS YDoc, Sequences, FiniteSets

CONSTANTS MaxConn,     \* bound: the connections all pages open
          MaxLosses,   \* bound: the connections that are lost or closed
          MaxSaved,    \* bound: the versions and snapshots that are taken
          MaxCrashes,  \* bound: the crashes of the server process
          MaxDeletes,  \* bound: the requests that delete the document
          MaxEvents    \* bound: the four together

ASSUME BoundsAssumption ==
    /\ MaxConn \in Nat /\ MaxLosses \in Nat /\ MaxSaved \in Nat /\ MaxCrashes \in Nat
    /\ MaxEvents \in Nat /\ MaxDeletes \in Nat

\* A server-side socket: the client and the number of its connection.
Sockets == Clients \X (1..MaxConn)
NoSocket == <<0, 0>>

VARIABLES
    roomOpen,    \* rooms.has(docId)
    roomDoc,     \* room.doc
    users,       \* room.users, also the members of the Socket.IO room
    awaiting,    \* the socket whose 'join' is suspended on loadDocumentState
    srv,         \* a socket on the server: unused, open or closed
    hasDocId,    \* the sockets whose closure has currentDocId set
    hasFile,     \* the state file exists
    file,        \* the items encoded in the state file
    torn,        \* the state file does not decode: a save was cut short
    saved,       \* the versions and snapshots of the document
    deletes,     \* how often the document was deleted
    unlinking,   \* the deletions that have not unlinked the state file yet
    crashes,     \* how often the server process has crashed
    losses,      \* how many connections were lost or closed
    up,          \* packets a socket carries to the server
    down,        \* packets a socket carries to its page
    page,        \* a page is open, or it was closed (connection.destroy)
    doc,         \* the Y.Doc of a page
    edits,       \* the clock of that Y.Doc
    cur,         \* the number of the page's live connection, 0 for none
    conns,       \* how many connections the page has opened
    buf,         \* the sendBuffer of the page's Socket.IO client
    online,      \* the user list the page shows
    served,      \* history: the sockets whose SyncStep1 was answered
    setBack,     \* history: a restore or a deletion took items out of the
                 \* state file, or a save was cut short
    overlapped   \* history: a page reconnected before the server had noticed
                 \* the loss of its old connection

serverVars  == <<roomOpen, roomDoc, users, awaiting, srv, hasDocId>>
diskVars    == <<hasFile, file, torn, saved>>
clientVars  == <<page, doc, edits, cur, conns, buf, online>>
deletion    == <<deletes, unlinking>>
faults      == <<crashes, losses, deletion>>
vars == <<serverVars, diskVars, clientVars, faults, up, down, served, setBack,
          overlapped>>

-----------------------------------------------------------------------------
(* Packets.                                                                *)

Join         == [t |-> "join", ops |-> {}]
Step1(sv)    == [t |-> "step1", ops |-> sv]     \* a state vector
Update(U)    == [t |-> "update", ops |-> U]
Step2(U)     == [t |-> "step2", ops |-> U]
UsersUpdate(u) == [t |-> "users", users |-> u]

UpPackets   == [t : {"join", "step1", "update"}, ops : SUBSET Ops]
DownPackets == [t : {"step2"}, ops : SUBSET Ops]
                 \cup [t : {"users"}, users : SUBSET Sockets]

\* The live socket of a page (NoSocket-like when it has none).
Socket(c) == <<c, cur[c]>>

Connected(c) == cur[c] # 0

Owner(s) == s[1]

\* io.to(docId).emit: to every member of the room.  A packet to a socket
\* whose page has already noticed the loss of the connection is lost.
Broadcast(members, packet) ==
    [s \in Sockets |->
        IF s \in members /\ cur[Owner(s)] = s[2] THEN Append(down[s], packet) ELSE down[s]]

\* socket.emit of the page: buffered while it is not connected, lost when
\* the server has already closed the socket.
ClientEmit(c, packet) ==
    IF Connected(c)
    THEN /\ up' = [up EXCEPT ![Socket(c)] =
                     IF srv[Socket(c)] = "open" THEN Append(@, packet) ELSE @]
         /\ UNCHANGED buf
    ELSE /\ buf' = [buf EXCEPT ![c] = Append(@, packet)]
         /\ UNCHANGED up

\* Losses, captures, crashes and deletions may still happen.
MoreEvents == losses + Cardinality(saved) + crashes + deletes < MaxEvents

\* One end gives up a connection; it breaks if the other end still holds it.
Breaks(held) ==
    \/ /\ held
       /\ losses < MaxLosses /\ MoreEvents
       /\ losses' = losses + 1
    \/ /\ ~held
       /\ UNCHANGED losses

Init ==
    /\ roomOpen = FALSE
    /\ roomDoc = {}
    /\ users = {}
    /\ awaiting = NoSocket
    /\ srv = [s \in Sockets |-> "unused"]
    /\ hasDocId = {}
    /\ hasFile = FALSE
    /\ file = {}
    /\ torn = FALSE
    /\ saved = {}
    /\ deletes = 0
    /\ unlinking = {}
    /\ crashes = 0
    /\ losses = 0
    /\ up = [s \in Sockets |-> <<>>]
    /\ down = [s \in Sockets |-> <<>>]
    /\ page = [c \in Clients |-> "open"]
    /\ doc = [c \in Clients |-> {}]
    /\ edits = [c \in Clients |-> 0]
    /\ cur = [c \in Clients |-> 0]
    /\ conns = [c \in Clients |-> 0]
    /\ buf = [c \in Clients |-> <<>>]
    /\ online = [c \in Clients |-> {}]
    /\ served = {}
    /\ setBack = FALSE
    /\ overlapped = FALSE

-----------------------------------------------------------------------------
(* The server.                                                             *)

\* Faulty: the room is told, but the document is not saved.
ApplyToRoomUnsaved(U, f) ==
    /\ roomDoc' = ApplyUpdate(roomDoc, U)
    /\ down' = IF Fires(roomDoc, U) THEN Broadcast(users, Step2(roomDoc')) ELSE down
    /\ file' = f

\* Faulty: the update is saved in place of the document.
ApplyToRoomSavesUpdate(U, f) ==
    /\ roomDoc' = ApplyUpdate(roomDoc, U)
    /\ down' = IF Fires(roomDoc, U) THEN Broadcast(users, Step2(roomDoc')) ELSE down
    /\ file' = IF Fires(roomDoc, U) THEN U ELSE f

\* Y.applyUpdate(room.doc, U) with its 'update' handler, run when the state
\* file holds f: a document that changed is sent to the room and saved.
ApplyToRoom(U, f) ==
    /\ roomDoc' = ApplyUpdate(roomDoc, U)
    /\ \/ /\ Fires(roomDoc, U)
          /\ down' = Broadcast(users, Step2(roomDoc'))
          /\ file' = roomDoc'
       \/ /\ ~Fires(roomDoc, U)
          /\ file' = f
          /\ UNCHANGED down

\* Faulty: loading the document lets the packets of other sockets in.
DispatchesAnyTime(s, t) ==
    /\ srv[s] = "open"
    /\ up[s] # <<>>
    /\ Head(up[s]).t = t

\* Socket s has a packet of type t to be dispatched.  While a join is
\* suspended only packets of the same socket are.
Dispatches(s, t) ==
    /\ srv[s] = "open"
    /\ awaiting \in {NoSocket, s}
    /\ up[s] # <<>>
    /\ Head(up[s]).t = t

Consume(s) == up' = [up EXCEPT ![s] = Tail(@)]

\* room.users.add, socket.join and the 'users-update' to the room.
Enter(s) ==
    /\ users' = users \cup {s}
    /\ down' = Broadcast(users \cup {s}, UsersUpdate(users \cup {s}))

\* 'join': enters the room, or suspends to load the document when there is
\* no room.
HandleJoin(s) ==
    /\ Dispatches(s, "join")
    /\ Consume(s)
    /\ hasDocId' = hasDocId \cup {s}
    /\ \/ /\ roomOpen
          /\ Enter(s)
          /\ UNCHANGED awaiting
       \/ /\ ~roomOpen
          /\ awaiting' = s
          /\ UNCHANGED <<users, down>>
    /\ UNCHANGED <<roomOpen, roomDoc, srv, diskVars, clientVars, faults, served,
                   setBack, overlapped>>

\* Faulty: the room starts without the state file.
JoinLoadedEmpty(s) ==
    /\ awaiting = s
    /\ awaiting' = NoSocket
    /\ roomOpen' = TRUE
    /\ roomDoc' = {}
    /\ Enter(s)
    /\ UNCHANGED <<srv, hasDocId, diskVars, clientVars, faults, up, served,
                   setBack, overlapped>>

\* The continuation of 'join': the room is created from the state file.
JoinLoaded(s) ==
    /\ awaiting = s
    /\ ~torn
    /\ awaiting' = NoSocket
    /\ roomOpen' = TRUE
    /\ roomDoc' = file
    /\ Enter(s)
    /\ UNCHANGED <<srv, hasDocId, diskVars, clientVars, faults, up, served,
                   setBack, overlapped>>

\* Faulty: updates are refused from a socket that has not been synchronised.
IgnoredUntilServed(s) == s \notin hasDocId \/ ~roomOpen \/ (s \notin served /\ Head(up[s]).t = "update")

\* 'yjs-message' is ignored without currentDocId or without a room.
Ignored(s) == s \notin hasDocId \/ ~roomOpen

IgnoreMessage(s) ==
    /\ Dispatches(s, "step1") \/ Dispatches(s, "update")
    /\ Ignored(s)
    /\ Consume(s)
    /\ UNCHANGED <<serverVars, diskVars, clientVars, faults, down, served, setBack, overlapped>>

\* Faulty: socket.to in place of io.to, the sender does not get the answer.
HandleStep1ToOthers(s) ==
    /\ Dispatches(s, "step1")
    /\ ~Ignored(s)
    /\ Consume(s)
    /\ down' = Broadcast(users \ {s}, Step2(roomDoc \ Head(up[s]).ops))
    /\ served' = served \cup {s}
    /\ UNCHANGED <<serverVars, diskVars, clientVars, faults, setBack, overlapped>>

\* 'yjs-message' with a SyncStep1: the items beyond the state vector are
\* sent to the whole room.
HandleStep1(s) ==
    /\ Dispatches(s, "step1")
    /\ ~Ignored(s)
    /\ Consume(s)
    /\ down' = Broadcast(users, Step2(roomDoc \ Head(up[s]).ops))
    /\ served' = served \cup {s}
    /\ UNCHANGED <<serverVars, diskVars, clientVars, faults, setBack, overlapped>>

\* 'yjs-message' with an update.
HandleUpdate(s) ==
    /\ Dispatches(s, "update")
    /\ ~Ignored(s)
    /\ Consume(s)
    /\ ApplyToRoom(Head(up[s]).ops, file)
    /\ hasFile' = (hasFile \/ Fires(roomDoc, Head(up[s]).ops))
    /\ torn' = (torn /\ ~Fires(roomDoc, Head(up[s]).ops))
    /\ UNCHANGED <<roomOpen, users, awaiting, srv, hasDocId, saved, clientVars,
                   faults, served, setBack, overlapped>>

\* Faulty: the user list is sent before the socket is taken out of it.
DisconnectTellsFirst(s) ==
    /\ srv[s] = "open"
    /\ awaiting = NoSocket
    /\ srv' = [srv EXCEPT ![s] = "closed"]
    /\ up' = [up EXCEPT ![s] = <<>>]
    /\ Breaks(cur[Owner(s)] = s[2])
    /\ IF Ignored(s) THEN UNCHANGED <<roomOpen, roomDoc, users, down>>
       ELSE /\ users' = users \ {s}
            /\ down' = Broadcast(users \ {s}, UsersUpdate(users))
            /\ roomOpen' = (users \ {s} # {})
            /\ roomDoc' = IF users \ {s} = {} THEN {} ELSE roomDoc
    /\ UNCHANGED <<awaiting, hasDocId, diskVars, clientVars, crashes, deletion, served,
                   setBack, overlapped>>

\* 'disconnect': the server notices that the socket is gone; what the socket
\* still carried is lost.  The last user's departure destroys the room.
Disconnect(s) ==
    /\ srv[s] = "open"
    /\ awaiting = NoSocket
    /\ srv' = [srv EXCEPT ![s] = "closed"]
    /\ up' = [up EXCEPT ![s] = <<>>]
    /\ Breaks(cur[Owner(s)] = s[2])
    /\ \/ /\ Ignored(s)
          /\ UNCHANGED <<roomOpen, roomDoc, users, down>>
       \/ /\ ~Ignored(s)
          /\ users' = users \ {s}
          /\ down' = Broadcast(users \ {s}, UsersUpdate(users \ {s}))
          /\ roomOpen' = (users \ {s} # {})
          /\ roomDoc' = IF users \ {s} = {} THEN {} ELSE roomDoc
    /\ UNCHANGED <<awaiting, hasDocId, diskVars, clientVars, crashes, deletion, served,
                   setBack, overlapped>>

-----------------------------------------------------------------------------
(* The end of the process.                                                 *)

\* The process ends and is started again: the rooms, the sockets and the
\* deletions under way are gone.
ProcessEnds ==
    /\ roomOpen' = FALSE
    /\ roomDoc' = {}
    /\ users' = {}
    /\ awaiting' = NoSocket
    /\ srv' = [s \in Sockets |-> IF srv[s] = "open" THEN "closed" ELSE srv[s]]
    /\ up' = [s \in Sockets |-> <<>>]
    /\ unlinking' = {}
    /\ UNCHANGED <<hasDocId, saved, clientVars, losses, deletes, served, overlapped>>

\* A crash, as opposed to an end by an error of the code.
Crashes ==
    /\ crashes < MaxCrashes /\ MoreEvents
    /\ crashes' = crashes + 1
    /\ ProcessEnds

\* The process stops between two turns.
Crash == Crashes /\ UNCHANGED <<hasFile, file, torn, down, setBack>>

\* writeFileSync empties the file and is cut short.
FileTorn ==
    /\ hasFile' = TRUE
    /\ file' = {}
    /\ torn' = TRUE

\* The process stops after an update was sent to the room and before it is
\* saved, or while it is; so it does when the save fails, since nobody awaits
\* the 'update' handler.
UpdateCutShort(s) ==
    /\ Dispatches(s, "update")
    /\ ~Ignored(s)
    /\ Fires(roomDoc, Head(up[s]).ops)
    /\ Crashes
    /\ down' = Broadcast(users, Step2(ApplyUpdate(roomDoc, Head(up[s]).ops)))
    /\ FileTorn \/ UNCHANGED <<hasFile, file, torn>>
    /\ setBack' = TRUE

\* The continuation of 'join' with a state file that does not decode: the
\* rejection of the handler ends the process.
JoinTorn(s) ==
    /\ awaiting = s
    /\ torn
    /\ ProcessEnds
    /\ UNCHANGED <<hasFile, file, torn, down, setBack, crashes>>

-----------------------------------------------------------------------------
(* The history routes and the deletion.                                    *)

\* POST .../versions and .../snapshots: the state of the room, or of the
\* state file when there is no room; 400 when there is neither.  Versions and
\* snapshots differ in what describes them only.  (What db.write and a crash
\* do to the records is the subject of DocStore.)
Capture ==
    /\ awaiting = NoSocket
    /\ roomOpen \/ hasFile
    /\ Cardinality(saved) < MaxSaved /\ MoreEvents
    /\ saved' = saved \cup {[ops |-> IF roomOpen THEN roomDoc ELSE file,
                             torn |-> IF roomOpen THEN FALSE ELSE torn]}
    /\ UNCHANGED <<serverVars, hasFile, file, torn, clientVars, faults, up, down, served,
                   setBack, overlapped>>

\* POST .../restore: the state file is overwritten, then the restored state
\* is applied to the document of the live room, if there is one; a state that
\* does not decode is refused with 404 after it was saved.
Restore(k) ==
    /\ awaiting = NoSocket
    /\ hasFile' = TRUE
    /\ torn' = k.torn
    /\ \/ /\ roomOpen /\ ~k.torn
          /\ ApplyToRoom(k.ops, k.ops)
       \/ /\ ~roomOpen \/ k.torn
          /\ file' = k.ops
          /\ UNCHANGED <<roomDoc, down>>
    /\ setBack' = (setBack \/ ~(Integrated(file) \subseteq Integrated(file')))
    /\ UNCHANGED <<roomOpen, users, awaiting, srv, hasDocId, saved, clientVars,
                   faults, up, served, overlapped>>

\* The save of the route fails: the route answers 404 and the process goes on.
RestoreFails ==
    /\ awaiting = NoSocket
    /\ saved # {}
    /\ FileTorn
    /\ setBack' = TRUE
    /\ UNCHANGED <<serverVars, saved, clientVars, faults, up, down, served, overlapped>>

\* The process stops in a restore: in its save, after it, or after the room
\* was told of the merged document and before that is saved, or while it is.
RestoreCutShort(k) ==
    /\ awaiting = NoSocket
    /\ Crashes
    /\ \/ FileTorn
       \/ hasFile' = TRUE /\ file' = k.ops /\ torn' = k.torn
    /\ \/ UNCHANGED down
       \/ /\ roomOpen /\ ~k.torn /\ Fires(roomDoc, k.ops)
          /\ down' = Broadcast(users, Step2(ApplyUpdate(roomDoc, k.ops)))
    /\ setBack' = TRUE

\* DELETE /documents/:id up to db.write(): the versions and snapshots are
\* gone; the room is left alone.
DeleteDocument ==
    /\ awaiting = NoSocket
    /\ deletes < MaxDeletes /\ MoreEvents
    /\ deletes' = deletes + 1
    /\ unlinking' = unlinking \cup {deletes + 1}
    /\ saved' = {}
    /\ UNCHANGED <<serverVars, hasFile, file, torn, clientVars, crashes, losses, up, down,
                   served, setBack, overlapped>>

\* The rest of it, after db.write(): the state file is unlinked.
Unlink ==
    /\ awaiting = NoSocket
    /\ \E d \in unlinking : unlinking' = unlinking \ {d}
    /\ hasFile' = FALSE
    /\ file' = {}
    /\ torn' = FALSE
    /\ setBack' = (setBack \/ Integrated(file) # {})
    /\ UNCHANGED <<serverVars, saved, clientVars, crashes, losses, deletes, up, down, served,
                   overlapped>>

-----------------------------------------------------------------------------
(* The pages.                                                              *)

\* The connection is established: Socket.IO flushes the send buffer, then
\* the 'connect' handler emits 'join' and SyncStep1.
Connect(c) ==
    /\ page[c] = "open"
    /\ ~Connected(c)
    /\ conns[c] < MaxConn
    /\ Cardinality({s \in Sockets : srv[s] # "unused"}) < MaxConn
    /\ conns' = [conns EXCEPT ![c] = @ + 1]
    /\ cur' = [cur EXCEPT ![c] = conns[c] + 1]
    /\ srv' = [srv EXCEPT ![<<c, conns[c] + 1>>] = "open"]
    /\ up' = [up EXCEPT ![<<c, conns[c] + 1>>] =
                buf[c] \o <<Join, Step1(Integrated(doc[c]))>>]
    /\ buf' = [buf EXCEPT ![c] = <<>>]
    /\ overlapped' = (overlapped \/ \E k \in 1..MaxConn : srv[<<c, k>>] = "open")
    /\ UNCHANGED <<roomOpen, roomDoc, users, awaiting, hasDocId, diskVars, page, doc,
                   edits, online, faults, down, served, setBack>>

\* Faulty: the item gets the clock before it is advanced.
EditOldClock(c) ==
    /\ page[c] = "open"
    /\ edits[c] < MaxEdits
    /\ Cardinality({id \in Ids : id[2] <= edits[id[1]]}) < MaxEdits
    /\ edits' = [edits EXCEPT ![c] = @ + 1]
    /\ \E left \in Ids \cup {Root} :
          /\ IsVisible(Integrated(doc[c]), left)
          /\ LET op == [cl |-> c, n |-> edits[c], left |-> left]
             IN  /\ doc' = [doc EXCEPT ![c] = ApplyUpdate(@, {op})]
                 /\ ClientEmit(c, Update(Delta(doc[c], {op})))
    /\ UNCHANGED <<serverVars, diskVars, page, cur, conns, online, faults, down,
                   served, setBack, overlapped>>

\* The editor stores its content under the map key, after the item that is
\* visible, and the 'update' event of the Y.Doc emits what it integrated.
Edit(c) ==
    /\ page[c] = "open"
    /\ edits[c] < MaxEdits
    /\ Cardinality({id \in Ids : id[2] <= edits[id[1]]}) < MaxEdits
    /\ edits' = [edits EXCEPT ![c] = @ + 1]
    /\ \E left \in Ids \cup {Root} :
          /\ IsVisible(Integrated(doc[c]), left)
          /\ LET op == [cl |-> c, n |-> edits[c] + 1, left |-> left]
             IN  /\ doc' = [doc EXCEPT ![c] = ApplyUpdate(@, {op})]
                 /\ ClientEmit(c, Update(Delta(doc[c], {op})))
    /\ UNCHANGED <<serverVars, diskVars, page, cur, conns, online, faults, down,
                   served, setBack, overlapped>>

\* A packet for the page is at hand.
Arrives(c, t) ==
    /\ Connected(c)
    /\ down[Socket(c)] # <<>>
    /\ Head(down[Socket(c)]).t = t

Take(c) == down' = [down EXCEPT ![Socket(c)] = Tail(@)]

\* 'yjs-message' with a SyncStep2: applied, and whatever it integrates is
\* emitted again by the 'update' event of the Y.Doc.
ReceiveStep2(c) ==
    /\ Arrives(c, "step2")
    /\ Take(c)
    /\ LET U == Head(down[Socket(c)]).ops
       IN  /\ doc' = [doc EXCEPT ![c] = ApplyUpdate(@, U)]
           /\ \/ /\ Fires(doc[c], U)
                 /\ ClientEmit(c, Update(Delta(doc[c], U)))
              \/ /\ ~Fires(doc[c], U)
                 /\ UNCHANGED <<up, buf>>
    /\ UNCHANGED <<serverVars, diskVars, page, edits, cur, conns, online, faults,
                   served, setBack, overlapped>>

ReceiveUsers(c) ==
    /\ Arrives(c, "users")
    /\ Take(c)
    /\ online' = [online EXCEPT ![c] = Head(down[Socket(c)]).users]
    /\ UNCHANGED <<serverVars, diskVars, page, doc, edits, cur, conns, buf, faults, up,
                   served, setBack, overlapped>>

\* The page notices that its connection is lost; it will reconnect.
ConnectionLost(c) ==
    /\ Connected(c)
    /\ cur' = [cur EXCEPT ![c] = 0]
    /\ down' = [down EXCEPT ![Socket(c)] = <<>>]
    /\ Breaks(srv[Socket(c)] = "open")
    /\ UNCHANGED <<serverVars, diskVars, page, doc, edits, conns, buf, online, crashes,
                   deletion, up, served, setBack, overlapped>>

\* connection.destroy: the page is left and its Y.Doc is gone.
Destroy(c) ==
    /\ page[c] = "open"
    /\ page' = [page EXCEPT ![c] = "closed"]
    /\ doc' = [doc EXCEPT ![c] = {}]
    /\ buf' = [buf EXCEPT ![c] = <<>>]
    /\ cur' = [cur EXCEPT ![c] = 0]
    /\ down' = IF Connected(c) THEN [down EXCEPT ![Socket(c)] = <<>>] ELSE down
    /\ Breaks(Connected(c) => srv[Socket(c)] = "open")
    /\ UNCHANGED <<serverVars, diskVars, edits, conns, online, crashes, deletion, up, served,
                   setBack, overlapped>>

-----------------------------------------------------------------------------
ServerStep(s) ==
    \/ HandleJoin(s)
    \/ JoinLoaded(s)
    \/ JoinTorn(s)
    \/ IgnoreMessage(s)
    \/ HandleStep1(s)
    \/ HandleUpdate(s)

History ==
    \/ Capture
    \/ \E k \in saved : Restore(k) \/ RestoreCutShort(k)
    \/ RestoreFails
    \/ DeleteDocument
    \/ Unlink

Receive(c) == ReceiveStep2(c) \/ ReceiveUsers(c)

Next ==
    \/ \E s \in Sockets : ServerStep(s) \/ Disconnect(s) \/ UpdateCutShort(s)
    \/ Crash
    \/ History
    \/ \E c \in Clients : \/ Connect(c)
                          \/ Edit(c)
                          \/ Receive(c)
                          \/ ConnectionLost(c)
                          \/ Destroy(c)

Spec == Init /\ [][Next]_vars

\* The event loops dispatch what has arrived: a packet at either end is
\* handled sooner or later, and a suspended join is resumed.
Fairness ==
    /\ \A s \in Sockets : WF_vars(ServerStep(s))
    /\ \A c \in Clients : WF_vars(Receive(c))

FairSpec == Spec /\ Fairness

-----------------------------------------------------------------------------
(* Properties.                                                             *)

\* Types: packets carry items of the document or sockets of the room only, and
\* an item has the clock its page had reached when it was created.
TypeOK ==
    /\ roomOpen \in BOOLEAN
    /\ roomDoc \in SUBSET Ops
    /\ users \in SUBSET Sockets
    /\ awaiting \in Sockets \cup {NoSocket}
    /\ srv \in [Sockets -> {"unused", "open", "closed"}]
    /\ hasDocId \in SUBSET Sockets
    /\ hasFile \in BOOLEAN
    /\ file \in SUBSET Ops
    /\ torn \in BOOLEAN
    /\ saved \in SUBSET [ops : SUBSET Ops, torn : BOOLEAN]
    /\ deletes \in 0..MaxDeletes
    /\ unlinking \in SUBSET (1..MaxDeletes)
    /\ crashes \in 0..MaxCrashes
    /\ losses \in 0..MaxLosses
    /\ up \in [Sockets -> Seq(UpPackets)]
    /\ down \in [Sockets -> Seq(DownPackets)]
    /\ page \in [Clients -> {"open", "closed"}]
    /\ doc \in [Clients -> SUBSET Ops]
    /\ edits \in [Clients -> 0..MaxEdits]
    /\ cur \in [Clients -> 0..MaxConn]
    /\ conns \in [Clients -> 0..MaxConn]
    /\ buf \in [Clients -> Seq(UpPackets)]
    /\ online \in [Clients -> SUBSET Sockets]
    /\ served \in SUBSET Sockets
    /\ setBack \in BOOLEAN
    /\ overlapped \in BOOLEAN

\* The items in the packets of a queue.
OpsIn(q) == UNION {q[i].ops : i \in {j \in 1..Len(q) : q[j].t \in {"update", "step2"}}}

\* socket.ts keeps the room exactly as long as it has users, and its users
\* are the open sockets whose join has completed: no join is lost to a room
\* that another join created meanwhile, and no socket that is gone keeps a
\* room alive.
RoomMembership ==
    /\ roomOpen = (users # {})
    /\ users = {s \in Sockets : srv[s] = "open" /\ s \in hasDocId /\ awaiting # s}

\* Between two turns, the state file never holds content that the live room
\* lacks, and it holds all the content of the room: whatever a turn that has
\* ended told the room, joins, losses and crashes do not take back.  Excepted
\* is a document whose state file was overwritten by a restore or unlinked by
\* a deletion while it had content, or whose save was cut short.
RoomSaved ==
    roomOpen =>
        /\ Integrated(file) \subseteq Integrated(roomDoc)
        /\ ~setBack => Integrated(roomDoc) \subseteq Integrated(file)

\* Between two turns, the content one page sees of another page's edits is in
\* the state file: a crash between turns does not take back what somebody has
\* read.  Excepted are documents as in RoomSaved (the 'update' handler tells
\* the room before it saves, so a crash in between does take it back), and
\* documents with a page that reconnected before the server had noticed the
\* loss of its old connection: then its edits may reach the server out of
\* order, and an edit that waits for its predecessor is sent to pages but not
\* saved.
SeenIsSaved ==
    ~setBack /\ ~overlapped =>
        \A c \in Clients : \A o \in Integrated(doc[c]) :
            o.cl # c => o \in Integrated(file)

\* The state file loses an item only when a restore overwrites it, a deletion
\* unlinks it, or a save is cut short and leaves a file that does not decode:
\* never by an update, a join, or a process that ends between turns.
FileLosesNothing ==
    [][\/ Integrated(file) \subseteq Integrated(file')
       \/ \E k \in saved : Restore(k) \/ RestoreCutShort(k)
       \/ Unlink
       \/ torn']_vars

\* A page whose SyncStep1 was answered misses nothing: what the room has
\* integrated is in its Y.Doc or on its way to it.
MissesNothing ==
    \A c \in Clients :
        (Connected(c) /\ Socket(c) \in served \cap users) =>
            Integrated(roomDoc) \subseteq Integrated(doc[c] \cup OpsIn(down[Socket(c)]))

\* What the page holds is in the room or on its way to it.
Covered(c) ==
    /\ Connected(c)
    /\ Socket(c) \in users
    /\ Integrated(doc[c]) \subseteq Integrated(roomDoc \cup OpsIn(up[Socket(c)]))

\* Once the room has everything a page holds, it never falls behind that
\* page's edits as long as the page's connection lasts.
StaysCovered ==
    [][\A c \in Clients :
          (Covered(c) /\ Connected(c)' /\ srv'[Socket(c)] = "open") => Covered(c)']_vars

\* The user list a page in the room shows is the room's once the packets on
\* their way have arrived.
OnlineAccurate ==
    \A c \in Clients :
        (Connected(c) /\ Socket(c) \in users) =>
            LET q == down[Socket(c)]
                U == {i \in 1..Len(q) : q[i].t = "users"}
            IN  IF U = {} THEN online[c] = users
                ELSE q[CHOOSE i \in U : \A j \in U : j <= i].users = users

\* An item of the room reaches every page whose SyncStep1 was answered and
\* that stays connected.
UpdatesDelivered ==
    \A c \in Clients : \A k \in 1..MaxConn : \A id \in Ids :
        (<<c, k>> \in served \cap users /\ id \in IdsOf(Integrated(roomDoc)))
            ~> (id \in IdsOf(Integrated(doc[c])) \/ cur[c] # k)

\* Once the room has or is about to get everything a page holds, each of the
\* page's items is integrated by the room unless the connection is lost.
EditsPublished ==
    \A c \in Clients : \A k \in 1..MaxConn : \A id \in Ids :
        (Covered(c) /\ cur[c] = k /\ id \in IdsOf(Integrated(doc[c])))
            ~> (\/ id \in IdsOf(Integrated(roomDoc))
                \/ cur[c] # k
                \/ srv[<<c, k>>] # "open")

\* Collab implements SharedDoc: the stored content is what the state file shows,
\* and the exceptions are those of SeenIsSaved.
Shared == INSTANCE SharedDoc WITH
              stored <- Integrated(file),
              shown <- [c \in Clients |-> Integrated(doc[c])],
              disturbed <- setBack \/ overlapped

ImplementsSharedDoc == Shared!Spec

\* HistoryPanel.tsx asks for a confirmation that says that the current
\* content will be overwritten: after a restore the live document shows
\* what the version or snapshot showed.
RestoreOverwrites ==
    [][\A k \in saved : \A id \in Ids :
          (roomOpen /\ Restore(k) /\ IsVisible(Integrated(k.ops), id)) =>
              IsVisible(Integrated(roomDoc'), id)]_vars

=============================================================================
