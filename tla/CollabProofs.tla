---------------------------- MODULE CollabProofs ----------------------------
(***************************************************************************)
(* Theorems about Collab, for every number of pages and every bound.       *)
(***************************************************************************)
EXTENDS Collab, TLAPS, WellFoundedInduction

-----------------------------------------------------------------------------
(* What Yjs integrates.                                                    *)

\* Yjs integrates only items it knows of.
LEMMA IntegratedKnown ==
    ASSUME NEW K
    PROVE  Integrated(K) \subseteq K
  BY DEF Integrated

\* Yjs integrates every closed set of items it knows of.
LEMMA IntegratedLargest ==
    ASSUME NEW K, NEW S \in SUBSET K, Closed(S)
    PROVE  S \subseteq Integrated(K)
  BY DEF Integrated

\* What Yjs integrates leaves no gap.
LEMMA IntegratedClosed ==
    ASSUME NEW K
    PROVE  Closed(Integrated(K))
  <1> SUFFICES ASSUME NEW o \in Integrated(K)
               PROVE  /\ o.n = 1 \/ \E p \in Integrated(K) : p.cl = o.cl /\ p.n = o.n - 1
                      /\ o.left = Root \/ o.left \in IdsOf(Integrated(K))
    BY DEF Closed
  <1>1. PICK S \in SUBSET K : Closed(S) /\ o \in S
    BY DEF Integrated
  <1>2. S \subseteq Integrated(K)
    BY <1>1, IntegratedLargest
  <1>3. /\ o.n = 1 \/ \E p \in S : p.cl = o.cl /\ p.n = o.n - 1
        /\ o.left = Root \/ o.left \in IdsOf(S)
    BY <1>1 DEF Closed
  <1>4. IdsOf(S) \subseteq IdsOf(Integrated(K))
    BY <1>2 DEF IdsOf
  <1>5. QED
    BY <1>2, <1>3, <1>4

\* More known items mean more integrated ones.
LEMMA IntegratedMonotone ==
    ASSUME NEW K, NEW L, K \subseteq L
    PROVE  Integrated(K) \subseteq Integrated(L)
  BY IntegratedKnown, IntegratedClosed, IntegratedLargest

\* A set that contains what K integrates, integrates it, too.
LEMMA IntegratedAbsorbs ==
    ASSUME NEW K, NEW L, Integrated(K) \subseteq L
    PROVE  Integrated(K) \subseteq Integrated(L)
  BY IntegratedClosed, IntegratedLargest

-----------------------------------------------------------------------------
(* Type correctness.                                                       *)

\* The live socket of a connected page is one of the sockets.
LEMMA SocketType ==
    ASSUME TypeOK, NEW c \in Clients, Connected(c)
    PROVE  Socket(c) \in Sockets
  BY BoundsAssumption DEF TypeOK, Connected, Socket, Sockets

\* The items an update integrates are items.
LEMMA DeltaType ==
    ASSUME TypeOK, NEW c \in Clients, NEW U \in SUBSET Ops
    PROVE  Delta(doc[c], U) \in SUBSET Ops
  BY IntegratedKnown DEF Delta, TypeOK

\* Broadcast keeps the queues to the pages well typed.
LEMMA BroadcastType ==
    ASSUME TypeOK, NEW members, NEW packet \in DownPackets
    PROVE  Broadcast(members, packet) \in [Sockets -> Seq(DownPackets)]
  BY DEF TypeOK, Broadcast

\* A SyncStep2 is a packet for a page.
LEMMA Step2Type ==
    ASSUME NEW U \in SUBSET Ops
    PROVE  Step2(U) \in DownPackets
  BY DEF Step2, DownPackets

\* A user list is a packet for a page.
LEMMA UsersUpdateType ==
    ASSUME NEW u \in SUBSET Sockets
    PROVE  UsersUpdate(u) \in DownPackets
  BY DEF UsersUpdate, DownPackets

\* ClientEmit keeps the queues to the server and the send buffers well typed.
LEMMA ClientEmitType ==
    ASSUME TypeOK, NEW c \in Clients, NEW packet \in UpPackets, ClientEmit(c, packet)
    PROVE  /\ up' \in [Sockets -> Seq(UpPackets)]
           /\ buf' \in [Clients -> Seq(UpPackets)]
  <1>0. up \in [Sockets -> Seq(UpPackets)] /\ buf \in [Clients -> Seq(UpPackets)]
    BY DEF TypeOK
  <1>1. CASE Connected(c)
    <2>1. Socket(c) \in Sockets
      BY <1>1, SocketType
    <2>2. Append(up[Socket(c)], packet) \in Seq(UpPackets)
      BY <1>0, <2>1
    <2>3. QED
      BY <1>0, <1>1, <2>1, <2>2 DEF ClientEmit
  <1>2. CASE ~Connected(c)
    <2>1. Append(buf[c], packet) \in Seq(UpPackets)
      BY <1>0
    <2>2. QED
      BY <1>0, <1>2, <2>1 DEF ClientEmit
  <1>3. QED
    BY <1>1, <1>2

\* The packet that is dispatched, and the queue without it.
LEMMA DispatchType ==
    ASSUME TypeOK, NEW s \in Sockets, NEW t, Dispatches(s, t), Consume(s)
    PROVE  /\ Head(up[s]).ops \in SUBSET Ops
           /\ up' \in [Sockets -> Seq(UpPackets)]
  <1>1. up[s] \in Seq(UpPackets) /\ up[s] # <<>>
    BY DEF TypeOK, Dispatches
  <1>2. Head(up[s]) \in UpPackets /\ Tail(up[s]) \in Seq(UpPackets)
    BY <1>1
  <1>3. QED
    BY <1>2 DEF TypeOK, Consume, UpPackets

\* ApplyToRoom keeps the room's document, the state file and the queues well typed.
LEMMA ApplyToRoomType ==
    ASSUME TypeOK, NEW U \in SUBSET Ops, NEW f \in SUBSET Ops, ApplyToRoom(U, f)
    PROVE  /\ roomDoc' \in SUBSET Ops
           /\ file' \in SUBSET Ops
           /\ down' \in [Sockets -> Seq(DownPackets)]
  <1>1. roomDoc' \in SUBSET Ops
    BY DEF TypeOK, ApplyToRoom, ApplyUpdate
  <1>2. Broadcast(users, Step2(roomDoc')) \in [Sockets -> Seq(DownPackets)]
    BY <1>1, Step2Type, BroadcastType
  <1>3. QED
    BY <1>1, <1>2 DEF TypeOK, ApplyToRoom

\* Enter keeps the user list and the queues well typed.
LEMMA EnterType ==
    ASSUME TypeOK, NEW s \in Sockets, Enter(s)
    PROVE  /\ users' \in SUBSET Sockets
           /\ down' \in [Sockets -> Seq(DownPackets)]
  <1>1. users \cup {s} \in SUBSET Sockets
    BY DEF TypeOK
  <1>2. QED
    BY <1>1, UsersUpdateType, BroadcastType DEF Enter

\* The packet that arrives at a page.
LEMMA ArrivesType ==
    ASSUME TypeOK, NEW c \in Clients, NEW t, Arrives(c, t), Take(c)
    PROVE  /\ Head(down[Socket(c)]) \in DownPackets
           /\ t = "step2" => Head(down[Socket(c)]).ops \in SUBSET Ops
           /\ t = "users" => Head(down[Socket(c)]).users \in SUBSET Sockets
           /\ down' \in [Sockets -> Seq(DownPackets)]
  <1>1. Socket(c) \in Sockets
    BY SocketType DEF Arrives
  <1>2. down[Socket(c)] \in Seq(DownPackets) /\ down[Socket(c)] # <<>>
    BY <1>1 DEF TypeOK, Arrives
  <1>3. /\ Head(down[Socket(c)]) \in DownPackets
        /\ Tail(down[Socket(c)]) \in Seq(DownPackets)
    BY <1>2
  <1>4. Head(down[Socket(c)]).t = t
    BY DEF Arrives
  <1>5. QED
    BY <1>1, <1>3, <1>4 DEF TypeOK, Take, DownPackets

\* The steps that end the process.
Ends ==
    \/ Crash
    \/ \E s \in Sockets : UpdateCutShort(s) \/ JoinTorn(s)
    \/ \E k \in saved : RestoreCutShort(k)

\* The steps that change what is on disk only.
DiskOnly == Capture \/ RestoreFails \/ DeleteDocument \/ Unlink

\* A version or snapshot holds the state of the room or of the state file.
LEMMA CaptureAdds ==
    ASSUME Capture
    PROVE  \E X, b : /\ saved' = saved \cup {[ops |-> X, torn |-> b]}
                     /\ X = IF roomOpen THEN roomDoc ELSE file
                     /\ b = IF roomOpen THEN FALSE ELSE torn
  BY Zenon DEF Capture

\* However the process ends, its rooms, its sockets and its deletions are gone.
LEMMA EndsEffect == Ends => ProcessEnds
  BY DEF Ends, Crash, Crashes, UpdateCutShort, JoinTorn, RestoreCutShort

\* What the other steps of the history routes leave alone.
LEMMA DiskOnlyEffect ==
    DiskOnly => UNCHANGED <<serverVars, clientVars, crashes, losses, up, down, served, overlapped>>
  BY DEF DiskOnly, Capture, RestoreFails, DeleteDocument, Unlink, faults, deletion

\* The history routes and the deletion, by what their steps change.
LEMMA HistoryCases == History => DiskOnly \/ Ends \/ \E k \in saved : Restore(k)
  BY DEF History, DiskOnly, Ends

\* The initial state is well typed.
LEMMA TypeInit == Init => TypeOK
  <1> SUFFICES ASSUME Init
               PROVE  TypeOK
    OBVIOUS
  <1>1. /\ up \in [Sockets -> Seq(UpPackets)]
        /\ down \in [Sockets -> Seq(DownPackets)]
        /\ buf \in [Clients -> Seq(UpPackets)]
    BY DEF Init
  <1>2. /\ srv \in [Sockets -> {"unused", "open", "closed"}]
        /\ page \in [Clients -> {"open", "closed"}]
        /\ doc \in [Clients -> SUBSET Ops]
        /\ online \in [Clients -> SUBSET Sockets]
    BY DEF Init
  <1>3. /\ edits \in [Clients -> 0..MaxEdits]
        /\ cur \in [Clients -> 0..MaxConn]
        /\ conns \in [Clients -> 0..MaxConn]
        /\ crashes \in 0..MaxCrashes
        /\ losses \in 0..MaxLosses
        /\ deletes \in 0..MaxDeletes
    BY BoundsAssumption, MaxEditsAssumption DEF Init
  <1>4. QED
    BY <1>1, <1>2, <1>3 DEF Init, TypeOK

\* Every step of the server, of the history routes and of a page keeps the
\* types.
LEMMA TypeStep == TypeOK /\ [Next]_vars => TypeOK'
  <1> SUFFICES ASSUME TypeOK, [Next]_vars
               PROVE  TypeOK'
    OBVIOUS
  <1> USE DEF serverVars, diskVars, clientVars, faults, deletion
  <1>1. ASSUME NEW s \in Sockets, HandleJoin(s)
        PROVE  TypeOK'
    <2>1. up' \in [Sockets -> Seq(UpPackets)]
      BY <1>1, DispatchType DEF HandleJoin
    <2>2. users' \in SUBSET Sockets /\ down' \in [Sockets -> Seq(DownPackets)]
      BY <1>1, EnterType DEF HandleJoin, TypeOK
    <2>3. QED
      BY <1>1, <2>1, <2>2 DEF HandleJoin, TypeOK
  <1>2. ASSUME NEW s \in Sockets, JoinLoaded(s)
        PROVE  TypeOK'
    <2>1. users' \in SUBSET Sockets /\ down' \in [Sockets -> Seq(DownPackets)]
      BY <1>2, EnterType DEF JoinLoaded
    <2>2. QED
      BY <1>2, <2>1 DEF JoinLoaded, TypeOK
  <1>3. ASSUME NEW s \in Sockets, IgnoreMessage(s)
        PROVE  TypeOK'
    <2>1. up' \in [Sockets -> Seq(UpPackets)]
      BY <1>3, DispatchType DEF IgnoreMessage
    <2>2. QED
      BY <1>3, <2>1 DEF IgnoreMessage, TypeOK
  <1>4. ASSUME NEW s \in Sockets, HandleStep1(s)
        PROVE  TypeOK'
    <2>1. up' \in [Sockets -> Seq(UpPackets)]
      BY <1>4, DispatchType DEF HandleStep1
    <2>2. roomDoc \ Head(up[s]).ops \in SUBSET Ops
      BY DEF TypeOK
    <2>3. down' \in [Sockets -> Seq(DownPackets)]
      BY <1>4, <2>2, Step2Type, BroadcastType DEF HandleStep1
    <2>4. QED
      BY <1>4, <2>1, <2>3 DEF HandleStep1, TypeOK
  <1>5. ASSUME NEW s \in Sockets, HandleUpdate(s)
        PROVE  TypeOK'
    <2>1. up' \in [Sockets -> Seq(UpPackets)] /\ Head(up[s]).ops \in SUBSET Ops
      BY <1>5, DispatchType DEF HandleUpdate
    <2>2. /\ roomDoc' \in SUBSET Ops
          /\ file' \in SUBSET Ops
          /\ down' \in [Sockets -> Seq(DownPackets)]
      BY <1>5, <2>1, ApplyToRoomType DEF HandleUpdate, TypeOK
    <2>3. hasFile' \in BOOLEAN /\ torn' \in BOOLEAN
      BY <1>5, Zenon DEF HandleUpdate
    <2>4. QED
      BY <1>5, <2>1, <2>2, <2>3 DEF HandleUpdate, TypeOK
  <1>6. ASSUME NEW s \in Sockets, Disconnect(s)
        PROVE  TypeOK'
    <2>1. up' \in [Sockets -> Seq(UpPackets)]
      BY <1>6 DEF Disconnect, TypeOK
    <2>2. users \ {s} \in SUBSET Sockets
      BY DEF TypeOK
    <2>3. Broadcast(users \ {s}, UsersUpdate(users \ {s})) \in [Sockets -> Seq(DownPackets)]
      BY <2>2, UsersUpdateType, BroadcastType
    <2>4. losses' \in 0..MaxLosses
      BY <1>6, BoundsAssumption DEF Disconnect, Breaks, TypeOK
    <2>5. /\ users' \in SUBSET Sockets
          /\ down' \in [Sockets -> Seq(DownPackets)]
          /\ roomDoc' \in SUBSET Ops
      BY <1>6, <2>2, <2>3 DEF Disconnect, TypeOK
    <2>6. roomOpen' \in BOOLEAN
      BY <1>6, Zenon DEF Disconnect, TypeOK
    <2>7. QED
      BY <1>6, <2>1, <2>4, <2>5, <2>6 DEF Disconnect, TypeOK
  <1>7. CASE Ends
    <2>0. ProcessEnds
      BY <1>7, EndsEffect
    <2>1. /\ srv' \in [Sockets -> {"unused", "open", "closed"}]
          /\ up' \in [Sockets -> Seq(UpPackets)]
      <3>1. srv' \in [Sockets -> {"unused", "open", "closed"}]
        BY <2>0 DEF ProcessEnds, TypeOK
      <3>2. <<>> \in Seq(UpPackets)
        OBVIOUS
      <3>3. up' \in [Sockets -> Seq(UpPackets)]
        BY <2>0, <3>2 DEF ProcessEnds
      <3>4. QED
        BY <3>1, <3>3
    <2>2. crashes' \in 0..MaxCrashes
      BY <1>7, BoundsAssumption
      DEF Ends, Crash, UpdateCutShort, JoinTorn, RestoreCutShort, Crashes, TypeOK
    <2> DEFINE Typed == /\ hasFile' \in BOOLEAN /\ torn' \in BOOLEAN /\ file' \in SUBSET Ops
                        /\ setBack' \in BOOLEAN /\ down' \in [Sockets -> Seq(DownPackets)]
    <2>3. Typed
      <3>1. CASE Crash \/ \E s \in Sockets : JoinTorn(s)
        BY <3>1 DEF Crash, JoinTorn, TypeOK
      <3>2. ASSUME NEW s \in Sockets, UpdateCutShort(s)
            PROVE  Typed
        <4>1. up[s] \in Seq(UpPackets) /\ up[s] # <<>>
          BY <3>2 DEF TypeOK, UpdateCutShort, Dispatches
        <4>2. Head(up[s]).ops \in SUBSET Ops
          <5>1. Head(up[s]) \in UpPackets
            BY <4>1
          <5>2. QED
            BY <5>1 DEF UpPackets
        <4>3. ApplyUpdate(roomDoc, Head(up[s]).ops) \in SUBSET Ops
          BY <4>2 DEF TypeOK, ApplyUpdate
        <4>4. down' \in [Sockets -> Seq(DownPackets)]
          BY <3>2, <4>3, Step2Type, BroadcastType DEF UpdateCutShort
        <4>5. QED
          BY <3>2, <4>4 DEF UpdateCutShort, FileTorn, TypeOK
      <3>3. ASSUME NEW k \in saved, RestoreCutShort(k)
            PROVE  Typed
        <4>1. k.ops \in SUBSET Ops /\ k.torn \in BOOLEAN
          BY DEF TypeOK
        <4>2. ApplyUpdate(roomDoc, k.ops) \in SUBSET Ops
          BY <4>1 DEF TypeOK, ApplyUpdate
        <4>3. down' \in [Sockets -> Seq(DownPackets)]
          BY <3>3, <4>2, Step2Type, BroadcastType DEF RestoreCutShort, TypeOK
        <4>4. QED
          BY <3>3, <4>1, <4>3 DEF RestoreCutShort, FileTorn, TypeOK
      <3>4. QED
        BY <1>7, <3>1, <3>2, <3>3 DEF Ends
    <2>4. QED
      BY <1>7, <2>1, <2>2, <2>3, EndsEffect DEF ProcessEnds, TypeOK
  <1>8. CASE DiskOnly
    <2>1. CASE Capture
      <3>1. (IF roomOpen THEN FALSE ELSE torn) \in BOOLEAN
        BY DEF TypeOK
      <3>2. (IF roomOpen THEN roomDoc ELSE file) \in SUBSET Ops
        BY DEF TypeOK
      <3>3. saved' \in SUBSET [ops : SUBSET Ops, torn : BOOLEAN]
        <4>1. PICK X, b : /\ saved' = saved \cup {[ops |-> X, torn |-> b]}
                          /\ X = IF roomOpen THEN roomDoc ELSE file
                          /\ b = IF roomOpen THEN FALSE ELSE torn
          BY <2>1, CaptureAdds
        <4>2. X \in SUBSET Ops
          BY <3>2, <4>1
        <4>3. b \in BOOLEAN
          BY <3>1, <4>1, Zenon
        <4>4. [ops |-> X, torn |-> b] \in [ops : SUBSET Ops, torn : BOOLEAN]
          BY <4>2, <4>3
        <4>5. QED
          BY <4>1, <4>4 DEF TypeOK
      <3>4. QED
        BY <2>1, <3>3 DEF Capture, TypeOK
    <2>2. CASE RestoreFails
      BY <2>2 DEF RestoreFails, FileTorn, TypeOK
    <2>3. CASE DeleteDocument
      <3>1. deletes' \in 0..MaxDeletes /\ unlinking' \in SUBSET (1..MaxDeletes)
        BY <2>3, BoundsAssumption DEF DeleteDocument, TypeOK
      <3>2. QED
        BY <2>3, <3>1 DEF DeleteDocument, TypeOK
    <2>4. CASE Unlink
      <3>1. setBack' \in BOOLEAN
        BY <2>4, Zenon DEF Unlink
      <3>2. QED
        BY <2>4, <3>1 DEF Unlink, TypeOK
    <2>5. QED
      BY <1>8, <2>1, <2>2, <2>3, <2>4 DEF DiskOnly
  <1>9. ASSUME NEW k \in saved, Restore(k)
        PROVE  TypeOK'
    <2>1. k.ops \in SUBSET Ops /\ k.torn \in BOOLEAN
      BY DEF TypeOK
    <2>2. /\ roomDoc' \in SUBSET Ops
          /\ file' \in SUBSET Ops
          /\ down' \in [Sockets -> Seq(DownPackets)]
      BY <1>9, <2>1, ApplyToRoomType DEF Restore, TypeOK
    <2>3. setBack' \in BOOLEAN
      BY <1>9, Zenon DEF Restore
    <2>4. QED
      BY <1>9, <2>1, <2>2, <2>3 DEF Restore, TypeOK
  <1>10. ASSUME NEW c \in Clients, Connect(c)
         PROVE  TypeOK'
    <2>1. conns[c] + 1 \in 1..MaxConn /\ <<c, conns[c] + 1>> \in Sockets
      BY <1>10, BoundsAssumption DEF Connect, TypeOK, Sockets
    <2>2. Integrated(doc[c]) \in SUBSET Ops
      BY IntegratedKnown DEF TypeOK
    <2>3. Join \in UpPackets /\ Step1(Integrated(doc[c])) \in UpPackets
      BY <2>2 DEF Join, Step1, UpPackets
    <2>4. buf[c] \o <<Join, Step1(Integrated(doc[c]))>> \in Seq(UpPackets)
      <3>1. buf[c] \in Seq(UpPackets)
        BY DEF TypeOK
      <3>2. <<Join, Step1(Integrated(doc[c]))>> \in Seq(UpPackets)
        BY <2>3
      <3>3. QED
        BY <3>1, <3>2
    <2>5. up' \in [Sockets -> Seq(UpPackets)]
      BY <1>10, <2>1, <2>4 DEF Connect, TypeOK
    <2>6. /\ conns' \in [Clients -> 0..MaxConn]
          /\ cur' \in [Clients -> 0..MaxConn]
          /\ srv' \in [Sockets -> {"unused", "open", "closed"}]
          /\ buf' \in [Clients -> Seq(UpPackets)]
      <3>1. conns[c] \in Nat /\ conns[c] + 1 \in 0..MaxConn
        BY <1>10, BoundsAssumption DEF Connect, TypeOK
      <3>2. conns' \in [Clients -> 0..MaxConn] /\ cur' \in [Clients -> 0..MaxConn]
        BY <1>10, <3>1 DEF Connect, TypeOK
      <3>3. srv' \in [Sockets -> {"unused", "open", "closed"}]
        BY <1>10, <2>1 DEF Connect, TypeOK
      <3>4. buf' \in [Clients -> Seq(UpPackets)]
        BY <1>10 DEF Connect, TypeOK
      <3>5. QED
        BY <3>2, <3>3, <3>4
    <2>7. QED
      BY <1>10, <2>5, <2>6 DEF Connect, TypeOK
  <1>11. ASSUME NEW c \in Clients, Edit(c)
         PROVE  TypeOK'
    <2> DEFINE Op(left) == [cl |-> c, n |-> edits[c] + 1, left |-> left]
    <2>1. edits[c] + 1 \in 1..MaxEdits
      BY <1>11, MaxEditsAssumption DEF Edit, TypeOK
    <2>2. PICK left \in Ids \cup {Root} :
             /\ doc' = [doc EXCEPT ![c] = ApplyUpdate(@, {Op(left)})]
             /\ ClientEmit(c, Update(Delta(doc[c], {Op(left)})))
      BY <1>11 DEF Edit
    <2>3. Op(left) \in Ops
      BY <2>1 DEF Ops
    <2>4. doc' \in [Clients -> SUBSET Ops]
      BY <2>2, <2>3 DEF TypeOK, ApplyUpdate
    <2>5. Update(Delta(doc[c], {Op(left)})) \in UpPackets
      BY <2>3, DeltaType DEF Update, UpPackets
    <2>6. up' \in [Sockets -> Seq(UpPackets)] /\ buf' \in [Clients -> Seq(UpPackets)]
      BY <2>2, <2>5, ClientEmitType
    <2>7. edits' \in [Clients -> 0..MaxEdits]
      BY <1>11, <2>1, MaxEditsAssumption DEF Edit, TypeOK
    <2>8. QED
      BY <1>11, <2>4, <2>6, <2>7 DEF Edit, TypeOK
  <1>12. ASSUME NEW c \in Clients, ReceiveStep2(c)
         PROVE  TypeOK'
    <2> DEFINE U == Head(down[Socket(c)]).ops
    <2>1. U \in SUBSET Ops /\ down' \in [Sockets -> Seq(DownPackets)]
      BY <1>12, ArrivesType DEF ReceiveStep2
    <2>2. doc' \in [Clients -> SUBSET Ops]
      BY <1>12, <2>1 DEF ReceiveStep2, ApplyUpdate, TypeOK
    <2>3. Delta(doc[c], U) \in SUBSET Ops
      BY <2>1, DeltaType
    <2>4. Update(Delta(doc[c], U)) \in UpPackets
      BY <2>3 DEF Update, UpPackets
    <2>5. up' \in [Sockets -> Seq(UpPackets)] /\ buf' \in [Clients -> Seq(UpPackets)]
      BY <1>12, <2>4, ClientEmitType DEF ReceiveStep2, TypeOK
    <2>6. QED
      BY <1>12, <2>1, <2>2, <2>5 DEF ReceiveStep2, TypeOK
  <1>13. ASSUME NEW c \in Clients, ReceiveUsers(c)
         PROVE  TypeOK'
    <2>1. /\ Head(down[Socket(c)]).users \in SUBSET Sockets
          /\ down' \in [Sockets -> Seq(DownPackets)]
      BY <1>13, ArrivesType DEF ReceiveUsers
    <2>2. QED
      BY <1>13, <2>1 DEF ReceiveUsers, TypeOK
  <1>14. ASSUME NEW c \in Clients, ConnectionLost(c)
         PROVE  TypeOK'
    <2>1. Socket(c) \in Sockets
      BY <1>14, SocketType DEF ConnectionLost
    <2>2. down' \in [Sockets -> Seq(DownPackets)] /\ cur' \in [Clients -> 0..MaxConn]
      BY <1>14, <2>1, BoundsAssumption DEF ConnectionLost, TypeOK
    <2>3. losses' \in 0..MaxLosses
      BY <1>14, BoundsAssumption DEF ConnectionLost, Breaks, TypeOK
    <2>4. QED
      BY <1>14, <2>2, <2>3 DEF ConnectionLost, TypeOK
  <1>15. ASSUME NEW c \in Clients, Destroy(c)
         PROVE  TypeOK'
    <2>1. down' \in [Sockets -> Seq(DownPackets)]
      BY <1>15, SocketType DEF Destroy, TypeOK
    <2>2. /\ page' \in [Clients -> {"open", "closed"}]
          /\ doc' \in [Clients -> SUBSET Ops]
          /\ buf' \in [Clients -> Seq(UpPackets)]
          /\ cur' \in [Clients -> 0..MaxConn]
      BY <1>15, BoundsAssumption DEF Destroy, TypeOK
    <2>3. losses' \in 0..MaxLosses
      BY <1>15, BoundsAssumption DEF Destroy, Breaks, TypeOK
    <2>4. QED
      BY <1>15, <2>1, <2>2, <2>3 DEF Destroy, TypeOK
  <1>16. CASE UNCHANGED vars
    BY <1>16 DEF vars, TypeOK
  <1>17. QED
    BY <1>1, <1>2, <1>3, <1>4, <1>5, <1>6, <1>7, <1>8, <1>9, <1>10, <1>11, <1>12,
       <1>13, <1>14, <1>15, <1>16, HistoryCases
    DEF Next, ServerStep, Ends, Receive

\* Every state of every behaviour has the types the code gives its data.
THEOREM TypeCorrect == Spec => []TypeOK
  BY TypeInit, TypeStep, PTL DEF Spec

-----------------------------------------------------------------------------
(* The room and its members.                                               *)

\* RoomMembership is inductive together with what a suspended join leaves
\* behind and with the life of a socket.
RoomInv ==
    /\ RoomMembership
    /\ awaiting # NoSocket =>
          ~roomOpen /\ awaiting \in hasDocId /\ srv[awaiting] = "open"
    /\ \A s \in hasDocId : srv[s] # "unused"
    /\ \A c \in Clients : \A k \in 1..MaxConn :
          k > conns[c] => srv[<<c, k>>] = "unused"

\* NoSocket is not a socket: connections are numbered from 1.
LEMMA NoSocketIsNone == NoSocket \notin Sockets
  BY BoundsAssumption DEF NoSocket, Sockets

\* A socket that is opened has not been used before.
LEMMA FreshSocket ==
    ASSUME TypeOK, RoomInv, NEW c \in Clients, Connect(c)
    PROVE  /\ <<c, conns[c] + 1>> \in Sockets
           /\ srv[<<c, conns[c] + 1>>] = "unused"
           /\ <<c, conns[c] + 1>> \notin hasDocId
           /\ <<c, conns[c] + 1>> \notin users
  <1>1. conns[c] + 1 \in 1..MaxConn /\ conns[c] + 1 > conns[c]
    BY BoundsAssumption DEF TypeOK, Connect
  <1>2. QED
    BY <1>1 DEF RoomInv, RoomMembership, Sockets

\* The invariant about the rooms holds initially.
LEMMA RoomInvInit == Init => RoomInv
  BY DEF Init, RoomInv, RoomMembership, Sockets

\* Every step preserves the invariant about the rooms.
LEMMA RoomInvStep == TypeOK /\ RoomInv /\ [Next]_vars => RoomInv'
  <1> SUFFICES ASSUME TypeOK, RoomInv, [Next]_vars
               PROVE  RoomInv'
    OBVIOUS
  <1> USE DEF serverVars, diskVars, clientVars, faults, deletion
  <1>1. ASSUME NEW s \in Sockets, HandleJoin(s)
        PROVE  RoomInv'
    <2>1. srv[s] = "open" /\ awaiting \in {NoSocket, s}
      BY <1>1 DEF HandleJoin, Dispatches
    <2>2. CASE roomOpen
      <3>1. awaiting = NoSocket
        BY <2>2 DEF RoomInv
      <3>2. users' = users \cup {s} /\ awaiting' = NoSocket
        BY <1>1, <2>2, <3>1 DEF HandleJoin, Enter
      <3>3. srv' = srv /\ hasDocId' = hasDocId \cup {s} /\ roomOpen' = TRUE /\ conns' = conns
        BY <1>1, <2>2 DEF HandleJoin, RoomInv, RoomMembership
      <3>4. users = {t \in Sockets : srv[t] = "open" /\ t \in hasDocId /\ awaiting # t}
        BY DEF RoomInv, RoomMembership
      <3>5. users' = {t \in Sockets : srv[t] = "open" /\ t \in hasDocId' /\ awaiting' # t}
        BY <2>1, <3>1, <3>2, <3>3, <3>4, NoSocketIsNone
      <3>6. RoomMembership'
        BY <3>2, <3>3, <3>5 DEF RoomMembership
      <3>7. QED
        BY <2>1, <3>2, <3>3, <3>6 DEF RoomInv
    <2>3. CASE ~roomOpen
      <3>1. users' = users /\ awaiting' = s /\ users = {}
        BY <1>1, <2>3 DEF HandleJoin, RoomInv, RoomMembership
      <3>2. QED
        BY <1>1, <2>1, <2>3, <3>1, NoSocketIsNone
        DEF HandleJoin, RoomInv, RoomMembership, TypeOK
    <2>4. QED
      BY <2>2, <2>3
  <1>2. ASSUME NEW s \in Sockets, JoinLoaded(s)
        PROVE  RoomInv'
    <2>1. users = {} /\ s \in hasDocId /\ srv[s] = "open" /\ users' = {s}
      BY <1>2, NoSocketIsNone DEF JoinLoaded, Enter, RoomInv, RoomMembership
    <2>2. /\ srv' = srv /\ hasDocId' = hasDocId /\ roomOpen' = TRUE /\ conns' = conns
          /\ awaiting = s /\ awaiting' = NoSocket
      BY <1>2 DEF JoinLoaded
    <2>3. {} = {t \in Sockets : srv[t] = "open" /\ t \in hasDocId /\ s # t}
      BY <2>1, <2>2 DEF RoomInv, RoomMembership
    <2>4. users' = {t \in Sockets : srv[t] = "open" /\ t \in hasDocId /\ awaiting' # t}
      BY <2>1, <2>2, <2>3, NoSocketIsNone
    <2>5. RoomMembership'
      BY <2>1, <2>2, <2>4 DEF RoomMembership
    <2>6. QED
      BY <2>2, <2>5 DEF RoomInv
  <1>3. ASSUME NEW s \in Sockets, IgnoreMessage(s) \/ HandleStep1(s) \/ HandleUpdate(s)
        PROVE  RoomInv'
    BY <1>3 DEF IgnoreMessage, HandleStep1, HandleUpdate, RoomInv, RoomMembership
  <1>4. ASSUME NEW s \in Sockets, Disconnect(s)
        PROVE  RoomInv'
    <2>1. /\ awaiting' = NoSocket /\ awaiting = NoSocket
          /\ hasDocId' = hasDocId /\ conns' = conns
          /\ srv' = [srv EXCEPT ![s] = "closed"]
          /\ srv[s] = "open"
      BY <1>4 DEF Disconnect
    <2>2. users' = users \ {s} /\ roomOpen' = (users \ {s} # {})
      <3>1. CASE Ignored(s)
        <4>1. s \notin users
          BY <3>1 DEF Ignored, RoomInv, RoomMembership
        <4>2. QED
          BY <1>4, <3>1, <4>1 DEF Disconnect, RoomInv, RoomMembership
      <3>2. CASE ~Ignored(s)
        BY <1>4, <3>2 DEF Disconnect
      <3>3. QED
        BY <3>1, <3>2
    <2>3. RoomMembership'
      BY <2>1, <2>2, NoSocketIsNone DEF RoomInv, RoomMembership, TypeOK
    <2>4. \A c \in Clients : \A k \in 1..MaxConn :
             k > conns[c] => srv'[<<c, k>>] = "unused"
      BY <2>1 DEF RoomInv, TypeOK, Sockets
    <2>5. QED
      BY <2>1, <2>3, <2>4 DEF RoomInv, TypeOK
  <1>5. CASE Ends
    <2>0. ProcessEnds
      BY <1>5, EndsEffect
    <2>1. \A t \in Sockets : srv'[t] # "open" /\ (srv'[t] = "unused" <=> srv[t] = "unused")
      BY <2>0 DEF ProcessEnds, TypeOK
    <2>2. RoomMembership'
      BY <2>0, <2>1 DEF ProcessEnds, RoomMembership
    <2>3. \A c \in Clients : \A k \in 1..MaxConn :
             k > conns'[c] => srv'[<<c, k>>] = "unused"
      BY <2>0, <2>1 DEF ProcessEnds, RoomInv, Sockets
    <2>4. QED
      BY <2>0, <2>1, <2>2, <2>3 DEF ProcessEnds, RoomInv, TypeOK
  <1>6. CASE DiskOnly \/ \E k \in saved : Restore(k)
    BY <1>6, DiskOnlyEffect DEF Restore, RoomInv, RoomMembership
  <1>7. ASSUME NEW c \in Clients, Connect(c)
        PROVE  RoomInv'
    <2> DEFINE new == <<c, conns[c] + 1>>
    <2>1. /\ new \in Sockets /\ srv[new] = "unused"
          /\ new \notin hasDocId /\ new \notin users
      BY <1>7, FreshSocket
    <2>2. srv' = [srv EXCEPT ![new] = "open"] /\ conns' = [conns EXCEPT ![c] = @ + 1]
      BY <1>7 DEF Connect
    <2>3. RoomMembership'
      <3>1. users = {t \in Sockets : srv[t] = "open" /\ t \in hasDocId /\ awaiting # t}
        BY DEF RoomInv, RoomMembership
      <3>2. \A t \in Sockets : t # new => srv'[t] = srv[t]
        BY <2>2 DEF TypeOK
      <3>3. users = {t \in Sockets : srv'[t] = "open" /\ t \in hasDocId /\ awaiting # t}
        BY <2>1, <3>1, <3>2
      <3>4. QED
        BY <1>7, <3>3 DEF Connect, RoomInv, RoomMembership
    <2>4. \A d \in Clients : \A k \in 1..MaxConn :
             k > conns'[d] => srv'[<<d, k>>] = "unused"
      <3> SUFFICES ASSUME NEW d \in Clients, NEW k \in 1..MaxConn, k > conns'[d]
                   PROVE  srv'[<<d, k>>] = "unused"
        OBVIOUS
      <3>1. <<d, k>> # new /\ k > conns[d]
        BY <2>2, BoundsAssumption DEF TypeOK
      <3>2. QED
        BY <2>2, <3>1 DEF RoomInv, TypeOK, Sockets
    <2>5. /\ awaiting' = awaiting /\ roomOpen' = roomOpen /\ hasDocId' = hasDocId
      BY <1>7 DEF Connect
    <2>6. \A t \in hasDocId : srv'[t] = srv[t]
      BY <2>1, <2>2 DEF TypeOK
    <2>7. QED
      BY <2>3, <2>4, <2>5, <2>6 DEF RoomInv
  <1>8. ASSUME NEW c \in Clients,
               Edit(c) \/ Receive(c) \/ ConnectionLost(c) \/ Destroy(c)
        PROVE  RoomInv'
    BY <1>8 DEF Edit, Receive, ReceiveStep2, ReceiveUsers, ConnectionLost, Destroy,
                RoomInv, RoomMembership
  <1>9. CASE UNCHANGED vars
    BY <1>9 DEF vars, RoomInv, RoomMembership
  <1>10. QED
    BY <1>1, <1>2, <1>3, <1>4, <1>5, <1>6, <1>7, <1>8, <1>9, HistoryCases
    DEF Next, ServerStep, Ends

\* The room has exactly the open sockets that have joined, and exists exactly
\* as long as there is one.
THEOREM RoomMembershipHolds == Spec => []RoomMembership
  <1>1. RoomInv => RoomMembership
    BY DEF RoomInv
  <1>2. QED
    BY <1>1, TypeCorrect, RoomInvInit, RoomInvStep, PTL DEF Spec

-----------------------------------------------------------------------------
(* The state file.                                                         *)

\* Applying an update to the room of which the file f is a part.
LEMMA ApplyToRoomSaves ==
    ASSUME NEW U, NEW f, ApplyToRoom(U, f),
           Integrated(f) \subseteq Integrated(roomDoc) \/ f = U
    PROVE  /\ Integrated(roomDoc) \subseteq Integrated(roomDoc')
           /\ Integrated(file') \subseteq Integrated(roomDoc')
           /\ \/ Integrated(file') = Integrated(roomDoc')
              \/ file' = f /\ Integrated(roomDoc') = Integrated(roomDoc)
  <1>1. roomDoc' = roomDoc \cup U
    BY DEF ApplyToRoom, ApplyUpdate
  <1>2. /\ Integrated(roomDoc) \subseteq Integrated(roomDoc')
        /\ Integrated(U) \subseteq Integrated(roomDoc')
    BY <1>1, IntegratedMonotone
  <1>3. CASE Fires(roomDoc, U)
    BY <1>2, <1>3 DEF ApplyToRoom
  <1>4. CASE ~Fires(roomDoc, U)
    <2>1. Integrated(roomDoc') = Integrated(roomDoc) /\ file' = f
      BY <1>1, <1>4 DEF ApplyToRoom, Fires
    <2>2. QED
      BY <1>2, <2>1
  <1>5. QED
    BY <1>3, <1>4

\* A state that does not decode has no items.
TornInv ==
    /\ torn => file = {}
    /\ \A k \in saved : k.torn => k.ops = {}

\* A state that does not decode stays empty until it is overwritten.
LEMMA TornInvStep == TornInv /\ [Next]_vars => TornInv'
  <1> SUFFICES ASSUME TornInv, [Next]_vars
               PROVE  TornInv'
    OBVIOUS
  <1> USE DEF serverVars, diskVars, clientVars, faults, deletion, TornInv
  <1>1. ASSUME NEW s \in Sockets,
               \/ HandleJoin(s) \/ JoinLoaded(s) \/ IgnoreMessage(s) \/ HandleStep1(s)
               \/ Disconnect(s)
        PROVE  TornInv'
    BY <1>1 DEF HandleJoin, JoinLoaded, IgnoreMessage, HandleStep1, Disconnect
  <1>2. ASSUME NEW s \in Sockets, HandleUpdate(s)
        PROVE  TornInv'
    BY <1>2 DEF HandleUpdate, ApplyToRoom
  <1>3. CASE Ends
    BY <1>3 DEF Ends, Crash, UpdateCutShort, JoinTorn, RestoreCutShort, Crashes, ProcessEnds,
                FileTorn
  <1>4. CASE Capture
    <2>1. PICK X, b : /\ saved' = saved \cup {[ops |-> X, torn |-> b]}
                      /\ X = IF roomOpen THEN roomDoc ELSE file
                      /\ b = IF roomOpen THEN FALSE ELSE torn
      BY <1>4, CaptureAdds
    <2>2. b => X = {}
      <3>1. CASE roomOpen
        BY <2>1, <3>1, Zenon
      <3>2. CASE ~roomOpen
        <4>1. b = torn /\ X = file
          BY <2>1, <3>2, Zenon
        <4>2. QED
          BY <4>1, Zenon
      <3>3. QED
        BY <3>1, <3>2
    <2> DEFINE rec == [ops |-> X, torn |-> b]
    <2>3. rec.torn = b /\ rec.ops = X
      OBVIOUS
    <2>4. saved' = saved \cup {rec}
      BY <2>1
    <2> HIDE DEF rec
    <2>5. rec.torn => rec.ops = {}
      BY <2>2, <2>3, Zenon
    <2>6. \A k \in saved' : k.torn => k.ops = {}
      BY <2>4, <2>5, Zenon
    <2>7. torn' = torn /\ file' = file
      BY <1>4 DEF Capture
    <2>8. QED
      BY <2>6, <2>7, Zenon
  <1>5. CASE RestoreFails \/ DeleteDocument \/ Unlink
    BY <1>5 DEF RestoreFails, FileTorn, DeleteDocument, Unlink
  <1>6. ASSUME NEW k \in saved, Restore(k)
        PROVE  TornInv'
    BY <1>6 DEF Restore
  <1>7. ASSUME NEW c \in Clients,
               Connect(c) \/ Edit(c) \/ Receive(c) \/ ConnectionLost(c) \/ Destroy(c)
        PROVE  TornInv'
    BY <1>7 DEF Connect, Edit, Receive, ReceiveStep2, ReceiveUsers, ConnectionLost, Destroy
  <1>8. CASE UNCHANGED vars
    BY <1>8 DEF vars
  <1>9. QED
    BY <1>1, <1>2, <1>3, <1>4, <1>5, <1>6, <1>7, <1>8, HistoryCases
    DEF Next, ServerStep, Ends, DiskOnly

\* RoomSaved holds initially: there is no room.
LEMMA RoomSavedInit == Init => RoomSaved /\ TornInv
  BY DEF Init, RoomSaved, TornInv

\* Every step preserves RoomSaved.
LEMMA RoomSavedStep == RoomSaved /\ TornInv /\ [Next]_vars => RoomSaved'
  <1> SUFFICES ASSUME RoomSaved, TornInv, [Next]_vars
               PROVE  RoomSaved'
    OBVIOUS
  <1> USE DEF serverVars, diskVars, clientVars, faults, deletion
  <1>1. ASSUME NEW s \in Sockets, HandleJoin(s) \/ IgnoreMessage(s) \/ HandleStep1(s)
        PROVE  RoomSaved'
    BY <1>1 DEF HandleJoin, IgnoreMessage, HandleStep1, RoomSaved
  <1>2. ASSUME NEW s \in Sockets, JoinLoaded(s)
        PROVE  RoomSaved'
    BY <1>2 DEF JoinLoaded, RoomSaved
  <1>3. ASSUME NEW s \in Sockets, HandleUpdate(s)
        PROVE  RoomSaved'
    <2> DEFINE U == Head(up[s]).ops
    <2>1. roomOpen /\ roomOpen' = roomOpen /\ setBack' = setBack /\ ApplyToRoom(U, file)
      BY <1>3 DEF HandleUpdate, Ignored
    <2>2. Integrated(file) \subseteq Integrated(roomDoc)
      BY <2>1 DEF RoomSaved
    <2>3. /\ Integrated(file') \subseteq Integrated(roomDoc')
          /\ \/ Integrated(file') = Integrated(roomDoc')
             \/ file' = file /\ Integrated(roomDoc') = Integrated(roomDoc)
      BY <2>1, <2>2, ApplyToRoomSaves
    <2>4. QED
      BY <2>1, <2>3 DEF RoomSaved
  <1>4. ASSUME NEW s \in Sockets, Disconnect(s)
        PROVE  RoomSaved'
    <2>1. file' = file /\ setBack' = setBack
      BY <1>4 DEF Disconnect
    <2>2. \/ roomOpen' = roomOpen /\ roomDoc' = roomDoc
          \/ ~roomOpen'
          \/ ~Ignored(s) /\ roomDoc' = roomDoc
      BY <1>4, Zenon DEF Disconnect
    <2>3. QED
      BY <2>1, <2>2 DEF RoomSaved, Ignored
  <1>5. CASE Ends
    BY <1>5, EndsEffect DEF ProcessEnds, RoomSaved
  <1>6. CASE DiskOnly
    <2>1. roomOpen' = roomOpen /\ roomDoc' = roomDoc
      BY <1>6, DiskOnlyEffect
    <2>2. CASE Capture \/ DeleteDocument
      BY <2>1, <2>2 DEF Capture, DeleteDocument, RoomSaved
    <2>3. CASE RestoreFails \/ Unlink
      <3>1. Integrated(file') = {}
        BY <2>3, IntegratedKnown DEF RestoreFails, FileTorn, Unlink
      <3>2. ~setBack' => ~setBack /\ Integrated(file) = {}
        BY <2>3 DEF RestoreFails, Unlink
      <3>3. QED
        BY <2>1, <3>1, <3>2 DEF RoomSaved
    <2>4. QED
      BY <1>6, <2>2, <2>3 DEF DiskOnly
  <1>7. ASSUME NEW k \in saved, Restore(k)
        PROVE  RoomSaved'
    <2>1. roomOpen' = roomOpen
      BY <1>7 DEF Restore
    <2>2. CASE roomOpen /\ ~k.torn
      <3>1. ApplyToRoom(k.ops, k.ops)
        BY <1>7, <2>2 DEF Restore
      <3>2. /\ Integrated(file') \subseteq Integrated(roomDoc')
            /\ \/ Integrated(file') = Integrated(roomDoc')
               \/ file' = k.ops /\ Integrated(roomDoc') = Integrated(roomDoc)
        BY <3>1, ApplyToRoomSaves
      <3>3. ~setBack' => ~setBack /\ Integrated(file) \subseteq Integrated(file')
        BY <1>7 DEF Restore
      <3>4. QED
        BY <2>1, <2>2, <3>2, <3>3 DEF RoomSaved
    <2>3. CASE roomOpen /\ k.torn
      <3>1. file' = {} /\ roomDoc' = roomDoc
        BY <1>7, <2>3 DEF Restore, TornInv
      <3>2. Integrated(file') = {}
        BY <3>1, IntegratedKnown
      <3>3. ~setBack' => ~setBack /\ Integrated(file) = {}
        BY <1>7, <3>2 DEF Restore
      <3>4. QED
        BY <2>1, <3>1, <3>2, <3>3 DEF RoomSaved
    <2>4. QED
      BY <2>1, <2>2, <2>3 DEF RoomSaved
  <1>8. ASSUME NEW c \in Clients,
               Connect(c) \/ Edit(c) \/ Receive(c) \/ ConnectionLost(c) \/ Destroy(c)
        PROVE  RoomSaved'
    BY <1>8 DEF Connect, Edit, Receive, ReceiveStep2, ReceiveUsers, ConnectionLost,
                Destroy, RoomSaved
  <1>9. CASE UNCHANGED vars
    BY <1>9 DEF vars, RoomSaved
  <1>10. QED
    BY <1>1, <1>2, <1>3, <1>4, <1>5, <1>6, <1>7, <1>8, <1>9, HistoryCases
    DEF Next, ServerStep, Ends

\* Between two turns the state file has the content of the live room, all of it
\* unless a restore or a deletion took items out of the file or a save was cut
\* short.
THEOREM RoomSavedHolds == Spec => []RoomSaved
  BY RoomSavedInit, TornInvStep, RoomSavedStep, PTL DEF Spec

\* A step that takes an item out of the state file is a restore, unlinks the
\* file or leaves one that does not decode; each of them is noted.
LEMMA FileStep ==
    ASSUME RoomSaved, [Next]_vars
    PROVE  /\ \/ Integrated(file) \subseteq Integrated(file')
              \/ \E k \in saved : Restore(k) \/ RestoreCutShort(k)
              \/ Unlink
              \/ torn'
           /\ ~setBack' => Integrated(file) \subseteq Integrated(file')
  <1> USE DEF serverVars, diskVars, clientVars, faults, deletion
  <1>1. ASSUME NEW s \in Sockets, HandleUpdate(s)
        PROVE  Integrated(file) \subseteq Integrated(file')
    <2> DEFINE U == Head(up[s]).ops
    <2>1. roomOpen /\ ApplyToRoom(U, file)
      BY <1>1 DEF HandleUpdate, Ignored
    <2>2. Integrated(file) \subseteq Integrated(roomDoc)
      BY <2>1 DEF RoomSaved
    <2>3. QED
      BY <2>1, <2>2, ApplyToRoomSaves
  <1>2. ASSUME NEW s \in Sockets,
               \/ HandleJoin(s) \/ JoinLoaded(s) \/ JoinTorn(s) \/ IgnoreMessage(s)
               \/ HandleStep1(s) \/ Disconnect(s)
        PROVE  file' = file
    BY <1>2 DEF HandleJoin, JoinLoaded, JoinTorn, IgnoreMessage, HandleStep1, Disconnect
  <1>3. CASE Crash \/ Capture \/ DeleteDocument \/ UNCHANGED vars
    BY <1>3 DEF Crash, Capture, DeleteDocument, vars
  <1>4. ASSUME NEW c \in Clients,
               Connect(c) \/ Edit(c) \/ Receive(c) \/ ConnectionLost(c) \/ Destroy(c)
        PROVE  file' = file
    BY <1>4 DEF Connect, Edit, Receive, ReceiveStep2, ReceiveUsers, ConnectionLost, Destroy
  <1>5. ASSUME NEW s \in Sockets, UpdateCutShort(s)
        PROVE  setBack' /\ (file' = file \/ torn')
    BY <1>5 DEF UpdateCutShort, FileTorn
  <1>6. CASE RestoreFails
    BY <1>6 DEF RestoreFails, FileTorn
  <1>7. CASE Unlink
    BY <1>7 DEF Unlink
  <1>8. ASSUME NEW k \in saved, Restore(k) \/ RestoreCutShort(k)
        PROVE  ~setBack' => Integrated(file) \subseteq Integrated(file')
    BY <1>8 DEF Restore, RestoreCutShort
  <1>9. QED
    BY <1>1, <1>2, <1>3, <1>4, <1>5, <1>6, <1>7, <1>8 DEF Next, ServerStep, History

\* Only a restore, an unlinked file and a save cut short take content out of the
\* state file.
THEOREM FileLosesNothingHolds == Spec => FileLosesNothing
  <1>1. RoomSaved /\ [Next]_vars =>
           [\/ Integrated(file) \subseteq Integrated(file')
            \/ \E k \in saved : Restore(k) \/ RestoreCutShort(k)
            \/ Unlink
            \/ torn']_vars
    BY FileStep
  <1>2. QED
    BY <1>1, RoomSavedHolds, PTL DEF Spec, FileLosesNothing

-----------------------------------------------------------------------------
(* Queues of packets.                                                      *)

Carries(packet) == packet.t \in {"update", "step2"}

\* An item is in a queue if and only if one of its packets carries it.
LEMMA OpsInMember ==
    ASSUME NEW P, NEW q \in Seq(P), NEW i \in 1..Len(q), Carries(q[i])
    PROVE  q[i].ops \subseteq OpsIn(q)
  BY DEF OpsIn, Carries

\* Appending a packet adds the items it carries.
LEMMA OpsInAppend ==
    ASSUME NEW P, NEW q \in Seq(P), NEW packet \in P
    PROVE  /\ OpsIn(q) \subseteq OpsIn(Append(q, packet))
           /\ Carries(packet) => packet.ops \subseteq OpsIn(Append(q, packet))
  <1> DEFINE r == Append(q, packet)
  <1>1. /\ r \in Seq(P) /\ Len(r) = Len(q) + 1
        /\ r[Len(q) + 1] = packet
        /\ \A i \in 1..Len(q) : r[i] = q[i]
        /\ Len(q) \in Nat
    OBVIOUS
  <1>2. OpsIn(q) \subseteq OpsIn(r)
    BY <1>1 DEF OpsIn
  <1>3. Carries(packet) => packet.ops \subseteq OpsIn(r)
    <2>1. Len(q) + 1 \in 1..Len(r)
      BY <1>1
    <2>2. QED
      BY <1>1, <2>1, OpsInMember
  <1>4. QED
    BY <1>2, <1>3

\* Taking the first packet off loses the items it carries and no others.
LEMMA OpsInTail ==
    ASSUME NEW P, NEW q \in Seq(P), q # <<>>
    PROVE  /\ Carries(Head(q)) => OpsIn(q) \subseteq Head(q).ops \cup OpsIn(Tail(q))
           /\ ~Carries(Head(q)) => OpsIn(q) \subseteq OpsIn(Tail(q))
  <1> DEFINE r == Tail(q)
  <1>1. /\ r \in Seq(P) /\ Len(q) \in Nat \ {0} /\ Len(r) = Len(q) - 1
        /\ Head(q) = q[1]
        /\ \A i \in 1..Len(r) : r[i] = q[i + 1]
    OBVIOUS
  <1>2. ASSUME NEW i \in 1..Len(q), Carries(q[i]), i # 1
        PROVE  q[i].ops \subseteq OpsIn(r)
    <2>1. i - 1 \in 1..Len(r) /\ r[i - 1] = q[i]
      BY <1>1, <1>2
    <2>2. QED
      BY <1>1, <1>2, <2>1, OpsInMember
  <1>3. ASSUME NEW o \in OpsIn(q)
        PROVE  \E i \in 1..Len(q) : Carries(q[i]) /\ o \in q[i].ops
    BY <1>3 DEF OpsIn, Carries
  <1>4. QED
    BY <1>1, <1>2, <1>3

\* A packet that is broadcast reaches the queue of every member that its page
\* still holds, and takes nothing out of any queue.
LEMMA BroadcastAdds ==
    ASSUME TypeOK, NEW members, NEW packet \in DownPackets, NEW s \in Sockets
    PROVE  /\ OpsIn(down[s]) \subseteq OpsIn(Broadcast(members, packet)[s])
           /\ (s \in members /\ cur[Owner(s)] = s[2] /\ Carries(packet))
                 => packet.ops \subseteq OpsIn(Broadcast(members, packet)[s])
  <1>1. down[s] \in Seq(DownPackets)
    BY DEF TypeOK
  <1>2. /\ OpsIn(down[s]) \subseteq OpsIn(Append(down[s], packet))
        /\ Carries(packet) => packet.ops \subseteq OpsIn(Append(down[s], packet))
    BY <1>1, OpsInAppend
  <1>3. QED
    BY <1>2 DEF Broadcast

-----------------------------------------------------------------------------
(* No page misses an update.                                               *)

OnlyUpdates(q) == \A i \in 1..Len(q) : q[i].t = "update"

\* The state vectors in a queue describe items in D.
Step1Within(q, D) == \A i \in 1..Len(q) : q[i].t = "step1" => q[i].ops \subseteq D

\* MissesNothing is inductive together with where the send buffer and the
\* state vectors come from and with which sockets can have been served.
BufferInv == \A c \in Clients : OnlyUpdates(buf[c])
VectorInv == \A c \in Clients : Connected(c) => Step1Within(up[Socket(c)], doc[c])
ServedInv == \A s \in served : s \in hasDocId /\ awaiting # s
DeliveryInv ==
    \A c \in Clients :
        (Connected(c) /\ Socket(c) \in served \cap users) =>
            Integrated(roomDoc) \subseteq doc[c] \cup OpsIn(down[Socket(c)])

SyncInv == BufferInv /\ VectorInv /\ ServedInv /\ DeliveryInv

\* The delivery invariant is stronger than MissesNothing.
LEMMA DeliveryGivesMissesNothing == DeliveryInv => MissesNothing
  <1> SUFFICES ASSUME DeliveryInv, NEW c \in Clients,
                      Connected(c), Socket(c) \in served \cap users
               PROVE  Integrated(roomDoc)
                        \subseteq Integrated(doc[c] \cup OpsIn(down[Socket(c)]))
    BY DEF MissesNothing
  <1>1. Integrated(roomDoc) \subseteq doc[c] \cup OpsIn(down[Socket(c)])
    BY DEF DeliveryInv
  <1>2. QED
    BY <1>1, IntegratedAbsorbs

\* Taking the head off a queue keeps what holds of all its packets.
LEMMA QueueTail ==
    ASSUME NEW P, NEW q \in Seq(P), q # <<>>, NEW D, Step1Within(q, D)
    PROVE  /\ Step1Within(Tail(q), D)
           /\ Head(q).t = "step1" => Head(q).ops \subseteq D
  <1>1. /\ Len(q) \in Nat \ {0} /\ Len(Tail(q)) = Len(q) - 1
        /\ Head(q) = q[1]
        /\ \A i \in 1..Len(Tail(q)) : Tail(q)[i] = q[i + 1] /\ i + 1 \in 1..Len(q)
    OBVIOUS
  <1>2. QED
    BY <1>1 DEF Step1Within

\* Appending a packet keeps what holds of all packets, if it holds of that one.
LEMMA QueueAppend ==
    ASSUME NEW P, NEW q \in Seq(P), NEW U, Update(U) \in P
    PROVE  /\ \A D : Step1Within(q, D) => Step1Within(Append(q, Update(U)), D)
           /\ OnlyUpdates(q) => OnlyUpdates(Append(q, Update(U)))
  <1> DEFINE r == Append(q, Update(U))
  <1>1. Len(q) \in Nat /\ Len(r) = Len(q) + 1 /\ r[Len(q) + 1] = Update(U)
    OBVIOUS
  <1>2. \A i \in 1..Len(r) : (i \in 1..Len(q) /\ r[i] = q[i]) \/ r[i] = Update(U)
    BY <1>1
  <1>3. Update(U).t = "update" /\ Update(U).t # "step1"
    BY DEF Update
  <1>4. QED
    BY <1>2, <1>3 DEF Step1Within, OnlyUpdates

\* What the page sends when it connects.
LEMMA QueueConnect ==
    ASSUME NEW P, NEW q \in Seq(P), OnlyUpdates(q), NEW D, NEW sv \in SUBSET D
    PROVE  Step1Within(q \o <<Join, Step1(sv)>>, D)
  <1> DEFINE r == q \o <<Join, Step1(sv)>>
  <1>1. Len(q) \in Nat /\ Len(r) = Len(q) + 2
    OBVIOUS
  <1>2. /\ \A i \in 1..Len(q) : r[i] = q[i]
        /\ r[Len(q) + 1] = Join /\ r[Len(q) + 2] = Step1(sv)
    OBVIOUS
  <1>3. \A i \in 1..Len(r) : i \in 1..Len(q) \/ r[i] = Join \/ r[i] = Step1(sv)
    BY <1>1, <1>2
  <1>4. Join.t # "step1" /\ Step1(sv).ops = sv
    BY DEF Join, Step1
  <1>5. \A i \in 1..Len(q) : q[i].t # "step1"
    BY DEF OnlyUpdates
  <1>6. QED
    BY <1>2, <1>3, <1>4, <1>5 DEF Step1Within

\* The synchronisation invariant holds initially.
LEMMA SyncInvInit == Init => SyncInv
  BY DEF Init, SyncInv, BufferInv, VectorInv, ServedInv, DeliveryInv, OnlyUpdates, Connected

\* Every step preserves the invariant about the send buffers.
LEMMA BufferInvStep == TypeOK /\ BufferInv /\ [Next]_vars => BufferInv'
  <1> SUFFICES ASSUME TypeOK, BufferInv, [Next]_vars
               PROVE  BufferInv'
    OBVIOUS
  <1> USE DEF serverVars, diskVars, clientVars, faults, deletion
  <1>1. ASSUME NEW c \in Clients, NEW U \in SUBSET Ops, ClientEmit(c, Update(U))
        PROVE  BufferInv'
    <2>1. Update(U) \in UpPackets /\ buf \in [Clients -> Seq(UpPackets)]
      BY DEF Update, UpPackets, TypeOK
    <2>2. OnlyUpdates(Append(buf[c], Update(U)))
      BY <2>1, QueueAppend DEF BufferInv
    <2>3. QED
      BY <1>1, <2>1, <2>2 DEF ClientEmit, BufferInv
  <1>2. ASSUME NEW c \in Clients, Connect(c) \/ Destroy(c)
        PROVE  BufferInv'
    <2>1. buf' = [buf EXCEPT ![c] = <<>>]
      BY <1>2 DEF Connect, Destroy
    <2>2. OnlyUpdates(<<>>)
      BY DEF OnlyUpdates
    <2>3. QED
      BY <2>1, <2>2 DEF TypeOK, BufferInv
  <1>3. ASSUME NEW c \in Clients, Edit(c)
        PROVE  BufferInv'
    <2> DEFINE Op(left) == [cl |-> c, n |-> edits[c] + 1, left |-> left]
    <2>1. PICK left \in Ids \cup {Root} :
             ClientEmit(c, Update(Delta(doc[c], {Op(left)})))
      BY <1>3 DEF Edit
    <2>2. Op(left) \in Ops
      BY <1>3, MaxEditsAssumption DEF Edit, TypeOK, Ops
    <2>3. Delta(doc[c], {Op(left)}) \in SUBSET Ops
      BY <2>2, DeltaType
    <2>4. QED
      BY <1>1, <2>1, <2>3
  <1>4. ASSUME NEW c \in Clients, ReceiveStep2(c)
        PROVE  BufferInv'
    <2>1. Delta(doc[c], Head(down[Socket(c)]).ops) \in SUBSET Ops
      BY <1>4, ArrivesType, DeltaType DEF ReceiveStep2
    <2>2. CASE UNCHANGED <<up, buf>>
      BY <2>2 DEF BufferInv
    <2>3. QED
      BY <1>1, <1>4, <2>1, <2>2 DEF ReceiveStep2
  <1>5. CASE UNCHANGED buf
    BY <1>5 DEF BufferInv
  <1>6. QED
    <2>1. CASE Ends \/ DiskOnly
      BY <1>5, <2>1, EndsEffect, DiskOnlyEffect DEF ProcessEnds
    <2>2. QED
      BY <1>2, <1>3, <1>4, <1>5, <2>1, HistoryCases
      DEF Next, ServerStep, HandleJoin, JoinLoaded, IgnoreMessage, HandleStep1, HandleUpdate,
          Disconnect, Ends, Restore, Receive, ReceiveUsers, ConnectionLost, vars

\* A page that emits an update, and whose document does not shrink.
LEMMA VectorInvEmit ==
    ASSUME TypeOK, VectorInv, NEW c \in Clients, NEW U \in SUBSET Ops,
           ClientEmit(c, Update(U)), cur' = cur,
           NEW D, doc' = [doc EXCEPT ![c] = @ \cup D]
    PROVE  VectorInv'
  <1> SUFFICES ASSUME NEW d \in Clients, Connected(d)
               PROVE  Step1Within(up'[Socket(d)], doc'[d])
    BY DEF VectorInv, Connected, Socket
  <1>1. Socket(d) \in Sockets /\ (Connected(c) => Socket(c) \in Sockets)
    BY SocketType
  <1>2. Step1Within(up[Socket(d)], doc[d]) /\ doc[d] \subseteq doc'[d]
    BY DEF VectorInv, TypeOK
  <1>3. Step1Within(up[Socket(d)], doc'[d])
    BY <1>2 DEF Step1Within
  <1>4. Update(U) \in UpPackets /\ up[Socket(d)] \in Seq(UpPackets)
    BY <1>1 DEF Update, UpPackets, TypeOK
  <1>5. Step1Within(Append(up[Socket(d)], Update(U)), doc'[d])
    BY <1>3, <1>4, QueueAppend
  <1>6. \/ up'[Socket(d)] = up[Socket(d)]
        \/ up'[Socket(d)] = Append(up[Socket(d)], Update(U))
    BY <1>1 DEF ClientEmit, TypeOK
  <1>7. QED
    BY <1>3, <1>5, <1>6

\* Every step preserves the invariant about the state vectors on their way.
LEMMA VectorInvStep == TypeOK /\ RoomInv /\ BufferInv /\ VectorInv /\ [Next]_vars => VectorInv'
  <1> SUFFICES ASSUME TypeOK, RoomInv, BufferInv, VectorInv, [Next]_vars
               PROVE  VectorInv'
    OBVIOUS
  <1> USE DEF serverVars, diskVars, clientVars, faults, deletion
  <1>1. ASSUME NEW s \in Sockets, NEW t, Dispatches(s, t), Consume(s),
               cur' = cur, doc' = doc
        PROVE  VectorInv'
    <2> SUFFICES ASSUME NEW d \in Clients, Connected(d)
                 PROVE  Step1Within(up'[Socket(d)], doc[d])
      BY <1>1 DEF VectorInv, Connected, Socket
    <2>1. Step1Within(up[Socket(d)], doc[d]) /\ Socket(d) \in Sockets
      BY SocketType DEF VectorInv
    <2>2. CASE Socket(d) = s
      <3>1. up[s] \in Seq(UpPackets) /\ up[s] # <<>> /\ up'[s] = Tail(up[s])
        BY <1>1 DEF Dispatches, Consume, TypeOK
      <3>2. QED
        BY <2>1, <2>2, <3>1, QueueTail
    <2>3. CASE Socket(d) # s
      BY <1>1, <2>1, <2>3 DEF Consume, TypeOK
    <2>4. QED
      BY <2>2, <2>3
  <1>2. ASSUME NEW s \in Sockets,
               HandleJoin(s) \/ IgnoreMessage(s) \/ HandleStep1(s) \/ HandleUpdate(s)
        PROVE  VectorInv'
    BY <1>1, <1>2 DEF HandleJoin, IgnoreMessage, HandleStep1, HandleUpdate
  <1>3. ASSUME cur' = cur, doc' = doc,
               \A s \in Sockets : up'[s] \in {up[s], <<>>}
        PROVE  VectorInv'
    <2> SUFFICES ASSUME NEW d \in Clients, Connected(d)
                 PROVE  Step1Within(up'[Socket(d)], doc[d])
      BY <1>3 DEF VectorInv, Connected, Socket
    <2>1. Step1Within(<<>>, doc[d])
      BY DEF Step1Within
    <2>2. Step1Within(up[Socket(d)], doc[d]) /\ Socket(d) \in Sockets
      BY SocketType DEF VectorInv
    <2>3. QED
      BY <1>3, <2>1, <2>2
  <1>4. ASSUME NEW s \in Sockets, Disconnect(s) \/ JoinLoaded(s)
        PROVE  VectorInv'
    BY <1>3, <1>4 DEF Disconnect, JoinLoaded, TypeOK
  <1>5. CASE Ends \/ DiskOnly \/ (\E k \in saved : Restore(k)) \/ UNCHANGED vars
    BY <1>3, <1>5, EndsEffect, DiskOnlyEffect DEF ProcessEnds, Restore, vars
  <1>6. ASSUME NEW c \in Clients, Connect(c)
        PROVE  VectorInv'
    <2> DEFINE new == <<c, conns[c] + 1>>
    <2>1. new \in Sockets /\ srv[new] = "unused"
      BY <1>6, FreshSocket
    <2>2. /\ up' = [up EXCEPT ![new] = buf[c] \o <<Join, Step1(Integrated(doc[c]))>>]
          /\ cur' = [cur EXCEPT ![c] = conns[c] + 1]
          /\ doc' = doc
      BY <1>6 DEF Connect
    <2>3. Step1Within(buf[c] \o <<Join, Step1(Integrated(doc[c]))>>, doc[c])
      BY IntegratedKnown, QueueConnect DEF BufferInv, TypeOK
    <2> SUFFICES ASSUME NEW d \in Clients, cur'[d] # 0
                 PROVE  Step1Within(up'[<<d, cur'[d]>>], doc[d])
      BY <2>2 DEF VectorInv, Connected, Socket
    <2>4. CASE d = c
      BY <2>1, <2>2, <2>3, <2>4 DEF TypeOK
    <2>5. CASE d # c
      <3>1. cur'[d] = cur[d] /\ <<d, cur[d]>> # new /\ Connected(d)
        BY <2>2, <2>5 DEF TypeOK, Connected
      <3>2. Socket(d) \in Sockets /\ Step1Within(up[Socket(d)], doc[d])
        BY <3>1, SocketType DEF VectorInv
      <3>3. QED
        BY <2>2, <3>1, <3>2 DEF TypeOK, Socket
    <2>6. QED
      BY <2>4, <2>5
  <1>7. ASSUME NEW c \in Clients, Edit(c)
        PROVE  VectorInv'
    <2> DEFINE Op(left) == [cl |-> c, n |-> edits[c] + 1, left |-> left]
    <2>1. PICK left \in Ids \cup {Root} :
             /\ doc' = [doc EXCEPT ![c] = @ \cup {Op(left)}]
             /\ ClientEmit(c, Update(Delta(doc[c], {Op(left)})))
      BY <1>7 DEF Edit, ApplyUpdate
    <2>2. Delta(doc[c], {Op(left)}) \in SUBSET Ops
      <3>1. Op(left) \in Ops
        BY <1>7, MaxEditsAssumption DEF Edit, TypeOK, Ops
      <3>2. QED
        BY <3>1, DeltaType
    <2>3. cur' = cur
      BY <1>7 DEF Edit
    <2>4. QED
      BY <2>1, <2>2, <2>3, VectorInvEmit
  <1>8. ASSUME NEW c \in Clients, ReceiveStep2(c)
        PROVE  VectorInv'
    <2> DEFINE U == Head(down[Socket(c)]).ops
    <2>1. Delta(doc[c], U) \in SUBSET Ops
      BY <1>8, ArrivesType, DeltaType DEF ReceiveStep2
    <2>2. cur' = cur /\ doc' = [doc EXCEPT ![c] = @ \cup U]
      BY <1>8 DEF ReceiveStep2, ApplyUpdate
    <2>3. CASE ClientEmit(c, Update(Delta(doc[c], U)))
      BY <2>1, <2>2, <2>3, VectorInvEmit
    <2>4. CASE up' = up
      <3>1. \A d \in Clients : doc[d] \subseteq doc'[d]
        BY <2>2 DEF TypeOK
      <3>2. QED
        BY <2>2, <2>4, <3>1 DEF VectorInv, Step1Within, Connected, Socket
    <2>5. QED
      BY <1>8, <2>3, <2>4 DEF ReceiveStep2
  <1>9. ASSUME NEW c \in Clients, ReceiveUsers(c)
        PROVE  VectorInv'
    BY <1>3, <1>9 DEF ReceiveUsers
  <1>10. ASSUME NEW c \in Clients, ConnectionLost(c) \/ Destroy(c)
         PROVE  VectorInv'
    <2>1. /\ cur' = [cur EXCEPT ![c] = 0] /\ up' = up
          /\ \A d \in Clients \ {c} : doc'[d] = doc[d]
      BY <1>10 DEF ConnectionLost, Destroy, TypeOK
    <2>2. QED
      BY <2>1 DEF VectorInv, Connected, Socket, TypeOK
  <1>11. QED
    BY <1>2, <1>4, <1>5, <1>6, <1>7, <1>8, <1>9, <1>10, HistoryCases
    DEF Next, ServerStep, Ends, Receive

\* Every step preserves the invariant about the answered sockets.
LEMMA ServedInvStep == TypeOK /\ RoomInv /\ ServedInv /\ [Next]_vars => ServedInv'
  <1> SUFFICES ASSUME TypeOK, RoomInv, ServedInv, [Next]_vars
               PROVE  ServedInv'
    OBVIOUS
  <1> USE DEF serverVars, diskVars, clientVars, faults, deletion
  <1>1. ASSUME NEW s \in Sockets, HandleJoin(s)
        PROVE  ServedInv'
    <2>1. srv[s] = "open" /\ served' = served /\ hasDocId' = hasDocId \cup {s}
      BY <1>1 DEF HandleJoin, Dispatches
    <2>2. CASE roomOpen
      BY <1>1, <2>1, <2>2 DEF HandleJoin, ServedInv
    <2>3. CASE ~roomOpen
      <3>1. s \notin served
        BY <2>1, <2>3 DEF ServedInv, RoomInv, RoomMembership
      <3>2. awaiting' = s
        BY <1>1, <2>3 DEF HandleJoin
      <3>3. QED
        BY <2>1, <3>1, <3>2 DEF ServedInv
    <2>4. QED
      BY <2>2, <2>3
  <1>2. ASSUME NEW s \in Sockets, HandleStep1(s)
        PROVE  ServedInv'
    <2>1. s \in hasDocId /\ roomOpen /\ served' = served \cup {s}
      BY <1>2 DEF HandleStep1, Ignored
    <2>2. awaiting # s
      BY <2>1, NoSocketIsNone DEF RoomInv
    <2>3. QED
      BY <1>2, <2>1, <2>2 DEF HandleStep1, ServedInv
  <1>3. CASE served' = served /\ hasDocId' = hasDocId /\ awaiting' \in {awaiting, NoSocket}
    BY <1>3, NoSocketIsNone DEF ServedInv, TypeOK
  <1>4. QED
    <2>1. CASE Ends \/ DiskOnly
      BY <1>3, <2>1, EndsEffect, DiskOnlyEffect DEF ProcessEnds
    <2>2. QED
      BY <1>1, <1>2, <1>3, <2>1, HistoryCases
      DEF Next, ServerStep, JoinLoaded, IgnoreMessage, HandleUpdate, Disconnect, Ends, Restore,
          Connect, Edit, Receive, ReceiveStep2, ReceiveUsers, ConnectionLost, Destroy, vars

\* An update of the room that fires is sent, whole, to all its members.
LEMMA DeliveryInvApply ==
    ASSUME TypeOK, DeliveryInv, NEW U \in SUBSET Ops, NEW f \in SUBSET Ops,
           ApplyToRoom(U, f), UNCHANGED <<users, served, cur, doc>>
    PROVE  DeliveryInv'
  <1> SUFFICES ASSUME NEW c \in Clients, Connected(c), Socket(c) \in served \cap users
               PROVE  Integrated(roomDoc') \subseteq doc[c] \cup OpsIn(down'[Socket(c)])
    BY DEF DeliveryInv, Connected, Socket
  <1>1. Socket(c) \in Sockets /\ cur[Owner(Socket(c))] = Socket(c)[2]
    BY SocketType DEF Socket, Owner
  <1>2. roomDoc' \in SUBSET Ops /\ Step2(roomDoc') \in DownPackets
    BY Step2Type DEF ApplyToRoom, ApplyUpdate, TypeOK
  <1>3. CASE Fires(roomDoc, U)
    <2>1. down' = Broadcast(users, Step2(roomDoc'))
      BY <1>3 DEF ApplyToRoom
    <2>2. Carries(Step2(roomDoc')) /\ Step2(roomDoc').ops = roomDoc'
      BY DEF Carries, Step2
    <2>3. roomDoc' \subseteq OpsIn(down'[Socket(c)])
      BY <1>1, <1>2, <2>1, <2>2, BroadcastAdds
    <2>4. QED
      BY <2>3, IntegratedKnown
  <1>4. CASE ~Fires(roomDoc, U)
    BY <1>4 DEF ApplyToRoom, ApplyUpdate, Fires, DeliveryInv
  <1>5. QED
    BY <1>3, <1>4

\* The user list is sent to some members: nothing is taken from a queue.
LEMMA DeliveryInvUsers ==
    ASSUME TypeOK, DeliveryInv, NEW members, NEW u \in SUBSET Sockets,
           down' = Broadcast(members, UsersUpdate(u)),
           UNCHANGED <<roomDoc, served, cur, doc>>,
           served' \cap users' \subseteq users
    PROVE  DeliveryInv'
  <1> SUFFICES ASSUME NEW c \in Clients, Connected(c), Socket(c) \in served' \cap users'
               PROVE  Integrated(roomDoc) \subseteq doc[c] \cup OpsIn(down'[Socket(c)])
    BY DEF DeliveryInv, Connected, Socket
  <1>1. Socket(c) \in Sockets
    BY SocketType
  <1>2. OpsIn(down[Socket(c)]) \subseteq OpsIn(down'[Socket(c)])
    BY <1>1, UsersUpdateType, BroadcastAdds
  <1>3. QED
    BY <1>2 DEF DeliveryInv

\* Every step preserves the delivery invariant.
LEMMA DeliveryInvStep ==
    TypeOK /\ RoomInv /\ VectorInv /\ ServedInv /\ DeliveryInv /\ [Next]_vars => DeliveryInv'
  <1> SUFFICES ASSUME TypeOK, RoomInv, VectorInv, ServedInv, DeliveryInv, [Next]_vars
               PROVE  DeliveryInv'
    OBVIOUS
  <1> USE DEF serverVars, diskVars, clientVars, faults, deletion
  <1>1. ASSUME NEW s \in Sockets, HandleJoin(s)
        PROVE  DeliveryInv'
    <2>1. CASE roomOpen
      <3>1. /\ users' = users \cup {s}
            /\ down' = Broadcast(users \cup {s}, UsersUpdate(users \cup {s}))
        BY <1>1, <2>1 DEF HandleJoin, Enter
      <3>2. srv[s] = "open" /\ awaiting = NoSocket
        BY <1>1, <2>1 DEF HandleJoin, Dispatches, RoomInv
      <3>3. s \in served => s \in users
        BY <3>2, NoSocketIsNone DEF ServedInv, RoomInv, RoomMembership
      <3>4. users \cup {s} \in SUBSET Sockets
        BY DEF TypeOK
      <3>5. UNCHANGED <<roomDoc, served, cur, doc>>
        BY <1>1 DEF HandleJoin
      <3>6. QED
        BY <3>1, <3>3, <3>4, <3>5, DeliveryInvUsers
    <2>2. CASE ~roomOpen
      BY <1>1, <2>2 DEF HandleJoin, DeliveryInv, Connected, Socket
    <2>3. QED
      BY <2>1, <2>2
  <1>2. ASSUME NEW s \in Sockets, JoinLoaded(s)
        PROVE  DeliveryInv'
    <2>1. users = {} /\ s \notin served
      BY <1>2, NoSocketIsNone DEF JoinLoaded, RoomInv, RoomMembership, ServedInv
    <2>2. served' \cap users' = {}
      BY <1>2, <2>1 DEF JoinLoaded, Enter
    <2>3. QED
      BY <2>2 DEF DeliveryInv
  <1>3. ASSUME NEW s \in Sockets, HandleStep1(s)
        PROVE  DeliveryInv'
    <2> DEFINE sv == Head(up[s]).ops
    <2>1. /\ down' = Broadcast(users, Step2(roomDoc \ sv))
          /\ served' = served \cup {s}
          /\ UNCHANGED <<roomDoc, users, cur, doc>>
      BY <1>3 DEF HandleStep1
    <2>2. Step2(roomDoc \ sv) \in DownPackets /\ Carries(Step2(roomDoc \ sv))
          /\ Step2(roomDoc \ sv).ops = roomDoc \ sv
      BY Step2Type DEF TypeOK, Carries, Step2
    <2> SUFFICES ASSUME NEW c \in Clients, Connected(c), Socket(c) \in served' \cap users
                 PROVE  Integrated(roomDoc) \subseteq doc[c] \cup OpsIn(down'[Socket(c)])
      BY <2>1 DEF DeliveryInv, Connected, Socket
    <2>3. Socket(c) \in Sockets /\ cur[Owner(Socket(c))] = Socket(c)[2]
      BY SocketType DEF Socket, Owner
    <2>4. /\ OpsIn(down[Socket(c)]) \subseteq OpsIn(down'[Socket(c)])
          /\ roomDoc \ sv \subseteq OpsIn(down'[Socket(c)])
      BY <2>1, <2>2, <2>3, BroadcastAdds
    <2>5. CASE Socket(c) \in served
      BY <2>4, <2>5 DEF DeliveryInv
    <2>6. CASE Socket(c) = s
      <3>1. up[s] \in Seq(UpPackets) /\ up[s] # <<>> /\ Head(up[s]).t = "step1"
        BY <1>3 DEF HandleStep1, Dispatches, TypeOK
      <3>2. Step1Within(up[s], doc[c])
        BY <2>6 DEF VectorInv
      <3>3. sv \subseteq doc[c]
        BY <3>1, <3>2, QueueTail
      <3>4. QED
        BY <2>4, <3>3, IntegratedKnown
    <2>7. QED
      BY <2>1, <2>5, <2>6
  <1>4. ASSUME NEW s \in Sockets, HandleUpdate(s)
        PROVE  DeliveryInv'
    <2>1. Head(up[s]).ops \in SUBSET Ops /\ ApplyToRoom(Head(up[s]).ops, file)
      BY <1>4, DispatchType DEF HandleUpdate
    <2>2. file \in SUBSET Ops /\ UNCHANGED <<users, served, cur, doc>>
      BY <1>4 DEF HandleUpdate, TypeOK
    <2>3. QED
      BY <2>1, <2>2, DeliveryInvApply
  <1>5. ASSUME NEW s \in Sockets, Disconnect(s)
        PROVE  DeliveryInv'
    <2>1. UNCHANGED <<served, cur, doc>>
      BY <1>5 DEF Disconnect
    <2>2. CASE Ignored(s)
      BY <1>5, <2>1, <2>2 DEF Disconnect, DeliveryInv, Connected, Socket
    <2>3. CASE ~Ignored(s) /\ users \ {s} = {}
      <3>1. users' = {}
        BY <1>5, <2>3 DEF Disconnect
      <3>2. QED
        BY <3>1 DEF DeliveryInv
    <2>4. CASE ~Ignored(s) /\ users \ {s} # {}
      <3>1. /\ users' = users \ {s} /\ roomDoc' = roomDoc
            /\ down' = Broadcast(users \ {s}, UsersUpdate(users \ {s}))
        BY <1>5, <2>4 DEF Disconnect
      <3>2. users \ {s} \in SUBSET Sockets
        BY DEF TypeOK
      <3>3. QED
        BY <2>1, <3>1, <3>2, DeliveryInvUsers
    <2>5. QED
      BY <2>2, <2>3, <2>4
  <1>6. CASE Ends
    BY <1>6, EndsEffect DEF ProcessEnds, DeliveryInv
  <1>7. ASSUME NEW k \in saved, Restore(k)
        PROVE  DeliveryInv'
    <2>1. k.ops \in SUBSET Ops /\ UNCHANGED <<users, served, cur, doc>>
      BY <1>7 DEF Restore, TypeOK
    <2>2. CASE roomOpen /\ ~k.torn
      <3>1. ApplyToRoom(k.ops, k.ops)
        BY <1>7, <2>2 DEF Restore
      <3>2. QED
        BY <2>1, <3>1, DeliveryInvApply
    <2>3. CASE ~roomOpen \/ k.torn
      BY <1>7, <2>1, <2>3 DEF Restore, DeliveryInv, Connected, Socket
    <2>4. QED
      BY <2>2, <2>3
  <1>8. ASSUME NEW c \in Clients, Connect(c)
        PROVE  DeliveryInv'
    <2>1. <<c, conns[c] + 1>> \notin users
      BY <1>8, FreshSocket
    <2>2. cur' = [cur EXCEPT ![c] = conns[c] + 1]
      BY <1>8 DEF Connect
    <2>3. UNCHANGED <<users, served, roomDoc, down, doc>>
      BY <1>8 DEF Connect
    <2>4. QED
      BY <2>1, <2>2, <2>3 DEF DeliveryInv, Connected, Socket, TypeOK
  <1>9. ASSUME NEW c \in Clients, Edit(c)
        PROVE  DeliveryInv'
    <2>1. \A d \in Clients : doc[d] \subseteq doc'[d]
      BY <1>9 DEF Edit, ApplyUpdate, TypeOK
    <2>2. UNCHANGED <<users, served, roomDoc, down, cur>>
      BY <1>9 DEF Edit
    <2>3. QED
      BY <2>1, <2>2 DEF DeliveryInv, Connected, Socket
  <1>10. ASSUME NEW c \in Clients, ReceiveStep2(c) \/ ReceiveUsers(c)
         PROVE  DeliveryInv'
    <2> DEFINE q == down[Socket(c)]
    <2>1. Socket(c) \in Sockets /\ q \in Seq(DownPackets) /\ q # <<>>
      BY <1>10, SocketType DEF ReceiveStep2, ReceiveUsers, Arrives, TypeOK
    <2>2. UNCHANGED <<users, served, roomDoc, cur>> /\ down' = [down EXCEPT ![Socket(c)] = Tail(q)]
      BY <1>10 DEF ReceiveStep2, ReceiveUsers, Take
    <2>3. \A d \in Clients : doc[d] \subseteq doc'[d]
      BY <1>10 DEF ReceiveStep2, ReceiveUsers, ApplyUpdate, TypeOK
    <2>4. OpsIn(q) \subseteq doc'[c] \cup OpsIn(Tail(q))
      <3>1. CASE ReceiveStep2(c)
        <4>1. Head(q).ops \subseteq doc'[c] /\ Carries(Head(q))
          BY <3>1 DEF ReceiveStep2, Arrives, ApplyUpdate, Carries, TypeOK
        <4>2. QED
          BY <2>1, <4>1, OpsInTail
      <3>2. CASE ReceiveUsers(c)
        <4>1. ~Carries(Head(q))
          BY <3>2 DEF ReceiveUsers, Arrives, Carries
        <4>2. QED
          BY <2>1, <4>1, OpsInTail
      <3>3. QED
        BY <1>10, <3>1, <3>2
    <2> SUFFICES ASSUME NEW d \in Clients, Connected(d), Socket(d) \in served \cap users
                 PROVE  Integrated(roomDoc) \subseteq doc'[d] \cup OpsIn(down'[Socket(d)])
      BY <2>2 DEF DeliveryInv, Connected, Socket
    <2>5. Integrated(roomDoc) \subseteq doc[d] \cup OpsIn(down[Socket(d)])
      BY DEF DeliveryInv
    <2>6. CASE d = c
      <3>1. down'[Socket(c)] = Tail(q)
        BY <2>1, <2>2 DEF TypeOK
      <3>2. QED
        BY <2>3, <2>4, <2>5, <2>6, <3>1
    <2>7. CASE d # c
      <3>1. Socket(d) # Socket(c)
        BY <2>7 DEF Socket
      <3>2. down'[Socket(d)] = down[Socket(d)]
        BY <2>2, <3>1, SocketType DEF TypeOK
      <3>3. QED
        BY <2>3, <2>5, <3>2
    <2>8. QED
      BY <2>6, <2>7
  <1>11. ASSUME NEW c \in Clients, ConnectionLost(c) \/ Destroy(c)
         PROVE  DeliveryInv'
    <2>1. cur' = [cur EXCEPT ![c] = 0] /\ UNCHANGED <<users, served, roomDoc>>
      BY <1>11 DEF ConnectionLost, Destroy
    <2>2. \A d \in Clients \ {c} : doc'[d] = doc[d]
      BY <1>11 DEF ConnectionLost, Destroy, TypeOK
    <2>3. \A d \in Clients \ {c} : Connected(d) => down'[Socket(d)] = down[Socket(d)]
      BY <1>11, SocketType DEF ConnectionLost, Destroy, TypeOK, Socket
    <2>4. QED
      BY <2>1, <2>2, <2>3 DEF DeliveryInv, Connected, Socket, TypeOK
  <1>12. ASSUME NEW s \in Sockets, IgnoreMessage(s)
         PROVE  DeliveryInv'
    BY <1>12 DEF IgnoreMessage, DeliveryInv, Connected, Socket
  <1>13. CASE DiskOnly \/ UNCHANGED vars
    BY <1>13, DiskOnlyEffect DEF vars, DeliveryInv, Connected, Socket
  <1>14. QED
    BY <1>1, <1>2, <1>3, <1>4, <1>5, <1>6, <1>7, <1>8, <1>9, <1>10, <1>11, <1>12, <1>13,
       HistoryCases
    DEF Next, ServerStep, Ends, Receive

\* A page whose SyncStep1 was answered has, or is about to get, everything the
\* room has integrated.
THEOREM MissesNothingHolds == Spec => []MissesNothing
  <1>1. TypeOK /\ RoomInv /\ SyncInv /\ [Next]_vars => SyncInv'
    BY BufferInvStep, VectorInvStep, ServedInvStep, DeliveryInvStep DEF SyncInv
  <1>2. SyncInv => MissesNothing
    BY DeliveryGivesMissesNothing DEF SyncInv
  <1>3. Spec => []RoomInv
    BY TypeCorrect, RoomInvInit, RoomInvStep, PTL DEF Spec
  <1>4. QED
    BY <1>1, <1>2, <1>3, TypeCorrect, SyncInvInit, PTL DEF Spec

-----------------------------------------------------------------------------
(* The room does not fall behind a connected page.                         *)

\* A page in the room has an open socket whose messages are not ignored.
LEMMA CoveredOpen ==
    ASSUME RoomInv, NEW c \in Clients, Covered(c)
    PROVE  /\ srv[Socket(c)] = "open" /\ Socket(c) \in Sockets
           /\ roomOpen /\ ~Ignored(Socket(c))
  BY DEF RoomInv, RoomMembership, Covered, Ignored

\* The room and the queue of the page lose nothing, the page gains nothing.
LEMMA CoveredKept ==
    ASSUME NEW c \in Clients, Covered(c), cur'[c] = cur[c],
           doc'[c] = doc[c], Socket(c) \in users',
           roomDoc \cup OpsIn(up[Socket(c)]) \subseteq roomDoc' \cup OpsIn(up'[Socket(c)])
    PROVE  Covered(c)'
  <1>1. Integrated(roomDoc \cup OpsIn(up[Socket(c)]))
           \subseteq Integrated(roomDoc' \cup OpsIn(up'[Socket(c)]))
    BY IntegratedMonotone
  <1>2. QED
    BY <1>1 DEF Covered, Connected, Socket

\* What a page integrates on its socket it also emits on it.
LEMMA CoveredEmit ==
    ASSUME TypeOK, RoomInv, NEW c \in Clients, Covered(c), NEW D,
           Delta(doc[c], D) \in SUBSET Ops,
           doc'[c] = doc[c] \cup D, UNCHANGED <<cur, users, roomDoc>>,
           \/ ClientEmit(c, Update(Delta(doc[c], D)))
           \/ ~Fires(doc[c], D) /\ up' = up
    PROVE  Covered(c)'
  <1> DEFINE q == up[Socket(c)]
             X == roomDoc \cup OpsIn(up'[Socket(c)])
             S == Integrated(doc[c] \cup D)
  <1>1. Socket(c) \in Sockets /\ srv[Socket(c)] = "open" /\ Connected(c)
    BY CoveredOpen DEF Covered
  <1>2. OpsIn(q) \subseteq OpsIn(up'[Socket(c)]) /\ Delta(doc[c], D) \subseteq X
    <2>1. CASE ClientEmit(c, Update(Delta(doc[c], D)))
      <3>1. Update(Delta(doc[c], D)) \in UpPackets /\ q \in Seq(UpPackets)
        BY <1>1 DEF Update, UpPackets, TypeOK
      <3>2. up'[Socket(c)] = Append(q, Update(Delta(doc[c], D)))
        BY <1>1, <2>1 DEF ClientEmit, TypeOK
      <3>3. /\ Carries(Update(Delta(doc[c], D)))
            /\ Update(Delta(doc[c], D)).ops = Delta(doc[c], D)
        BY DEF Carries, Update
      <3>4. QED
        BY <3>1, <3>2, <3>3, OpsInAppend
    <2>2. CASE ~Fires(doc[c], D) /\ up' = up
      BY <2>2 DEF Fires, Delta
    <2>3. QED
      BY <2>1, <2>2
  <1>3. Integrated(doc[c]) \subseteq roomDoc \cup OpsIn(q)
    BY IntegratedKnown DEF Covered
  <1>4. S \subseteq Integrated(doc[c]) \cup Delta(doc[c], D)
    BY DEF Delta
  <1>5. S \subseteq X
    BY <1>2, <1>3, <1>4
  <1>6. S \subseteq Integrated(X)
    BY <1>5, IntegratedAbsorbs
  <1>7. QED
    BY <1>6 DEF Covered, Connected, Socket

\* No step of the server, of the network or of a page uncovers a page whose
\* connection it does not break.
LEMMA CoveredStep ==
    ASSUME TypeOK, RoomInv, [Next]_vars, NEW c \in Clients,
           Covered(c), Connected(c)', srv'[Socket(c)] = "open"
    PROVE  Covered(c)'
  <1> USE DEF serverVars, diskVars, clientVars, faults, deletion
  <1> DEFINE q == up[Socket(c)]
  <1>1. /\ srv[Socket(c)] = "open" /\ Socket(c) \in Sockets /\ Socket(c) \in users
        /\ roomOpen /\ ~Ignored(Socket(c))
        /\ Connected(c) /\ q \in Seq(UpPackets)
    BY CoveredOpen DEF Covered, TypeOK
  <1>2. ASSUME NEW s \in Sockets, NEW t, t \in {"join", "step1"},
               Dispatches(s, t), Consume(s),
               UNCHANGED <<cur, doc, roomDoc>>, users \subseteq users'
        PROVE  Covered(c)'
    <2>1. CASE Socket(c) = s
      <3>1. ~Carries(Head(q)) /\ q # <<>> /\ up'[s] = Tail(q)
        BY <1>2, <2>1 DEF Carries, Dispatches, Consume, TypeOK
      <3>2. OpsIn(q) \subseteq OpsIn(up'[Socket(c)])
        BY <1>1, <2>1, <3>1, OpsInTail
      <3>3. QED
        BY <1>1, <1>2, <3>2, CoveredKept
    <2>2. CASE Socket(c) # s
      <3>1. up'[Socket(c)] = q
        BY <1>1, <1>2, <2>2 DEF Consume, TypeOK
      <3>2. QED
        BY <1>1, <1>2, <3>1, CoveredKept
    <2>3. QED
      BY <2>1, <2>2
  <1>3. ASSUME NEW s \in Sockets, HandleJoin(s) \/ HandleStep1(s)
        PROVE  Covered(c)'
    BY <1>2, <1>3 DEF HandleJoin, Enter, HandleStep1
  <1>4. ASSUME NEW s \in Sockets, JoinLoaded(s)
        PROVE  Covered(c)'
    BY <1>1, <1>4, NoSocketIsNone DEF JoinLoaded, RoomInv
  <1>5. ASSUME NEW s \in Sockets, IgnoreMessage(s)
        PROVE  Covered(c)'
    <2>1. s # Socket(c)
      BY <1>1, <1>5 DEF IgnoreMessage
    <2>2. up'[Socket(c)] = q
      BY <1>1, <1>5, <2>1 DEF IgnoreMessage, Consume, TypeOK
    <2>3. QED
      BY <1>1, <1>5, <2>2, CoveredKept DEF IgnoreMessage
  <1>6. ASSUME NEW s \in Sockets, HandleUpdate(s)
        PROVE  Covered(c)'
    <2> DEFINE U == Head(up[s]).ops
    <2>1. /\ roomDoc' = roomDoc \cup U /\ UNCHANGED <<cur, doc, users>>
      BY <1>6 DEF HandleUpdate, ApplyToRoom, ApplyUpdate
    <2>2. OpsIn(q) \subseteq U \cup OpsIn(up'[Socket(c)])
      <3>1. CASE Socket(c) = s
        <4>1. Carries(Head(q)) /\ q # <<>> /\ up'[s] = Tail(q)
          BY <1>6, <3>1 DEF HandleUpdate, Carries, Dispatches, Consume, TypeOK
        <4>2. QED
          BY <1>1, <3>1, <4>1, OpsInTail
      <3>2. CASE Socket(c) # s
        BY <1>1, <1>6, <3>2 DEF HandleUpdate, Consume, TypeOK
      <3>3. QED
        BY <3>1, <3>2
    <2>3. QED
      BY <1>1, <2>1, <2>2, CoveredKept
  <1>7. ASSUME NEW s \in Sockets, Disconnect(s)
        PROVE  Covered(c)'
    <2>1. srv' = [srv EXCEPT ![s] = "closed"] /\ up' = [up EXCEPT ![s] = <<>>]
      BY <1>7 DEF Disconnect
    <2>2. s # Socket(c)
      BY <1>1, <2>1 DEF TypeOK
    <2>3. up'[Socket(c)] = q /\ UNCHANGED <<cur, doc>>
      BY <1>1, <1>7, <2>1, <2>2 DEF Disconnect, TypeOK
    <2>4. Socket(c) \in users' /\ roomDoc' = roomDoc
      BY <1>1, <1>7, <2>2 DEF Disconnect
    <2>5. QED
      BY <2>3, <2>4, CoveredKept
  <1>8. CASE Ends
    BY <1>1, <1>8, EndsEffect DEF ProcessEnds, TypeOK
  <1>9. CASE DiskOnly \/ UNCHANGED vars
    BY <1>1, <1>9, CoveredKept, DiskOnlyEffect DEF vars
  <1>10. ASSUME NEW k \in saved, Restore(k)
         PROVE  Covered(c)'
    <2>1. roomDoc' \in {roomDoc, roomDoc \cup k.ops} /\ UNCHANGED <<cur, doc, users, up>>
      BY <1>1, <1>10 DEF Restore, ApplyToRoom, ApplyUpdate
    <2>2. QED
      BY <1>1, <2>1, CoveredKept
  <1>11. ASSUME NEW d \in Clients, Connect(d)
         PROVE  Covered(c)'
    <2>1. d # c /\ <<d, conns[d] + 1>> # Socket(c)
      BY <1>1, <1>11 DEF Connect, Socket
    <2>2. up'[Socket(c)] = q /\ cur'[c] = cur[c] /\ UNCHANGED <<users, roomDoc, doc>>
      BY <1>1, <1>11, <2>1 DEF Connect, TypeOK
    <2>3. QED
      BY <1>1, <2>2, CoveredKept
  <1>12. ASSUME NEW d \in Clients, Edit(d) \/ ReceiveStep2(d), d # c
         PROVE  Covered(c)'
    <2>1. doc'[c] = doc[c] /\ UNCHANGED <<cur, users, roomDoc>>
      BY <1>12 DEF Edit, ReceiveStep2, TypeOK
    <2>2. up'[Socket(c)] = q
      <3>1. Socket(d) # Socket(c)
        BY <1>12 DEF Socket
      <3>2. QED
        BY <1>1, <1>12, <3>1 DEF Edit, ReceiveStep2, ClientEmit, TypeOK
    <2>3. QED
      BY <1>1, <2>1, <2>2, CoveredKept
  <1>13. CASE Edit(c)
    <2> DEFINE Op(left) == [cl |-> c, n |-> edits[c] + 1, left |-> left]
    <2>1. PICK left \in Ids \cup {Root} :
             /\ doc' = [doc EXCEPT ![c] = @ \cup {Op(left)}]
             /\ ClientEmit(c, Update(Delta(doc[c], {Op(left)})))
      BY <1>13 DEF Edit, ApplyUpdate
    <2>2. Op(left) \in Ops
      BY <1>13, MaxEditsAssumption DEF Edit, TypeOK, Ops
    <2>3. Delta(doc[c], {Op(left)}) \in SUBSET Ops
      BY <2>2, DeltaType
    <2>4. doc'[c] = doc[c] \cup {Op(left)} /\ UNCHANGED <<cur, users, roomDoc>>
      BY <1>13, <2>1 DEF Edit, TypeOK
    <2>5. QED
      BY <2>1, <2>3, <2>4, CoveredEmit
  <1>14. CASE ReceiveStep2(c)
    <2> DEFINE U == Head(down[Socket(c)]).ops
    <2>1. Delta(doc[c], U) \in SUBSET Ops
      BY <1>14, ArrivesType, DeltaType DEF ReceiveStep2
    <2>2. doc'[c] = doc[c] \cup U /\ UNCHANGED <<cur, users, roomDoc>>
      BY <1>14 DEF ReceiveStep2, ApplyUpdate, TypeOK
    <2>3. \/ ClientEmit(c, Update(Delta(doc[c], U)))
          \/ ~Fires(doc[c], U) /\ up' = up
      BY <1>14 DEF ReceiveStep2
    <2>4. QED
      BY <2>1, <2>2, <2>3, CoveredEmit
  <1>15. ASSUME NEW d \in Clients, ReceiveUsers(d)
         PROVE  Covered(c)'
    BY <1>1, <1>15, CoveredKept DEF ReceiveUsers
  <1>16. ASSUME NEW d \in Clients, ConnectionLost(d) \/ Destroy(d)
         PROVE  Covered(c)'
    <2>1. cur' = [cur EXCEPT ![d] = 0] /\ UNCHANGED <<users, roomDoc, up>>
      BY <1>16 DEF ConnectionLost, Destroy
    <2>2. d # c
      BY <2>1 DEF Connected, TypeOK
    <2>3. doc'[c] = doc[c] /\ cur'[c] = cur[c]
      BY <1>16, <2>1, <2>2 DEF ConnectionLost, Destroy, TypeOK
    <2>4. QED
      BY <1>1, <2>1, <2>3, CoveredKept
  <1>17. QED
    BY <1>3, <1>4, <1>5, <1>6, <1>7, <1>8, <1>9, <1>10, <1>11, <1>12, <1>13, <1>14,
       <1>15, <1>16, HistoryCases
    DEF Next, ServerStep, Ends, Receive

\* While its connection lasts, no edit of a page that the room has caught up
\* with is lost.
THEOREM StaysCoveredHolds == Spec => StaysCovered
  <1>1. TypeOK /\ RoomInv /\ [Next]_vars =>
           [\A c \in Clients :
              (Covered(c) /\ Connected(c)' /\ srv'[Socket(c)] = "open") => Covered(c)']_vars
    BY CoveredStep
  <1>2. Spec => []RoomInv
    BY TypeCorrect, RoomInvInit, RoomInvStep, PTL DEF Spec
  <1>3. QED
    BY <1>1, <1>2, TypeCorrect, PTL DEF Spec, StaysCovered

-----------------------------------------------------------------------------
(* The user lists of the pages.                                            *)

\* A page that shows the users o and handles the packets q shows u at the end.
Leads(q, o, u) ==
    \/ /\ \A i \in 1..Len(q) : q[i].t # "users"
       /\ o = u
    \/ \E i \in 1..Len(q) : /\ q[i].t = "users" /\ q[i].users = u
                            /\ \A j \in 1..Len(q) : q[j].t = "users" => j <= i

UsersInv ==
    \A c \in Clients : (Connected(c) /\ Socket(c) \in users) =>
        Leads(down[Socket(c)], online[c], users)

\* The last user list is the only one that nothing follows.
LEMMA UsersInvGivesOnlineAccurate == TypeOK /\ UsersInv => OnlineAccurate
  <1> SUFFICES ASSUME TypeOK, UsersInv, NEW c \in Clients, Connected(c), Socket(c) \in users
               PROVE  LET q == down[Socket(c)]
                          U == {i \in 1..Len(q) : q[i].t = "users"}
                      IN  IF U = {} THEN online[c] = users
                          ELSE q[CHOOSE i \in U : \A j \in U : j <= i].users = users
    BY DEF OnlineAccurate
  <1> DEFINE q == down[Socket(c)]
             U == {i \in 1..Len(q) : q[i].t = "users"}
  <1>1. Leads(q, online[c], users)
    BY DEF UsersInv
  <1>2. CASE U = {}
    BY <1>1, <1>2 DEF Leads
  <1>3. CASE U # {}
    <2>1. PICK i \in U : q[i].users = users /\ \A j \in U : j <= i
      BY <1>1, <1>3 DEF Leads
    <2> DEFINE k == CHOOSE n \in U : \A j \in U : j <= n
    <2>2. k \in U /\ \A j \in U : j <= k
      BY <2>1
    <2>3. U \subseteq Nat
      BY SocketType DEF TypeOK
    <2>4. k = i
      <3> HIDE DEF k, U
      <3>1. k <= i /\ i <= k
        BY <2>1, <2>2
      <3>2. QED
        BY <2>1, <2>2, <2>3, <3>1
    <2>5. QED
      BY <1>3, <2>1, <2>4
  <1>4. QED
    BY <1>2, <1>3

\* A user list at the end of a queue is the one the page will show.
LEMMA LeadsAppendUsers ==
    ASSUME NEW q \in Seq(DownPackets), NEW o, NEW u \in SUBSET Sockets
    PROVE  Leads(Append(q, UsersUpdate(u)), o, u)
  <1> DEFINE r == Append(q, UsersUpdate(u))
  <1>1. Len(q) \in Nat /\ Len(r) = Len(q) + 1 /\ r[Len(q) + 1] = UsersUpdate(u)
    OBVIOUS
  <1>2. UsersUpdate(u).t = "users" /\ UsersUpdate(u).users = u
    BY DEF UsersUpdate
  <1>3. Len(r) \in 1..Len(r) /\ \A j \in 1..Len(r) : j <= Len(r)
    BY <1>1
  <1>4. QED
    BY <1>1, <1>2, <1>3 DEF Leads

\* A SyncStep2 does not touch the user list.
LEMMA LeadsAppendStep2 ==
    ASSUME NEW q \in Seq(DownPackets), NEW o, NEW u, NEW U \in SUBSET Ops, Leads(q, o, u)
    PROVE  Leads(Append(q, Step2(U)), o, u)
  <1> DEFINE r == Append(q, Step2(U))
  <1>1. Len(q) \in Nat /\ Len(r) = Len(q) + 1 /\ r[Len(q) + 1] = Step2(U)
    OBVIOUS
  <1>2. \A i \in 1..Len(q) : i \in 1..Len(r) /\ r[i] = q[i]
    BY <1>1
  <1>3. \A i \in 1..Len(r) : r[i].t = "users" => i \in 1..Len(q)
    BY <1>1 DEF Step2
  <1>4. QED
    BY <1>2, <1>3 DEF Leads

\* The page takes the first packet.
LEMMA LeadsTail ==
    ASSUME NEW q \in Seq(DownPackets), q # <<>>, NEW o, NEW u, Leads(q, o, u)
    PROVE  /\ Head(q).t = "users" => Leads(Tail(q), Head(q).users, u)
           /\ Head(q).t # "users" => Leads(Tail(q), o, u)
  <1> DEFINE r == Tail(q)
  <1>1. /\ Len(q) \in Nat \ {0} /\ Len(r) = Len(q) - 1 /\ Head(q) = q[1]
        /\ \A i \in 1..Len(r) : r[i] = q[i + 1] /\ i + 1 \in 1..Len(q)
    OBVIOUS
  <1>2. \A i \in 1..Len(q) : i # 1 => i - 1 \in 1..Len(r) /\ r[i - 1] = q[i]
    BY <1>1
  <1>3. CASE \A i \in 1..Len(q) : q[i].t # "users"
    <2>1. o = u /\ Head(q).t # "users" /\ \A i \in 1..Len(r) : r[i].t # "users"
      BY <1>1, <1>3 DEF Leads
    <2>2. QED
      BY <2>1 DEF Leads
  <1>4. CASE ~\A i \in 1..Len(q) : q[i].t # "users"
    <2>1. PICK i \in 1..Len(q) : /\ q[i].t = "users" /\ q[i].users = u
                                 /\ \A j \in 1..Len(q) : q[j].t = "users" => j <= i
      BY <1>4 DEF Leads
    <2>2. CASE i = 1
      <3>1. \A j \in 1..Len(r) : r[j].t # "users"
        BY <1>1, <2>1, <2>2
      <3>2. QED
        BY <1>1, <2>1, <2>2, <3>1 DEF Leads
    <2>3. CASE i # 1
      <3>1. i - 1 \in 1..Len(r) /\ r[i - 1].t = "users" /\ r[i - 1].users = u
        BY <1>2, <2>1, <2>3
      <3>2. \A j \in 1..Len(r) : r[j].t = "users" => j <= i - 1
        BY <1>1, <2>1
      <3>3. QED
        BY <3>1, <3>2 DEF Leads
    <2>4. QED
      BY <2>2, <2>3
  <1>5. QED
    BY <1>3, <1>4

\* Telling all users who they are makes all lists right.
LEMMA UsersInvTold ==
    ASSUME TypeOK, NEW u \in SUBSET Sockets, users' = u,
           down' = Broadcast(u, UsersUpdate(u)), UNCHANGED <<cur, online>>
    PROVE  UsersInv'
  <1> SUFFICES ASSUME NEW c \in Clients, Connected(c), Socket(c) \in u
               PROVE  Leads(down'[Socket(c)], online'[c], u)
    BY DEF UsersInv, Connected, Socket
  <1>1. Socket(c) \in Sockets /\ cur[Owner(Socket(c))] = Socket(c)[2]
    BY SocketType DEF Socket, Owner
  <1>2. down[Socket(c)] \in Seq(DownPackets)
    BY <1>1 DEF TypeOK
  <1>3. down'[Socket(c)] = Append(down[Socket(c)], UsersUpdate(u))
    BY <1>1 DEF Broadcast
  <1>4. QED
    BY <1>2, <1>3, LeadsAppendUsers

\* Sending a document to the room leaves the lists as they are.
LEMMA UsersInvStep2 ==
    ASSUME TypeOK, UsersInv, NEW U \in SUBSET Ops,
           down' = Broadcast(users, Step2(U)), UNCHANGED <<users, cur, online>>
    PROVE  UsersInv'
  <1> SUFFICES ASSUME NEW c \in Clients, Connected(c), Socket(c) \in users
               PROVE  Leads(down'[Socket(c)], online[c], users)
    BY DEF UsersInv, Connected, Socket
  <1>1. Socket(c) \in Sockets
    BY SocketType
  <1>2. down[Socket(c)] \in Seq(DownPackets) /\ Leads(down[Socket(c)], online[c], users)
    BY <1>1 DEF TypeOK, UsersInv
  <1>3. down'[Socket(c)] \in {down[Socket(c)], Append(down[Socket(c)], Step2(U))}
    BY <1>1 DEF Broadcast
  <1>4. QED
    BY <1>2, <1>3, LeadsAppendStep2

\* A page handles the next packet.
LEMMA UsersInvTake ==
    ASSUME TypeOK, UsersInv, NEW c \in Clients, NEW t, Arrives(c, t), Take(c),
           UNCHANGED <<users, cur>>,
           online' = IF t = "users"
                     THEN [online EXCEPT ![c] = Head(down[Socket(c)]).users] ELSE online
    PROVE  UsersInv'
  <1> SUFFICES ASSUME NEW d \in Clients, Connected(d), Socket(d) \in users
               PROVE  Leads(down'[Socket(d)], online'[d], users)
    BY DEF UsersInv, Connected, Socket
  <1>1. Socket(d) \in Sockets /\ Socket(c) \in Sockets
    BY SocketType DEF Arrives
  <1>2. Leads(down[Socket(d)], online[d], users)
    BY DEF UsersInv
  <1>3. CASE d = c
    <2>1. down[Socket(c)] \in Seq(DownPackets) /\ down[Socket(c)] # <<>>
          /\ Head(down[Socket(c)]).t = t
      BY <1>1 DEF TypeOK, Arrives
    <2>2. down'[Socket(c)] = Tail(down[Socket(c)])
      BY <1>1 DEF Take, TypeOK
    <2>3. online'[c] = IF t = "users" THEN Head(down[Socket(c)]).users ELSE online[c]
      BY DEF TypeOK
    <2>4. QED
      BY <1>2, <1>3, <2>1, <2>2, <2>3, LeadsTail
  <1>4. CASE d # c
    <2>1. Socket(d) # Socket(c)
      BY <1>4 DEF Socket
    <2>2. down'[Socket(d)] = down[Socket(d)] /\ online'[d] = online[d]
      BY <1>1, <1>4, <2>1 DEF Take, TypeOK
    <2>3. QED
      BY <1>2, <2>2
  <1>5. QED
    BY <1>3, <1>4

\* The lists are right initially: nobody is there.
LEMMA UsersInvInit == Init => UsersInv
  BY DEF Init, UsersInv

\* Every step keeps the lists right.
LEMMA UsersInvStep == TypeOK /\ RoomInv /\ UsersInv /\ [Next]_vars => UsersInv'
  <1> SUFFICES ASSUME TypeOK, RoomInv, UsersInv, [Next]_vars
               PROVE  UsersInv'
    OBVIOUS
  <1> USE DEF serverVars, diskVars, clientVars, faults, deletion
  <1>1. ASSUME NEW s \in Sockets, HandleJoin(s)
        PROVE  UsersInv'
    <2>1. CASE roomOpen
      <3>1. users \cup {s} \in SUBSET Sockets
        BY DEF TypeOK
      <3>2. QED
        BY <1>1, <2>1, <3>1, UsersInvTold DEF HandleJoin, Enter
    <2>2. CASE ~roomOpen
      BY <1>1, <2>2 DEF HandleJoin, UsersInv, Connected, Socket
    <2>3. QED
      BY <2>1, <2>2
  <1>2. ASSUME NEW s \in Sockets, JoinLoaded(s)
        PROVE  UsersInv'
    <2>1. users \cup {s} \in SUBSET Sockets
      BY DEF TypeOK
    <2>2. QED
      BY <1>2, <2>1, UsersInvTold DEF JoinLoaded, Enter
  <1>3. ASSUME NEW s \in Sockets, IgnoreMessage(s)
        PROVE  UsersInv'
    BY <1>3 DEF IgnoreMessage, UsersInv, Connected, Socket
  <1>4. ASSUME NEW s \in Sockets, HandleStep1(s)
        PROVE  UsersInv'
    <2>1. roomDoc \ Head(up[s]).ops \in SUBSET Ops
      BY DEF TypeOK
    <2>2. QED
      BY <1>4, <2>1, UsersInvStep2 DEF HandleStep1
  <1>5. ASSUME NEW U \in SUBSET Ops, NEW f, ApplyToRoom(U, f), UNCHANGED <<users, cur, online>>
        PROVE  UsersInv'
    <2>1. roomDoc' \in SUBSET Ops
      BY <1>5 DEF ApplyToRoom, ApplyUpdate, TypeOK
    <2>2. CASE down' = down
      BY <1>5, <2>2 DEF UsersInv, Connected, Socket
    <2>3. CASE down' = Broadcast(users, Step2(roomDoc'))
      BY <1>5, <2>1, <2>3, UsersInvStep2
    <2>4. QED
      BY <1>5, <2>2, <2>3 DEF ApplyToRoom
  <1>6. ASSUME NEW s \in Sockets, HandleUpdate(s)
        PROVE  UsersInv'
    <2>1. Head(up[s]).ops \in SUBSET Ops
      BY <1>6, DispatchType DEF HandleUpdate
    <2>2. ApplyToRoom(Head(up[s]).ops, file) /\ UNCHANGED <<users, cur, online>>
      BY <1>6 DEF HandleUpdate
    <2>3. QED
      BY <1>5, <2>1, <2>2
  <1>7. ASSUME NEW s \in Sockets, Disconnect(s)
        PROVE  UsersInv'
    <2>1. CASE Ignored(s)
      BY <1>7, <2>1 DEF Disconnect, UsersInv, Connected, Socket
    <2>2. CASE ~Ignored(s)
      <3>1. users \ {s} \in SUBSET Sockets
        BY DEF TypeOK
      <3>2. QED
        BY <1>7, <2>2, <3>1, UsersInvTold DEF Disconnect
    <2>3. QED
      BY <2>1, <2>2
  <1>8. CASE Ends
    BY <1>8, EndsEffect DEF ProcessEnds, UsersInv
  <1>9. CASE History
    <2>1. CASE DiskOnly
      BY <2>1, DiskOnlyEffect DEF UsersInv, Connected, Socket
    <2>2. ASSUME NEW k \in saved, Restore(k)
          PROVE  UsersInv'
      <3>1. k.ops \in SUBSET Ops /\ UNCHANGED <<users, cur, online>>
        BY <2>2 DEF TypeOK, Restore
      <3>2. CASE ApplyToRoom(k.ops, k.ops)
        BY <1>5, <3>1, <3>2
      <3>3. CASE down' = down
        BY <3>1, <3>3 DEF UsersInv, Connected, Socket
      <3>4. QED
        BY <2>2, <3>2, <3>3 DEF Restore
    <2>3. QED
      BY <1>8, <1>9, <2>1, <2>2, HistoryCases
  <1>10. ASSUME NEW c \in Clients, Connect(c)
        PROVE  UsersInv'
    <2>1. <<c, conns[c] + 1>> \notin users
      BY <1>10, FreshSocket
    <2>2. \A d \in Clients : cur'[d] = IF d = c THEN conns[c] + 1 ELSE cur[d]
      BY <1>10 DEF Connect, TypeOK
    <2>3. UNCHANGED <<users, down, online>>
      BY <1>10 DEF Connect
    <2>4. QED
      BY <2>1, <2>2, <2>3 DEF UsersInv, Connected, Socket
  <1>11. ASSUME NEW c \in Clients, Edit(c)
        PROVE  UsersInv'
    BY <1>11 DEF Edit, UsersInv, Connected, Socket
  <1>12. ASSUME NEW c \in Clients, ReceiveStep2(c)
        PROVE  UsersInv'
    BY <1>12, UsersInvTake DEF ReceiveStep2
  <1>13. ASSUME NEW c \in Clients, ReceiveUsers(c)
        PROVE  UsersInv'
    BY <1>13, UsersInvTake DEF ReceiveUsers
  <1>14. ASSUME NEW c \in Clients, ConnectionLost(c) \/ Destroy(c)
        PROVE  UsersInv'
    <2>1. \A d \in Clients : cur'[d] = IF d = c THEN 0 ELSE cur[d]
      BY <1>14 DEF ConnectionLost, Destroy, TypeOK
    <2>2. UNCHANGED <<users, online>>
      BY <1>14 DEF ConnectionLost, Destroy
    <2>3. \A d \in Clients : d # c /\ Connected(d) => down'[Socket(d)] = down[Socket(d)]
      <3> SUFFICES ASSUME NEW d \in Clients, d # c, Connected(d)
                   PROVE  down'[Socket(d)] = down[Socket(d)]
        OBVIOUS
      <3>1. Socket(d) \in Sockets /\ Socket(d) # Socket(c)
        BY SocketType DEF Socket
      <3>2. QED
        BY <1>14, <3>1 DEF ConnectionLost, Destroy, TypeOK
    <2>4. QED
      BY <2>1, <2>2, <2>3 DEF UsersInv, Connected, Socket
  <1>15. CASE UNCHANGED vars
    BY <1>15 DEF vars, UsersInv, Connected, Socket
  <1>16. QED
    BY <1>1, <1>2, <1>3, <1>4, <1>6, <1>7, <1>8, <1>9, <1>10, <1>11, <1>12, <1>13,
       <1>14, <1>15 DEF Next, ServerStep, Ends, Receive

\* The user list a page in the room shows is, once the packets under way have
\* arrived, the list of the room, whatever joins, disconnects, late losses and
\* crashes there were.
THEOREM OnlineAccurateHolds == Spec => []OnlineAccurate
  <1>1. QED
    BY TypeCorrect, RoomInvInit, RoomInvStep, UsersInvInit, UsersInvStep,
       UsersInvGivesOnlineAccurate, PTL DEF Spec

-----------------------------------------------------------------------------
(* What a page shows of others is saved.                                   *)

\* Where items are: in versions and snapshots; on the way to the pages; at
\* or beyond the server; on the way from page c to the server; anywhere but
\* with page d; anywhere.
Kept == UNION {k.ops : k \in saved}
Told == UNION {OpsIn(down[s]) : s \in Sockets}
Hub == roomDoc \cup file \cup Kept \cup Told
Sent(c) == OpsIn(buf[c]) \cup UNION {OpsIn(up[<<c, k>>]) : k \in 1..MaxConn}
Out(d) == Hub \cup UNION {doc[c] \cup Sent(c) : c \in Clients \ {d}}
World == Hub \cup UNION {doc[c] \cup Sent(c) : c \in Clients}

\* Items are identified by their author and clock, which has reached theirs.
IdInv ==
    /\ \A o \in World : o.n <= edits[o.cl]
    /\ \A o, p \in World : Id(o) = Id(p) => o = p

\* A page shows all its own items.
OwnInv ==
    \A d \in Clients : page[d] = "open" =>
        \A n \in 1..edits[d] : <<d, n>> \in IdsOf(Integrated(doc[d]))

\* An item refers to an earlier item of the same page or to one that is saved.
LeftInv ==
    \A o \in World : \/ o.left = Root
                     \/ o.left[1] = o.cl /\ o.left[2] < o.n
                     \/ o.left \in IdsOf(Integrated(file))

\* A page's items are in a queue in the order of their clocks.
InOrder(d, q) ==
    \A i, j \in 1..Len(q) : \A o \in q[i].ops, p \in q[j].ops :
        (i < j /\ Carries(q[i]) /\ Carries(q[j]) /\ o.cl = d /\ p.cl = d) => o.n < p.n

\* A page uses one socket at a time.
LiveInv ==
    /\ \A s \in Sockets : up[s] # <<>> => srv[s] = "open"
    /\ \A c \in Clients : \A j, k \in 1..MaxConn :
          (srv[<<c, j>>] = "open" /\ srv[<<c, k>>] = "open") => j = k
    /\ \A c \in Clients : Connected(c) => page[c] = "open" /\ buf[c] = <<>>

\* A page's items are sent in the order of their clocks.
OrderInv ==
    /\ \A c \in Clients : InOrder(c, buf[c]) /\ \A k \in 1..MaxConn : InOrder(c, up[<<c, k>>])
    /\ \A c \in Clients : \A k \in 1..MaxConn : \A o \in OpsIn(up[<<c, k>>]), p \in OpsIn(buf[c]) :
          (o.cl = c /\ p.cl = c) => o.n < p.n

SendInv == LiveInv /\ OrderInv

\* The item with clock k of page d is nowhere but with its page, which will not
\* send it again.
Lost(d, k) == <<d, k>> \notin IdsOf(Out(d) \cup Sent(d))

\* An item that has left its page is saved, or waits for one that is lost.
GapInv ==
    \A d \in Clients : \A o \in Out(d) : o.cl = d =>
        o \in Integrated(file) \/ \E k \in 1..o.n - 1 : Lost(d, k)

SeenInv == IdInv /\ OwnInv /\ LeftInv /\ SendInv /\ GapInv

\* What a longer and a shorter queue carry.
LEMMA OpsInBounds ==
    ASSUME NEW P, NEW q \in Seq(P), NEW packet \in P
    PROVE  /\ OpsIn(<<>>) = {}
           /\ Carries(packet) => OpsIn(Append(q, packet)) \subseteq OpsIn(q) \cup packet.ops
           /\ ~Carries(packet) => OpsIn(Append(q, packet)) \subseteq OpsIn(q)
           /\ q # <<>> => /\ OpsIn(Tail(q)) \subseteq OpsIn(q)
                          /\ Carries(Head(q)) => Head(q).ops \subseteq OpsIn(q)
  <1>1. OpsIn(<<>>) = {}
    BY DEF OpsIn
  <1>2. \A o \in OpsIn(Append(q, packet)) :
           o \in OpsIn(q) \/ (Carries(packet) /\ o \in packet.ops)
    <2> SUFFICES ASSUME NEW o \in OpsIn(Append(q, packet))
                 PROVE  o \in OpsIn(q) \/ (Carries(packet) /\ o \in packet.ops)
      OBVIOUS
    <2> DEFINE r == Append(q, packet)
    <2>1. Len(q) \in Nat /\ Len(r) = Len(q) + 1 /\ r[Len(q) + 1] = packet
      OBVIOUS
    <2>2. PICK i \in 1..Len(r) : Carries(r[i]) /\ o \in r[i].ops
      BY DEF OpsIn, Carries
    <2>3. CASE i = Len(q) + 1
      BY <2>1, <2>2, <2>3
    <2>4. CASE i # Len(q) + 1
      <3>1. i \in 1..Len(q) /\ r[i] = q[i]
        BY <2>1, <2>4
      <3>2. QED
        BY <2>2, <3>1, OpsInMember
    <2>5. QED
      BY <2>3, <2>4
  <1>3. ASSUME q # <<>>
        PROVE  /\ OpsIn(Tail(q)) \subseteq OpsIn(q)
               /\ Carries(Head(q)) => Head(q).ops \subseteq OpsIn(q)
    <2>1. /\ Len(q) \in Nat \ {0} /\ Len(Tail(q)) = Len(q) - 1 /\ Head(q) = q[1]
          /\ \A i \in 1..Len(Tail(q)) : Tail(q)[i] = q[i + 1] /\ i + 1 \in 1..Len(q)
      BY <1>3
    <2>2. ASSUME NEW o \in OpsIn(Tail(q))
          PROVE  o \in OpsIn(q)
      <3>1. PICK i \in 1..Len(Tail(q)) : Carries(Tail(q)[i]) /\ o \in Tail(q)[i].ops
        BY DEF OpsIn, Carries
      <3>2. QED
        BY <2>1, <3>1, OpsInMember
    <2>3. 1 \in 1..Len(q)
      BY <2>1
    <2>4. QED
      BY <2>1, <2>2, <2>3, OpsInMember
  <1>4. QED
    BY <1>1, <1>2, <1>3

\* What a page sends when it connects carries the items of the send buffer.
LEMMA OpsInConnect ==
    ASSUME NEW P, NEW q \in Seq(P), NEW sv
    PROVE  OpsIn(q \o <<Join, Step1(sv)>>) \subseteq OpsIn(q)
  <1> DEFINE r == q \o <<Join, Step1(sv)>>
  <1> SUFFICES ASSUME NEW o \in OpsIn(r)
               PROVE  o \in OpsIn(q)
    OBVIOUS
  <1>1. Len(q) \in Nat /\ Len(r) = Len(q) + 2
    OBVIOUS
  <1>2. /\ \A i \in 1..Len(q) : r[i] = q[i]
        /\ r[Len(q) + 1] = Join /\ r[Len(q) + 2] = Step1(sv)
    OBVIOUS
  <1>3. PICK i \in 1..Len(r) : Carries(r[i]) /\ o \in r[i].ops
    BY DEF OpsIn, Carries
  <1>4. ~Carries(Join) /\ ~Carries(Step1(sv))
    BY DEF Join, Step1, Carries
  <1>5. i \in 1..Len(q)
    BY <1>1, <1>2, <1>3, <1>4
  <1>6. QED
    BY <1>2, <1>3, <1>5, OpsInMember

\* What a broadcast adds to a queue.
LEMMA BroadcastBound ==
    ASSUME TypeOK, NEW members, NEW packet \in DownPackets, NEW s \in Sockets
    PROVE  /\ Carries(packet) =>
                 OpsIn(Broadcast(members, packet)[s]) \subseteq OpsIn(down[s]) \cup packet.ops
           /\ ~Carries(packet) =>
                 OpsIn(Broadcast(members, packet)[s]) \subseteq OpsIn(down[s])
  <1>1. down[s] \in Seq(DownPackets)
    BY DEF TypeOK
  <1>2. Broadcast(members, packet)[s] \in {down[s], Append(down[s], packet)}
    BY DEF Broadcast
  <1>3. QED
    BY <1>1, <1>2, OpsInBounds

\* Bounds on where items are after a step.
LEMMA HubBound ==
    ASSUME NEW X, roomDoc' \subseteq X, file' \subseteq X,
           \A k \in saved' : k.ops \subseteq X,
           \A s \in Sockets : OpsIn(down'[s]) \subseteq X
    PROVE  Hub' \subseteq X
  <1>1. Kept' \subseteq X
    BY Zenon DEF Kept
  <1>2. Told' \subseteq X
    BY DEF Told
  <1>3. QED
    BY <1>1, <1>2 DEF Hub

\* The same for what is on the way from a page.
LEMMA SentBound ==
    ASSUME NEW c, NEW X, OpsIn(buf'[c]) \subseteq X,
           \A k \in 1..MaxConn : OpsIn(up'[<<c, k>>]) \subseteq X
    PROVE  Sent(c)' \subseteq X
  BY DEF Sent

\* The parts of the places.
LEMMA Parts ==
    /\ roomDoc \subseteq Hub /\ file \subseteq Hub
    /\ \A k \in saved : k.ops \subseteq Hub
    /\ \A s \in Sockets : OpsIn(down[s]) \subseteq Hub
    /\ \A c \in Clients : OpsIn(buf[c]) \subseteq Sent(c)
    /\ \A c \in Clients : \A k \in 1..MaxConn : OpsIn(up[<<c, k>>]) \subseteq Sent(c)
    /\ \A d \in Clients : Hub \subseteq Out(d) /\ Out(d) \subseteq World /\ Sent(d) \subseteq World
    /\ \A d \in Clients : \A c \in Clients \ {d} : doc[c] \subseteq Out(d) /\ Sent(c) \subseteq Out(d)
    /\ \A d \in Clients : doc[d] \subseteq World
  <1>1. roomDoc \subseteq Hub /\ file \subseteq Hub
    BY DEF Hub
  <1>2. \A k \in saved : k.ops \subseteq Hub
    BY Zenon DEF Hub, Kept
  <1>3. \A s \in Sockets : OpsIn(down[s]) \subseteq Hub
    BY Zenon DEF Hub, Told
  <1>4. \A c \in Clients : OpsIn(buf[c]) \subseteq Sent(c)
    BY DEF Sent
  <1>5. \A c \in Clients : \A k \in 1..MaxConn : OpsIn(up[<<c, k>>]) \subseteq Sent(c)
    BY DEF Sent
  <1>6. \A d \in Clients : Hub \subseteq Out(d) /\ Out(d) \subseteq World /\ Sent(d) \subseteq World
    BY DEF Out, World
  <1>7. \A d \in Clients : \A c \in Clients \ {d} : doc[c] \subseteq Out(d) /\ Sent(c) \subseteq Out(d)
    BY DEF Out
  <1>8. \A d \in Clients : doc[d] \subseteq World
    BY DEF World
  <1>9. QED
    BY <1>1, <1>2, <1>3, <1>4, <1>5, <1>6, <1>7, <1>8

\* What a well-typed queue carries are items.
LEMMA OpsInType ==
    /\ \A q \in Seq(UpPackets) : OpsIn(q) \subseteq Ops
    /\ \A q \in Seq(DownPackets) : OpsIn(q) \subseteq Ops
  <1>1. ASSUME NEW q \in Seq(UpPackets), NEW o \in OpsIn(q)
        PROVE  o \in Ops
    <2>1. PICK i \in 1..Len(q) : o \in q[i].ops
      BY DEF OpsIn
    <2>2. q[i] \in UpPackets
      OBVIOUS
    <2>3. QED
      BY <2>1, <2>2 DEF UpPackets
  <1>2. ASSUME NEW q \in Seq(DownPackets), NEW o \in OpsIn(q)
        PROVE  o \in Ops
    <2>1. PICK i \in 1..Len(q) : q[i].t \in {"update", "step2"} /\ o \in q[i].ops
      BY DEF OpsIn
    <2>2. q[i] \in DownPackets
      OBVIOUS
    <2>3. q[i].ops \subseteq Ops
      BY <2>1, <2>2 DEF DownPackets
    <2>4. QED
      BY <2>1, <2>3
  <1>3. QED
    BY <1>1, <1>2

\* All the places hold items.
LEMMA WorldType ==
    ASSUME TypeOK
    PROVE  World \subseteq Ops
  <1>1. Hub \subseteq Ops
    <2>1. \A s \in Sockets : OpsIn(down[s]) \subseteq Ops
      BY OpsInType DEF TypeOK
    <2>2. \A k \in saved : k.ops \subseteq Ops
      BY DEF TypeOK
    <2>3. roomDoc \subseteq Ops /\ file \subseteq Ops
      BY DEF TypeOK
    <2>4. QED
      BY <2>1, <2>2, <2>3, Zenon DEF Hub, Kept, Told
  <1>2. \A c \in Clients : Sent(c) \subseteq Ops
    <2> SUFFICES ASSUME NEW c \in Clients
                 PROVE  Sent(c) \subseteq Ops
      OBVIOUS
    <2>1. OpsIn(buf[c]) \subseteq Ops
      BY OpsInType DEF TypeOK
    <2>2. \A k \in 1..MaxConn : OpsIn(up[<<c, k>>]) \subseteq Ops
      BY OpsInType DEF TypeOK, Sockets
    <2>3. QED
      BY <2>1, <2>2 DEF Sent
  <1>3. QED
    BY <1>1, <1>2 DEF World, TypeOK

\* Of a set of numbers that is not empty one is the least.
LEMMA NatLeast ==
    ASSUME NEW T \in SUBSET Nat, T # {}
    PROVE  \E x \in T : \A y \in T : x <= y
  <1>1. PICK x \in T : \A y \in T : ~(<<y, x>> \in OpToRel(<, Nat))
    BY NatLessThanWellFounded, WFMin, Zenon
  <1>2. \A y \in T : ~(y < x)
    BY <1>1 DEF OpToRel
  <1>3. QED
    BY <1>2

\* A closed set of items has the earlier items of the pages whose items it has.
LEMMA ClosedBelow ==
    ASSUME NEW S \in SUBSET Ops, Closed(S), NEW o \in S, NEW k \in 1..o.n
    PROVE  <<o.cl, k>> \in IdsOf(S)
  <1> DEFINE T == {n \in Nat : n >= k /\ <<o.cl, n>> \in IdsOf(S)}
  <1>1. o.n \in 1..MaxEdits /\ \A p \in S : p.n \in 1..MaxEdits
    BY DEF Ops
  <1>2. o.n \in T
    BY <1>1, MaxEditsAssumption DEF IdsOf, Id
  <1>3. PICK m \in T : \A y \in T : m <= y
    <2> HIDE DEF T
    <2>1. T \in SUBSET Nat
      BY DEF T
    <2>2. QED
      BY <1>2, <2>1, NatLeast
  <1>4. PICK p \in S : p.cl = o.cl /\ p.n = m
    BY <1>3 DEF IdsOf, Id
  <1>5. CASE m = k
    BY <1>5, <1>4 DEF IdsOf, Id
  <1>6. CASE m # k
    <2>1. m > k /\ m # 1 /\ m - 1 \in Nat /\ m - 1 >= k
      BY <1>6, <1>3
    <2>2. PICK r \in S : r.cl = p.cl /\ r.n = p.n - 1
      BY <1>4, <2>1 DEF Closed
    <2>3. m - 1 \in T
      BY <1>4, <2>1, <2>2 DEF IdsOf, Id
    <2>4. QED
      BY <1>3, <2>1, <2>3
  <1>7. QED
    BY <1>5, <1>6

\* Bounds on the items anywhere but with page d, and anywhere, after a step.
LEMMA OutBound ==
    ASSUME NEW d \in Clients, NEW X, Hub' \subseteq X,
           \A c \in Clients \ {d} : doc'[c] \subseteq X /\ Sent(c)' \subseteq X
    PROVE  Out(d)' \subseteq X
  BY DEF Out

\* The same for all the places.
LEMMA WorldBound ==
    ASSUME NEW X, Hub' \subseteq X, \A c \in Clients : doc'[c] \subseteq X /\ Sent(c)' \subseteq X
    PROVE  World' \subseteq X
  BY DEF World

\* The invariant gives what it is for: an item that a page shows waits for none.
LEMMA SeenInvSaves ==
    ASSUME TypeOK, SeenInv, NEW c \in Clients, NEW o \in Integrated(doc[c]), o.cl # c
    PROVE  o \in Integrated(file)
  <1> DEFINE I == Integrated(doc[c])
  <1>1. I \subseteq doc[c] /\ doc[c] \subseteq Ops
    BY IntegratedKnown DEF TypeOK
  <1>2. I \in SUBSET Ops /\ Closed(I) /\ o \in I
    BY <1>1, IntegratedClosed
  <1>3. o.cl \in Clients /\ o.n \in 1..MaxEdits
    BY <1>2 DEF Ops
  <1>4. I \subseteq Out(o.cl)
    BY <1>1, <1>3, Parts
  <1>5. ASSUME NEW k \in 1..o.n - 1, Lost(o.cl, k)
        PROVE  FALSE
    <2>1. k \in 1..o.n
      BY <1>3, MaxEditsAssumption
    <2> HIDE DEF I
    <2>2. <<o.cl, k>> \in IdsOf(I)
      BY <1>2, <2>1, ClosedBelow
    <2>3. QED
      BY <1>4, <1>5, <2>2 DEF Lost, IdsOf
  <1>6. QED
    BY <1>2, <1>3, <1>4, <1>5 DEF SeenInv, GapInv

\* A step after which no item is where it was not before, except that items of
\* the others are with a page, keeps what the invariant says of the items.
LEMMA NoNewKeeps ==
    ASSUME IdInv, OwnInv, LeftInv, GapInv,
           World' \subseteq World,
           \A d \in Clients : Out(d)' \subseteq Out(d),
           \A d \in Clients : \A o \in Sent(d)' : o.cl = d => o \in Out(d) \cup Sent(d),
           Integrated(file) \subseteq Integrated(file'),
           edits' = edits,
           \A d \in Clients : page'[d] = "open" => page[d] = "open" /\ doc[d] \subseteq doc'[d]
    PROVE  IdInv' /\ OwnInv' /\ LeftInv' /\ GapInv'
  <1>1. IdInv'
    BY DEF IdInv
  <1>2. OwnInv'
    <2> SUFFICES ASSUME NEW d \in Clients, page'[d] = "open", NEW n \in 1..edits[d]
                 PROVE  <<d, n>> \in IdsOf(Integrated(doc'[d]))
      BY DEF OwnInv
    <2>1. <<d, n>> \in IdsOf(Integrated(doc[d]))
      BY DEF OwnInv
    <2>2. Integrated(doc[d]) \subseteq Integrated(doc'[d])
      BY IntegratedMonotone
    <2>3. QED
      BY <2>1, <2>2 DEF IdsOf
  <1>3. LeftInv'
    BY DEF LeftInv, IdsOf
  <1>4. GapInv'
    <2> SUFFICES ASSUME NEW d \in Clients, NEW o \in Out(d)', o.cl = d, o \notin Integrated(file')
                 PROVE  \E k \in 1..o.n - 1 : Lost(d, k)'
      BY DEF GapInv
    <2>1. PICK k \in 1..o.n - 1 : Lost(d, k)
      BY DEF GapInv
    <2>2. \A p \in (Out(d) \cup Sent(d))' : Id(p) # <<d, k>>
      BY <2>1 DEF Lost, IdsOf, Id
    <2>3. Lost(d, k)'
      BY <2>2 DEF Lost, IdsOf
    <2>4. QED
      BY <2>3
  <1>5. QED
    BY <1>1, <1>2, <1>3, <1>4

\* A step after which every place holds at most what it held before.
LEMMA QuietKeeps ==
    ASSUME IdInv, OwnInv, LeftInv, GapInv,
           Hub' \subseteq Hub,
           \A c \in Clients : Sent(c)' \subseteq Sent(c) /\ doc'[c] \subseteq doc[c],
           Integrated(file) \subseteq Integrated(file'),
           edits' = edits,
           \A d \in Clients : page'[d] = "open" => page[d] = "open" /\ doc'[d] = doc[d]
    PROVE  IdInv' /\ OwnInv' /\ LeftInv' /\ GapInv'
  <1>1. World' \subseteq World
    BY WorldBound, Parts DEF World
  <1>2. \A d \in Clients : Out(d)' \subseteq Out(d)
    <2> SUFFICES ASSUME NEW d \in Clients PROVE Out(d)' \subseteq Out(d)
      OBVIOUS
    <2>1. /\ Hub' \subseteq Out(d)
          /\ \A c \in Clients \ {d} : doc'[c] \subseteq Out(d) /\ Sent(c)' \subseteq Out(d)
      BY DEF Out
    <2>2. QED
      BY <2>1, OutBound
  <1>3. QED
    BY <1>1, <1>2, NoNewKeeps

\* Handling a packet adds nothing to what is on the way to the server.
LEMMA SentConsume ==
    ASSUME TypeOK, NEW s \in Sockets, up[s] # <<>>, Consume(s), buf' = buf
    PROVE  \A c \in Clients : Sent(c)' \subseteq Sent(c)
  <1> SUFFICES ASSUME NEW c \in Clients PROVE Sent(c)' \subseteq Sent(c)
    OBVIOUS
  <1>1. up[s] \in Seq(UpPackets) /\ up \in [Sockets -> Seq(UpPackets)]
    BY DEF TypeOK
  <1>2. \A k \in 1..MaxConn : up'[<<c, k>>] = up[<<c, k>>] \/ (<<c, k>> = s /\ up'[s] = Tail(up[s]))
    BY <1>1 DEF Consume, Sockets
  <1>3. OpsIn(Tail(up[s])) \subseteq OpsIn(up[s])
    BY <1>1, OpsInBounds
  <1>4. \A k \in 1..MaxConn : OpsIn(up'[<<c, k>>]) \subseteq OpsIn(up[<<c, k>>])
    BY <1>1, <1>2, <1>3
  <1>5. \A k \in 1..MaxConn : OpsIn(up'[<<c, k>>]) \subseteq Sent(c)
    BY <1>4, Parts
  <1>6. OpsIn(buf'[c]) \subseteq Sent(c)
    BY Parts
  <1>7. QED
    BY <1>5, <1>6, SentBound

\* A broadcast of what the server has adds nothing to what it has.
LEMMA ToldBound ==
    ASSUME TypeOK, NEW members, NEW packet \in DownPackets, NEW X, Hub \subseteq X,
           Carries(packet) => packet.ops \subseteq X
    PROVE  \A s \in Sockets : OpsIn(Broadcast(members, packet)[s]) \subseteq X
  <1> SUFFICES ASSUME NEW s \in Sockets
               PROVE  OpsIn(Broadcast(members, packet)[s]) \subseteq X
    OBVIOUS
  <1>1. OpsIn(down[s]) \subseteq X
    BY Parts
  <1>2. QED
    BY <1>1, BroadcastBound

\* The user list carries no items.
LEMMA UsersCarryNothing ==
    ASSUME NEW u \in SUBSET Sockets
    PROVE  UsersUpdate(u) \in DownPackets /\ ~Carries(UsersUpdate(u))
  BY DEF UsersUpdate, DownPackets, Carries

\* The steps in which nothing is sent by a page leave every place with at most
\* what it held.
LEMMA QuietServer ==
    ASSUME TypeOK, NEW s \in Sockets,
           \/ HandleJoin(s) \/ JoinLoaded(s) \/ IgnoreMessage(s) \/ HandleStep1(s)
           \/ Disconnect(s)
    PROVE  Hub' \subseteq Hub /\ \A c \in Clients : Sent(c)' \subseteq Sent(c)
  <1> USE DEF serverVars, diskVars, clientVars, faults, deletion
  <1>0. /\ \A k \in saved : k.ops \subseteq Hub
        /\ roomDoc \subseteq Hub /\ file \subseteq Hub
        /\ \A t \in Sockets : OpsIn(down[t]) \subseteq Hub
    BY Parts
  <1>1. CASE HandleJoin(s)
    <2>1. \A c \in Clients : Sent(c)' \subseteq Sent(c)
      BY <1>1, SentConsume DEF HandleJoin, Dispatches
    <2>2. roomDoc' = roomDoc /\ file' = file /\ saved' = saved
      BY <1>1 DEF HandleJoin
    <2>3. \A t \in Sockets : OpsIn(down'[t]) \subseteq Hub
      <3>1. users \cup {s} \in SUBSET Sockets
        BY DEF TypeOK
      <3>2. down' = down \/ down' = Broadcast(users \cup {s}, UsersUpdate(users \cup {s}))
        BY <1>1 DEF HandleJoin, Enter
      <3>3. QED
        BY <1>0, <3>1, <3>2, ToldBound, UsersCarryNothing
    <2>4. QED
      BY <1>0, <2>1, <2>2, <2>3, HubBound
  <1>2. CASE JoinLoaded(s)
    <2>1. \A c \in Clients : Sent(c)' \subseteq Sent(c)
      BY <1>2 DEF JoinLoaded, Sent
    <2>2. roomDoc' = file /\ file' = file /\ saved' = saved
      BY <1>2 DEF JoinLoaded
    <2>3. \A t \in Sockets : OpsIn(down'[t]) \subseteq Hub
      <3>1. users \cup {s} \in SUBSET Sockets
        BY DEF TypeOK
      <3>2. down' = Broadcast(users \cup {s}, UsersUpdate(users \cup {s}))
        BY <1>2 DEF JoinLoaded, Enter
      <3>3. QED
        BY <3>1, <3>2, ToldBound, UsersCarryNothing
    <2>4. QED
      BY <1>0, <2>1, <2>2, <2>3, HubBound
  <1>3. CASE IgnoreMessage(s)
    <2>1. \A c \in Clients : Sent(c)' \subseteq Sent(c)
      BY <1>3, SentConsume DEF IgnoreMessage, Dispatches
    <2>2. roomDoc' = roomDoc /\ file' = file /\ saved' = saved /\ down' = down
      BY <1>3 DEF IgnoreMessage
    <2>3. QED
      BY <1>0, <2>1, <2>2, HubBound
  <1>4. CASE HandleStep1(s)
    <2>1. \A c \in Clients : Sent(c)' \subseteq Sent(c)
      BY <1>4, SentConsume DEF HandleStep1, Dispatches
    <2>2. roomDoc' = roomDoc /\ file' = file /\ saved' = saved
      BY <1>4 DEF HandleStep1
    <2>3. \A t \in Sockets : OpsIn(down'[t]) \subseteq Hub
      <3> DEFINE p == Step2(roomDoc \ Head(up[s]).ops)
      <3>1. p \in DownPackets /\ p.ops \subseteq Hub
        BY <1>0 DEF Step2, DownPackets, TypeOK
      <3>2. down' = Broadcast(users, p)
        BY <1>4 DEF HandleStep1
      <3> HIDE DEF p
      <3>3. QED
        BY <3>1, <3>2, ToldBound
    <2>4. QED
      BY <1>0, <2>1, <2>2, <2>3, HubBound
  <1>5. CASE Disconnect(s)
    <2>1. \A c \in Clients : Sent(c)' \subseteq Sent(c)
      <3> SUFFICES ASSUME NEW c \in Clients PROVE Sent(c)' \subseteq Sent(c)
        OBVIOUS
      <3>1. buf' = buf /\ \A k \in 1..MaxConn : up'[<<c, k>>] \in {up[<<c, k>>], <<>>}
        BY <1>5 DEF Disconnect, TypeOK, Sockets
      <3>2. OpsIn(<<>>) = {}
        BY DEF OpsIn
      <3>3. \A k \in 1..MaxConn : OpsIn(up'[<<c, k>>]) \subseteq OpsIn(up[<<c, k>>])
        BY <3>1, <3>2
      <3>4. QED
        BY <3>1, <3>3, Parts, SentBound
    <2>2. roomDoc' \subseteq roomDoc /\ file' = file /\ saved' = saved
      BY <1>5 DEF Disconnect
    <2>3. \A t \in Sockets : OpsIn(down'[t]) \subseteq Hub
      <3>1. users \ {s} \in SUBSET Sockets
        BY DEF TypeOK
      <3>2. down' = down \/ down' = Broadcast(users \ {s}, UsersUpdate(users \ {s}))
        BY <1>5 DEF Disconnect
      <3>3. QED
        BY <1>0, <3>1, <3>2, ToldBound, UsersCarryNothing
    <2>4. QED
      BY <1>0, <2>1, <2>2, <2>3, HubBound
  <1>6. QED
    BY <1>1, <1>2, <1>3, <1>4, <1>5

\* The same for a crash and for the history routes.
LEMMA QuietHistory ==
    ASSUME TypeOK, Ends \/ DiskOnly \/ (\E k \in saved : Restore(k)), ~setBack'
    PROVE  Hub' \subseteq Hub /\ \A c \in Clients : Sent(c)' \subseteq Sent(c)
  <1> USE DEF serverVars, diskVars, clientVars, faults, deletion
  <1>0. /\ \A k \in saved : k.ops \subseteq Hub
        /\ roomDoc \subseteq Hub /\ file \subseteq Hub
        /\ \A t \in Sockets : OpsIn(down[t]) \subseteq Hub
    BY Parts
  <1>1. CASE Ends
    <2>1. \A c \in Clients : Sent(c)' \subseteq Sent(c)
      <3> SUFFICES ASSUME NEW c \in Clients PROVE Sent(c)' \subseteq Sent(c)
        OBVIOUS
      <3>1. buf' = buf /\ \A k \in 1..MaxConn : up'[<<c, k>>] = <<>>
        BY <1>1, EndsEffect DEF ProcessEnds, Sockets
      <3>2. OpsIn(<<>>) = {}
        BY DEF OpsIn
      <3>3. \A k \in 1..MaxConn : OpsIn(up'[<<c, k>>]) \subseteq Sent(c)
        BY <3>1, <3>2
      <3>4. QED
        BY <3>1, <3>3, Parts, SentBound
    <2>2. roomDoc' = {} /\ saved' = saved
      BY <1>1, EndsEffect DEF ProcessEnds
    <2>3. file' = file /\ down' = down
      BY <1>1 DEF Ends, Crash, UpdateCutShort, JoinTorn, RestoreCutShort
    <2>4. QED
      BY <1>0, <2>1, <2>2, <2>3, HubBound
  <1>2. CASE DiskOnly
    <2>1. \A c \in Clients : Sent(c)' \subseteq Sent(c)
      BY <1>2, DiskOnlyEffect DEF Sent
    <2>2. roomDoc' = roomDoc /\ down' = down
      BY <1>2, DiskOnlyEffect
    <2>3. file' \in {file, {}}
      BY <1>2 DEF DiskOnly, Capture, RestoreFails, DeleteDocument, Unlink
    <2>4. \A k \in saved' : k.ops \subseteq Hub
      <3>1. CASE Capture
        <4>1. PICK X, b : /\ saved' = saved \cup {[ops |-> X, torn |-> b]}
                          /\ X = IF roomOpen THEN roomDoc ELSE file
          BY <3>1, CaptureAdds
        <4>2. QED
          BY <1>0, <4>1
      <3>2. CASE ~Capture
        <4>1. saved' \subseteq saved
          BY <1>2, <3>2 DEF DiskOnly, RestoreFails, DeleteDocument, Unlink
        <4>2. QED
          BY <1>0, <4>1
      <3>3. QED
        BY <3>1, <3>2
    <2>5. QED
      BY <1>0, <2>1, <2>2, <2>3, <2>4, HubBound
  <1>3. ASSUME NEW k \in saved, Restore(k)
        PROVE  Hub' \subseteq Hub /\ \A c \in Clients : Sent(c)' \subseteq Sent(c)
    <2>1. \A c \in Clients : Sent(c)' \subseteq Sent(c)
      BY <1>3 DEF Restore, Sent
    <2>2. k.ops \subseteq Hub /\ k.ops \subseteq Ops
      BY <1>0 DEF TypeOK
    <2>3. roomDoc' \subseteq Hub /\ file' \subseteq Hub /\ saved' = saved /\ roomDoc' \subseteq Ops
      BY <1>0, <1>3, <2>2 DEF Restore, ApplyToRoom, ApplyUpdate, TypeOK
    <2>4. \A t \in Sockets : OpsIn(down'[t]) \subseteq Hub
      <3> DEFINE p == Step2(roomDoc')
      <3>1. p \in DownPackets /\ p.ops \subseteq Hub
        BY <2>3 DEF Step2, DownPackets
      <3>2. down' = down \/ down' = Broadcast(users, p)
        BY <1>3 DEF Restore, ApplyToRoom
      <3> HIDE DEF p
      <3>3. QED
        BY <1>0, <3>1, <3>2, ToldBound
    <2>5. QED
      BY <1>0, <2>1, <2>3, <2>4, HubBound
  <1>4. QED
    BY <1>1, <1>2, <1>3

\* The same for the steps of a page that send no items.
LEMMA QuietPage ==
    ASSUME TypeOK, NEW c \in Clients,
           Connect(c) \/ ReceiveUsers(c) \/ ConnectionLost(c) \/ Destroy(c)
    PROVE  Hub' \subseteq Hub /\ \A d \in Clients : Sent(d)' \subseteq Sent(d)
  <1> USE DEF serverVars, diskVars, clientVars, faults, deletion
  <1>0. /\ \A k \in saved : k.ops \subseteq Hub
        /\ roomDoc \subseteq Hub /\ file \subseteq Hub
        /\ \A t \in Sockets : OpsIn(down[t]) \subseteq Hub
    BY Parts
  <1>1. roomDoc' = roomDoc /\ file' = file /\ saved' = saved
    BY DEF Connect, ReceiveUsers, ConnectionLost, Destroy
  <1>2. OpsIn(<<>>) = {}
    BY DEF OpsIn
  <1>3. CASE Connect(c)
    <2>1. down' = down
      BY <1>3 DEF Connect
    <2>2. ASSUME NEW d \in Clients PROVE Sent(d)' \subseteq Sent(d)
      <3>1. OpsIn(buf'[d]) \subseteq Sent(d)
        <4>1. buf'[d] = buf[d] \/ buf'[d] = <<>>
          BY <1>3 DEF Connect, TypeOK
        <4>2. QED
          BY <4>1, <1>2, Parts
      <3>2. ASSUME NEW k \in 1..MaxConn PROVE OpsIn(up'[<<d, k>>]) \subseteq Sent(d)
        <4>1. \/ up'[<<d, k>>] = up[<<d, k>>]
              \/ d = c /\ up'[<<d, k>>] = buf[c] \o <<Join, Step1(Integrated(doc[c]))>>
          BY <1>3 DEF Connect, TypeOK, Sockets
        <4>2. buf[c] \in Seq(UpPackets)
          BY DEF TypeOK
        <4>3. OpsIn(buf[c] \o <<Join, Step1(Integrated(doc[c]))>>) \subseteq OpsIn(buf[c])
          BY <4>2, OpsInConnect
        <4>4. QED
          BY <4>1, <4>3, Parts
      <3>3. QED
        BY <3>1, <3>2, SentBound
    <2>3. QED
      BY <1>0, <1>1, <2>1, <2>2, HubBound
  <1>4. CASE ReceiveUsers(c)
    <2>1. \A d \in Clients : Sent(d)' \subseteq Sent(d)
      BY <1>4 DEF ReceiveUsers, Sent
    <2>2. Socket(c) \in Sockets /\ down[Socket(c)] \in Seq(DownPackets) /\ down[Socket(c)] # <<>>
      BY <1>4, SocketType DEF ReceiveUsers, Arrives, TypeOK
    <2>3. \A t \in Sockets : down'[t] = down[t] \/ (t = Socket(c) /\ down'[t] = Tail(down[t]))
      BY <1>4 DEF ReceiveUsers, Take, TypeOK
    <2>4. \A t \in Sockets : OpsIn(down'[t]) \subseteq OpsIn(down[t])
      BY <2>2, <2>3, OpsInBounds
    <2>5. QED
      BY <1>0, <1>1, <2>1, <2>4, HubBound
  <1>5. CASE ConnectionLost(c) \/ Destroy(c)
    <2>1. \A t \in Sockets : down'[t] \in {down[t], <<>>}
      BY <1>5 DEF ConnectionLost, Destroy, TypeOK
    <2>2. \A t \in Sockets : OpsIn(down'[t]) \subseteq OpsIn(down[t])
      BY <2>1, <1>2
    <2>3. up' = up /\ \A d \in Clients : buf'[d] \in {buf[d], <<>>}
      BY <1>5 DEF ConnectionLost, Destroy, TypeOK
    <2>4. \A d \in Clients : OpsIn(buf'[d]) \subseteq OpsIn(buf[d])
      BY <2>3, <1>2
    <2>5. \A d \in Clients : Sent(d)' \subseteq Sent(d)
      BY <2>3, <2>4, Parts, SentBound
    <2>6. QED
      BY <1>0, <1>1, <2>2, <2>5, HubBound
  <1>6. QED
    BY <1>3, <1>4, <1>5

\* An item of a page integrates as soon as all its earlier items have.
LEMMA NextIntegrates ==
    ASSUME TypeOK, IdInv, LeftInv, NEW K \in SUBSET World,
           Integrated(file) \subseteq Integrated(K),
           NEW o \in K, \A j \in 1..o.n - 1 : <<o.cl, j>> \in IdsOf(Integrated(K))
    PROVE  o \in Integrated(K)
  <1> DEFINE B == Integrated(K)
             S == B \cup {o}
  <1>1. Closed(B) /\ B \subseteq K /\ S \in SUBSET K
    BY IntegratedClosed, IntegratedKnown
  <1>2. o \in Ops
    BY WorldType
  <1>3. o.n \in 1..MaxEdits /\ o.left \in Ids \cup {Root}
    BY <1>2 DEF Ops
  <1>4. o.n = 1 \/ \E p \in S : p.cl = o.cl /\ p.n = o.n - 1
    <2>1. CASE o.n # 1
      <3>1. o.n - 1 \in 1..o.n - 1
        BY <1>3, <2>1, MaxEditsAssumption
      <3>2. QED
        BY <3>1 DEF IdsOf, Id
    <2>2. QED
      BY <2>1
  <1>5. o.left = Root \/ o.left \in IdsOf(S)
    <2>1. CASE o.left \in IdsOf(Integrated(file))
      BY <2>1 DEF IdsOf
    <2>2. CASE o.left # Root /\ o.left[1] = o.cl /\ o.left[2] < o.n
      <3>1. o.left = <<o.cl, o.left[2]>> /\ o.left[2] \in 1..o.n - 1
        BY <1>3, <2>2, MaxEditsAssumption DEF Ids
      <3>2. QED
        BY <3>1 DEF IdsOf
    <2>3. QED
      BY <2>1, <2>2 DEF LeftInv
  <1>6. Closed(S)
    BY <1>1, <1>4, <1>5 DEF Closed, IdsOf
  <1>7. QED
    BY <1>1, <1>6, IntegratedLargest

\* What the server gets was on the way to it.
LEMMA UpdateBound ==
    ASSUME TypeOK, NEW s \in Sockets, HandleUpdate(s)
    PROVE  /\ Head(up[s]).ops \subseteq OpsIn(up[s]) /\ Head(up[s]).ops \subseteq Sent(s[1])
           /\ Hub' \subseteq Hub \cup Head(up[s]).ops
           /\ \A c \in Clients : Sent(c)' \subseteq Sent(c)
  <1> USE DEF serverVars, diskVars, clientVars, faults, deletion
  <1> DEFINE U == Head(up[s]).ops
  <1>1. /\ s[1] \in Clients /\ s[2] \in 1..MaxConn /\ s = <<s[1], s[2]>>
        /\ up[s] \in Seq(UpPackets) /\ up[s] # <<>> /\ Head(up[s]).t = "update"
    BY DEF Sockets, TypeOK, HandleUpdate, Dispatches
  <1>2. U \subseteq OpsIn(up[s]) /\ U \subseteq Sent(s[1]) /\ U \subseteq Ops
    <2>1. U \subseteq OpsIn(up[s])
      BY <1>1, OpsInBounds DEF Carries
    <2>2. OpsIn(up[s]) \subseteq Sent(s[1])
      BY <1>1, Parts
    <2>3. OpsIn(up[s]) \subseteq Ops
      BY <1>1, OpsInType
    <2>4. QED
      BY <2>1, <2>2, <2>3
  <1>3. /\ \A k \in saved : k.ops \subseteq Hub
        /\ roomDoc \subseteq Hub /\ file \subseteq Hub
        /\ \A t \in Sockets : OpsIn(down[t]) \subseteq Hub
    BY Parts
  <1>4. /\ roomDoc' \subseteq Hub \cup U /\ file' \subseteq Hub \cup U /\ saved' = saved
        /\ roomDoc' \subseteq Ops
    BY <1>2, <1>3 DEF HandleUpdate, ApplyToRoom, ApplyUpdate, TypeOK
  <1>5. \A t \in Sockets : OpsIn(down'[t]) \subseteq Hub \cup U
    <2> DEFINE p == Step2(roomDoc')
    <2>1. p \in DownPackets /\ p.ops \subseteq Hub \cup U
      BY <1>4 DEF Step2, DownPackets
    <2>2. down' = down \/ down' = Broadcast(users, p)
      BY DEF HandleUpdate, ApplyToRoom
    <2> HIDE DEF p, U
    <2>3. QED
      BY <1>3, <2>1, <2>2, ToldBound
  <1>6. Hub' \subseteq Hub \cup U
    <2> HIDE DEF U
    <2>1. QED
      BY <1>3, <1>4, <1>5, HubBound
  <1>7. \A c \in Clients : Sent(c)' \subseteq Sent(c)
    BY <1>1, SentConsume DEF HandleUpdate
  <1>8. QED
    BY <1>2, <1>6, <1>7

\* What the invariants say of an item that the server gets.
LEMMA UpdateGap ==
    ASSUME TypeOK, IdInv, LeftInv, SendInv, GapInv, RoomSaved', ~setBack',
           NEW s \in Sockets, HandleUpdate(s),
           Integrated(file) \subseteq Integrated(file'),
           NEW o \in Head(up[s]).ops, o.cl = s[1], o \notin Integrated(file')
    PROVE  \E k \in 1..o.n - 1 : Lost(s[1], k)'
  <1> USE DEF serverVars, diskVars, clientVars, faults, deletion
  <1> DEFINE e == s[1]
             U == Head(up[s]).ops
             B == Integrated(roomDoc')
             T == {k \in 1..o.n : <<e, k>> \notin IdsOf(B)}
  <1>1. /\ e \in Clients /\ s[2] \in 1..MaxConn /\ s = <<e, s[2]>>
        /\ up \in [Sockets -> Seq(UpPackets)] /\ up[s] \in Seq(UpPackets) /\ up[s] # <<>>
        /\ Head(up[s]).t = "update" /\ srv[s] = "open"
    BY DEF Sockets, TypeOK, HandleUpdate, Dispatches
  <1>2. /\ roomDoc' = roomDoc \cup U /\ buf' = buf /\ doc' = doc
        /\ up' = [up EXCEPT ![s] = Tail(@)]
    BY DEF HandleUpdate, ApplyToRoom, ApplyUpdate, Consume
  <1>3. Integrated(file') = B
    BY DEF HandleUpdate, Ignored, RoomSaved
  <1>4. U \subseteq OpsIn(up[s]) /\ U \subseteq Sent(e) /\ Sent(e) \subseteq World
        /\ roomDoc \subseteq Out(e) /\ Out(e) \subseteq World
    BY <1>1, UpdateBound, Parts
  <1>5. roomDoc' \subseteq World /\ B \subseteq roomDoc'
    BY <1>2, <1>4, IntegratedKnown
  <1>6. Out(e)' \subseteq Out(e) \cup U
    <2>1. Hub' \subseteq Out(e) \cup U
      BY <1>1, UpdateBound, Parts
    <2>2. \A c \in Clients \ {e} : doc'[c] \subseteq Out(e) /\ Sent(c)' \subseteq Out(e)
      BY <1>1, <1>2, UpdateBound, Parts
    <2> DEFINE X == Out(e) \cup U
    <2>3. e \in Clients /\ Hub' \subseteq X
      BY <1>1, <2>1
    <2>4. \A c \in Clients \ {e} : doc'[c] \subseteq X /\ Sent(c)' \subseteq X
      BY <2>2
    <2> HIDE DEF U, X, e
    <2>5. Out(e)' \subseteq X
      BY <2>3, <2>4, OutBound
    <2>6. QED
      BY <2>5 DEF X
  <1>7. o \in World /\ o \in Ops /\ o.n \in 1..MaxEdits
    BY <1>4, WorldType DEF Ops
  <1>8. o.n \in T
    <2>1. ASSUME NEW p \in B, Id(p) = <<e, o.n>> PROVE FALSE
      BY <1>3, <1>5, <1>7, <2>1 DEF IdInv, Id
    <2>2. QED
      BY <1>7, <2>1, MaxEditsAssumption DEF IdsOf, Id
  <1>9. PICK k \in T : \A y \in T : k <= y
    <2>1. T \in SUBSET Nat
      BY <1>7, MaxEditsAssumption
    <2> HIDE DEF T
    <2>2. QED
      BY <1>8, <2>1, NatLeast
  <1>10. k \in 1..o.n /\ <<e, k>> \notin IdsOf(B) /\ \A j \in 1..k - 1 : <<e, j>> \in IdsOf(B)
    BY <1>7, <1>9, MaxEditsAssumption
  <1>11. \A p \in roomDoc' : p.cl = e => p.n # k
    <2> SUFFICES ASSUME NEW p \in roomDoc', p.cl = e, p.n = k PROVE FALSE
      OBVIOUS
    <2> HIDE DEF U
    <2>1. p \in Integrated(roomDoc')
      BY <1>3, <1>5, <1>10, NextIntegrates
    <2>2. QED
      BY <1>10, <2>1 DEF IdsOf, Id
  <1>12. k # o.n
    BY <1>2, <1>11
  <1>13. \A p \in Out(e) : Id(p) # <<e, k>>
    <2> SUFFICES ASSUME NEW p \in Out(e), Id(p) = <<e, k>> PROVE FALSE
      OBVIOUS
    <2>1. p.cl = e /\ p.n = k
      BY DEF Id
    <2>2. p \notin B
      BY <1>10 DEF IdsOf
    <2>3. PICK j \in 1..k - 1 : Lost(e, j)
      BY <1>1, <1>3, <2>1, <2>2 DEF GapInv
    <2>4. <<e, j>> \in IdsOf(B)
      BY <1>10
    <2>5. B \subseteq Out(e) \cup Sent(e)
      BY <1>2, <1>4, <1>5
    <2>6. QED
      BY <2>3, <2>4, <2>5 DEF Lost, IdsOf
  <1>14. \A p \in OpsIn(buf'[e]) : Id(p) # <<e, k>>
    <2> SUFFICES ASSUME NEW p \in OpsIn(buf[e]), p.cl = e, p.n = k PROVE FALSE
      BY <1>2 DEF Id
    <2>1. o \in OpsIn(up[<<e, s[2]>>])
      BY <1>1, <1>4
    <2>2. o.n < p.n
      BY <1>1, <2>1 DEF SendInv, LiveInv, OrderInv
    <2>3. QED
      BY <1>7, <1>10, <2>2, MaxEditsAssumption
  <1>15. ASSUME NEW j \in 1..MaxConn, NEW p \in OpsIn(up'[<<e, j>>]), Id(p) = <<e, k>>
         PROVE  FALSE
    <2>1. p.cl = e /\ p.n = k
      BY <1>15 DEF Id
    <2>2. CASE j = s[2]
      <3>1. up'[<<e, j>>] = Tail(up[s])
        BY <1>1, <1>2, <2>2
      <3>2. /\ Len(up[s]) \in Nat \ {0} /\ Len(Tail(up[s])) = Len(up[s]) - 1 /\ Head(up[s]) = up[s][1]
            /\ \A i \in 1..Len(Tail(up[s])) : Tail(up[s])[i] = up[s][i + 1]
        BY <1>1
      <3>3. PICK i \in 1..Len(Tail(up[s])) : Carries(Tail(up[s])[i]) /\ p \in Tail(up[s])[i].ops
        BY <1>15, <3>1 DEF OpsIn, Carries
      <3>4. /\ i + 1 \in 1..Len(up[s]) /\ 1 \in 1..Len(up[s]) /\ 1 < i + 1
            /\ Carries(up[s][i + 1]) /\ Carries(up[s][1])
            /\ p \in up[s][i + 1].ops /\ o \in up[s][1].ops
        BY <1>1, <3>2, <3>3 DEF Carries
      <3>5. InOrder(e, up[s])
        BY <1>1 DEF SendInv, LiveInv, OrderInv
      <3>6. o.n < p.n
        BY <2>1, <3>4, <3>5 DEF InOrder
      <3>7. QED
        BY <1>7, <1>10, <2>1, <3>6, MaxEditsAssumption
    <2>3. CASE j # s[2]
      <3>1. <<e, j>> \in Sockets /\ <<e, j>> # s
        BY <1>1, <2>3 DEF Sockets
      <3>2. up'[<<e, j>>] = up[<<e, j>>]
        BY <1>1, <1>2, <3>1
      <3>3. up[<<e, j>>] # <<>>
        BY <1>15, <3>2 DEF OpsIn
      <3>4. srv[<<e, j>>] = "open" /\ srv[<<e, s[2]>>] = "open"
        BY <1>1, <3>1, <3>3 DEF SendInv, LiveInv, OrderInv
      <3>5. QED
        BY <1>1, <2>3, <3>4 DEF SendInv, LiveInv, OrderInv
    <2>4. QED
      BY <2>2, <2>3
  <1>16. \A p \in Sent(e)' : Id(p) # <<e, k>>
    BY <1>14, <1>15 DEF Sent
  <1>17. \A p \in Out(e)' : Id(p) # <<e, k>>
    <2>1. \A p \in U : Id(p) # <<e, k>>
      BY <1>2, <1>11 DEF Id
    <2>2. QED
      BY <1>6, <1>13, <2>1
  <1>18. Lost(e, k)'
    BY <1>16, <1>17 DEF Lost, IdsOf
  <1>19. k \in 1..o.n - 1
    BY <1>7, <1>10, <1>12, MaxEditsAssumption
  <1>20. QED
    BY <1>18, <1>19

\* An update that reaches the server keeps what the invariant says of the items.
LEMMA UpdateKeeps ==
    ASSUME TypeOK, SeenInv, RoomSaved', ~setBack',
           NEW s \in Sockets, HandleUpdate(s), Integrated(file) \subseteq Integrated(file')
    PROVE  IdInv' /\ OwnInv' /\ LeftInv' /\ GapInv'
  <1> USE DEF serverVars, diskVars, clientVars, faults, deletion
  <1> DEFINE e == s[1]
             U == Head(up[s]).ops
  <1>1. e \in Clients /\ doc' = doc /\ edits' = edits /\ page' = page
    BY DEF Sockets, HandleUpdate
  <1>2. /\ U \subseteq Sent(e)
        /\ Hub' \subseteq Hub \cup U
        /\ \A c \in Clients : Sent(c)' \subseteq Sent(c)
    BY UpdateBound
  <1> HIDE DEF U
  <1>3. World' \subseteq World
    <2>1. Hub' \subseteq World /\ \A c \in Clients : doc'[c] \subseteq World /\ Sent(c)' \subseteq World
      BY <1>1, <1>2, Parts
    <2>2. QED
      BY <2>1, WorldBound
  <1>4. \A d \in Clients : Out(d)' \subseteq Out(d) \cup U
    <2> SUFFICES ASSUME NEW d \in Clients PROVE Out(d)' \subseteq Out(d) \cup U
      OBVIOUS
    <2>1. Hub' \subseteq Out(d) \cup U
      BY <1>2, Parts
    <2>2. \A c \in Clients \ {d} : doc'[c] \subseteq Out(d) \cup U /\ Sent(c)' \subseteq Out(d) \cup U
      BY <1>1, <1>2, Parts
    <2>3. QED
      BY <2>1, <2>2, OutBound
  <1>5. \A d \in Clients : U \subseteq Out(d) \cup Sent(d)
    BY <1>1, <1>2, Parts
  <1>6. IdInv'
    BY <1>1, <1>3 DEF SeenInv, IdInv
  <1>7. OwnInv'
    BY <1>1 DEF SeenInv, OwnInv
  <1>8. LeftInv'
    BY <1>3 DEF SeenInv, LeftInv, IdsOf
  <1>9. GapInv'
    <2> SUFFICES ASSUME NEW d \in Clients, NEW o \in Out(d)', o.cl = d, o \notin Integrated(file')
                 PROVE  \E k \in 1..o.n - 1 : Lost(d, k)'
      BY DEF GapInv
    <2>1. CASE o \in Out(d)
      <3>1. PICK k \in 1..o.n - 1 : Lost(d, k)
        BY <2>1 DEF SeenInv, GapInv
      <3>2. Lost(d, k)'
        BY <1>2, <1>4, <1>5, <3>1 DEF Lost, IdsOf
      <3>3. QED
        BY <3>2
    <2>2. CASE o \in U /\ d = e
      BY <2>2, UpdateGap DEF U, SeenInv
    <2>3. U \subseteq Out(d) \/ d = e
      BY <1>1, <1>2, Parts
    <2>4. QED
      BY <1>4, <2>1, <2>2, <2>3
  <1>10. QED
    BY <1>6, <1>7, <1>8, <1>9

\* What a page emits: it is on the way to the server or lost.
LEMMA EmitBound ==
    ASSUME TypeOK, NEW c \in Clients, NEW D \in SUBSET Ops, ClientEmit(c, Update(D))
    PROVE  \A d \in Clients : Sent(d)' \subseteq IF d = c THEN Sent(c) \cup D ELSE Sent(d)
  <1> DEFINE p == Update(D)
  <1>1. p \in UpPackets /\ p.ops = D /\ Carries(p)
    BY DEF Update, UpPackets, Carries
  <1> HIDE DEF p
  <1>2. /\ \A d \in Clients : buf[d] \in Seq(UpPackets) /\ OpsIn(buf[d]) \subseteq Sent(d)
        /\ \A d \in Clients : \A k \in 1..MaxConn :
              /\ <<d, k>> \in Sockets /\ up[<<d, k>>] \in Seq(UpPackets)
              /\ OpsIn(up[<<d, k>>]) \subseteq Sent(d)
    BY Parts DEF TypeOK, Sockets
  <1>3. ASSUME NEW d \in Clients
        PROVE  OpsIn(buf'[d]) \subseteq IF d = c THEN Sent(c) \cup D ELSE Sent(d)
    <2>1. buf'[d] = buf[d] \/ (d = c /\ buf'[d] = Append(buf[d], p))
      BY DEF ClientEmit, TypeOK, p
    <2>2. OpsIn(Append(buf[d], p)) \subseteq OpsIn(buf[d]) \cup D
      BY <1>1, <1>2, OpsInBounds
    <2>3. QED
      BY <1>2, <2>1, <2>2
  <1>4. ASSUME NEW d \in Clients, NEW k \in 1..MaxConn
        PROVE  OpsIn(up'[<<d, k>>]) \subseteq IF d = c THEN Sent(c) \cup D ELSE Sent(d)
    <2>1. up'[<<d, k>>] = up[<<d, k>>] \/ (d = c /\ up'[<<d, k>>] = Append(up[<<d, k>>], p))
      BY <1>2 DEF ClientEmit, TypeOK, Socket, p
    <2>2. OpsIn(Append(up[<<d, k>>], p)) \subseteq OpsIn(up[<<d, k>>]) \cup D
      BY <1>1, <1>2, OpsInBounds
    <2>3. QED
      BY <1>2, <2>1, <2>2
  <1>5. QED
    BY <1>3, <1>4, SentBound

\* What a page takes in and has not shown before is never its own.
LEMMA DeltaForeign ==
    ASSUME TypeOK, IdInv, OwnInv, NEW c \in Clients, page[c] = "open",
           NEW U \in SUBSET World, NEW o \in Delta(doc[c], U)
    PROVE  o.cl # c
  <1> SUFFICES ASSUME o.cl = c PROVE FALSE
    OBVIOUS
  <1>1. o \in World /\ o \notin Integrated(doc[c]) /\ Integrated(doc[c]) \subseteq World
    BY IntegratedKnown, Parts DEF Delta
  <1>2. o.n \in 1..edits[c]
    <2>1. o.n \in 1..MaxEdits
      BY <1>1, WorldType DEF Ops
    <2>2. o.n <= edits[c] /\ edits[c] \in 0..MaxEdits
      BY <1>1 DEF IdInv, TypeOK
    <2>3. QED
      BY <2>1, <2>2, MaxEditsAssumption
  <1>3. PICK p \in Integrated(doc[c]) : Id(p) = <<c, o.n>>
    BY <1>2 DEF OwnInv, IdsOf
  <1>4. o = p
    BY <1>1, <1>3 DEF IdInv, Id
  <1>5. QED
    BY <1>1, <1>3, <1>4

\* A page that takes in a SyncStep2 keeps what the invariant says of the items.
LEMMA ReceiveKeeps ==
    ASSUME TypeOK, SeenInv, NEW c \in Clients, ReceiveStep2(c)
    PROVE  IdInv' /\ OwnInv' /\ LeftInv' /\ GapInv'
  <1> USE DEF serverVars, diskVars, clientVars, faults, deletion
  <1> DEFINE U == Head(down[Socket(c)]).ops
             D == Delta(doc[c], U)
  <1>1. /\ Connected(c) /\ Socket(c) \in Sockets
        /\ down[Socket(c)] \in Seq(DownPackets) /\ down[Socket(c)] # <<>>
        /\ Carries(Head(down[Socket(c)]))
    BY SocketType DEF ReceiveStep2, Arrives, TypeOK, Carries
  <1>2. U \subseteq OpsIn(down[Socket(c)]) /\ U \subseteq Hub
    BY <1>1, OpsInBounds, Parts
  <1>3. /\ doc' = [doc EXCEPT ![c] = doc[c] \cup U]
        /\ ClientEmit(c, Update(D)) \/ (up' = up /\ buf' = buf)
        /\ down' = [down EXCEPT ![Socket(c)] = Tail(@)]
        /\ roomDoc' = roomDoc /\ file' = file /\ saved' = saved /\ edits' = edits /\ page' = page
    BY DEF ReceiveStep2, ApplyUpdate, Take
  <1> HIDE DEF U
  <1>4. page[c] = "open"
    BY <1>1 DEF SeenInv, SendInv, LiveInv
  <1>5. U \subseteq World /\ D \subseteq doc[c] \cup Hub /\ D \subseteq World /\ \A o \in D : o.cl # c
    <2>1. U \subseteq World
      BY <1>2, Parts
    <2>2. D \subseteq doc[c] \cup U
      BY IntegratedKnown DEF Delta
    <2>3. QED
      BY <1>2, <1>4, <2>1, <2>2, DeltaForeign, Parts DEF SeenInv
  <1> HIDE DEF D
  <1>6. \A d \in Clients : Sent(d)' \subseteq IF d = c THEN Sent(c) \cup D ELSE Sent(d)
    <2>1. CASE ClientEmit(c, Update(D))
      BY <1>5, <2>1, WorldType, EmitBound
    <2>2. CASE up' = up /\ buf' = buf
      BY <2>2 DEF Sent
    <2>3. QED
      BY <1>3, <2>1, <2>2
  <1>7. Hub' \subseteq Hub
    <2>1. \A t \in Sockets : OpsIn(down'[t]) \subseteq OpsIn(down[t])
      <3>1. \A t \in Sockets : down'[t] = down[t] \/ (t = Socket(c) /\ down'[t] = Tail(down[t]))
        BY <1>3 DEF TypeOK
      <3>2. QED
        BY <1>1, <3>1, OpsInBounds
    <2>2. QED
      BY <1>3, <2>1, Parts, HubBound
  <1>8. \A d \in Clients : doc'[d] = IF d = c THEN doc[c] \cup U ELSE doc[d]
    BY <1>3 DEF TypeOK
  <1>9. World' \subseteq World
    <2>1. Hub' \subseteq World /\ \A d \in Clients : doc'[d] \subseteq World /\ Sent(d)' \subseteq World
      BY <1>5, <1>6, <1>7, <1>8, Parts
    <2>2. QED
      BY <2>1, WorldBound
  <1>10. \A d \in Clients : Out(d)' \subseteq Out(d)
    <2> SUFFICES ASSUME NEW d \in Clients PROVE Out(d)' \subseteq Out(d)
      OBVIOUS
    <2>1. \A b \in Clients \ {d} : doc'[b] \subseteq Out(d) /\ Sent(b)' \subseteq Out(d)
      BY <1>2, <1>5, <1>6, <1>8, Parts
    <2>2. Hub' \subseteq Out(d)
      BY <1>7, Parts
    <2>3. QED
      BY <2>1, <2>2, OutBound
  <1>11. \A d \in Clients : \A o \in Sent(d)' : o.cl = d => o \in Out(d) \cup Sent(d)
    BY <1>5, <1>6
  <1>12. \A d \in Clients : page'[d] = "open" => page[d] = "open" /\ doc[d] \subseteq doc'[d]
    BY <1>3, <1>8
  <1>13. QED
    BY <1>3, <1>9, <1>10, <1>11, <1>12, NoNewKeeps DEF SeenInv

\* An edit: the page integrates its new item and nothing else, and emits it.
LEMMA EditEffect ==
    ASSUME TypeOK, SeenInv, NEW c \in Clients, Edit(c)
    PROVE  \E op \in Ops :
              /\ op.cl = c /\ op.n = edits[c] + 1
              /\ \/ op.left = Root
                 \/ op.left[1] = op.cl /\ op.left[2] < op.n
                 \/ op.left \in IdsOf(Integrated(file))
              /\ doc' = [doc EXCEPT ![c] = doc[c] \cup {op}]
              /\ Integrated(doc[c] \cup {op}) = Integrated(doc[c]) \cup {op}
              /\ op \notin World
              /\ ClientEmit(c, Update({op}))
  <1> DEFINE B == Integrated(doc[c])
  <1>1. PICK left \in Ids \cup {Root} :
           /\ IsVisible(B, left)
           /\ doc' = [doc EXCEPT ![c] = doc[c] \cup {[cl |-> c, n |-> edits[c] + 1, left |-> left]}]
           /\ ClientEmit(c, Update(Delta(doc[c], {[cl |-> c, n |-> edits[c] + 1, left |-> left]})))
    BY DEF Edit, ApplyUpdate
  <1> DEFINE op == [cl |-> c, n |-> edits[c] + 1, left |-> left]
             A == Integrated(doc[c] \cup {op})
  <1>2. /\ op \in Ops /\ op.cl = c /\ op.n = edits[c] + 1 /\ op.left = left
        /\ edits[c] \in Nat /\ page[c] = "open"
    BY MaxEditsAssumption DEF Ops, TypeOK, Edit
  <1>3. /\ Closed(B) /\ B \subseteq doc[c] /\ doc[c] \subseteq World
        /\ Closed(A) /\ A \subseteq doc[c] \cup {op}
    BY IntegratedClosed, IntegratedKnown, Parts
  <1>4. \A p \in World : p.cl = c => p.n \in Nat /\ p.n <= edits[c]
    BY WorldType, MaxEditsAssumption DEF SeenInv, IdInv, Ops
  <1>5. op \notin World
    BY <1>2, <1>4
  <1>6. left = Root \/ left \in IdsOf(B)
    BY <1>1 DEF IsVisible, Spine
  <1>7. \/ left = Root
        \/ left[1] = c /\ left[2] < edits[c] + 1
        \/ left \in IdsOf(Integrated(file))
    <2>1. ASSUME NEW p \in B, left = Id(p)
          PROVE  (left[1] = c /\ left[2] < edits[c] + 1) \/ left \in IdsOf(Integrated(file))
      <3>1. CASE p.cl = c
        BY <1>2, <1>3, <1>4, <2>1, <3>1 DEF Id
      <3>2. CASE p.cl # c
        BY <2>1, <3>2, SeenInvSaves DEF IdsOf
      <3>3. QED
        BY <3>1, <3>2
    <2>2. QED
      BY <1>6, <2>1 DEF IdsOf
  <1>8. op \in A /\ B \subseteq A
    <2>1. Closed(B \cup {op})
      <3>1. op.n = 1 \/ \E p \in B : p.cl = c /\ p.n = op.n - 1
        <4>1. CASE edits[c] # 0
          <5>1. <<c, edits[c]>> \in IdsOf(B)
            BY <1>2, <4>1 DEF SeenInv, OwnInv
          <5>2. QED
            BY <1>2, <5>1 DEF IdsOf, Id
        <4>2. QED
          BY <1>2, <4>1
      <3> HIDE DEF op, B
      <3>2. QED
        BY <1>2, <1>3, <1>6, <3>1 DEF Closed, IdsOf
    <2> HIDE DEF op
    <2>2. B \cup {op} \in SUBSET (doc[c] \cup {op})
      BY <1>3
    <2> HIDE DEF B
    <2>3. QED
      BY <2>1, <2>2, IntegratedLargest
  <1>9. A \ {op} \subseteq B
    <2>1. ASSUME NEW p \in A \ {op}
          PROVE  /\ p.n = 1 \/ \E q \in A \ {op} : q.cl = p.cl /\ q.n = p.n - 1
                 /\ p.left = Root \/ p.left \in IdsOf(A \ {op})
      <3>1. p \in World
        BY <1>3, <2>1
      <3>2. /\ p.n = 1 \/ \E q \in A : q.cl = p.cl /\ q.n = p.n - 1
            /\ p.left = Root \/ p.left \in IdsOf(A)
        BY <1>3, <2>1 DEF Closed
      <3>3. p.n \in Nat
        BY <3>1, WorldType, MaxEditsAssumption DEF Ops
      <3>4. ~(p.cl = op.cl /\ op.n = p.n - 1)
        BY <1>2, <1>4, <3>1, <3>3
      <3>5. p.left # Id(op)
        <4>1. Id(op) = <<c, edits[c] + 1>>
          BY <1>2 DEF Id
        <4>2. Id(op) # Root
          BY <1>2, <4>1 DEF Root
        <4>3. ~(p.left = Id(op) /\ p.left[1] = p.cl /\ p.left[2] < p.n)
          BY <1>2, <1>4, <3>1, <4>1
        <4>4. Id(op) \notin IdsOf(Integrated(file))
          <5>1. Integrated(file) \subseteq World
            BY IntegratedKnown, Parts DEF World
          <5>2. ASSUME NEW q \in Integrated(file), Id(q) = <<c, edits[c] + 1>>
                PROVE  FALSE
            BY <1>2, <1>4, <5>1, <5>2 DEF Id
          <5>3. QED
            BY <4>1, <5>2 DEF IdsOf
        <4>5. QED
          BY <3>1, <4>2, <4>3, <4>4 DEF SeenInv, LeftInv
      <3> HIDE DEF op, A
      <3>6. QED
        BY <3>2, <3>4, <3>5 DEF IdsOf
    <2>2. Closed(A \ {op})
      BY <2>1 DEF Closed
    <2>3. A \ {op} \in SUBSET doc[c]
      BY <1>3
    <2> HIDE DEF op, A
    <2>4. QED
      BY <2>2, <2>3, IntegratedLargest
  <1>10. A = B \cup {op} /\ op \notin B
    BY <1>3, <1>5, <1>8, <1>9
  <1>11. Delta(doc[c], {op}) = {op}
    <2> HIDE DEF op
    <2>1. QED
      BY <1>10 DEF Delta
  <1>12. QED
    BY <1>1, <1>2, <1>5, <1>7, <1>10, <1>11

\* An edit keeps what the invariant says of the items.
LEMMA EditKeeps ==
    ASSUME TypeOK, SeenInv, NEW c \in Clients, Edit(c)
    PROVE  IdInv' /\ OwnInv' /\ LeftInv' /\ GapInv'
  <1> USE DEF serverVars, diskVars, clientVars, faults, deletion
  <1>1. PICK op \in Ops :
           /\ op.cl = c /\ op.n = edits[c] + 1
           /\ \/ op.left = Root
              \/ op.left[1] = op.cl /\ op.left[2] < op.n
              \/ op.left \in IdsOf(Integrated(file))
           /\ doc' = [doc EXCEPT ![c] = doc[c] \cup {op}]
           /\ Integrated(doc[c] \cup {op}) = Integrated(doc[c]) \cup {op}
           /\ op \notin World
           /\ ClientEmit(c, Update({op}))
    BY EditEffect
  <1>2. /\ roomDoc' = roomDoc /\ file' = file /\ saved' = saved /\ page' = page /\ down' = down
        /\ edits' = [edits EXCEPT ![c] = @ + 1]
    BY DEF Edit
  <1>3. /\ \A d \in Clients : edits[d] \in Nat /\ edits'[d] = IF d = c THEN edits[d] + 1 ELSE edits[d]
        /\ \A d \in Clients : doc'[d] = IF d = c THEN doc[d] \cup {op} ELSE doc[d]
    <2>1. /\ edits \in [Clients -> 0..MaxEdits] /\ doc \in [Clients -> SUBSET Ops]
          /\ \A d \in Clients : edits[d] \in 0..MaxEdits
      BY DEF TypeOK
    <2>2. \A d \in Clients : edits'[d] = IF d = c THEN edits[d] + 1 ELSE edits[d]
      BY <1>2, <2>1
    <2>3. \A d \in Clients : doc'[d] = IF d = c THEN doc[d] \cup {op} ELSE doc[d]
      BY <1>1, <2>1
    <2>4. QED
      BY <2>1, <2>2, <2>3, MaxEditsAssumption, SMTT(30)
  <1>4. \A d \in Clients : Sent(d)' \subseteq IF d = c THEN Sent(c) \cup {op} ELSE Sent(d)
    BY <1>1, EmitBound
  <1>5. Hub' = Hub
    BY <1>2 DEF Hub, Kept, Told
  <1>6. World' \subseteq World \cup {op}
    <2>1. /\ Hub' \subseteq World \cup {op}
          /\ \A d \in Clients : doc'[d] \subseteq World \cup {op} /\ Sent(d)' \subseteq World \cup {op}
      BY <1>3, <1>4, <1>5, Parts
    <2>2. QED
      BY <2>1, WorldBound
  <1>7. \A d \in Clients : Out(d)' \subseteq Out(d) \cup (IF d = c THEN {} ELSE {op})
    <2> SUFFICES ASSUME NEW d \in Clients
                 PROVE  Out(d)' \subseteq Out(d) \cup (IF d = c THEN {} ELSE {op})
      OBVIOUS
    <2> DEFINE X == Out(d) \cup (IF d = c THEN {} ELSE {op})
    <2>1. Hub' \subseteq X /\ \A b \in Clients \ {d} : doc'[b] \subseteq X /\ Sent(b)' \subseteq X
      BY <1>3, <1>4, <1>5, Parts
    <2> HIDE DEF X
    <2>2. Out(d)' \subseteq X
      BY <2>1, OutBound
    <2>3. QED
      BY <2>2 DEF X
  <1>8. \A o \in World : o.cl \in Clients /\ o.n \in Nat /\ o.n <= edits[o.cl]
    BY WorldType, MaxEditsAssumption DEF SeenInv, IdInv, Ops
  <1>9. IdInv'
    <2>1. \A o \in World' : o.n <= edits'[o.cl]
      BY <1>1, <1>3, <1>6, <1>8
    <2>2. \A o \in World : Id(o) # Id(op)
      BY <1>1, <1>3, <1>8 DEF Id
    <2>3. \A o, p \in World' : Id(o) = Id(p) => o = p
      BY <1>6, <2>2 DEF SeenInv, IdInv
    <2>4. QED
      BY <2>1, <2>3 DEF IdInv
  <1>10. OwnInv'
    <2> SUFFICES ASSUME NEW d \in Clients, page[d] = "open", NEW n \in 1..edits'[d]
                 PROVE  <<d, n>> \in IdsOf(Integrated(doc'[d]))
      BY <1>2 DEF OwnInv
    <2>1. CASE n \in 1..edits[d]
      <3>1. <<d, n>> \in IdsOf(Integrated(doc[d]))
        BY <2>1 DEF SeenInv, OwnInv
      <3>2. Integrated(doc[d]) \subseteq Integrated(doc'[d])
        BY <1>1, <1>3
      <3>3. QED
        BY <3>1, <3>2 DEF IdsOf
    <2>2. CASE n \notin 1..edits[d]
      <3>1. d = c /\ n = edits[c] + 1
        BY <1>3, <2>2
      <3>2. op \in Integrated(doc'[d]) /\ Id(op) = <<d, n>>
        BY <1>1, <1>3, <3>1 DEF Id
      <3>3. QED
        BY <3>2 DEF IdsOf
    <2>3. QED
      BY <2>1, <2>2
  <1>11. LeftInv'
    BY <1>1, <1>2, <1>6 DEF SeenInv, LeftInv
  <1>12. GapInv'
    <2> SUFFICES ASSUME NEW d \in Clients, NEW o \in Out(d)', o.cl = d, o \notin Integrated(file)
                 PROVE  \E k \in 1..o.n - 1 : Lost(d, k)'
      BY <1>2 DEF GapInv
    <2>1. o \in Out(d) /\ o \in World
      BY <1>1, <1>7, Parts
    <2>2. PICK k \in 1..o.n - 1 : Lost(d, k)
      BY <2>1 DEF SeenInv, GapInv
    <2>3. Id(op) # <<d, k>>
      BY <1>1, <1>3, <1>8, <2>1 DEF Id
    <2>4. Lost(d, k)'
      BY <1>4, <1>7, <2>2, <2>3 DEF Lost, IdsOf
    <2>5. QED
      BY <2>4
  <1>13. QED
    BY <1>9, <1>10, <1>11, <1>12

\* Queues stay in order when the first packet is taken, when a packet is added
\* whose items are later than all others, and when a page connects.
LEMMA InOrderQueue ==
    ASSUME NEW P, NEW q \in Seq(P), NEW d, InOrder(d, q)
    PROVE  /\ InOrder(d, <<>>)
           /\ q # <<>> => InOrder(d, Tail(q))
           /\ \A packet \in P :
                 (\A o \in OpsIn(q), p \in packet.ops : (o.cl = d /\ p.cl = d) => o.n < p.n)
                    => InOrder(d, Append(q, packet))
           /\ \A sv : InOrder(d, q \o <<Join, Step1(sv)>>)
  <1>1. InOrder(d, <<>>)
    BY DEF InOrder
  <1>2. ASSUME q # <<>> PROVE InOrder(d, Tail(q))
    <2>1. /\ Len(q) \in Nat \ {0} /\ Len(Tail(q)) = Len(q) - 1
          /\ \A i \in 1..Len(Tail(q)) : Tail(q)[i] = q[i + 1] /\ i + 1 \in 1..Len(q)
      BY <1>2
    <2>2. QED
      BY <2>1 DEF InOrder
  <1>3. ASSUME NEW packet \in P,
               \A o \in OpsIn(q), p \in packet.ops : (o.cl = d /\ p.cl = d) => o.n < p.n
        PROVE  InOrder(d, Append(q, packet))
    <2> DEFINE r == Append(q, packet)
    <2>1. /\ Len(q) \in Nat /\ Len(r) = Len(q) + 1 /\ r[Len(q) + 1] = packet
          /\ \A i \in 1..Len(q) : r[i] = q[i]
      OBVIOUS
    <2> HIDE DEF r
    <2> SUFFICES ASSUME NEW i \in 1..Len(r), NEW j \in 1..Len(r), NEW o \in r[i].ops, NEW p \in r[j].ops,
                        i < j, Carries(r[i]), Carries(r[j]), o.cl = d, p.cl = d
                 PROVE  o.n < p.n
      BY DEF InOrder, r
    <2>2. i \in 1..Len(q) /\ r[i] = q[i]
      BY <2>1
    <2>3. CASE j = Len(q) + 1
      <3>1. o \in OpsIn(q)
        BY <2>2, OpsInMember
      <3>2. QED
        BY <1>3, <2>1, <2>3, <3>1
    <2>4. CASE j # Len(q) + 1
      <3>1. j \in 1..Len(q) /\ r[j] = q[j]
        BY <2>1, <2>4
      <3>2. QED
        BY <2>2, <3>1 DEF InOrder
    <2>5. QED
      BY <2>3, <2>4
  <1>4. ASSUME NEW sv PROVE InOrder(d, q \o <<Join, Step1(sv)>>)
    <2> DEFINE r == q \o <<Join, Step1(sv)>>
    <2>1. Len(q) \in Nat /\ Len(r) = Len(q) + 2
      OBVIOUS
    <2>2. /\ \A i \in 1..Len(q) : r[i] = q[i]
          /\ r[Len(q) + 1] = Join /\ r[Len(q) + 2] = Step1(sv)
      OBVIOUS
    <2>3. ~Carries(Join) /\ ~Carries(Step1(sv))
      BY DEF Join, Step1, Carries
    <2> HIDE DEF r
    <2>4. \A i \in 1..Len(r) : Carries(r[i]) => i \in 1..Len(q)
      BY <2>1, <2>2, <2>3
    <2>5. InOrder(d, r)
      BY <2>2, <2>4 DEF InOrder
    <2>6. QED
      BY <2>5 DEF r
  <1>5. QED
    BY <1>1, <1>2, <1>3, <1>4

\* A step that only takes packets out of the queues keeps the order.
LEMMA OrderShrinks ==
    ASSUME TypeOK, OrderInv,
           \A c \in Clients : buf'[c] \in {buf[c], <<>>},
           \A s \in Sockets : up'[s] \in {up[s], <<>>} \/ (up[s] # <<>> /\ up'[s] = Tail(up[s]))
    PROVE  OrderInv'
  <1>1. ASSUME NEW c \in Clients
        PROVE  InOrder(c, buf'[c]) /\ OpsIn(buf'[c]) \subseteq OpsIn(buf[c])
    <2>1. buf[c] \in Seq(UpPackets) /\ InOrder(c, buf[c])
      BY DEF TypeOK, OrderInv
    <2>2. InOrder(c, <<>>) /\ OpsIn(<<>>) = {}
      BY DEF InOrder, OpsIn
    <2>3. QED
      BY <2>1, <2>2
  <1>2. ASSUME NEW c \in Clients, NEW k \in 1..MaxConn
        PROVE  InOrder(c, up'[<<c, k>>]) /\ OpsIn(up'[<<c, k>>]) \subseteq OpsIn(up[<<c, k>>])
    <2> DEFINE s == <<c, k>>
    <2>1. s \in Sockets /\ up[s] \in Seq(UpPackets) /\ InOrder(c, up[s])
      BY DEF TypeOK, OrderInv, Sockets
    <2>2. InOrder(c, <<>>) /\ OpsIn(<<>>) = {}
      BY DEF InOrder, OpsIn
    <2> HIDE DEF s
    <2>3. up[s] # <<>> => InOrder(c, Tail(up[s])) /\ OpsIn(Tail(up[s])) \subseteq OpsIn(up[s])
      BY <2>1, InOrderQueue, OpsInBounds
    <2>4. InOrder(c, up'[s]) /\ OpsIn(up'[s]) \subseteq OpsIn(up[s])
      BY <2>1, <2>2, <2>3
    <2>5. QED
      BY <2>4 DEF s
  <1>3. QED
    BY <1>1, <1>2 DEF OrderInv

\* A page that emits items later than all it has sent keeps the order.
LEMMA OrderEmit ==
    ASSUME TypeOK, LiveInv, OrderInv, NEW c \in Clients, NEW D \in SUBSET Ops,
           ClientEmit(c, Update(D)),
           \A o \in Sent(c), p \in D : (o.cl = c /\ p.cl = c) => o.n < p.n
    PROVE  OrderInv'
  <1> DEFINE packet == Update(D)
  <1>1. packet \in UpPackets /\ packet.ops = D /\ Carries(packet)
    BY DEF Update, UpPackets, Carries
  <1> HIDE DEF packet
  <1>2. /\ \A d \in Clients : /\ buf[d] \in Seq(UpPackets) /\ InOrder(d, buf[d])
                              /\ OpsIn(buf[d]) \subseteq Sent(d)
        /\ \A d \in Clients : \A k \in 1..MaxConn :
              /\ <<d, k>> \in Sockets /\ up[<<d, k>>] \in Seq(UpPackets)
              /\ InOrder(d, up[<<d, k>>]) /\ OpsIn(up[<<d, k>>]) \subseteq Sent(d)
    BY Parts DEF TypeOK, Sockets, OrderInv
  <1>3. CASE Connected(c)
    <2>1. buf' = buf /\ buf[c] = <<>>
      BY <1>3 DEF ClientEmit, LiveInv
    <2>2. ASSUME NEW d \in Clients, NEW k \in 1..MaxConn
          PROVE  /\ InOrder(d, up'[<<d, k>>])
                 /\ d # c => OpsIn(up'[<<d, k>>]) = OpsIn(up[<<d, k>>])
      <3>1. up'[<<d, k>>] = up[<<d, k>>] \/ (d = c /\ up'[<<d, k>>] = Append(up[<<d, k>>], packet))
        BY <1>2, <1>3 DEF ClientEmit, TypeOK, Socket, packet
      <3>2. d = c => InOrder(d, Append(up[<<d, k>>], packet))
        <4>1. d = c => \A o \in OpsIn(up[<<d, k>>]), p \in packet.ops : (o.cl = d /\ p.cl = d) => o.n < p.n
          BY <1>1, <1>2
        <4>2. QED
          BY <1>1, <1>2, <4>1, InOrderQueue
      <3>3. QED
        BY <1>2, <3>1, <3>2
    <2>3. OpsIn(<<>>) = {}
      BY DEF OpsIn
    <2>4. QED
      BY <1>2, <2>1, <2>2, <2>3 DEF OrderInv
  <1>4. CASE ~Connected(c)
    <2>1. up' = up
      BY <1>4 DEF ClientEmit
    <2>2. \A d \in Clients : buf'[d] = IF d = c THEN Append(buf[c], packet) ELSE buf[d]
      BY <1>4 DEF ClientEmit, TypeOK, packet
    <2>3. InOrder(c, Append(buf[c], packet))
      <3>1. \A o \in OpsIn(buf[c]), p \in packet.ops : (o.cl = c /\ p.cl = c) => o.n < p.n
        BY <1>1, <1>2
      <3>2. QED
        BY <1>1, <1>2, <3>1, InOrderQueue
    <2>4. OpsIn(Append(buf[c], packet)) \subseteq OpsIn(buf[c]) \cup D
      BY <1>1, <1>2, OpsInBounds
    <2>5. ASSUME NEW d \in Clients, NEW k \in 1..MaxConn, NEW o \in OpsIn(up[<<d, k>>]),
                 NEW p \in OpsIn(buf'[d]), o.cl = d, p.cl = d
          PROVE  o.n < p.n
      <3>1. o \in Sent(d)
        BY <1>2
      <3>2. CASE p \in OpsIn(buf[d])
        BY <2>5, <3>2 DEF OrderInv
      <3>3. CASE d = c /\ p \in D
        BY <2>5, <3>1, <3>3
      <3>4. QED
        BY <2>2, <2>4, <3>2, <3>3
    <2>6. \A d \in Clients : InOrder(d, buf'[d]) /\ \A k \in 1..MaxConn : InOrder(d, up'[<<d, k>>])
      BY <1>2, <2>1, <2>2, <2>3
    <2>7. QED
      BY <2>1, <2>5, <2>6 DEF OrderInv
  <1>5. QED
    BY <1>3, <1>4

\* What a page emits leaves one live socket.
LEMMA LiveEmit ==
    ASSUME TypeOK, LiveInv, NEW c \in Clients, NEW packet, ClientEmit(c, packet),
           srv' = srv, cur' = cur, page' = page
    PROVE  LiveInv'
  <1>1. \A s \in Sockets : up'[s] # <<>> => srv[s] = "open"
    <2> SUFFICES ASSUME NEW s \in Sockets, up'[s] # <<>>, up'[s] # up[s]
                 PROVE  srv[s] = "open"
      BY DEF LiveInv
    <2>1. s = Socket(c) /\ srv[Socket(c)] = "open"
      BY DEF ClientEmit, TypeOK
    <2>2. QED
      BY <2>1
  <1>2. \A d \in Clients : Connected(d) => buf'[d] = buf[d]
    BY DEF ClientEmit, TypeOK
  <1>3. QED
    BY <1>1, <1>2 DEF LiveInv, Connected

\* Every step keeps one live socket for each page, unless it overlaps.
LEMMA LiveInvStep ==
    ASSUME TypeOK, LiveInv, [Next]_vars, ~overlapped'
    PROVE  LiveInv'
  <1> USE DEF serverVars, diskVars, clientVars, faults, deletion
  <1>1. ASSUME NEW s \in Sockets,
               HandleJoin(s) \/ IgnoreMessage(s) \/ HandleStep1(s) \/ HandleUpdate(s)
        PROVE  LiveInv'
    <2>1. /\ srv' = srv /\ cur' = cur /\ page' = page /\ buf' = buf
          /\ up' = [up EXCEPT ![s] = Tail(@)] /\ up[s] # <<>>
      BY <1>1 DEF HandleJoin, IgnoreMessage, HandleStep1, HandleUpdate, Consume, Dispatches
    <2>2. \A t \in Sockets : up'[t] # <<>> => up[t] # <<>>
      BY <2>1 DEF TypeOK
    <2>3. QED
      BY <2>1, <2>2 DEF LiveInv, Connected
  <1>2. ASSUME NEW s \in Sockets, Disconnect(s)
        PROVE  LiveInv'
    <2>1. /\ srv' = [srv EXCEPT ![s] = "closed"] /\ up' = [up EXCEPT ![s] = <<>>]
          /\ cur' = cur /\ page' = page /\ buf' = buf
      BY <1>2 DEF Disconnect
    <2>2. \A t \in Sockets : (up'[t] # <<>> => up[t] # <<>> /\ t # s) /\ (t # s => srv'[t] = srv[t])
      BY <2>1 DEF TypeOK
    <2>3. \A t \in Sockets : srv'[t] = "open" => srv[t] = "open"
      BY <2>1 DEF TypeOK
    <2>4. QED
      BY <2>1, <2>2, <2>3 DEF LiveInv, Connected, Sockets
  <1>3. CASE Ends
    <2>1. /\ \A t \in Sockets : up'[t] = <<>> /\ srv'[t] # "open"
          /\ cur' = cur /\ page' = page /\ buf' = buf
      BY <1>3, EndsEffect DEF ProcessEnds
    <2>2. QED
      BY <2>1 DEF LiveInv, Connected, Sockets
  <1>4. ASSUME NEW s \in Sockets, JoinLoaded(s)
        PROVE  LiveInv'
    BY <1>4 DEF JoinLoaded, LiveInv, Connected
  <1>5. CASE DiskOnly \/ \E k \in saved : Restore(k)
    BY <1>5, DiskOnlyEffect DEF Restore, LiveInv, Connected
  <1>6. ASSUME NEW c \in Clients, Connect(c)
        PROVE  LiveInv'
    <2> DEFINE n == conns[c] + 1
    <2>1. /\ srv' = [srv EXCEPT ![<<c, n>>] = "open"] /\ cur' = [cur EXCEPT ![c] = n]
          /\ up' = [up EXCEPT ![<<c, n>>] = buf[c] \o <<Join, Step1(Integrated(doc[c]))>>]
          /\ buf' = [buf EXCEPT ![c] = <<>>] /\ page' = page /\ page[c] = "open"
          /\ \A k \in 1..MaxConn : srv[<<c, k>>] # "open"
      BY <1>6 DEF Connect
    <2>2. n \in 1..MaxConn /\ <<c, n>> \in Sockets
      BY <1>6, BoundsAssumption DEF Connect, TypeOK, Sockets
    <2> HIDE DEF n
    <2>3. \A s \in Sockets : up'[s] # <<>> => srv'[s] = "open"
      BY <2>1, <2>2 DEF TypeOK, LiveInv
    <2>4. \A d \in Clients : \A j, k \in 1..MaxConn :
             (srv'[<<d, j>>] = "open" /\ srv'[<<d, k>>] = "open") => j = k
      <3>1. \A d \in Clients : \A k \in 1..MaxConn :
               srv'[<<d, k>>] = IF d = c /\ k = n THEN "open" ELSE srv[<<d, k>>]
        BY <2>1, <2>2 DEF TypeOK, Sockets
      <3>2. QED
        BY <2>1, <3>1 DEF LiveInv
    <2>5. \A d \in Clients : Connected(d)' => page[d] = "open" /\ buf'[d] = <<>>
      <3>1. \A d \in Clients : d # c => cur'[d] = cur[d] /\ buf'[d] = buf[d]
        BY <2>1 DEF TypeOK
      <3>2. buf'[c] = <<>>
        BY <2>1 DEF TypeOK
      <3>3. QED
        BY <2>1, <3>1, <3>2 DEF LiveInv, Connected
    <2>6. QED
      BY <2>1, <2>3, <2>4, <2>5 DEF LiveInv
  <1>7. ASSUME NEW c \in Clients, Edit(c)
        PROVE  LiveInv'
    <2>1. PICK packet : ClientEmit(c, packet)
      BY <1>7 DEF Edit
    <2>2. srv' = srv /\ cur' = cur /\ page' = page
      BY <1>7 DEF Edit
    <2>3. QED
      BY <2>1, <2>2, LiveEmit
  <1>8. ASSUME NEW c \in Clients, ReceiveStep2(c)
        PROVE  LiveInv'
    <2>1. srv' = srv /\ cur' = cur /\ page' = page
      BY <1>8 DEF ReceiveStep2
    <2>2. CASE up' = up /\ buf' = buf
      BY <2>1, <2>2 DEF LiveInv, Connected
    <2>3. CASE \E packet : ClientEmit(c, packet)
      BY <2>1, <2>3, LiveEmit
    <2>4. QED
      BY <1>8, <2>2, <2>3 DEF ReceiveStep2
  <1>9. ASSUME NEW c \in Clients, ReceiveUsers(c)
        PROVE  LiveInv'
    BY <1>9 DEF ReceiveUsers, LiveInv, Connected
  <1>10. ASSUME NEW c \in Clients, ConnectionLost(c)
         PROVE  LiveInv'
    <2>1. /\ cur' = [cur EXCEPT ![c] = 0]
          /\ srv' = srv /\ up' = up /\ buf' = buf /\ page' = page
      BY <1>10 DEF ConnectionLost
    <2>2. \A d \in Clients : Connected(d)' => Connected(d)
      BY <2>1 DEF Connected, TypeOK
    <2>3. QED
      BY <2>1, <2>2 DEF LiveInv
  <1>11. ASSUME NEW c \in Clients, Destroy(c)
         PROVE  LiveInv'
    <2>1. /\ cur' = [cur EXCEPT ![c] = 0] /\ page' = [page EXCEPT ![c] = "closed"]
          /\ buf' = [buf EXCEPT ![c] = <<>>] /\ srv' = srv /\ up' = up
      BY <1>11 DEF Destroy
    <2>2. \A d \in Clients : Connected(d)' => /\ Connected(d)
                                              /\ page'[d] = page[d] /\ buf'[d] = buf[d]
      BY <2>1 DEF Connected, TypeOK
    <2>3. QED
      BY <2>1, <2>2 DEF LiveInv
  <1>12. CASE UNCHANGED vars
    BY <1>12 DEF vars, LiveInv, Connected
  <1>13. QED
    BY <1>1, <1>2, <1>3, <1>4, <1>5, <1>6, <1>7, <1>8, <1>9, <1>10, <1>11, <1>12, HistoryCases
    DEF Next, ServerStep, Ends, Receive

\* Every step keeps the order in which the items of a page are sent.
LEMMA OrderInvStep ==
    ASSUME TypeOK, SeenInv, [Next]_vars
    PROVE  OrderInv'
  <1> USE DEF serverVars, diskVars, clientVars, faults, deletion
  <1>0. OrderInv /\ LiveInv
    BY DEF SeenInv, SendInv
  <1>1. ASSUME NEW s \in Sockets,
               HandleJoin(s) \/ IgnoreMessage(s) \/ HandleStep1(s) \/ HandleUpdate(s)
        PROVE  OrderInv'
    <2>1. buf' = buf /\ up' = [up EXCEPT ![s] = Tail(@)] /\ up[s] # <<>>
      BY <1>1 DEF HandleJoin, IgnoreMessage, HandleStep1, HandleUpdate, Consume, Dispatches
    <2>2. \A t \in Sockets : up'[t] \in {up[t], <<>>} \/ (up[t] # <<>> /\ up'[t] = Tail(up[t]))
      BY <2>1 DEF TypeOK
    <2>3. QED
      BY <1>0, <2>1, <2>2, OrderShrinks
  <1>2. CASE \/ \E s \in Sockets : Disconnect(s) \/ JoinLoaded(s)
             \/ Ends \/ DiskOnly \/ \E k \in saved : Restore(k)
             \/ \E c \in Clients : ReceiveUsers(c) \/ ConnectionLost(c) \/ Destroy(c)
             \/ UNCHANGED vars
    <2>1. /\ \A t \in Sockets : up'[t] \in {up[t], <<>>}
          /\ \A c \in Clients : buf'[c] \in {buf[c], <<>>}
      <3>1. CASE \E s \in Sockets : Disconnect(s) \/ JoinLoaded(s)
        <4>1. PICK s \in Sockets : Disconnect(s) \/ JoinLoaded(s)
          BY <3>1
        <4>2. buf' = buf /\ (up' = [up EXCEPT ![s] = <<>>] \/ up' = up)
          BY <4>1 DEF Disconnect, JoinLoaded
        <4>3. QED
          BY <4>2 DEF TypeOK
      <3>2. CASE Ends
        BY <3>2, EndsEffect DEF ProcessEnds
      <3>3. CASE DiskOnly \/ \E k \in saved : Restore(k)
        BY <3>3, DiskOnlyEffect DEF Restore
      <3>4. CASE \E c \in Clients : ReceiveUsers(c) \/ ConnectionLost(c) \/ Destroy(c)
        <4>1. PICK c \in Clients : ReceiveUsers(c) \/ ConnectionLost(c) \/ Destroy(c)
          BY <3>4
        <4>2. up' = up /\ (buf' = [buf EXCEPT ![c] = <<>>] \/ buf' = buf)
          BY <4>1 DEF ReceiveUsers, ConnectionLost, Destroy
        <4>3. QED
          BY <4>2 DEF TypeOK
      <3>5. CASE UNCHANGED vars
        BY <3>5 DEF vars
      <3>6. QED
        BY <1>2, <3>1, <3>2, <3>3, <3>4, <3>5
    <2>2. QED
      BY <1>0, <2>1, OrderShrinks
  <1>3. ASSUME NEW c \in Clients, Connect(c)
        PROVE  OrderInv'
    <2> DEFINE n == conns[c] + 1
               r == buf[c] \o <<Join, Step1(Integrated(doc[c]))>>
    <2>1. up' = [up EXCEPT ![<<c, n>>] = r] /\ buf' = [buf EXCEPT ![c] = <<>>]
      BY <1>3 DEF Connect
    <2>2. buf[c] \in Seq(UpPackets) /\ InOrder(c, buf[c])
      BY <1>0 DEF OrderInv, TypeOK
    <2>3. InOrder(c, r)
      BY <2>2, InOrderQueue
    <2> HIDE DEF n, r
    <2>4. \A d \in Clients : \A k \in 1..MaxConn :
             up'[<<d, k>>] = up[<<d, k>>] \/ (d = c /\ up'[<<d, k>>] = r)
      BY <2>1 DEF TypeOK, Sockets
    <2>5. \A d \in Clients : buf'[d] = IF d = c THEN <<>> ELSE buf[d]
      BY <2>1 DEF TypeOK
    <2>6. OpsIn(<<>>) = {} /\ InOrder(c, <<>>)
      BY DEF OpsIn, InOrder
    <2>7. \A d \in Clients : InOrder(d, buf'[d]) /\ \A k \in 1..MaxConn : InOrder(d, up'[<<d, k>>])
      BY <1>0, <2>3, <2>4, <2>5, <2>6 DEF OrderInv
    <2>8. \A d \in Clients : \A k \in 1..MaxConn : \A o \in OpsIn(up'[<<d, k>>]), p \in OpsIn(buf'[d]) :
             (o.cl = d /\ p.cl = d) => o.n < p.n
      BY <1>0, <2>4, <2>5, <2>6 DEF OrderInv
    <2>9. QED
      BY <2>7, <2>8 DEF OrderInv
  <1>4. ASSUME NEW c \in Clients, Edit(c)
        PROVE  OrderInv'
    <2>1. PICK op \in Ops : op.cl = c /\ op.n = edits[c] + 1 /\ ClientEmit(c, Update({op}))
      BY <1>4, EditEffect
    <2>2. \A o \in Sent(c) : o.cl = c => o.n < op.n
      <3>1. \A o \in Sent(c) : o \in World /\ o \in Ops
        BY WorldType, Parts
      <3>2. \A o \in Sent(c) : o.cl = c => o.n <= edits[c] /\ o.n \in 1..MaxEdits
        BY <3>1 DEF SeenInv, IdInv, Ops
      <3>3. edits[c] \in 0..MaxEdits
        BY DEF TypeOK
      <3>4. QED
        BY <2>1, <3>2, <3>3, MaxEditsAssumption
    <2>3. QED
      BY <1>0, <2>1, <2>2, OrderEmit
  <1>5. ASSUME NEW c \in Clients, ReceiveStep2(c)
        PROVE  OrderInv'
    <2> DEFINE U == Head(down[Socket(c)]).ops
               D == Delta(doc[c], U)
    <2>1. ClientEmit(c, Update(D)) \/ (up' = up /\ buf' = buf)
      BY <1>5 DEF ReceiveStep2
    <2>2. U \subseteq World
      <3>1. /\ Socket(c) \in Sockets
            /\ down[Socket(c)] \in Seq(DownPackets) /\ down[Socket(c)] # <<>>
            /\ Carries(Head(down[Socket(c)]))
        BY <1>5, SocketType DEF ReceiveStep2, Arrives, TypeOK, Carries
      <3>2. QED
        BY <3>1, OpsInBounds, Parts
    <2> HIDE DEF U
    <2>3. page[c] = "open"
      BY <1>0, <1>5 DEF ReceiveStep2, Arrives, LiveInv
    <2>4. \A o \in D : o.cl # c
      BY <2>2, <2>3, DeltaForeign DEF SeenInv
    <2>5. D \subseteq Ops
      BY <2>2, WorldType, DeltaType
    <2> HIDE DEF D
    <2>6. CASE ClientEmit(c, Update(D))
      BY <1>0, <2>4, <2>5, <2>6, OrderEmit
    <2>7. CASE up' = up /\ buf' = buf
      BY <1>0, <2>7 DEF OrderInv
    <2>8. QED
      BY <2>1, <2>6, <2>7
  <1>6. QED
    BY <1>1, <1>2, <1>3, <1>4, <1>5, HistoryCases DEF Next, ServerStep, Ends, Receive

\* There are no items at first.
LEMMA SeenInvInit == Init => SeenInv
  <1> SUFFICES ASSUME Init PROVE SeenInv
    OBVIOUS
  <1>1. OpsIn(<<>>) = {}
    BY DEF OpsIn
  <1>2. Kept = {}
    BY Zenon DEF Init, Kept
  <1>3. Told = {}
    BY <1>1 DEF Init, Told
  <1>4. \A c \in Clients : Sent(c) = {} /\ doc[c] = {}
    BY <1>1 DEF Init, Sent, Sockets
  <1>5. World = {}
    BY <1>2, <1>3, <1>4 DEF Init, World, Hub
  <1>6. \A d \in Clients : Out(d) = {}
    BY <1>5, Parts
  <1>7. IdInv /\ LeftInv
    BY <1>5 DEF IdInv, LeftInv
  <1>8. GapInv
    BY <1>6 DEF GapInv
  <1>9. OwnInv
    BY DEF Init, OwnInv
  <1>10. LiveInv
    BY DEF Init, LiveInv, Connected, Sockets
  <1>11. OrderInv
    BY <1>1 DEF Init, OrderInv, InOrder, Sockets
  <1>12. QED
    BY <1>7, <1>8, <1>9, <1>10, <1>11 DEF SeenInv, SendInv

\* Every step keeps the invariant, unless it sets the document back or overlaps.
LEMMA SeenInvStep ==
    ASSUME TypeOK, RoomSaved, RoomSaved', SeenInv, [Next]_vars, ~setBack', ~overlapped'
    PROVE  SeenInv'
  <1> USE DEF serverVars, diskVars, clientVars, faults, deletion
  <1>0. IdInv /\ OwnInv /\ LeftInv /\ GapInv /\ SendInv'
    BY LiveInvStep, OrderInvStep DEF SeenInv, SendInv
  <1>1. Integrated(file) \subseteq Integrated(file')
    BY FileStep
  <1>2. ASSUME NEW s \in Sockets,
               \/ HandleJoin(s) \/ JoinLoaded(s) \/ IgnoreMessage(s) \/ HandleStep1(s)
               \/ Disconnect(s)
        PROVE  SeenInv'
    <2>1. doc' = doc /\ edits' = edits /\ page' = page
      BY <1>2 DEF HandleJoin, JoinLoaded, IgnoreMessage, HandleStep1, Disconnect
    <2>2. Hub' \subseteq Hub /\ \A c \in Clients : Sent(c)' \subseteq Sent(c)
      BY <1>2, QuietServer
    <2>3. QED
      BY <1>0, <1>1, <2>1, <2>2, QuietKeeps DEF SeenInv
  <1>3. CASE Ends \/ DiskOnly \/ \E k \in saved : Restore(k)
    <2>1. doc' = doc /\ edits' = edits /\ page' = page
      BY <1>3, EndsEffect, DiskOnlyEffect DEF ProcessEnds, Restore
    <2>2. Hub' \subseteq Hub /\ \A c \in Clients : Sent(c)' \subseteq Sent(c)
      BY <1>3, QuietHistory
    <2>3. QED
      BY <1>0, <1>1, <2>1, <2>2, QuietKeeps DEF SeenInv
  <1>4. ASSUME NEW c \in Clients,
               Connect(c) \/ ReceiveUsers(c) \/ ConnectionLost(c) \/ Destroy(c)
        PROVE  SeenInv'
    <2>1. edits' = edits
      BY <1>4 DEF Connect, ReceiveUsers, ConnectionLost, Destroy
    <2>2. \A d \in Clients : /\ doc'[d] \subseteq doc[d]
                             /\ page'[d] = "open" => page[d] = "open" /\ doc'[d] = doc[d]
      BY <1>4 DEF Connect, ReceiveUsers, ConnectionLost, Destroy, TypeOK
    <2>3. Hub' \subseteq Hub /\ \A d \in Clients : Sent(d)' \subseteq Sent(d)
      BY <1>4, QuietPage
    <2>4. QED
      BY <1>0, <1>1, <2>1, <2>2, <2>3, QuietKeeps DEF SeenInv
  <1>5. ASSUME NEW s \in Sockets, HandleUpdate(s)
        PROVE  SeenInv'
    BY <1>0, <1>1, <1>5, UpdateKeeps DEF SeenInv
  <1>6. ASSUME NEW c \in Clients, Edit(c)
        PROVE  SeenInv'
    BY <1>0, <1>6, EditKeeps DEF SeenInv
  <1>7. ASSUME NEW c \in Clients, ReceiveStep2(c)
        PROVE  SeenInv'
    BY <1>0, <1>7, ReceiveKeeps DEF SeenInv
  <1>8. CASE UNCHANGED vars
    <2>1. Hub' \subseteq Hub /\ \A c \in Clients : Sent(c)' \subseteq Sent(c)
      BY <1>8 DEF vars, Hub, Kept, Told, Sent
    <2>2. QED
      BY <1>0, <1>1, <1>8, <2>1, QuietKeeps DEF SeenInv, vars
  <1>9. QED
    BY <1>2, <1>3, <1>4, <1>5, <1>6, <1>7, <1>8, HistoryCases DEF Next, ServerStep, Ends, Receive

\* As long as the document was not set back and no page has overlapped.
SeenUndisturbed == ~setBack /\ ~overlapped => SeenInv

\* A document that was set back, and a page that has overlapped, stay so.
LEMMA DisturbedStays ==
    ASSUME [Next]_vars
    PROVE  (setBack => setBack') /\ (overlapped => overlapped')
  <1> USE DEF serverVars, diskVars, clientVars, faults, deletion
  <1>1. ASSUME NEW s \in Sockets,
               \/ HandleJoin(s) \/ JoinLoaded(s) \/ IgnoreMessage(s) \/ HandleStep1(s)
               \/ HandleUpdate(s) \/ Disconnect(s)
        PROVE  setBack' = setBack /\ overlapped' = overlapped
    BY <1>1 DEF HandleJoin, JoinLoaded, IgnoreMessage, HandleStep1, HandleUpdate, Disconnect
  <1>2. CASE Ends \/ Capture \/ RestoreFails \/ DeleteDocument \/ UNCHANGED vars
    <2>1. setBack' = setBack \/ setBack' = TRUE
      BY <1>2 DEF Ends, Crash, UpdateCutShort, JoinTorn, RestoreCutShort, Capture, RestoreFails,
                  DeleteDocument, vars
    <2>2. overlapped' = overlapped
      BY <1>2, EndsEffect, DiskOnlyEffect DEF ProcessEnds, DiskOnly, vars
    <2>3. QED
      BY <2>1, <2>2
  <1>3. CASE Unlink \/ \E k \in saved : Restore(k)
    <2>1. \/ setBack' = (setBack \/ Integrated(file) # {})
          \/ setBack' = (setBack \/ ~(Integrated(file) \subseteq Integrated(file')))
      BY <1>3 DEF Unlink, Restore
    <2>2. overlapped' = overlapped
      BY <1>3 DEF Unlink, Restore
    <2>3. QED
      BY <2>1, <2>2, Zenon
  <1>4. ASSUME NEW c \in Clients, Edit(c) \/ Receive(c) \/ ConnectionLost(c) \/ Destroy(c)
        PROVE  setBack' = setBack /\ overlapped' = overlapped
    BY <1>4 DEF Edit, Receive, ReceiveStep2, ReceiveUsers, ConnectionLost, Destroy
  <1>5. ASSUME NEW c \in Clients, Connect(c)
        PROVE  setBack' = setBack /\ (overlapped => overlapped')
    <2>1. /\ setBack' = setBack
          /\ overlapped' = (overlapped \/ \E k \in 1..MaxConn : srv[<<c, k>>] = "open")
      BY <1>5 DEF Connect
    <2>2. QED
      BY <2>1, Zenon
  <1>6. QED
    BY <1>1, <1>2, <1>3, <1>4, <1>5, HistoryCases DEF Next, ServerStep, Ends, DiskOnly

\* The invariant is one of the specification.
LEMMA SeenUndisturbedHolds == Spec => []SeenUndisturbed
  <1>1. Init => SeenUndisturbed
    BY SeenInvInit DEF SeenUndisturbed
  <1>2. TypeOK /\ RoomSaved /\ RoomSaved' /\ SeenUndisturbed /\ [Next]_vars => SeenUndisturbed'
    <2> SUFFICES ASSUME TypeOK, RoomSaved, RoomSaved', SeenUndisturbed, [Next]_vars,
                        ~setBack', ~overlapped'
                 PROVE  SeenInv'
      BY DEF SeenUndisturbed
    <2>1. SeenInv
      BY DisturbedStays DEF SeenUndisturbed
    <2>2. QED
      BY <2>1, SeenInvStep
  <1>3. QED
    BY <1>1, <1>2, TypeCorrect, RoomSavedHolds, PTL DEF Spec

\* Between two turns, what a page shows of the edits of others is in the state
\* file, so that a crash between turns does not take it back: in every document
\* that was not restored to less or deleted, whose saves were not cut short and
\* whose pages reconnect only after the server has closed their old sockets.
THEOREM SeenIsSavedHolds == Spec => []SeenIsSaved
  <1>1. TypeOK /\ SeenUndisturbed => SeenIsSaved
    BY SeenInvSaves DEF SeenIsSaved, SeenUndisturbed
  <1>2. QED
    BY <1>1, TypeCorrect, SeenUndisturbedHolds, PTL

-----------------------------------------------------------------------------
(* Collab implements SharedDoc.                                            *)

\* What the pages show.
Shown == [c \in Clients |-> Integrated(doc[c])]

\* As long as nothing disturbs the document every step is one of SharedDoc or
\* is not seen there.
LEMMA SharedStep ==
    ASSUME TypeOK, TypeOK', RoomSaved, SeenInv, SeenIsSaved', [Next]_vars, ~setBack', ~overlapped'
    PROVE  \/ Integrated(file') = Integrated(file) /\ Shown' = Shown
           \/ Shared!Store
           \/ \E c \in Clients : Shared!Edit(c) \/ Shared!Fetch(c) \/ Shared!Close(c)
  <1> USE DEF serverVars, diskVars, clientVars, faults, deletion
  <1>1. ASSUME NEW s \in Sockets,
               \/ HandleJoin(s) \/ JoinLoaded(s) \/ IgnoreMessage(s) \/ HandleStep1(s)
               \/ Disconnect(s)
        PROVE  file' = file /\ doc' = doc
    BY <1>1 DEF HandleJoin, JoinLoaded, IgnoreMessage, HandleStep1, Disconnect
  <1>2. CASE UNCHANGED vars
    BY <1>2 DEF vars, Shown
  <1>3. ASSUME NEW c \in Clients, Connect(c) \/ ReceiveUsers(c) \/ ConnectionLost(c)
        PROVE  file' = file /\ doc' = doc
    BY <1>3 DEF Connect, ReceiveUsers, ConnectionLost
  <1>4. CASE \/ Ends \/ DiskOnly \/ \E k \in saved : Restore(k)
             \/ \E s \in Sockets : HandleUpdate(s)
    <2>1. Integrated(file) \subseteq Integrated(file')
      BY FileStep
    <2>2. Integrated(file') \subseteq Ops
      BY IntegratedKnown DEF TypeOK
    <2>3. doc' = doc
      BY <1>4, EndsEffect, DiskOnlyEffect DEF ProcessEnds, Restore, HandleUpdate
    <2>4. QED
      BY <2>1, <2>2, <2>3 DEF Shared!Store
  <1>5. ASSUME NEW c \in Clients, Edit(c)
        PROVE  Shared!Edit(c)
    <2>1. PICK op \in Ops :
             /\ op.cl = c /\ doc' = [doc EXCEPT ![c] = doc[c] \cup {op}]
             /\ Integrated(doc[c] \cup {op}) = Integrated(doc[c]) \cup {op}
      BY <1>5, EditEffect
    <2>2. file' = file
      BY <1>5 DEF Edit
    <2>3. Shown' = [Shown EXCEPT ![c] = Integrated(doc[c]) \cup {op}]
      BY <2>1 DEF Shown, TypeOK
    <2>4. QED
      BY <2>1, <2>2, <2>3 DEF Shared!Edit, Shown
  <1>6. ASSUME NEW c \in Clients, ReceiveStep2(c)
        PROVE  Shared!Fetch(c)
    <2> DEFINE U == Head(down[Socket(c)]).ops
               D == Delta(doc[c], U)
    <2>1. doc' = [doc EXCEPT ![c] = doc[c] \cup U] /\ file' = file
      BY <1>6 DEF ReceiveStep2, ApplyUpdate
    <2>2. U \subseteq World
      <3>1. /\ Socket(c) \in Sockets
            /\ down[Socket(c)] \in Seq(DownPackets) /\ down[Socket(c)] # <<>>
            /\ Carries(Head(down[Socket(c)]))
        BY <1>6, SocketType DEF ReceiveStep2, Arrives, TypeOK, Carries
      <3>2. QED
        BY <3>1, OpsInBounds, Parts
    <2>3. page[c] = "open"
      BY <1>6 DEF ReceiveStep2, Arrives, SeenInv, SendInv, LiveInv
    <2> HIDE DEF U
    <2>4. \A o \in D : o.cl # c
      BY <2>2, <2>3, DeltaForeign DEF SeenInv
    <2>5. doc'[c] = doc[c] \cup U
      BY <2>1 DEF TypeOK
    <2>6. \A o \in Integrated(doc'[c]) : o.cl # c => o \in Integrated(file')
      BY DEF SeenIsSaved
    <2>7. D \subseteq Integrated(file) /\ Integrated(doc'[c]) = Integrated(doc[c]) \cup D
      <3>1. Integrated(doc[c]) \subseteq Integrated(doc'[c])
        BY <2>5, IntegratedMonotone
      <3>2. QED
        BY <2>1, <2>4, <2>5, <2>6, <3>1 DEF Delta
    <2> HIDE DEF D
    <2>8. Shown' = [Shown EXCEPT ![c] = Integrated(doc[c]) \cup D]
      BY <2>1, <2>5, <2>7 DEF Shown, TypeOK
    <2>9. QED
      BY <2>1, <2>7, <2>8 DEF Shared!Fetch, Shown
  <1>7. ASSUME NEW c \in Clients, Destroy(c)
        PROVE  Shared!Close(c)
    <2>1. doc' = [doc EXCEPT ![c] = {}] /\ file' = file
      BY <1>7 DEF Destroy
    <2>2. Integrated({}) = {}
      BY IntegratedKnown
    <2>3. Shown' = [Shown EXCEPT ![c] = {}]
      BY <2>1, <2>2 DEF Shown, TypeOK
    <2>4. QED
      BY <2>1, <2>3 DEF Shared!Close, Shown
  <1>8. QED
    BY <1>1, <1>2, <1>3, <1>4, <1>5, <1>6, <1>7, HistoryCases
    DEF Next, ServerStep, Ends, Receive, Shown

\* The pages and the server together keep the promise of SharedDoc: one stored
\* content that only grows, and pages that show it and their own edits, until
\* a restore or a deletion takes content back, a save is cut short or a page
\* overlaps.
THEOREM SharedDocImplemented == Spec => ImplementsSharedDoc
  <1>1. Init => Shared!Init
    <2> SUFFICES ASSUME Init PROVE Shared!Init
      OBVIOUS
    <2>1. Integrated({}) = {}
      BY IntegratedKnown
    <2>2. (setBack \/ overlapped) = FALSE
      BY DEF Init
    <2>3. QED
      BY <2>1, <2>2 DEF Init, Shared!Init
  <1>2. /\ TypeOK /\ TypeOK' /\ RoomSaved /\ SeenUndisturbed /\ SeenIsSaved' /\ [Next]_vars
        => [Shared!Next]_<<Integrated(file), [c \in Clients |-> Integrated(doc[c])],
                           setBack \/ overlapped>>
    <2> SUFFICES ASSUME TypeOK, TypeOK', RoomSaved, SeenUndisturbed, SeenIsSaved', [Next]_vars
                 PROVE  [Shared!Next]_<<Integrated(file), [c \in Clients |-> Integrated(doc[c])],
                                        setBack \/ overlapped>>
      OBVIOUS
    <2>1. CASE (setBack \/ overlapped)'
      BY <2>1 DEF Shared!Next
    <2>2. CASE ~(setBack \/ overlapped)'
      <3>1. ~(setBack \/ overlapped)
        BY <2>2, DisturbedStays
      <3>2. (setBack \/ overlapped)' = (setBack \/ overlapped)
        BY <2>2, <3>1, Zenon
      <3>3. SeenInv
        BY <3>1 DEF SeenUndisturbed
      <3>4. CASE Integrated(file') = Integrated(file) /\ Shown' = Shown
        BY <3>2, <3>4 DEF Shown
      <3>5. CASE Shared!Store \/ \E c \in Clients : Shared!Edit(c) \/ Shared!Fetch(c) \/ Shared!Close(c)
        BY <3>2, <3>5 DEF Shared!Next, Shared!Promised
      <3>6. QED
        BY <2>2, <3>3, <3>4, <3>5, SharedStep
    <2>3. QED
      BY <2>1, <2>2
  <1>3. QED
    BY <1>1, <1>2, TypeCorrect, RoomSavedHolds, SeenUndisturbedHolds, SeenIsSavedHolds, PTL
    DEF Spec, ImplementsSharedDoc, Shared!Spec
=============================================================================
