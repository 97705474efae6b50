------------------------------ MODULE DocStore ------------------------------
(* The records of gdocs (documents, versions, snapshots, comments), the     *)
(* writer of db.json behind them, and the state files of the documents:     *)
(* server/src/services/documentService.ts, database.ts and routes.ts.       *)
(* Requests are numbered in the order they are handled. A document or a row *)
(* is named by the request that created it (the uuid of the code), and the  *)
(* value kept for it is the last request that changed it. Requests that     *)
(* find nothing to change answer at once and leave no trace.                *)
EXTENDS Naturals, Sequences

CONSTANTS
    MaxRequests,   \* bound: requests that change db.data
    MaxCrashes     \* bound: crashes of the server

ASSUME BoundsAssumption == MaxRequests \in Nat /\ MaxCrashes \in Nat

VARIABLES
    reqs,      \* history: the requests handled so far
    answered,  \* the requests whose response was sent
    mem,       \* db.data
    disk,      \* db.json
    jobs,      \* the writer: the write in flight, then the one queued behind it
    renamed,   \* the write in flight has replaced db.json
    owner,     \* the request that found the writer idle
    rooms,     \* documents that are open (rooms)
    file,      \* state files: "none", "good", or "torn" by a save cut short
    written,   \* history: documents whose content was saved
    late,      \* history: documents saved when they had no record
    cut,       \* history: a crash or a failure happened inside a save
    crashes

vars == <<reqs, answered, mem, disk, jobs, renamed, owner, rooms, file, written,
          late, cut, crashes>>
dbVars == <<reqs, answered, mem, disk, jobs, renamed, owner>>
fileVars == <<rooms, file, written, late, cut, crashes>>

Ids == 1..MaxRequests
Contents == {"good", "torn"}
Fresh == Len(reqs) + 1

(* What db.json holds before anything is written (defaultData).            *)
DefaultData == [docs |-> <<>>, states |-> <<>>, comments |-> <<>>]

Put(f, x, v) == [y \in DOMAIN f \cup {x} |-> IF y = x THEN v ELSE f[y]]
Drop(f, S) == [y \in DOMAIN f \ S |-> f[y]]

Is(r, op) == r \in DOMAIN reqs /\ reqs[r].op = op
(* The rows of f that belong to document d.                                *)
RowsOf(f, d) == {x \in DOMAIN f : reqs[x].on = d}

Init ==
    /\ reqs = <<>>
    /\ answered = {}
    /\ mem = DefaultData
    /\ disk = DefaultData
    /\ jobs = <<>>
    /\ renamed = FALSE
    /\ owner = 0
    /\ rooms = {}
    /\ file = [d \in Ids |-> "none"]
    /\ written = {}
    /\ late = {}
    /\ cut = FALSE
    /\ crashes = 0

-----------------------------------------------------------------------------
(* db.write(): lowdb turns db.data into text at once, and its writer       *)
(* (steno) writes a temporary file and renames it. Called while a write is *)
(* in flight, it keeps only the latest text for the write after it.        *)

(* Faulty: every text is queued for a write of its own.                    *)
WriteQueuesAll(db) ==
    /\ jobs' = Append(jobs, [data |-> db, by |-> {Fresh}])
    /\ owner' = IF jobs = <<>> THEN Fresh ELSE owner

Write(db) ==
    /\ jobs' = IF jobs = <<>> THEN <<[data |-> db, by |-> {}]>>
               ELSE <<jobs[1],
                      [data |-> db,
                       by |-> {Fresh} \cup (IF Len(jobs) = 2 THEN jobs[2].by ELSE {})]>>
    /\ owner' = IF jobs = <<>> THEN Fresh ELSE owner

(* A request changes db.data and waits for db.write(); the rest of the      *)
(* handler is in WriteDone.                                                *)
Request(op, on, db) ==
    /\ Len(reqs) < MaxRequests
    /\ reqs' = Append(reqs, [op |-> op, on |-> on])
    /\ mem' = db
    /\ Write(db)
    /\ UNCHANGED <<answered, disk, renamed, fileVars>>

CreateDocument ==
    Request("create", Fresh, [mem EXCEPT !.docs = Put(@, Fresh, Fresh)])

UpdateDocument(d) ==
    /\ d \in DOMAIN mem.docs
    /\ Request("retitle", d, [mem EXCEPT !.docs = Put(@, d, Fresh)])

(* Faulty: the versions and snapshots of the document are forgotten.       *)
DeleteKeepsStates(d) ==
    Request("delete", d, [mem EXCEPT !.docs = Drop(@, {d}),
                                     !.comments = Drop(@, RowsOf(@, d))])

(* Faulty: the state file is unlinked before db.write().                   *)
DeleteUnlinksFirst(d) ==
    LET db == [docs |-> Drop(mem.docs, {d}),
               states |-> Drop(mem.states, RowsOf(mem.states, d)),
               comments |-> Drop(mem.comments, RowsOf(mem.comments, d))]
    IN  /\ Len(reqs) < MaxRequests
        /\ reqs' = Append(reqs, [op |-> "delete", on |-> d])
        /\ mem' = db
        /\ Write(db)
        /\ file' = [file EXCEPT ![d] = "none"]
        /\ UNCHANGED <<answered, disk, renamed, rooms, written, late, cut, crashes>>

DeleteDocument(d) ==
    Request("delete", d, [docs |-> Drop(mem.docs, {d}),
                          states |-> Drop(mem.states, RowsOf(mem.states, d)),
                          comments |-> Drop(mem.comments, RowsOf(mem.comments, d))])

(* A version or a snapshot of the room, or else of the state file; whether *)
(* the document has a record is not asked.                                 *)
CreateState(d) ==
    /\ d \in rooms \/ file[d] # "none"
    /\ Request("state", d,
               [mem EXCEPT !.states = Put(@, Fresh, IF d \in rooms THEN "good" ELSE file[d])])

AddComment(d) ==
    Request("comment", d, [mem EXCEPT !.comments = Put(@, Fresh, Fresh)])

ResolveComment(c) ==
    /\ c \in DOMAIN mem.comments
    /\ Request("resolve", c, [mem EXCEPT !.comments = Put(@, c, Fresh)])

DeleteComment(c) ==
    /\ c \in DOMAIN mem.comments
    /\ Request("remove", c, [mem EXCEPT !.comments = Drop(@, {c})])

(* The write in flight replaces db.json.                                   *)
Rename ==
    /\ jobs # <<>> /\ ~renamed
    /\ disk' = jobs[1].data
    /\ renamed' = TRUE
    /\ UNCHANGED <<reqs, answered, mem, jobs, owner, fileVars>>

(* The requests that continue when the write in flight is over: the ones   *)
(* that were queued for it, and the one that found the writer idle only    *)
(* when nothing is queued, since its promise includes the writes after it. *)
Continuing == jobs[1].by \cup (IF Len(jobs) = 1 THEN {owner} ELSE {})

(* Faulty: only the request that found the writer idle gets to the unlink. *)
UnlinkedByOwner == {reqs[r].on : r \in {q \in Continuing : Is(q, "delete") /\ q = owner}}

(* The documents whose deletion continues: their state files are unlinked. *)
Unlinked == {reqs[r].on : r \in {q \in Continuing : Is(q, "delete")}}

(* Faulty: the queued write is dropped when the one in flight ends.        *)
WriteDoneDropsQueue ==
    /\ renamed
    /\ answered' = answered \cup Continuing
    /\ file' = [d \in Ids |-> IF d \in Unlinked THEN "none" ELSE file[d]]
    /\ jobs' = <<>>
    /\ renamed' = FALSE
    /\ UNCHANGED <<reqs, mem, disk, owner, rooms, written, late, cut, crashes>>

WriteDone ==
    /\ renamed
    /\ answered' = answered \cup Continuing
    /\ file' = [d \in Ids |-> IF d \in Unlinked THEN "none" ELSE file[d]]
    /\ jobs' = Tail(jobs)
    /\ renamed' = FALSE
    /\ UNCHANGED <<reqs, mem, disk, owner, rooms, written, late, cut, crashes>>

-----------------------------------------------------------------------------
(* State files.                                                            *)

Restart ==
    /\ crashes < MaxCrashes
    /\ crashes' = crashes + 1
    /\ mem' = disk
    /\ jobs' = <<>>
    /\ renamed' = FALSE
    /\ owner' = 0
    /\ rooms' = {}
    /\ UNCHANGED <<reqs, answered, disk>>

Crash == Restart /\ UNCHANGED <<file, written, late, cut>>

(* writeFileSync of a state file.                                          *)
Save(d, content) ==
    /\ file' = [file EXCEPT ![d] = content]
    /\ written' = written \cup {d}
    /\ late' = IF d \in DOMAIN mem.docs THEN late ELSE late \cup {d}

(* The first join of a document opens its room. A torn file does not       *)
(* decode: the handler rejects, which ends the process.                    *)
Join(d) ==
    /\ Is(d, "create") /\ d \notin rooms
    /\ IF file[d] = "torn" THEN Crash
       ELSE rooms' = rooms \cup {d} /\ UNCHANGED <<dbVars, file, written, late, cut, crashes>>

Leave(d) ==
    /\ d \in rooms
    /\ rooms' = rooms \ {d}
    /\ UNCHANGED <<dbVars, file, written, late, cut, crashes>>

RoomUpdate(d) ==
    d \in rooms /\ Save(d, "good") /\ UNCHANGED <<dbVars, rooms, cut, crashes>>

(* A crash after writeFileSync has truncated the file, in the save of an    *)
(* update or of a restore.                                                 *)
TornSave(d) ==
    /\ d \in rooms \/ DOMAIN mem.states # {}
    /\ Save(d, "torn")
    /\ Restart
    /\ cut' = TRUE

(* Restoring version or snapshot v: the file gets its state; an open room   *)
(* merges it and saves again, or fails to decode it after the file is       *)
(* written. The route does not ask whether v belongs to d.                 *)
RestoreState(d, v) ==
    /\ Is(d, "create")
    /\ v \in DOMAIN mem.states
    /\ Save(d, mem.states[v])
    /\ UNCHANGED <<dbVars, rooms, cut, crashes>>

(* writeFileSync of a restore fails half-way: the route answers 404.       *)
RestoreFails(d) ==
    /\ Is(d, "create")
    /\ DOMAIN mem.states # {}
    /\ Save(d, "torn")
    /\ cut' = TRUE
    /\ UNCHANGED <<dbVars, rooms, crashes>>

Next ==
    \/ CreateDocument
    \/ \E d \in {r \in DOMAIN reqs : Is(r, "create")} :
          \/ UpdateDocument(d) \/ DeleteDocument(d) \/ CreateState(d) \/ AddComment(d)
          \/ Join(d) \/ Leave(d) \/ RoomUpdate(d) \/ TornSave(d) \/ RestoreFails(d)
          \/ \E v \in DOMAIN mem.states : RestoreState(d, v)
    \/ \E c \in DOMAIN mem.comments : ResolveComment(c) \/ DeleteComment(c)
    \/ Rename \/ WriteDone \/ Crash

Spec == Init /\ [][Next]_vars
FairSpec == Spec /\ WF_vars(Rename) /\ WF_vars(WriteDone)

-----------------------------------------------------------------------------
Partial(S, T) == UNION {[D -> T] : D \in SUBSET S}
Db == [docs : Partial(Ids, Ids), states : Partial(Ids, Contents), comments : Partial(Ids, Ids)]

(* Types of the state: every row was created by a request of its kind.     *)
TypeOK ==
    /\ reqs \in Seq([op : {"create", "retitle", "delete", "state", "comment", "resolve", "remove"},
                     on : Ids])
    /\ Len(reqs) <= MaxRequests
    /\ answered \subseteq DOMAIN reqs
    /\ mem \in Db /\ disk \in Db
    /\ jobs \in Seq([data : Db, by : SUBSET DOMAIN reqs]) /\ Len(jobs) <= 2
    /\ renamed \in BOOLEAN /\ (renamed => jobs # <<>>)
    /\ owner \in 0..Len(reqs)
    /\ rooms \subseteq Ids
    /\ file \in [Ids -> Contents \cup {"none"}]
    /\ written \subseteq Ids /\ late \subseteq Ids
    /\ cut \in BOOLEAN
    /\ crashes \in 0..MaxCrashes

(* A later request undid what request r did to x.                          *)
Undone(r, x, op) == \E s \in DOMAIN reqs : s > r /\ Is(s, op) /\ reqs[s].on = x

(* db shows the effect of request r, or of later ones that replaced it.    *)
Shows(db, r) ==
    LET x == reqs[r].on IN
    /\ Is(r, "create") => r \in DOMAIN db.docs \/ Undone(r, r, "delete")
    /\ Is(r, "retitle") => IF x \in DOMAIN db.docs THEN db.docs[x] >= r ELSE Undone(r, x, "delete")
    /\ Is(r, "delete") => /\ x \notin DOMAIN db.docs
                          /\ \A y \in RowsOf(db.states, x) \cup RowsOf(db.comments, x) : y > r
    /\ Is(r, "state") => r \in DOMAIN db.states \/ Undone(r, x, "delete")
    /\ Is(r, "comment") => \/ r \in DOMAIN db.comments
                           \/ Undone(r, r, "remove") \/ Undone(r, x, "delete")
    /\ Is(r, "resolve") => IF x \in DOMAIN db.comments THEN db.comments[x] >= r
                           ELSE Undone(r, x, "remove") \/ Undone(r, reqs[x].on, "delete")
    /\ Is(r, "remove") => x \notin DOMAIN db.comments

(* A change that was answered is in db.json, whatever other requests share *)
(* or overtake its write and whenever the server crashes: every handler of *)
(* documentService.ts awaits db.write() before it returns.                 *)
AckedIsDurable == \A r \in answered : Shows(disk, r)

(* A document that db.json lists has its content: deleteDocument unlinks   *)
(* the state file only after the record is gone from db.json, so a crash   *)
(* in between leaves a file too many, never a document that lost its text. *)
(* Unless a save was cut short, the content is also readable.              *)
ContentKept ==
    \A d \in written \cap DOMAIN disk.docs :
        file[d] # "none" /\ (~cut => file[d] = "good")

(* A document whose deletion was answered has no state file, unless a room *)
(* or a restore saved it when its record was already gone: deleteDocument  *)
(* closes no room, and saving does not ask for the record.                 *)
NoGhostFile ==
    \A r \in answered : Is(r, "delete") /\ reqs[r].on \notin late => file[reqs[r].on] = "none"

(* A request whose write was queued behind another one is answered, unless *)
(* the server crashes. (The request that found the writer idle waits until *)
(* the writer is idle again, which an endless stream of writes can put off.)*)
QueuedAnswered ==
    \A r \in Ids, k \in 0..MaxCrashes :
        (Len(jobs) = 2 /\ r \in jobs[2].by /\ crashes = k) ~> (r \in answered \/ crashes > k)
=============================================================================
