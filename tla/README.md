# TLA+ models of gdocs, pyAPI, EIM and lowcode

The repository holds four applications of its own, `gdocs`, `pyAPI`, `EIM` and
`lowcode`, and copies of six third-party projects (`cc-switch`, `claw-code`,
`codex`, `deno`, `dify`, `n8n`) that none of the four uses. This project models
the applications: the collaborative editing and the document store of `gdocs`,
the stateful services of `pyAPI`, presence and groups of `EIM`, and the store of
`lowcode`. `PROJECT.json` relates every definition to the lines it models.

## Inventory

### gdocs: a collaborative editor

| part | state | operations |
|---|---|---|
| `server/src/socket.ts` | `rooms` (Y.Doc, awareness, users), `currentDocId` per socket | `join`, `yjs-message`, `disconnect`, the `update` handler of a room's document |
| `server/src/services/documentService.ts`, `database.ts` | one state file per document, a JSON database with documents, versions, snapshots, comments | save, load, create and restore versions and snapshots, comments, delete |
| `server/src/routes.ts` | none of its own, reads `rooms` | the HTTP API |
| `client/src/lib/collab.ts`, `CollabEditor.tsx` | the page's Y.Doc, its Socket.IO client with a send buffer, the editor | connect, edit, receive, destroy |
| `client/src/pages`, panels | user list, title, comments, history | rendering and HTTP calls |
| `aiService.ts` | none | text heuristics |

Server and pages exchange packets over Socket.IO; every change of a room's
document is sent to the whole room and written to the state file; the history
routes read the room or the file and write both. Hard here: the suspended
`join`, connections that the two ends give up at different times, packets
flushed from a send buffer before `join`, updates that pages echo, crashes
between broadcast and reconnection, restores while the document is open,
requests that share one writer of `db.json`, deletions while a room is open,
crashes between a broadcast and its save, between a record and its file, or inside a
save.
Correct means: nobody misses what the room has, the room misses nothing a
synchronised page types, a crash between two turns loses nothing another page has
seen, the state file loses content only where a restore, a deletion or a save that was
cut short takes it, rooms live
exactly as long as their users, user lists are right, what was answered is on
disk, and a document that is listed has its content.

### pyAPI: an API server (`main.py`)

| part | state | operations |
|---|---|---|
| `DynamicRouteManager`, middleware | routes by id, index by `METHOD:path` | create, update, delete, toggle, answer a request |
| `CircuitBreaker` | state, two counters, time of the last failure, configuration | call, reset, configure |
| `LoadBalancer` | strategy, servers with health and weight, three indices | select, strategy, health, weight, reset |
| `APIKeyManager` | keys with status and expiry | create, verify, revoke, activate, delete |
| `RequestLogger` | a ring of logs and statistics | add, clear |

Endpoints are `async` functions without an `await` on their way, so each is one
step of the event loop. Hard here are long sequences of legal calls: two routes
with one key, an update that fails half-way, thresholds and weights changed under
a running count, indices that outlive what they index.

### EIM: a chat

| part | state | operations |
|---|---|---|
| `server/src/socket/index.js` | `connectedUsers` (user to socket), the status stored with the user, the status everybody was told | connection, `user_status_update`, `disconnect`, `PUT /users/profile` (`userRoutes.js`), messages, `join_groups`, `typing`, `mark_read` |
| `server/src/routes/groupRoutes.js`, `models/Group.js` | a group: members with roles, name, description, avatar, `lastMessage`, `__v` | create, add and remove members (also oneself), edit; `group_message` |
| other routes and models | users, messages | register, log in, the profile (whose status is part of presence), read |
| `client/src` | the socket of a page, the chat window | connect, render, fetch |

Handlers suspend on the database between almost any two statements. Hard here:
several sockets of one user (two tabs, a reconnection), whose handlers interleave
while the database performs their writes in any order; a request that stores a status
without any socket, and updates that fail after they were stored; a disconnect before
anybody listens for it; groups that are loaded, changed as a copy and saved, from lists
nobody looks for repetitions in. Correct means:
a user with a live connection is reachable and shown as they chose, a user who
left is offline, a member is in a group once, and no request takes back what
another one did to the members.

### lowcode: a page designer

`src/stores/appStore.ts` keeps `pages` and, as a copy, `currentPage`, the
selection, data sources, roles, users and the session. Every change writes the
whole persisted part to `localStorage`, which the tabs of a browser share. Hard
here: the copy, the tabs that save over each other, reloads. Correct means: the
page being edited is one of the pages, what is selected is on it, and nothing
disappears from it but by a deletion or by leaving the page.

## Modules

| module | models | used by |
|---|---|---|
| `YDoc` | the part of Yjs that gdocs relies on (external) | `Collab` |
| `SharedDoc` | what gdocs promises of a document (abstract) | `Collab` |
| `Collab` | room, state file, history routes and pages of one document | `MCCollab`, `CollabProofs` |
| `RouteRegistry` | dynamic routes of pyAPI | `MCRouteRegistry`, `RouteRegistryProofs` |
| `CircuitBreaker` | one circuit breaker, its endpoints, the service behind it | `MCCircuitBreaker`, `CircuitBreakerProofs` |
| `LoadBalancer` | the load balancer and its endpoints | `MCLoadBalancer`, `LoadBalancerProofs` |
| `DocStore` | records of gdocs, the writer of `db.json`, the state files | `MCDocStore`, `DocStoreProofs` |
| `Presence` | the sockets and the status of one EIM user | `MCPresence`, `PresenceProofs` |
| `MemberSet` | what EIM promises of the members of a group (abstract) | `Groups` |
| `Groups` | one EIM group under concurrent requests | `MCGroups`, `GroupsProofs` |
| `AppStore` | the lowcode store in the tabs of a browser | `MCAppStore`, `AppStoreProofs` |

Definitions whose comment begins with "Faulty" are not the code. Each is a
plausible mistake in the definition after it; `PROJECT.json` lists under
`mutants` which property notices it.

### YDoc and Collab

A document is one Y.Map key. Setting it creates an item with an identifier
(client, clock) after the item that was visible. A replica is the set of items it
knows; `Integrated` is the largest part of it in which every item has its
predecessors, which is what Yjs shows. Items beyond it are pending: Yjs keeps and
encodes them, and fires no `update` event for them.

| variable | code |
|---|---|
| `roomOpen`, `roomDoc`, `users` | `rooms.get(docId)`, its `doc`, its `users` (also the Socket.IO room) |
| `awaiting` | the socket whose `join` is suspended on `loadDocumentState` |
| `srv`, `hasDocId` | the server's sockets and their `currentDocId` |
| `hasFile`, `file`, `torn` | the state file, its items, whether it fails to decode |
| `saved` | versions and snapshots, each the items of a room or of a file (torn or not) |
| `deletes`, `unlinking` | the requests that delete the document, and those that have not unlinked the file yet |
| `page`, `doc`, `edits`, `online` | a page, its Y.Doc and clock, the user list it shows |
| `cur`, `conns`, `buf` | the page's connection and its send buffer |
| `up`, `down` | what a connection carries, in order |
| `served`, `setBack`, `overlapped` | history only: whose SyncStep1 was answered; whether a restore or a deletion took items out of the file or a save was cut short; whether a page reconnected while the server still held its old socket |

Decisions that shape the model:

- Node runs a handler up to its first `await`. `loadDocumentState` has a synchronous
  body, so `join` resumes in a microtask: before any other socket's packet, timer,
  HTTP request or disconnection, but after packets of the *same* socket decoded
  in the same turn, which Socket.IO dispatches with `process.nextTick`.
  `Dispatches` says so. The SyncStep1 that a first joiner sends right after
  `join` may therefore find no room and be ignored; `served` tells the cases apart.
- A turn is one step unless it is cut short. The `update` handler sends the
  document to the room (`socket.ts`, line 81) and then saves it (line 82). The process may
  stop between the two, or inside `writeFileSync`, which empties the file before it
  fills it, and a save that fails ends the process too, since nobody awaits the
  handler: `UpdateCutShort`, with the packets already on their way to pages. A restore
  may stop inside its save, after it, or after the room was told of the merged
  document (`RestoreCutShort`). Where only the save of a restore fails, the route answers
  404 and the process goes on with a torn file (`RestoreFails`). `Crash` is a stop
  between two turns.
- A torn file does not decode. A `join` that loads it ends the process (`JoinTorn`);
  an update of a room that is still open writes a good file over it.
- `deleteDocument` removes the versions and snapshots at once and unlinks the state
  file after `db.write()` (`DeleteDocument`, `Unlink`), whether the room is open or not.
  The room is told nothing, goes on, and its next update creates the file again.
- The history routes have awaits on an already loaded database only; they resume in
  microtasks and are one step each. Versions and snapshots differ in what describes
  them only and are one set here.
- Socket.IO flushes the send buffer before its `connect` event: edits made
  offline arrive before `join` and are ignored. The server never sends a
  SyncStep1 of its own, so such an edit stays on its page. This is why
  `StaysCovered` and `EditsPublished` speak of pages the room has caught up with.
- Each end of a connection notices on its own that it is lost; packets under way
  are lost with it. The page reconnects with the document it holds.
- `RoomSaved`, `SeenIsSaved` and `SharedDoc` speak of the states between two turns and
  make the exception `setBack`: a document whose file was overwritten by a restore
  or unlinked by a deletion while it had content, or whose save was cut short. The
  last one is real: a page may show an update that the room was told of and the file
  never got. `FileLosesNothing` names the steps that may take content out of the file.
- `SeenIsSaved` and `SharedDoc` (whose variable `disturbed` is `setBack \/
  overlapped`) make a second exception. It came out of the
  proof, and takes more steps than the bounds of a run allow. While the server
  holds the old socket of a page that has reconnected, what the page sent before
  may be handled after what it sends now. The later edit waits in the room for the
  earlier one: the answer to another page's SyncStep1 contains it, but Yjs fires no
  `update` event for it, so nothing saves it. If the room then closes, the
  other page still keeps that edit. When the earlier one is made known
  by a room that has lost the later one, the page shows both and the file has one.

### RouteRegistry, CircuitBreaker, LoadBalancer

`RouteRegistry` keeps the routes, the attributes of the route *objects* (which
outlive their deletion while the index refers to them) and the index. A path is
written with or without its prefix and stored with it. Upper-casing of methods
and authentication are not told apart. `UpdateRaises` is an update whose
loop raises after path and method were set (a null `method`, an unknown
`route_type`). `del` of a missing key raises `KeyError` after the statements
before it had their effect.

`CircuitBreaker` keeps time as the age of the last failure, saturated beyond the
longest recovery timeout, where ages no longer differ. Thresholds and timeouts are
integers, negative ones among them, since the endpoint checks nothing. The service
behind the breaker goes up and down as it likes. `losses`, `wins` and `relaxed` are history.

`LoadBalancer` keeps the three indices. `_weighted_round_robin` loops until it
returns; `Turns` is that walk as a recursive function, cut at `Horizon`, and
`LoopEnds` states that the cut is never needed. The list of healthy servers and the
sum of their weights are recursive functions over the number of servers, too. The round-robin index is kept
modulo a common multiple of the numbers of servers it is used modulo of. Nothing
increments `active_connections`, so `least_connections` always picks the first
healthy server.

### DocStore

`Collab` follows the content of one document; `DocStore` follows the records of
all of them. A request is numbered when it is handled; a document, version,
snapshot or comment is named by the request that created it, and its value is the
last request that changed it. That is all `AckedIsDurable` needs to compare what
was answered with what is on disk.

| variable | code |
|---|---|
| `mem`, `disk` | `db.data`, `db.json` |
| `jobs`, `renamed`, `owner` | the writer of lowdb: the text in flight, the one queued, whether the temporary file has replaced `db.json`, the request that found the writer idle |
| `rooms`, `file` | open documents; state files, `"torn"` after a crash inside `writeFileSync` |
| `reqs`, `answered` | the requests handled, and those whose response was sent |
| `written`, `late`, `cut` | history only: documents ever saved, saved without a record, a crash inside a save |

- Every handler changes `db.data` in one turn and then awaits `db.write()`. The
  writer (external, modelled from how the handlers use it) turns the
  data into text at once. While a write is in flight it keeps only the latest
  text, which contains every change before it, so the requests that share it may
  all be answered when it is written. The promise of the request that found the
  writer idle includes the writes queued after its own.
- `deleteDocument` unlinks the state file after `db.write()`, in the step in which
  it continues. It closes no room: a later update or restore creates the file of a
  document that no longer exists (`late`).
- The routes for versions, snapshots, comments and restores do not ask whether the
  document has a record, and a restore does not ask whether the version belongs to
  the document; neither does the model.
- A crash inside `writeFileSync` may hit an update of an open room or a restore,
  whose document need not be open (`TornSave`); the save of a restore may also fail on
  its own, which the route answers with 404 (`RestoreFails`).
- A torn file does not decode. The `join` that loads it rejects, nobody handles
  the rejection, and the process ends.

### Presence and Groups

`Presence` is about one user: nothing of it is shared between users. Connection,
disconnect and status update each write the status, wait for the database, and go
on to tell everybody. A status update whose database call fails, with the write
performed or not, is logged and tells nobody (`UpdateFailed`).
`PUT /users/profile` stores any status, with or without a socket, and tells nobody
(`PutProfile`, `ProfileStored`, `ProfileFailed`). `Steps` names these points; a write that is under way is
performed at any time, since mongoose uses a pool of connections. The
listener for `disconnect` is registered after the first await, so a socket may
close unheard (`CloseUnheard`), which leaves its user online and in
`connectedUsers`. `overlap`, `raced` and `silent` are history variables: they name the
situations in which the code gives no guarantee (a socket that connects while
an earlier one is open or still being written; an update under way with another
one or with a disconnect; a status stored last by a write that tells nobody, which may
make a user who left online in the database again) so that the properties can state all
the others. `silent` lifts only what is said of the stored status: what clients were told
must be right all the same. A database error in the connection or disconnect handler
is caught by nobody and ends the process; like any crash of this server it is left out.

`Groups` counts the entries each user has in the array `members`, which may list a
user twice. A request is a load with the checks of its route and a save. What a
save sends is what mongoose makes of the change: `$push` for `members.push`, which
adds to whatever the array is by then; the whole array for an assignment, on
condition that `__v` is as loaded (else `VersionError`, answered with 500); `$set`
for other fields. A request may end between the two. The server takes the lists
of users as they are sent: `Lists` says how often each user is listed, and neither the
creation nor the addition looks for repetitions. So a user may be in the array twice
because requests overlapped, because one request listed the user twice, or because
the creation listed the owner; `twice` records these users, and `InOnce` says
that there are no others. `MemberSet` holds in any case.

### AppStore

Every tab has the whole state, and `saved` is `localStorage`. `set()` changes the
tab's state and writes `partialize` of it, without the selection, over whatever
another tab has saved; a tab reads it only when it is loaded. Loading saves nothing, so
as long as `localStorage` is empty every tab, and every reload, draws the id of a default
page of its own. A page in `pages`
and the copy `page` are separate records, as in the code: editing changes the copy
only, `publishPage` marks both, `selectPage` replaces the copy. Operations on
data sources, roles, users and the session, and changes of a component's
attributes, only save (`Touch`). `deleteComponent` filters the components by their
id; since an id is on a page once (`TypeOK`, proved), the model removes the one
component that has it.

## Runs

| run | what it shows | bounds |
|---|---|---|
| `collab_crash` | types; an answered page misses nothing (`MissesNothing`); the room stays caught up with a page (`StaysCovered`); `RoomSaved` and the refinement of `SharedDoc` around a crash, between turns or inside one, with reconnection, and around a deletion | 2 pages, 2 edits, 3 connections, 1 crash or 1 deletion (`MaxEvents`) |
| `collab_faults` | `RoomMembership`, `OnlineAccurate`, `SeenIsSaved`, `FileLosesNothing` under lost connections, with versions, restores and crashes inside them | 2 edits, 2 connections, any two of 1 loss, 1 saved state and 1 crash (`MaxEvents`) |
| `collab_live` | `UpdatesDelivered`, `EditsPublished` | 2 edits, 2 connections |
| `collab_restore` | **violated**: a restore in an open document does not overwrite its content | 2 edits, 2 connections, 1 saved state |
| `routes` | `IndexSound`, `Reachable` | 3 routes (1 default), 2 names, 1 method |
| `routes_deleted` | **violated**: a route reported as deleted goes on answering | 3 routes, 2 names, 2 methods |
| `breaker` | `Protected`, `ProbesEnough`, `Recovers` | thresholds -1, 1, 3; timeouts -1, 0, 2; 2 outages; 5 calls in a row counted |
| `balancer` | `LoopEnds`, `FairShare` | the 3 servers and weights of `init_mock_servers`, weights up to 3 |
| `docstore` | `AckedIsDurable`, `ContentKept`, `NoGhostFile`, `QueuedAnswered` | 3 requests that change `db.data`, 2 crashes, any number of joins, saves and restores |
| `presence` | `EntryNotGone`, `GoneIsOffline`, `LiveIsOnline`, `EndsOffline` | 3 sockets, 2 status updates or profile requests, 2 statuses |
| `groups` | `InOnce`, the refinement of `MemberSet` | 3 users, 3 requests, a user listed up to 2 times |
| `appstore` | `PageListed`, `SelectionOnPage`, `WorkKept` | 2 tabs, 3 pages (a default one for each tab), 3 components, any number of other operations |

Why the bounds are enough: two pages give every kind of concurrency between an
author and another page; two edits of different pages give an item that is pending
because its predecessor has not arrived, and two items with the same origin; a third
connection lets a page come back after the crash while the other is there too. The one
crash may be of any kind, and the process also ends, uncounted, at every join that
finds the torn file it left. A deletion together with a crash, a restore or a loss is left
to the theorems.
One loss gives an old and a new socket of one page side by side. Three routes are
one that is moved, one that takes its key and one that stays. Three servers are
what the program has. Three requests fill the writer: one in flight, one queued,
one that replaces the queued text; the second crash finds what the first one
left, a torn file among it. Three sockets are one that leaves, one that stays and
one that connects in between; a run with `"offline"` as a third status, which is
allowed but takes three times as long, passes as well. Three requests on a group are two
that overlap and one that changes the version under them; a request that lists a user
twice is the least that repeats. Two tabs are one that
writes and one whose state is overwritten. What the theorems below prove holds
beyond the bounds.

Symmetry is used where it is sound: requests of a group, and tabs and components of
the designer, are interchangeable, and these two runs check no liveness. The
clients of Collab are not interchangeable (Yjs orders by client id), requests of
DocStore are numbered. Deadlock is checked where the system cannot stop
(`breaker`, `balancer`, `appstore`); elsewhere nothing is left to do when the
bounds are used up.

### Fairness

`collab_live` assumes only that the event loops run: a packet that has arrived at
the server or at a page is handled sooner or later, a suspended join is resumed.
It assumes nothing of users, connections or HTTP requests, and the properties
except a connection that ends. `breaker` assumes that time passes and that
clients keep calling when a call would be admitted and the service is up: nothing in the code
moves the breaker by itself, so without callers it stays where it is. `docstore`
assumes that the file system completes the writes it was given (`Rename`,
`WriteDone`), `presence` that the database performs the writes it was sent and the
event loop resumes the handlers that wait for them (`Continue`); neither assumes
anything of users, and crashes are exempt in `QueuedAnswered`.

### The two violations

- `collab_restore`: `HistoryPanel.tsx` (lines 101 and 114) warns that the current
  content will be overwritten. `applyDocumentUpdate` merges the old state into a
  document that already contains it, which changes nothing; only the state file
  is overwritten, until the next edit writes the live document over it.
- `routes_deleted`: after an update that raised half-way the index has the route
  under its old key. If another route takes the new key, deleting the first one
  removes the other one's index entry, reports success, and the deleted route goes
  on answering under the old key.

## Proofs

All theorems hold for every value of the constants that satisfies the named
assumptions (clients are natural numbers, bounds are natural numbers, default routes
have different keys, configured values are integers that do not exceed the counters' range,
`"online"` is a status, the owner of a group is a user, there is a server and every weight
is positive, no component is the missing selection). A bound only limits how
often an action may happen, and the theorems hold for every bound.

`CollabProofs`
- Lemmas about `Integrated`: it is closed, it is the largest closed part, it is
  monotone, and a set that contains the integrated items of another one
  integrates them, too.
- `TypeCorrect`: one step per action. The actions that end the process have in
  common `ProcessEnds` (`Ends`), and four others leave server and pages alone (`DiskOnly`);
  the later proofs treat each group as one case where only that matters.
- `RoomMembershipHolds` with `RoomInv`: membership is inductive only together
  with what a suspended join leaves behind (no room yet, the socket open and with
  `currentDocId`) and with the freshness of new sockets.
- `RoomSavedHolds`: inductive with `TornInv`, which says that a state that does not
  decode, as a file or as a version, has no items. A restore of such a version fails
  after it has written the file, and the room must still not lack what the file has.
  `FileLosesNothingHolds` follows from `RoomSaved`, since a turn that ends overwrites the
  file with the room's document only, and a turn that is cut short leaves the file
  as it was or torn.
- `MissesNothingHolds` with `SyncInv`: the send buffer carries updates only, a
  state vector under way describes items the page still has, only joined sockets
  were served, and what the room has integrated is known to the page or under way
  to it. The second part is why an answer "beyond the state vector" is enough.
- `StaysCoveredHolds`: one step per action, with lemmas on what a queue carries.
- `OnlineAccurateHolds` with `UsersInv`: the last user list in the queue of a
  page that is in the room, or the one it shows if there is none, is that of the room.
- `SeenIsSavedHolds` with `SeenInv`, as long as neither exception applies:
  - `IdInv`: author and clock identify an item wherever it is (documents, file,
    versions, queues, send buffers), and clocks do not run ahead of their author;
  - `OwnInv`: a page shows all its own items; `LeftInv`: an item refers to an
    earlier one of its page or to one that is saved;
  - `LiveInv`, `OrderInv`: a page has one socket at a time and sends its items in
    the order of their clocks;
  - `GapInv`, the heart of it: an item that has left its page is in the file, or
    some earlier item of that page is *lost*, known to its page only and no longer
    under way. What was ignored before `join` or went down with a connection is such
    an item, and since its page never sends it by itself again, whatever was built on
    it stays pending everywhere else. So a page that shows an item of another
    page shows one that is saved.
- `SharedDocImplemented`: every step of `Collab` maps to a step of `SharedDoc` or to a
  stutter, from `RoomSaved` and `SeenInv` before the step and `SeenIsSaved` after it.

`RouteRegistryProofs`: `IndexSoundHolds` and `ReachableHolds` with `RouteInv`, which
adds that ids are drawn once (a deleted id never comes back as another route) and
that `clashed` knows of every shared key.

`CircuitBreakerProofs`: `ProtectedHolds` and `ProbesEnoughHolds` with `BreakerInv`,
which relates the counters to what happened: failures in a row are counted, a
closed breaker has not reached its threshold, a half-open one has counted no more
successes than there were in a row.

`LoadBalancerProofs`: `TypeCorrect`, `LoopEndsHolds`, `SelectsHealthy` and
`FairShareHolds`, for any number of servers and any weights. The list of healthy servers is shown to be what it
should be by choosing the least prefix for which it is not (`NatLeast`, from the
well-foundedness of `<` on the naturals), which replaces the induction schema that
the provers cannot instantiate. The loop ends because of a potential: `Remaining`
is the number of turns until the index is at a server of the greatest weight and the
current weight is no more than that. It is below `Horizon` in every state of the
right type, goes down by one with every turn that does not return, and the loop
returns when it is zero.

`FairShare` needs to know where the recorded selections lie, which `RoundInv` says. A
*slot* is a healthy server with one unit of its share, and there are `Round` of them
(`SlotsCounted`). The slots lie on a ring, one passage over the healthy servers for each
weight, the greatest first; round robin is the ring of one passage. One turn of the loop is
one place on the ring, and the loop returns exactly where there is a slot, so a selection
goes on to the slot that *follows* the current one (`RoundRobinGoesOn`,
`WeightedGoesOn`). `RoundInv`: the selections in `recent` are those of a chain of
different slots, each following the one before, that ends at the slot the indices point to.
No slot follows two others, so a chain shorter than the ring goes on to a new slot
(`ChainNew`: a chain that closes earlier would already contain all of them), and one as
long as the ring can drop its first slot. A chain of `Round` slots contains each slot once
(`ChainFull`), and a server has as many slots as its share. `RoundInv` holds whatever
`rr_index`, `weighted_index` and `current_weight` were left behind: only selections with
`current_weight = 0` are outside the ring, and those are not recorded. TLC checked `RoundInv`
for 2 servers with weights up to 3 and for 3 servers with weights up to 2 before it was
proved.

`DocStoreProofs`: all four invariants from `DocInv`.
- `StoreInv` adds to the types that every row stems from a request handled so far,
  and that after the rename `db.json` is the text in flight.
- `DurableInv` is why sharing a text is safe. A request that was answered shows in
  `db.data`, in `db.json` and in both texts; one that waits shows in the text it waits
  for, in every later one and in `db.data`. The main lemma is that handling a
  further request keeps whatever a text showed: a row that disappears was undone by
  a later request. `Shows` is restated with the requests as a parameter (`ShowsIn`), so
  that it can be compared before and after a step.
- `FileInv`: a document whose file was unlinked is neither in `db.data` nor in any
  text that may still become `db.json`, so no crash brings its record back.

`PresenceProofs`: `PresenceInv` relates handlers (a disconnect handler runs only after
the socket's own connection handler has ended) to what was stored. `LeftInv` is
`GoneIsOffline` without its claim about the entry; it is inductive with
`UpdateInv`, which rules out that an update outlives all sockets without having
raced. `AloneInv` says that a socket that did not overlap is alone: all others have
no handler under way, so no late write can change the status chosen.

`GroupsProofs`: `GroupInv` is `CopyInv` (a copy with the current version *is* the
array, so saving it filtered removes one user from the array as it is now) and
`AddInv` (a user about to be added is absent, and added by one request only). From
it follow `InOnce` and the step simulation of `MemberSet`.

`AppStoreProofs`: `StoreTypeCorrect`, `PageListedHolds`, `SelectionOnPageHolds` and
`WorkKeptHolds` from `Inv`. It says that the state of every tab is `Fine` and that
`localStorage` is what `partialize` makes of the state of the tab that wrote last.
`Fine` adds to the properties that no two pages share an id and that all ids of pages
and components have been drawn, so that a new one is on no page. Lemmas on lists
show what removing, inserting and moving do to a list without repetitions.

Only model-checked: the liveness properties (`UpdatesDelivered`, `EditsPublished`,
`Recovers`, `QueuedAnswered`, `EndsOffline`), which need fairness and `ENABLED` and are
beyond the prover. Every invariant and every other action property of the passing runs is
also a theorem.

## Not modelled

- gdocs: awareness (no handler's decision depends on it); the editor's
  `isApplying` window, which depends on the scheduling of the browser; routes that
  only read, the AI service, rendering.
- pyAPI: answers' bodies, rate limits, request counters. API keys: each method is
  one assignment under a lock, and a property would restate it. The request log:
  `EXCLUDED_PATHS` contains the prefix `"/"`, so the middleware logs no request and
  the ring with its statistics stays empty in the running program.
- EIM: errors of the database in handlers that do not catch them, which end the process;
  `join_groups`, `private_message`, `typing` and `mark_read`, which read
  `connectedUsers` and change no state that another handler decides on; a crash
  of the server, which no code handles; registration and queries. The chat window
  fetches a history that replaces the messages whenever it arrives; it has no guard,
  and no doc says what it should show.
- lowcode: the content of data sources, roles and users, attributes of components,
  rendering.
- The third-party copies. They make up nearly all of the lines of the repository
  (2.2 million), and the four applications share no code with them. So the lines
  the map covers are a small part of the repository, though most of the
  stateful code of its own applications is among them.

## Plan

Done: the modules above, and proofs for all eight components. What is left: EIM's chat
window and `join_groups`, once the intended behaviour is written down.
