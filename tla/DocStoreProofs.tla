--------------------------- MODULE DocStoreProofs ---------------------------
(* Proofs about DocStore, for any number of requests and crashes.          *)
EXTENDS DocStore, TLAPS

Ops == {"create", "retitle", "delete", "state", "comment", "resolve", "remove"}

(* Every row of db was created by a request handled so far.                *)
Known(db) ==
    /\ db \in Db
    /\ DOMAIN db.docs \subseteq DOMAIN reqs
    /\ DOMAIN db.states \subseteq DOMAIN reqs
    /\ DOMAIN db.comments \subseteq DOMAIN reqs

(* What TypeOK needs to be inductive.                                      *)
StoreInv ==
    /\ TypeOK
    /\ \A r \in DOMAIN reqs : reqs[r].on \in DOMAIN reqs
    /\ Known(mem) /\ Known(disk)
    /\ \A k \in DOMAIN jobs : Known(jobs[k].data)
    /\ rooms \subseteq DOMAIN reqs /\ written \subseteq DOMAIN reqs
    /\ jobs # <<>> => owner \in DOMAIN reqs
    /\ renamed => disk = jobs[1].data

(* Shows with the requests as a parameter, so that it can be compared       *)
(* before and after a step.                                                *)
IsIn(rq, r, op) == r \in DOMAIN rq /\ rq[r].op = op
UndoneIn(rq, r, x, op) == \E s \in DOMAIN rq : s > r /\ IsIn(rq, s, op) /\ rq[s].on = x
RowsIn(rq, f, d) == {x \in DOMAIN f : rq[x].on = d}

ShowsIn(rq, db, r) ==
    LET x == rq[r].on IN
    /\ IsIn(rq, r, "create") => r \in DOMAIN db.docs \/ UndoneIn(rq, r, r, "delete")
    /\ IsIn(rq, r, "retitle") => IF x \in DOMAIN db.docs THEN db.docs[x] >= r
                                 ELSE UndoneIn(rq, r, x, "delete")
    /\ IsIn(rq, r, "delete") =>
          /\ x \notin DOMAIN db.docs
          /\ \A y \in RowsIn(rq, db.states, x) \cup RowsIn(rq, db.comments, x) : y > r
    /\ IsIn(rq, r, "state") => r \in DOMAIN db.states \/ UndoneIn(rq, r, x, "delete")
    /\ IsIn(rq, r, "comment") => \/ r \in DOMAIN db.comments
                                 \/ UndoneIn(rq, r, r, "remove") \/ UndoneIn(rq, r, x, "delete")
    /\ IsIn(rq, r, "resolve") => IF x \in DOMAIN db.comments THEN db.comments[x] >= r
                                 ELSE \/ UndoneIn(rq, r, x, "remove")
                                      \/ UndoneIn(rq, r, rq[x].on, "delete")
    /\ IsIn(rq, r, "remove") => x \notin DOMAIN db.comments

(* A request that was answered shows everywhere; one that waits shows in   *)
(* db.data, in the text it waits for and in the one after it.              *)
DurableInv ==
    /\ \A r \in answered :
          /\ ShowsIn(reqs, disk, r) /\ ShowsIn(reqs, mem, r)
          /\ \A k \in DOMAIN jobs : ShowsIn(reqs, jobs[k].data, r)
    /\ \A k \in DOMAIN jobs : \A r \in jobs[k].by :
          /\ ShowsIn(reqs, mem, r)
          /\ \A j \in DOMAIN jobs : j >= k => ShowsIn(reqs, jobs[j].data, r)
    /\ jobs # <<>> =>
          /\ ShowsIn(reqs, mem, owner)
          /\ \A k \in DOMAIN jobs : ShowsIn(reqs, jobs[k].data, owner)

(* No version or snapshot was taken from a torn file.                      *)
NoneTorn(db) == \A v \in DOMAIN db.states : db.states[v] # "torn"

(* A document whose content was unlinked is not listed and will not be; a   *)
(* torn file, and the states taken from one, stem from a crash in a save.  *)
FileInv ==
    /\ \A d \in written : file[d] = "none" =>
          /\ d \notin DOMAIN mem.docs /\ d \notin DOMAIN disk.docs
          /\ \A k \in DOMAIN jobs : d \notin DOMAIN jobs[k].data.docs
    /\ ~cut => /\ \A d \in Ids : file[d] # "torn"
               /\ NoneTorn(mem) /\ NoneTorn(disk)
               /\ \A k \in DOMAIN jobs : NoneTorn(jobs[k].data)

DocInv == StoreInv /\ DurableInv /\ FileInv /\ NoGhostFile

-----------------------------------------------------------------------------
(* Partial functions.                                                      *)

\* Membership in the partial functions from S to T.
LEMMA PartialMember ==
    ASSUME NEW S, NEW T, NEW f
    PROVE  f \in Partial(S, T) <=> f \in [DOMAIN f -> T] /\ DOMAIN f \in SUBSET S
BY DEF Partial

\* Put gives a partial function.
LEMMA PutType ==
    ASSUME NEW S, NEW T, NEW f \in Partial(S, T), NEW x \in S, NEW v \in T
    PROVE  Put(f, x, v) \in Partial(S, T)
<1>1. f \in [DOMAIN f -> T] /\ DOMAIN f \in SUBSET S
  BY PartialMember
<1>2. Put(f, x, v) \in [DOMAIN f \cup {x} -> T]
  BY <1>1 DEF Put
<1> QED BY <1>1, <1>2 DEF Partial

\* A partial function without some of its arguments is still one.
LEMMA DropType ==
    ASSUME NEW S, NEW T, NEW f \in Partial(S, T), NEW X
    PROVE  Drop(f, X) \in Partial(S, T)
<1>1. f \in [DOMAIN f -> T] /\ DOMAIN f \in SUBSET S
  BY PartialMember
<1>2. Drop(f, X) \in [DOMAIN f \ X -> T]
  BY <1>1 DEF Drop
<1> QED BY <1>1, <1>2 DEF Partial

-----------------------------------------------------------------------------
(* Requests.                                                               *)

\* Requests are numbered with identifiers.
LEMMA IdFacts ==
    ASSUME StoreInv
    PROVE  DOMAIN reqs = 1..Len(reqs) /\ Len(reqs) \in Nat /\ DOMAIN reqs \subseteq Ids
<1>1. reqs \in Seq([op : Ops, on : Ids]) /\ Len(reqs) <= MaxRequests
  BY DEF StoreInv, TypeOK, Ops
<1>2. DOMAIN reqs = 1..Len(reqs) /\ Len(reqs) \in Nat
  BY <1>1
<1> QED BY <1>1, <1>2, BoundsAssumption DEF Ids

\* Some request is handled: the new one is the last.
Handled(op, on) ==
    /\ Len(reqs) < MaxRequests
    /\ reqs' = Append(reqs, [op |-> op, on |-> on])

\* A new request extends the numbering by one and changes no earlier request.
LEMMA HandledFacts ==
    ASSUME StoreInv, NEW op \in Ops, NEW on \in 1..Fresh, Handled(op, on)
    PROVE  /\ Fresh \in Ids /\ Fresh \notin DOMAIN reqs
           /\ reqs' \in Seq([op : Ops, on : Ids]) /\ Len(reqs') = Fresh /\ Len(reqs') <= MaxRequests
           /\ DOMAIN reqs' = DOMAIN reqs \cup {Fresh}
           /\ \A r \in DOMAIN reqs : reqs'[r] = reqs[r] /\ r < Fresh
           /\ reqs'[Fresh] = [op |-> op, on |-> on]
           /\ \A r \in DOMAIN reqs' : reqs'[r].on \in DOMAIN reqs'
<1>1. /\ reqs \in Seq([op : Ops, on : Ids]) /\ Len(reqs) \in Nat /\ DOMAIN reqs = 1..Len(reqs)
      /\ \A r \in DOMAIN reqs : reqs[r].on \in DOMAIN reqs
  BY DEF StoreInv, TypeOK, Ops
<1>2. Fresh \in Ids /\ Fresh \notin DOMAIN reqs /\ 1..Fresh = DOMAIN reqs \cup {Fresh}
  BY <1>1, BoundsAssumption DEF Handled, Fresh, Ids
<1>3. [op |-> op, on |-> on] \in [op : Ops, on : Ids]
  BY <1>2, BoundsAssumption DEF Ids, Fresh, Handled
<1>4. /\ reqs' \in Seq([op : Ops, on : Ids]) /\ Len(reqs') = Fresh
      /\ \A r \in 1..Len(reqs) : reqs'[r] = reqs[r]
      /\ reqs'[Fresh] = [op |-> op, on |-> on]
  BY <1>1, <1>3 DEF Handled, Fresh
<1>5. DOMAIN reqs' = 1..Fresh
  BY <1>4
<1>6. \A r \in DOMAIN reqs : r < Fresh
  BY <1>1 DEF Fresh
<1>7. Len(reqs') <= MaxRequests
  BY <1>1, <1>4, BoundsAssumption DEF Handled, Fresh
<1> QED BY <1>1, <1>2, <1>4, <1>5, <1>6, <1>7

-----------------------------------------------------------------------------
\* It is Shows.
LEMMA ShowsIsShowsIn ==
    ASSUME NEW db, NEW r
    PROVE  Shows(db, r) <=> ShowsIn(reqs, db, r)
BY DEF Shows, ShowsIn, Is, IsIn, Undone, UndoneIn, RowsOf, RowsIn

(* rq2 is rq with one more request, n.                                     *)
Extends(rq, rq2, n) ==
    /\ n \in Nat /\ n \notin DOMAIN rq /\ DOMAIN rq \subseteq Nat
    /\ DOMAIN rq2 = DOMAIN rq \cup {n}
    /\ \A r \in DOMAIN rq : rq2[r] = rq[r] /\ r < n /\ rq[r].on \in DOMAIN rq

(* The rows of db are of requests in rq.                                   *)
RowsFrom(rq, db) ==
    /\ DOMAIN db.docs \subseteq DOMAIN rq /\ DOMAIN db.states \subseteq DOMAIN rq
    /\ DOMAIN db.comments \subseteq DOMAIN rq

\* More requests do not take back what a request has undone.
LEMMA UndoneExtends ==
    ASSUME NEW rq, NEW rq2, NEW n, Extends(rq, rq2, n), NEW r, NEW x, NEW op,
           UndoneIn(rq, r, x, op)
    PROVE  UndoneIn(rq2, r, x, op)
BY DEF Extends, UndoneIn, IsIn

\* What data shows it shows after later requests, too.
LEMMA ShowsExtends ==
    ASSUME NEW rq, NEW rq2, NEW n, Extends(rq, rq2, n), NEW db, RowsFrom(rq, db),
           NEW r \in DOMAIN rq, ShowsIn(rq, db, r)
    PROVE  ShowsIn(rq2, db, r)
<1>1. /\ rq2[r] = rq[r] /\ rq[r].on \in DOMAIN rq /\ rq2[rq[r].on] = rq[rq[r].on]
      /\ \A op : IsIn(rq2, r, op) <=> IsIn(rq, r, op)
  BY DEF Extends, IsIn
<1>2. \A x, op : UndoneIn(rq, r, x, op) => UndoneIn(rq2, r, x, op)
  BY UndoneExtends
<1>3. /\ RowsIn(rq2, db.states, rq[r].on) = RowsIn(rq, db.states, rq[r].on)
      /\ RowsIn(rq2, db.comments, rq[r].on) = RowsIn(rq, db.comments, rq[r].on)
  BY DEF RowsIn, RowsFrom, Extends
<1> QED BY <1>1, <1>2, <1>3 DEF ShowsIn

(* db2 is what the request n with operation op on x makes of db.           *)
Effect(rq, n, op, x, db, db2) ==
    \/ op = "create" /\ x = n /\ db2 = [db EXCEPT !.docs = Put(@, n, n)]
    \/ op = "retitle" /\ x \in DOMAIN db.docs /\ db2 = [db EXCEPT !.docs = Put(@, x, n)]
    \/ /\ op = "delete" /\ x \in DOMAIN rq
       /\ db2 = [docs |-> Drop(db.docs, {x}),
                 states |-> Drop(db.states, RowsIn(rq, db.states, x)),
                 comments |-> Drop(db.comments, RowsIn(rq, db.comments, x))]
    \/ /\ op = "state" /\ x \in DOMAIN rq
       /\ \E c \in Contents : db2 = [db EXCEPT !.states = Put(@, n, c)]
    \/ op = "comment" /\ x \in DOMAIN rq /\ db2 = [db EXCEPT !.comments = Put(@, n, n)]
    \/ op = "resolve" /\ x \in DOMAIN db.comments /\ db2 = [db EXCEPT !.comments = Put(@, x, n)]
    \/ op = "remove" /\ x \in DOMAIN db.comments /\ db2 = [db EXCEPT !.comments = Drop(@, {x})]

\* A request shows in the data it leaves, and so do the earlier ones that
\* showed before.
LEMMA EffectShows ==
    ASSUME NEW rq, NEW rq2, NEW n, Extends(rq, rq2, n), NEW db \in Db, RowsFrom(rq, db),
           NEW op, NEW x, rq2[n] = [op |-> op, on |-> x], NEW db2, Effect(rq, n, op, x, db, db2)
    PROVE  /\ RowsFrom(rq2, db2) /\ DOMAIN db2.docs \subseteq DOMAIN db.docs \cup {n}
           /\ ShowsIn(rq2, db2, n)
           /\ \A r \in DOMAIN rq : ShowsIn(rq, db, r) => ShowsIn(rq2, db2, r)
<1> DEFINE P == /\ RowsFrom(rq2, db2) /\ DOMAIN db2.docs \subseteq DOMAIN db.docs \cup {n}
                /\ ShowsIn(rq2, db2, n)
                /\ \A r \in DOMAIN rq : ShowsIn(rq2, db, r) => ShowsIn(rq2, db2, r)
<1> SUFFICES P
  BY ShowsExtends
<1> USE DEF IsIn
<1>0. /\ n \in DOMAIN rq2 /\ n \in Nat
      /\ \A r \in DOMAIN rq : r < n /\ r # n /\ r \in Nat /\ rq2[r] = rq[r]
                             /\ rq[r].on \in DOMAIN rq
      /\ rq2[n].op = op /\ rq2[n].on = x
      /\ \A y \in DOMAIN db.docs \cup DOMAIN db.states \cup DOMAIN db.comments : y \in DOMAIN rq
      /\ DOMAIN rq2 = DOMAIN rq \cup {n}
  BY DEF Extends, RowsFrom
<1>1. ASSUME op = "create", x = n, db2 = [db EXCEPT !.docs = Put(@, n, n)]
      PROVE  P
  <2>1. /\ db2.states = db.states /\ db2.comments = db.comments /\ db2.docs = Put(db.docs, n, n)
    BY <1>1 DEF Db
  <2>2. /\ DOMAIN db2.docs = DOMAIN db.docs \cup {n}
        /\ \A y \in DOMAIN db.docs : db2.docs[y] = db.docs[y]
    BY <2>1, <1>0 DEF Put
  <2>3. \A r \in DOMAIN rq : ShowsIn(rq2, db, r) => ShowsIn(rq2, db2, r)
    BY <1>0, <2>1, <2>2 DEF ShowsIn
  <2>4. ShowsIn(rq2, db2, n)
    BY <1>0, <1>1, <2>2 DEF ShowsIn
  <2> QED BY <2>1, <2>2, <2>3, <2>4, <1>0 DEF RowsFrom
<1>2. ASSUME op = "retitle", x \in DOMAIN db.docs, db2 = [db EXCEPT !.docs = Put(@, x, n)]
      PROVE  P
  <2>1. /\ db2.states = db.states /\ db2.comments = db.comments /\ db2.docs = Put(db.docs, x, n)
    BY <1>2 DEF Db
  <2>2. /\ DOMAIN db2.docs = DOMAIN db.docs
        /\ \A y \in DOMAIN db.docs : db2.docs[y] = IF y = x THEN n ELSE db.docs[y]
    BY <2>1, <1>2 DEF Put
  <2>3. \A r \in DOMAIN rq : ShowsIn(rq2, db, r) => ShowsIn(rq2, db2, r)
    BY <1>0, <2>1, <2>2 DEF ShowsIn
  <2>4. ShowsIn(rq2, db2, n)
    BY <1>0, <1>2, <2>2 DEF ShowsIn
  <2> QED BY <2>1, <2>2, <2>3, <2>4, <1>0 DEF RowsFrom
<1>3. ASSUME op = "delete", x \in DOMAIN rq,
             db2 = [docs |-> Drop(db.docs, {x}),
                    states |-> Drop(db.states, RowsIn(rq, db.states, x)),
                    comments |-> Drop(db.comments, RowsIn(rq, db.comments, x))]
      PROVE  P
  <2>1. /\ DOMAIN db2.docs = DOMAIN db.docs \ {x}
        /\ \A y \in DOMAIN db2.docs : db2.docs[y] = db.docs[y]
    BY <1>3 DEF Drop
  <2>2. /\ DOMAIN db2.states = DOMAIN db.states \ RowsIn(rq, db.states, x)
        /\ DOMAIN db2.comments = DOMAIN db.comments \ RowsIn(rq, db.comments, x)
        /\ \A y \in DOMAIN db2.comments : db2.comments[y] = db.comments[y]
    BY <1>3 DEF Drop
  <2>3. \A y : /\ y \in DOMAIN db2.states <=> y \in DOMAIN db.states /\ rq[y].on # x
               /\ y \in DOMAIN db2.comments <=> y \in DOMAIN db.comments /\ rq[y].on # x
    BY <2>2 DEF RowsIn
  <2>4. \A r \in DOMAIN rq : UndoneIn(rq2, r, x, "delete")
    BY <1>0, <1>3 DEF UndoneIn
  <2>5. ASSUME NEW r \in DOMAIN rq, ShowsIn(rq2, db, r)
        PROVE  ShowsIn(rq2, db2, r)
    <3>1. r # x => (r \in DOMAIN db.docs => r \in DOMAIN db2.docs)
      BY <2>1
    <3>2. /\ RowsIn(rq2, db2.states, rq2[r].on) \subseteq RowsIn(rq2, db.states, rq2[r].on)
          /\ RowsIn(rq2, db2.comments, rq2[r].on) \subseteq RowsIn(rq2, db.comments, rq2[r].on)
      BY <2>3 DEF RowsIn
    <3> QED BY <1>0, <2>1, <2>2, <2>3, <2>4, <2>5, <3>2 DEF ShowsIn
  <2>6. ShowsIn(rq2, db2, n)
    <3>1. RowsIn(rq2, db2.states, x) = {} /\ RowsIn(rq2, db2.comments, x) = {}
      BY <1>0, <2>3 DEF RowsIn
    <3> QED BY <1>0, <1>3, <2>1, <3>1 DEF ShowsIn
  <2> QED BY <2>1, <2>3, <2>5, <2>6, <1>0 DEF RowsFrom
<1>4. ASSUME op = "state", x \in DOMAIN rq, NEW c \in Contents,
             db2 = [db EXCEPT !.states = Put(@, n, c)]
      PROVE  P
  <2>1. /\ db2.docs = db.docs /\ db2.comments = db.comments /\ db2.states = Put(db.states, n, c)
    BY <1>4 DEF Db
  <2>2. DOMAIN db2.states = DOMAIN db.states \cup {n}
    BY <2>1 DEF Put
  <2>3. \A y : RowsIn(rq2, db2.states, y) \subseteq RowsIn(rq2, db.states, y) \cup {n}
    BY <2>2 DEF RowsIn
  <2>4. \A r \in DOMAIN rq : ShowsIn(rq2, db, r) => ShowsIn(rq2, db2, r)
    BY <1>0, <2>1, <2>2, <2>3 DEF ShowsIn
  <2>5. ShowsIn(rq2, db2, n)
    BY <1>0, <1>4, <2>2 DEF ShowsIn
  <2> QED BY <2>1, <2>2, <2>4, <2>5, <1>0 DEF RowsFrom
<1>5. ASSUME op = "comment", x \in DOMAIN rq, db2 = [db EXCEPT !.comments = Put(@, n, n)]
      PROVE  P
  <2>1. /\ db2.docs = db.docs /\ db2.states = db.states /\ db2.comments = Put(db.comments, n, n)
    BY <1>5 DEF Db
  <2>2. /\ DOMAIN db2.comments = DOMAIN db.comments \cup {n}
        /\ \A y \in DOMAIN db.comments : db2.comments[y] = db.comments[y]
    BY <1>0, <2>1 DEF Put
  <2>3. \A y : RowsIn(rq2, db2.comments, y) \subseteq RowsIn(rq2, db.comments, y) \cup {n}
    BY <2>2 DEF RowsIn
  <2>4. \A r \in DOMAIN rq : ShowsIn(rq2, db, r) => ShowsIn(rq2, db2, r)
    BY <1>0, <2>1, <2>2, <2>3 DEF ShowsIn
  <2>5. ShowsIn(rq2, db2, n)
    BY <1>0, <1>5, <2>2 DEF ShowsIn
  <2> QED BY <2>1, <2>2, <2>4, <2>5, <1>0 DEF RowsFrom
<1>6. ASSUME op = "resolve", x \in DOMAIN db.comments, db2 = [db EXCEPT !.comments = Put(@, x, n)]
      PROVE  P
  <2>1. /\ db2.docs = db.docs /\ db2.states = db.states /\ db2.comments = Put(db.comments, x, n)
    BY <1>6 DEF Db
  <2>2. /\ DOMAIN db2.comments = DOMAIN db.comments
        /\ \A y \in DOMAIN db.comments : db2.comments[y] = IF y = x THEN n ELSE db.comments[y]
    BY <1>6, <2>1 DEF Put
  <2>3. \A y : RowsIn(rq2, db2.comments, y) = RowsIn(rq2, db.comments, y)
    BY <2>2 DEF RowsIn
  <2>4. \A r \in DOMAIN rq : ShowsIn(rq2, db, r) => ShowsIn(rq2, db2, r)
    BY <1>0, <2>1, <2>2, <2>3 DEF ShowsIn
  <2>5. ShowsIn(rq2, db2, n)
    BY <1>0, <1>6, <2>2 DEF ShowsIn
  <2> QED BY <2>1, <2>2, <2>4, <2>5, <1>0 DEF RowsFrom
<1>7. ASSUME op = "remove", x \in DOMAIN db.comments, db2 = [db EXCEPT !.comments = Drop(@, {x})]
      PROVE  P
  <2>1. /\ db2.docs = db.docs /\ db2.states = db.states /\ db2.comments = Drop(db.comments, {x})
    BY <1>7 DEF Db
  <2>2. /\ DOMAIN db2.comments = DOMAIN db.comments \ {x}
        /\ \A y \in DOMAIN db2.comments : db2.comments[y] = db.comments[y]
    BY <2>1 DEF Drop
  <2>3. \A y : RowsIn(rq2, db2.comments, y) \subseteq RowsIn(rq2, db.comments, y)
    BY <2>2 DEF RowsIn
  <2>4. \A r \in DOMAIN rq : UndoneIn(rq2, r, x, "remove")
    BY <1>0, <1>7 DEF UndoneIn
  <2>5. ASSUME NEW r \in DOMAIN rq, ShowsIn(rq2, db, r)
        PROVE  ShowsIn(rq2, db2, r)
    <3>1. rq2[r].on # x => (rq2[r].on \in DOMAIN db.comments <=> rq2[r].on \in DOMAIN db2.comments)
      BY <2>2
    <3>2. r # x => (r \in DOMAIN db.comments => r \in DOMAIN db2.comments)
      BY <2>2
    <3>3. UndoneIn(rq2, r, x, "remove")
      BY <2>4
    <3>4. x \notin DOMAIN db2.comments
      BY <2>2
    <3> QED BY <1>0, <2>1, <2>2, <2>3, <2>5, <3>1, <3>2, <3>3, <3>4 DEF ShowsIn
  <2>6. ShowsIn(rq2, db2, n)
    BY <1>0, <1>7, <2>2 DEF ShowsIn
  <2> QED BY <2>1, <2>2, <2>5, <2>6, <1>0 DEF RowsFrom
<1> QED BY <1>1, <1>2, <1>3, <1>4, <1>5, <1>6, <1>7 DEF Effect

-----------------------------------------------------------------------------
(* The writer.                                                             *)

Jobs == Seq([data : Db, by : SUBSET DOMAIN reqs])

\* The jobs one by one.
LEMMA JobFacts ==
    ASSUME StoreInv
    PROVE  /\ Len(jobs) \in 0..2 /\ DOMAIN jobs = 1..Len(jobs) /\ (jobs # <<>> => Len(jobs) \in 1..2)
           /\ \A k \in DOMAIN jobs : jobs[k] \in [data : Db, by : SUBSET DOMAIN reqs]
           /\ \A k \in DOMAIN jobs : jobs[k].data \in Db /\ jobs[k].by \subseteq DOMAIN reqs
<1>1. jobs \in Jobs /\ Len(jobs) <= 2
  BY DEF StoreInv, TypeOK, Jobs
<1>2. DOMAIN jobs = 1..Len(jobs) /\ Len(jobs) \in Nat /\ (Len(jobs) = 0 => jobs = <<>>)
  BY <1>1 DEF Jobs
<1>3. Len(jobs) \in 0..2 /\ (jobs # <<>> => Len(jobs) \in 1..2)
  BY <1>1, <1>2
<1>4. \A k \in DOMAIN jobs : jobs[k] \in [data : Db, by : SUBSET DOMAIN reqs]
  <2> DEFINE T == [data : Db, by : SUBSET DOMAIN reqs]
  <2>1. jobs \in Seq(T)
    BY <1>1 DEF Jobs
  <2> HIDE DEF T
  <2>2. \A k \in DOMAIN jobs : jobs[k] \in T
    BY <1>2, <2>1
  <2> QED BY <2>2 DEF T
<1> QED BY <1>2, <1>3, <1>4

\* What db.write() makes of the jobs: the last one has the new text, and the
\* one in flight stays.
LEMMA WriteJobs ==
    ASSUME StoreInv, NEW db \in Db, Write(db)
    PROVE  /\ jobs' \in Seq([data : Db, by : SUBSET (DOMAIN reqs \cup {Fresh})])
           /\ Len(jobs') \in 1..2 /\ DOMAIN jobs' = 1..Len(jobs') /\ jobs' # <<>>
           /\ jobs = <<>> => /\ Len(jobs') = 1 /\ jobs'[1].data = db /\ jobs'[1].by = {}
                             /\ owner' = Fresh
           /\ jobs # <<>> => /\ Len(jobs') = 2 /\ jobs'[1] = jobs[1] /\ jobs'[2].data = db
                             /\ \A r \in jobs'[2].by :
                                   r = Fresh \/ (Len(jobs) = 2 /\ r \in jobs[2].by)
                             /\ owner' = owner
<1> DEFINE T == [data : Db, by : SUBSET (DOMAIN reqs \cup {Fresh})]
<1>0. /\ Len(jobs) \in 0..2 /\ DOMAIN jobs = 1..Len(jobs) /\ (jobs # <<>> => Len(jobs) \in 1..2)
      /\ \A k \in DOMAIN jobs : jobs[k] \in [data : Db, by : SUBSET DOMAIN reqs]
      /\ \A k \in DOMAIN jobs : jobs[k].by \subseteq DOMAIN reqs
  BY JobFacts
<1>1. CASE jobs = <<>>
  <2> DEFINE only == [data |-> db, by |-> {}]
  <2>1. jobs' = <<only>> /\ owner' = Fresh
    BY <1>1 DEF Write
  <2>2. only \in T /\ only.data = db /\ only.by = {}
    OBVIOUS
  <2> HIDE DEF only
  <2>3. jobs' \in Seq(T) /\ Len(jobs') = 1 /\ jobs'[1] = only /\ jobs' # <<>>
    BY <2>1, <2>2
  <2> QED BY <1>1, <2>1, <2>2, <2>3
<1>2. CASE jobs # <<>>
  <2> DEFINE b == {Fresh} \cup (IF Len(jobs) = 2 THEN jobs[2].by ELSE {})
             last == [data |-> db, by |-> b]
  <2>1. jobs' = <<jobs[1], last>> /\ owner' = owner
    BY <1>2 DEF Write
  <2>2. 1 \in DOMAIN jobs /\ (Len(jobs) = 2 => 2 \in DOMAIN jobs)
    BY <1>0, <1>2
  <2>3. jobs[1] \in T
    BY <1>0, <2>2
  <2>4. b \subseteq DOMAIN reqs \cup {Fresh}
    BY <1>0, <2>2
  <2>5. \A r \in b : r = Fresh \/ (Len(jobs) = 2 /\ r \in jobs[2].by)
    OBVIOUS
  <2> HIDE DEF b
  <2>6. last \in T /\ last.data = db /\ last.by = b
    BY <2>4
  <2> HIDE DEF last
  <2>7. jobs' \in Seq(T) /\ Len(jobs') = 2 /\ jobs'[1] = jobs[1] /\ jobs'[2] = last /\ jobs' # <<>>
    BY <2>1, <2>3, <2>6
  <2> QED BY <1>2, <2>1, <2>5, <2>6, <2>7
<1> QED BY <1>1, <1>2

(* A request is handled, with its effect on db.data.                       *)
AnyRequest ==
    \E op \in Ops, x \in 1..Fresh, db \in Db :
        /\ Request(op, x, db)
        /\ Effect(reqs, Fresh, op, x, mem, db)
        /\ ~cut => NoneTorn(db)

\* A request is added to the history, shows in db.data and in the last text,
\* and changes no state file.
LEMMA RequestStep ==
    ASSUME DocInv, AnyRequest
    PROVE  DocInv'
<1>1. PICK op \in Ops, x \in 1..Fresh, db \in Db :
        /\ Request(op, x, db)
        /\ Effect(reqs, Fresh, op, x, mem, db)
        /\ ~cut => NoneTorn(db)
  BY DEF AnyRequest
<1> DEFINE n == Fresh
<1>2. /\ Handled(op, x) /\ mem' = db /\ Write(db)
      /\ UNCHANGED <<answered, disk, renamed, rooms, file, written, late, cut, crashes>>
  BY <1>1 DEF Request, Handled, fileVars
<1>3. /\ n \in Ids /\ n \notin DOMAIN reqs
      /\ reqs' \in Seq([op : Ops, on : Ids]) /\ Len(reqs') = n /\ Len(reqs') <= MaxRequests
      /\ DOMAIN reqs' = DOMAIN reqs \cup {n}
      /\ \A r \in DOMAIN reqs : reqs'[r] = reqs[r] /\ r < n
      /\ reqs'[n] = [op |-> op, on |-> x]
      /\ \A r \in DOMAIN reqs' : reqs'[r].on \in DOMAIN reqs'
  BY <1>2, HandledFacts DEF DocInv
<1>4. Extends(reqs, reqs', n)
  <2>1. DOMAIN reqs \subseteq Nat /\ n \in Nat
    <3>1. reqs \in Seq([op : Ops, on : Ids])
      BY DEF DocInv, StoreInv, TypeOK, Ops
    <3>2. DOMAIN reqs = 1..Len(reqs)
      BY <3>1
    <3> QED BY <1>3, <3>2, BoundsAssumption DEF Ids
  <2> QED BY <1>3, <2>1 DEF Extends, DocInv, StoreInv
<1>5. /\ RowsFrom(reqs, mem) /\ RowsFrom(reqs, disk) /\ mem \in Db /\ disk \in Db
      /\ \A k \in DOMAIN jobs : RowsFrom(reqs, jobs[k].data) /\ jobs[k].data \in Db
  BY DEF DocInv, StoreInv, Known, RowsFrom
<1>6. /\ RowsFrom(reqs', db) /\ DOMAIN db.docs \subseteq DOMAIN mem.docs \cup {n}
      /\ ShowsIn(reqs', db, n)
      /\ \A r \in DOMAIN reqs : ShowsIn(reqs, mem, r) => ShowsIn(reqs', db, r)
  BY <1>1, <1>3, <1>4, <1>5, EffectShows
<1>7. /\ \A r \in DOMAIN reqs : ShowsIn(reqs, disk, r) => ShowsIn(reqs', disk, r)
      /\ \A k \in DOMAIN jobs : \A r \in DOMAIN reqs :
            ShowsIn(reqs, jobs[k].data, r) => ShowsIn(reqs', jobs[k].data, r)
  BY <1>4, <1>5, ShowsExtends
<1>8. /\ Len(jobs) \in 0..2 /\ DOMAIN jobs = 1..Len(jobs) /\ (jobs # <<>> => Len(jobs) \in 1..2)
      /\ \A k \in DOMAIN jobs : jobs[k].by \subseteq DOMAIN reqs
      /\ answered \subseteq DOMAIN reqs /\ (jobs # <<>> => owner \in DOMAIN reqs)
  BY JobFacts DEF DocInv, StoreInv, TypeOK
<1>9. /\ jobs' \in Seq([data : Db, by : SUBSET DOMAIN reqs'])
      /\ Len(jobs') \in 1..2 /\ DOMAIN jobs' = 1..Len(jobs') /\ jobs' # <<>>
      /\ jobs = <<>> => Len(jobs') = 1 /\ jobs'[1].data = db /\ jobs'[1].by = {} /\ owner' = n
      /\ jobs # <<>> => /\ Len(jobs') = 2 /\ jobs'[1] = jobs[1] /\ jobs'[2].data = db
                        /\ \A r \in jobs'[2].by : r = n \/ (Len(jobs) = 2 /\ r \in jobs[2].by)
                        /\ owner' = owner
  BY <1>2, <1>3, WriteJobs DEF DocInv
<1>10. \A k \in DOMAIN jobs' : jobs'[k].data = db \/ (k = 1 /\ jobs # <<>> /\ jobs'[k] = jobs[1])
  BY <1>9
<1>11. jobs # <<>> => 1 \in DOMAIN jobs
  BY <1>8
<1> HIDE DEF n
<1>12. StoreInv'
  <2>1. Known(mem)' /\ Known(disk)'
    BY <1>2, <1>3, <1>5, <1>6 DEF Known, RowsFrom
  <2>2. \A k \in DOMAIN jobs' : Known(jobs[k].data)'
    BY <1>3, <1>5, <1>6, <1>10, <1>11 DEF Known, RowsFrom
  <2>3. jobs' # <<>> => owner' \in DOMAIN reqs'
    BY <1>3, <1>8, <1>9
  <2>4. renamed' => jobs' # <<>> /\ disk' = jobs'[1].data
    BY <1>2, <1>9 DEF DocInv, StoreInv, TypeOK
  <2>5. TypeOK'
    <3>1. owner' \in 0..Len(reqs')
      BY <1>3, <1>8, <1>9 DEF DocInv, StoreInv, TypeOK
    <3>2. Len(jobs') <= 2
      BY <1>9
    <3> QED BY <1>2, <1>3, <1>9, <2>1, <2>4, <3>1, <3>2 DEF DocInv, StoreInv, TypeOK, Known, Ops
  <2> QED BY <1>2, <1>3, <2>1, <2>2, <2>3, <2>4, <2>5 DEF DocInv, StoreInv
<1>13. DurableInv'
  <2>1. ASSUME NEW r \in answered'
        PROVE  /\ ShowsIn(reqs', disk', r) /\ ShowsIn(reqs', mem', r)
               /\ \A k \in DOMAIN jobs' : ShowsIn(reqs', jobs'[k].data, r)
    <3>1. r \in answered /\ r \in DOMAIN reqs
      BY <1>2, <1>8
    <3> QED BY <3>1, <1>2, <1>6, <1>7, <1>10, <1>11 DEF DocInv, DurableInv
  <2>2. ASSUME NEW k \in DOMAIN jobs', NEW r \in jobs'[k].by
        PROVE  /\ ShowsIn(reqs', mem', r)
               /\ \A j \in DOMAIN jobs' : j >= k => ShowsIn(reqs', jobs'[j].data, r)
    <3>1. CASE jobs = <<>>
      BY <1>9, <2>2, <3>1
    <3>2. CASE jobs # <<>> /\ k = 1
      <4>1. r \in jobs[1].by /\ 1 \in DOMAIN jobs /\ r \in DOMAIN reqs
        BY <1>8, <1>9, <1>11, <3>2, <2>2
      <4>2. ShowsIn(reqs, mem, r) /\ ShowsIn(reqs, jobs[1].data, r)
        BY <4>1 DEF DocInv, DurableInv
      <4> QED BY <1>2, <1>6, <1>7, <1>10, <1>11, <4>1, <4>2
    <3>3. CASE jobs # <<>> /\ k = 2
      <4>1. r = n \/ (Len(jobs) = 2 /\ r \in jobs[2].by)
        BY <1>9, <2>2, <3>3
      <4>2. r # n => r \in DOMAIN reqs /\ ShowsIn(reqs, mem, r)
        BY <1>8, <4>1 DEF DocInv, DurableInv
      <4>3. ShowsIn(reqs', db, r)
        BY <1>6, <4>2
      <4>4. \A j \in DOMAIN jobs' : j >= k => jobs'[j].data = db
        BY <1>9, <3>3
      <4> QED BY <1>2, <4>3, <4>4
    <3> QED BY <1>9, <2>2, <3>1, <3>2, <3>3
  <2>3. ASSUME jobs' # <<>>
        PROVE  /\ ShowsIn(reqs', mem', owner')
               /\ \A k \in DOMAIN jobs' : ShowsIn(reqs', jobs'[k].data, owner')
    <3>1. CASE jobs = <<>>
      BY <1>2, <1>6, <1>9, <1>10, <3>1
    <3>2. CASE jobs # <<>>
      <4>1. /\ owner' = owner /\ owner \in DOMAIN reqs
            /\ ShowsIn(reqs, mem, owner) /\ ShowsIn(reqs, jobs[1].data, owner)
        BY <1>8, <1>9, <1>11, <3>2 DEF DocInv, DurableInv
      <4> QED BY <1>2, <1>6, <1>7, <1>10, <1>11, <4>1
    <3> QED BY <3>1, <3>2
  <2> QED BY <2>1, <2>2, <2>3 DEF DurableInv
<1>14. FileInv'
  <2>1. ASSUME NEW d \in written', file'[d] = "none"
        PROVE  /\ d \notin DOMAIN mem'.docs /\ d \notin DOMAIN disk'.docs
               /\ \A k \in DOMAIN jobs' : d \notin DOMAIN jobs'[k].data.docs
    <3>1. d \in written /\ file[d] = "none" /\ d \in DOMAIN reqs /\ d # n
      BY <1>2, <1>3, <2>1 DEF DocInv, StoreInv
    <3>2. d \notin DOMAIN db.docs
      BY <1>6, <3>1 DEF DocInv, FileInv
    <3> QED BY <1>2, <1>10, <1>11, <3>1, <3>2 DEF DocInv, FileInv
  <2>2. ~cut' => /\ \A d \in Ids : file'[d] # "torn"
                 /\ NoneTorn(mem') /\ NoneTorn(disk')
                 /\ \A k \in DOMAIN jobs' : NoneTorn(jobs'[k].data)
    BY <1>1, <1>2, <1>10, <1>11 DEF DocInv, FileInv
  <2> QED BY <2>1, <2>2 DEF FileInv, NoneTorn
<1>15. NoGhostFile'
  <2>1. ASSUME NEW r \in answered', Is(r, "delete")', reqs'[r].on \notin late'
        PROVE  file'[reqs'[r].on] = "none"
    <3>1. r \in answered /\ r \in DOMAIN reqs /\ reqs'[r] = reqs[r]
      BY <1>2, <1>3, <1>8, <2>1
    <3> QED BY <1>2, <2>1, <3>1 DEF Is, DocInv, NoGhostFile
  <2> QED BY <2>1 DEF NoGhostFile
<1> QED BY <1>12, <1>13, <1>14, <1>15 DEF DocInv

\* Every handler of the service is a request with its effect on db.data.
LEMMA HandlersAreRequests ==
    ASSUME DocInv,
           \/ CreateDocument
           \/ \E d \in {r \in DOMAIN reqs : Is(r, "create")} :
                 UpdateDocument(d) \/ DeleteDocument(d) \/ CreateState(d) \/ AddComment(d)
           \/ \E c \in DOMAIN mem.comments : ResolveComment(c) \/ DeleteComment(c)
    PROVE  AnyRequest
<1>1. /\ mem \in Db /\ mem.docs \in Partial(Ids, Ids) /\ mem.states \in Partial(Ids, Contents)
      /\ mem.comments \in Partial(Ids, Ids)
      /\ DOMAIN mem.docs \subseteq DOMAIN reqs /\ DOMAIN mem.comments \subseteq DOMAIN reqs
      /\ ~cut => NoneTorn(mem)
  BY DEF DocInv, StoreInv, FileInv, Known, Db
<1>2. DOMAIN reqs = 1..Len(reqs) /\ Len(reqs) \in Nat
  <2>1. reqs \in Seq([op : Ops, on : Ids])
    BY DEF DocInv, StoreInv, TypeOK, Ops
  <2> QED BY <2>1
<1>3. DOMAIN reqs \subseteq 1..Fresh /\ Fresh \in 1..Fresh
  BY <1>2 DEF Fresh
<1>4. Len(reqs) < MaxRequests => Fresh \in Ids
  BY <1>2, BoundsAssumption DEF Fresh, Ids
<1>5. DOMAIN reqs \subseteq Ids
  BY <1>2, BoundsAssumption DEF DocInv, StoreInv, TypeOK, Ids
<1>6. \A f \in Partial(Ids, Ids) : \A x \in Ids, v \in Ids : Put(f, x, v) \in Partial(Ids, Ids)
  BY PutType
<1>7. /\ \A f \in Partial(Ids, Ids) : \A X : Drop(f, X) \in Partial(Ids, Ids)
      /\ \A f \in Partial(Ids, Contents) : \A X : Drop(f, X) \in Partial(Ids, Contents)
  BY DropType
<1>8. \A op \in Ops, x \in 1..Fresh, db \in Db :
        Request(op, x, db) /\ Effect(reqs, Fresh, op, x, mem, db) /\ (~cut => NoneTorn(db))
          => AnyRequest
  BY DEF AnyRequest
<1>9. \A op, x, db : Request(op, x, db) => Len(reqs) < MaxRequests
  BY DEF Request
<1>10. ASSUME CreateDocument PROVE AnyRequest
  <2> DEFINE db == [mem EXCEPT !.docs = Put(@, Fresh, Fresh)]
  <2>1. Request("create", Fresh, db) /\ Fresh \in Ids
    BY <1>4, <1>9, <1>10 DEF CreateDocument
  <2>2. db \in Db /\ db.states = mem.states
    BY <1>1, <1>6, <2>1 DEF Db
  <2>3. Effect(reqs, Fresh, "create", Fresh, mem, db)
    BY DEF Effect
  <2> HIDE DEF db
  <2> QED BY <1>1, <1>3, <1>8, <2>1, <2>2, <2>3 DEF Ops, NoneTorn
<1>11. ASSUME NEW d \in DOMAIN reqs, UpdateDocument(d) PROVE AnyRequest
  <2> DEFINE db == [mem EXCEPT !.docs = Put(@, d, Fresh)]
  <2>1. Request("retitle", d, db) /\ Fresh \in Ids /\ d \in Ids /\ d \in DOMAIN mem.docs
    BY <1>4, <1>5, <1>9, <1>11 DEF UpdateDocument
  <2>2. db \in Db /\ db.states = mem.states
    BY <1>1, <1>6, <2>1 DEF Db
  <2>3. Effect(reqs, Fresh, "retitle", d, mem, db)
    BY <2>1 DEF Effect
  <2> HIDE DEF db
  <2> QED BY <1>1, <1>3, <1>8, <2>1, <2>2, <2>3 DEF Ops, NoneTorn
<1>12. ASSUME NEW d \in DOMAIN reqs, DeleteDocument(d) PROVE AnyRequest
  <2> DEFINE db == [docs |-> Drop(mem.docs, {d}),
                    states |-> Drop(mem.states, RowsIn(reqs, mem.states, d)),
                    comments |-> Drop(mem.comments, RowsIn(reqs, mem.comments, d))]
  <2>1. Request("delete", d, db)
    BY <1>12 DEF DeleteDocument, RowsOf, RowsIn
  <2>2. db \in Db /\ db.states = Drop(mem.states, RowsIn(reqs, mem.states, d))
    BY <1>1, <1>7 DEF Db
  <2>3. Effect(reqs, Fresh, "delete", d, mem, db)
    BY DEF Effect
  <2> HIDE DEF db
  <2>4. ~cut => NoneTorn(db)
    BY <1>1, <2>2 DEF NoneTorn, Drop
  <2> QED BY <1>3, <1>8, <2>1, <2>2, <2>3, <2>4 DEF Ops
<1>13. ASSUME NEW d \in DOMAIN reqs, CreateState(d) PROVE AnyRequest
  <2> DEFINE c == IF d \in rooms THEN "good" ELSE file[d]
             db == [mem EXCEPT !.states = Put(@, Fresh, c)]
  <2>1. Request("state", d, db) /\ Fresh \in Ids /\ d \in Ids /\ (d \in rooms \/ file[d] # "none")
    BY <1>4, <1>5, <1>9, <1>13 DEF CreateState
  <2>2. c \in Contents /\ (~cut => c # "torn")
    BY <2>1 DEF DocInv, StoreInv, TypeOK, FileInv, Contents
  <2> HIDE DEF c
  <2>3. Put(mem.states, Fresh, c) \in Partial(Ids, Contents)
    BY <1>1, <2>1, <2>2, PutType
  <2>4. db \in Db /\ db.states = Put(mem.states, Fresh, c)
    BY <1>1, <2>3 DEF Db
  <2>5. Effect(reqs, Fresh, "state", d, mem, db)
    BY <2>2 DEF Effect
  <2> HIDE DEF db
  <2>6. ~cut => NoneTorn(db)
    BY <1>1, <2>2, <2>4 DEF NoneTorn, Put
  <2> QED BY <1>3, <1>8, <2>1, <2>4, <2>5, <2>6 DEF Ops
<1>14. ASSUME NEW d \in DOMAIN reqs, AddComment(d) PROVE AnyRequest
  <2> DEFINE db == [mem EXCEPT !.comments = Put(@, Fresh, Fresh)]
  <2>1. Request("comment", d, db) /\ Fresh \in Ids
    BY <1>4, <1>9, <1>14 DEF AddComment
  <2>2. db \in Db /\ db.states = mem.states
    BY <1>1, <1>6, <2>1 DEF Db
  <2>3. Effect(reqs, Fresh, "comment", d, mem, db)
    BY DEF Effect
  <2> HIDE DEF db
  <2> QED BY <1>1, <1>3, <1>8, <2>1, <2>2, <2>3 DEF Ops, NoneTorn
<1>15. ASSUME NEW c \in DOMAIN mem.comments, ResolveComment(c) PROVE AnyRequest
  <2> DEFINE db == [mem EXCEPT !.comments = Put(@, c, Fresh)]
  <2>1. Request("resolve", c, db) /\ Fresh \in Ids /\ c \in Ids /\ c \in DOMAIN reqs
    BY <1>1, <1>4, <1>5, <1>9, <1>15 DEF ResolveComment
  <2>2. db \in Db /\ db.states = mem.states
    BY <1>1, <1>6, <2>1 DEF Db
  <2>3. Effect(reqs, Fresh, "resolve", c, mem, db)
    BY DEF Effect
  <2> HIDE DEF db
  <2> QED BY <1>1, <1>3, <1>8, <2>1, <2>2, <2>3 DEF Ops, NoneTorn
<1>16. ASSUME NEW c \in DOMAIN mem.comments, DeleteComment(c) PROVE AnyRequest
  <2> DEFINE db == [mem EXCEPT !.comments = Drop(@, {c})]
  <2>1. Request("remove", c, db) /\ c \in DOMAIN reqs
    BY <1>1, <1>16 DEF DeleteComment
  <2>2. db \in Db /\ db.states = mem.states
    BY <1>1, <1>7 DEF Db
  <2>3. Effect(reqs, Fresh, "remove", c, mem, db)
    BY DEF Effect
  <2> HIDE DEF db
  <2> QED BY <1>1, <1>3, <1>8, <2>1, <2>2, <2>3 DEF Ops, NoneTorn
<1> QED BY <1>10, <1>11, <1>12, <1>13, <1>14, <1>15, <1>16

\* The write in flight replaces db.json.
LEMMA RenameStep ==
    ASSUME DocInv, Rename
    PROVE  DocInv'
<1>1. /\ jobs # <<>> /\ disk' = jobs[1].data /\ renamed' = TRUE
      /\ UNCHANGED <<reqs, answered, mem, jobs, owner, rooms, file, written, late, cut, crashes>>
  BY DEF Rename, fileVars
<1>2. 1 \in DOMAIN jobs /\ jobs[1].data \in Db /\ Known(jobs[1].data)
  BY <1>1, JobFacts DEF DocInv, StoreInv
<1>3. StoreInv'
  BY <1>1, <1>2 DEF DocInv, StoreInv, TypeOK, Known
<1>4. DurableInv'
  BY <1>1, <1>2 DEF DocInv, DurableInv
<1>5. FileInv'
  BY <1>1, <1>2 DEF DocInv, FileInv, NoneTorn
<1>6. NoGhostFile'
  BY <1>1 DEF DocInv, NoGhostFile, Is
<1> QED BY <1>3, <1>4, <1>5, <1>6 DEF DocInv

\* The requests that continue show in every text there is, so their answers
\* are true, and a state file is unlinked only when its record is gone.
LEMMA WriteDoneStep ==
    ASSUME DocInv, WriteDone
    PROVE  DocInv'
<1>1. /\ renamed /\ answered' = answered \cup Continuing
      /\ file' = [d \in Ids |-> IF d \in Unlinked THEN "none" ELSE file[d]]
      /\ jobs' = Tail(jobs) /\ renamed' = FALSE
      /\ UNCHANGED <<reqs, mem, disk, owner, rooms, written, late, cut, crashes>>
  BY DEF WriteDone
<1>2. jobs # <<>> /\ disk = jobs[1].data /\ owner \in DOMAIN reqs
  BY <1>1 DEF DocInv, StoreInv, TypeOK
<1>3. /\ Len(jobs) \in 1..2 /\ DOMAIN jobs = 1..Len(jobs) /\ 1 \in DOMAIN jobs
      /\ \A k \in DOMAIN jobs : jobs[k].data \in Db /\ jobs[k].by \subseteq DOMAIN reqs
  BY <1>2, JobFacts DEF DocInv
<1>4. /\ jobs' \in Jobs' /\ Len(jobs') <= 2 /\ DOMAIN jobs' = 1..Len(jobs')
      /\ \A k \in DOMAIN jobs' : k + 1 \in DOMAIN jobs /\ jobs'[k] = jobs[k + 1] /\ k \in Nat
  <2> DEFINE T == [data : Db, by : SUBSET DOMAIN reqs]
  <2>1. jobs \in Seq(T)
    BY DEF DocInv, StoreInv, TypeOK
  <2> HIDE DEF T
  <2>2. /\ Tail(jobs) \in Seq(T) /\ Len(Tail(jobs)) = Len(jobs) - 1
        /\ \A k \in 1..Len(jobs) - 1 : Tail(jobs)[k] = jobs[k + 1]
    BY <1>2, <1>3, <2>1
  <2>3. DOMAIN Tail(jobs) = 1..Len(jobs) - 1
    BY <2>2
  <2>4. Len(Tail(jobs)) <= 2
    BY <1>3, <2>2
  <2>5. \A k \in 1..Len(jobs) - 1 : k + 1 \in DOMAIN jobs /\ k \in Nat
    BY <1>3
  <2>6. Tail(jobs) \in Jobs'
    BY <1>1, <2>2 DEF T, Jobs
  <2> QED BY <1>1, <2>2, <2>3, <2>4, <2>5, <2>6
<1>5. \A r \in Continuing : /\ r \in DOMAIN reqs /\ ShowsIn(reqs, mem, r)
                             /\ \A k \in DOMAIN jobs : ShowsIn(reqs, jobs[k].data, r)
  <2>1. \A k \in DOMAIN jobs : k >= 1
    BY <1>3
  <2> QED BY <1>2, <1>3, <2>1 DEF Continuing, DocInv, DurableInv
<1>6. \A d \in Unlinked : /\ d \notin DOMAIN mem.docs
                           /\ \A k \in DOMAIN jobs : d \notin DOMAIN jobs[k].data.docs
  BY <1>5 DEF Unlinked, Is, IsIn, ShowsIn
<1>7. StoreInv'
  <2>1. \A k \in DOMAIN jobs' : Known(jobs[k].data)'
    BY <1>1, <1>4 DEF DocInv, StoreInv, Known
  <2>2. file' \in [Ids -> Contents \cup {"none"}]
    BY <1>1 DEF DocInv, StoreInv, TypeOK
  <2>3. answered' \subseteq DOMAIN reqs
    BY <1>1, <1>5 DEF DocInv, StoreInv, TypeOK
  <2>4. TypeOK'
    BY <1>1, <1>4, <2>2, <2>3 DEF DocInv, StoreInv, TypeOK, Jobs
  <2> QED BY <1>1, <1>2, <2>1, <2>4 DEF DocInv, StoreInv, Known
<1>8. DurableInv'
  <2>1. \A r \in answered' : /\ ShowsIn(reqs, disk, r) /\ ShowsIn(reqs, mem, r)
                             /\ \A k \in DOMAIN jobs : ShowsIn(reqs, jobs[k].data, r)
    BY <1>1, <1>2, <1>3, <1>5 DEF DocInv, DurableInv
  <2>2. \A k \in DOMAIN jobs' : \A r \in jobs'[k].by :
          /\ ShowsIn(reqs, mem, r)
          /\ \A j \in DOMAIN jobs' : j >= k => ShowsIn(reqs, jobs'[j].data, r)
    <3> SUFFICES ASSUME NEW k \in DOMAIN jobs', NEW r \in jobs'[k].by
                 PROVE  /\ ShowsIn(reqs, mem, r)
                        /\ \A j \in DOMAIN jobs' : j >= k => ShowsIn(reqs, jobs'[j].data, r)
      OBVIOUS
    <3>1. k + 1 \in DOMAIN jobs /\ r \in jobs[k + 1].by
      BY <1>4
    <3>2. \A j \in DOMAIN jobs' : j >= k => j + 1 \in DOMAIN jobs /\ j + 1 >= k + 1
      BY <1>4
    <3> QED BY <1>4, <3>1, <3>2 DEF DocInv, DurableInv
  <2>3. ShowsIn(reqs, mem, owner) /\ \A k \in DOMAIN jobs : ShowsIn(reqs, jobs[k].data, owner)
    BY <1>2 DEF DocInv, DurableInv
  <2> QED BY <1>1, <1>4, <2>1, <2>2, <2>3 DEF DurableInv
<1>9. FileInv'
  <2>1. ASSUME NEW d \in written, file'[d] = "none"
        PROVE  /\ d \notin DOMAIN mem.docs /\ d \notin DOMAIN disk.docs
               /\ \A k \in DOMAIN jobs : d \notin DOMAIN jobs[k].data.docs
    <3>1. CASE d \in Unlinked
      BY <1>2, <1>3, <1>6, <3>1
    <3>2. CASE d \notin Unlinked
      BY <1>1, <2>1, <3>2 DEF DocInv, FileInv, StoreInv, TypeOK
    <3> QED BY <3>1, <3>2
  <2>2. ~cut => /\ \A d \in Ids : file'[d] # "torn"
                /\ NoneTorn(mem) /\ NoneTorn(disk)
                /\ \A k \in DOMAIN jobs' : NoneTorn(jobs'[k].data)
    BY <1>1, <1>4 DEF DocInv, FileInv
  <2> QED BY <1>1, <1>4, <2>1, <2>2 DEF FileInv, NoneTorn
<1>10. NoGhostFile'
  <2>1. ASSUME NEW r \in answered', Is(r, "delete"), reqs[r].on \notin late
        PROVE  file'[reqs[r].on] = "none"
    <3>1. reqs[r].on \in Ids
      BY <2>1, IdFacts DEF Is, DocInv, StoreInv
    <3>2. CASE r \in Continuing
      <4>1. reqs[r].on \in Unlinked
        BY <2>1, <3>2 DEF Unlinked
      <4> QED BY <1>1, <3>1, <4>1
    <3>3. CASE r \in answered
      BY <1>1, <2>1, <3>1, <3>3 DEF DocInv, NoGhostFile
    <3> QED BY <1>1, <3>2, <3>3
  <2> QED BY <1>1, <2>1 DEF NoGhostFile, Is
<1> QED BY <1>7, <1>8, <1>9, <1>10 DEF DocInv

-----------------------------------------------------------------------------
(* State files and crashes.                                                *)

\* A document whose deletion was answered has no record.
LEMMA AnsweredHasNoRecord ==
    ASSUME DocInv, NEW r \in answered, Is(r, "delete")
    PROVE  reqs[r].on \notin DOMAIN mem.docs
BY DEF DocInv, DurableInv, ShowsIn, Is, IsIn

\* Saving a state file, with the rest of the state as it is or restarted.
LEMMA SaveKeeps ==
    ASSUME DocInv, NEW d \in DOMAIN reqs, NEW c \in Contents, Save(d, c),
           UNCHANGED <<reqs, answered>>, cut' \in BOOLEAN, cut => cut', ~cut' => c # "torn"
    PROVE  /\ file' \in [Ids -> Contents \cup {"none"}]
           /\ written' \subseteq DOMAIN reqs /\ late' \subseteq Ids
           /\ \A x \in written' : file'[x] = "none" => x \in written /\ file[x] = "none"
           /\ ~cut' => \A x \in Ids : file'[x] # "torn"
           /\ NoGhostFile'
<1>1. /\ file' = [file EXCEPT ![d] = c] /\ written' = written \cup {d}
      /\ late' = IF d \in DOMAIN mem.docs THEN late ELSE late \cup {d}
  BY DEF Save
<1>2. file \in [Ids -> Contents \cup {"none"}] /\ d \in Ids /\ late \subseteq Ids
  BY IdFacts DEF DocInv, StoreInv, TypeOK
<1>3. \A x \in Ids : file'[x] = IF x = d THEN c ELSE file[x]
  BY <1>1, <1>2
<1>4. c # "none"
  BY DEF Contents
<1>5. written' \subseteq DOMAIN reqs /\ DOMAIN reqs \subseteq Ids
  BY <1>1, IdFacts DEF DocInv, StoreInv
<1>6. \A x \in written' : file'[x] = "none" => x \in written /\ file[x] = "none"
  BY <1>1, <1>3, <1>4, <1>5
<1>7. ~cut' => \A x \in Ids : file'[x] # "torn"
  BY <1>3 DEF DocInv, FileInv
<1>8. NoGhostFile'
  <2>1. ASSUME NEW r \in answered, Is(r, "delete"), reqs[r].on \notin late'
        PROVE  file'[reqs[r].on] = "none"
    <3>1. reqs[r].on \in Ids
      BY <2>1, IdFacts DEF Is, DocInv, StoreInv
    <3>2. reqs[r].on # d
      BY <1>1, <2>1, AnsweredHasNoRecord
    <3> QED BY <1>1, <1>3, <2>1, <3>1, <3>2 DEF DocInv, NoGhostFile
  <2> QED BY <2>1 DEF NoGhostFile, Is
<1> QED BY <1>1, <1>2, <1>5, <1>6, <1>7, <1>8

\* A save while the server goes on.
LEMMA SaveStep ==
    ASSUME DocInv, NEW d \in DOMAIN reqs, NEW c \in Contents, Save(d, c),
           UNCHANGED <<dbVars, rooms, crashes>>, cut' = cut \/ cut' = TRUE, ~cut' => c # "torn"
    PROVE  DocInv'
<1>1. UNCHANGED <<reqs, answered, mem, disk, jobs, renamed, owner, rooms, crashes>>
  BY DEF dbVars
<1>2. cut' \in BOOLEAN /\ (~cut' => ~cut)
  BY DEF DocInv, StoreInv, TypeOK
<1>3. /\ file' \in [Ids -> Contents \cup {"none"}]
      /\ written' \subseteq DOMAIN reqs /\ late' \subseteq Ids
      /\ \A x \in written' : file'[x] = "none" => x \in written /\ file[x] = "none"
      /\ ~cut' => \A x \in Ids : file'[x] # "torn"
      /\ NoGhostFile'
  BY <1>1, <1>2, SaveKeeps
<1>4. StoreInv'
  BY <1>1, <1>2, <1>3, IdFacts DEF DocInv, StoreInv, TypeOK, Known
<1>5. DurableInv'
  BY <1>1 DEF DocInv, DurableInv
<1>6. FileInv'
  BY <1>1, <1>2, <1>3 DEF DocInv, FileInv, NoneTorn
<1> QED BY <1>3, <1>4, <1>5, <1>6 DEF DocInv

\* A restart reads db.json and has no job, no room and no request under way.
LEMMA RestartKeeps ==
    ASSUME DocInv, Restart,
           file' \in [Ids -> Contents \cup {"none"}],
           written' \subseteq DOMAIN reqs, late' \subseteq Ids, cut' \in BOOLEAN, cut => cut',
           \A x \in written' : file'[x] = "none" => x \in written /\ file[x] = "none",
           ~cut' => \A x \in Ids : file'[x] # "torn"
    PROVE  StoreInv' /\ DurableInv' /\ FileInv'
<1>1. /\ crashes < MaxCrashes /\ crashes' = crashes + 1 /\ mem' = disk /\ jobs' = <<>>
      /\ renamed' = FALSE /\ owner' = 0 /\ rooms' = {} /\ UNCHANGED <<reqs, answered, disk>>
  BY DEF Restart
<1>2. jobs' \in Seq([data : Db, by : SUBSET DOMAIN reqs']) /\ Len(jobs') <= 2 /\ DOMAIN jobs' = {}
  BY <1>1
<1>3. crashes' \in 0..MaxCrashes /\ owner' \in 0..Len(reqs')
  BY <1>1, IdFacts, BoundsAssumption DEF DocInv, StoreInv, TypeOK
<1>4. written' \subseteq Ids
  BY IdFacts DEF DocInv
<1>5. TypeOK'
  BY <1>1, <1>2, <1>3, <1>4 DEF DocInv, StoreInv, TypeOK
<1>6. StoreInv'
  BY <1>1, <1>2, <1>5 DEF DocInv, StoreInv, Known
<1>7. DurableInv'
  BY <1>1, <1>2 DEF DocInv, DurableInv
<1>8. FileInv'
  BY <1>1, <1>2 DEF DocInv, FileInv, NoneTorn
<1> QED BY <1>6, <1>7, <1>8

\* A crash between two turns of the event loop.
LEMMA CrashStep ==
    ASSUME DocInv, Crash
    PROVE  DocInv'
<1>1. Restart /\ UNCHANGED <<file, written, late, cut, reqs, answered>>
  BY DEF Crash, Restart
<1>2. /\ file' \in [Ids -> Contents \cup {"none"}] /\ written' \subseteq DOMAIN reqs
      /\ late' \subseteq Ids /\ cut' \in BOOLEAN /\ (cut => cut')
      /\ \A x \in written' : file'[x] = "none" => x \in written /\ file[x] = "none"
      /\ ~cut' => \A x \in Ids : file'[x] # "torn"
  BY <1>1 DEF DocInv, StoreInv, TypeOK, FileInv
<1>3. NoGhostFile'
  BY <1>1 DEF DocInv, NoGhostFile, Is
<1> QED BY <1>1, <1>2, <1>3, RestartKeeps DEF DocInv

\* A crash inside a save.
LEMMA TornSaveStep ==
    ASSUME DocInv, NEW d \in DOMAIN reqs, TornSave(d)
    PROVE  DocInv'
<1>1. Save(d, "torn") /\ Restart /\ cut' = TRUE /\ UNCHANGED <<reqs, answered>>
  BY DEF TornSave, Restart
<1>2. "torn" \in Contents
  BY DEF Contents
<1>3. /\ file' \in [Ids -> Contents \cup {"none"}]
      /\ written' \subseteq DOMAIN reqs /\ late' \subseteq Ids
      /\ \A x \in written' : file'[x] = "none" => x \in written /\ file[x] = "none"
      /\ NoGhostFile'
  BY <1>1, <1>2, SaveKeeps
<1> QED BY <1>1, <1>3, RestartKeeps DEF DocInv

\* Rooms come and go.
LEMMA RoomStep ==
    ASSUME DocInv, NEW d \in DOMAIN reqs, UNCHANGED <<dbVars, file, written, late, cut, crashes>>,
           rooms' \subseteq rooms \cup {d}
    PROVE  DocInv'
<1>1. UNCHANGED <<reqs, answered, mem, disk, jobs, renamed, owner, file, written, late, cut, crashes>>
  BY DEF dbVars
<1>2. rooms' \subseteq DOMAIN reqs /\ rooms' \subseteq Ids
  BY IdFacts DEF DocInv, StoreInv
<1>3. StoreInv'
  BY <1>1, <1>2 DEF DocInv, StoreInv, TypeOK, Known
<1>4. DurableInv' /\ FileInv' /\ NoGhostFile'
  BY <1>1 DEF DocInv, DurableInv, FileInv, NoneTorn, NoGhostFile, Is
<1> QED BY <1>3, <1>4 DEF DocInv

\* Every step keeps DocInv.
LEMMA InvStep == DocInv /\ [Next]_vars => DocInv'
<1> SUFFICES ASSUME DocInv, [Next]_vars PROVE DocInv' OBVIOUS
<1>1. ASSUME AnyRequest PROVE DocInv'
  BY <1>1, RequestStep
<1>2. ASSUME NEW d \in DOMAIN reqs, Join(d) \/ Leave(d) PROVE DocInv'
  <2>1. CASE Crash
    BY <2>1, CrashStep
  <2>2. CASE ~Crash
    <3>1. UNCHANGED <<dbVars, file, written, late, cut, crashes>> /\ rooms' \subseteq rooms \cup {d}
      BY <1>2, <2>2 DEF Join, Leave
    <3> QED BY <3>1, RoomStep
  <2> QED BY <2>1, <2>2
<1>3. ASSUME NEW d \in DOMAIN reqs, RoomUpdate(d) PROVE DocInv'
  <2>1. Save(d, "good") /\ UNCHANGED <<dbVars, rooms, cut, crashes>> /\ "good" \in Contents
    BY <1>3 DEF RoomUpdate, Contents
  <2> QED BY <2>1, SaveStep
<1>4. ASSUME NEW d \in DOMAIN reqs, NEW v \in DOMAIN mem.states, RestoreState(d, v) PROVE DocInv'
  <2>1. Save(d, mem.states[v]) /\ UNCHANGED <<dbVars, rooms, cut, crashes>>
    BY <1>4 DEF RestoreState
  <2>2. mem.states[v] \in Contents /\ (~cut => mem.states[v] # "torn")
    <3>1. mem.states \in Partial(Ids, Contents)
      BY DEF DocInv, StoreInv, Known, Db
    <3>2. mem.states[v] \in Contents
      BY <3>1, PartialMember
    <3> QED BY <3>2 DEF DocInv, FileInv, NoneTorn
  <2> QED BY <2>1, <2>2, SaveStep
<1>5. ASSUME NEW d \in DOMAIN reqs, RestoreFails(d) PROVE DocInv'
  <2>1. /\ Save(d, "torn") /\ UNCHANGED <<dbVars, rooms, crashes>> /\ cut' = TRUE
        /\ "torn" \in Contents
    BY <1>5 DEF RestoreFails, Contents
  <2> QED BY <2>1, SaveStep
<1>6. CASE UNCHANGED vars
  <2>1. UNCHANGED <<reqs, answered, mem, disk, jobs, renamed, owner, rooms, file, written,
                    late, cut, crashes>>
    BY <1>6 DEF vars
  <2> QED BY <2>1 DEF DocInv, StoreInv, TypeOK, Known, DurableInv, FileInv, NoneTorn, NoGhostFile, Is
<1>7. CASE Next
  <2>1. CASE \/ CreateDocument
             \/ \E d \in {r \in DOMAIN reqs : Is(r, "create")} :
                   UpdateDocument(d) \/ DeleteDocument(d) \/ CreateState(d) \/ AddComment(d)
             \/ \E c \in DOMAIN mem.comments : ResolveComment(c) \/ DeleteComment(c)
    BY <2>1, <1>1, HandlersAreRequests
  <2>2. CASE \E d \in {r \in DOMAIN reqs : Is(r, "create")} :
               \/ Join(d) \/ Leave(d) \/ RoomUpdate(d) \/ TornSave(d) \/ RestoreFails(d)
               \/ \E v \in DOMAIN mem.states : RestoreState(d, v)
    BY <2>2, <1>2, <1>3, <1>4, <1>5, TornSaveStep
  <2>3. CASE Rename \/ WriteDone \/ Crash
    BY <2>3, RenameStep, WriteDoneStep, CrashStep
  <2> QED BY <1>7, <2>1, <2>2, <2>3 DEF Next
<1> QED BY <1>6, <1>7

\* A server that starts with the default data.
LEMMA InitInv == Init => DocInv
<1> SUFFICES ASSUME Init PROVE DocInv OBVIOUS
<1> USE DEF Init
<1>1. DefaultData \in Db
  <2>1. <<>> \in [{} -> Ids] /\ <<>> \in [{} -> Contents]
    OBVIOUS
  <2>2. <<>> \in Partial(Ids, Ids) /\ <<>> \in Partial(Ids, Contents)
    BY <2>1, Zenon DEF Partial
  <2> QED BY <2>2 DEF DefaultData, Db
<1>2. /\ reqs \in Seq([op : Ops, on : Ids]) /\ Len(reqs) = 0 /\ DOMAIN reqs = {}
      /\ jobs \in Seq([data : Db, by : SUBSET DOMAIN reqs]) /\ Len(jobs) = 0 /\ DOMAIN jobs = {}
  OBVIOUS
<1>3. Known(DefaultData)
  BY <1>1 DEF Known, DefaultData
<1>4. TypeOK
  <2>1. /\ Len(reqs) <= MaxRequests /\ Len(jobs) <= 2
        /\ owner \in 0..Len(reqs) /\ crashes \in 0..MaxCrashes
    BY <1>2, BoundsAssumption
  <2>2. mem \in Db /\ disk \in Db
    BY <1>1
  <2>3. file \in [Ids -> Contents \cup {"none"}] /\ renamed = FALSE /\ cut = FALSE
    OBVIOUS
  <2>4. answered = {} /\ rooms = {} /\ written = {} /\ late = {}
    OBVIOUS
  <2> QED BY <1>2, <2>1, <2>2, <2>3, <2>4 DEF TypeOK, Ops
<1>5. StoreInv
  BY <1>2, <1>3, <1>4 DEF StoreInv
<1>6. DurableInv /\ NoGhostFile
  BY DEF DurableInv, NoGhostFile
<1>7. FileInv
  BY <1>2 DEF FileInv, NoneTorn, DefaultData
<1> QED BY <1>5, <1>6, <1>7 DEF DocInv

\* DocInv holds in every reachable state.
LEMMA InvHolds == Spec => []DocInv
BY InitInv, InvStep, PTL DEF Spec

\* Records, jobs and files are well typed.
THEOREM StoreTypeCorrect == Spec => []TypeOK
<1>1. DocInv => TypeOK
  BY DEF DocInv, StoreInv
<1> QED BY <1>1, InvHolds, PTL

\* A change that was answered is in db.json, for any number of requests that
\* share the writer and any number of crashes.
THEOREM AckedIsDurableHolds == Spec => []AckedIsDurable
<1>1. DocInv => AckedIsDurable
  BY ShowsIsShowsIn DEF DocInv, DurableInv, AckedIsDurable
<1> QED BY <1>1, InvHolds, PTL

\* A document that db.json lists has its content.
THEOREM ContentKeptHolds == Spec => []ContentKept
<1>1. DocInv => ContentKept
  <2> SUFFICES ASSUME DocInv, NEW d \in written, d \in DOMAIN disk.docs
               PROVE  file[d] # "none" /\ (~cut => file[d] = "good")
    BY DEF ContentKept
  <2>1. file[d] # "none"
    BY DEF DocInv, FileInv
  <2>2. file[d] \in {"good", "torn", "none"} /\ d \in Ids
    BY DEF DocInv, StoreInv, TypeOK, Contents
  <2> QED BY <2>1, <2>2 DEF DocInv, FileInv
<1> QED BY <1>1, InvHolds, PTL

\* A document whose deletion was answered has no state file unless it was
\* saved when its record was gone.
THEOREM NoGhostFileHolds == Spec => []NoGhostFile
<1>1. DocInv => NoGhostFile
  BY DEF DocInv
<1> QED BY <1>1, InvHolds, PTL
=============================================================================
