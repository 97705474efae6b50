--------------------------- MODULE AppStoreProofs ---------------------------
(***************************************************************************)
(* Theorems about AppStore, for any tabs, pages and components.            *)
(***************************************************************************)
EXTENDS AppStore, TLAPS, SequenceTheorems

-----------------------------------------------------------------------------
(* Lists of components.                                                    *)

\* A list without the element at i.
LEMMA RemoveAtElements ==
    ASSUME NEW S, NEW q \in Seq(S), NEW i \in 1..Len(q)
    PROVE  /\ RemoveAt(q, i) \in Seq(S) /\ Len(RemoveAt(q, i)) = Len(q) - 1
           /\ \A k \in 1..Len(q) - 1 : RemoveAt(q, i)[k] = IF k < i THEN q[k] ELSE q[k + 1]
  <1> DEFINE a == SubSeq(q, 1, i - 1)
             b == SubSeq(q, i + 1, Len(q))
  <1>0. Len(q) \in Nat /\ i \in Nat /\ i >= 1 /\ i <= Len(q)
    OBVIOUS
  <1>1. /\ a \in Seq(S) /\ Len(a) = i - 1
        /\ \A k \in 1..i - 1 : a[k] = q[k]
    BY <1>0
  <1>2. /\ b \in Seq(S) /\ Len(b) = Len(q) - i
        /\ \A k \in 1..Len(q) - i : b[k] = q[k + i]
    BY <1>0
  <1>3. RemoveAt(q, i) = a \o b
    BY DEF RemoveAt
  <1> HIDE DEF a, b
  <1>4. /\ a \o b \in Seq(S) /\ Len(a \o b) = Len(q) - 1
        /\ \A k \in 1..Len(q) - 1 :
              (a \o b)[k] = IF k <= i - 1 THEN a[k] ELSE b[k - (i - 1)]
    <2>1. /\ a \o b \in Seq(S) /\ Len(a \o b) = Len(a) + Len(b)
          /\ \A k \in 1..Len(a) + Len(b) :
                (a \o b)[k] = IF k <= Len(a) THEN a[k] ELSE b[k - Len(a)]
      BY <1>1, <1>2, ConcatProperties
    <2>2. Len(a) + Len(b) = Len(q) - 1
      BY <1>0, <1>1, <1>2
    <2>3. QED
      BY <1>1, <2>1, <2>2
  <1>5. ASSUME NEW k \in 1..Len(q) - 1
        PROVE  (a \o b)[k] = IF k < i THEN q[k] ELSE q[k + 1]
    <2>1. CASE k < i
      BY <1>0, <1>1, <1>4, <2>1
    <2>2. CASE ~(k < i)
      <3>1. (a \o b)[k] = b[k - (i - 1)] /\ k - (i - 1) \in 1..Len(q) - i
        BY <1>0, <1>4, <2>2
      <3>2. k - (i - 1) + i = k + 1
        BY <1>0
      <3>3. QED
        BY <1>2, <2>2, <3>1, <3>2
    <2>3. QED
      BY <2>1, <2>2
  <1>6. QED
    BY <1>3, <1>4, <1>5

(* r is the list q of elements of S with x before the element at j.        *)
Inserts(S, q, j, x, r) ==
    /\ r \in Seq(S) /\ Len(r) = Len(q) + 1
    /\ \A k \in 1..Len(q) + 1 : r[k] = IF k < j THEN q[k] ELSE IF k = j THEN x ELSE q[k - 1]

\* InsertAt puts x before the element at j.
LEMMA InsertAtElements ==
    ASSUME NEW S, NEW q \in Seq(S), NEW j \in 1..Len(q) + 1, NEW x \in S
    PROVE  Inserts(S, q, j, x, InsertAt(q, j, x))
  <1> DEFINE a == SubSeq(q, 1, j - 1)
             e == <<x>>
             b == SubSeq(q, j, Len(q))
             ae == a \o e
  <1>0. Len(q) \in Nat /\ j \in Nat /\ j >= 1 /\ j <= Len(q) + 1
    OBVIOUS
  <1>1. /\ a \in Seq(S) /\ Len(a) = j - 1
        /\ \A k \in 1..j - 1 : a[k] = q[k]
    BY <1>0
  <1>2. /\ b \in Seq(S) /\ Len(b) = Len(q) - j + 1
        /\ \A k \in 1..Len(q) - j + 1 : b[k] = q[k + j - 1]
    BY <1>0
  <1>3. e \in Seq(S) /\ Len(e) = 1 /\ e[1] = x
    OBVIOUS
  <1>4. InsertAt(q, j, x) = ae \o b
    BY DEF InsertAt
  <1> HIDE DEF a, b, e
  <1>5. /\ ae \in Seq(S) /\ Len(ae) = j
        /\ \A k \in 1..j - 1 : ae[k] = q[k]
        /\ ae[j] = x
    <2>1. /\ ae \in Seq(S) /\ Len(ae) = Len(a) + Len(e)
          /\ \A k \in 1..Len(a) + Len(e) :
                ae[k] = IF k <= Len(a) THEN a[k] ELSE e[k - Len(a)]
      BY <1>1, <1>3, ConcatProperties
    <2>2. Len(a) + Len(e) = j
      BY <1>0, <1>1, <1>3
    <2>3. \A k \in 1..j - 1 : k \in 1..j /\ k <= j - 1
      BY <1>0
    <2>4. j \in 1..j /\ ~(j <= j - 1) /\ j - (j - 1) = 1
      BY <1>0
    <2>5. Len(a) = j - 1 /\ Len(ae) = j /\ ae \in Seq(S)
      BY <1>1, <2>1, <2>2
    <2> HIDE DEF ae
    <2>6. \A k \in 1..j : ae[k] = IF k <= j - 1 THEN a[k] ELSE e[k - (j - 1)]
      BY <2>1, <2>2, <2>5
    <2>7. \A k \in 1..j - 1 : ae[k] = q[k]
      BY <1>1, <2>3, <2>6
    <2>8. ae[j] = e[j - (j - 1)]
      BY <2>4, <2>6
    <2>9. ae[j] = x
      BY <1>3, <2>4, <2>8
    <2>10. QED
      BY <2>5, <2>7, <2>9
  <1> HIDE DEF ae
  <1>6. /\ ae \o b \in Seq(S) /\ Len(ae \o b) = Len(q) + 1
        /\ \A k \in 1..Len(q) + 1 : (ae \o b)[k] = IF k <= j THEN ae[k] ELSE b[k - j]
    <2>1. /\ ae \o b \in Seq(S) /\ Len(ae \o b) = Len(ae) + Len(b)
          /\ \A k \in 1..Len(ae) + Len(b) :
                (ae \o b)[k] = IF k <= Len(ae) THEN ae[k] ELSE b[k - Len(ae)]
      BY <1>2, <1>5, ConcatProperties
    <2>2. Len(ae) + Len(b) = Len(q) + 1
      BY <1>0, <1>2, <1>5
    <2>3. QED
      BY <1>5, <2>1, <2>2
  <1>7. ASSUME NEW k \in 1..Len(q) + 1
        PROVE  (ae \o b)[k] = IF k < j THEN q[k] ELSE IF k = j THEN x ELSE q[k - 1]
    <2>1. CASE k <= j
      BY <1>0, <1>5, <1>6, <2>1
    <2>2. CASE ~(k <= j)
      <3>1. (ae \o b)[k] = b[k - j]
        BY <1>6, <2>2
      <3>1a. k - j \in 1..Len(q) - j + 1
        BY <1>0, <2>2
      <3>2. k - j + j - 1 = k - 1
        BY <1>0
      <3>3. QED
        BY <1>0, <1>2, <2>2, <3>1, <3>1a, <3>2
    <2>3. QED
      BY <2>1, <2>2
  <1>8. QED
    BY <1>4, <1>6, <1>7 DEF Inserts

\* A component is deleted: the others remain, each once.
LEMMA Removed ==
    ASSUME NEW q \in Lists, NEW c \in Range(q)
    PROVE  RemoveFirst(q, c) \in Lists /\ Range(RemoveFirst(q, c)) = Range(q) \ {c}
  <1>1. q \in Seq(ComponentIds) /\ Len(q) \in Nat /\ DOMAIN q = 1..Len(q)
        /\ \A k, l \in 1..Len(q) : q[k] = q[l] => k = l
    BY DEF Lists, IsInjective
  <1>2. PICK i \in 1..Len(q) : q[i] = c
    BY <1>1 DEF Range
  <1>3. {k \in 1..Len(q) : q[k] = c} = {i}
    BY <1>1, <1>2
  <1>4. Min({i}) = i
    <2>1. i <= i
      BY <1>1
    <2>2. QED
      BY <2>1 DEF Min
  <1>5. RemoveFirst(q, c) = RemoveAt(q, i)
    BY <1>2, <1>3, <1>4 DEF RemoveFirst, SelectInSeq
  <1> DEFINE r == RemoveAt(q, i)
  <1>6. /\ r \in Seq(ComponentIds) /\ Len(r) = Len(q) - 1 /\ DOMAIN r = 1..Len(r)
        /\ \A k \in 1..Len(q) - 1 : r[k] = IF k < i THEN q[k] ELSE q[k + 1]
    <2>1. /\ r \in Seq(ComponentIds) /\ Len(r) = Len(q) - 1
          /\ \A k \in 1..Len(q) - 1 : r[k] = IF k < i THEN q[k] ELSE q[k + 1]
      BY <1>1, RemoveAtElements, Zenon
    <2> HIDE DEF r
    <2>2. DOMAIN r = 1..Len(r)
      BY <2>1
    <2>3. QED
      BY <2>1, <2>2
  <1> HIDE DEF r
  <1>7. \A k \in 1..Len(r) : \E l \in 1..Len(q) :
            l # i /\ r[k] = q[l] /\ l = (IF k < i THEN k ELSE k + 1)
    BY <1>1, <1>6
  <1>8. IsInjective(r)
    <2> SUFFICES ASSUME NEW k \in 1..Len(r), NEW l \in 1..Len(r), r[k] = r[l]
                 PROVE  k = l
      BY <1>6 DEF IsInjective
    <2>1. (IF k < i THEN k ELSE k + 1) = (IF l < i THEN l ELSE l + 1)
      BY <1>1, <1>7
    <2>2. QED
      BY <1>1, <1>6, <2>1
  <1>9. \A x \in Range(r) : x \in Range(q) \ {c}
    BY <1>1, <1>2, <1>6, <1>7 DEF Range
  <1>10. ASSUME NEW l \in 1..Len(q), l # i PROVE q[l] \in Range(r)
    <2>1. CASE l < i
      <3>1. l \in 1..Len(r) /\ r[l] = q[l]
        BY <1>1, <1>6, <2>1
      <3>2. QED
        BY <1>6, <3>1 DEF Range
    <2>2. CASE ~(l < i)
      <3>1. l - 1 \in 1..Len(r) /\ ~(l - 1 < i) /\ l - 1 + 1 = l
        BY <1>1, <1>6, <1>10, <2>2
      <3>2. r[l - 1] = q[l]
        BY <1>6, <3>1
      <3>3. QED
        BY <1>6, <3>1, <3>2 DEF Range
    <2>3. QED
      BY <2>1, <2>2
  <1>11. \A x \in Range(q) \ {c} : x \in Range(r)
    BY <1>1, <1>2, <1>10 DEF Range
  <1>12. QED
    BY <1>5, <1>6, <1>8, <1>9, <1>11 DEF Lists, r

\* A component is moved: the list has the same components, each once.
LEMMA MovedKeeps ==
    ASSUME NEW q \in Lists, NEW i \in DOMAIN q, NEW j \in DOMAIN q
    PROVE  Moved(q, i, j) \in Lists /\ Range(Moved(q, i, j)) = Range(q)
  <1>1. q \in Seq(ComponentIds) /\ Len(q) \in Nat /\ DOMAIN q = 1..Len(q)
        /\ \A k, l \in 1..Len(q) : q[k] = q[l] => k = l
    BY DEF Lists, IsInjective
  <1>2. i \in 1..Len(q) /\ j \in 1..Len(q) /\ q[i] \in ComponentIds
    BY <1>1
  <1> DEFINE r == RemoveAt(q, i)
             m == InsertAt(r, j, q[i])
  <1>3. /\ r \in Seq(ComponentIds) /\ Len(r) = Len(q) - 1
        /\ \A k \in 1..Len(q) - 1 : r[k] = IF k < i THEN q[k] ELSE q[k + 1]
    BY <1>1, <1>2, RemoveAtElements, ZenonT(60)
  <1> HIDE DEF r
  <1>4. j \in 1..Len(r) + 1
    BY <1>1, <1>2, <1>3
  <1>5. /\ m \in Seq(ComponentIds) /\ Len(m) = Len(r) + 1
        /\ \A k \in 1..Len(r) + 1 : m[k] = IF k < j THEN r[k] ELSE IF k = j THEN q[i] ELSE r[k - 1]
    <2>1. ASSUME NEW x \in ComponentIds
          PROVE  Inserts(ComponentIds, r, j, x, InsertAt(r, j, x))
      BY <1>3, <1>4, InsertAtElements, Zenon
    <2>2. Inserts(ComponentIds, r, j, q[i], m)
      BY <1>2, <2>1
    <2>3. QED
      BY <2>2 DEF Inserts
  <1>6. Moved(q, i, j) = m
    BY DEF Moved, r
  <1> HIDE DEF m
  <1> DEFINE From(k) == IF k = j THEN i
                        ELSE IF k < j THEN (IF k < i THEN k ELSE k + 1)
                        ELSE (IF k - 1 < i THEN k - 1 ELSE k)
             To(l) == IF l = i THEN j
                      ELSE IF l < i THEN (IF l < j THEN l ELSE l + 1)
                      ELSE (IF l - 1 < j THEN l - 1 ELSE l)
  <1>7. Len(m) = Len(q) /\ DOMAIN m = 1..Len(q)
    BY <1>1, <1>3, <1>5
  <1>8. ASSUME NEW k \in 1..Len(q)
        PROVE  From(k) \in 1..Len(q) /\ m[k] = q[From(k)]
    <2>1. From(k) \in 1..Len(q)
      BY <1>1, <1>2
    <2>2. CASE k = j
      BY <1>3, <1>5, <2>2
    <2>3. CASE k < j
      <3>1. k \in 1..Len(q) - 1 /\ k \in 1..Len(r) + 1 /\ k # j
        BY <1>1, <1>2, <1>3, <2>3
      <3>2. m[k] = r[k] /\ r[k] = IF k < i THEN q[k] ELSE q[k + 1]
        BY <1>3, <1>5, <2>3, <3>1
      <3>3. QED
        BY <2>1, <2>3, <3>1, <3>2
    <2>4. CASE k > j
      <3>1. k - 1 \in 1..Len(q) - 1 /\ k \in 1..Len(r) + 1 /\ k # j /\ ~(k < j) /\ k - 1 + 1 = k
        BY <1>1, <1>2, <1>3, <2>4
      <3>2. m[k] = r[k - 1] /\ r[k - 1] = IF k - 1 < i THEN q[k - 1] ELSE q[k]
        BY <1>3, <1>5, <3>1
      <3>3. QED
        BY <2>1, <3>1, <3>2
    <2>5. QED
      BY <1>1, <1>2, <2>2, <2>3, <2>4
  <1>9. ASSUME NEW l \in 1..Len(q)
        PROVE  To(l) \in 1..Len(q) /\ From(To(l)) = l
    BY <1>1, <1>2
  <1>10. \A k, l \in 1..Len(q) : From(k) = From(l) => k = l
    BY <1>1, <1>2
  <1> HIDE DEF From, To
  <1>11. IsInjective(m)
    <2> SUFFICES ASSUME NEW k \in 1..Len(q), NEW l \in 1..Len(q), m[k] = m[l]
                 PROVE  k = l
      BY <1>7 DEF IsInjective
    <2>1. From(k) = From(l)
      BY <1>1, <1>8
    <2>2. QED
      BY <1>10, <2>1
  <1>12. Range(m) \subseteq Range(q)
    BY <1>1, <1>7, <1>8 DEF Range
  <1>13. Range(q) \subseteq Range(m)
    <2> SUFFICES ASSUME NEW l \in 1..Len(q) PROVE q[l] \in Range(m)
      BY <1>1 DEF Range
    <2>1. m[To(l)] = q[l] /\ To(l) \in 1..Len(q)
      BY <1>8, <1>9
    <2>2. QED
      BY <1>7, <2>1 DEF Range
  <1>14. QED
    BY <1>5, <1>6, <1>11, <1>12, <1>13 DEF Lists

\* A component with an id that is not on the page is added: it is there once.
LEMMA AppendKeeps ==
    ASSUME NEW q \in Lists, NEW c \in ComponentIds, c \notin Range(q)
    PROVE  Append(q, c) \in Lists /\ Range(Append(q, c)) = Range(q) \cup {c}
  <1>1. q \in Seq(ComponentIds) /\ Len(q) \in Nat /\ DOMAIN q = 1..Len(q)
        /\ \A k, l \in 1..Len(q) : q[k] = q[l] => k = l
    BY DEF Lists, IsInjective
  <1> DEFINE r == Append(q, c)
  <1>2. /\ r \in Seq(ComponentIds) /\ Len(r) = Len(q) + 1 /\ r[Len(q) + 1] = c
        /\ \A k \in 1..Len(q) : r[k] = q[k]
    BY <1>1
  <1> HIDE DEF r
  <1>3. DOMAIN r = 1..Len(q) + 1
    BY <1>2
  <1>4. \A k \in 1..Len(q) + 1 : k \in 1..Len(q) \/ k = Len(q) + 1
    BY <1>1
  <1>5. \A k \in 1..Len(q) : k \in 1..Len(q) + 1
    BY <1>1
  <1>6. Len(q) + 1 \in 1..Len(q) + 1
    BY <1>1
  <1>7. \A k \in 1..Len(q) : q[k] # c
    BY <1>1 DEF Range
  <1>8. IsInjective(r)
    BY <1>1, <1>2, <1>3, <1>4, <1>7 DEF IsInjective
  <1>9. Range(r) = Range(q) \cup {c}
    BY <1>1, <1>2, <1>3, <1>4, <1>5, <1>6 DEF Range
  <1>10. QED
    BY <1>2, <1>8, <1>9 DEF Lists, r

\* A new page is empty.
LEMMA NewPageType ==
    ASSUME NEW p \in PageIds
    PROVE  NewPage(p) \in Pages /\ Range(NewPage(p).components) = {}
  <1>1. <<>> \in Lists /\ Range(<<>>) = {}
    BY DEF Lists, IsInjective, Range
  <1>2. QED
    BY <1>1 DEF NewPage, Pages

-----------------------------------------------------------------------------
(* The inductive invariant.                                                *)

(* A page and its components have ids of m, so that an id not in m is new. *)
Drawn(p, m) == p.id \in m /\ Range(p.components) \subseteq m

(* The page being edited is listed and has the publication of its entry.   *)
Listed(s) == \E p \in s.pages : p.id = s.page.id /\ p.published = s.page.published

(* No two pages have the same id.                                          *)
Keyed(s) == \A p, q \in s.pages : p.id = q.id => p = q

OnPage(s) == s.selected \in Range(s.page.components) \cup {None}

(* What holds of the state of a tab, when the ids in m have been drawn.    *)
Fine(s, m) ==
    /\ s \in States
    /\ Drawn(s.page, m)
    /\ \A p \in s.pages : Drawn(p, m)
    /\ Listed(s)
    /\ Keyed(s)
    /\ OnPage(s)

Inv ==
    /\ store \in [Tabs -> States]
    /\ \A t \in Tabs : Fine(store[t], made)
    /\ \/ saved = {Persisted(store[last])}
       \/ saved = {} /\ \A t \in Tabs : Range(store[t].page.components) = {}
    /\ made \subseteq PageIds \cup ComponentIds
    /\ last \in Tabs

\* What localStorage keeps of a state is a state, with the same page and no selection.
LEMMA PersistedKeeps ==
    ASSUME NEW s, NEW m, Fine(s, m)
    PROVE  /\ Fine(Persisted(s), m)
           /\ Persisted(s).page = s.page /\ Persisted(s).selected = None
           /\ Persisted(Persisted(s)) = Persisted(s)
  <1> DEFINE z == Persisted(s)
  <1>1. s \in States
    BY DEF Fine
  <1>2. z \in States /\ z.page = s.page /\ z.pages = s.pages /\ z.selected = None
    BY <1>1 DEF States, Persisted
  <1>3. Persisted(z) = z
    BY <1>1 DEF States, Persisted
  <1> HIDE DEF z
  <1>4. Fine(z, m)
    BY <1>2 DEF Fine, Listed, Keyed, OnPage
  <1>5. QED
    BY <1>2, <1>3, <1>4 DEF z

\* A state stays fine when more ids have been drawn.
LEMMA FineMore ==
    ASSUME NEW s, NEW m, NEW n, Fine(s, m), m \subseteq n
    PROVE  Fine(s, n)
  BY DEF Fine, Drawn

\* A set() to a fine state keeps the invariant, whatever the other tabs hold.
LEMMA SetKeeps ==
    ASSUME Inv, NEW t \in Tabs, NEW s, Set(t, s), Fine(s, made'),
           made \subseteq made', made' \subseteq PageIds \cup ComponentIds
    PROVE  Inv'
  <1>1. store' = [store EXCEPT ![t] = s] /\ saved' = {Persisted(s)} /\ last' = t
    BY DEF Set
  <1>2. store \in [Tabs -> States] /\ s \in States
    BY DEF Inv, Fine
  <1>3. /\ store' \in [Tabs -> States] /\ store'[t] = s
        /\ \A u \in Tabs : u # t => store'[u] = store[u]
    BY <1>1, <1>2
  <1>4. \A u \in Tabs : Fine(store[u], made')
    BY FineMore DEF Inv
  <1>5. \A u \in Tabs : Fine(store'[u], made')
    <2> SUFFICES ASSUME NEW u \in Tabs PROVE Fine(store'[u], made')
      OBVIOUS
    <2>1. CASE u = t
      BY <1>3, <2>1
    <2>2. CASE u # t
      BY <1>3, <1>4, <2>2
    <2>3. QED
      BY <2>1, <2>2
  <1>6. saved' = {Persisted(store'[last'])} /\ last' \in Tabs
    BY <1>1, <1>3
  <1>7. QED
    BY <1>3, <1>5, <1>6 DEF Inv

(* s with the components cs on its page and x selected.                    *)
Edited(s, cs, x) ==
    [page |-> [id |-> s.page.id, components |-> cs, published |-> s.page.published],
     pages |-> s.pages,
     selected |-> x]

\* addComponent, deleteComponent and moveComponent give a state of this form.
LEMMA EditedComponents ==
    ASSUME NEW s \in States, NEW cs
    PROVE  [s EXCEPT !.page.components = cs] = Edited(s, cs, s.selected)
  BY DEF Edited, States, Pages

\* The same, with a new selection.
LEMMA EditedBoth ==
    ASSUME NEW s \in States, NEW cs, NEW x
    PROVE  [s EXCEPT !.page.components = cs, !.selected = x] = Edited(s, cs, x)
  <1> DEFINE u == [s EXCEPT !.page.components = cs]
  <1>1. u = Edited(s, cs, s.selected)
    BY EditedComponents
  <1>2. [s EXCEPT !.page.components = cs, !.selected = x] = [u EXCEPT !.selected = x]
    BY Zenon
  <1> HIDE DEF u
  <1>3. [u EXCEPT !.selected = x] = Edited(s, cs, x)
    BY <1>1 DEF Edited
  <1>4. QED
    BY <1>2, <1>3

\* selectComponent changes nothing else.
LEMMA EditedSelection ==
    ASSUME NEW s \in States, NEW x
    PROVE  [s EXCEPT !.selected = x] = Edited(s, s.page.components, x)
  <1>1. s.page = [id |-> s.page.id, components |-> s.page.components,
                  published |-> s.page.published]
    BY DEF States, Pages
  <1>2. [s EXCEPT !.selected = x] = [page |-> s.page, pages |-> s.pages, selected |-> x]
    BY DEF States
  <1>3. QED
    BY <1>1, <1>2 DEF Edited

\* Editing the copy of the page leaves the pages alone: the state stays fine.
LEMMA EditedFine ==
    ASSUME NEW s, NEW m, NEW n, Fine(s, m), m \subseteq n,
           NEW cs \in Lists, Range(cs) \subseteq n,
           NEW x \in ComponentIds \cup {None}, x \in Range(cs) \cup {None}
    PROVE  Fine(Edited(s, cs, x), n)
  <1> DEFINE z == Edited(s, cs, x)
  <1>1. s \in States /\ s.page \in Pages /\ s.pages \subseteq Pages
    BY DEF Fine, States
  <1>2. /\ z.page.id = s.page.id /\ z.page.components = cs
        /\ z.page.published = s.page.published
        /\ z.pages = s.pages /\ z.selected = x
    BY DEF Edited
  <1>3. z.page \in Pages
    BY <1>1 DEF Edited, Pages
  <1>4. z \in States
    BY <1>1, <1>3 DEF Edited, States
  <1> HIDE DEF z
  <1>5. Drawn(z.page, n) /\ \A p \in z.pages : Drawn(p, n)
    BY <1>2 DEF Fine, Drawn
  <1>6. Listed(z) /\ Keyed(z) /\ OnPage(z)
    BY <1>2 DEF Fine, Listed, Keyed, OnPage
  <1>7. QED
    BY <1>4, <1>5, <1>6 DEF Fine, z

-----------------------------------------------------------------------------
(* One lemma per operation.                                                *)

\* An operation on the rest of the state.
LEMMA TouchKeeps ==
    ASSUME Inv, NEW t \in Tabs, Touch(t)
    PROVE  Inv'
  <1>1. Set(t, store[t]) /\ made' = made
    BY DEF Touch
  <1>2. Fine(store[t], made') /\ made' \subseteq PageIds \cup ComponentIds
    BY <1>1 DEF Inv
  <1>3. QED
    BY <1>1, <1>2, SetKeeps

\* addComponent: the new id is on no page.
LEMMA AddComponentKeeps ==
    ASSUME Inv, NEW t \in Tabs, NEW c \in ComponentIds, AddComponent(t, c)
    PROVE  Inv' /\ Range(store[t].page.components) \subseteq Range(store'[t].page.components)
  <1> DEFINE s == store[t]
             cs == Append(s.page.components, c)
  <1>1. c \notin made /\ made' = made \cup {c} /\ made \subseteq PageIds \cup ComponentIds
    BY DEF AddComponent, Draw, Inv
  <1>2. Fine(s, made) /\ s \in States /\ s.page \in Pages /\ s.page.components \in Lists
    BY DEF Inv, Fine, States, Pages
  <1>3. Range(s.page.components) \subseteq made
    BY <1>2 DEF Fine, Drawn
  <1>4. cs \in Lists /\ Range(cs) = Range(s.page.components) \cup {c}
    BY <1>1, <1>2, <1>3, AppendKeeps
  <1>5. [s EXCEPT !.page.components = cs, !.selected = c] = Edited(s, cs, c)
    <2> HIDE DEF s, cs
    <2>1. QED
      BY <1>2, EditedBoth
  <1>6. Set(t, Edited(s, cs, c))
    BY <1>5 DEF AddComponent
  <1> HIDE DEF s, cs
  <1>7. Fine(Edited(s, cs, c), made')
    BY <1>1, <1>2, <1>3, <1>4, EditedFine
  <1>8. Inv'
    BY <1>1, <1>6, <1>7, SetKeeps
  <1>9. store'[t].page.components = cs
    BY <1>6 DEF Set, Edited, Inv
  <1>10. QED
    BY <1>4, <1>8, <1>9 DEF s

\* deleteComponent: the selection does not keep the component that is gone.
LEMMA DeleteComponentKeeps ==
    ASSUME Inv, NEW t \in Tabs, NEW c \in Range(store[t].page.components), DeleteComponent(t, c)
    PROVE  Inv' /\ Range(store[t].page.components) \ Range(store'[t].page.components) \subseteq {c}
  <1> DEFINE s == store[t]
             cs == RemoveFirst(s.page.components, c)
             x == IF s.selected = c THEN None ELSE s.selected
  <1>1. made' = made /\ made \subseteq PageIds \cup ComponentIds
    BY DEF DeleteComponent, Inv
  <1>2. /\ Fine(s, made) /\ s \in States /\ s.page \in Pages /\ s.page.components \in Lists
        /\ s.selected \in ComponentIds \cup {None}
    BY DEF Inv, Fine, States, Pages
  <1>3. /\ Range(s.page.components) \subseteq made
        /\ s.selected \in Range(s.page.components) \cup {None}
    BY <1>2 DEF Fine, Drawn, OnPage
  <1>4. cs \in Lists /\ Range(cs) = Range(s.page.components) \ {c}
    BY <1>2, Removed
  <1>5. [s EXCEPT !.page.components = cs, !.selected = x] = Edited(s, cs, x)
    <2> HIDE DEF s, cs, x
    <2>1. QED
      BY <1>2, EditedBoth
  <1>6. Set(t, Edited(s, cs, x))
    BY <1>5 DEF DeleteComponent
  <1>7. x \in Range(cs) \cup {None} /\ x \in ComponentIds \cup {None}
    BY <1>2, <1>3, <1>4
  <1> HIDE DEF s, cs, x
  <1>8. Fine(Edited(s, cs, x), made')
    BY <1>1, <1>2, <1>3, <1>4, <1>7, EditedFine
  <1>9. Inv'
    BY <1>1, <1>6, <1>8, SetKeeps
  <1>10. store'[t].page.components = cs
    BY <1>6 DEF Set, Edited, Inv
  <1>11. QED
    BY <1>4, <1>9, <1>10 DEF s

\* selectComponent: of a component on the page, or of none.
LEMMA SelectComponentKeeps ==
    ASSUME Inv, NEW t \in Tabs, NEW c \in Range(store[t].page.components) \cup {None},
           SelectComponent(t, c)
    PROVE  Inv' /\ store'[t].page.components = store[t].page.components
  <1> DEFINE s == store[t]
             cs == s.page.components
  <1>1. made' = made /\ made \subseteq PageIds \cup ComponentIds
    BY DEF SelectComponent, Inv
  <1>2. Fine(s, made) /\ s \in States /\ s.page \in Pages /\ cs \in Lists
    BY DEF Inv, Fine, States, Pages
  <1>3. Range(cs) \subseteq made
    BY <1>2 DEF Fine, Drawn
  <1>4. [s EXCEPT !.selected = c] = Edited(s, cs, c)
    BY <1>2, EditedSelection
  <1>5. Set(t, Edited(s, cs, c))
    BY <1>4 DEF SelectComponent
  <1>6. c \in ComponentIds \cup {None}
    BY <1>2 DEF Lists, Range
  <1>7. c \in Range(cs) \cup {None}
    OBVIOUS
  <1> HIDE DEF s, cs
  <1>8. Fine(Edited(s, cs, c), made')
    BY <1>1, <1>2, <1>3, <1>6, <1>7, EditedFine
  <1>9. Inv'
    BY <1>1, <1>5, <1>8, SetKeeps
  <1>10. store'[t].page.components = cs
    BY <1>5 DEF Set, Edited, Inv
  <1>11. QED
    BY <1>9, <1>10 DEF s, cs

\* moveComponent: the page keeps all its components.
LEMMA MoveComponentKeeps ==
    ASSUME Inv, NEW t \in Tabs,
           NEW i \in DOMAIN store[t].page.components, NEW j \in DOMAIN store[t].page.components,
           MoveComponent(t, i, j)
    PROVE  Inv' /\ Range(store'[t].page.components) = Range(store[t].page.components)
  <1> DEFINE s == store[t]
             cs == Moved(s.page.components, i, j)
             x == s.selected
  <1>1. made' = made /\ made \subseteq PageIds \cup ComponentIds
    BY DEF MoveComponent, Inv
  <1>2. /\ Fine(s, made) /\ s \in States /\ s.page \in Pages /\ s.page.components \in Lists
        /\ x \in ComponentIds \cup {None}
    BY DEF Inv, Fine, States, Pages
  <1>3. Range(s.page.components) \subseteq made /\ x \in Range(s.page.components) \cup {None}
    BY <1>2 DEF Fine, Drawn, OnPage
  <1>4. cs \in Lists /\ Range(cs) = Range(s.page.components)
    BY <1>2, MovedKeeps
  <1>5. [s EXCEPT !.page.components = cs] = Edited(s, cs, x)
    <2> HIDE DEF s, cs, x
    <2>1. QED
      BY <1>2, EditedComponents DEF x
  <1>6. Set(t, Edited(s, cs, x))
    BY <1>5 DEF MoveComponent
  <1> HIDE DEF s, cs, x
  <1>7. Fine(Edited(s, cs, x), made')
    BY <1>1, <1>2, <1>3, <1>4, EditedFine
  <1>8. Inv'
    BY <1>1, <1>6, <1>7, SetKeeps
  <1>9. store'[t].page.components = cs
    BY <1>6 DEF Set, Edited, Inv
  <1>10. QED
    BY <1>4, <1>8, <1>9 DEF s

-----------------------------------------------------------------------------
(* Another page, and publication.                                          *)

(* The state with these parts.                                             *)
Whole(page, pages, x) == [page |-> page, pages |-> pages, selected |-> x]

(* The state that addPage makes of s.                                      *)
Replaced(s, a, b, x) == [s EXCEPT !.pages = b, !.page = a, !.selected = x]

\* addPage gives a state of this form.
LEMMA WholeAdded ==
    ASSUME NEW s \in States, NEW a, NEW b, NEW x
    PROVE  Replaced(s, a, b, x) = Whole(a, b, x)
  <1> DEFINE u == [s EXCEPT !.pages = b]
             v == [u EXCEPT !.page = a]
  <1>1. u = [page |-> s.page, pages |-> b, selected |-> s.selected]
    BY DEF States
  <1>2. Replaced(s, a, b, x) = [v EXCEPT !.selected = x]
    BY Zenon DEF Replaced
  <1> HIDE DEF u
  <1>3. v = [page |-> a, pages |-> b, selected |-> s.selected]
    BY <1>1
  <1> HIDE DEF v
  <1>4. [v EXCEPT !.selected = x] = Whole(a, b, x)
    BY <1>3 DEF Whole
  <1>5. QED
    BY <1>2, <1>4

\* selectPage gives a state of this form.
LEMMA WholeSelected ==
    ASSUME NEW s \in States, NEW a, NEW x
    PROVE  [s EXCEPT !.page = a, !.selected = x] = Whole(a, s.pages, x)
  <1> DEFINE u == [s EXCEPT !.page = a]
  <1>1. u = [page |-> a, pages |-> s.pages, selected |-> s.selected]
    BY DEF States
  <1>2. [s EXCEPT !.page = a, !.selected = x] = [u EXCEPT !.selected = x]
    BY Zenon
  <1> HIDE DEF u
  <1>3. [u EXCEPT !.selected = x] = Whole(a, s.pages, x)
    BY <1>1 DEF Whole
  <1>4. QED
    BY <1>2, <1>3

\* publishPage gives a state of this form.
LEMMA WholePublished ==
    ASSUME NEW s \in States, NEW b, NEW y
    PROVE  [s EXCEPT !.page.published = y, !.pages = b]
               = Whole([s.page EXCEPT !.published = y], b, s.selected)
  <1> DEFINE u == [s EXCEPT !.page.published = y]
  <1>1. u = [page |-> [s.page EXCEPT !.published = y], pages |-> s.pages, selected |-> s.selected]
    BY DEF States
  <1>2. [s EXCEPT !.page.published = y, !.pages = b] = [u EXCEPT !.pages = b]
    BY Zenon
  <1> HIDE DEF u
  <1>3. [u EXCEPT !.pages = b] = Whole([s.page EXCEPT !.published = y], b, s.selected)
    BY <1>1 DEF Whole
  <1>4. QED
    BY <1>2, <1>3

\* addPage: the new page is listed, under an id no other page has.
LEMMA AddPageKeeps ==
    ASSUME Inv, NEW t \in Tabs, NEW p \in PageIds, AddPage(t, p)
    PROVE  Inv'
  <1> DEFINE s == store[t]
             n == NewPage(p)
             b == s.pages \cup {n}
             z == Whole(n, b, None)
  <1>1. p \notin made /\ made' = made \cup {p} /\ made \subseteq PageIds \cup ComponentIds
    BY DEF AddPage, Draw, Inv
  <1>2. Fine(s, made) /\ s \in States /\ s.pages \subseteq Pages
    BY DEF Inv, Fine, States
  <1>3. n \in Pages /\ Range(n.components) = {} /\ n.id = p
    BY NewPageType DEF NewPage
  <1>4. Set(t, Replaced(s, n, b, None))
    BY DEF AddPage, Replaced
  <1>5. Replaced(s, n, b, None) = z
    BY <1>2, WholeAdded
  <1>6. Set(t, z)
    BY <1>4, <1>5
  <1> HIDE DEF s, n
  <1>7. z.page = n /\ z.pages = b /\ z.selected = None
    BY DEF Whole
  <1>8. z \in States
    BY <1>2, <1>3 DEF Whole, States
  <1> HIDE DEF z
  <1>9. Drawn(z.page, made') /\ \A q \in z.pages : Drawn(q, made')
    BY <1>1, <1>2, <1>3, <1>7 DEF Fine, Drawn
  <1>10. Listed(z) /\ OnPage(z)
    BY <1>7 DEF Listed, OnPage
  <1>11. \A q \in s.pages : q.id # n.id
    BY <1>1, <1>2, <1>3 DEF Fine, Drawn
  <1>12. Keyed(z)
    BY <1>2, <1>7, <1>11 DEF Fine, Keyed
  <1>13. Fine(z, made')
    BY <1>8, <1>9, <1>10, <1>12 DEF Fine
  <1>14. QED
    BY <1>1, <1>6, <1>13, SetKeeps

\* selectPage: the entry that becomes the page is listed as it is.
LEMMA SelectPageKeeps ==
    ASSUME Inv, NEW t \in Tabs, NEW p, SelectPage(t, p)
    PROVE  Inv'
  <1> DEFINE s == store[t]
             z == Whole(p, s.pages, None)
  <1>1. made' = made /\ made \subseteq PageIds \cup ComponentIds /\ p \in s.pages
    BY DEF SelectPage, Inv
  <1>2. Fine(s, made) /\ s \in States /\ s.pages \subseteq Pages
    BY DEF Inv, Fine, States
  <1>3. Set(t, [s EXCEPT !.page = p, !.selected = None])
    BY DEF SelectPage
  <1>4. [s EXCEPT !.page = p, !.selected = None] = z
    <2> HIDE DEF s
    <2>1. QED
      BY <1>2, WholeSelected
  <1>5. Set(t, z)
    BY <1>3, <1>4
  <1> HIDE DEF s
  <1>6. z.page = p /\ z.pages = s.pages /\ z.selected = None
    BY DEF Whole
  <1>7. z \in States
    BY <1>1, <1>2 DEF Whole, States
  <1> HIDE DEF z
  <1>8. Drawn(z.page, made') /\ \A q \in z.pages : Drawn(q, made')
    BY <1>1, <1>2, <1>6 DEF Fine
  <1>9. Listed(z) /\ OnPage(z) /\ Keyed(z)
    BY <1>1, <1>2, <1>6 DEF Fine, Listed, OnPage, Keyed
  <1>10. Fine(z, made')
    BY <1>7, <1>8, <1>9 DEF Fine
  <1>11. QED
    BY <1>1, <1>5, <1>10, SetKeeps

(* What publishPage does with an entry of pages.                           *)
Marked(s, p) == IF p.id = s.page.id THEN [p EXCEPT !.published = TRUE] ELSE p

\* Marking changes only the publication, and that of one id only.
LEMMA MarkedEntry ==
    ASSUME NEW s, NEW p \in Pages
    PROVE  /\ Marked(s, p) \in Pages /\ Marked(s, p).id = p.id
           /\ Marked(s, p).components = p.components
           /\ p.id = s.page.id => Marked(s, p).published = TRUE
  BY DEF Marked, Pages

\* publishPage: page and entry are both marked.
LEMMA PublishPageKeeps ==
    ASSUME Inv, NEW t \in Tabs, PublishPage(t)
    PROVE  Inv' /\ store'[t].page.components = store[t].page.components
  <1> DEFINE s == store[t]
             a == [s.page EXCEPT !.published = TRUE]
             b == {Marked(s, p) : p \in s.pages}
             z == Whole(a, b, s.selected)
  <1>1. made' = made /\ made \subseteq PageIds \cup ComponentIds
    BY DEF PublishPage, Inv
  <1>2. /\ Fine(s, made) /\ s \in States /\ s.page \in Pages /\ s.pages \subseteq Pages
        /\ s.selected \in ComponentIds \cup {None}
    BY DEF Inv, Fine, States
  <1>3. Set(t, [s EXCEPT !.page.published = TRUE, !.pages = b])
    BY DEF PublishPage, Marked
  <1>4. [s EXCEPT !.page.published = TRUE, !.pages = b] = z
    <2> HIDE DEF s, b
    <2>1. QED
      BY <1>2, WholePublished
  <1>5. Set(t, z)
    BY <1>3, <1>4
  <1> HIDE DEF s
  <1>6. /\ a \in Pages /\ a.id = s.page.id /\ a.components = s.page.components
        /\ a.published = TRUE
    BY <1>2 DEF Pages
  <1>7. b \subseteq Pages
    <2>1. \A p \in s.pages : Marked(s, p) \in Pages
      BY <1>2, MarkedEntry
    <2>2. QED
      BY <2>1
  <1> HIDE DEF a, b
  <1>8. z.page = a /\ z.pages = b /\ z.selected = s.selected
    BY DEF Whole
  <1>9. z \in States
    BY <1>2, <1>6, <1>7 DEF Whole, States
  <1> HIDE DEF z
  <1>10. Drawn(z.page, made')
    BY <1>1, <1>2, <1>6, <1>8 DEF Fine, Drawn
  <1>11. \A q \in z.pages : Drawn(q, made')
    <2> SUFFICES ASSUME NEW p \in s.pages PROVE Drawn(Marked(s, p), made')
      BY <1>8 DEF b
    <2>1. Marked(s, p).id = p.id /\ Marked(s, p).components = p.components
      BY <1>2, MarkedEntry
    <2>2. QED
      BY <1>1, <1>2, <2>1 DEF Fine, Drawn
  <1>12. Listed(z)
    <2>1. PICK p \in s.pages : p.id = s.page.id
      BY <1>2 DEF Fine, Listed
    <2>2. Marked(s, p) \in b /\ Marked(s, p).id = a.id /\ Marked(s, p).published = a.published
      BY <1>2, <1>6, <2>1, MarkedEntry DEF b
    <2>3. QED
      BY <1>8, <2>2 DEF Listed
  <1>13. Keyed(z)
    <2> SUFFICES ASSUME NEW p \in s.pages, NEW q \in s.pages, Marked(s, p).id = Marked(s, q).id
                 PROVE  Marked(s, p) = Marked(s, q)
      BY <1>8 DEF Keyed, b
    <2>1. p.id = q.id
      BY <1>2, MarkedEntry
    <2>2. p = q
      BY <1>2, <2>1 DEF Fine, Keyed
    <2>3. QED
      BY <2>2
  <1>14. OnPage(z)
    BY <1>2, <1>6, <1>8 DEF Fine, OnPage
  <1>15. Fine(z, made')
    BY <1>9, <1>10, <1>11, <1>12, <1>13, <1>14 DEF Fine
  <1>16. Inv'
    BY <1>1, <1>5, <1>15, SetKeeps
  <1>17. store'[t] = z
    BY <1>5 DEF Set, Inv
  <1>18. QED
    BY <1>6, <1>8, <1>16, <1>17 DEF s

\* A tab that finds nothing in localStorage starts with one page of its own, with nothing on it.
LEMMA DefaultsFine ==
    ASSUME NEW p \in PageIds, NEW m, p \in m
    PROVE  /\ Defaults(p) \in States /\ Fine(Defaults(p), m)
           /\ Range(Defaults(p).page.components) = {}
  <1> DEFINE n == NewPage(p)
  <1>1. n \in Pages /\ Range(n.components) = {} /\ n.id = p
    BY NewPageType DEF NewPage
  <1>2. Defaults(p) = [page |-> n, pages |-> {n}, selected |-> None]
    BY DEF Defaults
  <1> HIDE DEF n
  <1> DEFINE d == Defaults(p)
  <1>3. d \in States /\ d.page = n /\ d.pages = {n} /\ d.selected = None
    BY <1>1, <1>2 DEF States
  <1> HIDE DEF d
  <1>4. Fine(d, m)
    BY <1>1, <1>3 DEF Fine, Drawn, Listed, Keyed, OnPage
  <1>5. QED
    BY <1>1, <1>3, <1>4 DEF d

\* A tab is loaded with what the last writer saved, which is fine.
LEMMA ReloadSaved ==
    ASSUME Inv, NEW t \in Tabs, NEW s \in saved, store' = [store EXCEPT ![t] = s],
           UNCHANGED <<saved, made, last>>
    PROVE  Inv' /\ (last = t => store'[t].page = store[t].page)
  <1>1. saved' = saved /\ made' = made /\ last' = last
    OBVIOUS
  <1>2. /\ store \in [Tabs -> States] /\ last \in Tabs
        /\ saved = {Persisted(store[last])} /\ s = Persisted(store[last])
        /\ Fine(store[last], made) /\ made \subseteq PageIds \cup ComponentIds
    BY DEF Inv
  <1>3. Fine(s, made) /\ s.page = store[last].page /\ Persisted(s) = s
    BY <1>2, PersistedKeeps
  <1>4. s \in States
    BY <1>3 DEF Fine
  <1>5. /\ store' \in [Tabs -> States] /\ store'[t] = s
        /\ \A u \in Tabs : u # t => store'[u] = store[u]
    BY <1>2, <1>4
  <1>6. \A u \in Tabs : Fine(store'[u], made)
    <2> SUFFICES ASSUME NEW u \in Tabs PROVE Fine(store'[u], made)
      OBVIOUS
    <2>1. CASE u = t
      BY <1>3, <1>5, <2>1
    <2>2. CASE u # t
      BY <1>5, <2>2 DEF Inv
    <2>3. QED
      BY <2>1, <2>2
  <1>7. s = Persisted(store'[last])
    <2>1. CASE last = t
      BY <1>3, <1>5, <2>1
    <2>2. CASE last # t
      BY <1>2, <1>5, <2>2
    <2>3. QED
      BY <2>1, <2>2
  <1>8. Inv'
    BY <1>1, <1>2, <1>5, <1>6, <1>7 DEF Inv
  <1>9. QED
    BY <1>3, <1>5, <1>8

\* While nobody has saved anything, no tab has anything on its page.
LEMMA ReloadDefaults ==
    ASSUME Inv, NEW t \in Tabs, saved = {}, NEW p \in PageIds, Draw(p),
           store' = [store EXCEPT ![t] = Defaults(p)], UNCHANGED <<saved, last>>
    PROVE  Inv' /\ Range(store[t].page.components) = {}
  <1>1. /\ store \in [Tabs -> States] /\ last \in Tabs
        /\ \A u \in Tabs : Range(store[u].page.components) = {}
        /\ made \subseteq PageIds \cup ComponentIds
    BY DEF Inv
  <1>2. made' = made \cup {p}
    BY DEF Draw
  <1> DEFINE d == Defaults(p)
  <1>3. d \in States /\ Fine(d, made') /\ Range(d.page.components) = {}
    BY <1>2, DefaultsFine
  <1>4. /\ store' \in [Tabs -> States] /\ store'[t] = d
        /\ \A u \in Tabs : u # t => store'[u] = store[u]
    BY <1>1, <1>3
  <1> HIDE DEF d
  <1>5. \A u \in Tabs : Fine(store[u], made')
    BY <1>2, FineMore DEF Inv
  <1>6. \A u \in Tabs : Fine(store'[u], made') /\ Range(store'[u].page.components) = {}
    BY <1>1, <1>3, <1>4, <1>5
  <1>7. QED
    BY <1>1, <1>2, <1>4, <1>6 DEF Inv

\* A reload changes the page of a tab only when another tab has written last, or when there is
\* nothing on it.
LEMMA ReloadKeeps ==
    ASSUME Inv, NEW t \in Tabs, Reload(t)
    PROVE  /\ Inv'
           /\ last = t => Range(store[t].page.components) \subseteq Range(store'[t].page.components)
  <1>1. CASE saved = {}
    BY <1>1, ReloadDefaults DEF Reload
  <1>2. CASE saved # {}
    <2>1. PICK s \in saved : store' = [store EXCEPT ![t] = s] /\ UNCHANGED <<saved, made, last>>
      BY <1>2 DEF Reload
    <2>2. QED
      BY <2>1, ReloadSaved
  <1>3. QED
    BY <1>1, <1>2

-----------------------------------------------------------------------------
(* The theorems.                                                           *)

\* The tabs start in fine states, with nothing saved.
LEMMA InitFine == Init => Inv
  <1> SUFFICES ASSUME Init PROVE Inv
    OBVIOUS
  <1>1. PICK first \in Injection(Tabs, PageIds) :
            store = [t \in Tabs |-> Defaults(first[t])] /\ made = Range(first)
    BY DEF Init
  <1>2. first \in [Tabs -> PageIds] /\ made \subseteq PageIds
        /\ \A t \in Tabs : first[t] \in PageIds /\ first[t] \in made
    BY <1>1 DEF Injection, Range
  <1>3. \A t \in Tabs : /\ Defaults(first[t]) \in States /\ Fine(Defaults(first[t]), made)
                       /\ Range(Defaults(first[t]).page.components) = {}
    BY <1>2, DefaultsFine
  <1>4. store \in [Tabs -> States] /\ \A t \in Tabs : store[t] = Defaults(first[t])
    BY <1>1, <1>3
  <1>5. saved = {} /\ last \in Tabs
    BY DEF Init
  <1>6. QED
    BY <1>2, <1>3, <1>4, <1>5 DEF Inv

\* Every step keeps the invariant, and takes a component off the page of a tab
\* only as WorkKept says.
LEMMA StepKeeps ==
    ASSUME Inv, Next
    PROVE  /\ Inv'
           /\ \A t \in Tabs :
                 \A c \in Range(store[t].page.components) \ Range(store'[t].page.components) :
                     \/ DeleteComponent(t, c)
                     \/ \E p \in PageIds : AddPage(t, p)
                     \/ \E p \in store[t].pages : SelectPage(t, p)
                     \/ last # t /\ Reload(t)
  <1> DEFINE Lost(t, c) == \/ DeleteComponent(t, c)
                           \/ \E p \in PageIds : AddPage(t, p)
                           \/ \E p \in store[t].pages : SelectPage(t, p)
                           \/ last # t /\ Reload(t)
             Gone(t) == Range(store[t].page.components) \ Range(store'[t].page.components)
  <1>1. PICK u \in Tabs : EditPage(u) \/ Touch(u) \/ Reload(u)
    BY DEF Next
  <1>2. store \in [Tabs -> States]
    BY DEF Inv
  <1>3. \A s : Set(u, s) => \A t \in Tabs : t # u => store'[t] = store[t]
    BY <1>2 DEF Set
  <1>4. Reload(u) => \A t \in Tabs : t # u => store'[t] = store[t]
    BY <1>2 DEF Reload
  <1>5. \A t \in Tabs : t # u => store'[t] = store[t]
    BY <1>1, <1>3, <1>4 DEF EditPage, Touch, AddComponent, DeleteComponent, SelectComponent,
                            MoveComponent, AddPage, SelectPage, PublishPage
  <1>6. Inv' /\ \A c \in Gone(u) : Lost(u, c)
    <2>1. ASSUME NEW c \in ComponentIds, AddComponent(u, c)
          PROVE  Inv' /\ Gone(u) = {}
      BY <2>1, AddComponentKeeps
    <2>2. ASSUME NEW c \in Range(store[u].page.components), DeleteComponent(u, c)
          PROVE  Inv' /\ \A x \in Gone(u) : DeleteComponent(u, x)
      <3>1. Inv' /\ Gone(u) \subseteq {c}
        BY <2>2, DeleteComponentKeeps
      <3>2. QED
        BY <2>2, <3>1
    <2>3. ASSUME NEW c \in Range(store[u].page.components) \cup {None}, SelectComponent(u, c)
          PROVE  Inv' /\ Gone(u) = {}
      BY <2>3, SelectComponentKeeps
    <2>4. ASSUME NEW i \in DOMAIN store[u].page.components,
                 NEW j \in DOMAIN store[u].page.components,
                 MoveComponent(u, i, j)
          PROVE  Inv' /\ Gone(u) = {}
      BY <2>4, MoveComponentKeeps
    <2>5. ASSUME NEW p \in PageIds, AddPage(u, p)
          PROVE  Inv'
      BY <2>5, AddPageKeeps
    <2>6. ASSUME NEW p \in store[u].pages, SelectPage(u, p)
          PROVE  Inv'
      BY <2>6, SelectPageKeeps
    <2>7. ASSUME PublishPage(u)
          PROVE  Inv' /\ Gone(u) = {}
      BY <2>7, PublishPageKeeps
    <2>8. ASSUME Touch(u)
          PROVE  Inv' /\ Gone(u) = {}
      <3>1. store'[u] = store[u]
        BY <1>2, <2>8 DEF Touch, Set
      <3>2. QED
        BY <2>8, <3>1, TouchKeeps
    <2>9. ASSUME Reload(u)
          PROVE  Inv' /\ (last = u => Gone(u) = {})
      BY <2>9, ReloadKeeps
    <2> HIDE DEF Gone
    <2>10. QED
      BY <1>1, <2>1, <2>2, <2>3, <2>4, <2>5, <2>6, <2>7, <2>8, <2>9 DEF EditPage
  <1>7. \A t \in Tabs : t # u => Gone(t) = {}
    BY <1>5
  <1> HIDE DEF Lost, Gone
  <1>8. \A t \in Tabs : \A c \in Gone(t) : Lost(t, c)
    BY <1>6, <1>7
  <1>9. QED
    BY <1>6, <1>8 DEF Lost, Gone

\* The invariant holds in every reachable state.
THEOREM InvHolds == Spec => []Inv
  <1>1. Inv /\ [Next]_vars => Inv'
    <2> SUFFICES ASSUME Inv, [Next]_vars PROVE Inv'
      OBVIOUS
    <2>1. CASE Next
      BY <2>1, StepKeeps
    <2>2. CASE UNCHANGED vars
      BY <2>2 DEF vars, Inv
    <2>3. QED
      BY <2>1, <2>2
  <1>2. QED
    BY InitFine, <1>1, PTL DEF Spec

\* The state of every tab and localStorage are well typed: no component is twice on a page, and
\* no selection is saved (partialize).
THEOREM StoreTypeCorrect == Spec => []TypeOK
  <1>1. Inv => TypeOK
    <2> SUFFICES ASSUME Inv PROVE TypeOK
      OBVIOUS
    <2>1. \A s \in saved : Fine(s, made) /\ s.selected = None
      BY PersistedKeeps DEF Inv
    <2>2. QED
      BY <2>1 DEF Inv, TypeOK, Fine
  <1>2. QED
    BY InvHolds, <1>1, PTL

\* The page being edited is one of the pages, once and with the same publication, in every tab and
\* in localStorage, for any number of tabs that write over each other's state.
THEOREM PageListedHolds == Spec => []PageListed
  <1>1. Inv => PageListed
    <2> SUFFICES ASSUME Inv PROVE PageListed
      OBVIOUS
    <2>1. (\A s \in saved : Fine(s, made)) /\ \A t \in Tabs : Fine(store[t], made)
      BY PersistedKeeps DEF Inv
    <2>2. ASSUME NEW s, Fine(s, made)
          PROVE  \E p \in s.pages : /\ p.id = s.page.id /\ p.published = s.page.published
                                    /\ \A q \in s.pages : q.id = p.id => q = p
      BY <2>2 DEF Fine, Listed, Keyed
    <2>3. QED
      BY <2>1, <2>2 DEF PageListed
  <1>2. QED
    BY InvHolds, <1>1, PTL

\* The selected component is on the page being edited (the property panel never shows a component
\* that was deleted or belongs to another page or to a state that a reload replaced).
THEOREM SelectionOnPageHolds == Spec => []SelectionOnPage
  <1>1. Inv => SelectionOnPage
    BY DEF Inv, Fine, OnPage, SelectionOnPage
  <1>2. QED
    BY InvHolds, <1>1, PTL

\* A component leaves the page of a tab only by deleteComponent, addPage or selectPage, or by a
\* reload after another tab has written localStorage.
THEOREM WorkKeptHolds == Spec => WorkKept
  <1> DEFINE Kept == \A t \in Tabs :
                        \A c \in Range(store[t].page.components) \ Range(store'[t].page.components) :
                            \/ DeleteComponent(t, c)
                            \/ \E p \in PageIds : AddPage(t, p)
                            \/ \E p \in store[t].pages : SelectPage(t, p)
                            \/ last # t /\ Reload(t)
  <1>1. Inv /\ [Next]_vars => [Kept]_vars
    <2> SUFFICES ASSUME Inv, Next PROVE Kept
      OBVIOUS
    <2>1. QED
      BY StepKeeps
  <1>2. QED
    BY InvHolds, <1>1, PTL DEF Spec, WorkKept
=============================================================================
