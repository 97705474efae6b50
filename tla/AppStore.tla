------------------------------ MODULE AppStore ------------------------------
(* The store of the lowcode designer (src/stores/appStore.ts) in the tabs   *)
(* of one browser. Every set() of a tab changes its own state and writes    *)
(* the whole persisted part of it to localStorage, which the tabs share;    *)
(* a tab reads localStorage only when it is loaded.                         *)
(* Only pages and the selection are told apart: an operation on the rest   *)
(* of the state, data sources, roles, users and the session, is Touch.      *)
EXTENDS Naturals, SequencesExt

CONSTANTS
    Tabs,
    PageIds,        \* bound: the uuids of pages
    ComponentIds,   \* bound: the uuids of components
    None            \* no selection

ASSUME IdsAssumption == None \notin ComponentIds

VARIABLES
    store,    \* the state of every tab
    saved,    \* localStorage: the state that was saved, if any
    made,     \* history: the ids drawn so far
    last      \* history: the tab that wrote localStorage last

vars == <<store, saved, made, last>>

NewPage(p) == [id |-> p, components |-> <<>>, published |-> FALSE]

(* The state of a tab that finds nothing in localStorage.                  *)
Defaults(p) == [page |-> NewPage(p), pages |-> {NewPage(p)}, selected |-> None]

(* Faulty: the selection is persisted too.                                 *)
PersistedWhole(s) == s

(* partialize, and what a loaded tab makes of it: all but the selection.   *)
Persisted(s) == [s EXCEPT !.selected = None]

(* Every tab draws the id of its default page; loading saves nothing.      *)
Init ==
    /\ \E first \in Injection(Tabs, PageIds) :
          /\ store = [t \in Tabs |-> Defaults(first[t])]
          /\ made = Range(first)
    /\ saved = {}
    /\ last \in Tabs

(* set(): also writes localStorage when the state is as before.            *)
Set(t, s) ==
    /\ store' = [store EXCEPT ![t] = s]
    /\ saved' = {Persisted(s)}
    /\ last' = t

Draw(id) == id \notin made /\ made' = made \cup {id}

(* toggleDarkMode, setActiveTab, updateComponent, everything about data    *)
(* sources, roles and users, a login that finds the user, the logout, and  *)
(* moveComponent with an id that is not on the page.                       *)
Touch(t) == Set(t, store[t]) /\ UNCHANGED made

AddComponent(t, c) ==
    /\ Draw(c)
    /\ Set(t, [store[t] EXCEPT !.page.components = Append(@, c), !.selected = c])

(* Faulty: the selection is left as it is.                                 *)
DeleteComponentOnly(t, c) ==
    /\ Set(t, [store[t] EXCEPT !.page.components = RemoveFirst(@, c)])
    /\ UNCHANGED made

(* The code keeps the components whose id is not c: an id is on the page    *)
(* once (see TypeOK), so the filter takes out one component.               *)
DeleteComponent(t, c) ==
    /\ Set(t, [store[t] EXCEPT !.page.components = RemoveFirst(@, c),
                               !.selected = IF @ = c THEN None ELSE @])
    /\ UNCHANGED made

SelectComponent(t, c) == Set(t, [store[t] EXCEPT !.selected = c]) /\ UNCHANGED made

(* Faulty: the component is written over the one it is dropped on.         *)
MovedOver(s, i, j) == RemoveAt([s EXCEPT ![j] = s[i]], i)

(* The component at i is taken out and put back before the one now at j.   *)
Moved(s, i, j) == InsertAt(RemoveAt(s, i), j, s[i])

MoveComponent(t, i, j) ==
    /\ i # j
    /\ Set(t, [store[t] EXCEPT !.page.components = Moved(@, i, j)])
    /\ UNCHANGED made

AddPage(t, p) ==
    /\ Draw(p)
    /\ Set(t, [store[t] EXCEPT !.pages = @ \cup {NewPage(p)}, !.page = NewPage(p),
                               !.selected = None])

(* The entry of pages replaces the copy that was edited.                   *)
SelectPage(t, p) ==
    /\ p \in store[t].pages
    /\ Set(t, [store[t] EXCEPT !.page = p, !.selected = None])
    /\ UNCHANGED made

(* Faulty: only the copy is marked.                                        *)
PublishCopyOnly(t) ==
    /\ ~store[t].page.published
    /\ Set(t, [store[t] EXCEPT !.page.published = TRUE])
    /\ UNCHANGED made

(* publishPage of the current page; the button is enabled only once. The   *)
(* entry of pages is marked, with the components it had.                   *)
PublishPage(t) ==
    /\ ~store[t].page.published
    /\ Set(t, [store[t] EXCEPT
                   !.page.published = TRUE,
                   !.pages = {IF p.id = store[t].page.id THEN [p EXCEPT !.published = TRUE] ELSE p :
                                 p \in @}])
    /\ UNCHANGED made

(* The tab is loaded again, or another one is opened in its place.         *)
Reload(t) ==
    /\ \/ /\ \E s \in saved : store' = [store EXCEPT ![t] = s]
          /\ UNCHANGED made
       \/ /\ saved = {}
          /\ \E p \in PageIds : Draw(p) /\ store' = [store EXCEPT ![t] = Defaults(p)]
    /\ UNCHANGED <<saved, last>>

EditPage(t) ==
    LET cs == store[t].page.components IN
    \/ \E c \in ComponentIds : AddComponent(t, c)
    \/ \E c \in Range(cs) : DeleteComponent(t, c)
    \/ \E c \in Range(cs) \cup {None} : SelectComponent(t, c)
    \/ \E i, j \in DOMAIN cs : MoveComponent(t, i, j)
    \/ \E p \in PageIds : AddPage(t, p)
    \/ \E p \in store[t].pages : SelectPage(t, p)
    \/ PublishPage(t)

Next == \E t \in Tabs : EditPage(t) \/ Touch(t) \/ Reload(t)

Spec == Init /\ [][Next]_vars

-----------------------------------------------------------------------------
(* Lists of components, none of which is there twice.                      *)
Lists == {q \in Seq(ComponentIds) : IsInjective(q)}

Pages == [id : PageIds, components : Lists, published : BOOLEAN]

States == [page : Pages, pages : SUBSET Pages, selected : ComponentIds \cup {None}]

(* Types of the state: no id is twice on a page, so that what the code      *)
(* looks up, filters or moves by its id is one component, and what is       *)
(* selected belongs to a tab and is not saved.                             *)
TypeOK ==
    /\ store \in [Tabs -> States]
    /\ saved \in SUBSET {s \in States : s.selected = None}
    /\ made \subseteq PageIds \cup ComponentIds
    /\ last \in Tabs

(* The page being edited is one of the pages, there once, and both say the *)
(* same about its publication, in every tab and in localStorage, whichever *)
(* tab wrote over the other one's state.                                   *)
PageListed ==
    \A s \in {store[t] : t \in Tabs} \cup saved :
        \E p \in s.pages : /\ p.id = s.page.id /\ p.published = s.page.published
                           /\ \A q \in s.pages : q.id = p.id => q = p

(* What the property panel shows is on the page: the selected component is *)
(* never one that was deleted, left behind on another page, or of a state  *)
(* that a reload replaced.                                                 *)
SelectionOnPage ==
    \A t \in Tabs : store[t].selected \in Range(store[t].page.components) \cup {None}

(* A component leaves the page only when it is deleted or the page is left, *)
(* or when a tab is loaded after another tab has written localStorage: no  *)
(* reordering, publishing or reload of the tab that wrote last loses any.  *)
WorkKept ==
    [][\A t \in Tabs :
          \A c \in Range(store[t].page.components) \ Range(store'[t].page.components) :
              \/ DeleteComponent(t, c)
              \/ \E p \in PageIds : AddPage(t, p)
              \/ \E p \in store[t].pages : SelectPage(t, p)
              \/ last # t /\ Reload(t)]_vars
=============================================================================
