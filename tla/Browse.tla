------------------------------- MODULE Browse -------------------------------
(***************************************************************************)
(* The app's side of the directory: the list of approved stores, read page *)
(* by page; the detail of one; its menu, for those who pay.  Models        *)
(* api/store.go over the tables stores and users, while operators create,  *)
(* approve, withdraw, move and delete stores (see StoreReview) and         *)
(* subscriptions start and end (see Subscriptions).                        *)
(*                                                                         *)
(* A store is its id: random UUIDs, so a new store may come anywhere in    *)
(* the order, and the zero UUID is below them all.  A walk is a client     *)
(* that follows next_cursor from the first page on; the cursor is all that *)
(* the server ever learns of it.  A SELECT that fails changes nothing and  *)
(* is a step not taken.                                                    *)
(***************************************************************************)
EXTENDS Naturals, FiniteSets

CONSTANTS
  Stores,     \* the ids a store can have
  Wards,
  Walks,      \* walks through the list
  Users,
  Asks,       \* requests for one store's detail or menu
  PageLimit,  \* storesPageLimit, 20 in the code
  None

ASSUME StoresAssumption == Stores \subseteq Nat \ {0} /\ IsFiniteSet(Stores)
ASSUME PageLimitAssumption == PageLimit \in Nat \ {0}
ASSUME NoneAssumption == None \notin Wards /\ None \notin Users /\ None \notin Stores
                         /\ None \notin [ward : Wards, live : BOOLEAN]

VARIABLES
  store,   \* stores: None or the row, its status told as approved or not
  used,    \* the ids given out: none is given twice
  paid,    \* the users whose subscription_status is active
  walk,    \* where each walk is
  seen,    \* history: the stores each walk was shown
  steady,  \* history: the stores that matched ever since the walk began
  ask,     \* the requests for one store
  past     \* history: what held at some moment of each such request

vars == <<store, used, paid, walk, seen, steady, ask, past>>

Row == [ward : Wards, live : BOOLEAN]
Walk == [ward : Wards \cup {None}, cursor : Stores \cup {0},
         phase : {"start", "open", "done"}]
Answers == {"200", "402", "404"}
Ask == [user : Users \cup {None}, store : Stores \cup {None},
        phase : {"unused", "check", "read"} \cup Answers]

(* Every variable keeps its kind of value, and no id is met that was not   *)
(* given out.                                                              *)
TypeOK ==
  /\ store \in [Stores -> Row \cup {None}]
  /\ used \subseteq Stores /\ \A s \in Stores : store[s] # None => s \in used
  /\ paid \subseteq Users
  /\ walk \in [Walks -> Walk]
  /\ seen \in [Walks -> SUBSET used]
  /\ steady \in [Walks -> SUBSET used]
  /\ ask \in [Asks -> Ask]
  /\ past \in [Asks -> SUBSET {"paid", "unpaid", "live", "hidden"}]

Live(s) == store[s] # None /\ store[s].live

\* The WHERE clause of ListApprovedStores but for the cursor
Matching(ward) == {s \in Stores : Live(s) /\ (ward # None => store[s].ward = ward)}
MatchingOf(w) == Matching(walk[w].ward)

Init ==
  /\ store = [s \in Stores |-> None]
  /\ used = {}
  /\ paid = {}
  /\ walk \in [Walks -> {q \in Walk : q.cursor = 0 /\ q.phase = "start"}]
  /\ seen = [w \in Walks |-> {}]
  /\ steady = [w \in Walks |-> {}]
  /\ ask = [a \in Asks |-> [user |-> None, store |-> None, phase |-> "unused"]]
  /\ past = [a \in Asks |-> {}]

-----------------------------------------------------------------------------
(* Around the reader, the directory and the subscriptions change.          *)

Table(t) ==
  /\ store' = t
  /\ UNCHANGED <<paid, walk, seen, ask>>
  /\ steady' = [w \in Walks |-> steady[w] \cap MatchingOf(w)']

\* Mutant: an id is not remembered
CreateAgain(s) ==
  /\ s \notin used
  /\ \E row \in Row : Table([store EXCEPT ![s] = row])
  /\ UNCHANGED used

\* CreateStore as a draft or CreateStoreFull with any status
CreateStore(s) ==
  /\ s \notin used
  /\ used' = used \cup {s}
  /\ \E row \in Row : Table([store EXCEPT ![s] = row])

\* ApproveStore, and UpdateStoreFull, which overwrites ward and status
UpdateStore(s) ==
  /\ store[s] # None
  /\ \E row \in Row : Table([store EXCEPT ![s] = row])
  /\ UNCHANGED used

DeleteStore(s) ==
  /\ store[s] # None
  /\ Table([store EXCEPT ![s] = None])
  /\ UNCHANGED used

UpdateSubscription(u) ==
  /\ paid' = IF u \in paid THEN paid \ {u} ELSE paid \cup {u}
  /\ UNCHANGED <<store, used, walk, seen, steady, ask>>

-----------------------------------------------------------------------------
(* The list.                                                               *)

\* Mutant: the cursor is the first row not shown, and "id > cursor" skips it
CursorPastPage(rest, page) == IF Cardinality(rest) > PageLimit THEN rest \ page ELSE page

\* The rows one of which is the next cursor, being their last
CursorRows(rest, page) == page

\* Mutant: "id >= cursor"
RestFromCursor(w) == {s \in MatchingOf(w) : s >= walk[w].cursor}

\* What is left of the list behind the cursor
Rest(w) == {s \in MatchingOf(w) : s > walk[w].cursor}

\* ORDER BY id LIMIT PageLimit, of what is left
Page(rest) == {s \in rest : Cardinality({t \in rest : t < s}) < PageLimit}

\* Mutant: the next cursor is never passed on
ListFromStart(w) ==
  /\ walk[w].phase # "done"
  /\ LET page == Page(Rest(w)) IN
     /\ seen' = [seen EXCEPT ![w] = @ \cup page]
     /\ walk' = [walk EXCEPT ![w].phase = IF page = {} THEN "done" ELSE "open"]
     /\ steady' = [steady EXCEPT ![w] = IF walk[w].phase = "start" THEN MatchingOf(w) ELSE @]
  /\ UNCHANGED <<store, used, paid, ask>>

\* listStores: one row more than the page is fetched to learn if another follows
ListStores(w) ==
  /\ walk[w].phase # "done"
  /\ LET rest == Rest(w)
         page == Page(rest)
     IN /\ seen' = [seen EXCEPT ![w] = @ \cup page]
        /\ IF Cardinality(rest) > PageLimit
           THEN \E last \in CursorRows(rest, page) :
                  /\ \A s \in CursorRows(rest, page) : s <= last
                  /\ walk' = [walk EXCEPT ![w].cursor = last, ![w].phase = "open"]
           ELSE walk' = [walk EXCEPT ![w].phase = "done"]
  /\ steady' = [steady EXCEPT ![w] = IF walk[w].phase = "start" THEN MatchingOf(w) ELSE @]
  /\ UNCHANGED <<store, used, paid, ask>>

-----------------------------------------------------------------------------
(* One store: its detail for anyone signed in, its menu for those who pay. *)

Begin(a, u, s, phase) == ask' = [ask EXCEPT ![a] = [user |-> u, store |-> s, phase |-> phase]]
Goto(a, phase) == ask' = [ask EXCEPT ![a].phase = phase]

GetStore(a) ==
  /\ ask[a].phase = "unused"
  /\ \E s \in Stores : Begin(a, None, s, IF Live(s) THEN "200" ELSE "404")
  /\ UNCHANGED <<store, used, paid, walk, seen, steady>>

\* Mutant: the gate is on the tier the app believes it has
GateOpen(a) ==
  /\ ask[a].phase = "unused"
  /\ \E u \in Users, s \in Stores : Begin(a, u, s, "check")
  /\ UNCHANGED <<store, used, paid, walk, seen, steady>>

\* getStoreMenu: currentUser, isPaidUser
GetStoreMenu(a) ==
  /\ ask[a].phase = "unused"
  /\ \E u \in Users, s \in Stores : Begin(a, u, s, IF u \in paid THEN "check" ELSE "402")
  /\ UNCHANGED <<store, used, paid, walk, seen, steady>>

CheckStore(a) ==
  /\ ask[a].phase = "check"
  /\ Goto(a, IF Live(ask[a].store) THEN "read" ELSE "404")
  /\ UNCHANGED <<store, used, paid, walk, seen, steady>>

\* ListAvailableMenuItems, whatever has become of the store meanwhile
ReadMenu(a) ==
  /\ ask[a].phase = "read"
  /\ Goto(a, "200")
  /\ UNCHANGED <<store, used, paid, walk, seen, steady>>

\* History: what holds around a request at this moment
Facts(a) == {IF ask[a].user \in paid THEN "paid" ELSE "unpaid",
             IF ask[a].store \in Stores /\ Live(ask[a].store) THEN "live" ELSE "hidden"}
Remember == past' = [a \in Asks |->
  IF ask[a].phase \in Answers \/ ask'[a].phase = "unused" THEN past[a] ELSE past[a] \cup Facts(a)']

Around == (\E s \in Stores : CreateStore(s) \/ UpdateStore(s) \/ DeleteStore(s))
          \/ \E u \in Users : UpdateSubscription(u)
Serve(a) == GetStore(a) \/ GetStoreMenu(a) \/ CheckStore(a) \/ ReadMenu(a)
Next == (Around \/ (\E w \in Walks : ListStores(w)) \/ \E a \in Asks : Serve(a)) /\ Remember
Spec == Init /\ [][Next]_vars

\* A client that has begun a walk goes on with it
FairSpec == Spec /\ \A w \in Walks : WF_vars(ListStores(w) /\ Remember)

-----------------------------------------------------------------------------
(* Properties.                                                             *)

(* A walk that has ended has shown every store that was approved, and in   *)
(* the ward asked for, from its first page to its last, whatever was       *)
(* created, approved, withdrawn or deleted between the pages.              *)
NothingMissed == \A w \in Walks : walk[w].phase = "done" => steady[w] \subseteq seen[w]

(* The pages never overlap: no row is shown by two pages of a walk.        *)
NothingTwice == [][\A w \in Walks :
  walk'[w] # walk[w] => seen[w] \cap Page(Rest(w)) = {}]_vars

(* Together with the stores shown matching at that moment: the keyset walk *)
(* keeps the promise of Listing.                                           *)
Promise == INSTANCE Listing WITH
  matching <- [w \in Walks |-> MatchingOf(w)], phase <- [w \in Walks |-> walk[w].phase]
ListIsPromised == Promise!Spec

(* No page stands still: each is the last, or moves the cursor on, of      *)
(* which there are no more than stores.                                    *)
WalksComeNearer == [][\A w \in Walks :
  walk'[w] # walk[w] => walk'[w].phase = "done" \/ walk'[w].cursor > walk[w].cursor]_vars

(* A walk ends, though stores keep appearing behind its cursor.            *)
WalksEnd == \A w \in Walks : (walk[w].phase = "open") ~> (walk[w].phase = "done")

(* A store's menu or detail is shown, or refused, for a reason that held   *)
(* during the request, although gate, check and read are three statements  *)
(* and the subscription or the store may change between any two: no one    *)
(* who paid all the while is sent to the paywall, no menu is shown of a    *)
(* store that was not approved at any moment or to one who never paid.     *)
AnswersAreDue == \A a \in Asks : LET q == ask[a] IN
  /\ q.phase = "200" => "live" \in past[a] /\ (q.user # None => "paid" \in past[a])
  /\ q.phase = "402" => "unpaid" \in past[a]
  /\ q.phase = "404" => "hidden" \in past[a]
=============================================================================
