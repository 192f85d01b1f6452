---------------------------- MODULE BrowseProofs ----------------------------
(***************************************************************************)
(* The keyset walk of listStores and the gate of getStoreMenu, for any set *)
(* of stores, any page length, any number of walks and requests.           *)
(***************************************************************************)
EXTENDS Browse, FiniteSetTheorems, TLAPS

(* What the walk knows between two pages: everything steady up to the      *)
(* cursor has been shown, and nothing has been shown behind it.            *)
WalkSound(w) ==
  /\ steady[w] \subseteq MatchingOf(w)
  /\ walk[w].phase = "start" => walk[w].cursor = 0 /\ seen[w] = {} /\ steady[w] = {}
  /\ walk[w].phase # "done" => \A s \in seen[w] : s <= walk[w].cursor
  /\ walk[w].phase # "done" => \A s \in steady[w] : s <= walk[w].cursor => s \in seen[w]
  /\ walk[w].phase = "done" => steady[w] \subseteq seen[w]

(* What a request in the middle of its statements has been witness of.     *)
AskSound(a) ==
  /\ ask[a].phase \in {"check", "read"} => ask[a].store \in Stores /\ "paid" \in past[a]
  /\ ask[a].phase = "read" => "live" \in past[a]
  /\ ask[a].phase = "200" => "live" \in past[a] /\ (ask[a].user # None => "paid" \in past[a])
  /\ ask[a].phase = "402" => "unpaid" \in past[a]
  /\ ask[a].phase = "404" => "hidden" \in past[a]

Sound == TypeOK /\ (\A w \in Walks : WalkSound(w)) /\ \A a \in Asks : AskSound(a)

-----------------------------------------------------------------------------
(* About a page.                                                           *)

(* A page is a prefix of what is left: LIMIT after ORDER BY id.            *)
LEMMA PageIsPrefix ==
  ASSUME NEW rest \in SUBSET Stores, NEW p \in Page(rest), NEW s \in rest, s <= p
  PROVE  s \in Page(rest)
<1>1. /\ IsFiniteSet(rest) /\ rest \subseteq Nat /\ p \in Nat /\ s \in Nat
  BY FS_Subset, StoresAssumption DEF Page
<1> DEFINE Below(x) == {t \in rest : t < x}
<1>2. Below(s) \subseteq Below(p)
  <2>1. ASSUME NEW t \in rest, t < s PROVE t < p
    <3>1. t \in Nat
      BY <1>1
    <3> QED
      BY <1>1, <2>1, <3>1
  <2> QED
    BY <2>1
<1>3. IsFiniteSet(Below(p)) /\ IsFiniteSet(Below(s))
  BY <1>1, FS_Subset
<1>4. Cardinality(Below(s)) \in Nat /\ Cardinality(Below(p)) \in Nat
  BY <1>3, FS_CardinalityType
<1>5. Cardinality(Below(s)) <= Cardinality(Below(p))
  BY <1>2, <1>3, FS_Subset
<1>6. Cardinality(Below(p)) < PageLimit
  BY DEF Page
<1>7. Cardinality(Below(s)) < PageLimit
  BY <1>4, <1>5, <1>6, PageLimitAssumption
<1> QED
  BY <1>7 DEF Page

(* The extra row tells the last page: without it, the page is all that is  *)
(* left.                                                                   *)
LEMMA LastPageIsWhole ==
  ASSUME NEW rest \in SUBSET Stores, ~(Cardinality(rest) > PageLimit)
  PROVE  Page(rest) = rest
<1> SUFFICES ASSUME NEW s \in rest PROVE Cardinality({t \in rest : t < s}) < PageLimit
  BY DEF Page
<1> DEFINE Below == {t \in rest : t < s}
<1>1. IsFiniteSet(rest) /\ rest \subseteq Nat
  BY FS_Subset, StoresAssumption
<1>2. Below \subseteq rest /\ Below # rest
  BY <1>1
<1>3. Cardinality(Below) \in Nat /\ Cardinality(rest) \in Nat
  BY <1>1, <1>2, FS_Subset, FS_CardinalityType
<1>4. Cardinality(Below) <= Cardinality(rest) /\ Cardinality(Below) # Cardinality(rest)
  <2> HIDE DEF Below
  <2> QED
    BY <1>1, <1>2, FS_Subset
<1> QED
  BY <1>3, <1>4, PageLimitAssumption

-----------------------------------------------------------------------------
(* The steps.                                                              *)

LEMMA InitSound == Init => Sound
<1> SUFFICES ASSUME Init PROVE Sound
  OBVIOUS
<1>1. TypeOK
  BY DEF Init, TypeOK, Walk, Ask
<1>2. \A w \in Walks : WalkSound(w)
  BY DEF Init, WalkSound, MatchingOf, Matching
<1>3. \A a \in Asks : AskSound(a)
  BY DEF Init, AskSound
<1> QED
  BY <1>1, <1>2, <1>3 DEF Sound

(* Whatever happens to the table, a walk keeps what it knows: what stays   *)
(* steady still matches.                                                   *)
LEMMA TableStep ==
  ASSUME Sound, Remember,
         UNCHANGED <<paid, walk, seen, ask>>,
         steady' = [w \in Walks |-> steady[w] \cap MatchingOf(w)'],
         used \subseteq used', used' \subseteq Stores,
         store' \in [Stores -> Row \cup {None}],
         \A s \in Stores : store'[s] # None => s \in used'
  PROVE  TypeOK' /\ \A w \in Walks : WalkSound(w)'
<1>1. past' \in [Asks -> SUBSET {"paid", "unpaid", "live", "hidden"}]
  BY DEF Sound, TypeOK, Remember, Facts
<1>2. steady' \in [Walks -> SUBSET used']
  BY DEF Sound, TypeOK
<1>3. TypeOK'
  BY <1>1, <1>2 DEF Sound, TypeOK
<1>4. ASSUME NEW w \in Walks PROVE WalkSound(w)'
  <2>1. steady'[w] = steady[w] \cap MatchingOf(w)'
    OBVIOUS
  <2>2. WalkSound(w) /\ walk' = walk /\ seen' = seen
    BY DEF Sound
  <2> QED
    BY <2>1, <2>2 DEF WalkSound
<1> QED
  BY <1>3, <1>4

(* A page: behind the new cursor nothing was shown, and before it nothing  *)
(* that is steady was left out; the last page leaves nothing at all.       *)
LEMMA PageStep ==
  ASSUME Sound, NEW w \in Walks, ListStores(w), Remember
  PROVE  TypeOK' /\ \A v \in Walks : WalkSound(v)'
<1> DEFINE rest == Rest(w)
           page == Page(rest)
<1>1. past' \in [Asks -> SUBSET {"paid", "unpaid", "live", "hidden"}]
  BY DEF Sound, TypeOK, Remember, Facts
<1>2. MatchingOf(w) \subseteq used /\ rest \subseteq MatchingOf(w) /\ page \subseteq rest
  BY DEF Sound, TypeOK, MatchingOf, Matching, Live, Rest, Page
<1>3. rest \in SUBSET Stores /\ used \subseteq Stores /\ Stores \subseteq Nat
  BY <1>2, StoresAssumption DEF Sound, TypeOK
<1>4. walk' \in [Walks -> Walk] /\ \A v \in Walks : walk'[v].ward = walk[v].ward
  <2>0. walk \in [Walks -> Walk]
    BY DEF Sound, TypeOK
  <2>1. CASE Cardinality(rest) > PageLimit
    <3>1. PICK last \in page : walk' = [walk EXCEPT ![w].cursor = last, ![w].phase = "open"]
      BY <2>1 DEF ListStores, CursorRows
    <3>2. last \in Stores
      BY <1>2, <1>3
    <3> QED
      BY <2>0, <3>1, <3>2 DEF Walk
  <2>2. CASE ~(Cardinality(rest) > PageLimit)
    <3>1. walk' = [walk EXCEPT ![w].phase = "done"]
      BY <2>2 DEF ListStores
    <3> QED
      BY <2>0, <3>1 DEF Walk
  <2> QED
    BY <2>1, <2>2
<1>5. seen' = [seen EXCEPT ![w] = @ \cup page]
      /\ steady' = [steady EXCEPT ![w] = IF walk[w].phase = "start" THEN MatchingOf(w) ELSE @]
      /\ UNCHANGED <<store, used, paid, ask>>
  BY DEF ListStores
<1>6. TypeOK'
  BY <1>1, <1>2, <1>4, <1>5 DEF Sound, TypeOK
<1>7. \A v \in Walks : MatchingOf(v)' = MatchingOf(v)
  BY <1>4, <1>5 DEF MatchingOf, Matching, Live
<1>8. WalkSound(w) /\ walk \in [Walks -> Walk] /\ seen \in [Walks -> SUBSET used]
      /\ steady \in [Walks -> SUBSET used]
  BY DEF Sound, TypeOK
<1>9. steady'[w] \subseteq MatchingOf(w) /\ seen'[w] = seen[w] \cup page
  BY <1>5, <1>8 DEF WalkSound
<1>10. walk[w].phase # "done" /\ walk[w].cursor \in Nat
  BY <1>3, <1>8 DEF ListStores, Walk
<1>11. \A s \in steady'[w] : s \in seen[w] \/ s \in rest
  <2> TAKE s \in steady'[w]
  <2>1. s \in MatchingOf(w) /\ s \in Nat
    BY <1>2, <1>3, <1>9
  <2>2. CASE walk[w].phase = "start"
    <3>1. s > walk[w].cursor
      BY <1>2, <1>3, <1>8, <2>1, <2>2, StoresAssumption DEF WalkSound
    <3> QED
      BY <2>1, <3>1 DEF Rest
  <2>3. CASE walk[w].phase # "start"
    <3>1. s \in steady[w]
      BY <1>5, <1>8, <2>3
    <3>2. s <= walk[w].cursor \/ s > walk[w].cursor
      BY <1>10, <2>1
    <3> QED
      BY <1>8, <1>10, <2>1, <3>1, <3>2 DEF WalkSound, Rest
  <2> QED
    BY <2>2, <2>3
<1>12. WalkSound(w)'
  <2>1. CASE Cardinality(rest) > PageLimit
    <3>1. PICK last \in page : /\ \A s \in page : s <= last
                               /\ walk' = [walk EXCEPT ![w].cursor = last, ![w].phase = "open"]
      BY <2>1 DEF ListStores, CursorRows
    <3>2. walk'[w].cursor = last /\ walk'[w].phase = "open"
      BY <1>8, <3>1 DEF Walk
    <3>3. last \in Nat /\ walk[w].cursor < last
      BY <1>2, <1>3, <1>10 DEF Rest
    <3>4. \A s \in seen'[w] : s <= last
      <4> TAKE s \in seen'[w]
      <4>1. s \in Nat
        BY <1>2, <1>3, <1>8, <1>9
      <4>2. CASE s \in seen[w]
        BY <1>8, <1>10, <3>3, <4>1, <4>2 DEF WalkSound
      <4> QED
        BY <1>9, <3>1, <4>2
    <3>5. \A s \in steady'[w] : s <= last => s \in seen'[w]
      BY <1>3, <1>9, <1>11, PageIsPrefix
    <3> QED
      BY <1>7, <1>9, <3>2, <3>4, <3>5 DEF WalkSound
  <2>2. CASE ~(Cardinality(rest) > PageLimit)
    <3>1. page = rest
      BY <1>3, <2>2, LastPageIsWhole
    <3>2. walk'[w].phase = "done"
      BY <1>8, <2>2 DEF ListStores, Walk
    <3> QED
      BY <1>7, <1>9, <1>11, <3>1, <3>2 DEF WalkSound
  <2> QED
    BY <2>1, <2>2
<1>13. ASSUME NEW v \in Walks, v # w PROVE WalkSound(v)'
  <2>1. walk'[v] = walk[v]
    BY <1>8, <1>13 DEF ListStores
  <2>2. seen'[v] = seen[v] /\ steady'[v] = steady[v] /\ WalkSound(v)
    BY <1>5, <1>8, <1>13 DEF Sound
  <2> QED
    BY <1>7, <2>1, <2>2 DEF WalkSound
<1> QED
  BY <1>6, <1>12, <1>13

(* What a request witnessed is not forgotten.                              *)
LEMMA PastGrows ==
  ASSUME Sound, Remember, NEW a \in Asks
  PROVE  past[a] \subseteq past'[a]
  BY DEF Remember, Sound, TypeOK

(* Steps that serve no request for one store leave those as they are.      *)
LEMMA AsksIdle ==
  ASSUME Sound, Remember, ask' = ask, NEW a \in Asks
  PROVE  AskSound(a)'
<1>1. AskSound(a) /\ past[a] \subseteq past'[a]
  BY PastGrows DEF Sound
<1> QED
  BY <1>1 DEF AskSound

(* A request is answered by what it read, and it remembers the moment.     *)
LEMMA AskStep ==
  ASSUME Sound, NEW b \in Asks, Serve(b), Remember
  PROVE  Sound'
<1>1. UNCHANGED <<store, used, paid, walk, seen, steady>>
  BY DEF Serve, GetStore, GetStoreMenu, CheckStore, ReadMenu
<1>2. ask \in [Asks -> Ask] /\ past \in [Asks -> SUBSET {"paid", "unpaid", "live", "hidden"}]
  BY DEF Sound, TypeOK
<1>3. ask' \in [Asks -> Ask] /\ \A a \in Asks : a # b => ask'[a] = ask[a]
  <2>1. CASE GetStore(b)
    BY <1>2, <2>1 DEF GetStore, Begin, Ask, Answers
  <2>2. CASE GetStoreMenu(b)
    BY <1>2, <2>2 DEF GetStoreMenu, Begin, Ask, Answers
  <2>3. CASE CheckStore(b) \/ ReadMenu(b)
    BY <1>2, <2>3 DEF CheckStore, ReadMenu, Goto, Ask, Answers
  <2> QED
    BY <2>1, <2>2, <2>3 DEF Serve
<1>4. past' \in [Asks -> SUBSET {"paid", "unpaid", "live", "hidden"}]
  BY <1>2 DEF Remember, Facts
<1>5. TypeOK'
  BY <1>1, <1>3, <1>4 DEF Sound, TypeOK
<1>6. \A w \in Walks : WalkSound(w)'
  BY <1>1 DEF Sound, WalkSound, MatchingOf, Matching, Live
<1>7. ASSUME NEW a \in Asks, a # b PROVE AskSound(a)'
  <2>1. AskSound(a) /\ past[a] \subseteq past'[a] /\ ask'[a] = ask[a]
    BY <1>3, <1>7, PastGrows DEF Sound
  <2> QED
    BY <2>1 DEF AskSound
<1>8. AskSound(b) /\ past[b] \subseteq past'[b]
  BY PastGrows DEF Sound
<1>9. ask[b].phase \notin Answers /\ ask'[b].phase # "unused" => past'[b] = past[b] \cup Facts(b)'
  BY DEF Remember
<1>10. AskSound(b)'
  <2>1. CASE GetStore(b)
    <3>1. PICK s \in Stores :
            ask'[b] = [user |-> None, store |-> s, phase |-> IF Live(s) THEN "200" ELSE "404"]
      BY <1>2, <2>1 DEF GetStore, Begin
    <3>2. past'[b] = past[b] \cup Facts(b)'
      BY <1>9, <2>1, <3>1 DEF GetStore, Answers
    <3> QED
      BY <1>1, <3>1, <3>2 DEF AskSound, Facts, Live
  <2>2. CASE GetStoreMenu(b)
    <3>1. PICK u \in Users, s \in Stores :
            ask'[b] = [user |-> u, store |-> s, phase |-> IF u \in paid THEN "check" ELSE "402"]
      BY <1>2, <2>2 DEF GetStoreMenu, Begin
    <3>2. past'[b] = past[b] \cup Facts(b)'
      BY <1>9, <2>2, <3>1 DEF GetStoreMenu, Answers
    <3> QED
      BY <1>1, <3>1, <3>2 DEF AskSound, Facts
  <2>3. CASE CheckStore(b)
    <3>1. ask'[b] = [ask[b] EXCEPT !.phase = IF Live(ask[b].store) THEN "read" ELSE "404"]
      BY <1>2, <2>3 DEF CheckStore, Goto
    <3>2. ask'[b].store = ask[b].store
          /\ ask'[b].phase = IF Live(ask[b].store) THEN "read" ELSE "404"
      BY <1>2, <3>1 DEF Ask
    <3>3. past'[b] = past[b] \cup Facts(b)'
      BY <1>9, <2>3, <3>2 DEF CheckStore, Answers
    <3>4. "paid" \in past'[b] /\ ask[b].store \in Stores
      BY <1>8, <2>3 DEF AskSound, CheckStore
    <3>5. Live(ask[b].store) => "live" \in past'[b]
      BY <1>1, <3>2, <3>3, <3>4 DEF Facts, Live
    <3>6. ~Live(ask[b].store) => "hidden" \in past'[b]
      BY <1>1, <3>2, <3>3 DEF Facts, Live
    <3> QED
      BY <3>2, <3>4, <3>5, <3>6 DEF AskSound
  <2>4. CASE ReadMenu(b)
    <3>1. ask'[b].phase = "200"
      BY <1>2, <2>4 DEF ReadMenu, Goto, Ask
    <3> QED
      BY <1>8, <2>4, <3>1 DEF AskSound, ReadMenu
  <2> QED
    BY <2>1, <2>2, <2>3, <2>4 DEF Serve
<1> QED
  BY <1>5, <1>6, <1>7, <1>10 DEF Sound

LEMMA NextSound == Sound /\ [Next]_vars => Sound'
<1> SUFFICES ASSUME Sound, [Next]_vars PROVE Sound'
  OBVIOUS
<1>1. CASE UNCHANGED vars
  BY <1>1 DEF vars, Sound, TypeOK, WalkSound, AskSound, MatchingOf, Matching, Live
<1>2. CASE Around /\ Remember
  <2>1. ask' = ask
    BY <1>2 DEF Around, CreateStore, UpdateStore, DeleteStore, Table, UpdateSubscription
  <2>2. \A a \in Asks : AskSound(a)'
    BY <1>2, <2>1, AsksIdle
  <2>3. ASSUME NEW s \in Stores, CreateStore(s) \/ UpdateStore(s) \/ DeleteStore(s)
        PROVE  TypeOK' /\ \A w \in Walks : WalkSound(w)'
    <3>1. /\ store \in [Stores -> Row \cup {None}] /\ used \subseteq Stores
          /\ \A x \in Stores : store[x] # None => x \in used
      BY DEF Sound, TypeOK
    <3>2. PICK row \in Row \cup {None} : Table([store EXCEPT ![s] = row])
      BY <2>3 DEF CreateStore, UpdateStore, DeleteStore
    <3>3. used \subseteq used' /\ used' \subseteq Stores /\ (row # None => s \in used')
      <4>1. CASE CreateStore(s)
        BY <3>1, <4>1 DEF CreateStore
      <4>2. CASE UpdateStore(s) \/ DeleteStore(s)
        BY <3>1, <4>2 DEF UpdateStore, DeleteStore
      <4> QED
        BY <2>3, <4>1, <4>2
    <3>4. store' = [store EXCEPT ![s] = row]
      BY <3>2 DEF Table
    <3>5. store' \in [Stores -> Row \cup {None}]
          /\ \A x \in Stores : store'[x] # None => x \in used'
      BY <3>1, <3>3, <3>4
    <3> QED
      BY <1>2, <3>2, <3>3, <3>5, TableStep DEF Table
  <2>4. ASSUME NEW u \in Users, UpdateSubscription(u)
        PROVE  TypeOK' /\ \A w \in Walks : WalkSound(w)'
    <3>1. past' \in [Asks -> SUBSET {"paid", "unpaid", "live", "hidden"}]
      BY <1>2 DEF Sound, TypeOK, Remember, Facts
    <3> QED
      BY <2>4, <3>1 DEF UpdateSubscription, Sound, TypeOK, WalkSound, MatchingOf, Matching, Live
  <2> QED
    BY <1>2, <2>2, <2>3, <2>4 DEF Around, Sound
<1>3. ASSUME NEW w \in Walks, ListStores(w), Remember PROVE Sound'
  <2>1. ask' = ask
    BY <1>3 DEF ListStores
  <2> QED
    BY <1>3, <2>1, PageStep, AsksIdle DEF Sound
<1>4. ASSUME NEW a \in Asks, Serve(a), Remember PROVE Sound'
  BY <1>4, AskStep
<1> QED
  BY <1>1, <1>2, <1>3, <1>4 DEF Next

-----------------------------------------------------------------------------
(* The theorems.                                                           *)

LEMMA SpecSound == Spec => []Sound
  BY InitSound, NextSound, PTL DEF Spec

(* Every variable of Browse keeps its type, for any stores, wards, walks   *)
(* and requests, whatever the length of a page.                            *)
THEOREM BrowseTypes == Spec => []TypeOK
<1>1. Sound => TypeOK
  BY DEF Sound
<1> QED
  BY <1>1, SpecSound, PTL

(* listStores: a walk that follows next_cursor to its end has been shown   *)
(* every store that was approved all the while, for every page length and  *)
(* every interleaving with the operators' changes.                         *)
THEOREM WalksMissNothing == Spec => []NothingMissed
<1>1. Sound => NothingMissed
  BY DEF Sound, WalkSound, NothingMissed
<1> QED
  BY <1>1, SpecSound, PTL

(* Pages never overlap: the next one lies behind all that was shown.       *)
LEMMA PagesAreNew ==
  ASSUME Sound, NEW w \in Walks, walk[w].phase # "done"
  PROVE  seen[w] \cap Page(Rest(w)) = {}
<1>0. /\ walk \in [Walks -> Walk] /\ seen \in [Walks -> SUBSET used] /\ used \subseteq Stores
      /\ WalkSound(w)
  BY DEF Sound, TypeOK
<1>1. /\ walk[w].cursor \in Nat /\ seen[w] \subseteq Nat
      /\ \A s \in seen[w] : s <= walk[w].cursor
  <2>1. Stores \subseteq Nat
    BY StoresAssumption
  <2>2. walk[w].cursor \in Stores \cup {0}
    BY <1>0 DEF Walk
  <2>3. walk[w].cursor \in Nat
    <3>1. \A c \in Stores \cup {0} : c \in Nat
      BY <2>1
    <3> QED
      BY <2>2, <3>1, Zenon
  <2>4. seen[w] \subseteq used
    BY <1>0
  <2>5. \A s \in seen[w] : s <= walk[w].cursor
    BY <1>0 DEF WalkSound
  <2>6. seen[w] \subseteq Nat
    BY <1>0, <2>1, <2>4
  <2> QED
    BY <2>3, <2>5, <2>6
<1>2. \A s \in Page(Rest(w)) : s > walk[w].cursor
  BY DEF Page, Rest
<1>3. \A s \in seen[w] : ~(s > walk[w].cursor)
  BY <1>1
<1> QED
  BY <1>2, <1>3

(* No store is shown by two pages of one walk.                             *)
THEOREM WalksRepeatNothing == Spec => NothingTwice
<1>1. Sound /\ [Next]_vars => [\A w \in Walks :
        walk'[w] # walk[w] => seen[w] \cap Page(Rest(w)) = {}]_vars
  <2> SUFFICES ASSUME Sound, Next, NEW w \in Walks, walk'[w] # walk[w]
               PROVE  seen[w] \cap Page(Rest(w)) = {}
    OBVIOUS
  <2>1. PICK v \in Walks : ListStores(v)
    <3>1. Around => UNCHANGED walk
      BY DEF Around, CreateStore, UpdateStore, DeleteStore, Table, UpdateSubscription
    <3>2. \A a \in Asks : Serve(a) => UNCHANGED walk
      BY DEF Serve, GetStore, GetStoreMenu, CheckStore, ReadMenu
    <3> QED
      BY <3>1, <3>2 DEF Next
  <2>2. walk[v].phase # "done" /\ v = w
    BY <2>1 DEF ListStores, Sound, TypeOK
  <2> QED
    BY <2>2, PagesAreNew
<1> QED
  BY <1>1, SpecSound, PTL DEF Spec, NothingTwice

(* Every page of a walk is its last or moves the cursor on: the progress   *)
(* by which it ends, whatever appears behind the cursor.                   *)
THEOREM WalksMoveOn == Spec => WalksComeNearer
<1>1. Sound /\ [Next]_vars => [\A w \in Walks : walk'[w] # walk[w] =>
        walk'[w].phase = "done" \/ walk'[w].cursor > walk[w].cursor]_vars
  <2> SUFFICES ASSUME Sound, Next, NEW w \in Walks, walk'[w] # walk[w]
               PROVE  walk'[w].phase = "done" \/ walk'[w].cursor > walk[w].cursor
    OBVIOUS
  <2>1. PICK v \in Walks : ListStores(v)
    <3>1. Around => UNCHANGED walk
      BY DEF Around, CreateStore, UpdateStore, DeleteStore, Table, UpdateSubscription
    <3>2. \A a \in Asks : Serve(a) => UNCHANGED walk
      BY DEF Serve, GetStore, GetStoreMenu, CheckStore, ReadMenu
    <3> QED
      BY <3>1, <3>2 DEF Next
  <2>2. walk \in [Walks -> Walk] /\ v = w
    BY <2>1 DEF ListStores, Sound, TypeOK
  <2>3. CASE Cardinality(Rest(w)) > PageLimit
    <3>1. PICK last \in Page(Rest(w)) :
            walk' = [walk EXCEPT ![w].cursor = last, ![w].phase = "open"]
      BY <2>1, <2>2, <2>3 DEF ListStores, CursorRows
    <3>2. walk'[w].cursor = last
      BY <2>2, <3>1 DEF Walk
    <3> QED
      BY <3>1, <3>2 DEF Page, Rest
  <2>4. CASE ~(Cardinality(Rest(w)) > PageLimit)
    <3>1. walk' = [walk EXCEPT ![w].phase = "done"]
      BY <2>1, <2>2, <2>4 DEF ListStores
    <3> QED
      BY <2>2, <3>1 DEF Walk
  <2> QED
    BY <2>3, <2>4
<1> QED
  BY <1>1, SpecSound, PTL DEF Spec, WalksComeNearer

(* getStoreMenu and getStore: every answer has a reason that held at some  *)
(* moment of the request, although its statements commit one by one.       *)
THEOREM AnswersHaveReasons == Spec => []AnswersAreDue
<1>1. Sound => AnswersAreDue
  BY DEF Sound, AskSound, AnswersAreDue
<1> QED
  BY <1>1, SpecSound, PTL

(* The abstract step of a page: what is shown is new and matches, and the  *)
(* last page leaves nothing steady out.                                    *)
LEMMA PageKeepsPromise ==
  ASSUME Sound, Sound', NEW w \in Walks, ListStores(w)
  PROVE  Promise!Show(w)
<1> DEFINE page == Page(Rest(w))
           phases == [v \in Walks |-> walk[v].phase]
           matches == [v \in Walks |-> MatchingOf(v)]
<1>1. /\ walk \in [Walks -> Walk] /\ seen \in [Walks -> SUBSET used]
      /\ steady \in [Walks -> SUBSET used]
  BY DEF Sound, TypeOK
<1>2. walk[w].phase # "done" /\ phases[w] = walk[w].phase /\ matches[w] = MatchingOf(w)
  BY DEF ListStores
<1>3. page \in SUBSET (matches[w] \ seen[w])
  BY <1>2, PagesAreNew DEF Page, Rest
<1>4. PICK q \in Walk : /\ walk' = [walk EXCEPT ![w] = q]
                       /\ q.ward = walk[w].ward /\ q.phase \in {"open", "done"}
  <2>1. walk'[w] \in Walk /\ walk'[w].ward = walk[w].ward
        /\ walk'[w].phase \in {"open", "done"} /\ walk' = [walk EXCEPT ![w] = walk'[w]]
    <3>1. walk' \in [Walks -> Walk]
      BY DEF Sound, TypeOK
    <3>2. CASE Cardinality(Rest(w)) > PageLimit
      <4>1. PICK last : walk' = [walk EXCEPT ![w].cursor = last, ![w].phase = "open"]
        BY <3>2 DEF ListStores
      <4> QED
        BY <1>1, <3>1, <4>1 DEF Walk
    <3>3. CASE ~(Cardinality(Rest(w)) > PageLimit)
      <4>1. walk' = [walk EXCEPT ![w].phase = "done"]
        BY <3>3 DEF ListStores
      <4> QED
        BY <1>1, <3>1, <4>1 DEF Walk
    <3> QED
      BY <3>2, <3>3
  <2> QED
    BY <2>1
<1>5. phases' = [phases EXCEPT ![w] = q.phase]
  BY <1>1, <1>4
<1>6. matches' = matches
  <2>1. \A v \in Walks : MatchingOf(v)' = MatchingOf(v)
    BY <1>1, <1>4 DEF ListStores, MatchingOf, Matching, Live
  <2> QED
    BY <2>1
<1>7. seen' = [seen EXCEPT ![w] = @ \cup page]
      /\ steady' = [steady EXCEPT ![w] = IF phases[w] = "start" THEN matches[w] ELSE steady[w]]
  BY <1>1, <1>2 DEF ListStores
<1>8. q.phase = "done" =>
        (IF phases[w] = "start" THEN matches[w] ELSE steady[w]) \subseteq seen[w] \cup page
  <2> SUFFICES ASSUME q.phase = "done"
               PROVE  steady'[w] \subseteq seen'[w]
    BY <1>1, <1>7
  <2>1. walk'[w].phase = "done"
    BY <1>1, <1>4
  <2> QED
    BY <2>1 DEF Sound, WalkSound
<1> HIDE DEF page, phases, matches
<1>9. phases[w] # "done" /\ page \in SUBSET (matches[w] \ seen[w]) /\ q.phase \in {"open", "done"}
  BY <1>2, <1>3, <1>4
<1>10. \E p \in SUBSET (matches[w] \ seen[w]), end \in {"open", "done"} :
        /\ seen' = [seen EXCEPT ![w] = @ \cup p]
        /\ end = "done" =>
             (IF phases[w] = "start" THEN matches[w] ELSE steady[w]) \subseteq seen[w] \cup p
        /\ phases' = [phases EXCEPT ![w] = end]
  BY <1>5, <1>7, <1>8, <1>9
<1>11. steady' = [steady EXCEPT ![w] = IF phases[w] = "start" THEN matches[w] ELSE steady[w]]
  BY <1>7
<1> USE DEF phases, matches
<1> QED
  BY <1>2, <1>6, <1>10, <1>11 DEF Promise!Show, Promise!SteadyNow

(* The keyset walk of listStores implements Listing: pages of matching     *)
(* stores, none twice, and no end before every steady store was shown.     *)
THEOREM ListKeepsItsPromise == Spec => ListIsPromised
<1>1. Init => Promise!Init
  <2> SUFFICES ASSUME Init PROVE Promise!Init
    OBVIOUS
  <2>1. \A w \in Walks : walk[w].phase = "start" /\ MatchingOf(w) \in SUBSET Stores
    BY DEF Init, MatchingOf, Matching
  <2> QED
    BY <2>1 DEF Init, Promise!Init
<1>2. Sound /\ Sound' /\ [Next]_vars => [Promise!Next]_Promise!vars
  <2> SUFFICES ASSUME Sound, Sound', [Next]_vars PROVE [Promise!Next]_Promise!vars
    OBVIOUS
  <2>1. CASE UNCHANGED vars
    BY <2>1 DEF vars, Promise!vars, MatchingOf, Matching, Live
  <2>2. ASSUME NEW w \in Walks, ListStores(w) PROVE Promise!Next
    BY <2>2, PageKeepsPromise DEF Promise!Next
  <2>3. ASSUME NEW a \in Asks, Serve(a) PROVE UNCHANGED Promise!vars
    <3>1. UNCHANGED <<store, walk, seen, steady>>
      BY <2>3 DEF Serve, GetStore, GetStoreMenu, CheckStore, ReadMenu
    <3> QED
      BY <3>1 DEF Promise!vars, MatchingOf, Matching, Live
  <2>4. ASSUME NEW u \in Users, UpdateSubscription(u) PROVE UNCHANGED Promise!vars
    BY <2>4 DEF UpdateSubscription, Promise!vars, MatchingOf, Matching, Live
  <2>5. ASSUME NEW s \in Stores, CreateStore(s) \/ UpdateStore(s) \/ DeleteStore(s)
        PROVE  Promise!Next
    <3>1. /\ UNCHANGED <<walk, seen>>
          /\ steady' = [w \in Walks |-> steady[w] \cap MatchingOf(w)']
      BY <2>5 DEF CreateStore, UpdateStore, DeleteStore, Table
    <3>2. \A w \in Walks : MatchingOf(w)' \in SUBSET Stores
      BY DEF MatchingOf, Matching
    <3> QED
      BY <3>1, <3>2 DEF Promise!Next, Promise!Change
  <2> QED
    BY <2>1, <2>2, <2>3, <2>4, <2>5 DEF Next, Around
<1> QED
  BY <1>1, <1>2, SpecSound, PTL DEF Spec, ListIsPromised, Promise!Spec
=============================================================================
