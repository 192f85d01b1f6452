------------------------ MODULE CatalogueIntakeProofs ------------------------
(***************************************************************************)
(* Proofs about CatalogueIntake, for any pages, files, searches, limits    *)
(* and number of requests.                                                 *)
(***************************************************************************)
EXTENDS CatalogueIntake, TLAPS

(* What the locals of a handler look like in each phase.  Whoever is about *)
(* to save, or follows links of which none was saved, still has an outcome *)
(* to spare.                                                               *)
Shape(q) ==
  /\ q.op = "none" <=> q.phase = "unused"
  /\ q.op = "import" => /\ q.phase \in {"count", "create", "menu", "broken", "ok", "died"}
                        /\ q.phase \in {"count", "create", "menu"} => q.file # <<>>
  /\ q.op = "discover" => q.phase \in {"pages", "links", "lock", "find", "commit", "ok", "died"}
  /\ q.phase \in {"lock", "find", "commit"} =>
       q.cand \in Candidates /\ q.page \in Pages /\ Len(q.outcomes) < Limit
  /\ q.phase = "links" => q.listing \in Pages /\ (q.saved \/ Len(q.outcomes) < Limit)
  /\ q.fetches <= MaxFetches /\ q.gets <= 2 * q.fetches /\ Len(q.outcomes) <= Limit

Shapes == \A r \in Requests : Shape(req[r])

(* A stored row is of a request that has begun, and so keeps its kind.     *)
Attributed == \A x \in rows : req[x.by].op # "none"

(* Whom a request may know is who was answered before it began, and has    *)
(* stored nothing since.                                                   *)
Answered == \A r \in Requests :
  /\ Arrives(r) => past[r] = {}
  /\ \A o \in past[r] : req[o].phase = "ok"

(* Between the lookup and the commit a discovery has the lock, and no      *)
(* draft, nor any store of a request it knows, is of its restaurant, but   *)
(* by what a form has changed since.                                       *)
Alike(x, c) == \/ "source" \in x.kept /\ SameSource(x.cand, c)
               \/ "listing" \in x.kept /\ SameShop(x.cand, c)
Holding(q, r) == lock = r <=> q.phase \in {"find", "commit"}
Unmatched(q, r) == q.phase = "commit" =>
  \A x \in rows : req[x.by].op = "discover" \/ x.by \in past[r] => ~Alike(x, q.cand)
Locked == \A r \in Requests : Holding(req[r], r) /\ Unmatched(req[r], r)

(* Between the count and the insert neither an import nor a request it     *)
(* knows has stored its row.                                               *)
Uncounted(q, r) == q.phase = "create" =>
  \A x \in rows : x.by \in past[r] \cup {r} /\ "listing" \in x.kept =>
    ~SameListing(x.cand, Head(q.file))
Counted == \A r \in Requests : Uncounted(req[r], r)

IInv == TypeOK /\ Shapes /\ Attributed /\ Answered /\ Locked /\ Counted
        /\ NoDuplicateDrafts /\ BatchesBringNew

(* A request that moves was not answered, and its answer is noted by those *)
(* who begin later.                                                        *)
Moving(r) == Remember /\ req[r].phase # "ok"

LEMMA UnusedIsRequest ==
  Unused \in Request /\ Unused.fetches = 0 /\ Unused.gets = 0 /\ Unused.outcomes = <<>>
  BY NoneAssumption, BoundsAssumption DEF Unused, Request, InFlight, Ended

LEMMA InitIInv == Init => IInv
<1> SUFFICES ASSUME Init PROVE IInv
  OBVIOUS
<1> USE NoneAssumption, BoundsAssumption DEF Init
<1>1. TypeOK
  BY UnusedIsRequest DEF TypeOK, Unused
<1>2. Shapes
  BY DEF Shapes, Shape, Unused
<1>3. /\ Attributed /\ Answered /\ Locked /\ Counted
      /\ NoDuplicateDrafts /\ BatchesBringNew
  BY DEF Attributed, Answered, Arrives, Locked, Holding, Unmatched, Counted, Uncounted, Unused,
         NoDuplicateDrafts, BatchesBringNew, By
<1> QED
  BY <1>1, <1>2, <1>3 DEF IInv

LEMMA LikenessIsMutual == \A c, d :
  /\ SameSource(c, d) <=> SameSource(d, c)
  /\ SameShop(c, d) <=> SameShop(d, c)
  BY DEF SameSource, SameShop

LEMMA AlikeAreDuplicates == \A x, c : Alike(x, c) => Duplicate(x.cand, c)
  BY DEF Alike, Duplicate

-----------------------------------------------------------------------------
(* What a request knows is settled when it begins, and stays true.         *)
LEMMA KnowledgeIsSettled ==
  ASSUME IInv, NEW r \in Requests, NEW q, Moving(r), q.op # "none", Shape(q),
         req' = [req EXCEPT ![r] = q]
  PROVE  /\ past' \in [Requests -> SUBSET Requests]
         /\ Answered'
         /\ \A o \in Requests : ~Arrives(o) => past'[o] = past[o]
         /\ \A o \in Requests : o # r => past'[o] = past[o]
         /\ ~Arrives(r) => past' = past
         /\ \A o \in Requests : r \notin past[o]
<1>1. /\ past \in [Requests -> SUBSET Requests] /\ Answered /\ req \in [Requests -> Request]
      /\ req'[r] = q /\ \A o \in Requests \ {r} : req'[o] = req[o]
  BY DEF IInv, TypeOK
<1>2. q.phase # "unused" /\ req[r].phase # "ok"
  BY DEF Shape, Moving
<1>3. \A o \in Requests :
        past'[o] = IF Arrives(o) /\ req'[o].phase # "unused"
                   THEN {a \in Requests : req[a].phase = "ok"} ELSE past[o]
  BY DEF Moving, Remember
<1>4. past' \in [Requests -> SUBSET Requests]
  <2>1. \A o \in Requests : past'[o] \subseteq Requests
    BY <1>1, <1>3
  <2> QED
    BY <2>1 DEF Moving, Remember
<1>5. /\ \A o \in Requests : ~Arrives(o) => past'[o] = past[o]
      /\ \A o \in Requests : o # r => past'[o] = past[o]
  BY <1>1, <1>3 DEF Arrives
<1>6. \A o \in Requests : r \notin past[o]
  BY <1>1, <1>2 DEF Answered
<1>7. ~Arrives(r) => past' = past
  <2> SUFFICES ASSUME ~Arrives(r) PROVE past' = past
    OBVIOUS
  <2>1. \A o \in Requests : past'[o] = past[o]
    BY <1>5
  <2> QED
    BY <1>1, <1>4, <2>1
<1>8. Answered'
  <2> SUFFICES ASSUME NEW o \in Requests
               PROVE  /\ req'[o].phase = "unused" => past'[o] = {}
                      /\ \A a \in past'[o] : req'[a].phase = "ok"
    BY DEF Answered, Arrives
  <2>1. \A a \in past'[o] : a \in Requests /\ req[a].phase = "ok"
    BY <1>1, <1>3 DEF Answered
  <2>2. \A a \in past'[o] : req'[a].phase = "ok"
    BY <1>1, <1>2, <2>1
  <2>3. req'[o].phase = "unused" => past'[o] = {}
    <3>1. o # r => req'[o] = req[o] /\ past'[o] = past[o]
      BY <1>1, <1>5
    <3> QED
      BY <1>1, <1>2, <3>1 DEF Answered, Arrives
  <2> QED
    BY <2>2, <2>3
<1> QED
  BY <1>4, <1>5, <1>6, <1>7, <1>8

(* A request moves on, and the stores become no more.                      *)
LEMMA MovedKeeps ==
  ASSUME IInv, NEW r \in Requests, Moving(r), NEW q \in Request, Shape(q),
         req' = [req EXCEPT ![r] = q],
         q.op = req[r].op \/ req[r].op = "none", q.op # "none",
         rows' \subseteq rows, menus' \subseteq Key,
         \/ q.phase \in {"find", "commit"} /\ lock' = r /\ lock \in {r, None}
         \/ q.phase \notin {"find", "commit"} /\ lock' = None /\ lock \in {r, None}
         \/ /\ q.phase \notin {"find", "commit"} /\ req[r].phase \notin {"find", "commit"}
            /\ lock' = lock,
         q.phase = "commit" => \A x \in rows : ~Alike(x, q.cand),
         q.phase = "create" => \A x \in rows : ~SameListing(x.cand, Head(q.file))
  PROVE  IInv'
<1> USE NoneAssumption, BoundsAssumption
<1>0. /\ TypeOK /\ rows \subseteq Row /\ lock' \in Requests \cup {None}
      /\ req'[r] = q /\ \A o \in Requests \ {r} : req'[o] = req[o]
  BY DEF IInv, TypeOK
<1>lock. \A o \in Requests : lock' = o <=> req'[o].phase \in {"find", "commit"}
  <2> SUFFICES ASSUME NEW o \in Requests
               PROVE  lock' = o <=> req'[o].phase \in {"find", "commit"}
    OBVIOUS
  <2>1. lock = o <=> req[o].phase \in {"find", "commit"}
    BY DEF IInv, Locked, Holding
  <2>2. CASE o = r
    BY <1>0, <2>1, <2>2
  <2>3. CASE o # r
    BY <1>0, <2>1, <2>3
  <2> QED
    BY <2>2, <2>3
<1>past. /\ past' \in [Requests -> SUBSET Requests] /\ Answered'
         /\ \A o \in Requests : ~Arrives(o) \/ o # r => past'[o] = past[o]
  BY KnowledgeIsSettled
<1>1. TypeOK'
  <2>1. \A o \in Requests : req'[o] \in Request /\ req'[o].fetches <= MaxFetches
         /\ req'[o].gets <= 2 * req'[o].fetches /\ Len(req'[o].outcomes) <= Limit
    BY <1>0 DEF TypeOK, Shape
  <2> QED
    BY <1>0, <1>past, <1>lock, <2>1 DEF TypeOK
<1>2. Shapes'
  BY <1>0 DEF IInv, Shapes
<1>3. \A x \in rows : x.by \in Requests /\ req[x.by].op # "none" /\ req'[x.by].op = req[x.by].op
  BY <1>0 DEF IInv, Attributed, Row
<1>4. Attributed'
  BY <1>3 DEF Attributed
<1>5. Locked'
  <2> SUFFICES ASSUME NEW o \in Requests, req'[o].phase = "commit",
                      NEW x \in rows', req'[x.by].op = "discover" \/ x.by \in past'[o]
               PROVE  ~Alike(x, req'[o].cand)
    BY <1>lock DEF Locked, Holding, Unmatched
  <2>1. CASE o = r
    BY <1>0, <2>1
  <2>2. CASE o # r
    <3>1. req'[o] = req[o] /\ past'[o] = past[o] /\ Unmatched(req[o], o)
      BY <1>0, <1>past, <2>2 DEF IInv, Locked
    <3> QED
      BY <1>3, <2>2, <3>1 DEF Unmatched
  <2> QED
    BY <2>1, <2>2
<1>6. Counted'
  <2> SUFFICES ASSUME NEW o \in Requests, req'[o].phase = "create", NEW x \in rows',
                      x.by \in past'[o] \cup {o}, "listing" \in x.kept
               PROVE  ~SameListing(x.cand, Head(req'[o].file))
    BY DEF Counted, Uncounted
  <2>1. CASE o = r
    BY <1>0, <2>1
  <2>2. CASE o # r
    BY <1>0, <1>past, <2>2 DEF IInv, Counted, Uncounted
  <2> QED
    BY <2>1, <2>2
<1>7. NoDuplicateDrafts' /\ BatchesBringNew'
  <2>1. \A x \in By("discover")' : x \in By("discover")
    BY <1>3 DEF By
  <2>2. \A x \in By("import")' : x \in By("import")
    BY <1>3 DEF By
  <2>3. \A x \in rows' : x \in rows /\ past'[x.by] = past[x.by]
    BY <1>3, <1>past DEF IInv, Shapes, Shape, Arrives
  <2> QED
    BY <2>1, <2>2, <2>3 DEF IInv, NoDuplicateDrafts, BatchesBringNew
<1> QED
  BY <1>1, <1>2, <1>past, <1>4, <1>5, <1>6, <1>7 DEF IInv

(* A request stores a row: an import the one it counted, a discovery the   *)
(* one it looked for with the lock that it now gives back.                 *)
LEMMA StoredKeeps ==
  ASSUME IInv, NEW r \in Requests, Moving(r), NEW q \in Request, Shape(q), NEW x \in Row,
         req' = [req EXCEPT ![r] = q],
         q.op = req[r].op, q.phase \notin {"find", "commit", "create"},
         rows' = rows \cup {x}, menus' = menus, x.by = r,
         \/ req[r].op = "import" /\ req[r].phase = "create" /\ x.cand = Head(req[r].file) /\ lock' = lock
         \/ req[r].op = "discover" /\ req[r].phase = "commit" /\ x.cand = req[r].cand /\ lock' = None
  PROVE  IInv'
<1> USE NoneAssumption, BoundsAssumption
<1>0. /\ TypeOK /\ rows \subseteq Row
      /\ req'[r] = q /\ \A o \in Requests \ {r} : req'[o] = req[o]
      /\ lock' \in Requests \cup {None}
  BY DEF IInv, TypeOK
<1>lock. \A o \in Requests : lock' = o <=> req'[o].phase \in {"find", "commit"}
  <2> SUFFICES ASSUME NEW o \in Requests
               PROVE  lock' = o <=> req'[o].phase \in {"find", "commit"}
    OBVIOUS
  <2>1. /\ lock = o <=> req[o].phase \in {"find", "commit"}
        /\ lock = r <=> req[r].phase \in {"find", "commit"}
    BY DEF IInv, Locked, Holding
  <2>2. CASE o = r
    BY <1>0, <2>1, <2>2
  <2>3. CASE o # r
    BY <1>0, <2>1, <2>3
  <2> QED
    BY <2>2, <2>3
<1>past. /\ past' = past /\ past' \in [Requests -> SUBSET Requests] /\ Answered'
         /\ \A o \in Requests : r \notin past[o]
  <2>1. q.op # "none" /\ ~Arrives(r)
    BY DEF Arrives
  <2> QED
    BY <2>1, KnowledgeIsSettled
<1>1. TypeOK'
  <2>1. \A o \in Requests : req'[o] \in Request /\ req'[o].fetches <= MaxFetches
         /\ req'[o].gets <= 2 * req'[o].fetches /\ Len(req'[o].outcomes) <= Limit
    BY <1>0 DEF TypeOK, Shape
  <2> QED
    BY <1>0, <1>past, <1>lock, <2>1 DEF TypeOK
<1>2. Shapes'
  BY <1>0 DEF IInv, Shapes
<1>3. /\ \A y \in rows : y.by \in Requests /\ req[y.by].op # "none" /\ req'[y.by].op = req[y.by].op
      /\ req'[x.by].op = req[r].op
  BY <1>0 DEF IInv, Attributed, Row
<1>4. Attributed'
  BY <1>3 DEF Attributed
<1>5. Locked'
  <2> SUFFICES ASSUME NEW o \in Requests, req'[o].phase = "commit",
                      NEW y \in rows', req'[y.by].op = "discover" \/ y.by \in past[o]
               PROVE  ~Alike(y, req'[o].cand)
    BY <1>lock, <1>past DEF Locked, Holding, Unmatched
  <2>1. o # r /\ req'[o] = req[o] /\ lock = o /\ Unmatched(req[o], o)
    BY <1>0 DEF IInv, Locked, Holding
  <2>2. req[r].op = "import"
    BY <2>1 DEF IInv, Locked, Holding
  <2> QED
    BY <1>3, <1>past, <2>1, <2>2 DEF Unmatched
<1>6. Counted'
  <2> SUFFICES ASSUME NEW o \in Requests, req'[o].phase = "create", NEW y \in rows',
                      y.by \in past[o] \cup {o}, "listing" \in y.kept
               PROVE  ~SameListing(y.cand, Head(req'[o].file))
    BY <1>past DEF Counted, Uncounted
  <2>1. o # r /\ y \in rows
    BY <1>0, <1>past
  <2> QED
    BY <1>0, <2>1 DEF IInv, Counted, Uncounted
<1>7. NoDuplicateDrafts'
  <2>1. CASE req[r].op = "import"
    <3>1. \A y \in By("discover")' : y \in By("discover")
      BY <1>3, <2>1 DEF By
    <3> QED
      BY <3>1 DEF IInv, NoDuplicateDrafts
  <2>2. CASE req[r].op = "discover"
    <3>1. \A y \in By("discover")' : y = x \/ y \in By("discover")
      BY <1>3 DEF By
    <3>2. \A y \in By("discover") : ~Alike(y, x.cand)
      BY <2>2 DEF IInv, Locked, Unmatched, By
    <3>3. \A y \in By("discover") :
            /\ "source" \in y.kept => ~SameSource(y.cand, x.cand) /\ ~SameSource(x.cand, y.cand)
            /\ "listing" \in y.kept => ~SameShop(y.cand, x.cand) /\ ~SameShop(x.cand, y.cand)
      BY <3>2, LikenessIsMutual DEF Alike
    <3> QED
      BY <3>1, <3>3 DEF IInv, NoDuplicateDrafts, BothKept
  <2> QED
    BY <2>1, <2>2
<1>8. BatchesBringNew'
  <2>1. \A y \in rows' : past'[y.by] = past[y.by] /\ (y # x => y \in rows /\ r \notin past[y.by])
    BY <1>3, <1>past
  <2>2. /\ \A y \in rows : y \in By("import")' => y \in By("import")
        /\ \A y \in rows : y \in By("discover")' => y \in By("discover")
        /\ x \in By("import")' => req[r].op = "import"
        /\ x \in By("discover")' => req[r].op = "discover"
    BY <1>3 DEF By
  <2>3. ASSUME req[r].op = "import", NEW y \in rows, y.by \in past[r] \cup {r}, "listing" \in y.kept
        PROVE  ~SameListing(y.cand, x.cand) /\ ~SameListing(x.cand, y.cand)
    BY <2>3 DEF IInv, Counted, Uncounted, SameListing
  <2>4. ASSUME req[r].op = "discover", NEW y \in rows, y.by \in past[r]
        PROVE  /\ "source" \in y.kept => ~SameSource(y.cand, x.cand)
               /\ "listing" \in y.kept => ~SameShop(y.cand, x.cand)
    BY <2>4 DEF IInv, Locked, Unmatched, Alike
  <2> SUFFICES ASSUME NEW y \in rows', NEW z \in rows', y # z
               PROVE  /\ z \in By("import")' /\ y.by \in past[z.by] \cup {z.by}
                           /\ BothKept(y, z, "listing") => ~SameListing(y.cand, z.cand)
                      /\ z \in By("discover")' /\ y.by \in past[z.by] =>
                           /\ BothKept(y, z, "source") => ~SameSource(y.cand, z.cand)
                           /\ BothKept(y, z, "listing") => ~SameShop(y.cand, z.cand)
    BY <2>1 DEF BatchesBringNew
  <2>5. CASE z = x
    BY <2>1, <2>2, <2>3, <2>4, <2>5 DEF BothKept
  <2>6. CASE y = x /\ z # x
    <3>1. z \in rows /\ y.by \notin past[z.by]
      BY <2>1, <2>6
    <3>2. z \in By("import")' /\ z.by = r => req[r].op = "import"
      BY <1>3, <3>1 DEF By
    <3> QED
      BY <2>3, <2>6, <3>1, <3>2 DEF BothKept
  <2>7. CASE y # x /\ z # x
    BY <2>1, <2>2, <2>7 DEF IInv, BatchesBringNew
  <2> QED
    BY <2>5, <2>6, <2>7
<1> QED
  BY <1>1, <1>2, <1>past, <1>4, <1>5, <1>6, <1>7, <1>8 DEF IInv

-----------------------------------------------------------------------------
(* The import.                                                             *)

LEMMA FileKeeps ==
  ASSUME NEW q \in Request, Shape(q), q.op = "import", q.phase \in {"count", "create", "menu"}
  PROVE  /\ NextRow(q) \in Request /\ Shape(NextRow(q))
         /\ NextRow(q).op = "import" /\ NextRow(q).phase \in {"count", "ok", "broken"}
         /\ Head(q.file) \in Candidates /\ Len(q.file) \in Nat
<1>1. q.file \in Seq(Candidates) /\ q.file # <<>>
  BY DEF Request, Shape
<1>2. /\ Tail(q.file) \in Seq(Candidates) /\ Head(q.file) \in Candidates /\ Len(q.file) \in Nat
      /\ Len(q.file) # 1 => Tail(q.file) # <<>>
  <2>1. Len(q.file) \in Nat /\ Len(q.file) # 0
    BY <1>1
  <2>2. Tail(q.file) \in Seq(Candidates) /\ Len(Tail(q.file)) = Len(q.file) - 1
    BY <1>1, <2>1
  <2>3. Head(q.file) \in Candidates
    BY <1>1, <2>1
  <2>4. ASSUME Tail(q.file) = <<>>
        PROVE  Len(q.file) = 1
    <3>0. Len(<<>>) = 0
      OBVIOUS
    <3>1. Len(Tail(q.file)) = 0
      BY <2>4, <3>0
    <3> QED
      BY <2>1, <2>2, <3>1
  <2> QED
    BY <2>1, <2>2, <2>3, <2>4
<1>3. NextRow(q) \in Request
  BY <1>2 DEF NextRow, Request, InFlight, Ended
<1>4. /\ NextRow(q).op = "import" /\ NextRow(q).phase \in {"count", "ok", "broken"}
      /\ NextRow(q).phase = "count" => Len(q.file) # 1
      /\ NextRow(q).file = Tail(q.file) /\ NextRow(q).fetches = q.fetches
      /\ NextRow(q).gets = q.gets /\ NextRow(q).outcomes = q.outcomes
  <2> DEFINE next == IF Len(q.file) > 1 THEN "count" ELSE IF q.whole THEN "ok" ELSE "broken"
  <2>1. next \in {"count", "ok", "broken"} /\ (next = "count" => Len(q.file) # 1)
    <3>1. CASE Len(q.file) > 1
      <4>1. next = "count"
        BY <3>1
      <4>2. Len(q.file) \in Nat
        BY <1>2
      <4> HIDE DEF next
      <4>3. Len(q.file) # 1
        BY <3>1, <4>2
      <4> QED
        BY <4>1, <4>3
    <3>2. CASE ~(Len(q.file) > 1) /\ q.whole
      BY <3>2
    <3>3. CASE ~(Len(q.file) > 1) /\ ~q.whole
      BY <3>3
    <3> QED
      BY <3>1, <3>2, <3>3
  <2>2. NextRow(q) = [q EXCEPT !.file = Tail(q.file), !.phase = next]
    BY DEF NextRow, Request
  <2> HIDE DEF next
  <2> QED
    BY <2>1, <2>2 DEF Request
<1>5. Shape(NextRow(q))
  BY <1>2, <1>4 DEF Shape
<1> QED
  BY <1>2, <1>3, <1>4, <1>5

LEMMA ImportKeeps ==
  ASSUME IInv, NEW r \in Requests, Moving(r),
         ImportStores(r) \/ CountStores(r) \/ CreateImported(r) \/ CreateMenu(r) \/ MalformedRow(r)
  PROVE  IInv'
<1> USE NoneAssumption, BoundsAssumption
<1>0. /\ TypeOK /\ req[r] \in Request /\ Shape(req[r])
      /\ rows \subseteq Row /\ menus \subseteq Key /\ lock \in Requests \cup {None}
      /\ req[r].phase \in {"count", "create", "menu"} => req[r].op = "import"
      /\ req[r].phase = "unused" => req[r].op = "none"
  BY DEF IInv, TypeOK, Shapes, Shape, Request
<1>1. CASE ImportStores(r)
  <2>1. PICK f \in Files, whole \in BOOLEAN :
          req' = [req EXCEPT ![r] =
                    [Unused EXCEPT !.op = "import", !.phase = "count", !.file = f, !.whole = whole]]
    BY <1>1 DEF ImportStores, Become
  <2> DEFINE q == [Unused EXCEPT !.op = "import", !.phase = "count", !.file = f, !.whole = whole]
  <2>2. f \in Seq(Candidates) /\ f # <<>>
    BY InputAssumption
  <2>3. q \in Request /\ Shape(q) /\ q.op = "import" /\ q.phase = "count"
    <3>1. Unused \in Request /\ Unused.fetches = 0 /\ Unused.gets = 0 /\ Unused.outcomes = <<>>
      BY UnusedIsRequest
    <3>2. /\ q \in Request /\ q.op = "import" /\ q.phase = "count" /\ q.file = f
          /\ q.fetches = 0 /\ q.gets = 0 /\ q.outcomes = <<>>
      BY <2>2, <3>1 DEF Request, InFlight, Ended
    <3> HIDE DEF q
    <3> QED
      BY <2>2, <3>2 DEF Shape
  <2> HIDE DEF q
  <2> QED
    BY <1>0, <1>1, <2>1, <2>3, MovedKeeps DEF ImportStores, Arrives, q
<1>2. CASE CountStores(r)
  <2>1. PICK o \in Outcomes :
          req' = [req EXCEPT ![r] =
                    IF o = "done" /\ ~\E x \in rows : SameListing(x.cand, Head(req[r].file))
                    THEN [req[r] EXCEPT !.phase = "create"] ELSE NextRow(req[r])]
    BY <1>2 DEF CountStores, Become
  <2>2. CASE req' = [req EXCEPT ![r] = NextRow(req[r])]
    BY <1>0, <1>2, <2>2, MovedKeeps, FileKeeps DEF CountStores
  <2>3. CASE req' = [req EXCEPT ![r] = [req[r] EXCEPT !.phase = "create"]]
             /\ ~\E x \in rows : SameListing(x.cand, Head(req[r].file))
    <3> DEFINE q == [req[r] EXCEPT !.phase = "create"]
    <3>1. q \in Request /\ Shape(q) /\ q.op = "import" /\ q.phase = "create" /\ q.file = req[r].file
      BY <1>0, <1>2 DEF CountStores, Request, InFlight, Ended, Shape
    <3> HIDE DEF q
    <3> QED
      BY <1>0, <1>2, <2>3, <3>1, MovedKeeps DEF CountStores, q
  <2> QED
    BY <2>1, <2>2, <2>3
<1>3. CASE CreateImported(r)
  <2>1. PICK o \in Outcomes :
          /\ rows' = IF Executed(o) THEN rows \cup {NewRow(r)} ELSE rows
          /\ req' = [req EXCEPT ![r] = IF o = "done" THEN [req[r] EXCEPT !.phase = "menu"] ELSE NextRow(req[r])]
    BY <1>3 DEF CreateImported, Become
  <2> DEFINE q == IF o = "done" THEN [req[r] EXCEPT !.phase = "menu"] ELSE NextRow(req[r])
  <2>2. /\ q \in Request /\ Shape(q) /\ q.op = "import" /\ q.phase \in {"menu", "count", "ok", "broken"}
        /\ Head(req[r].file) \in Candidates /\ Len(req[r].file) \in Nat
    <3>1. /\ NextRow(req[r]) \in Request /\ Shape(NextRow(req[r]))
          /\ NextRow(req[r]).op = "import" /\ NextRow(req[r]).phase \in {"count", "ok", "broken"}
          /\ Head(req[r].file) \in Candidates /\ Len(req[r].file) \in Nat
      BY <1>0, <1>3, FileKeeps DEF CreateImported
    <3>2. /\ [req[r] EXCEPT !.phase = "menu"] \in Request /\ Shape([req[r] EXCEPT !.phase = "menu"])
          /\ [req[r] EXCEPT !.phase = "menu"].op = "import" /\ [req[r] EXCEPT !.phase = "menu"].phase = "menu"
      BY <1>0, <1>3 DEF CreateImported, Request, InFlight, Ended, Shape
    <3> QED
      BY <3>1, <3>2
  <2>3. NewRow(r) \in Row /\ NewRow(r).by = r /\ NewRow(r).cand = Head(req[r].file)
    BY <2>2 DEF NewRow, Created, Row
  <2>4. req' = [req EXCEPT ![r] = q]
    BY <2>1
  <2> HIDE DEF q
  <2>5. CASE Executed(o)
    <3>1. /\ req[r].phase = "create" /\ req[r].op = "import" /\ UNCHANGED <<menus, lock>>
          /\ rows' = rows \cup {NewRow(r)}
      BY <1>0, <1>3, <2>1, <2>5 DEF CreateImported
    <3> QED
      BY <1>0, <2>2, <2>3, <2>4, <3>1, StoredKeeps
  <2>6. CASE ~Executed(o)
    BY <1>0, <1>3, <2>1, <2>2, <2>4, <2>6, MovedKeeps DEF CreateImported
  <2> QED
    BY <2>5, <2>6
<1>4. CASE CreateMenu(r)
  <2>1. menus' \subseteq Key
    BY <1>0, <1>4 DEF CreateMenu, KeyOf, Key, Row
  <2> QED
    BY <1>0, <1>4, <2>1, MovedKeeps, FileKeeps DEF CreateMenu, Become
<1>5. CASE MalformedRow(r)
  <2> DEFINE q == [req[r] EXCEPT !.errors = @ + 1]
  <2>1. req[r].errors + 1 \in 0..MaxErrors
    <3>1. req[r].errors \in 0..MaxErrors /\ req[r].errors < MaxErrors
      BY <1>0, <1>5 DEF MalformedRow, Request
    <3> QED
      BY <3>1
  <2>2. q = [req[r] EXCEPT !.errors = req[r].errors + 1] /\ req[r].phase = "broken"
    BY <1>0, <1>5 DEF MalformedRow, Request
  <2> HIDE DEF q
  <2>3. q \in Request
    BY <1>0, <2>1, <2>2 DEF Request
  <2>4. q.op = req[r].op /\ q.phase = "broken"
        /\ q.file = req[r].file /\ q.fetches = req[r].fetches
        /\ q.gets = req[r].gets /\ q.outcomes = req[r].outcomes
    BY <1>0, <2>2 DEF Request
  <2>5. q.op # "none"
    BY <1>0, <2>2, <2>4 DEF Shape
  <2>6. Shape(q)
    BY <1>0, <2>2, <2>4, <2>5 DEF Shape
  <2> QED
    BY <1>0, <1>5, <2>3, <2>4, <2>5, <2>6, MovedKeeps DEF MalformedRow, Become, q
<1> QED
  BY <1>1, <1>2, <1>3, <1>4, <1>5

-----------------------------------------------------------------------------
(* The crawl.                                                              *)

LEMMA Fetched ==
  ASSUME NEW q \in Request, NEW p \in Pages, NEW found, found.menu \in BOOLEAN,
         q.fetches < MaxFetches, q.gets <= 2 * q.fetches
  PROVE  /\ Fetch(q, p, found) \in Request /\ Fetch(q, p, found).fetches <= MaxFetches
         /\ Fetch(q, p, found).gets <= 2 * Fetch(q, p, found).fetches
         /\ Fetch(q, p, found).page = p /\ Fetch(q, p, found).op = q.op /\ Fetch(q, p, found).phase = q.phase
         /\ Fetch(q, p, found).listing = q.listing /\ Fetch(q, p, found).saved = q.saved
         /\ Fetch(q, p, found).outcomes = q.outcomes
<1> DEFINE n == IF found.menu THEN 2 ELSE 1
<1>0. n \in {1, 2}
  BY Zenon
<1> HIDE DEF n
<1>1. /\ q.fetches + 1 \in Nat /\ q.fetches + 1 <= MaxFetches /\ q.seen \cup {p} \in SUBSET Pages
      /\ q.gets + n \in Nat /\ q.gets + n <= 2 * (q.fetches + 1)
  BY <1>0, BoundsAssumption DEF Request
<1>2. Fetch(q, p, found) = [q EXCEPT !.seen = q.seen \cup {p}, !.fetches = q.fetches + 1, !.page = p,
                                     !.gets = q.gets + n]
  BY DEF Fetch, Request, n
<1>3. Fetch(q, p, found) \in Request
  BY <1>1, <1>2 DEF Request
<1>4. Fetch(q, p, found).fetches = q.fetches + 1 /\ Fetch(q, p, found).page = p
      /\ Fetch(q, p, found).gets = q.gets + n
  BY <1>2 DEF Request
<1>5. /\ Fetch(q, p, found).op = q.op /\ Fetch(q, p, found).phase = q.phase
      /\ Fetch(q, p, found).listing = q.listing /\ Fetch(q, p, found).saved = q.saved
      /\ Fetch(q, p, found).outcomes = q.outcomes
  BY <1>2 DEF Request
<1> QED
  BY <1>1, <1>3, <1>4, <1>5

LEMMA Reported ==
  ASSUME NEW q \in Request, NEW p \in Pages, NEW status \in {"created", "duplicate", "failed"},
         Len(q.outcomes) < Limit
  PROVE  /\ Report(q, p, status) \in Request /\ Len(Report(q, p, status).outcomes) <= Limit
         /\ Report(q, p, status).op = q.op /\ Report(q, p, status).phase = q.phase
         /\ Report(q, p, status).listing = q.listing /\ Report(q, p, status).saved = q.saved
         /\ Report(q, p, status).fetches = q.fetches /\ Report(q, p, status).gets = q.gets
<1>1. q.outcomes \in Seq(Outcome) /\ [page |-> p, status |-> status] \in Outcome
  BY DEF Request, Outcome
<1>2. LET o == Append(q.outcomes, [page |-> p, status |-> status])
      IN o \in Seq(Outcome) /\ Len(o) <= Limit
  BY <1>1, BoundsAssumption
<1> QED
  BY <1>2 DEF Report, Request

LEMMA DraftedShape ==
  ASSUME NEW q \in Request, Shape(q), q.op = "discover", q.phase \in {"lock", "find", "commit"},
         NEW status \in {"created", "duplicate", "failed"}
  PROVE  /\ Drafted(q, status) \in Request /\ Shape(Drafted(q, status))
         /\ Drafted(q, status).op = "discover" /\ Drafted(q, status).phase \in {"pages", "links"}
<1> DEFINE told == IF q.listing = None \/ status # "failed" THEN Report(q, q.page, status) ELSE q
           any == told.saved \/ status # "failed"
           d == [told EXCEPT !.phase = IF q.listing = None THEN "pages" ELSE "links",
                             !.saved = any, !.cand = None]
<1>1. q.page \in Pages /\ Len(q.outcomes) < Limit /\ q.fetches <= MaxFetches
      /\ q.gets <= 2 * q.fetches
      /\ q.listing \in Pages \cup {None} /\ q.saved \in BOOLEAN
  BY DEF Shape, Request
<1>2. /\ told \in Request /\ Len(told.outcomes) <= Limit
      /\ told.op = "discover" /\ told.listing = q.listing /\ told.saved = q.saved
      /\ told.fetches = q.fetches /\ told.gets = q.gets
      /\ status = "failed" /\ q.listing # None => Len(told.outcomes) < Limit
  <2>1. CASE q.listing = None \/ status # "failed"
    BY <1>1, <2>1, Reported
  <2>2. CASE q.listing # None /\ status = "failed"
    BY <1>1, <2>2, BoundsAssumption DEF Shape
  <2> QED
    BY <2>1, <2>2
<1> HIDE DEF told
<1>6. any \in BOOLEAN /\ (status # "failed" => any)
  OBVIOUS
<1>4. Drafted(q, status) = d
  BY <1>2 DEF Drafted, told, Request
<1> HIDE DEF any
<1>3. /\ d \in Request /\ d.op = "discover" /\ d.fetches = q.fetches /\ d.gets = q.gets
      /\ d.phase = (IF q.listing = None THEN "pages" ELSE "links")
      /\ d.listing = q.listing /\ d.outcomes = told.outcomes
      /\ status # "failed" => d.saved
  <2> DEFINE next == IF q.listing = None THEN "pages" ELSE "links"
  <2>1. next \in InFlight /\ d = [told EXCEPT !.phase = next, !.saved = any, !.cand = None]
    BY DEF InFlight
  <2> HIDE DEF next, d
  <2>2. d \in Request
    BY <1>2, <1>6, <2>1 DEF Request
  <2>3. /\ d.phase = next /\ d.op = "discover" /\ d.fetches = q.fetches
        /\ d.gets = q.gets /\ d.saved = any
        /\ d.listing = q.listing /\ d.outcomes = told.outcomes
    BY <1>2, <2>1 DEF Request
  <2> QED
    BY <1>6, <2>2, <2>3 DEF next
<1> HIDE DEF d
<1>5. Shape(d)
  BY <1>1, <1>2, <1>3 DEF Shape
<1> QED
  BY <1>1, <1>3, <1>4, <1>5

LEMMA CrawlMoves ==
  ASSUME IInv, NEW r \in Requests, Moving(r), NEW q \in Request, Shape(q), q.op = "discover",
         q.phase \notin {"find", "commit", "create"}, req[r].op \in {"none", "discover"},
         req[r].phase \notin {"find", "commit"},
         req' = [req EXCEPT ![r] = q], UNCHANGED <<rows, menus, lock>>
  PROVE  IInv'
<1>1. rows \subseteq Row /\ menus \subseteq Key /\ lock \in Requests \cup {None}
  BY DEF IInv, TypeOK
<1> QED
  BY <1>1, MovedKeeps

LEMMA WebShape ==
  ASSUME NEW p \in Pages, NEW found \in {Web[p], Dead}
  PROVE  /\ found.links \in Seq(Pages)
         /\ found.kind = "restaurant" => found.what \in Candidates
         /\ found.menu \in BOOLEAN
<1>1. CASE found = Web[p]
  BY <1>1, InputAssumption
<1>2. CASE found = Dead
  BY <1>2 DEF Dead
<1> QED
  BY <1>1, <1>2

LEMMA CaptureShape ==
  ASSUME NEW q \in Request, q.op = "discover", q.page \in Pages, NEW c \in Candidates,
         Len(q.outcomes) < Limit, q.fetches <= MaxFetches /\ q.gets <= 2 * q.fetches
  PROVE  /\ Capture(q, c) \in Request /\ Shape(Capture(q, c))
         /\ Capture(q, c).op = "discover" /\ Capture(q, c).phase = "lock"
<1>1. /\ Capture(q, c) \in Request /\ Capture(q, c).op = "discover" /\ Capture(q, c).phase = "lock"
      /\ Capture(q, c).cand = c /\ Capture(q, c).page = q.page /\ Capture(q, c).outcomes = q.outcomes
      /\ Capture(q, c).fetches = q.fetches /\ Capture(q, c).gets = q.gets
  BY DEF Capture, Request, InFlight, Ended
<1>2. Len(q.outcomes) \in Nat
  BY DEF Request
<1> QED
  BY <1>1, <1>2, BoundsAssumption DEF Shape

LEMMA DiscoverKeeps == ASSUME IInv, NEW r \in Requests, Moving(r), Discover(r) PROVE IInv'
<1>1. PICK t \in Searches, w \in Wards :
        req' = [req EXCEPT ![r] = [Unused EXCEPT !.op = "discover", !.phase = "pages", !.todo = t, !.ward = w]]
  BY DEF Discover, Become
<1> DEFINE q == [Unused EXCEPT !.op = "discover", !.phase = "pages", !.todo = t, !.ward = w]
<1>2. Unused \in Request /\ Unused.fetches = 0 /\ Unused.gets = 0 /\ Unused.outcomes = <<>>
  BY UnusedIsRequest
<1>3. t \in Seq(Pages) /\ w \in Wards \cup {None}
  BY InputAssumption
<1>4. /\ q \in Request /\ q.op = "discover" /\ q.phase = "pages" /\ q.fetches = 0
      /\ q.gets = 0 /\ q.outcomes = <<>>
  BY <1>2, <1>3 DEF Request, InFlight, Ended
<1> HIDE DEF q
<1>5. Shape(q)
  BY <1>4, BoundsAssumption DEF Shape
<1>6. req[r].op = "none" /\ req[r].phase = "unused"
  BY DEF IInv, Shapes, Shape, Discover, Arrives
<1> QED
  BY <1>1, <1>4, <1>5, <1>6, CrawlMoves DEF Discover, q

(* A page that is fetched: captured, taken as a listing, or reported.      *)
Tried(q, p, found) ==
  IF found.kind = "restaurant" /\ found.what.ward = q.ward
  THEN Capture(Fetch(q, p, found), found.what)
  ELSE IF found.links # <<>>
  THEN [Fetch(q, p, found) EXCEPT !.phase = "links", !.links = found.links, !.listing = p, !.saved = FALSE]
  ELSE Report(Fetch(q, p, found), p, "failed")

LEMMA TriedShape ==
  ASSUME NEW q \in Request, Shape(q), q.op = "discover", q.phase = "pages", ~Spent(q),
         NEW p \in Pages, NEW found \in {Web[p], Dead}
  PROVE  /\ Tried(q, p, found) \in Request /\ Shape(Tried(q, p, found))
         /\ Tried(q, p, found).op = "discover" /\ Tried(q, p, found).phase \in {"lock", "links", "pages"}
<1>1. /\ Len(q.outcomes) < Limit /\ q.fetches < MaxFetches
      /\ q.gets <= 2 * q.fetches /\ found.menu \in BOOLEAN
  BY BoundsAssumption, WebShape DEF Spent, Request, Shape
<1> DEFINE f == Fetch(q, p, found)
<1>2. /\ f \in Request /\ f.fetches <= MaxFetches
      /\ f.gets <= 2 * f.fetches /\ f.page = p /\ f.op = "discover" /\ f.phase = "pages"
      /\ f.outcomes = q.outcomes /\ Len(f.outcomes) < Limit
  BY <1>1, Fetched
<1>3. found.links \in Seq(Pages) /\ (found.kind = "restaurant" => found.what \in Candidates)
  BY WebShape
<1> DEFINE d == Tried(q, p, found)
<1>7. \/ d = Capture(f, found.what) /\ found.kind = "restaurant"
      \/ d = [f EXCEPT !.phase = "links", !.links = found.links, !.listing = p, !.saved = FALSE]
      \/ d = Report(f, p, "failed")
  BY DEF Tried
<1> HIDE DEF f, d
<1>4. CASE d = Capture(f, found.what) /\ found.kind = "restaurant"
  <2>1. /\ Capture(f, found.what) \in Request /\ Shape(Capture(f, found.what))
        /\ Capture(f, found.what).op = "discover" /\ Capture(f, found.what).phase = "lock"
    BY <1>2, <1>3, <1>4, CaptureShape
  <2> QED
    BY <1>4, <2>1 DEF d
<1>5. CASE d = [f EXCEPT !.phase = "links", !.links = found.links, !.listing = p, !.saved = FALSE]
  <2>1. d \in Request
    BY <1>2, <1>3, <1>5 DEF Request, InFlight, Ended
  <2>2. /\ d.op = "discover" /\ d.phase = "links" /\ d.listing = p
        /\ d.outcomes = f.outcomes /\ d.fetches = f.fetches /\ d.gets = f.gets
    BY <1>2, <1>5 DEF Request
  <2>3. Shape(d)
    BY <1>2, <2>2, BoundsAssumption DEF Shape, Request
  <2> QED
    BY <2>1, <2>2, <2>3 DEF d
<1>6. CASE d = Report(f, p, "failed")
  <2>1. d \in Request /\ d.op = "discover" /\ d.phase = "pages" /\ Len(d.outcomes) <= Limit /\ d.fetches = f.fetches
        /\ d.gets = f.gets
    <3>1. "failed" \in {"created", "duplicate", "failed"}
      OBVIOUS
    <3> QED
      BY <1>2, <1>6, <3>1, Reported
  <2>2. Shape(d)
    BY <1>2, <2>1 DEF Shape
  <2> QED
    BY <2>1, <2>2 DEF d
<1> QED
  BY <1>4, <1>5, <1>6, <1>7

LEMMA NextPageKeeps == ASSUME IInv, NEW r \in Requests, Moving(r), NextPage(r) PROVE IInv'
<1> DEFINE q == req[r]
           p == Head(q.todo)
           rest == [q EXCEPT !.todo = Tail(@)]
<1>0. /\ q \in Request /\ Shape(q) /\ q.phase = "pages" /\ q.op = "discover"
      /\ UNCHANGED <<rows, menus, lock>>
  BY DEF IInv, TypeOK, Shapes, Shape, NextPage, Request
<1>1. ASSUME q.todo # <<>>
      PROVE  /\ p \in Pages /\ rest \in Request /\ Shape(rest) /\ rest.op = "discover" /\ rest.phase = "pages"
             /\ rest.seen = q.seen /\ rest.ward = q.ward /\ (~Spent(q) => ~Spent(rest))
  <2>1. q.todo \in Seq(Pages)
    BY <1>0 DEF Request
  <2>2. p \in Pages /\ Tail(q.todo) \in Seq(Pages)
    BY <1>1, <2>1
  <2>3. rest \in Request /\ rest.op = "discover" /\ rest.phase = "pages" /\ rest.fetches = q.fetches
        /\ rest.gets = q.gets
        /\ rest.outcomes = q.outcomes /\ rest.seen = q.seen /\ rest.ward = q.ward
    BY <1>0, <2>2 DEF Request
  <2> HIDE DEF rest, p
  <2> QED
    BY <1>0, <2>2, <2>3 DEF Shape, Spent
<1>2. \/ req' = [req EXCEPT ![r] = [q EXCEPT !.phase = "ok"]]
      \/ q.todo # <<>> /\ req' = [req EXCEPT ![r] = rest]
      \/ /\ q.todo # <<>> /\ ~Spent(q)
         /\ \E found \in {Web[p], Dead} : req' = [req EXCEPT ![r] =
               IF found.kind = "restaurant" /\ found.what.ward = q.ward
               THEN Capture(Fetch(rest, p, found), found.what)
               ELSE IF found.links # <<>>
               THEN [Fetch(rest, p, found) EXCEPT !.phase = "links", !.links = found.links,
                                           !.listing = p, !.saved = FALSE]
               ELSE Report(Fetch(rest, p, found), p, "failed")]
  BY DEF NextPage, Become
<1>3. CASE req' = [req EXCEPT ![r] = [q EXCEPT !.phase = "ok"]]
  <2> DEFINE d == [q EXCEPT !.phase = "ok"]
  <2>1. d \in Request /\ d.op = "discover" /\ d.phase = "ok" /\ d.fetches = q.fetches
        /\ d.gets = q.gets /\ d.outcomes = q.outcomes
    BY <1>0 DEF Request, Ended
  <2>2. Shape(d)
    BY <1>0, <2>1 DEF Shape
  <2> QED
    BY <1>0, <1>3, <2>1, <2>2, CrawlMoves
<1>4. CASE q.todo # <<>> /\ req' = [req EXCEPT ![r] = rest]
  <2> HIDE DEF rest
  <2> QED
    BY <1>0, <1>1, <1>4, CrawlMoves
<1>5. CASE /\ q.todo # <<>> /\ ~Spent(q)
           /\ \E found \in {Web[p], Dead} : req' = [req EXCEPT ![r] =
                 IF found.kind = "restaurant" /\ found.what.ward = q.ward
                 THEN Capture(Fetch(rest, p, found), found.what)
                 ELSE IF found.links # <<>>
                 THEN [Fetch(rest, p, found) EXCEPT !.phase = "links", !.links = found.links,
                                             !.listing = p, !.saved = FALSE]
                 ELSE Report(Fetch(rest, p, found), p, "failed")]
  <2>1. PICK found \in {Web[p], Dead} : req' = [req EXCEPT ![r] =
               IF found.kind = "restaurant" /\ found.what.ward = q.ward
               THEN Capture(Fetch(rest, p, found), found.what)
               ELSE IF found.links # <<>>
               THEN [Fetch(rest, p, found) EXCEPT !.phase = "links", !.links = found.links,
                                           !.listing = p, !.saved = FALSE]
               ELSE Report(Fetch(rest, p, found), p, "failed")]
    BY <1>5
  <2>3. /\ p \in Pages /\ rest \in Request /\ Shape(rest) /\ rest.op = "discover" /\ rest.phase = "pages"
        /\ rest.ward = q.ward /\ ~Spent(rest)
    BY <1>1, <1>5
  <2>4. req' = [req EXCEPT ![r] = Tried(rest, p, found)]
    BY <2>1, <2>3 DEF Tried
  <2> HIDE DEF rest, p
  <2>5. /\ Tried(rest, p, found) \in Request /\ Shape(Tried(rest, p, found))
        /\ Tried(rest, p, found).op = "discover" /\ Tried(rest, p, found).phase \in {"lock", "links", "pages"}
    BY <2>3, TriedShape
  <2> QED
    BY <1>0, <2>4, <2>5, CrawlMoves
<1> QED
  BY <1>2, <1>3, <1>4, <1>5

LEMMA NextLinkKeeps == ASSUME IInv, NEW r \in Requests, Moving(r), NextLink(r) PROVE IInv'
<1> DEFINE q == req[r]
           p == Head(q.links)
           rest == [q EXCEPT !.links = Tail(@)]
           told == IF q.saved THEN q ELSE Report(q, q.listing, "failed")
           end == [told EXCEPT !.phase = "pages", !.links = <<>>, !.listing = None]
<1>0. /\ q \in Request /\ Shape(q) /\ q.phase = "links" /\ q.op = "discover"
      /\ q.listing \in Pages /\ (q.saved \/ Len(q.outcomes) < Limit)
      /\ q.fetches <= MaxFetches /\ q.gets <= 2 * q.fetches /\ Len(q.outcomes) <= Limit
      /\ UNCHANGED <<rows, menus, lock>>
  BY DEF IInv, TypeOK, Shapes, Shape, NextLink, Request
<1>1. ASSUME q.links # <<>>
      PROVE  /\ p \in Pages /\ rest \in Request /\ Shape(rest) /\ rest.op = "discover" /\ rest.phase = "links"
             /\ rest.outcomes = q.outcomes /\ rest.fetches = q.fetches /\ rest.gets = q.gets
             /\ rest.saved = q.saved /\ rest.listing = q.listing
  <2>1. q.links \in Seq(Pages)
    BY <1>0 DEF Request
  <2>2. p \in Pages /\ Tail(q.links) \in Seq(Pages)
    BY <1>1, <2>1
  <2>3. /\ rest \in Request /\ rest.op = "discover" /\ rest.phase = "links" /\ rest.fetches = q.fetches
        /\ rest.gets = q.gets
        /\ rest.outcomes = q.outcomes /\ rest.saved = q.saved /\ rest.listing = q.listing
    BY <1>0, <2>2 DEF Request
  <2> HIDE DEF rest, p
  <2>4. Shape(rest)
    BY <1>0, <2>3 DEF Shape
  <2> QED
    BY <2>2, <2>3, <2>4
<1>2. \/ req' = [req EXCEPT ![r] = end]
      \/ q.links # <<>> /\ req' = [req EXCEPT ![r] = rest]
      \/ /\ q.links # <<>> /\ ~Spent(q)
         /\ \E found \in {Web[p], Dead} : req' = [req EXCEPT ![r] =
               IF found.kind = "restaurant" /\ found.what.ward = q.ward
               THEN Capture(Fetch(rest, p, found), found.what) ELSE Fetch(rest, p, found)]
  BY DEF NextLink, Become
<1>3. CASE req' = [req EXCEPT ![r] = end]
  <2>1. told \in Request /\ told.op = "discover" /\ told.fetches = q.fetches
        /\ told.gets = q.gets /\ Len(told.outcomes) <= Limit
    <3>1. "failed" \in {"created", "duplicate", "failed"}
      OBVIOUS
    <3> QED
      BY <1>0, <3>1, Reported
  <2> HIDE DEF told
  <2>2. end \in Request /\ end.op = "discover" /\ end.phase = "pages" /\ end.fetches = q.fetches
        /\ end.gets = q.gets
        /\ end.outcomes = told.outcomes
    <3>1. "pages" \in {"unused"} \cup InFlight \cup Ended /\ <<>> \in Seq(Pages)
      BY DEF InFlight
    <3>2. end \in Request
      BY <2>1, <3>1 DEF Request
    <3>3. /\ end.op = "discover" /\ end.phase = "pages" /\ end.fetches = q.fetches
          /\ end.gets = q.gets
          /\ end.outcomes = told.outcomes
      BY <2>1 DEF Request
    <3> QED
      BY <3>2, <3>3
  <2> HIDE DEF end
  <2>3. Shape(end)
    BY <1>0, <2>1, <2>2 DEF Shape
  <2> QED
    BY <1>0, <1>3, <2>2, <2>3, CrawlMoves
<1>4. CASE q.links # <<>> /\ req' = [req EXCEPT ![r] = rest]
  <2> HIDE DEF rest
  <2> QED
    BY <1>0, <1>1, <1>4, CrawlMoves
<1>5. CASE /\ q.links # <<>> /\ ~Spent(q)
           /\ \E found \in {Web[p], Dead} : req' = [req EXCEPT ![r] =
                 IF found.kind = "restaurant" /\ found.what.ward = q.ward
                 THEN Capture(Fetch(rest, p, found), found.what) ELSE Fetch(rest, p, found)]
  <2>1. PICK found \in {Web[p], Dead} :
          \/ /\ found.kind = "restaurant"
             /\ req' = [req EXCEPT ![r] = Capture(Fetch(rest, p, found), found.what)]
          \/ req' = [req EXCEPT ![r] = Fetch(rest, p, found)]
    BY <1>5
  <2> DEFINE f == Fetch(rest, p, found)
  <2>2. /\ p \in Pages /\ rest \in Request /\ rest.op = "discover" /\ rest.phase = "links"
        /\ rest.outcomes = q.outcomes /\ rest.fetches < MaxFetches /\ Len(q.outcomes) < Limit
        /\ rest.gets <= 2 * rest.fetches
        /\ rest.saved = q.saved /\ rest.listing = q.listing
    <3>1. q.fetches < MaxFetches /\ Len(q.outcomes) < Limit
      BY <1>0, <1>5, BoundsAssumption DEF Spent, Request
    <3> QED
      BY <1>0, <1>1, <1>5, <3>1
  <2> HIDE DEF rest, p
  <2>3. /\ f \in Request /\ f.fetches <= MaxFetches
        /\ f.gets <= 2 * f.fetches /\ f.page = p /\ f.op = "discover" /\ f.phase = "links"
        /\ f.outcomes = q.outcomes /\ f.saved = q.saved /\ f.listing = q.listing
    BY <2>2, Fetched, WebShape
  <2>4. found.kind = "restaurant" => found.what \in Candidates
    BY <2>2, WebShape
  <2> HIDE DEF f
  <2>5. CASE found.kind = "restaurant" /\ req' = [req EXCEPT ![r] = Capture(f, found.what)]
    <3>1. /\ Capture(f, found.what) \in Request /\ Shape(Capture(f, found.what))
          /\ Capture(f, found.what).op = "discover" /\ Capture(f, found.what).phase = "lock"
      BY <2>2, <2>3, <2>4, <2>5, CaptureShape
    <3> QED
      BY <1>0, <2>5, <3>1, CrawlMoves
  <2>6. CASE req' = [req EXCEPT ![r] = f]
    <3>1. Shape(f)
      BY <1>0, <2>3 DEF Shape
    <3> QED
      BY <1>0, <2>3, <2>6, <3>1, CrawlMoves
  <2> QED
    BY <2>1, <2>5, <2>6 DEF f
<1> QED
  BY <1>2, <1>3, <1>4, <1>5

-----------------------------------------------------------------------------
(* The transaction of a draft, and what ends it.                           *)

LEMMA DraftKeeps ==
  ASSUME IInv, NEW r \in Requests, Moving(r),
         LockDrafts(r) \/ FindDraft(r) \/ CommitDraft(r) \/ Rollback(r) \/ Die(r)
  PROVE  IInv'
<1> USE NoneAssumption
<1> DEFINE q == req[r]
<1>0. /\ q \in Request /\ Shape(q) /\ Holding(q, r) /\ Unmatched(q, r)
      /\ rows \subseteq Row /\ menus \subseteq Key /\ lock \in Requests \cup {None}
      /\ q.phase \in {"lock", "find", "commit"} => q.op = "discover" /\ q.cand \in Candidates
  BY DEF IInv, TypeOK, Shapes, Locked, Shape, Request
<1>1. ASSUME NEW status \in {"created", "duplicate", "failed"}, q.phase \in {"lock", "find", "commit"}
      PROVE  /\ Drafted(q, status) \in Request /\ Shape(Drafted(q, status))
             /\ Drafted(q, status).op = "discover" /\ Drafted(q, status).phase \in {"pages", "links"}
  BY <1>0, <1>1, DraftedShape
\* In the transaction, to its next statement
<1>2. ASSUME q.phase \in {"lock", "find"}, NEW phase \in {"find", "commit"},
             req' = [req EXCEPT ![r] = [q EXCEPT !.phase = phase]],
             UNCHANGED <<rows, menus>>, lock' = r, lock = None \/ lock = r,
             phase = "commit" => \A x \in rows : ~Alike(x, q.cand)
      PROVE  IInv'
  <2> DEFINE d == [q EXCEPT !.phase = phase]
  <2>1. d \in Request
    BY <1>0 DEF Request, InFlight
  <2>2. /\ d.op = q.op /\ d.op = "discover" /\ d.phase = phase /\ d.cand = q.cand /\ d.page = q.page
        /\ d.outcomes = q.outcomes /\ d.fetches = q.fetches /\ d.gets = q.gets
    BY <1>0, <1>2 DEF Request
  <2> HIDE DEF d
  <2>3. Shape(d)
    BY <1>0, <1>2, <2>2 DEF Shape
  <2> QED
    BY <1>0, <1>2, <2>1, <2>2, <2>3, MovedKeeps DEF d
<1>3. CASE LockDrafts(r)
  BY <1>2, <1>3 DEF LockDrafts, Become
<1>4. CASE FindDraft(r)
  <2>1. lock = r
    BY <1>0, <1>4 DEF FindDraft, Holding
  <2>2. CASE \E x \in rows : Duplicate(x.cand, q.cand)
    <3>1. req' = [req EXCEPT ![r] = Drafted(q, "duplicate")] /\ lock' = None /\ UNCHANGED <<rows, menus>>
      BY <1>4, <2>2 DEF FindDraft, Become
    <3>2. /\ Drafted(q, "duplicate") \in Request /\ Shape(Drafted(q, "duplicate"))
          /\ Drafted(q, "duplicate").op = "discover" /\ Drafted(q, "duplicate").phase \in {"pages", "links"}
      BY <1>1, <1>4 DEF FindDraft
    <3>3. q.op = "discover"
      BY <1>0, <1>4 DEF FindDraft
    <3> QED
      BY <1>0, <2>1, <3>1, <3>2, <3>3, MovedKeeps
  <2>3. CASE ~\E x \in rows : Duplicate(x.cand, q.cand)
    BY <1>2, <1>4, <2>1, <2>3, AlikeAreDuplicates DEF FindDraft, Become
  <2> QED
    BY <2>2, <2>3
<1>5. CASE CommitDraft(r)
  <2>1. PICK status \in {"created", "failed"} : req' = [req EXCEPT ![r] = Drafted(q, status)]
    BY <1>5 DEF CommitDraft, Become
  <2>2. /\ Drafted(q, status) \in Request /\ Shape(Drafted(q, status))
        /\ Drafted(q, status).op = "discover" /\ Drafted(q, status).phase \in {"pages", "links"}
    BY <1>1, <1>5 DEF CommitDraft
  <2> DEFINE x == Created(r, q.fetches, q.cand)
  <2>3. x \in Row /\ x.by = r /\ x.cand = q.cand
    BY <1>0, <1>5 DEF CommitDraft, Created, Row, Request
  <2>4. rows' = rows \cup {x} /\ menus' = menus /\ lock' = None /\ q.phase = "commit" /\ q.op = "discover"
    BY <1>0, <1>5 DEF CommitDraft
  <2> HIDE DEF x
  <2> QED
    BY <2>1, <2>2, <2>3, <2>4, StoredKeeps
\* What ends in any other way frees the lock if it has it
<1>6. ASSUME NEW d \in Request, Shape(d), d.op = q.op, d.op # "none", d.phase \notin {"find", "commit", "create"},
             req' = [req EXCEPT ![r] = d], UNCHANGED <<rows, menus>>,
             lock' = IF lock = r THEN None ELSE lock
      PROVE  IInv'
  <2>1. CASE lock = r
    BY <1>0, <1>6, <2>1, MovedKeeps
  <2>2. CASE lock # r
    BY <1>0, <1>6, <2>2, MovedKeeps DEF Holding
  <2> QED
    BY <2>1, <2>2
<1>7. CASE Rollback(r)
  <2>1. /\ Drafted(q, "failed") \in Request /\ Shape(Drafted(q, "failed"))
        /\ Drafted(q, "failed").op = "discover" /\ Drafted(q, "failed").phase \in {"pages", "links"}
    BY <1>1, <1>7 DEF Rollback
  <2> QED
    BY <1>0, <1>6, <1>7, <2>1 DEF Rollback, Become
<1>8. CASE Die(r)
  <2> DEFINE d == [q EXCEPT !.phase = "died"]
  <2>1. d \in Request /\ d.op = q.op /\ d.phase = "died" /\ d.fetches = q.fetches
        /\ d.gets = q.gets /\ d.outcomes = q.outcomes
    BY <1>0 DEF Request, Ended
  <2>2. q.op # "none"
    BY <1>0, <1>8 DEF Die, InFlight, Shape
  <2> HIDE DEF d
  <2>3. Shape(d)
    BY <1>0, <2>1, <2>2 DEF Shape
  <2> QED
    BY <1>6, <1>8, <2>1, <2>2, <2>3 DEF Die, Become, d
<1> QED
  BY <1>3, <1>4, <1>5, <1>7, <1>8

LEMMA StillKnown == ASSUME IInv, Remember, UNCHANGED req PROVE past' = past
<1>1. past \in [Requests -> SUBSET Requests] /\ \A r \in Requests : past'[r] = past[r]
  BY DEF IInv, TypeOK, Remember, Arrives
<1> QED
  BY <1>1 DEF Remember

LEMMA DeleteKeeps == ASSUME IInv, (DeleteStore /\ Remember) \/ UNCHANGED vars PROVE IInv'
<1>1. rows' \subseteq rows /\ menus' \subseteq menus /\ UNCHANGED <<lock, req, past>>
  <2>1. CASE DeleteStore /\ Remember
    BY <2>1, StillKnown DEF DeleteStore
  <2>2. CASE UNCHANGED vars
    BY <2>2 DEF vars
  <2> QED
    BY <2>1, <2>2
<1>2. TypeOK' /\ Shapes' /\ Attributed' /\ Answered'
  BY <1>1 DEF IInv, TypeOK, Shapes, Attributed, Answered, Arrives
<1>3. Locked' /\ Counted'
  BY <1>1 DEF IInv, Locked, Holding, Unmatched, Counted, Uncounted
<1>4. NoDuplicateDrafts' /\ BatchesBringNew'
  BY <1>1 DEF IInv, NoDuplicateDrafts, BatchesBringNew, By
<1> QED
  BY <1>2, <1>3, <1>4 DEF IInv

(* A form saved leaves a store what it keeps, so it comes to be like no    *)
(* other in what both keep.                                                *)
LEMMA EditKeeps == ASSUME IInv, EditStore, Remember PROVE IInv'
<1>1. PICK x \in rows, c \in Forms :
        /\ rows' = (rows \ {x}) \cup {[x EXCEPT !.cand = c,
             !.kept = {k \in @ : (k = "source" => SameSource(c, x.cand))
                                                 /\ (k = "listing" => Listed(c) = Listed(x.cand))}]}
        /\ UNCHANGED <<menus, lock, req, past>>
  BY StillKnown DEF EditStore
<1> DEFINE z == [x EXCEPT !.cand = c,
             !.kept = {k \in @ : (k = "source" => SameSource(c, x.cand))
                                                 /\ (k = "listing" => Listed(c) = Listed(x.cand))}]
<1>0. TypeOK /\ rows \subseteq Row /\ x \in Row /\ c \in Candidates
  BY <1>1, InputAssumption DEF IInv, TypeOK
<1>2. z.kept = {k \in x.kept : (k = "source" => SameSource(c, x.cand))
                                              /\ (k = "listing" => Listed(c) = Listed(x.cand))}
  BY <1>0 DEF Row
<1>3. z \in Row /\ z.by = x.by /\ z.cand = c
  <2>1. z.kept \subseteq x.kept
    BY <1>2
  <2> QED
    BY <1>0, <2>1 DEF Row
<1>4. /\ "source" \in z.kept => "source" \in x.kept /\ SameSource(z.cand, x.cand)
      /\ "listing" \in z.kept => "listing" \in x.kept /\ Listed(z.cand) = Listed(x.cand)
  BY <1>2, <1>3
<1>5. rows' = (rows \ {x}) \cup {z}
  BY <1>1
<1> HIDE DEF z
\* What the new row is like, the old one was
<1>6. ASSUME NEW d
      PROVE  /\ Alike(z, d) => Alike(x, d)
             /\ "listing" \in z.kept /\ SameListing(z.cand, d) =>
                  "listing" \in x.kept /\ SameListing(x.cand, d)
             /\ "source" \in z.kept /\ SameSource(z.cand, d) =>
                  "source" \in x.kept /\ SameSource(x.cand, d)
             /\ "listing" \in z.kept /\ SameShop(z.cand, d) =>
                  "listing" \in x.kept /\ SameShop(x.cand, d)
  BY <1>4 DEF Alike, SameSource, SameShop, SameListing, Listed
<1>7. TypeOK' /\ Shapes' /\ Attributed' /\ Answered'
  BY <1>0, <1>1, <1>3, <1>5 DEF IInv, TypeOK, Shapes, Attributed, Answered, Arrives
<1>8. Locked' /\ Counted'
  <2>1. ASSUME NEW o \in Requests
        PROVE  (Holding(req[o], o) /\ Unmatched(req[o], o))'
    <3>1. Holding(req[o], o)'
      BY <1>1 DEF IInv, Locked, Holding
    <3>2. Unmatched(req[o], o)
      BY DEF IInv, Locked
    <3>3. Unmatched(req[o], o)'
      BY <1>1, <1>3, <1>5, <1>6, <3>2 DEF Unmatched
    <3> QED
      BY <3>1, <3>3
  <2>2. ASSUME NEW o \in Requests, req[o].phase = "create",
               NEW y \in rows', y.by \in past[o] \cup {o}, "listing" \in y.kept
        PROVE  ~SameListing(y.cand, Head(req[o].file))
    <3>1. \A u \in rows : u.by \in past[o] \cup {o} /\ "listing" \in u.kept => ~SameListing(u.cand, Head(req[o].file))
      BY <2>2 DEF IInv, Counted, Uncounted
    <3> QED
      BY <2>2, <3>1, <1>3, <1>5, <1>6
  <2> QED
    BY <1>1, <2>1, <2>2 DEF Locked, Counted, Uncounted
<1>9. NoDuplicateDrafts'
  <2>1. \A y \in By("discover")' : y \in By("discover") \ {x} \/ (y = z /\ x \in By("discover"))
    BY <1>1, <1>3, <1>5 DEF By
  <2> QED
    BY <2>1, <1>6, LikenessIsMutual DEF IInv, NoDuplicateDrafts, BothKept
<1>10. BatchesBringNew'
  <2>1. \A y \in rows' : y \in rows \ {x} \/ y = z
    BY <1>5
  <2>2. \A op : z \in By(op)' => x \in By(op)
    BY <1>1, <1>3 DEF By
  <2>3. \A op : \A y \in rows : y \in By(op)' => y \in By(op)
    BY <1>1 DEF By
  <2>4. \A d, e : SameListing(d, e) <=> SameListing(e, d)
    BY DEF SameListing
  <2> SUFFICES ASSUME NEW y \in rows', NEW u \in rows', y # u
               PROVE  /\ u \in By("import")' /\ y.by \in past[u.by] \cup {u.by}
                           /\ BothKept(y, u, "listing") => ~SameListing(y.cand, u.cand)
                      /\ u \in By("discover")' /\ y.by \in past[u.by] =>
                           /\ BothKept(y, u, "source") => ~SameSource(y.cand, u.cand)
                           /\ BothKept(y, u, "listing") => ~SameShop(y.cand, u.cand)
    BY <1>1 DEF BatchesBringNew
  <2>5. CASE u = z
    <3>1. y \in rows \ {x} /\ u.by = x.by
      BY <1>3, <2>1, <2>5
    <3> QED
      BY <1>6, <2>2, <2>4, <2>5, <3>1, LikenessIsMutual DEF IInv, BatchesBringNew, BothKept
  <2>6. CASE y = z
    <3>1. u \in rows \ {x} /\ y.by = x.by
      BY <1>3, <2>1, <2>6
    <3> QED
      BY <1>6, <2>3, <2>6, <3>1 DEF IInv, BatchesBringNew, BothKept
  <2>7. CASE y # z /\ u # z
    BY <2>1, <2>3, <2>7 DEF IInv, BatchesBringNew
  <2> QED
    BY <2>5, <2>6, <2>7
<1> QED
  BY <1>7, <1>8, <1>9, <1>10 DEF IInv

LEMMA StepIInv == ASSUME IInv, [Next]_vars PROVE IInv'
<1>1. CASE UNCHANGED vars
  BY <1>1, DeleteKeeps
<1>2. CASE DeleteStore /\ Remember
  BY <1>2, DeleteKeeps
<1>3. CASE EditStore /\ Remember
  BY <1>3, EditKeeps
<1>4. ASSUME NEW r \in Requests, Arrival(r), Remember
      PROVE  IInv'
  <2>1. Moving(r)
    BY <1>4 DEF Moving, Arrival, ImportStores, Discover, Arrives
  <2> QED
    BY <1>4, <2>1, ImportKeeps, DiscoverKeeps DEF Arrival
<1>5. ASSUME NEW r \in Requests, Continue(r), Remember
      PROVE  IInv'
  <2>1. Moving(r)
    BY <1>5 DEF Moving, Continue, CountStores, CreateImported, CreateMenu, MalformedRow,
                NextPage, NextLink, LockDrafts, FindDraft, CommitDraft
  <2> QED
    BY <1>5, <2>1, ImportKeeps, NextPageKeeps, NextLinkKeeps, DraftKeeps DEF Continue
<1>6. ASSUME NEW r \in Requests, Fail(r), Remember
      PROVE  IInv'
  <2>1. Moving(r)
    BY <1>6 DEF Moving, Fail, Rollback, Die, InFlight
  <2> QED
    BY <1>6, <2>1, DraftKeeps DEF Fail
<1> QED
  BY <1>1, <1>2, <1>3, <1>4, <1>5, <1>6 DEF Next

THEOREM Invariance == Spec => []IInv
<1>1. Init => IInv
  BY InitIInv
<1>2. IInv /\ [Next]_vars => IInv'
  BY StepIInv
<1> QED
  BY <1>1, <1>2, PTL DEF Spec

-----------------------------------------------------------------------------
(* How a batch comes nearer to its end.                                    *)

LEMMA StagesFall ==
  /\ Stage("lock") = 5 /\ Stage("find") = 4 /\ Stage("count") = 3 /\ Stage("commit") = 3
  /\ Stage("create") = 2 /\ Stage("links") = 2 /\ Stage("menu") = 1 /\ Stage("pages") = 1
  /\ Stage("ok") = 0
  BY DEF Stage

LEMMA LeftIsNat == ASSUME NEW q \in Request
  PROVE  Len(q.file) \in Nat /\ Len(q.todo) \in Nat /\ Len(q.links) \in Nat /\ Left(q) \in Nat
<1>1. q.file \in Seq(Candidates) /\ q.todo \in Seq(Pages) /\ q.links \in Seq(Pages)
  BY DEF Request
<1>2. Len(q.file) \in Nat /\ Len(q.todo) \in Nat /\ Len(q.links) \in Nat
  BY <1>1
<1>3. ASSUME NEW a \in Nat, NEW b \in Nat, NEW c \in Nat PROVE a + b + c \in Nat
  BY <1>3
<1>4. Len(q.file) + Len(q.todo) + Len(q.links) \in Nat
  BY <1>2, <1>3
<1> QED
  BY <1>2, <1>4 DEF Left

\* What is left stays, the stage falls
LEMMA NextStage ==
  ASSUME NEW q \in Request, NEW d, d.fetches = q.fetches, d.file = q.file, d.todo = q.todo,
         d.links = q.links, Stage(d.phase) < Stage(q.phase)
  PROVE  Nearer(d, q)
  BY DEF Nearer, Left

\* One row, page or link less
LEMMA OneLess ==
  ASSUME NEW q \in Request, NEW d, d.fetches = q.fetches,
         \/ q.file # <<>> /\ d.file = Tail(q.file) /\ d.todo = q.todo /\ d.links = q.links
         \/ q.todo # <<>> /\ d.file = q.file /\ d.todo = Tail(q.todo) /\ d.links = q.links
         \/ q.links # <<>> /\ d.file = q.file /\ d.todo = q.todo /\ d.links = Tail(q.links)
  PROVE  Nearer(d, q)
<1>1. q.file \in Seq(Candidates) /\ q.todo \in Seq(Pages) /\ q.links \in Seq(Pages)
  BY DEF Request
<1>2. Len(q.file) \in Nat /\ Len(q.todo) \in Nat /\ Len(q.links) \in Nat
  BY LeftIsNat
<1>3. /\ q.file # <<>> => Len(Tail(q.file)) = Len(q.file) - 1
      /\ q.todo # <<>> => Len(Tail(q.todo)) = Len(q.todo) - 1
      /\ q.links # <<>> => Len(Tail(q.links)) = Len(q.links) - 1
  BY <1>1
<1>4. Left(d) < Left(q)
  <2>1. ASSUME NEW a \in Nat, NEW b \in Nat, NEW c \in Nat, NEW x, NEW y, NEW z,
               \/ x = a - 1 /\ y = b /\ z = c
               \/ x = a /\ y = b - 1 /\ z = c
               \/ x = a /\ y = b /\ z = c - 1
        PROVE  x + y + z < a + b + c
    BY <2>1
  <2>2. \/ Len(d.file) = Len(q.file) - 1 /\ Len(d.todo) = Len(q.todo) /\ Len(d.links) = Len(q.links)
        \/ Len(d.file) = Len(q.file) /\ Len(d.todo) = Len(q.todo) - 1 /\ Len(d.links) = Len(q.links)
        \/ Len(d.file) = Len(q.file) /\ Len(d.todo) = Len(q.todo) /\ Len(d.links) = Len(q.links) - 1
    BY <1>3
  <2>3. Len(d.file) + Len(d.todo) + Len(d.links) < Len(q.file) + Len(q.todo) + Len(q.links)
    BY <1>2, <2>1, <2>2
  <2> QED
    BY <2>3 DEF Left
<1> QED
  BY <1>4 DEF Nearer

LEMMA RowComesNearer ==
  ASSUME NEW q \in Request, q.file # <<>>
  PROVE  Nearer(NextRow(q), q)
<1>1. /\ NextRow(q).fetches = q.fetches /\ NextRow(q).file = Tail(q.file)
      /\ NextRow(q).todo = q.todo /\ NextRow(q).links = q.links
  BY DEF NextRow, Request
<1> QED
  BY <1>1, OneLess

LEMMA ImportComesNearer ==
  ASSUME IInv, NEW r \in Requests, CountStores(r) \/ CreateImported(r) \/ CreateMenu(r)
  PROVE  Nearer(req'[r], req[r])
<1> DEFINE q == req[r]
<1>1. /\ req \in [Requests -> Request] /\ q \in Request
      /\ q.phase \in {"count", "create", "menu"} => q.file # <<>>
  BY DEF IInv, TypeOK, Shapes, Shape, Request
<1>2. q.file # <<>>
  BY <1>1 DEF CountStores, CreateImported, CreateMenu
<1>3. CASE req'[r] = NextRow(q)
  BY <1>1, <1>2, <1>3, RowComesNearer
<1>4. ASSUME NEW phase, Stage(phase) < Stage(q.phase), req'[r] = [q EXCEPT !.phase = phase]
      PROVE  Nearer(req'[r], q)
  <2>1. /\ req'[r].fetches = q.fetches /\ req'[r].file = q.file /\ req'[r].todo = q.todo
        /\ req'[r].links = q.links /\ req'[r].phase = phase
    BY <1>1, <1>4 DEF Request
  <2> QED
    BY <1>1, <1>4, <2>1, NextStage
<1>5. CASE CountStores(r)
  <2>1. req'[r] = NextRow(q) \/ req'[r] = [q EXCEPT !.phase = "create"]
    BY <1>1, <1>5 DEF CountStores, Become
  <2>2. Stage("create") < Stage(q.phase)
    BY <1>5, StagesFall DEF CountStores
  <2> QED
    BY <1>3, <1>4, <2>1, <2>2
<1>6. CASE CreateImported(r)
  <2>1. req'[r] = NextRow(q) \/ req'[r] = [q EXCEPT !.phase = "menu"]
    BY <1>1, <1>6 DEF CreateImported, Become
  <2>2. Stage("menu") < Stage(q.phase)
    BY <1>6, StagesFall DEF CreateImported
  <2> QED
    BY <1>3, <1>4, <2>1, <2>2
<1>7. CASE CreateMenu(r)
  BY <1>1, <1>3, <1>7 DEF CreateMenu, Become
<1> QED
  BY <1>5, <1>6, <1>7

LEMMA FetchComesNearer ==
  ASSUME NEW q \in Request, NEW rest \in Request, rest.fetches = q.fetches, NEW p \in Pages,
         NEW found, NEW d, d.fetches = Fetch(rest, p, found).fetches
  PROVE  Nearer(d, q)
<1>1. Fetch(rest, p, found).fetches = rest.fetches + 1 /\ q.fetches \in Nat
  BY DEF Fetch, Request
<1> QED
  BY <1>1 DEF Nearer

LEMMA PageComesNearer ==
  ASSUME IInv, NEW r \in Requests, NextPage(r)
  PROVE  Nearer(req'[r], req[r])
<1> DEFINE q == req[r]
           p == Head(q.todo)
           rest == [q EXCEPT !.todo = Tail(@)]
<1>1. /\ q \in Request /\ q.phase = "pages"
      /\ \/ req'[r] = [q EXCEPT !.phase = "ok"]
         \/ q.todo # <<>> /\ req'[r] = rest
         \/ q.todo # <<>> /\ \E found \in {Web[p], Dead} : req'[r] = Tried(rest, p, found)
  <2>1. q \in Request /\ q.phase = "pages" /\ \A d : req' = [req EXCEPT ![r] = d] => req'[r] = d
    BY DEF IInv, TypeOK, NextPage
  <2>2. \/ req' = [req EXCEPT ![r] = [q EXCEPT !.phase = "ok"]]
        \/ q.todo # <<>> /\ req' = [req EXCEPT ![r] = rest]
        \/ /\ q.todo # <<>>
           /\ \E found \in {Web[p], Dead} : req' = [req EXCEPT ![r] =
                 IF found.kind = "restaurant" /\ found.what.ward = q.ward
                 THEN Capture(Fetch(rest, p, found), found.what)
                 ELSE IF found.links # <<>>
                 THEN [Fetch(rest, p, found) EXCEPT !.phase = "links", !.links = found.links,
                                                    !.listing = p, !.saved = FALSE]
                 ELSE Report(Fetch(rest, p, found), p, "failed")]
    BY DEF NextPage, Become
  <2>3. rest.ward = q.ward
    BY <2>1 DEF Request
  <2> HIDE DEF q, p, rest
  <2> QED
    BY <2>1, <2>2, <2>3 DEF Tried
<1>2. q.todo # <<>> => /\ p \in Pages /\ rest \in Request /\ rest.fetches = q.fetches
                      /\ rest.file = q.file /\ rest.todo = Tail(q.todo) /\ rest.links = q.links
  <2> SUFFICES ASSUME q.todo # <<>>
               PROVE  /\ p \in Pages /\ rest \in Request /\ rest.fetches = q.fetches
                      /\ rest.file = q.file /\ rest.todo = Tail(q.todo) /\ rest.links = q.links
    OBVIOUS
  <2>1. q.todo \in Seq(Pages)
    BY <1>1 DEF Request
  <2>2. p \in Pages /\ Tail(q.todo) \in Seq(Pages)
    BY <2>1
  <2> QED
    BY <1>1, <2>2 DEF Request
<1> HIDE DEF q, p, rest
<1>3. CASE req'[r] = [q EXCEPT !.phase = "ok"]
  <2>1. /\ req'[r].fetches = q.fetches /\ req'[r].file = q.file /\ req'[r].todo = q.todo
        /\ req'[r].links = q.links /\ req'[r].phase = "ok"
    BY <1>1, <1>3 DEF Request
  <2> QED
    BY <1>1, <2>1, NextStage, StagesFall DEF q
<1>4. CASE q.todo # <<>> /\ req'[r] = rest
  BY <1>1, <1>2, <1>4, OneLess DEF q
<1>5. CASE q.todo # <<>> /\ \E found \in {Web[p], Dead} : req'[r] = Tried(rest, p, found)
  <2>1. PICK found \in {Web[p], Dead} : req'[r] = Tried(rest, p, found)
    BY <1>5
  <2> DEFINE f == Fetch(rest, p, found)
  <2>2. f = [rest EXCEPT !.seen = @ \cup {p}, !.fetches = @ + 1, !.page = p,
                    !.gets = @ + IF found.menu THEN 2 ELSE 1]
    BY DEF Fetch
  <2>3. \/ req'[r] = [f EXCEPT !.phase = "lock", !.cand = found.what]
        \/ req'[r] = [f EXCEPT !.phase = "links", !.links = found.links, !.listing = p, !.saved = FALSE]
        \/ req'[r] = [f EXCEPT !.outcomes = Append(@, [page |-> p, status |-> "failed"])]
    BY <2>1 DEF Tried, Capture, Report
  <2>4. req'[r].fetches = f.fetches
    BY <1>2, <1>5, <2>2, <2>3 DEF Request
  <2> QED
    BY <1>1, <1>2, <1>5, <2>4, FetchComesNearer DEF q
<1> QED
  BY <1>1, <1>3, <1>4, <1>5

LEMMA LinkComesNearer ==
  ASSUME IInv, NEW r \in Requests, NextLink(r)
  PROVE  Nearer(req'[r], req[r])
<1> DEFINE q == req[r]
           p == Head(q.links)
           rest == [q EXCEPT !.links = Tail(@)]
           told == IF q.saved THEN q ELSE Report(q, q.listing, "failed")
<1>1. /\ q \in Request /\ q.phase = "links"
      /\ \/ req'[r] = [told EXCEPT !.phase = "pages", !.links = <<>>, !.listing = None]
         \/ q.links # <<>> /\ req'[r] = rest
         \/ /\ q.links # <<>>
            /\ \E found \in {Web[p], Dead} :
                 \/ req'[r] = Capture(Fetch(rest, p, found), found.what)
                 \/ req'[r] = Fetch(rest, p, found)
  BY DEF IInv, TypeOK, NextLink, Become
<1>2. q.links # <<>> => /\ p \in Pages /\ rest \in Request /\ rest.fetches = q.fetches
                       /\ rest.file = q.file /\ rest.todo = q.todo /\ rest.links = Tail(q.links)
  <2> SUFFICES ASSUME q.links # <<>>
               PROVE  /\ p \in Pages /\ rest \in Request /\ rest.fetches = q.fetches
                      /\ rest.file = q.file /\ rest.todo = q.todo /\ rest.links = Tail(q.links)
    OBVIOUS
  <2>1. q.links \in Seq(Pages)
    BY <1>1 DEF Request
  <2>2. p \in Pages /\ Tail(q.links) \in Seq(Pages)
    BY <2>1
  <2> QED
    BY <1>1, <2>2 DEF Request
<1>3. /\ told.fetches = q.fetches /\ told.file = q.file /\ told.todo = q.todo
      /\ req'[r] = [told EXCEPT !.phase = "pages", !.links = <<>>, !.listing = None] =>
           /\ req'[r].fetches = q.fetches /\ req'[r].file = q.file /\ req'[r].todo = q.todo
           /\ req'[r].links = <<>> /\ req'[r].phase = "pages"
  <2>1. \/ told = q
        \/ told = [q EXCEPT !.outcomes = Append(@, [page |-> q.listing, status |-> "failed"])]
    BY DEF Report
  <2> HIDE DEF told, q
  <2>3. CASE told = q
    <3>1. req'[r] = [q EXCEPT !.phase = "pages", !.links = <<>>, !.listing = None] =>
            /\ req'[r].fetches = q.fetches /\ req'[r].file = q.file /\ req'[r].todo = q.todo
            /\ req'[r].links = <<>> /\ req'[r].phase = "pages"
      BY <1>1 DEF Request
    <3> QED
      BY <2>3, <3>1
  <2>4. CASE told = [q EXCEPT !.outcomes = Append(@, [page |-> q.listing, status |-> "failed"])]
    <3>1. \E x : told = [q EXCEPT !.outcomes = x]
      BY <2>4
    <3>2. PICK x : told = [q EXCEPT !.outcomes = x]
      BY <3>1
    <3>3. told.fetches = q.fetches /\ told.file = q.file /\ told.todo = q.todo
      BY <1>1, <3>2 DEF Request
    <3>4. req'[r] = [told EXCEPT !.phase = "pages", !.links = <<>>, !.listing = None] =>
            /\ req'[r].fetches = q.fetches /\ req'[r].file = q.file /\ req'[r].todo = q.todo
            /\ req'[r].links = <<>> /\ req'[r].phase = "pages"
      BY <1>1, <3>2 DEF Request
    <3> QED
      BY <3>3, <3>4
  <2> QED
    BY <2>1, <2>3, <2>4
<1> HIDE DEF q, p, rest, told
<1>4. CASE req'[r] = [told EXCEPT !.phase = "pages", !.links = <<>>, !.listing = None]
  <2>1. ASSUME NEW a \in Nat, NEW b \in Nat, NEW c \in Nat
        PROVE  a + b + 0 < a + b + c \/ a + b + 0 = a + b + c
    BY <2>1
  <2>2. Len(req'[r].links) = 0
    BY <1>3, <1>4
  <2>3. Left(req'[r]) = Len(q.file) + Len(q.todo) + 0
    BY <1>3, <1>4, <2>2 DEF Left
  <2>4. Left(req'[r]) < Left(q) \/ Left(req'[r]) = Left(q)
    BY <1>1, <2>1, <2>3, LeftIsNat DEF Left
  <2>5. Stage(req'[r].phase) < Stage(q.phase)
    BY <1>1, <1>3, <1>4, StagesFall
  <2> QED
    BY <1>3, <1>4, <2>4, <2>5 DEF Nearer, q
<1>5. CASE q.links # <<>> /\ req'[r] = rest
  BY <1>1, <1>2, <1>5, OneLess DEF q
<1>6. CASE /\ q.links # <<>>
           /\ \E found \in {Web[p], Dead} :
                \/ req'[r] = Capture(Fetch(rest, p, found), found.what)
                \/ req'[r] = Fetch(rest, p, found)
  <2>1. PICK found \in {Web[p], Dead} :
          \/ req'[r] = Capture(Fetch(rest, p, found), found.what)
          \/ req'[r] = Fetch(rest, p, found)
    BY <1>6
  <2>2. Fetch(rest, p, found) = [rest EXCEPT !.seen = @ \cup {p}, !.fetches = @ + 1, !.page = p,
                    !.gets = @ + IF found.menu THEN 2 ELSE 1]
    BY DEF Fetch
  <2>3. req'[r].fetches = Fetch(rest, p, found).fetches
    BY <1>2, <1>6, <2>1, <2>2 DEF Capture, Request
  <2> QED
    BY <1>1, <1>2, <1>6, <2>3, FetchComesNearer DEF q
<1> QED
  BY <1>1, <1>4, <1>5, <1>6

LEMMA DraftComesNearer ==
  ASSUME IInv, NEW r \in Requests, LockDrafts(r) \/ FindDraft(r) \/ CommitDraft(r) \/ Rollback(r)
  PROVE  Nearer(req'[r], req[r])
<1> DEFINE q == req[r]
<1>1. req \in [Requests -> Request] /\ q \in Request
  BY DEF IInv, TypeOK
<1>2. ASSUME NEW phase, Stage(phase) < Stage(q.phase), req'[r] = [q EXCEPT !.phase = phase]
      PROVE  Nearer(req'[r], q)
  <2>1. /\ req'[r].fetches = q.fetches /\ req'[r].file = q.file /\ req'[r].todo = q.todo
        /\ req'[r].links = q.links /\ req'[r].phase = phase
    BY <1>1, <1>2 DEF Request
  <2> QED
    BY <1>1, <1>2, <2>1, NextStage
<1>3. ASSUME NEW status, req'[r] = Drafted(q, status), q.phase \in {"lock", "find", "commit"}
      PROVE  Nearer(req'[r], q)
  <2> DEFINE told == IF q.listing = None \/ status # "failed" THEN Report(q, q.page, status) ELSE q
             next == IF q.listing = None THEN "pages" ELSE "links"
             any == told.saved \/ status # "failed"
  <2>1. /\ told = q \/ told = [q EXCEPT !.outcomes = Append(@, [page |-> q.page, status |-> status])]
        /\ next \in {"pages", "links"}
    BY DEF Report
  <2>2. req'[r] = [told EXCEPT !.phase = next, !.saved = told.saved \/ status # "failed", !.cand = None]
    BY <1>3 DEF Drafted
  <2> HIDE DEF told, next
  <2>3. req'[r] = [told EXCEPT !.phase = next, !.saved = any, !.cand = None]
    BY <2>2
  <2> HIDE DEF any
  <2>4. /\ req'[r].fetches = q.fetches /\ req'[r].file = q.file /\ req'[r].todo = q.todo
        /\ req'[r].links = q.links /\ req'[r].phase = next
    BY <1>1, <2>1, <2>3 DEF Request
  <2>5. Stage(next) < Stage(q.phase)
    BY <1>3, <2>1, StagesFall
  <2> QED
    BY <1>1, <2>4, <2>5, NextStage
<1>4. CASE LockDrafts(r)
  <2>1. req'[r] = [q EXCEPT !.phase = "find"] /\ q.phase = "lock"
    BY <1>1, <1>4 DEF LockDrafts, Become
  <2> QED
    BY <1>2, <2>1, StagesFall
<1>5. CASE FindDraft(r)
  <2>1. q.phase = "find" /\ (req'[r] = Drafted(q, "duplicate") \/ req'[r] = [q EXCEPT !.phase = "commit"])
    BY <1>1, <1>5 DEF FindDraft, Become
  <2> QED
    BY <1>2, <1>3, <2>1, StagesFall
<1>6. CASE CommitDraft(r)
  <2>1. q.phase = "commit" /\ \E status : req'[r] = Drafted(q, status)
    BY <1>1, <1>6 DEF CommitDraft, Become
  <2> QED
    BY <1>3, <2>1
<1>7. CASE Rollback(r)
  <2>1. q.phase \in {"lock", "find", "commit"} /\ req'[r] = Drafted(q, "failed")
    BY <1>1, <1>7 DEF Rollback, Become
  <2> QED
    BY <1>3, <2>1
<1> QED
  BY <1>4, <1>5, <1>6, <1>7

-----------------------------------------------------------------------------
(* The theorems.                                                           *)

(* The handlers' locals keep their types, and no batch captures more pages *)
(* than maxFetches or reports more than was asked for, wherever in a       *)
(* listing the limit is reached.  The requests it sends are up to twice as *)
(* many, for menu pages are not counted (see FetchesAreBounded).           *)
THEOREM BudgetsHold == Spec => []TypeOK
<1>1. IInv => TypeOK
  BY DEF IInv
<1> QED
  BY <1>1, Invariance, PTL

(* However many batches run, die, lose replies and are repeated, no two    *)
(* drafts of discovery are of the same restaurant.                         *)
THEOREM DraftsAreUnique == Spec => []NoDuplicateDrafts
<1>1. IInv => NoDuplicateDrafts
  BY DEF IInv
<1> QED
  BY <1>1, Invariance, PTL

(* A batch doubles neither its own rows, even after an insert that was     *)
(* executed and reported as failed, nor anything of the batches that were  *)
(* answered before it began.                                               *)
THEOREM BatchesOnlyBringNew == Spec => []BatchesBringNew
<1>1. IInv => BatchesBringNew
  BY DEF IInv
<1> QED
  BY <1>1, Invariance, PTL

(* No batch goes in circles, whatever the pages link to and however often: *)
(* each of its steps fetches one page more of a bounded number, or leaves  *)
(* less to try, or is nearer to the next.  Others' steps do not touch it.  *)
THEOREM BatchesComeNearer == Spec => StepsComeNearer
<1>1. ASSUME IInv, [Next]_vars, NEW r \in Requests,
             req[r].phase \in InFlight \ {"broken"}, req'[r] # req[r]
      PROVE  req'[r].phase = "died" \/ Nearer(req'[r], req[r])
  <2>1. req \in [Requests -> Request]
    BY <1>1 DEF IInv, TypeOK
  <2>2. ASSUME NEW o \in Requests, NEW q, Become(o, q) PROVE o = r
    <3>1. req' = [req EXCEPT ![o] = q]
      BY <2>2 DEF Become
    <3>2. o # r => req'[r] = req[r]
      BY <2>1, <3>1
    <3> QED
      BY <1>1, <3>2
  <2>3. Arrival(r) \/ Continue(r) \/ Fail(r)
    <3>1. ~UNCHANGED req
      BY <1>1
    <3>2. PICK o \in Requests : Arrival(o) \/ Continue(o) \/ Fail(o)
      BY <1>1, <3>1 DEF Next, DeleteStore, EditStore, vars
    <3>3. \E q : Become(o, q)
      <4>1. Arrival(o) => \E q : Become(o, q)
        BY DEF Arrival, ImportStores, Discover
      <4>2. CountStores(o) \/ CreateImported(o) \/ CreateMenu(o) \/ MalformedRow(o) => \E q : Become(o, q)
        BY DEF CountStores, CreateImported, CreateMenu, MalformedRow
      <4>3. NextPage(o) => \E q : Become(o, q)
        BY DEF NextPage
      <4>4. NextLink(o) => \E q : Become(o, q)
        BY DEF NextLink
      <4>5. LockDrafts(o) \/ FindDraft(o) \/ CommitDraft(o) => \E q : Become(o, q)
        BY DEF LockDrafts, FindDraft, CommitDraft
      <4>6. Fail(o) => \E q : Become(o, q)
        BY DEF Fail, Rollback, Die
      <4> QED
        BY <3>2, <4>1, <4>2, <4>3, <4>4, <4>5, <4>6 DEF Continue
    <3> QED
      BY <2>2, <3>2, <3>3
  <2>4. ~Arrival(r)
    BY <1>1 DEF Arrival, ImportStores, Discover, Arrives, InFlight
  <2>5. CASE Continue(r)
    <3>1. ~MalformedRow(r)
      BY <1>1 DEF MalformedRow
    <3> QED
      BY <1>1, <2>5, <3>1, ImportComesNearer, PageComesNearer, LinkComesNearer, DraftComesNearer
         DEF Continue
  <2>6. CASE Die(r)
    <3>1. req'[r] = [req[r] EXCEPT !.phase = "died"] /\ req[r] \in Request
      BY <2>1, <2>6 DEF Die, Become
    <3> QED
      BY <3>1 DEF Request
  <2>7. CASE Rollback(r)
    BY <1>1, <2>7, DraftComesNearer
  <2> QED
    BY <2>3, <2>4, <2>5, <2>6, <2>7 DEF Fail
<1>2. IInv /\ [Next]_vars => [\A r \in Requests :
        req[r].phase \in InFlight \ {"broken"} /\ req'[r] # req[r] =>
          req'[r].phase = "died" \/ Nearer(req'[r], req[r])]_vars
  BY <1>1
<1> QED
  BY <1>2, Invariance, PTL DEF Spec, StepsComeNearer
=============================================================================
