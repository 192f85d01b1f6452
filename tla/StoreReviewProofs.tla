-------------------------- MODULE StoreReviewProofs --------------------------
(***************************************************************************)
(* Proofs about StoreReview, for any number of stores, partners and dishes *)
(* and any number of approvals.                                            *)
(***************************************************************************)
EXTENDS StoreReview, TLAPS

(* A request that has not inserted its store has none yet, so that no      *)
(* insert ever meets a row; one that provisions has an address.            *)
NotYet == \A r \in Requests :
  /\ req[r].phase \in {"unused", "insertStore"} => ~Exists(r)
  /\ req[r].phase \in {"insertStore", "insertAccount", "ok"} => req[r].email \in Emails
IInv == TypeOK /\ NotYet /\ NoDangling /\ PartnersKeepStores /\ StampImpliesApproved

LEMMA InitIInv == Init => IInv
<1> SUFFICES ASSUME Init PROVE IInv
  OBVIOUS
<1> USE NoneAssumption, BoundAssumption DEF Init, Exists
<1>1. TypeOK
  BY DEF TypeOK, Request
<1>2. NotYet /\ NoDangling /\ StampImpliesApproved /\ PartnersKeepStores
  BY DEF NotYet, NoDangling, StampImpliesApproved, PartnersKeepStores
<1> QED
  BY <1>1, <1>2 DEF IInv

-----------------------------------------------------------------------------
(* Steps that write one store's row and neither accounts nor dishes, the   *)
(* review and the inserts: the row is of its type, it is there, and it is  *)
(* stamped only if it is approved.                                         *)
LEMMA WrittenKeeps ==
  ASSUME IInv, NEW s \in Requests,
         store' = [store EXCEPT ![s] = store'[s]], store'[s] \in Store,
         clock' \in 0..MaxClock, clock <= clock',
         store'[s].approvedAt \in (1..clock') \cup {None},
         store'[s].approvedAt # None => store'[s].status = "approved",
         UNCHANGED <<account, items>>, scopes' \subseteq Requests,
         req' \in [Requests -> Request],
         req'[s].phase \notin {"unused", "insertStore"},
         req'[s].phase = "insertAccount" => req'[s].email \in Emails,
         req'[s].phase = "ok" => Exists(s) /\ req'[s] = req[s],
         \A r \in Requests \ {s} : req'[r] = req[r]
  PROVE  IInv'
<1> USE NoneAssumption, BoundAssumption DEF IInv, TypeOK, Exists
<1>1. store'[s] # None /\ clock \in Nat /\ clock' \in Nat
  OBVIOUS
<1>2. TypeOK'
  <2>1. store' \in [Requests -> Store \cup {None}]
    OBVIOUS
  <2>2. ASSUME NEW r \in Requests, store'[r] # None
        PROVE  store'[r].approvedAt \in (1..clock') \cup {None}
    <3>1. CASE r = s
      BY <3>1
    <3>2. CASE r # s
      BY <1>1, <2>2, <3>2
    <3> QED
      BY <3>1, <3>2
  <2> QED
    BY <1>1, <2>1, <2>2
<1>3. NotYet'
  BY <1>1 DEF NotYet
<1>7. \A r \in Requests : store[r] # None => store'[r] # None
  BY <1>1
<1>6. NoDangling'
  <2>1. ASSUME NEW e \in Emails, account'[e] # None
        PROVE  store'[account'[e]] # None
    BY <1>7, <2>1 DEF NoDangling
  <2>2. ASSUME NEW i \in Items, items'[i] # None
        PROVE  store'[items'[i].store] # None
    <3>1. items[i].store \in Requests /\ store[items[i].store] # None
      BY <2>2 DEF NoDangling, Item
    <3> QED
      BY <1>7, <3>1
  <2> QED
    BY <2>1, <2>2 DEF NoDangling
<1>4. StampImpliesApproved'
  BY DEF StampImpliesApproved
<1>5. PartnersKeepStores'
  BY <1>1 DEF PartnersKeepStores
<1> QED
  BY <1>2, <1>3, <1>4, <1>5, <1>6

(* Steps that only move a request along, to a phase that promises nothing. *)
LEMMA MovedKeeps ==
  ASSUME IInv, NEW s \in Requests, UNCHANGED <<clock, store, account, items>>,
         scopes' \subseteq Requests, req' \in [Requests -> Request],
         req'[s].phase # "ok",
         req'[s].phase \in {"unused", "insertStore"} => ~Exists(s),
         req'[s].phase \in {"insertStore", "insertAccount"} => req'[s].email \in Emails,
         \A r \in Requests \ {s} : req'[r] = req[r]
  PROVE  IInv'
<1> USE NoneAssumption, BoundAssumption DEF IInv, Exists
<1>1. TypeOK'
  BY DEF TypeOK
<1>2. NotYet' /\ NoDangling' /\ StampImpliesApproved'
  BY DEF NotYet, NoDangling, StampImpliesApproved
<1>3. PartnersKeepStores'
  BY DEF PartnersKeepStores
<1> QED
  BY <1>1, <1>2, <1>3

\* A new row is of its type and bears no date
LEMMA FreshRow ==
  ASSUME NEW status \in StoreStatus
  PROVE  Fresh(status) \in Store /\ Fresh(status).approvedAt = None
  BY DEF Fresh, Store

(* Creation.                                                               *)
LEMMA CreateKeeps == ASSUME IInv, NEW r \in Requests, Create(r) PROVE IInv'
<1> USE NoneAssumption, BoundAssumption
<1>0. TypeOK /\ req[r] \in Request /\ clock \in 0..MaxClock /\ clock \in Nat
  BY DEF IInv, TypeOK
<1>1. CASE InternalCreateStore(r)
  <2>1. PICK status \in StoreStatus : store' = [store EXCEPT ![r] = Fresh(status)]
    BY <1>1 DEF InternalCreateStore
  <2>3. req' \in [Requests -> Request] /\ req'[r].phase = "created" /\ \A q \in Requests \ {r} : req'[q] = req[q]
    BY <1>0, <1>1 DEF InternalCreateStore, Goto, TypeOK, Request
  <2> QED
    <3>1. Fresh(status) \in Store /\ Fresh(status).approvedAt = None
      BY FreshRow
    <3>2. clock' = clock /\ UNCHANGED <<account, items>> /\ scopes' \subseteq Requests
      BY <1>0, <1>1 DEF InternalCreateStore, TypeOK
    <3>3. store'[r] = Fresh(status) /\ store' = [store EXCEPT ![r] = store'[r]]
      BY <1>0, <2>1 DEF TypeOK
    <3> QED
      BY <1>0, <2>3, <3>1, <3>2, <3>3, WrittenKeeps
<1>2. CASE ProvisionStoreAdmin(r)
  <2>1. req' \in [Requests -> Request] /\ req'[r].phase \in {"insertStore", "failed"}
        /\ req'[r].email \in Emails /\ \A q \in Requests \ {r} : req'[q] = req[q]
    <3>1. PICK e \in Emails, long \in {FALSE, LongPasswords} :
            req' = [req EXCEPT ![r] = [email |-> e, long |-> long, phase |->
                                         IF account[e] = None THEN "insertStore" ELSE "failed"]]
      BY <1>2 DEF ProvisionStoreAdmin
    <3>2. long \in BOOLEAN
      BY SwitchAssumption
    <3>3. req'[r] \in Request /\ req'[r].phase \in {"insertStore", "failed"}
          /\ req'[r].email \in Emails /\ \A q \in Requests \ {r} : req'[q] = req[q]
      BY <1>0, <3>1, <3>2 DEF TypeOK, Request
    <3> QED
      BY <1>0, <3>1, <3>3 DEF TypeOK
  <2>2. ~Exists(r)
    BY <1>2 DEF ProvisionStoreAdmin, IInv, NotYet
  <2> QED
    BY <1>0, <1>2, <2>1, <2>2, MovedKeeps DEF ProvisionStoreAdmin, TypeOK
<1>3. CASE CreateStore(r)
  <2>1. req' \in [Requests -> Request] /\ req'[r].phase \in {"insertAccount", "failed"}
        /\ req'[r].email \in Emails /\ \A q \in Requests \ {r} : req'[q] = req[q]
    BY <1>0, <1>3 DEF CreateStore, Goto, TypeOK, Request, IInv, NotYet
  <2>2. CASE store' = store
    BY <1>0, <1>3, <2>1, <2>2, MovedKeeps DEF CreateStore, TypeOK
  <2>3. CASE store' = [store EXCEPT ![r] = Fresh("draft")]
    <3>1. Fresh("draft") \in Store /\ Fresh("draft").approvedAt = None
      <4>1. "draft" \in StoreStatus
        BY DEF StoreStatus
      <4> QED
        BY <4>1, FreshRow
    <3>2. clock' = clock /\ UNCHANGED <<account, items>> /\ scopes' \subseteq Requests
      BY <1>0, <1>3 DEF CreateStore, TypeOK
    <3>3. store'[r] = Fresh("draft") /\ store' = [store EXCEPT ![r] = store'[r]]
      BY <1>0, <2>3 DEF TypeOK
    <3> QED
      BY <1>0, <2>1, <3>1, <3>2, <3>3, WrittenKeeps
  <2> QED
    BY <1>3, <2>2, <2>3 DEF CreateStore
<1>4. CASE CreateStoreAdmin(r)
  <2>1. req' \in [Requests -> Request] /\ req'[r].email = req[r].email /\ req'[r].phase \in {"ok", "failed"}
        /\ \A q \in Requests \ {r} : req'[q] = req[q]
    BY <1>0, <1>4 DEF CreateStoreAdmin, Goto, TypeOK, Request
  <2>2. CASE account' = account /\ Goto(r, "failed")
    <3>1. req'[r].phase = "failed"
      BY <1>0, <2>2 DEF Goto, TypeOK
    <3> QED
      BY <1>0, <1>4, <2>1, <2>2, <3>1, MovedKeeps DEF CreateStoreAdmin, TypeOK
  <2>3. CASE account[req[r].email] = None /\ Exists(r) /\ account' = [account EXCEPT ![req[r].email] = r]
    <3> USE <1>4, <2>3 DEF CreateStoreAdmin
    <3>1. TypeOK'
      BY <1>0, <2>1 DEF TypeOK
    <3>2. NotYet' /\ NoDangling' /\ StampImpliesApproved'
      BY <1>0, <2>1 DEF IInv, TypeOK, NotYet, NoDangling, StampImpliesApproved, Exists
    <3>3. PartnersKeepStores'
      <4> SUFFICES ASSUME NEW q \in Requests, req'[q].phase = "ok"
                   PROVE  account'[req'[q].email] = q <=> store'[q] # None
        BY DEF PartnersKeepStores, Exists
      <4>1. CASE q # r /\ req[q].email = req[r].email
        <5>1. ~Exists(q) /\ q # r
          BY <2>1, <4>1 DEF IInv, PartnersKeepStores
        <5> QED
          BY <1>0, <2>1, <4>1, <5>1 DEF TypeOK, Exists
      <4>2. CASE q # r /\ req[q].email # req[r].email
        BY <1>0, <2>1, <4>2 DEF IInv, TypeOK, PartnersKeepStores, Exists
      <4>3. CASE q = r
        <5>1. req[r].email \in Emails
          BY DEF IInv, NotYet
        <5> QED
          BY <1>0, <2>1, <4>3, <5>1 DEF TypeOK, Exists
      <4> QED
        BY <4>1, <4>2, <4>3
    <3> QED
      BY <3>1, <3>2, <3>3 DEF IInv
  <2> QED
    <3>1. CASE account[req[r].email] = None /\ Exists(r)
      <4>1. PICK o \in Outcomes :
              /\ account' = IF Executed(o) THEN [account EXCEPT ![req[r].email] = r] ELSE account
              /\ Goto(r, IF o = "done" THEN "ok" ELSE "failed")
        BY <1>4, <3>1 DEF CreateStoreAdmin
      <4>2. CASE Executed(o)
        BY <2>3, <3>1, <4>1, <4>2
      <4>3. CASE ~Executed(o)
        BY <2>2, <4>1, <4>3 DEF Executed
      <4> QED
        BY <4>2, <4>3
    <3>2. CASE ~(account[req[r].email] = None /\ Exists(r))
      BY <1>4, <2>2, <3>2 DEF CreateStoreAdmin
    <3> QED
      BY <3>1, <3>2
<1> QED
  BY <1>1, <1>2, <1>3, <1>4 DEF Create

-----------------------------------------------------------------------------
(* Review: a store that is written is there, so its request is past the    *)
(* insert, and what a partner was promised of it stands.                   *)
LEMMA ReviewKeeps == ASSUME IInv, NEW s \in Requests, Review(s) PROVE IInv'
<1> USE NoneAssumption, BoundAssumption
<1>0. TypeOK /\ req[s] \in Request /\ clock \in 0..MaxClock /\ clock \in Nat
  BY DEF IInv, TypeOK
<1>1. ASSUME Exists(s), UNCHANGED <<account, items, scopes, req>>,
             store' = [store EXCEPT ![s] = store'[s]], store'[s] \in Store,
             clock' \in 0..MaxClock, clock <= clock',
             store'[s].approvedAt \in (1..clock') \cup {None},
             store'[s].approvedAt # None => store'[s].status = "approved"
      PROVE  IInv'
  <2>1. req[s].phase \notin {"unused", "insertStore"}
        /\ (req[s].phase = "insertAccount" => req[s].email \in Emails)
    BY <1>1 DEF IInv, NotYet
  <2>2. scopes' \subseteq Requests /\ req' \in [Requests -> Request]
    BY <1>0, <1>1 DEF TypeOK
  <2> QED
    BY <1>1, <2>1, <2>2, WrittenKeeps
\* What is known of the row that a review writes
<1>2. ASSUME Exists(s)
      PROVE  store[s] \in Store /\ store[s].approvedAt \in (1..clock) \cup {None}
             /\ (store[s].approvedAt # None => store[s].status = "approved")
  BY <1>0, <1>2 DEF IInv, TypeOK, StampImpliesApproved, Exists
<1>3. CASE AdminSubmitStore(s)
  <2>1. Exists(s) /\ store[s].approvedAt = None
    BY <1>2, <1>3 DEF AdminSubmitStore, Has
  <2>2. store'[s] \in Store /\ store'[s].approvedAt = None
        /\ store' = [store EXCEPT ![s] = store'[s]]
    <3>1. store[s] \in Store
      BY <1>2, <2>1
    <3>2. store'[s] = [store[s] EXCEPT !.status = "pending", !.reason = FALSE]
      BY <1>0, <1>3 DEF AdminSubmitStore, TypeOK
    <3>3. store' = [store EXCEPT ![s] = store'[s]]
      BY <1>0, <1>3 DEF AdminSubmitStore, TypeOK
    <3> QED
      BY <2>1, <3>1, <3>2, <3>3 DEF Store, StoreStatus
  <2> QED
    BY <1>0, <1>1, <1>3, <2>1, <2>2 DEF AdminSubmitStore
<1>4. CASE ApproveStore(s)
  <2> DEFINE row == [status |-> "approved", approvedAt |-> clock + 1, reason |-> FALSE]
  <2>1. Exists(s) /\ clock' = clock + 1 /\ clock' \in 0..MaxClock
        /\ store'[s] = row /\ store' = [store EXCEPT ![s] = store'[s]]
    BY <1>0, <1>4 DEF ApproveStore, Has, TypeOK
  <2>2. row \in Store /\ row.approvedAt \in (1..clock') \cup {None} /\ row.status = "approved"
    BY <1>0, <2>1 DEF Store, StoreStatus
  <2> QED
    BY <1>0, <1>1, <1>4, <2>1, <2>2 DEF ApproveStore
<1>5. CASE RejectStore(s)
  <2>1. Exists(s) /\ store[s].approvedAt = None
    BY <1>2, <1>5 DEF RejectStore, Has
  <2>2. store'[s] \in Store /\ store'[s].approvedAt = None
        /\ store' = [store EXCEPT ![s] = store'[s]]
    <3>1. store[s] \in Store
      BY <1>2, <2>1
    <3>2. store'[s] = [store[s] EXCEPT !.status = "rejected", !.reason = TRUE]
      BY <1>0, <1>5 DEF RejectStore, TypeOK
    <3>3. store' = [store EXCEPT ![s] = store'[s]]
      BY <1>0, <1>5 DEF RejectStore, TypeOK
    <3> QED
      BY <2>1, <3>1, <3>2, <3>3 DEF Store, StoreStatus
  <2> QED
    BY <1>0, <1>1, <1>5, <2>1, <2>2 DEF RejectStore
<1>6. CASE InternalUpdateStore(s)
  <2>1. PICK status \in StoreStatus :
          LET stamps == status = "approved" /\ store[s].approvedAt = None
          IN /\ stamps => clock < MaxClock
             /\ clock' = IF stamps THEN clock + 1 ELSE clock
             /\ store' = [store EXCEPT ![s].status = status,
                            ![s].approvedAt = IF status # "approved" THEN None
                                              ELSE IF stamps THEN clock + 1 ELSE @]
    BY <1>6 DEF InternalUpdateStore
  <2> DEFINE stamp == IF status # "approved" THEN None
                      ELSE IF store[s].approvedAt = None THEN clock + 1 ELSE store[s].approvedAt
  <2>2. Exists(s) /\ store[s] \in Store /\ store[s].approvedAt \in (1..clock) \cup {None}
    BY <1>2, <1>6 DEF InternalUpdateStore
  <2>3. clock' \in 0..MaxClock /\ clock <= clock' /\ stamp \in (1..clock') \cup {None}
    BY <1>0, <2>1, <2>2
  <2>4. store'[s] = [store[s] EXCEPT !.status = status, !.approvedAt = stamp]
        /\ store' = [store EXCEPT ![s] = store'[s]]
    BY <1>0, <2>1, <2>2 DEF TypeOK, Store
  <2>5. store'[s] \in Store /\ store'[s].status = status /\ store'[s].approvedAt = stamp
    <3>1. stamp \in Nat \cup {None}
      BY <1>0, <2>2
    <3> HIDE DEF stamp
    <3> QED
      BY <2>2, <2>4, <3>1 DEF Store
  <2>6. store'[s].approvedAt # None => store'[s].status = "approved"
    BY <2>5
  <2> QED
    BY <1>1, <1>6, <2>2, <2>3, <2>4, <2>5, <2>6 DEF InternalUpdateStore
<1>7. CASE InternalDeleteStore(s)
  <2> USE <1>7 DEF InternalDeleteStore
  <2>1. TypeOK'
    BY <1>0 DEF TypeOK
  <2>2. NotYet' /\ StampImpliesApproved'
    BY <1>0 DEF IInv, TypeOK, NotYet, StampImpliesApproved, Exists
  <2>3. NoDangling'
    <3>1. ASSUME NEW e \in Emails, account'[e] # None
          PROVE  store'[account'[e]] # None
      BY <1>0, <3>1 DEF IInv, TypeOK, NoDangling, Exists
    <3>2. ASSUME NEW i \in Items, items'[i] # None
          PROVE  store'[items'[i].store] # None
      <4>1. items'[i] = items[i] /\ items[i].store # s /\ store[items[i].store] # None
            /\ items[i].store \in Requests
        BY <1>0, <3>2 DEF IInv, TypeOK, NoDangling, Exists, Item
      <4> QED
        BY <1>0, <4>1 DEF TypeOK
    <3> QED
      BY <3>1, <3>2 DEF NoDangling, Exists
  <2>4. PartnersKeepStores'
    <3> SUFFICES ASSUME NEW q \in Requests, req[q].phase = "ok"
                 PROVE  account'[req[q].email] = q <=> store'[q] # None
      BY DEF PartnersKeepStores, Exists
    <3>1. req[q].email \in Emails /\ (account[req[q].email] = q <=> store[q] # None)
      BY DEF NotYet,  IInv, PartnersKeepStores, Exists
    <3>2. CASE q = s
      BY <1>0, <3>1, <3>2 DEF TypeOK
    <3>3. CASE q # s
      BY <1>0, <3>1, <3>3 DEF TypeOK
    <3> QED
      BY <3>2, <3>3
  <2> QED
    BY <2>1, <2>2, <2>3, <2>4 DEF IInv
<1> QED
  BY <1>3, <1>4, <1>5, <1>6, <1>7 DEF Review

-----------------------------------------------------------------------------
(* The other steps, and all of them together.                              *)
LEMMA MenuKeeps == ASSUME IInv, NEW s \in Requests, NEW i \in Items, Menu(s, i) PROVE IInv'
<1> USE NoneAssumption, BoundAssumption
<1>1. TypeOK /\ UNCHANGED <<clock, store, account, scopes, req>>
  BY DEF IInv, TypeOK, Menu, CreateMenuItem, UpdateMenuItem, DeleteMenuItem
<1>2. /\ items' = [items EXCEPT ![i] = items'[i]]
      /\ items'[i] # None => items'[i] \in Item /\ items'[i].store = s /\ Exists(s)
  <2>1. CASE CreateMenuItem(s, i)
    BY <1>1, <2>1 DEF CreateMenuItem, TypeOK, Item
  <2>2. CASE UpdateMenuItem(s, i)
    <3>1. items[i] \in Item /\ items[i].store = s /\ Exists(s)
      BY <1>1, <2>2 DEF UpdateMenuItem, TypeOK, IInv, NoDangling
    <3>2. PICK a \in BOOLEAN : items' = [items EXCEPT ![i].available = a]
      BY <2>2 DEF UpdateMenuItem
    <3>3. items'[i] = [items[i] EXCEPT !.available = a] /\ items' = [items EXCEPT ![i] = items'[i]]
      BY <1>1, <3>2 DEF TypeOK
    <3> QED
      BY <3>1, <3>3 DEF Item
  <2>3. CASE DeleteMenuItem(s, i)
    BY <1>1, <2>3 DEF DeleteMenuItem, TypeOK
  <2> QED
    BY <2>1, <2>2, <2>3 DEF Menu
<1>3. TypeOK'
  BY <1>1, <1>2 DEF TypeOK
<1>4. NotYet' /\ StampImpliesApproved' /\ PartnersKeepStores'
  BY <1>1 DEF IInv, NotYet, StampImpliesApproved, PartnersKeepStores, Exists
<1>5. NoDangling'
  BY <1>1, <1>2 DEF IInv, TypeOK, NoDangling, Exists
<1> QED
  BY <1>3, <1>4, <1>5 DEF IInv

LEMMA ScopesKeep ==
  ASSUME IInv, UNCHANGED <<clock, store, account, items, req>>, scopes' \subseteq Requests
  PROVE  IInv'
  BY DEF IInv, TypeOK, NotYet, NoDangling, PartnersKeepStores, StampImpliesApproved, Exists

LEMMA StepIInv == ASSUME IInv, [Next]_vars PROVE IInv'
<1>1. CASE UNCHANGED vars
  BY <1>1, ScopesKeep DEF vars, IInv, TypeOK
<1>2. ASSUME NEW r \in Requests, Create(r)
      PROVE  IInv'
  BY <1>2, CreateKeeps
<1>3. ASSUME NEW r \in Requests, Review(r)
      PROVE  IInv'
  BY <1>3, ReviewKeeps
<1>4. ASSUME NEW r \in Requests, TokenExpires(r)
      PROVE  IInv'
  BY <1>4, ScopesKeep DEF TokenExpires, IInv, TypeOK
<1>5. ASSUME NEW e \in Emails, AdminLogin(e)
      PROVE  IInv'
  <2>1. account[e] \in Requests /\ scopes \subseteq Requests
    BY <1>5 DEF AdminLogin, IInv, TypeOK
  <2> QED
    BY <1>5, <2>1, ScopesKeep DEF AdminLogin
<1>6. ASSUME NEW s \in Requests, NEW i \in Items, Menu(s, i)
      PROVE  IInv'
  BY <1>6, MenuKeeps
<1> QED
  BY <1>1, <1>2, <1>3, <1>4, <1>5, <1>6 DEF Next

THEOREM Invariance == Spec => []IInv
<1>1. Init => IInv
  BY InitIInv
<1>2. IInv /\ [Next]_vars => IInv'
  BY StepIInv
<1> QED
  BY <1>1, <1>2, PTL DEF Spec

-----------------------------------------------------------------------------
(* The theorems.                                                           *)

(* The tables keep their types; no store is stamped in the future.         *)
THEOREM StoreTypes == Spec => []TypeOK
<1>1. IInv => TypeOK
  BY DEF IInv
<1> QED
  BY <1>1, Invariance, PTL

(* Deletion leaves neither account nor dish of the store behind, whatever  *)
(* requests are under way.                                                 *)
THEOREM NothingDangles == Spec => []NoDangling
<1>1. IInv => NoDangling
  BY DEF IInv
<1> QED
  BY <1>1, Invariance, PTL

(* A provisioned partner has its account as long as its store, and no      *)
(* longer.                                                                 *)
THEOREM PartnersStayWhole == Spec => []PartnersKeepStores
<1>1. IInv => PartnersKeepStores
  BY DEF IInv
<1> QED
  BY <1>1, Invariance, PTL

(* Only a live store bears an approval date.                               *)
THEOREM StampsMeanApproved == Spec => []StampImpliesApproved
<1>1. IInv => StampImpliesApproved
  BY DEF IInv
<1> QED
  BY <1>1, Invariance, PTL

(* Whatever is asked for one store, and with whatever dish, leaves the     *)
(* dishes of all others alone and takes none of them over.                 *)
LEMMA StepKeepsMenus ==
  ASSUME IInv, NEW s \in Requests, Asked(s), NEW i \in Items, items'[i] # items[i]
  PROVE  /\ items[i] # None => items[i].store = s
         /\ items'[i] # None => items'[i].store = s
<1> USE NoneAssumption
<1>0. items \in [Items -> Item \cup {None}]
  BY DEF IInv, TypeOK
<1>1. CASE Review(s)
  <2>1. InternalDeleteStore(s)
    BY <1>1 DEF Review, AdminSubmitStore, ApproveStore, RejectStore, InternalUpdateStore
  <2> QED
    BY <2>1 DEF InternalDeleteStore
<1>2. CASE \E j \in Items : Menu(s, j)
  <2>1. PICK j \in Items : Menu(s, j)
    BY <1>2
  <2>2. CASE CreateMenuItem(s, j)
    <3>1. PICK a \in BOOLEAN : items' = [items EXCEPT ![j] = [store |-> s, available |-> a]]
      BY <2>2 DEF CreateMenuItem
    <3>2. i = j /\ items[i] = None /\ items'[i].store = s
      BY <1>0, <2>2, <3>1 DEF CreateMenuItem
    <3> QED
      BY <3>2
  <2>3. CASE UpdateMenuItem(s, j)
    <3>1. PICK a \in BOOLEAN : items' = [items EXCEPT ![j].available = a]
      BY <2>3 DEF UpdateMenuItem
    <3>2. i = j /\ items[i] \in Item /\ items[i].store = s
      BY <1>0, <2>3, <3>1 DEF UpdateMenuItem
    <3>3. items'[i].store = s
      BY <1>0, <3>1, <3>2 DEF Item
    <3> QED
      BY <3>2, <3>3
  <2>4. CASE DeleteMenuItem(s, j)
    BY <1>0, <2>4 DEF DeleteMenuItem
  <2> QED
    BY <2>1, <2>2, <2>3, <2>4 DEF Menu
<1> QED
  BY <1>1, <1>2 DEF Asked

THEOREM MenusStayScoped == Spec => MenuScoped
<1>1. IInv /\ [Next]_vars =>
        [\A i \in Items : items'[i] # items[i] =>
          \A s \in Requests : Asked(s) => /\ items[i] # None => items[i].store = s
                                          /\ items'[i] # None => items'[i].store = s]_vars
  BY StepKeepsMenus
<1> QED
  BY <1>1, Invariance, PTL DEF Spec, MenuScoped

(* The date of an approval survives every edit that leaves the store       *)
(* approved: a stamped store is approved, so that it is not approved anew, *)
(* and its name is not given to another row.                               *)
LEMMA StepKeepsStamp ==
  ASSUME IInv, [Next]_vars, NEW s \in Requests,
         store[s] # None, store[s].approvedAt # None,
         store'[s] # None, store'[s].status = "approved"
  PROVE  store'[s].approvedAt = store[s].approvedAt
<1>0. TypeOK /\ store[s] \in Store /\ store[s].status = "approved" /\ req[s].phase \notin {"unused", "insertStore"}
  BY NoneAssumption DEF IInv, TypeOK, StampImpliesApproved, NotYet, Exists
<1>1. CASE store' = store
  BY <1>1
<1>2. ASSUME NEW r \in Requests, Create(r)
      PROVE  store'[s] = store[s]
  BY <1>0, <1>2 DEF Create, InternalCreateStore, ProvisionStoreAdmin, CreateStore, CreateStoreAdmin, TypeOK
<1>3. ASSUME NEW r \in Requests, Review(r)
      PROVE  store'[s].approvedAt = store[s].approvedAt
  <2>1. CASE AdminSubmitStore(r) \/ ApproveStore(r) \/ RejectStore(r) \/ InternalDeleteStore(r)
    <3>1. CASE r = s
      BY <1>0, <2>1, <3>1 DEF AdminSubmitStore, ApproveStore, RejectStore, InternalDeleteStore, Has, TypeOK
    <3>2. CASE r # s
      BY <1>0, <2>1, <3>2 DEF AdminSubmitStore, ApproveStore, RejectStore, InternalDeleteStore, TypeOK
    <3> QED
      BY <3>1, <3>2
  <2>2. CASE InternalUpdateStore(r)
    <3>1. CASE r = s
      <4>1. PICK status \in StoreStatus :
              store' = [store EXCEPT ![s].status = status,
                          ![s].approvedAt = IF status # "approved" THEN None
                                            ELSE IF status = "approved" /\ store[s].approvedAt = None
                                                 THEN clock + 1 ELSE @]
        BY <2>2, <3>1 DEF InternalUpdateStore
      <4>2. store'[s].status = status
            /\ store'[s].approvedAt = IF status # "approved" THEN None ELSE store[s].approvedAt
        BY <1>0, <4>1 DEF TypeOK, Store
      <4> QED
        BY <4>2
    <3>2. CASE r # s
      BY <1>0, <2>2, <3>2 DEF InternalUpdateStore, TypeOK
    <3> QED
      BY <3>1, <3>2
  <2> QED
    BY <1>3, <2>1, <2>2 DEF Review
<1>4. ASSUME NEW i \in Items, NEW r \in Requests, Menu(r, i)
      PROVE  store' = store
  BY <1>4 DEF Menu, CreateMenuItem, UpdateMenuItem, DeleteMenuItem
<1> QED
  BY <1>1, <1>2, <1>3, <1>4 DEF Next, vars, TokenExpires, AdminLogin

THEOREM StampsAreKept == Spec => StampKept
<1>1. IInv /\ [Next]_vars =>
        [\A s \in Requests :
          Exists(s) /\ store[s].approvedAt # None /\ store'[s] # None /\ store'[s].status = "approved"
            => store'[s].approvedAt = store[s].approvedAt]_vars
  BY StepKeepsStamp DEF Exists
<1> QED
  BY <1>1, Invariance, PTL DEF Spec, StampKept
=============================================================================
