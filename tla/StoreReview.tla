----------------------------- MODULE StoreReview -----------------------------
(***************************************************************************)
(* The life of a restaurant ("store") in the directory: created by an      *)
(* operator or provisioned for a partner, submitted, approved or rejected, *)
(* edited, deleted with everything hanging off it.  Models api/admin.go,   *)
(* api/internal.go and api/internal_menu.go over the tables stores,        *)
(* store_admins and menu_items.                                            *)
(*                                                                         *)
(* Every operation is one SQL statement, so one step, but for the          *)
(* provisioning of a partner, which is three.  The columns kept are those  *)
(* the review is about; the descriptive ones are left out.  Operators are  *)
(* always signed in (see OperatorAccounts).  A statement that fails        *)
(* without effect is a step not taken, except inside provisioning.         *)
(***************************************************************************)
EXTENDS Naturals

CONSTANTS
  Emails,             \* partners' (lower-cased) e-mail addresses
  Items,              \* ids for dishes on the menus
  Requests,           \* requests that create stores; each names its store
  None,               \* a NULL, an absent row, a field not used
  LongPasswords,      \* whether a partner's password may exceed bcrypt's 72 bytes
  StatementsMayFail,  \* whether provisioning's statements may report errors
  MaxClock            \* approvals stamped in a run

StoreStatus == {"draft", "pending", "approved", "rejected"}
Store == [status : StoreStatus, approvedAt : Nat \cup {None}, reason : BOOLEAN]
Item == [store : Requests, available : BOOLEAN]

ASSUME NoneAssumption ==
  /\ None \notin Emails /\ None \notin Requests /\ None \notin Nat
  /\ None \notin Store /\ None \notin Item
ASSUME SwitchAssumption == LongPasswords \in BOOLEAN /\ StatementsMayFail \in BOOLEAN
ASSUME BoundAssumption == MaxClock \in Nat

VARIABLES
  clock,    \* now(), counting the moments a store was approved
  store,    \* stores: None or the row, named by the request that created it
  account,  \* store_admins: None or the store of the partner with this e-mail
  items,    \* menu_items: None or the row
  scopes,   \* stores that live partner tokens are scoped to
  req       \* the creating requests

vars == <<clock, store, account, items, scopes, req>>

Request == [email : Emails \cup {None}, long : BOOLEAN,
            phase : {"unused", "insertStore", "insertAccount", "created", "ok", "failed"}]

(* Every variable keeps its kind of value, and no store is stamped with a  *)
(* moment yet to come.                                                     *)
TypeOK ==
  /\ clock \in 0..MaxClock
  /\ store \in [Requests -> Store \cup {None}]
  /\ \A s \in Requests : store[s] # None => store[s].approvedAt \in (1..clock) \cup {None}
  /\ account \in [Emails -> Requests \cup {None}]
  /\ items \in [Items -> Item \cup {None}]
  /\ scopes \subseteq Requests
  /\ req \in [Requests -> Request]

Init ==
  /\ clock = 0
  /\ store = [s \in Requests |-> None]
  /\ account = [e \in Emails |-> None]
  /\ items = [i \in Items |-> None]
  /\ scopes = {}
  /\ req = [r \in Requests |-> [email |-> None, long |-> FALSE, phase |-> "unused"]]

Exists(s) == store[s] # None
Has(s, statuses) == Exists(s) /\ store[s].status \in statuses

\* Mutant: the creating server stamps the row by its own clock, which is ahead
FreshStamped(status) ==
  [status |-> status, approvedAt |-> IF status = "approved" THEN clock + 1 ELSE None,
   reason |-> FALSE]

Fresh(status) == [status |-> status, approvedAt |-> None, reason |-> FALSE]
Goto(r, phase) == req' = [req EXCEPT ![r].phase = phase]

-----------------------------------------------------------------------------
(* Creation.                                                               *)

\* internalCreateStore with any status, and the drafts of imports and discovery
InternalCreateStore(r) ==
  /\ req[r].phase = "unused"
  /\ \E status \in StoreStatus : store' = [store EXCEPT ![r] = Fresh(status)]
  /\ Goto(r, "created")
  /\ UNCHANGED <<clock, account, items, scopes>>

\* provisionStoreAdmin: is the address taken?  Only then anything is written.
ProvisionStoreAdmin(r) ==
  /\ req[r].phase = "unused"
  /\ \E e \in Emails, long \in {FALSE, LongPasswords} :
       req' = [req EXCEPT ![r] = [email |-> e, long |-> long, phase |->
                                    IF account[e] = None THEN "insertStore" ELSE "failed"]]
  /\ UNCHANGED <<clock, store, account, items, scopes>>

Outcomes == IF StatementsMayFail THEN {"done", "error", "lost"} ELSE {"done"}
Executed(o) == o # "error"

\* CreateStore, then HashPassword, which refuses a password too long
CreateStore(r) ==
  /\ req[r].phase = "insertStore"
  /\ \E o \in Outcomes :
       /\ store' = IF Executed(o) THEN [store EXCEPT ![r] = Fresh("draft")] ELSE store
       /\ Goto(r, IF o = "done" /\ ~req[r].long THEN "insertAccount" ELSE "failed")
  /\ UNCHANGED <<clock, account, items, scopes>>

\* Mutant: no foreign key from store_admins to stores
CreateAccountUnchecked(r) ==
  /\ req[r].phase = "insertAccount"
  /\ account' = [account EXCEPT ![req[r].email] = r]
  /\ Goto(r, "ok")
  /\ UNCHANGED <<clock, store, items, scopes>>

\* CreateStoreAdmin: the unique e-mail and the foreign key decide
CreateStoreAdmin(r) ==
  /\ req[r].phase = "insertAccount"
  /\ IF account[req[r].email] = None /\ Exists(r)
     THEN \E o \in Outcomes :
            /\ account' = IF Executed(o) THEN [account EXCEPT ![req[r].email] = r] ELSE account
            /\ Goto(r, IF o = "done" THEN "ok" ELSE "failed")
     ELSE Goto(r, "failed") /\ UNCHANGED account
  /\ UNCHANGED <<clock, store, items, scopes>>

-----------------------------------------------------------------------------
(* Review.  The WHERE clause of each UPDATE is the guard.                  *)

\* adminLogin puts the store of the account into the partner's token
AdminLogin(e) ==
  /\ account[e] # None
  /\ scopes' = scopes \cup {account[e]}
  /\ UNCHANGED <<clock, store, account, items, req>>

TokenExpires(s) ==
  /\ s \in scopes
  /\ scopes' = scopes \ {s}
  /\ UNCHANGED <<clock, store, account, items, req>>

\* adminSubmitStore, first or after a rejection; a token outlives its store
AdminSubmitStore(s) ==
  /\ s \in scopes /\ Has(s, {"draft", "rejected"})
  /\ store' = [store EXCEPT ![s].status = "pending", ![s].reason = FALSE]
  /\ UNCHANGED <<clock, account, items, scopes, req>>

ApproveStore(s) ==
  /\ Has(s, {"draft", "pending"}) /\ clock < MaxClock
  /\ clock' = clock + 1
  /\ store' = [store EXCEPT ![s] =
                 [status |-> "approved", approvedAt |-> clock + 1, reason |-> FALSE]]
  /\ UNCHANGED <<account, items, scopes, req>>

\* Mutant: a live store can be rejected too, the stamp staying behind
RejectLive(s) ==
  /\ Has(s, {"pending", "approved"})
  /\ store' = [store EXCEPT ![s].status = "rejected", ![s].reason = TRUE]
  /\ UNCHANGED <<clock, account, items, scopes, req>>

RejectStore(s) ==
  /\ Has(s, {"pending"})
  /\ store' = [store EXCEPT ![s].status = "rejected", ![s].reason = TRUE]
  /\ UNCHANGED <<clock, account, items, scopes, req>>

\* Mutant: every save of an approved store stamps it anew
UpdateRestamps(s) ==
  /\ Exists(s) /\ clock < MaxClock
  /\ clock' = clock + 1
  /\ \E status \in StoreStatus :
       store' = [store EXCEPT ![s].status = status,
                   ![s].approvedAt = IF status = "approved" THEN clock + 1 ELSE None]
  /\ UNCHANGED <<account, items, scopes, req>>

\* internalUpdateStore: the operator's form overwrites the status, whatever it
\* was, COALESCEs approved_at and leaves rejection_reason alone
InternalUpdateStore(s) ==
  /\ Exists(s)
  /\ \E status \in StoreStatus :
       LET stamps == status = "approved" /\ store[s].approvedAt = None
       IN /\ stamps => clock < MaxClock
          /\ clock' = IF stamps THEN clock + 1 ELSE clock
          /\ store' = [store EXCEPT ![s].status = status,
                         ![s].approvedAt = IF status # "approved" THEN None
                                           ELSE IF stamps THEN clock + 1 ELSE @]
  /\ UNCHANGED <<account, items, scopes, req>>

\* Mutant: ON DELETE CASCADE on the dishes only
DeleteKeepsAccount(s) ==
  /\ Exists(s)
  /\ store' = [store EXCEPT ![s] = None]
  /\ items' = [i \in Items |-> IF items[i] # None /\ items[i].store = s THEN None ELSE items[i]]
  /\ UNCHANGED <<clock, account, scopes, req>>

\* internalDeleteStore: accounts and dishes go with the store, tokens do not
InternalDeleteStore(s) ==
  /\ Exists(s)
  /\ store' = [store EXCEPT ![s] = None]
  /\ account' = [e \in Emails |-> IF account[e] = s THEN None ELSE account[e]]
  /\ items' = [i \in Items |-> IF items[i] # None /\ items[i].store = s THEN None ELSE items[i]]
  /\ UNCHANGED <<clock, scopes, req>>

-----------------------------------------------------------------------------
(* Menus: a partner acts for the store of its token, an operator for the   *)
(* store in the path, so for any id at all, with any dish's id.            *)

CreateMenuItem(s, i) ==
  /\ Exists(s) /\ items[i] = None
  /\ \E a \in BOOLEAN : items' = [items EXCEPT ![i] = [store |-> s, available |-> a]]
  /\ UNCHANGED <<clock, store, account, scopes, req>>

\* Mutant: the update finds the dish by its id alone
UpdateAnyItem(s, i) ==
  /\ items[i] # None
  /\ \E a \in BOOLEAN : items' = [items EXCEPT ![i].available = a]
  /\ UNCHANGED <<clock, store, account, scopes, req>>

UpdateMenuItem(s, i) ==
  /\ items[i] # None /\ items[i].store = s
  /\ \E a \in BOOLEAN : items' = [items EXCEPT ![i].available = a]
  /\ UNCHANGED <<clock, store, account, scopes, req>>

DeleteMenuItem(s, i) ==
  /\ items[i] # None /\ items[i].store = s
  /\ items' = [items EXCEPT ![i] = None]
  /\ UNCHANGED <<clock, store, account, scopes, req>>

Create(r) == InternalCreateStore(r) \/ ProvisionStoreAdmin(r) \/ CreateStore(r) \/ CreateStoreAdmin(r)
Review(s) == AdminSubmitStore(s) \/ ApproveStore(s) \/ RejectStore(s)
             \/ InternalUpdateStore(s) \/ InternalDeleteStore(s)
Menu(s, i) == CreateMenuItem(s, i) \/ UpdateMenuItem(s, i) \/ DeleteMenuItem(s, i)
Next ==
  \/ \E r \in Requests : Create(r) \/ Review(r) \/ TokenExpires(r)
  \/ \E e \in Emails : AdminLogin(e)
  \/ \E s \in Requests, i \in Items : Menu(s, i)
Spec == Init /\ [][Next]_vars

-----------------------------------------------------------------------------
(* Properties.                                                             *)

(* Accounts and dishes never outlive their store, though a store may be    *)
(* deleted between the steps of the request that is adding the account.    *)
NoDangling ==
  /\ \A e \in Emails : account[e] # None => Exists(account[e])
  /\ \A i \in Items : items[i] # None => Exists(items[i].store)

(* A partner told "created" has an account exactly as long as the store it *)
(* was provisioned with: neither is ever left without the other.           *)
PartnersKeepStores == \A r \in Requests :
  req[r].phase = "ok" => (account[req[r].email] = r <=> Exists(r))

(* internal_stores.sql: approved_at is set iff the store is currently      *)
(* approved.  One half holds through every sequence of reviews and edits:  *)
(* only a live store bears an approval date.  (Of the other, a store that  *)
(* is created as approved is live without one.)                            *)
StampImpliesApproved == \A s \in Requests :
  Exists(s) /\ store[s].approvedAt # None => store[s].status = "approved"

(* internal_stores.sql: the original date survives later edits, as long as *)
(* the store stays approved.                                               *)
StampKept == [][\A s \in Requests :
  Exists(s) /\ store[s].approvedAt # None /\ store'[s] # None /\ store'[s].status = "approved"
    => store'[s].approvedAt = store[s].approvedAt]_vars

(* internal_menu.go: a mismatched pair of store and dish affects no rows   *)
(* rather than touching another store's menu.  So with all that is asked   *)
(* for one store, by its partner, by a partner whose store is gone or by   *)
(* an operator, and with whatever dish's id: it changes, takes away, adds  *)
(* or takes over no dish but the store's own.                              *)
Asked(s) == Review(s) \/ \E i \in Items : Menu(s, i)
MenuScoped == [][\A i \in Items : items'[i] # items[i] =>
  \A s \in Requests : Asked(s) => /\ items[i] # None => items[i].store = s
                                  /\ items'[i] # None => items'[i].store = s]_vars
=============================================================================
