--------------------------- MODULE CatalogueIntake ---------------------------
(***************************************************************************)
(* How restaurants get into the directory in bulk: the CSV import and the  *)
(* automatic discovery, which crawls pages and saves what it captures as   *)
(* drafts.  Models api/import.go, api/discovery.go and db/sqlc/discovery.go*)
(* over the tables stores and menu_items.                                  *)
(*                                                                         *)
(* Each looks for a duplicate before it inserts.  An import does so with   *)
(* two statements that commit one by one; discovery does it in one         *)
(* transaction under an advisory lock that only discovery takes.  Requests *)
(* run concurrently, on any server instance, and an instance may die.      *)
(***************************************************************************)
EXTENDS Naturals, Sequences

CONSTANTS
  Candidates,         \* records [name, ward, address, source]; "" for no address
  Wards,              \* wards an operator selects for a discovery
  Pages, Web,         \* what each page is: Restaurant(c, menu), Listing(links) or Dead
  Searches,           \* sequences of pages, submitted or found by the search
  Files,              \* sequences of candidates, the rows of a CSV file
  Forms,              \* what a store's form may be saved with, also candidates
  Requests,           \* ids of the requests the servers ever receive
  None,               \* an absent value
  Limit, MaxFetches,  \* outcomes wanted, and the bound on pages captured (12)
  MaxErrors,          \* how far the entries for a body that broke off are counted
  StatementsMayFail   \* whether SQL statements may report errors

ASSUME SwitchAssumption == StatementsMayFail \in BOOLEAN
ASSUME BoundsAssumption == Limit \in Nat /\ MaxFetches \in Nat /\ MaxErrors \in Nat
ASSUME NoneAssumption == None \notin Requests /\ None \notin Pages /\ None \notin Candidates
ASSUME InputAssumption ==
  /\ Files \subseteq Seq(Candidates) /\ <<>> \notin Files
  /\ Searches \subseteq Seq(Pages) /\ Forms \subseteq Candidates
  /\ \A p \in Pages :
       /\ Web[p] \in [kind : {"restaurant", "listing", "dead"},
                     what : Candidates \cup {None}, menu : BOOLEAN, links : Seq(Pages)]
       /\ Web[p].kind = "restaurant" => Web[p].what \in Candidates

\* A restaurant's page may link to a menu page
Restaurant(c, menu) == [kind |-> "restaurant", what |-> c, menu |-> menu, links |-> <<>>]
Listing(links) == [kind |-> "listing", what |-> None, menu |-> FALSE, links |-> links]
Dead == [kind |-> "dead", what |-> None, menu |-> FALSE, links |-> <<>>]

VARIABLES
  rows,   \* stores: the request that created each, and what it says now
  menus,  \* the stores whose dishes from the CSV were stored
  lock,   \* pg_advisory_xact_lock(724198, 1): None or the request holding it
  req,    \* the requests: what each is doing and the locals of its handler
  past    \* history: the requests that were answered before each began

vars == <<rows, menus, lock, req, past>>

InFlight == {"count", "broken", "create", "menu", "pages", "links", "lock", "find", "commit"}
Ended == {"ok", "died"}
Key == [by : Requests, nth : Nat]
\* "kept": what of its page and its listing nobody has changed since
Row == [by : Requests, nth : Nat, cand : Candidates, kept : SUBSET {"source", "listing"}]
Outcome == [page : Pages, status : {"created", "duplicate", "failed"}]

Unused == [op |-> "none", phase |-> "unused", file |-> <<>>, whole |-> TRUE, errors |-> 0,
           todo |-> <<>>, ward |-> None, links |-> <<>>, listing |-> None, saved |-> FALSE,
           page |-> None, cand |-> None, seen |-> {}, fetches |-> 0, gets |-> 0, outcomes |-> <<>>]

Request ==
  [op : {"none", "import", "discover"}, phase : {"unused"} \cup InFlight \cup Ended,
   file : Seq(Candidates), todo : Seq(Pages),  \* rows and pages not yet tried
   whole : BOOLEAN, errors : 0..MaxErrors,     \* whether the body breaks off after them
   ward : Wards \cup {None},
   links : Seq(Pages),                         \* of the listing that is followed
   listing : Pages \cup {None}, saved : BOOLEAN,
   page : Pages \cup {None}, cand : Candidates \cup {None},
   seen : SUBSET Pages, fetches : Nat, outcomes : Seq(Outcome),
   gets : Nat]                                 \* history: pages asked for, menus too

(* Every variable keeps its kind of value; no batch captures or reports    *)
(* more than it may, or asks for more than two pages for each it captures; *)
(* and the lock is with a transaction that is under way, which Rollback, or*)
(* the end of its connection, never leaves behind.                         *)
TypeOK ==
  /\ rows \subseteq Row /\ menus \subseteq Key
  /\ lock \in Requests \cup {None}
  /\ req \in [Requests -> Request] /\ past \in [Requests -> SUBSET Requests]
  /\ \A r \in Requests :
       /\ req[r].fetches <= MaxFetches /\ Len(req[r].outcomes) <= Limit
       /\ req[r].gets <= 2 * req[r].fetches
       /\ lock = r <=> req[r].phase \in {"find", "commit"}

Init ==
  /\ rows = {}
  /\ menus = {}
  /\ lock = None
  /\ req = [r \in Requests |-> Unused]
  /\ past = [r \in Requests |-> {}]

-----------------------------------------------------------------------------
Outcomes == IF StatementsMayFail THEN {"done", "error", "lost"} ELSE {"done"}
Executed(o) == o # "error"
Become(r, q) == req' = [req EXCEPT ![r] = q]
Arrives(r) == req[r].phase = "unused"
KeyOf(x) == [by |-> x.by, nth |-> x.nth]
Created(r, n, c) == [by |-> r, nth |-> n, cand |-> c, kept |-> {"source", "listing"}]

\* CountStoresByNameWard
SameListing(c, d) == c.name = d.name /\ c.ward = d.ward

\* CreateDiscoveryDraft's query: the page anywhere, the name or address in the ward
SameSource(c, d) == c.source = d.source
SameShop(c, d) ==
  c.ward = d.ward /\ (c.name = d.name \/ (c.address # "" /\ c.address = d.address))
Duplicate(c, d) == SameSource(c, d) \/ SameShop(c, d)

-----------------------------------------------------------------------------
(* POST /internal/stores/import, row by row.                               *)

ImportStores(r) ==
  /\ Arrives(r)
  /\ \E f \in Files, whole \in BOOLEAN :
       Become(r, [Unused EXCEPT !.op = "import", !.phase = "count", !.file = f, !.whole = whole])
  /\ UNCHANGED <<rows, menus, lock>>

NextRow(q) ==
  [q EXCEPT !.file = Tail(@),
            !.phase = IF Len(q.file) > 1 THEN "count" ELSE IF q.whole THEN "ok" ELSE "broken"]
NewRow(r) == Created(r, Len(req[r].file), Head(req[r].file))

\* Mutant: the count's result is not looked at
CountNothing(r) ==
  /\ req[r].phase = "count"
  /\ Become(r, [req[r] EXCEPT !.phase = "create"])
  /\ UNCHANGED <<rows, menus, lock>>

\* "same name already in this ward -> leave it alone"
CountStores(r) ==
  /\ req[r].phase = "count"
  /\ \E o \in Outcomes :
       Become(r, IF o = "done" /\ ~\E x \in rows : SameListing(x.cand, Head(req[r].file))
                 THEN [req[r] EXCEPT !.phase = "create"] ELSE NextRow(req[r]))
  /\ UNCHANGED <<rows, menus, lock>>

CreateImported(r) ==
  /\ req[r].phase = "create"
  /\ \E o \in Outcomes :
       /\ rows' = IF Executed(o) THEN rows \cup {NewRow(r)} ELSE rows
       /\ Become(r, IF o = "done" THEN [req[r] EXCEPT !.phase = "menu"] ELSE NextRow(req[r]))
  /\ UNCHANGED <<menus, lock>>

\* gluten_free_items, as one statement; a failure is reported and the row stays
CreateMenu(r) ==
  /\ req[r].phase = "menu"
  /\ \E o \in Outcomes :
       menus' = IF Executed(o) THEN menus \cup ({KeyOf(NewRow(r))} \cap {KeyOf(x) : x \in rows})
                ELSE menus
  /\ Become(r, NextRow(req[r]))
  /\ UNCHANGED <<rows, lock>>

\* A body over maxImportBytes, or whose connection broke: the reader gives the
\* same error at every call and never io.EOF, and the loop takes each for a row
\* (at MaxErrors the model rests, the loop does not)
MalformedRow(r) ==
  /\ req[r].phase = "broken" /\ req[r].errors < MaxErrors
  /\ Become(r, [req[r] EXCEPT !.errors = @ + 1])
  /\ UNCHANGED <<rows, menus, lock>>

-----------------------------------------------------------------------------
(* POST /internal/discovery: the crawl.                                    *)

Discover(r) ==
  /\ Arrives(r)
  /\ \E s \in Searches, w \in Wards :
       Become(r, [Unused EXCEPT !.op = "discover", !.phase = "pages", !.todo = s, !.ward = w])
  /\ UNCHANGED <<rows, menus, lock>>

Spent(q) == Len(q.outcomes) >= Limit \/ q.fetches >= MaxFetches
Report(q, p, status) ==
  [q EXCEPT !.outcomes = Append(@, [page |-> p, status |-> status])]

\* CaptureOrLinks: the page, and of a restaurant its menu page as well, which
\* nobody counts and whose failure is a warning
Fetch(q, p, found) == [q EXCEPT !.seen = @ \cup {p}, !.fetches = @ + 1, !.page = p,
                                !.gets = @ + IF found.menu THEN 2 ELSE 1]

\* draft: only a candidate whose address lies in the ward goes on to be saved
Capture(q, c) == [q EXCEPT !.phase = "lock", !.cand = c]

\* Stage one: the pages submitted.  Any fetch may fail.
NextPage(r) ==
  LET q == req[r]
      p == Head(q.todo)
      rest == [q EXCEPT !.todo = Tail(@)]
  IN
  /\ q.phase = "pages"
  /\ \/ /\ q.todo = <<>> \/ Spent(q)
        /\ Become(r, [q EXCEPT !.phase = "ok"])
     \/ /\ q.todo # <<>> /\ ~Spent(q) /\ p \in q.seen
        /\ Become(r, rest)
     \/ /\ q.todo # <<>> /\ ~Spent(q) /\ p \notin q.seen
        /\ \E found \in {Web[p], Dead} :
             Become(r,
               IF found.kind = "restaurant" /\ found.what.ward = q.ward
               THEN Capture(Fetch(rest, p, found), found.what)
               ELSE IF found.links # <<>>
               THEN [Fetch(rest, p, found) EXCEPT !.phase = "links", !.links = found.links,
                                           !.listing = p, !.saved = FALSE]
               ELSE Report(Fetch(rest, p, found), p, "failed"))
  /\ UNCHANGED <<rows, menus, lock>>

\* Mutant: links are followed to the end of the listing, whatever they cost
FollowAllLinks(r) ==
  LET q == req[r]
      rest == [q EXCEPT !.links = Tail(@)]
  IN
  /\ q.phase = "links"
  /\ IF q.links = <<>>
     THEN Become(r, [(IF q.saved THEN q ELSE Report(q, q.listing, "failed"))
                       EXCEPT !.phase = "pages", !.listing = None])
     ELSE LET found == Web[Head(q.links)]
              fetched == Fetch(rest, Head(q.links), found)
          IN Become(r, IF found.kind = "restaurant" THEN Capture(fetched, found.what) ELSE fetched)
  /\ UNCHANGED <<rows, menus, lock>>

\* Stage two: the links of a listing, of which only drafts saved are reported
NextLink(r) ==
  LET q == req[r]
      p == Head(q.links)
      rest == [q EXCEPT !.links = Tail(@)]
  IN
  /\ q.phase = "links"
  /\ \/ /\ q.links = <<>> \/ Spent(q)
        /\ Become(r, [(IF q.saved THEN q ELSE Report(q, q.listing, "failed"))
                        EXCEPT !.phase = "pages", !.links = <<>>, !.listing = None])
     \/ /\ q.links # <<>> /\ ~Spent(q) /\ p \in q.seen
        /\ Become(r, rest)
     \/ /\ q.links # <<>> /\ ~Spent(q) /\ p \notin q.seen
        /\ \E found \in {Web[p], Dead} :
             Become(r, IF found.kind = "restaurant" /\ found.what.ward = q.ward
                       THEN Capture(Fetch(rest, p, found), found.what)
                       ELSE Fetch(rest, p, found))
  /\ UNCHANGED <<rows, menus, lock>>

-----------------------------------------------------------------------------
(* CreateDiscoveryDraft, one transaction for each candidate.               *)

\* What the crawl does with the answer
Drafted(q, status) ==
  LET told == IF q.listing = None \/ status # "failed" THEN Report(q, q.page, status) ELSE q
  IN [told EXCEPT !.phase = IF q.listing = None THEN "pages" ELSE "links",
                  !.saved = @ \/ status # "failed", !.cand = None]

\* Mutant: no lock, the transaction alone is thought to be enough
LockNothing(r) ==
  /\ req[r].phase = "lock"
  /\ Become(r, [req[r] EXCEPT !.phase = "find"])
  /\ UNCHANGED <<rows, menus, lock>>

LockDrafts(r) ==
  /\ req[r].phase = "lock" /\ lock = None
  /\ lock' = r
  /\ Become(r, [req[r] EXCEPT !.phase = "find"])
  /\ UNCHANGED <<rows, menus>>

\* The lookup; a duplicate is returned and the transaction ends
FindDraft(r) ==
  /\ req[r].phase = "find"
  /\ IF \E x \in rows : Duplicate(x.cand, req[r].cand)
     THEN lock' = None /\ Become(r, Drafted(req[r], "duplicate"))
     ELSE UNCHANGED lock /\ Become(r, [req[r] EXCEPT !.phase = "commit"])
  /\ UNCHANGED <<rows, menus>>

\* INSERT and COMMIT: the row is there for others from the commit on
CommitDraft(r) ==
  /\ req[r].phase = "commit"
  /\ \E o \in Outcomes \ {"error"} :
       Become(r, Drafted(req[r], IF o = "done" THEN "created" ELSE "failed"))
  /\ rows' = rows \cup {Created(r, req[r].fetches, req[r].cand)}
  /\ lock' = None
  /\ UNCHANGED menus

\* Mutant: the transaction is left open when a statement fails
ForgetRollback(r) ==
  /\ StatementsMayFail /\ req[r].phase \in {"lock", "find", "commit"}
  /\ Become(r, Drafted(req[r], "failed"))
  /\ UNCHANGED <<rows, menus, lock>>

\* A statement fails, or the batch's deadline passes while it waits
Rollback(r) ==
  /\ StatementsMayFail /\ req[r].phase \in {"lock", "find", "commit"}
  /\ lock' = IF lock = r THEN None ELSE lock
  /\ Become(r, Drafted(req[r], "failed"))
  /\ UNCHANGED <<rows, menus>>

\* The instance dies; the database rolls its open transaction back
Die(r) ==
  /\ StatementsMayFail /\ req[r].phase \in InFlight
  /\ lock' = IF lock = r THEN None ELSE lock
  /\ Become(r, [req[r] EXCEPT !.phase = "died"])
  /\ UNCHANGED <<rows, menus>>

-----------------------------------------------------------------------------
\* An operator deletes a store, its dishes with it
DeleteStore == \E x \in rows :
  /\ rows' = rows \ {x}
  /\ menus' = menus \ {KeyOf(x)}
  /\ UNCHANGED <<lock, req>>

Listed(c) == <<c.name, c.ward, c.address>>

\* An operator's form overwrites page, name, ward and address, whatever batches
\* run and without looking for duplicates
EditStore == \E x \in rows, c \in Forms :
  /\ rows' = (rows \ {x}) \cup {[x EXCEPT !.cand = c,
       !.kept = {k \in @ : /\ k = "source" => SameSource(c, x.cand)
                           /\ k = "listing" => Listed(c) = Listed(x.cand)}]}
  /\ UNCHANGED <<menus, lock, req>>

Arrival(r) == ImportStores(r) \/ Discover(r)
Continue(r) ==
  \/ CountStores(r) \/ CreateImported(r) \/ CreateMenu(r) \/ MalformedRow(r)
  \/ NextPage(r) \/ NextLink(r)
  \/ LockDrafts(r) \/ FindDraft(r) \/ CommitDraft(r)
Fail(r) == Rollback(r) \/ Die(r)

\* History: whose answer whoever arrives could have waited for
Remember == past' = [r \in Requests |->
  IF Arrives(r) /\ req'[r].phase # "unused" THEN {o \in Requests : req[o].phase = "ok"} ELSE past[r]]

Next == /\ DeleteStore \/ EditStore \/ \E r \in Requests : Arrival(r) \/ Continue(r) \/ Fail(r)
        /\ Remember

Spec == Init /\ [][Next]_vars

\* A request that has begun goes on until it answers
FairSpec == Spec /\ \A r \in Requests : WF_vars(Continue(r) /\ Remember)

-----------------------------------------------------------------------------
(* Properties.                                                             *)

By(op) == {x \in rows : req[x.by].op = op}

BothKept(x, y, k) == k \in x.kept \cap y.kept

(* CreateDiscoveryDraft "serializes duplicate checks across server         *)
(* instances": no two of discovery's drafts are of the same restaurant,    *)
(* though the matching is not transitive, batches run side by side, die,   *)
(* lose the reply to a commit and are submitted again.  A form saved in    *)
(* between can make them alike only in what it changes: drafts that were   *)
(* renamed still keep others of their page away.                           *)
NoDuplicateDrafts == \A x, y \in By("discover") : x # y =>
  /\ BothKept(x, y, "source") => ~SameSource(x.cand, y.cand)
  /\ BothKept(x, y, "listing") => ~SameShop(x.cand, y.cand)

(* A batch brings in what is new to it: import.go, "Idempotency: same name *)
(* already in this ward", and CreateDiscoveryDraft's lookup.  So a file    *)
(* that names a restaurant twice brings it in once, even if the first      *)
(* insert was reported as failed after it had happened; and a batch sent   *)
(* after another was answered, be it the same file again or the pages of   *)
(* restaurants that a file had brought, doubles nothing of it, but for     *)
(* stores whose form was saved.  (Two imports that run at once count       *)
(* before either inserts, and may bring a row in twice.)                   *)
BatchesBringNew == \A x, y \in rows : x # y =>
  LET Known == past[y.by] IN
  /\ y \in By("import") /\ x.by \in Known \cup {y.by} /\ BothKept(x, y, "listing") =>
       ~SameListing(x.cand, y.cand)
  /\ y \in By("discover") /\ x.by \in Known =>
       /\ BothKept(x, y, "source") => ~SameSource(x.cand, y.cand)
       /\ BothKept(x, y, "listing") => ~SameShop(x.cand, y.cand)

(* A batch always comes to its answer: whoever waits for the lock gets it, *)
(* for its holder commits, rolls back or dies.  Only an import whose body  *)
(* cannot be read to its end does not; others come to theirs all the same. *)
BatchesEnd == \A r \in Requests :
  (req[r].phase \in InFlight /\ req[r].whole) ~> (req[r].phase \in Ended)

(* Why a batch ends, whatever the pages link to: each of its steps fetches *)
(* one page more, of a number that is bounded, or else leaves fewer rows,  *)
(* pages and links to try, or else brings it nearer to its next one.       *)
Left(q) == Len(q.file) + Len(q.todo) + Len(q.links)
Stage(phase) ==
  CASE phase = "lock" -> 5 [] phase = "find" -> 4 [] phase \in {"count", "commit"} -> 3
    [] phase \in {"create", "links"} -> 2 [] phase \in {"menu", "pages"} -> 1 [] OTHER -> 0
Nearer(after, before) ==
  \/ after.fetches > before.fetches
  \/ /\ after.fetches = before.fetches
     /\ \/ Left(after) < Left(before)
        \/ Left(after) = Left(before) /\ Stage(after.phase) < Stage(before.phase)
StepsComeNearer == [][\A r \in Requests :
  req[r].phase \in InFlight \ {"broken"} /\ req'[r] # req[r] =>
    req'[r].phase = "died" \/ Nearer(req'[r], req[r])]_vars

(* api/discovery.go: "maxFetches bounds the total page fetches so the      *)
(* request stays inside the work deadline".                                *)
FetchesAreBounded == \A r \in Requests : req[r].gets <= MaxFetches

(* import.go: "maxImportBytes caps the uploaded CSV so a bad request can't *)
(* exhaust memory".  Then an import ends whatever became of its body, and  *)
(* does not make an entry in result.Errors for ever.                       *)
ImportsEnd == \A r \in Requests :
  (req[r].op = "import" /\ req[r].phase \in InFlight) ~> (req[r].phase \in Ended)
=============================================================================
