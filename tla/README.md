# Verification of the gluten-free directory server

TLA+ models of the Go server in this repository: what its handlers do to the
database when they run side by side, when statements fail and when instances
die; TLC runs that check them on small instances; and proofs, checked by TLAPS,
of the safety of every component modelled, for instances of any size.

## The system

One Go program serves an iOS app, a partner portal and an operator portal. All
state is in PostgreSQL; several instances run on Cloud Run. gin gives every
request a goroutine. No handler opens a transaction, so each SQL statement
commits alone and the statements of different requests interleave freely; the
one exception is the transaction of `CreateDiscoveryDraft`. A request can stop
for good between any two statements (the instance dies), and a statement can
fail without effect or take effect and lose its reply.

| Component | State | Operations | Hard behaviour | What makes it correct |
|---|---|---|---|---|
| Operator accounts (`api/internal.go`, `api/internal_admins.go`, `cmd/createadmin`) | `internal_admins`, `internal_sessions`, `internal_password_resets`, signed tokens | login, refresh, logout, create, set / change / forgot / reset password | check and write in different statements; a claim that can lose its reply; best-effort purges | a reset link works once; only the entitled write a password; a new password ends what the old one opened |
| Apple subscriptions (`api/storekit.go`) | `subscription_receipts`, `users.subscription_status` | verify, webhook | late, repeated, reordered payloads; two tables, two statements, two handlers | receipt and user agree; access is paid for and belongs to the payer; the latest state wins |
| Store review and menus (`api/admin.go`, `api/internal.go`, `api/internal_menu.go`) | `stores`, `store_admins`, `menu_items`, partners' scoped tokens | provision, create, submit, approve, reject, edit, delete; dishes | a store deleted while its account is being added; tokens that outlive the store; two ways to approve | nothing dangles; the approval date belongs to live stores; a menu is edited for its own store |
| Catalogue intake (`api/import.go`, `api/discovery.go`, `db/sqlc/discovery.go`) | `stores`, `menu_items`, an advisory lock | CSV import, discovery crawl | check-then-insert, retry after a lost commit, budgets, a lock that must be freed | no batch brings in what it or an answered one brought; every batch ends within its budget |
| App users (`api/user.go`, `api/apple.go`) | `users`, `sessions` | register, login, Sign in with Apple | two first sign-ins at once; an INSERT whose reply is lost; an e-mail that is another's | one account for each address and Apple id; a session is its owner's; whoever keeps trying gets in |
| Public browsing (`api/store.go`) | none of its own | list, detail, menu | pages cut while the list changes; gate, check and read in different statements | no store that matched throughout is missed or repeated; answers have reasons |
| Geocoding (`api/import.go`, `geocode/`) | coordinates of `stores`, the throttle's mutex and clock | backfill, single lookup | a batch minutes old when it is written; a queue whose head never leaves; a mutex slept with | pins belong to the store's address and are precise; turns at the service keep their distance; the backfill gets to what can be placed |
| Apple keys (`applesignin/keysource.go`) | a cached key set, its age, a mutex | Key | refresh on a miss, stale on error, rotation | published keys pass; withdrawn keys fade |

Uploads, mail, configuration, CORS, page extraction and certificate checks keep
no state that steps interleave on; `PROJECT.json` lists them with the reason
each is left out. The components meet in the database only: the status on the
user's row gates the menus, the stores that intake creates enter review and wait
for coordinates, a partner's token names a store, a deleted store takes its
accounts and dishes. `Browse` and `Geocoding` therefore contain the other
components' writes to the tables they read, as actions that may happen at any
time.

## The models

In every module a **request id** stands for one HTTP request, used once. `req`
holds where its handler is (`phase`) and the handler's locals; each SQL
statement after the first is an action of its own. The guard of such an action
is the phase, its alternatives are the outcomes of the statement: *done*,
*error* (no effect), *lost* (took effect, the handler sees an error). A request
that is never continued is one whose instance died.

* **OperatorAccounts** — `hash`, `sessions` and `links` are the three tables,
  `live` the tokens and links not yet expired, `written` a history variable. A
  hash is named by the request that computed it (bcrypt salts, so no two are
  equal), a session, token and link by the request that made them. `Arrival(r)`
  is a handler up to its first write, `Continue(r)` each statement after it;
  `StorePassword`, `PurgeSessions`, `PurgeLinks` are `replaceAdminPassword`,
  `ClaimLink` the claim that makes a link work once, `MintSession` is
  `issueInternalSession`. `Expire` drops any token or link at any time: no
  property depends on how long they live. Operators are never deleted, as no
  handler or command deletes one.
* **OneTimeLinks** — the promise of the reset mail and nothing else: a link is
  issued, redeemed by at most one holder, and used by that holder or not at all.
  `OperatorAccounts!Promise` is the refinement mapping.
* **Subscriptions** — `signed` is what Apple has signed for each subscription,
  in order; the environment extends it, and either handler may be given any
  member at any time, so late, repeated and lost deliveries need no action of
  their own. `receipt` and `user` remember which payload they were written from;
  `crossed` is a history variable: the subscriptions whose last request met
  another one under way, failed, or came from a user who does not own the
  receipt.
* **PaidAccess** — the promise to subscribers and nothing about handlers: a
  subscription is entered in the book for whoever presents it first and never
  changes hands; book and access only say what Apple's word backed for that very
  subscription when it was written. `Subscriptions!Promise` maps `receipt` to the
  book and `user` to the access; `Backed` is what Apple's payloads, and the time,
  support.
* **StoreReview** — the columns the review is about. Each operation is one
  statement and so one step whose guard is the `WHERE` clause, but for
  provisioning, which is three. `clock` counts the moments approvals are
  stamped. Descriptive columns are left out, and with them `adminUpdateStore`,
  which writes nothing the review looks at; what it does to address and
  coordinates is in Geocoding. A dish knows its store and whether it is available;
  a menu operation takes any store and any dish's id, as an operator's path does.
* **CatalogueIntake** — imports and discoveries over one table of stores. A page
  is a restaurant, with or without a page for its menu, a listing or dead, and any
  fetch may fail. `Fetch` is `CaptureOrLinks`, which asks for the menu page as well;
  `fetches` is what the handler counts, and `gets` the pages asked for. The transaction of
  a draft is `LockDrafts`, `FindDraft`, `CommitDraft`, with `Rollback` and `Die`
  from each point; `file` and `todo` are the rows and pages not yet tried.
  Matching is by name, address or source as in the query, so it is not
  transitive. `EditStore` is the operator's form, which changes all three at any
  time; `kept` remembers what of a row no form has changed, and `past` which
  batches had been answered when a batch began. The body of an import
  may break off after any rows (`whole`): `MalformedRow` is the loop's turn for
  the error that the reader then gives at every call. Rows without a name or of
  no known ward reach no statement and are left out.
* **Listing** — the promise of a paged list and nothing about cursors: pages
  show what matches at that moment, no store twice, and the last page leaves out
  no store that matched all the way.
* **Browse** — a walk is a client that follows `next_cursor`; its `cursor` is all
  the server learns of it. `ListStores` is one page, `Rest` the `WHERE` clause,
  `Page` the `LIMIT`, `CursorRows` where the next cursor comes from. A menu is
  `GetStoreMenu` (user and gate), `CheckStore`, `ReadMenu`. `seen`, `steady` and
  `past` are history. Ids are random UUIDs and never reused, so a new store may
  come anywhere in the order. `Promise` maps Browse to Listing.
* **Geocoding** — callers are goroutines that serve backfills or single lookups
  again and again. `todo` is what is left of a batch, with the addresses as they
  were read; `Throttle` and `WakeUp` are the two ends of the sleep in `throttle`;
  `TakeTurn` stamps `last` and gives the mutex back, `Send` is `client.Do`, and
  between them anybody may run. `recent` counts the turns given within one
  `minInterval`, and `Elapse` ends the interval. Coordinates are known by where they
  come from. `Title` is what the service answers, as a sequence of the markers for
  ward and city and of other words; `Centroids` are the addresses that it places in a
  ward or city at best, `Marked` those of them with a name that holds a marker itself
  (Ichikawa). `SaveForm` is
  an operator's or partner's form, `crossed` the stores changed while they were in
  somebody's batch.
* **AppUsers** — an account is known by its lower-case address, a request by its
  phase: `Verify`, `GetUserByAppleID`, `CreateAppleUser`, `CreateSession`. The e-mail
  of a sign-in may be anybody's, as a client that has none from Apple forwards what
  it likes. `Fails`
  is any statement that fails, or whose reply is lost, or an instance that dies.
  Refresh and profile only read and are not there.
* **AppleKeys** — the cache of one instance. `Key` is the look into the cache with
  the mutex held, `Refresh` and `RefreshFails` the two ends of the fetch, `Rotate`
  is Apple. A request remembers whether its key was published all along.
* **…Proofs** — one module of theorems for each of these, see below.

The `MC…` modules name the model values, the small web and files of the intake
runs, and the symmetry over request ids. Definitions marked *Mutant* are
plausible bugs of single statements; no specification uses them. `PROJECT.json`
pairs each with the property that notices it.

## The runs

| Run | Instance | Shows |
|---|---|---|
| `Accounts` | 2 operators, 4 requests, statements fail | `IInv` (with the type invariant), `LinkSpentOnce`, `StaleSessionsCrossed`, `RevokedOnSuccess`, `OnlyEntitledWrites`, refinement of `OneTimeLinks` |
| `AccountsStaleSession` | 1 operator, 4 requests | **violated**: `SessionsFollowPassword` |
| `SubscriptionsShared` | 2 users, 1 subscription, 3 requests, statements fail | `WebhookReachesOwner`, `ActiveWasSigned`, `InSync`, refinement of `PaidAccess` |
| `SubscriptionsReordered` | 1 user, 3 requests, one after the other | **violated**: `LatestStateWins` |
| `StoreReview` | 3 stores, 1 partner address, 1 dish, statements fail | `NoDangling`, `PartnersKeepStores`, `StampImpliesApproved`, `StampKept`, `MenuScoped` |
| `Intake` | 2 requests, 4 restaurants, 5 pages, 1 form, statements fail, fairness | `NoDuplicateDrafts`, `BatchesBringNew`, `BatchesEnd`, the counted budgets and who holds the lock (in `TypeOK`) |
| `IntakeMenuFetches` | 1 discovery, nothing fails | **violated**: `FetchesAreBounded` |
| `IntakeBrokenBody` | 1 import, nothing fails but its body | **violated**: `ImportsEnd` |
| `Browse` | 3 stores in 2 wards, pages of 2, 1 walk, 1 request for a store, fairness | `NothingTwice`, refinement of `Listing` (so nothing is missed), `WalksEnd`, `AnswersAreDue` |
| `Geocoding` | 3 stores, batches of 2, a backfill and a lookup, 1 change, fairness | `PinsAreVouched`, `PinsAreOwn`, `HandPinsStay`, `TurnsAreSpaced`, `RequestsEnd`, `QueueAdvances` |
| `AppUsers` | 2 persons, 3 addresses, 2 placeholders, 2 requests at a time, 2 faults, fairness | unique accounts (in `TypeOK`), `SessionsAreOwn`, `GetsIn` |
| `AppleKeys` | 2 keys, 2 verifications at a time, 2 rotations, 2 faults, fairness | `PublishedKeysPass`, `WithdrawnKeysFade`, `VerificationsEnd` |

**Bounds.** *Accounts.* Four requests are what a race over a link needs: one
creates the account, one mails the link, two redeem it. A second operator is
there so that evidence about one could be mistaken for evidence about another.
One over-long password covers the failing hash. The proofs remove these bounds.
*Subscriptions.* `MaxSigned = 2` is an older and a newer payload, `MaxTime = 2`
lets a first period end before the second does, and three requests let two
devices and a webhook cross. *StoreReview.* Two stores compete for an address
and a third stands by; two approvals are enough to tell a kept date from a new
one. One dish is enough for every mismatched pair of store and dish. *Intake.* Two requests are two batches, or a batch and its retry; one
restaurant shares its name with a second and its address with a third, one lies
in another ward. The server's limits (5 outcomes, 12 fetches, 6 links) become 2,
3 and 3, so that both run out in the middle of a listing; the one form gives the
second restaurant another name and address, the third another page and the first
both; `MaxErrors` only counts how often the loop has turned. *Browse.* Three stores
and pages of two give a full page with a row more, a full page without one, and
an empty last page; the third store can be put between, before or behind the
other two while the walk is open. *Geocoding.* Three stores are one more than a
batch; one address can be placed, one is no more than a ward of a city that is
named first, one is Ichikawa, whose centroid passes, one is blank.
`MaxChanges = 1` is one form, deletion, failure or restart at any moment.
*AppUsers.* One person's address is also registered, in other letters, with a
password. *AppleKeys.* A time to live of two ticks tells a fresh set from one
half its age; two rotations withdraw a key and bring it back. The proofs remove
these bounds, too, for everything but liveness.

**Deadlock** is not checked: a server to which no further request comes rests,
which is not a fault. That requests end is `BatchesEnd`, and follows for the
others from each phase having an action that is always enabled in it.

**Fairness.** In the request models it is weak fairness of `Continue(r)`: a
goroutine that has begun a request is scheduled until it answers, as the Go
runtime and `http.Server` do. No request is assumed to arrive, nothing is assumed
to fail or to succeed; runs with liveness have no symmetry, which would be unsound. In `Intake` an
instance may die (`Die`), and what must not happen is that others then wait for
the lock; `pg_advisory_xact_lock` is waited for with weak fairness, which is
enough as with two requests the lock is free continuously whenever its holder has
ended. In `Geocoding` and `AppleKeys` a mutex is taken with strong fairness: it is
free again and again, and `sync.Mutex` hands it to a waiter that has starved for
a millisecond. Fetches end because both HTTP clients have timeouts (15 and 10
seconds). Three assumptions are about clients and stated where they are made: a
walk goes on following `next_cursor` (`WalksEnd`), the operator repeats the
backfill (`QueueAdvances`), a person tries again (`GetsIn`).

## Where the code and its documentation disagree

Each is a run of one property that TLC violates; the property quotes the text.

* `AccountsStaleSession` — a login checks the old password, the password is
  replaced and the sessions purged, and the login then stores its session. It
  renews until it expires, although `internal_sessions.sql` says it cannot.
* `SubscriptionsReordered` — neither handler looks at `signedDate`: an older
  payload that comes late overwrites the newer one, although "the latest state
  always wins".
* `IntakeMenuFetches` — `CaptureOrLinks` fetches a restaurant's page and then the
  page of its menu, for which `internalDiscover` counts one fetch: a discovery may
  ask for up to twice `maxFetches` pages, although that "bounds the total page
  fetches so the request stays inside the work deadline". What holds is the budget
  of counted fetches, and twice as many pages (both in `TypeOK`); the deadline itself
  is kept by the context's 90 seconds.
* `IntakeBrokenBody` — the loop over the rows takes every error but `io.EOF` for
  a malformed row. A file over `maxImportBytes`, or a connection that breaks, is
  an error the reader gives at every call: the import never ends and its answer
  grows by an entry a turn, although the limit is there "so a bad request can't
  exhaust memory". `BatchesEnd` is what holds: every other batch ends.

Facts met while modelling that no run states:

* The up-front check of a partner's address, there "so we don't create an orphan
  store", does not keep two provisionings from passing it together; the one that
  fails leaves its store. A password over 72 bytes, or a failed INSERT of the
  account, has the same end. What holds is `PartnersKeepStores`.
* A store created straight as approved has no approval date, although
  `internal_stores.sql` says "approved_at is set iff the store is currently
  approved". The half that holds is `StampImpliesApproved`.
* The import's check and insert are two statements: a repeated import is
  idempotent only if the first has been answered, which is `BatchesBringNew`. Of
  two that run at once each may bring the same row.
* A linked page that cannot be captured gets no outcome, and a submitted URL that
  was met as such a link before is skipped in silence.
* A reset link is claimed before the password is hashed, so an over-long password
  burns it.
* `InSync` says nothing of subscriptions whose requests crossed: receipt and user
  may then come from different payloads, until the next request that meets no
  other.
* `preciseEnough` takes the first marker it finds: of a city whose name begins
  with the character for city (Ichikawa) the centroid passes as precise and is
  stored, which `geocode.go` calls imprecise. `PinsAreVouched` names that exception
  and says there is no other. It is about wards and cities: the centre of a quarter
  (東京都渋谷区神泉町) is precise to the code and to its test.
* `throttle` spaces turns and not calls. It gives its mutex back before `client.Do`,
  so a goroutine that is delayed in between may call together with the next one, and
  slow calls overlap, although `geocode.go` says "calls are serialised to
  respect the throttle".
  What holds is `TurnsAreSpaced`.
* The backfill writes by id alone. A form saved while the store is in a batch is
  overwritten with the pin of its former address.
* More than a batch of stores that cannot be placed, all older than one that can,
  keep it from ever being tried; `remaining` counts at most one.
* gin's context is never done, so neither the throttle nor a backfill notices
  that its client has gone.
* Of two first sign-ins of one person, the later is told "an account with this
  email already exists; sign in with email and password", though the account has
  no password. Trying again works, which is `GetsIn`. So is who signs in first with
  an address that somebody else's sign-in has forwarded, and there trying again with
  that address does not work; `GetsIn` excepts it.
* The list shows address, rating and photo to everybody, although the comment of
  `listStores` says the free tier sees name and ward only.

## What is proved

Every theorem holds for all values of the constants that meet the assumptions
the module names (`ASSUME`), so for any number of operators, stores, requests,
walks or keys and any length of run. Nothing else is assumed, except where the
table says so.

| Module | Theorem | Says |
|---|---|---|
| `OperatorAccountsProofs` | `TypeCorrect`, `Invariance` | `TypeOK` and `IInv` are invariants |
| | `LinksAreSpentOnce` | no two requests set a password through one link |
| | `ReplacementRevokes` | a delete that was executed leaves nothing of what the replaced password had opened, whatever becomes of the other |
| | `StaleSessionsHaveCrossed` | an old session is in the table only if its login was past the check when the hash in force was stored, or that hash's delete was not executed |
| | `WritesAreEntitled` | every write of a hash is by one of the four who may |
| | `LinksKeepTheirPromise` | `OperatorAccounts` implements `OneTimeLinks` |
| `SubscriptionsProofs` | `SubscriptionTypes` | receipts and users keep to their enums |
| | `WebhooksReachOwners` | a webhook writes the row of the receipt's owner |
| | `AccessIsReceipted`, `AccessWasSigned` | a status has a receipt behind it, and active access a payload Apple signed |
| | `AccessKeepsItsPromise` | `Subscriptions` implements `PaidAccess` |
| | `TablesConverge` | after a request that met no other, receipt and user agree |
| `StoreReviewProofs` | `StoreTypes`, `NothingDangles` | no account or dish of a store that is gone |
| | `PartnersStayWhole` | whoever was told of a new partner finds account and store, or neither |
| | `StampsMeanApproved`, `StampsAreKept` | approval dates are of live stores, and edits keep them |
| | `MenusStayScoped` | nothing asked for one store touches, removes or takes over another's dish |
| `CatalogueIntakeProofs` | `BudgetsHold` | no batch counts more fetches or reports more than it may, or asks for more than two pages a fetch; the lock is held only within a transaction |
| | `DraftsAreUnique` | no two drafts of discovery are duplicates in what no form changed |
| | `BatchesOnlyBringNew` | no batch doubles its own rows, lost replies included, or those of a batch answered before it began |
| | `BatchesComeNearer` | each step of a batch is a step towards its end |
| `BrowseProofs` | `BrowseTypes`, `WalksMissNothing`, `WalksRepeatNothing` | a walk shows what matched all the way, and nothing twice |
| | `WalksMoveOn` | each page is the last or moves the cursor on |
| | `AnswersHaveReasons` | detail, menu, paywall and not-found each had their reason during the request |
| | `ListKeepsItsPromise` | `Browse` implements `Listing` |
| `GeocodingProofs` | `GeocodingTypes`, `TurnsStaySpaced` | the throttle gives at most one turn in an interval |
| | `PinsStayOwn` | the backfill's pins are of the store's own address, but for changes meanwhile |
| | `PinsStayVouched` | none is the centroid of a ward or city, but of places whose name holds a marker; for any titles that meet `TitleAssumption`: the markers of other wards and cities stand where Japanese addresses put them |
| | `HandPinsAlwaysStay` | coordinates a person saved outlive the backfill, unless saved while in a batch |
| | `BatchesAlwaysReach` | a batch has, of the stores that can be placed, one at least as old as any reachable one |
| | `JobsAreAlwaysDone` | nothing that can be placed is dropped from a batch while nothing fails |
| `AppUsersProofs` | `AccountsAreUnique` | one account for an address, and for an Apple id |
| | `SessionsBelong` | a session is of an account whose owner proved to be that |
| `AppleKeysProofs` | `KeyTypes` | who fetches, and nobody else, has the mutex |
| | `PublishedKeysAlwaysPass` | a key published all through a verification is refused only if Apple could not be reached |
| | `WithdrawnKeysAlwaysFade` | a key withdrawn a time to live ago passes only when the fetch failed |

**The arguments.** In each module the properties are not inductive as stated:
they speak of what requests have done, and an adversary of one step is a request
that is about to do it. The inductive invariant says what a request in the middle
of its handler knows, and why that is still so.

* *Operator accounts.* Nothing in `LinkSpentOnce` says that the second redeemer,
  still between its claim and its UPDATE, is not there. `IInv` adds that. Its
  parts: *NoTraceYet* (ids are fresh), *RowsAreSettled* and *OldIsSettled* (a
  session or open link belongs to a request that will make no other, so a purged
  row does not come back), *HashesAreWritten* and *WritersAreBacked* (the
  evidence a request holds is genuine and about its own account), *ClaimedIsClosed*
  and *OneClaim* (whoever has passed the claim of a link is alone and the link
  closed; the statement's "used_at IS NULL" is exactly what re-establishes it),
  *PurgedSoFar* (what the purges have removed so far, each recorded when it was
  executed and not when its reply came), *SignersAreKnown* (whoever is past the
  check of a hash that is no longer in force was there when its successor was
  stored, which makes `StaleSessionsCrossed` inductive). Most actions write one
  field of one request and one table, so the proof has a lemma for each kind of
  step and a step for each action under them.
* *Subscriptions.* *AppleInv* says what Apple signs is consistent with itself;
  *RequestInv* that a request carries a pair derived from such a payload;
  *OwnerInv* that a receipt's owner presented it and never changes; *UserInv* that
  a user's status goes back to a receipt. *AloneInv* is what `InSync` needs: a
  request whose subscription is not in `crossed` is the only one under way there,
  and between its two statements the receipt is as it wrote it. The refinement
  of `PaidAccess` rests on *BackedInv*: what a request carries to the two tables
  was backed when it was derived, and backing only grows (`BackedGrows`), although
  by the time of the write Apple may have said something else. Signing and the
  clock map to `Learn`, a handler's arrival to `Present`, its two statements to
  `Enter` and `Grant`; a statement that fails stutters.
* *Store review.* *NotYet*: a request has no store, and nothing refers to it,
  before its own INSERT. Given that, the three invariants are inductive together,
  and the two action properties follow from them.
* *Catalogue intake.* *Shapes* gives every request the locals its phase implies,
  an outcome to spare among them; *Attributed* says rows are of requests that
  began; *Locked* that between lookup and commit the holder of the lock knows no
  draft matches its own; *Counted* that between its count and its INSERT neither
  an import nor a batch it knows has stored the row. The last two are the check
  and the use of the two check-then-insert sequences; only the first has a lock,
  so only the first says something of requests that are under way. *Answered* is
  why both can speak of earlier batches: whom a request knows was answered before
  it began, and an answered batch stores nothing more. Both speak of what rows
  have `kept`, which a form only takes from.
* *Browse.* *WalkSound*: every id that matched all the way and lies up to the
  cursor has been shown, and all that was shown lies up to it. *AskSound*: what a
  request for a store or menu has read did hold in it. The key lemma is that a
  page is a prefix of what is left, whose end is the next cursor (`PageIsPrefix`,
  by counting what lies below).
* *Geocoding.* *Rested*: one turn an interval, and none before a caller that has
  slept enough. *JobsAreCurrent*: a batch knows its stores as they are, but for
  those changed since it was read. *SavesAreVouched*, *PinsArePlaceable* and
  *PinsAreOwn* carry that over the look-up to the stored pin, and
  `CentroidsAreImprecise` says what the titles of `TitleAssumption` leave of it. `BatchReaches` is a pigeonhole: a batch that
  misses a reachable store holds only stores ahead of it, of which there are fewer
  than the limit; so it was not cut, holds all that is missing, and did not miss it.
* *App users.* *OpensAreOwn*: whoever is about to store a session has proved to
  own the account. The unique indexes keep that so under a second sign-in.
* *Apple keys.* *SteadyIsPublished* ties what a request remembers to what Apple
  publishes; *CacheIsOlder*: what is cached was published no longer ago than it
  was fetched, so its age bounds how long a withdrawn key can pass.

Action properties and refinements follow from the invariants by cases on the
action.

**Only model-checked** are the liveness properties (`BatchesEnd`, `WalksEnd`,
`RequestsEnd`, `QueueAdvances`, `GetsIn`, `VerificationsEnd`): liveness under
fairness is beyond the prover. For three of
them it proves the half that is not about fairness, the progress each step makes:
`StepsComeNearer` (fetches are bounded, and between two fetches what is left to
try shrinks, or the same row or page is nearer to its last statement) for
`BatchesEnd`; `WalksComeNearer` for `WalksEnd`; `BatchesReach` and `JobsAreDone`
for `QueueAdvances`. That the steps are then taken is the scheduling, which the
runs assume and check with.

**Proved without a run of their own** are these progress measures, two
invariants next to properties of the runs, `NothingMissed`, which the
refinement of `Listing` includes, and `AccessHasReceipt`, which that of `PaidAccess`
does; and the inductive invariants of the modules of proofs. Each was model-checked on the
instances above before it was proved.

## Not modelled

* Certificate chains, ES256 and bcrypt, which are cryptography: a payload or
  identity token passes if and only if its issuer signed it, a password matches
  the hashes made from it.
* Fetching and extracting pages: a page is a restaurant, with or without a menu
  page, a listing or dead, and any fetch may fail.
* Uploads, mail, configuration and start-up: input and output without state that
  steps interleave on.
* Generated queries, beyond the statements handlers run, and the endpoints that
  only read: lists for operators, profile and refresh of app users.
* Moments of calls: how long a call of the geocoding service takes, and how long a
  goroutine is delayed between its turn and its call, is unbounded.
* That a password change which goes on reaches its purges: it is the next statement
  of a handler. What one that stops leaves behind is in `StaleSessionsCrossed`.
* The 90 seconds of a crawl, as time: when they are over its fetches and
  statements fail, which they may in the model at any moment.

## Plan

Done: all of the components above, each with its run, and the proofs of their
safety. What is left:

1. `PaidAccess` promises nothing about order. Stronger would be the latest signed
   state seen late, with exactly what reordering takes away from it.
2. One module over one table of stores that composes intake, review, geocoding
   and browsing, in place of the environment actions of the last two.
