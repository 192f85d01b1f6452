------------------------------ MODULE Geocoding ------------------------------
(***************************************************************************)
(* How stores get onto the map: the backfill, which looks up the addresses *)
(* of stores that have no coordinates, and the lookup of one address for   *)
(* the operator's form, both through the geocoder and its throttle.        *)
(* Models api/import.go (from internalGeocodeStores on) and                *)
(* geocode/geocode.go over the table stores, while operators and partners  *)
(* save forms that overwrite address and coordinates.                      *)
(*                                                                         *)
(* A store is a number, the order of created_at.  Coordinates are known by *)
(* where they come from: the address they were looked up from, or the hand *)
(* that saved a form.  gin's context is never done, so a caller that hangs *)
(* up stops nothing: a backfill goes on to the end of its batch unless its *)
(* instance dies.  The throttle is that of one instance.                   *)
(***************************************************************************)
EXTENDS Naturals, Sequences, FiniteSets

CONSTANTS
  Stores,      \* a set of numbers
  Addresses,
  Title,       \* what the service answers to each address: <<>> for no match,
               \* else a sequence of "ku" (the character for ward), "shi" (city)
               \* and "name" (anything else: a name, a chome, a banchi)
  Centroids,   \* addresses the service can place in a prefecture, a city or a
               \* ward and no closer
  Marked,      \* those of them with a place whose own name has a "ku" or a "shi"
  Blank,       \* addresses of which Normalize leaves nothing
  Asked,       \* addresses operators look up (the answer changes nothing here)
  Backfills,   \* goroutines that serve POST /stores/geocode, time and again
  Lookups,     \* goroutines that serve POST /geocode, time and again
  Limit,       \* stores per backfill
  MaxChanges,  \* forms saved, stores deleted, failures and restarts in a run
  None

ASSUME StoresAssumption == Stores \subseteq Nat /\ IsFiniteSet(Stores)
ASSUME LimitAssumption == Limit \in Nat \ {0} /\ MaxChanges \in Nat
ASSUME AddressAssumption ==
  /\ Blank \cup Asked \subseteq Addresses
  /\ Marked \subseteq Centroids /\ Centroids \subseteq Addresses
\* Else a ward's title ends with its "ku", and has no "shi" but its city's; a
\* city's title ends with its "shi"
ASSUME TitleAssumption ==
  /\ Title \in [Addresses -> Seq({"ku", "shi", "name"})]
  /\ \A a \in Centroids \ Marked : LET title == Title[a] IN \A i \in DOMAIN title :
       /\ title[i] = "ku" => i = Len(title)
       /\ title[i] = "shi" => i = Len(title) \/ title[Len(title)] = "ku"
ASSUME NamesAssumption ==
  /\ Backfills \cap Lookups = {} /\ {"unset", "hand"} \cap Addresses = {}
  /\ None \notin Stores /\ None \notin Backfills /\ None \notin Lookups
  /\ None \notin [address : Addresses, pin : Addresses \cup {"unset", "hand"}]

VARIABLES
  store,    \* None or the row
  caller,   \* the goroutines: what each does, and what is left of its batch
  mutex,    \* GSI.mu: None or the caller asleep with it
  recent,   \* GSI.last: turns given by throttle less than minInterval ago
  crossed,  \* history: stores changed while they were in somebody's batch
  changes

vars == <<store, caller, mutex, recent, crossed, changes>>

Callers == Backfills \cup Lookups
Row == [address : Addresses, pin : Addresses \cup {"unset", "hand"}]
Job == [store : Stores \cup {None}, address : Addresses]
Caller == [phase : {"idle", "lock", "sleep", "due", "send", "ask", "save"}, todo : Seq(Job)]
Idle == [phase |-> "idle", todo |-> <<>>]

(* Every variable keeps its kind of value; a batch is never longer than    *)
(* the limit, and nobody but a sleeper has the mutex.                      *)
TypeOK ==
  /\ store \in [Stores -> Row \cup {None}]
  /\ caller \in [Callers -> Caller]
  /\ \A c \in Callers :
       /\ Len(caller[c].todo) <= Limit
       /\ caller[c].phase = "idle" <=> caller[c].todo = <<>>
       /\ caller[c].phase \in {"sleep", "due"} <=> mutex = c
  /\ mutex \in Callers \cup {None}
  /\ recent \in Nat
  /\ crossed \subseteq Stores /\ changes \in 0..MaxChanges

\* Stores that were imported with whatever address, and are at 0,0
Init ==
  /\ store \in [Stores -> {row \in Row : row.pin = "unset"}]
  /\ caller = [c \in Callers |-> Idle]
  /\ mutex = None
  /\ recent = 0 /\ crossed = {} /\ changes = 0

-----------------------------------------------------------------------------
(* What the service's title tells.                                         *)

\* Mutant: a city is looked for before a ward
PreciseByCity(title) ==
  LET has(marker) == \E i \in DOMAIN title : title[i] = marker
  IN \E i \in DOMAIN title :
       /\ title[i] = IF has("shi") THEN "shi" ELSE "ku"
       /\ \A j \in 1..(i - 1) : title[j] # title[i]
       /\ i < Len(title)

\* preciseEnough: something follows the first ward marker, or without one the
\* first city marker
PreciseEnough(title) ==
  LET has(marker) == \E i \in DOMAIN title : title[i] = marker
  IN \E i \in DOMAIN title :
       /\ title[i] = IF has("ku") THEN "ku" ELSE "shi"
       /\ \A j \in 1..(i - 1) : title[j] # title[i]
       /\ i < Len(title)

\* Whether the backfill stores what it gets for the address
Placeable(a) == a \notin Blank /\ PreciseEnough(Title[a])

-----------------------------------------------------------------------------
(* The callers.  One address after the other: throttle, call, save.  Only  *)
(* throttle has the mutex: whoever it has let go may be delayed before the *)
(* call, and others get their turns meanwhile.                             *)

\* Mutant: the WHERE clause of the queue forgets the coordinates
AllWithAddress == {s \in Stores : store[s] # None}

\* ListStoresMissingCoords (which leaves out rows without any address, too)
Missing == {s \in Stores : store[s] # None /\ store[s].pin = "unset"}

\* Mutant: ORDER BY created_at DESC
BatchOfNewest(b) ==
  /\ \A i \in DOMAIN b : b[i] \in Missing
  /\ \A i, j \in DOMAIN b : i < j => b[i] > b[j]
  /\ \A i \in DOMAIN b : \A s \in Missing : s > b[i] => \E j \in DOMAIN b : b[j] = s
  /\ Len(b) = IF Cardinality(Missing) < Limit THEN Cardinality(Missing) ELSE Limit

\* ORDER BY created_at LIMIT: the oldest first
Batch(b) ==
  /\ \A i \in DOMAIN b : b[i] \in Missing
  /\ \A i, j \in DOMAIN b : i < j => b[i] < b[j]
  /\ \A i \in DOMAIN b : \A s \in Missing : s < b[i] => \E j \in DOMAIN b : b[j] = s
  /\ Len(b) = IF Cardinality(Missing) < Limit THEN Cardinality(Missing) ELSE Limit

InternalGeocodeStores(c) ==
  /\ caller[c].phase = "idle" /\ Missing # {}
  /\ \E n \in 1..Limit : \E b \in [1..n -> Missing] :
       /\ Batch(b)
       /\ caller' = [caller EXCEPT ![c] = [phase |-> "lock", todo |->
                       [i \in 1..n |-> [store |-> b[i], address |-> store[b[i]].address]]]]
  /\ UNCHANGED <<store, mutex, recent, crossed, changes>>

InternalGeocodeAddress(c) ==
  /\ caller[c].phase = "idle"
  /\ \E a \in Asked : caller' = [caller EXCEPT ![c] =
       [phase |-> "lock", todo |-> <<[store |-> None, address |-> a]>>]]
  /\ UNCHANGED <<store, mutex, recent, crossed, changes>>

This(c) == Head(caller[c].todo)
Goto(c, phase) == caller' = [caller EXCEPT ![c].phase = phase]

\* On to the next of the batch, or to the answer
Proceed(c) == caller' = [caller EXCEPT ![c] =
  IF Len(@.todo) = 1 THEN Idle ELSE [phase |-> "lock", todo |-> Tail(@.todo)]]

\* Normalize leaves nothing: ErrNotFound without a call
SkipBlank(c) ==
  /\ caller[c].phase = "lock" /\ This(c).address \in Blank
  /\ Proceed(c)
  /\ UNCHANGED <<store, mutex, recent, crossed, changes>>

\* last = now: the turn is c's
TakeTurn(c) ==
  /\ Goto(c, "send")
  /\ recent' = recent + 1

\* Mutant: the mutex is not held while asleep
ThrottleUnlocked(c) ==
  /\ caller[c].phase = "lock" /\ This(c).address \notin Blank
  /\ IF recent = 0 THEN TakeTurn(c) ELSE Goto(c, "sleep") /\ UNCHANGED recent
  /\ UNCHANGED <<store, mutex, crossed, changes>>

\* throttle, up to the select: who need not wait takes the mutex and gives it back
Throttle(c) ==
  /\ caller[c].phase = "lock" /\ This(c).address \notin Blank
  /\ mutex = None
  /\ IF recent = 0 THEN TakeTurn(c) /\ UNCHANGED mutex
     ELSE Goto(c, "sleep") /\ mutex' = c /\ UNCHANGED recent
  /\ UNCHANGED <<store, crossed, changes>>

\* Mutant: the sleeper forgets to unlock
KeepLock(c) ==
  /\ caller[c].phase = "due"
  /\ TakeTurn(c)
  /\ UNCHANGED <<store, mutex, crossed, changes>>

\* throttle, after the timer has fired
WakeUp(c) ==
  /\ caller[c].phase = "due"
  /\ TakeTurn(c)
  /\ mutex' = None
  /\ UNCHANGED <<store, crossed, changes>>

\* minInterval has passed since the last turn
Elapse ==
  /\ recent > 0 /\ recent' = 0
  /\ caller' = [c \in Callers |->
       IF caller[c].phase = "sleep" THEN [caller[c] EXCEPT !.phase = "due"] ELSE caller[c]]
  /\ UNCHANGED <<store, mutex, crossed, changes>>

\* client.Do
Send(c) ==
  /\ caller[c].phase = "send"
  /\ Goto(c, "ask")
  /\ UNCHANGED <<store, mutex, recent, crossed, changes>>

\* The service answers: the backfill keeps a precise match and nothing else
Answer(c) ==
  /\ caller[c].phase = "ask"
  /\ IF This(c).store # None /\ Placeable(This(c).address) THEN Goto(c, "save") ELSE Proceed(c)
  /\ UNCHANGED <<store, mutex, recent, crossed, changes>>

\* The call fails, within the client's 15 seconds
CallFails(c) ==
  /\ caller[c].phase = "ask" /\ changes < MaxChanges
  /\ Proceed(c)
  /\ changes' = changes + 1
  /\ UNCHANGED <<store, mutex, recent, crossed>>

\* Mutant: the loop variable of the batch's last store
SaveToLast(c) ==
  /\ caller[c].phase = "save"
  /\ LET s == caller[c].todo[Len(caller[c].todo)].store IN
     store' = IF store[s] = None THEN store
              ELSE [store EXCEPT ![s].pin = This(c).address]
  /\ Proceed(c)
  /\ UNCHANGED <<mutex, recent, crossed, changes>>

\* UpdateStoreCoords WHERE id, whatever the row says by now; or it fails
UpdateStoreCoords(c) ==
  /\ caller[c].phase = "save"
  /\ LET s == This(c).store IN
     store' = IF store[s] = None THEN store
              ELSE [store EXCEPT ![s].pin = This(c).address]
  /\ Proceed(c)
  /\ UNCHANGED <<mutex, recent, crossed, changes>>

SaveFails(c) ==
  /\ caller[c].phase = "save" /\ changes < MaxChanges
  /\ Proceed(c)
  /\ changes' = changes + 1
  /\ UNCHANGED <<store, mutex, recent, crossed>>

-----------------------------------------------------------------------------
(* Around them.                                                            *)

InBatch(s) == \E c \in Callers : \E i \in DOMAIN caller[c].todo : caller[c].todo[i].store = s

Change(s, row) ==
  /\ store[s] # None /\ changes < MaxChanges
  /\ changes' = changes + 1
  /\ store' = [store EXCEPT ![s] = row]
  /\ crossed' = IF InBatch(s) THEN crossed \cup {s} ELSE crossed
  /\ UNCHANGED <<caller, mutex, recent>>

\* UpdateStoreFull or UpdateStoreProfile: an address, with a pin or without
SaveForm(s) == \E row \in Row : row.pin \in {"unset", "hand"} /\ Change(s, row)

DeleteStore(s) == Change(s, None)

\* The instance dies and another starts; GSI.last is zero there
Restart ==
  /\ changes < MaxChanges
  /\ changes' = changes + 1
  /\ caller' = [c \in Callers |-> Idle]
  /\ mutex' = None /\ recent' = 0
  /\ UNCHANGED <<store, crossed>>

Begin == (\E c \in Backfills : InternalGeocodeStores(c)) \/ \E c \in Lookups : InternalGeocodeAddress(c)
Proceeds(c) == SkipBlank(c) \/ Throttle(c) \/ WakeUp(c) \/ Send(c) \/ Answer(c) \/ CallFails(c)
               \/ UpdateStoreCoords(c) \/ SaveFails(c)
Next == Begin \/ Elapse \/ Restart \/ (\E c \in Callers : Proceeds(c))
        \/ \E s \in Stores : SaveForm(s) \/ DeleteStore(s)

Spec == Init /\ [][Next]_vars

\* Time passes and goroutines run; a mutex goes to whoever keeps waiting for it
\* (sync.Mutex hands it over to a waiter that has starved for a millisecond)
FairSpec == /\ Spec /\ WF_vars(Elapse)
            /\ \A c \in Callers : WF_vars(Proceeds(c)) /\ SF_vars(Throttle(c))

\* The operator runs the backfill again and again (and failures, being counted
\* in changes, come to an end)
RepeatedSpec == FairSpec /\ \A c \in Backfills : WF_vars(InternalGeocodeStores(c))

-----------------------------------------------------------------------------
(* Properties.                                                             *)

(* import.go: ward-centroid matches are rejected rather than stored, the   *)
(* centroid of a ward in a city that is named first included, whatever     *)
(* forms and restarts cross the batch.  Excepted are places whose own name *)
(* holds a marker: of a city like Ichikawa, whose name begins with the     *)
(* character for city, the centroid does pass for precise.                 *)
PinsAreVouched == \A s \in Stores :
  store[s] # None /\ store[s].pin \in Centroids => store[s].pin \in Marked

(* What the backfill stored was looked up from the store's own address,    *)
(* though address and coordinates are read and written seconds apart, for  *)
(* one store of the batch after the other; unless a form was saved in      *)
(* those very seconds.                                                     *)
PinsAreOwn == \A s \in Stores : store[s] # None /\ store[s].pin \in Addresses
  => store[s].pin = store[s].address \/ s \in crossed

(* Coordinates a person saved are not replaced by the backfill, with the   *)
(* same exception: it is after stores without coordinates only.            *)
HandPinsStay == [][\A s \in Stores :
  store[s] # None /\ store[s].pin = "hand" /\ store'[s] # None /\ store'[s].pin \in Addresses
    => s \in crossed]_vars

(* throttle "blocks until minInterval has elapsed": it never gives two     *)
(* turns within one interval, however many goroutines ask and however      *)
(* their sleeps end.  (The calls that follow the turns may come closer, or *)
(* overlap: nothing holds a goroutine's turn and its call together.)       *)
TurnsAreSpaced == recent <= 1

(* Every request is answered, the operator's lookup too, although the      *)
(* mutex is slept with and a backfill asks for it again and again.         *)
RequestsEnd == \A c \in Callers : (caller[c].phase # "idle") ~> (caller[c].phase = "idle")

(* The batch always takes the oldest stores first, and those that cannot   *)
(* be placed never leave the queue.  As long as fewer of them than a batch *)
(* holds are ahead of a store that can be placed, repeated backfills get   *)
(* to it.                                                                  *)
Ahead(s) == {t \in Missing : t < s /\ ~Placeable(store[t].address)}
Reachable(s) == s \in Missing /\ Placeable(store[s].address) /\ Cardinality(Ahead(s)) < Limit
QueueAdvances == \A s \in Stores : []<>~Reachable(s)

(* What the queue advances by.  A backfill that begins while a store is    *)
(* reachable has that store in its batch or an older one that can be       *)
(* placed, whatever else is missing and however the batch is cut.          *)
BatchesReach == [][\A c \in Backfills, s \in Stores :
  caller[c].phase = "idle" /\ caller'[c].phase # "idle" /\ Reachable(s)
    => \E i \in DOMAIN caller'[c].todo : LET job == caller'[c].todo[i] IN
         job.store \in Missing /\ job.store <= s /\ Placeable(job.address)]_vars

(* And of a batch, nothing that can be placed is dropped: unless something *)
(* fails, it is gone from the batch only when its store has the pin or is  *)
(* itself gone.                                                            *)
JobsAreDone == [][\A c \in Callers :
  caller[c].phase # "idle" /\ caller'[c].todo # caller[c].todo /\ changes' = changes =>
    LET job == This(c)
    IN job.store # None /\ Placeable(job.address)
         => store'[job.store] = None \/ store'[job.store].pin = job.address]_vars
=============================================================================
