------------------------------ MODULE AppleKeys ------------------------------
(***************************************************************************)
(* Apple's signing keys: the cache one instance keeps of them, with its    *)
(* time to live, its refetch on a miss and its stale answers when Apple    *)
(* cannot be reached, under concurrent verifications of identity tokens.   *)
(* Models applesignin/keysource.go and Verify of applesignin/verifier.go.  *)
(*                                                                         *)
(* Signatures are beyond this module: a token is known by the key it was   *)
(* signed with, one that Apple published at the time.  Time passes in      *)
(* ticks, none of them between Apple's answer and its arrival; the mutex   *)
(* is held from the look into the cache to the end of the fetch, so that   *)
(* two requests never fetch at once.                                       *)
(***************************************************************************)
EXTENDS Naturals, FiniteSets

CONSTANTS
  Verifiers,     \* goroutines in Verify, time and again
  Keys,          \* key ids
  TTL,           \* ticks a fetched set counts as fresh: an hour
  MaxRotations,  \* changes of the published set in a run
  MaxFaults,     \* fetches that fail and restarts in a run
  None

ASSUME BoundsAssumption == TTL \in Nat \ {0} /\ MaxRotations \in Nat /\ MaxFaults \in Nat
ASSUME NamesAssumption == None \notin Verifiers

VARIABLES
  published,   \* what Apple serves
  gone,        \* history: ticks, up to TTL, since a key was last published
  cached,      \* keys of the source
  age,         \* ticks, up to TTL, since fetched
  mutex,       \* mu: None or the request that is fetching
  request,     \* what each goroutine verifies
  rotations, faults

vars == <<published, gone, cached, age, mutex, request, rotations, faults>>

Idle == [phase |-> "idle"]
\* History in a request: whether its key was published all along, and whether
\* a fetch has failed in it
Request == [phase : {"lock", "fetch", "accepted", "refused"}, key : Keys,
            steady : BOOLEAN, failed : BOOLEAN]

(* Every variable keeps its type; whoever is fetching, and nobody else,    *)
(* has the mutex.                                                          *)
TypeOK ==
  /\ published \subseteq Keys /\ cached \subseteq Keys
  /\ gone \in [Keys -> 0..TTL] /\ age \in 0..TTL
  /\ request \in [Verifiers -> {Idle} \cup Request]
  /\ mutex \in Verifiers \cup {None}
  /\ \A v \in Verifiers : request[v].phase = "fetch" <=> mutex = v
  /\ rotations \in 0..MaxRotations /\ faults \in 0..MaxFaults

\* A new source: no keys, and fetched at the zero time
Init ==
  /\ published \in (SUBSET Keys) \ {{}}
  /\ gone = [k \in Keys |-> IF k \in published THEN 0 ELSE TTL]
  /\ cached = {} /\ age = TTL
  /\ mutex = None
  /\ request = [v \in Verifiers |-> Idle]
  /\ rotations = 0 /\ faults = 0

-----------------------------------------------------------------------------
(* Verify, and Key within it.                                              *)

\* A token that Apple signed with the key while it was published, lately or not
Verify(v) ==
  /\ request[v].phase = "idle"
  /\ \E k \in Keys : request' = [request EXCEPT ![v] =
       [phase |-> "lock", key |-> k, steady |-> k \in published, failed |-> FALSE]]
  /\ UNCHANGED <<published, gone, cached, age, mutex, rotations, faults>>

Settle(v, ok) == request' = [request EXCEPT ![v].phase = IF ok THEN "accepted" ELSE "refused"]

\* Mutant: what a fresh cache does not have does not exist
KeyOfFresh(v) ==
  /\ request[v].phase = "lock" /\ mutex = None
  /\ IF age < TTL
     THEN Settle(v, request[v].key \in cached) /\ UNCHANGED mutex
     ELSE request' = [request EXCEPT ![v].phase = "fetch"] /\ mutex' = v
  /\ UNCHANGED <<published, gone, cached, age, rotations, faults>>

\* Key, up to the fetch: a fresh hit is answered, anything else fetches
Key(v) ==
  /\ request[v].phase = "lock" /\ mutex = None
  /\ IF request[v].key \in cached /\ age < TTL
     THEN Settle(v, TRUE) /\ UNCHANGED mutex
     ELSE request' = [request EXCEPT ![v].phase = "fetch"] /\ mutex' = v
  /\ UNCHANGED <<published, gone, cached, age, rotations, faults>>

\* Mutant: fetch again until the key turns up
RefreshUntilFound(v) ==
  /\ request[v].phase = "fetch"
  /\ cached' = published /\ age' = 0
  /\ IF request[v].key \in published
     THEN Settle(v, TRUE) /\ mutex' = None
     ELSE UNCHANGED <<request, mutex>>
  /\ UNCHANGED <<published, gone, rotations, faults>>

\* refresh has Apple's answer; a key that is not in it does not exist
Refresh(v) ==
  /\ request[v].phase = "fetch"
  /\ cached' = published /\ age' = 0
  /\ Settle(v, request[v].key \in published)
  /\ mutex' = None
  /\ UNCHANGED <<published, gone, rotations, faults>>

\* Mutant: the time of the fetch is taken though it failed
RefreshStamps(v) ==
  /\ request[v].phase = "fetch" /\ faults < MaxFaults
  /\ faults' = faults + 1
  /\ request' = [request EXCEPT ![v] = [@ EXCEPT
       !.phase = IF request[v].key \in cached THEN "accepted" ELSE "refused", !.failed = TRUE]]
  /\ mutex' = None /\ age' = 0
  /\ UNCHANGED <<published, gone, cached, rotations>>

\* Mutant: the deferred unlock is missed on the error path
RefreshKeepsLock(v) ==
  /\ request[v].phase = "fetch" /\ faults < MaxFaults
  /\ faults' = faults + 1
  /\ request' = [request EXCEPT ![v] = [@ EXCEPT
       !.phase = IF request[v].key \in cached THEN "accepted" ELSE "refused", !.failed = TRUE]]
  /\ UNCHANGED <<published, gone, cached, age, mutex, rotations>>

\* refresh fails (no answer in 10 seconds, not 200, not JSON, no usable key):
\* a stale key is better than none
RefreshFails(v) ==
  /\ request[v].phase = "fetch" /\ faults < MaxFaults
  /\ faults' = faults + 1
  /\ request' = [request EXCEPT ![v] = [@ EXCEPT
       !.phase = IF request[v].key \in cached THEN "accepted" ELSE "refused", !.failed = TRUE]]
  /\ mutex' = None
  /\ UNCHANGED <<published, gone, cached, age, rotations>>

Return(v) ==
  /\ request[v].phase \in {"accepted", "refused"}
  /\ request' = [request EXCEPT ![v] = Idle]
  /\ UNCHANGED <<published, gone, cached, age, mutex, rotations, faults>>

-----------------------------------------------------------------------------
(* Apple, time, and the instance.                                          *)

\* Apple publishes another set, and never none; a key may come back
Rotate ==
  /\ rotations < MaxRotations
  /\ rotations' = rotations + 1
  /\ published' \in (SUBSET Keys) \ {{}, published}
  /\ gone' = [k \in Keys |-> IF k \in published \cup published' THEN 0 ELSE gone[k]]
  /\ request' = [v \in Verifiers |-> IF request[v].phase \in {"lock", "fetch"}
                   THEN [request[v] EXCEPT !.steady = @ /\ request[v].key \in published']
                   ELSE request[v]]
  /\ UNCHANGED <<cached, age, mutex, faults>>

Tick ==
  /\ age' = IF age < TTL THEN age + 1 ELSE TTL
  /\ gone' = [k \in Keys |-> IF k \in published THEN 0
                             ELSE IF gone[k] < TTL THEN gone[k] + 1 ELSE TTL]
  /\ <<age, gone>>' # <<age, gone>>
  /\ UNCHANGED <<published, cached, mutex, request, rotations, faults>>

\* The instance dies; another starts with an empty cache
Restart ==
  /\ faults < MaxFaults
  /\ faults' = faults + 1
  /\ cached' = {} /\ age' = TTL
  /\ mutex' = None
  /\ request' = [v \in Verifiers |-> Idle]
  /\ UNCHANGED <<published, gone, rotations>>

Proceed(v) == Key(v) \/ Refresh(v) \/ RefreshFails(v) \/ Return(v)
Next == (\E v \in Verifiers : Verify(v) \/ Proceed(v)) \/ Rotate \/ Tick \/ Restart

Spec == Init /\ [][Next]_vars

\* Goroutines run, fetches end, and a mutex goes to whoever keeps waiting for it
FairSpec == Spec /\ \A v \in Verifiers : WF_vars(Proceed(v)) /\ SF_vars(Key(v))

-----------------------------------------------------------------------------
(* Properties.                                                             *)

(* keysource.go, "refreshes on a TTL and on cache misses": a token signed  *)
(* with a key that Apple publishes all through the verification is refused *)
(* only if Apple could not be reached in it, however the keys were rotated *)
(* since the cache was filled and whoever else filled it meanwhile.        *)
PublishedKeysPass == \A v \in Verifiers :
  request[v].phase = "refused" /\ request[v].steady => request[v].failed

(* A withdrawn key does not outlive the cache: one that was withdrawn a    *)
(* time to live ago is accepted only by a request that tried to fetch the  *)
(* keys itself and could not, so that it ends with the outage.             *)
WithdrawnKeysFade == [][\A v \in Verifiers :
  request[v].phase # "accepted" /\ request'[v].phase = "accepted" /\ gone[request[v].key] = TTL
    => request'[v].failed]_vars

(* Everybody gets an answer, though all wait for one mutex that is held    *)
(* while Apple is asked, a fetch may fail, and others keep coming.         *)
VerificationsEnd == \A v \in Verifiers :
  request[v].phase = "lock" ~> request[v].phase \in {"accepted", "refused", "idle"}
=============================================================================
