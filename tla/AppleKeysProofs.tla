--------------------------- MODULE AppleKeysProofs ---------------------------
(***************************************************************************)
(* Proofs about AppleKeys, for any number of verifications, keys and       *)
(* rotations and any time to live.                                         *)
(***************************************************************************)
EXTENDS AppleKeys, TLAPS

(* A request whose key was published all along has a key that is published *)
(* now; and what was fetched was published no longer ago than the fetch.   *)
SteadyIsPublished == \A v \in Verifiers :
  request[v].phase \in {"lock", "fetch"} /\ request[v].steady => request[v].key \in published
CacheIsOlder ==
  /\ \A k \in published : gone[k] = 0
  /\ \A k \in cached : gone[k] <= age
IInv == TypeOK /\ SteadyIsPublished /\ CacheIsOlder /\ PublishedKeysPass

USE DEF Idle, Request

(* The invariant holds of a new source.                                    *)
LEMMA InitIInv == Init => IInv
<1> SUFFICES ASSUME Init PROVE IInv
  OBVIOUS
<1> USE BoundsAssumption, NamesAssumption DEF Init
<1>1. gone \in [Keys -> 0..TTL] /\ age \in 0..TTL
  OBVIOUS
<1>2. TypeOK
  BY <1>1 DEF TypeOK
<1>3. SteadyIsPublished /\ PublishedKeysPass
  BY DEF SteadyIsPublished, PublishedKeysPass
<1>4. CacheIsOlder
  BY DEF CacheIsOlder
<1> QED
  BY <1>2, <1>3, <1>4 DEF IInv

(* Every step keeps it.                                                    *)
LEMMA StepIInv == IInv /\ [Next]_vars => IInv'
<1> SUFFICES ASSUME IInv, [Next]_vars PROVE IInv'
  OBVIOUS
<1> USE BoundsAssumption, NamesAssumption DEF IInv, TypeOK
<1>1. ASSUME NEW v \in Verifiers, Verify(v) PROVE IInv'
  <2> PICK k \in Keys : request' = [request EXCEPT ![v] =
        [phase |-> "lock", key |-> k, steady |-> k \in published, failed |-> FALSE]]
    BY <1>1 DEF Verify
  <2> USE <1>1 DEF Verify
  <2>1. TypeOK'
    OBVIOUS
  <2>2. SteadyIsPublished'
    BY DEF SteadyIsPublished
  <2>3. CacheIsOlder' /\ PublishedKeysPass'
    BY DEF CacheIsOlder, PublishedKeysPass
  <2> QED
    BY <2>1, <2>2, <2>3
<1>2. ASSUME NEW v \in Verifiers, Key(v) PROVE IInv'
  <2> USE <1>2 DEF Key, Settle
  <2>1. TypeOK'
    OBVIOUS
  <2>2. SteadyIsPublished'
    BY DEF SteadyIsPublished
  <2>3. CacheIsOlder' /\ PublishedKeysPass'
    BY DEF CacheIsOlder, PublishedKeysPass
  <2> QED
    BY <2>1, <2>2, <2>3
<1>3. ASSUME NEW v \in Verifiers, Refresh(v) PROVE IInv'
  <2> USE <1>3 DEF Refresh, Settle
  <2>1. TypeOK'
    OBVIOUS
  <2>2. SteadyIsPublished' /\ CacheIsOlder'
    BY DEF SteadyIsPublished, CacheIsOlder
  <2>3. PublishedKeysPass'
    BY DEF SteadyIsPublished, PublishedKeysPass
  <2> QED
    BY <2>1, <2>2, <2>3
<1>4. ASSUME NEW v \in Verifiers, RefreshFails(v) PROVE IInv'
  <2> USE <1>4 DEF RefreshFails
  <2>1. TypeOK'
    <3>0. request[v] \in Request
      OBVIOUS
    <3> DEFINE answer == IF request[v].key \in cached THEN "accepted" ELSE "refused"
    <3>1. request'[v] = [request[v] EXCEPT !.phase = answer, !.failed = TRUE]
      OBVIOUS
    <3>4. request'[v] \in Request
      <4> HIDE <1>4 DEF answer
      <4>1. answer \in {"accepted", "refused"}
        BY DEF answer
      <4> QED
        BY <3>0, <3>1, <4>1
    <3>2. request' \in [Verifiers -> {Idle} \cup Request]
      BY <3>4
    <3>3. request'[v].phase # "fetch" /\ \A w \in Verifiers \ {v} : request'[w] = request[w]
      OBVIOUS
    <3> QED
      BY <3>2, <3>3
  <2>2. SteadyIsPublished' /\ CacheIsOlder'
    BY DEF SteadyIsPublished, CacheIsOlder
  <2>3. PublishedKeysPass'
    BY DEF PublishedKeysPass
  <2> QED
    BY <2>1, <2>2, <2>3
<1>5. ASSUME NEW v \in Verifiers, Return(v) PROVE IInv'
  BY <1>5 DEF Return, SteadyIsPublished, CacheIsOlder, PublishedKeysPass
<1>6. ASSUME Rotate PROVE IInv'
  <2> USE <1>6 DEF Rotate
  <2>0. gone' \in [Keys -> 0..TTL]
    OBVIOUS
  <2>1. TypeOK'
    <3>1. ASSUME NEW v \in Verifiers
          PROVE  request'[v] \in {Idle} \cup Request /\ request'[v].phase = request[v].phase
      <4>1. CASE request[v] \in Request
        BY <4>1
      <4>2. CASE request[v] = Idle
        BY <4>2
      <4> QED
        BY <4>1, <4>2
    <3>2. request' \in [Verifiers -> {Idle} \cup Request]
      BY <3>1
    <3> QED
      BY <2>0, <3>1, <3>2
  <2>2. SteadyIsPublished'
    <3> SUFFICES ASSUME NEW v \in Verifiers, request'[v].phase \in {"lock", "fetch"}, request'[v].steady
                 PROVE  request'[v].key \in published'
      BY DEF SteadyIsPublished
    <3>1. request[v] \in Request /\ request[v].phase \in {"lock", "fetch"}
      OBVIOUS
    <3> QED
      BY <3>1
  <2>4. CacheIsOlder'
    BY <2>0 DEF CacheIsOlder
  <2>3. PublishedKeysPass'
    BY DEF PublishedKeysPass
  <2> QED
    BY <2>1, <2>2, <2>3, <2>4
<1>7. ASSUME Tick PROVE IInv'
  <2> USE <1>7 DEF Tick
  <2>1. TypeOK'
    OBVIOUS
  <2>2. CacheIsOlder'
    BY DEF CacheIsOlder
  <2>3. SteadyIsPublished' /\ PublishedKeysPass'
    BY DEF SteadyIsPublished, PublishedKeysPass
  <2> QED
    BY <2>1, <2>2, <2>3
<1>8. ASSUME Restart PROVE IInv'
  BY <1>8 DEF Restart, SteadyIsPublished, CacheIsOlder, PublishedKeysPass
<1>9. ASSUME UNCHANGED vars PROVE IInv'
  BY <1>9 DEF vars, SteadyIsPublished, CacheIsOlder, PublishedKeysPass
<1> QED
  BY <1>1, <1>2, <1>3, <1>4, <1>5, <1>6, <1>7, <1>8, <1>9 DEF Next, Proceed

LEMMA Invariance == Spec => []IInv
  BY InitIInv, StepIInv, PTL DEF Spec

(* Every variable of AppleKeys keeps its type, and the mutex is exactly    *)
(* the fetching request's.                                                 *)
THEOREM KeyTypes == Spec => []TypeOK
  BY Invariance, PTL DEF IInv

(* A token signed with a key that stays published is refused only by a     *)
(* request in which Apple could not be reached.                            *)
THEOREM PublishedKeysAlwaysPass == Spec => []PublishedKeysPass
  BY Invariance, PTL DEF IInv

(* A key withdrawn a time to live ago is accepted only by a request that   *)
(* tried to fetch and could not.                                           *)
THEOREM WithdrawnKeysAlwaysFade == Spec => WithdrawnKeysFade
<1>1. ASSUME IInv, [Next]_vars, NEW v \in Verifiers,
             request[v].phase # "accepted", request'[v].phase = "accepted",
             gone[request[v].key] = TTL
      PROVE  request'[v].failed
  <2> USE <1>1, BoundsAssumption DEF IInv, TypeOK, CacheIsOlder
  <2>1. \/ \E w \in Verifiers : Verify(w) \/ Proceed(w)
        \/ Rotate \/ Restart \/ UNCHANGED request
    BY DEF Next, Tick, vars
  <2>2. CASE \E w \in Verifiers : Verify(w) \/ Return(w)
    BY <2>2 DEF Verify, Return
  <2>3. CASE \E w \in Verifiers : Key(w)
    BY <2>3 DEF Key, Settle
  <2>4. CASE \E w \in Verifiers : Refresh(w)
    BY <2>4 DEF Refresh, Settle
  <2>5. CASE \E w \in Verifiers : RefreshFails(w)
    BY <2>5 DEF RefreshFails
  <2>6. CASE Rotate \/ Restart \/ UNCHANGED request
    BY <2>6 DEF Rotate, Restart
  <2> QED
    BY <2>1, <2>2, <2>3, <2>4, <2>5, <2>6 DEF Proceed
<1>2. IInv /\ [Next]_vars => [\A v \in Verifiers :
        request[v].phase # "accepted" /\ request'[v].phase = "accepted"
        /\ gone[request[v].key] = TTL => request'[v].failed]_vars
  BY <1>1
<1> QED
  BY <1>2, Invariance, PTL DEF Spec, WithdrawnKeysFade
=============================================================================
