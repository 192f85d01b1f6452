------------------------- MODULE SubscriptionsProofs -------------------------
(***************************************************************************)
(* Proofs about Subscriptions, for any number of users, subscriptions,     *)
(* requests and payloads, and any time.                                    *)
(***************************************************************************)
EXTENDS Subscriptions, TLAPS

(* What Apple signs is consistent in itself: a revocation date comes with  *)
(* the notifications that have one, and an end is only announced once the  *)
(* time has come.                                                          *)
Consistent(p, time) ==
  /\ p.revoked => p.type \in {"REVOKE", "OTHER"}
  /\ p.type = "REVOKE" => p.revoked
  /\ p.type = "EXPIRED" => p.expires > 0 /\ p.expires < time
AppleInv == \A t \in Originals :
  /\ Len(signed[t]) <= MaxSigned
  /\ \A i \in 1..Len(signed[t]) : Consistent(signed[t][i], now)

(* The payload is one that pays for access.                                *)
Pays(e) ==
  Signed(e) /\ LET p == signed[e[1]][e[2]] IN ~p.revoked /\ p.type \notin {"REVOKE", "EXPIRED"}

(* What a handler that is under way carries in its locals.                 *)
Carried(r) ==
  /\ req[r].user \in Users /\ req[r].payload \in Entry
  /\ req[r].receipt \in ReceiptStatus /\ req[r].status \in SubscriptionStatus
  /\ Agree(req[r].receipt, req[r].status)
  /\ Presented(req[r].user, req[r].payload[1])
  /\ req[r].status = "active" => Pays(req[r].payload)
  /\ req[r].op = "webhook" \/ req[r].phase = "update" => receipt[req[r].payload[1]] # None
  /\ req[r].op = "webhook" => receipt[req[r].payload[1]].owner = req[r].user
RequestInv == \A r \in Requests : InFlight(r) => Carried(r)
FreshInv == \A r \in Requests : Arrives(r) => req[r].op = "none"

OwnerInv == \A t \in Originals : receipt[t] # None => Presented(receipt[t].owner, t)

UserInv == \A u \in Users :
  /\ user[u].from = None => user[u].status = "free"
  /\ user[u].from # None =>
       /\ user[u].from \in Entry
       /\ Presented(u, user[u].from[1]) /\ receipt[user[u].from[1]] # None
       /\ user[u].status = "active" => Pays(user[u].from)

(* A request that has not met another one is alone on its subscription,    *)
(* and between its statements the receipt is as it wrote it.               *)
AloneInv == \A r \in Requests : InFlight(r) /\ req[r].payload[1] \notin crossed =>
  /\ \A q \in Requests : InFlight(q) /\ req[q].payload[1] = req[r].payload[1] => q = r
  /\ req[r].phase = "update" => receipt[req[r].payload[1]] = Row(req[r])

IInv == TypeOK /\ AppleInv /\ FreshInv /\ RequestInv /\ OwnerInv /\ UserInv /\ AloneInv /\ InSync

LEMMA InitIInv == Init => IInv
<1> SUFFICES ASSUME Init PROVE IInv
  OBVIOUS
<1> USE NoneAssumption, BoundsAssumption DEF Init
<1>1. TypeOK
  BY DEF TypeOK, Unused, Request, User, SubscriptionStatus
<1>2. AppleInv
  BY DEF AppleInv
<1>3. FreshInv /\ RequestInv /\ AloneInv
  BY DEF FreshInv, RequestInv, AloneInv, InFlight, Unused
<1>4. OwnerInv /\ InSync /\ UserInv
  BY DEF OwnerInv, InSync, UserInv
<1> QED
  BY <1>1, <1>2, <1>3, <1>4 DEF IInv

-----------------------------------------------------------------------------
(* The world: Apple signs, time passes.                                    *)

LEMMA ApplePayload ==
  ASSUME TypeOK, AppleInv, NEW t \in Originals,
         NEW p \in IF signed[t] = <<>>
                   THEN {Says("SUBSCRIBED", e, FALSE) : e \in {0, now + 1}}
                   ELSE After(signed[t][Len(signed[t])])
  PROVE  p \in Payload /\ Consistent(p, now)
<1>0. now \in Nat
  BY BoundsAssumption DEF TypeOK
<1>1. CASE signed[t] = <<>>
  <2>1. p \in {Says("SUBSCRIBED", e, FALSE) : e \in {0, now + 1}}
    BY <1>1
  <2>2. PICK e \in {0, now + 1} : p = Says("SUBSCRIBED", e, FALSE)
    BY <2>1
  <2> QED
    BY <1>0, <2>2 DEF Says, Payload, Types, Consistent
<1>2. CASE signed[t] # <<>>
  <2> DEFINE q == signed[t][Len(signed[t])]
  <2>1. q \in Payload /\ p \in After(q)
    BY <1>2 DEF TypeOK
  <2>2. q.expires \in Nat /\ ~q.revoked
    BY <2>1 DEF Payload, After
  <2> HIDE DEF q
  <2>3. \/ p \in {Says("REVOKE", q.expires, TRUE), Says("OTHER", q.expires, TRUE),
                  Says("OTHER", q.expires, FALSE)}
        \/ p \in {Says("DID_RENEW", now + 1, FALSE), Says("SUBSCRIBED", now + 1, FALSE)}
        \/ /\ q.expires # 0 /\ q.expires < now
           /\ p \in {Says(type, q.expires, FALSE) : type \in {"DID_FAIL_TO_RENEW", "EXPIRED"}}
    <3> DEFINE ends == {Says(type, q.expires, FALSE) : type \in {"DID_FAIL_TO_RENEW", "EXPIRED"}}
    <3>1. CASE q.expires = 0
      BY <2>1, <2>2, <3>1 DEF After
    <3>2. CASE q.expires # 0 /\ q.expires >= now
      BY <2>1, <2>2, <3>2 DEF After
    <3>3. CASE q.expires # 0 /\ q.expires < now
      BY <1>0, <2>1, <2>2, <3>3 DEF After
    <3>4. q.expires = 0 \/ (q.expires # 0 /\ q.expires >= now) \/ (q.expires # 0 /\ q.expires < now)
      BY <1>0, <2>2
    <3> HIDE DEF ends
    <3> QED
      BY <3>1, <3>2, <3>3, <3>4
  <2>4. ASSUME NEW type \in Types, NEW expires \in Nat, NEW revoked \in BOOLEAN,
               p = Says(type, expires, revoked),
               revoked => type \in {"REVOKE", "OTHER"},
               type = "REVOKE" => revoked,
               type = "EXPIRED" => expires > 0 /\ expires < now
        PROVE  p \in Payload /\ Consistent(p, now)
    BY <2>4 DEF Says, Payload, Consistent
  <2>5. {"REVOKE", "OTHER", "DID_RENEW", "SUBSCRIBED", "DID_FAIL_TO_RENEW", "EXPIRED"} \subseteq Types
        /\ now + 1 \in Nat
    BY <1>0 DEF Types
  <2>6. CASE p \in {Says("REVOKE", q.expires, TRUE), Says("OTHER", q.expires, TRUE),
                    Says("OTHER", q.expires, FALSE)}
    BY <2>2, <2>4, <2>5, <2>6
  <2>7. CASE p \in {Says("DID_RENEW", now + 1, FALSE), Says("SUBSCRIBED", now + 1, FALSE)}
    BY <2>4, <2>5, <2>7
  <2>8. CASE /\ q.expires # 0 /\ q.expires < now
             /\ p \in {Says(type, q.expires, FALSE) : type \in {"DID_FAIL_TO_RENEW", "EXPIRED"}}
    <3>1. PICK type \in {"DID_FAIL_TO_RENEW", "EXPIRED"} : p = Says(type, q.expires, FALSE)
      BY <2>8
    <3>2. q.expires > 0
      BY <2>2, <2>8
    <3> QED
      BY <2>2, <2>4, <2>5, <2>8, <3>1, <3>2
  <2> QED
    BY <2>3, <2>6, <2>7, <2>8
<1> QED
  BY <1>1, <1>2

\* What the world may do: more is signed, and time does not run back
SignsOn ==
  /\ signed' \in [Originals -> Seq(Payload)]
  /\ \A t \in Originals : Len(signed'[t]) >= Len(signed[t]) /\ Len(signed'[t]) <= MaxSigned
  /\ \A t \in Originals : \A i \in 1..Len(signed[t]) : signed'[t][i] = signed[t][i]
  /\ \A t \in Originals : \A i \in 1..Len(signed'[t]) : Consistent(signed'[t][i], now)

LEMMA WorldEffect ==
  ASSUME IInv, World
  PROVE  /\ UNCHANGED <<receipt, user, req, crossed>> /\ TypeOK
         /\ now \in Nat /\ now' \in 0..MaxTime /\ now <= now'
         /\ SignsOn
<1>0. /\ UNCHANGED <<receipt, user, req, crossed>> /\ TypeOK
      /\ now \in Nat /\ now' \in 0..MaxTime /\ now <= now'
  <2>1. TypeOK /\ now \in Nat /\ now \in 0..MaxTime
    BY BoundsAssumption DEF IInv, TypeOK
  <2>2. CASE Tick
    BY <2>1, <2>2, BoundsAssumption DEF Tick
  <2>3. CASE \E t \in Originals : AppleSigns(t)
    BY <2>1, <2>3 DEF AppleSigns
  <2> QED
    BY <2>1, <2>2, <2>3 DEF World
<1>1. SignsOn
  <2>1. CASE Tick
    BY <1>0, <2>1 DEF Tick, IInv, TypeOK, AppleInv, SignsOn
  <2>2. ASSUME NEW t \in Originals, AppleSigns(t)
        PROVE  SignsOn
    <3>1. PICK p \in IF signed[t] = <<>>
                     THEN {Says("SUBSCRIBED", e, FALSE) : e \in {0, now + 1}}
                     ELSE After(signed[t][Len(signed[t])]) :
            signed' = [signed EXCEPT ![t] = Append(@, p)]
      BY <2>2 DEF AppleSigns
    <3>2. p \in Payload /\ Consistent(p, now)
      BY <3>1, ApplePayload DEF IInv
    <3>3. Len(signed[t]) < MaxSigned /\ signed[t] \in Seq(Payload) /\ MaxSigned \in Nat
      BY <1>0, <2>2, BoundsAssumption DEF AppleSigns, TypeOK
    <3>4. /\ signed'[t] \in Seq(Payload) /\ Len(signed'[t]) = Len(signed[t]) + 1
          /\ signed'[t][Len(signed[t]) + 1] = p
          /\ \A i \in 1..Len(signed[t]) : signed'[t][i] = signed[t][i]
          /\ \A s \in Originals \ {t} : signed'[s] = signed[s]
      BY <1>0, <3>1, <3>2, <3>3 DEF TypeOK
    <3>5. signed' \in [Originals -> Seq(Payload)]
      BY <1>0, <3>1, <3>4 DEF TypeOK
    <3>6. ASSUME NEW s \in Originals
          PROVE  /\ Len(signed'[s]) >= Len(signed[s]) /\ Len(signed'[s]) <= MaxSigned
                 /\ \A i \in 1..Len(signed[s]) : signed'[s][i] = signed[s][i]
                 /\ \A i \in 1..Len(signed'[s]) : Consistent(signed'[s][i], now)
      <4>1. CASE s = t
        BY <3>2, <3>3, <3>4, <4>1 DEF IInv, AppleInv
      <4>2. CASE s # t
        <5>1. signed[s] \in Seq(Payload)
          BY <1>0 DEF TypeOK
        <5> QED
          BY <3>4, <4>2, <5>1 DEF IInv, AppleInv
      <4> QED
        BY <4>1, <4>2
    <3> QED
      BY <3>5, <3>6 DEF SignsOn
  <2> QED
    BY <1>0, <2>1, <2>2 DEF World
<1> QED
  BY <1>0, <1>1

LEMMA WorldKeeps == ASSUME IInv, World PROVE IInv'
<1>0. /\ UNCHANGED <<receipt, user, req, crossed>> /\ TypeOK
      /\ now \in Nat /\ now' \in 0..MaxTime /\ now <= now'
  BY WorldEffect
<1>1. /\ signed' \in [Originals -> Seq(Payload)]
      /\ \A t \in Originals : Len(signed'[t]) >= Len(signed[t]) /\ Len(signed'[t]) <= MaxSigned
      /\ \A t \in Originals : \A i \in 1..Len(signed[t]) : signed'[t][i] = signed[t][i]
      /\ \A t \in Originals : \A i \in 1..Len(signed'[t]) : Consistent(signed'[t][i], now)
  BY WorldEffect DEF SignsOn
<1>2. TypeOK'
  BY <1>0, <1>1 DEF TypeOK
<1>3. AppleInv'
  <2> SUFFICES ASSUME NEW t \in Originals, NEW i \in 1..Len(signed'[t])
               PROVE  Consistent(signed'[t][i], now')
    BY <1>1 DEF AppleInv
  <2>1. signed'[t] \in Seq(Payload)
    BY <1>1
  <2>2. signed'[t][i].expires \in Nat /\ Consistent(signed'[t][i], now)
    <3>1. signed'[t][i] \in Payload
      BY <2>1
    <3> QED
      BY <1>1, <3>1 DEF Payload
  <2> QED
    BY <1>0, <2>2, BoundsAssumption DEF Consistent
<1>4. ASSUME NEW e \in Entry, Pays(e)
      PROVE  Pays(e)'
  <2>1. e[1] \in Originals /\ e[2] \in Nat /\ e[2] \in 1..Len(signed[e[1]])
    BY <1>0, <1>4, BoundsAssumption DEF Entry, Pays, Signed, TypeOK
  <2>2. signed[e[1]] \in Seq(Payload) /\ signed'[e[1]] \in Seq(Payload)
    BY <1>0, <1>1, <2>1 DEF TypeOK
  <2> QED
    BY <1>1, <1>4, <2>1, <2>2 DEF Pays, Signed
<1>5. FreshInv' /\ RequestInv'
  BY <1>0, <1>4 DEF IInv, FreshInv, Arrives, RequestInv, Carried, InFlight, Presented, Agree
<1>6. OwnerInv' /\ AloneInv'
  BY <1>0 DEF IInv, OwnerInv, AloneInv, InFlight, Presented, Row
<1>8. InSync'
  BY <1>0 DEF IInv, InSync, Settled, InFlight, Presented, Agree
<1>7. UserInv'
  BY <1>0, <1>4 DEF IInv, UserInv, Presented
<1> QED
  BY <1>2, <1>3, <1>5, <1>6, <1>7, <1>8 DEF IInv

-----------------------------------------------------------------------------
(* What the handlers derive.                                               *)

LEMMA Derived ==
  ASSUME IInv, NEW e \in Entry, Signed(e),
         NEW s \in {DeriveStatus(signed[e[1]][e[2]]), StatusFromNotification(signed[e[1]][e[2]])}
  PROVE  /\ s.receipt \in ReceiptStatus /\ s.user \in SubscriptionStatus
         /\ Agree(s.receipt, s.user) /\ (s.user = "active" => Pays(e))
<1> DEFINE p == signed[e[1]][e[2]]
<1>1. e[1] \in Originals /\ e[2] \in 1..Len(signed[e[1]]) /\ signed[e[1]] \in Seq(Payload) /\ now \in Nat
  BY BoundsAssumption DEF IInv, TypeOK, Signed, Entry
<1>2. p \in Payload /\ Consistent(p, now)
  BY <1>1 DEF IInv, AppleInv
<1>3. Pays(e) <=> ~p.revoked /\ p.type \notin {"REVOKE", "EXPIRED"}
  BY DEF Pays
<1>4. s \in {DeriveStatus(p), StatusFromNotification(p)}
  OBVIOUS
<1> HIDE DEF p
<1>5. p.type \in Types /\ p.expires \in Nat /\ p.revoked \in BOOLEAN
  BY <1>2 DEF Payload
<1>6. CASE s = DeriveStatus(p)
  BY <1>1, <1>2, <1>3, <1>5, <1>6
  DEF DeriveStatus, Both, Statuses, ReceiptStatus, SubscriptionStatus, Agree, Consistent
<1>7. CASE p.type \in {"SUBSCRIBED", "DID_RENEW", "DID_FAIL_TO_RENEW", "EXPIRED", "REVOKE"}
           /\ s = StatusFromNotification(p)
  BY <1>2, <1>3, <1>5, <1>7
  DEF StatusFromNotification, Both, Statuses, ReceiptStatus, SubscriptionStatus, Agree, Consistent
<1>8. CASE p.type = "OTHER" /\ s = StatusFromNotification(p)
  <2>1. s = DeriveStatus(p)
    BY <1>8 DEF StatusFromNotification
  <2> QED
    BY <1>6, <2>1
<1> QED
  BY <1>4, <1>5, <1>6, <1>7, <1>8 DEF Types

-----------------------------------------------------------------------------
(* A request arrives: it goes to work, marking the subscription if another *)
(* one is at it, or it is over at once.                                    *)

LEMMA ArrivedKeeps ==
  ASSUME IInv, NEW r \in Requests, Arrives(r), NEW q \in Request, q.payload \in Entry,
         req' = [req EXCEPT ![r] = q], UNCHANGED <<now, signed, receipt, user>>,
         \/ /\ q.phase \in {"ignored", "failed"} /\ q.op = "webhook" /\ crossed' = crossed
         \/ /\ q.phase = "upsert" /\ q.op \in {"verify", "webhook"} /\ Begins(q.payload[1])
            /\ q.user \in Users /\ q.receipt \in ReceiptStatus /\ q.status \in SubscriptionStatus
            /\ Agree(q.receipt, q.status) /\ (q.status = "active" => Pays(q.payload))
            /\ q.op = "webhook" => /\ receipt[q.payload[1]] # None
                                  /\ receipt[q.payload[1]].owner = q.user
  PROVE  IInv'
<1>0. /\ TypeOK /\ q.payload[1] \in Originals
      /\ req'[r] = q /\ \A o \in Requests \ {r} : req'[o] = req[o]
      /\ ~InFlight(r) /\ (InFlight(r)' => q.phase = "upsert")
      /\ \A o \in Requests \ {r} : InFlight(o)' <=> InFlight(o)
  BY DEF IInv, TypeOK, Arrives, InFlight, Entry
<1>1. \A u \in Users, t \in Originals : Presented(u, t) => Presented(u, t)'
  <2>1. \A o \in Requests : req[o].op = "verify" => o # r
    BY DEF Arrives, IInv, FreshInv
  <2> QED
    BY <1>0, <2>1 DEF Presented
<1>2. \A t \in Originals : Settled(t)' => Settled(t)
  <2> SUFFICES ASSUME NEW t \in Originals, Settled(t)', ~Settled(t)
               PROVE  FALSE
    OBVIOUS
  <2>1. \A o \in Requests : InFlight(o) => o # r /\ req'[o] = req[o] /\ InFlight(o)'
    BY <1>0
  <2>2. t \in crossed /\ t \notin crossed'
    BY <2>1 DEF Settled
  <2>3. q.phase = "upsert" /\ q.payload[1] = t
    BY <2>2 DEF Begins
  <2>4. InFlight(r)' /\ req'[r].payload[1] = t
    BY <1>0, <2>3 DEF InFlight
  <2> QED
    BY <2>4 DEF Settled
<1>3. TypeOK'
  BY <1>0 DEF TypeOK, Begins
<1>4. AppleInv' /\ FreshInv'
  BY <1>0 DEF IInv, AppleInv, FreshInv, Arrives
<1>5. RequestInv'
  <2> SUFFICES ASSUME NEW o \in Requests, InFlight(o)'
               PROVE  Carried(o)'
    BY DEF RequestInv
  <2>1. CASE o # r
    <3>1. Carried(o) /\ req'[o] = req[o] /\ InFlight(o)
      BY <1>0, <2>1 DEF IInv, RequestInv
    <3>2. Presented(req[o].user, req[o].payload[1])'
      BY <1>1, <3>1 DEF Carried, Entry
    <3> QED
      BY <3>1, <3>2 DEF Carried, Pays, Signed, Agree
  <2>2. CASE o = r
    <3>1. q.phase = "upsert"
      BY <1>0, <2>2
    <3>2. Presented(q.user, q.payload[1])'
      <4>1. CASE q.op = "verify"
        BY <1>0, <4>1 DEF Presented
      <4>2. CASE q.op = "webhook"
        <5>1. Presented(q.user, q.payload[1])
          BY <1>0, <3>1, <4>2 DEF IInv, OwnerInv
        <5> QED
          BY <1>0, <1>1, <3>1, <5>1
      <4> QED
        BY <3>1, <4>1, <4>2
    <3> QED
      BY <1>0, <2>2, <3>1, <3>2 DEF Carried, Pays, Signed, Agree
  <2> QED
    BY <2>1, <2>2
<1>6. OwnerInv'
  BY <1>0, <1>1 DEF IInv, OwnerInv, TypeOK, Receipt
<1>7. UserInv'
  <2> SUFFICES ASSUME NEW u \in Users, user[u].from # None
               PROVE  Presented(u, user[u].from[1])'
    BY DEF IInv, UserInv, Pays, Signed
  <2>1. user[u].from[1] \in Originals /\ Presented(u, user[u].from[1])
    BY DEF IInv, UserInv, Entry
  <2> QED
    BY <1>1, <2>1
<1>8. AloneInv'
  <2> SUFFICES ASSUME NEW o \in Requests, InFlight(o)', req'[o].payload[1] \notin crossed'
               PROVE  /\ \A other \in Requests :
                           InFlight(other)' /\ req'[other].payload[1] = req'[o].payload[1] => other = o
                      /\ req'[o].phase = "update" => receipt[req'[o].payload[1]] = Row(req'[o])
    BY DEF AloneInv, Row
  <2>1. CASE o = r
    <3>1. q.phase = "upsert" /\ ~\E other \in Requests : InFlight(other) /\ req[other].payload[1] = q.payload[1]
      BY <1>0, <2>1 DEF Begins
    <3> QED
      BY <1>0, <2>1, <3>1
  <2>2. CASE o # r /\ ~(InFlight(r)' /\ q.payload[1] = req[o].payload[1])
    <3>1. req[o].payload[1] \notin crossed /\ InFlight(o) /\ req'[o] = req[o]
      BY <1>0, <2>2 DEF Begins, InFlight
    <3>2. /\ \A other \in Requests :
                InFlight(other) /\ req[other].payload[1] = req[o].payload[1] => other = o
          /\ req[o].phase = "update" => receipt[req[o].payload[1]] = Row(req[o])
      BY <3>1 DEF IInv, AloneInv
    <3> QED
      BY <1>0, <2>2, <3>1, <3>2
  <2>3. CASE o # r /\ InFlight(r)' /\ q.payload[1] = req[o].payload[1]
    BY <1>0, <2>3 DEF Begins
  <2> QED
    BY <2>1, <2>2, <2>3
<1>9. InSync'
  <2> SUFFICES ASSUME NEW t \in Originals, receipt[t] # None, Settled(t)',
                      \A other \in Originals : Presented(receipt[t].owner, other)' => other = t
               PROVE  /\ user[receipt[t].owner].from = <<t, receipt[t].from>>
                      /\ Agree(receipt[t].status, user[receipt[t].owner].status)
    BY DEF InSync, Agree
  <2>1. receipt[t].owner \in Users
    BY <1>0 DEF TypeOK, Receipt
  <2> QED
    BY <1>1, <1>2, <2>1 DEF IInv, InSync
<1> QED
  BY <1>3, <1>4, <1>5, <1>6, <1>7, <1>8, <1>9 DEF IInv

LEMMA ArrivalKeeps == ASSUME IInv, NEW r \in Requests, Arrival(r) PROVE IInv'
<1>0. TypeOK /\ Arrives(r) /\ UNCHANGED <<now, signed, receipt, user>>
  BY DEF IInv, Arrival, VerifySubscription, AppleWebhook
<1>1. CASE VerifySubscription(r)
  <2>1. PICK e \in Entry, u \in Users :
          /\ Signed(e) /\ Begins(e[1])
          /\ Handles(r, "verify", u, e, DeriveStatus(signed[e[1]][e[2]]), "upsert")
    BY <1>1 DEF VerifySubscription
  <2> DEFINE s == DeriveStatus(signed[e[1]][e[2]])
             q == [op |-> "verify", user |-> u, payload |-> e,
                   receipt |-> s.receipt, status |-> s.user, phase |-> "upsert"]
  <2>2. /\ s.receipt \in ReceiptStatus /\ s.user \in SubscriptionStatus
        /\ Agree(s.receipt, s.user) /\ (s.user = "active" => Pays(e))
    BY <2>1, Derived
  <2>3. req' = [req EXCEPT ![r] = q]
    BY <2>1 DEF Handles
  <2> HIDE DEF s
  <2>4. q \in Request
    BY <2>2 DEF Request
  <2> QED
    BY <1>0, <2>1, <2>2, <2>3, <2>4, ArrivedKeeps
<1>2. CASE AppleWebhook(r)
  <2>1. PICK e \in Entry :
          /\ Signed(e)
          /\ LET row == receipt[e[1]]
                 s == StatusFromNotification(signed[e[1]][e[2]])
             IN \/ /\ row # None
                   /\ Handles(r, "webhook", row.owner, e, s, "upsert")
                   /\ Begins(e[1])
                \/ /\ row = None
                   /\ Handles(r, "webhook", None, e, s, "ignored")
                   /\ UNCHANGED crossed
                \/ /\ StatementsMayFail
                   /\ Handles(r, "webhook", None, e, s, "failed")
                   /\ UNCHANGED crossed
    BY <1>2 DEF AppleWebhook
  <2> DEFINE s == StatusFromNotification(signed[e[1]][e[2]])
             q(u, phase) == [op |-> "webhook", user |-> u, payload |-> e,
                             receipt |-> s.receipt, status |-> s.user, phase |-> phase]
  <2>2. /\ s.receipt \in ReceiptStatus /\ s.user \in SubscriptionStatus
        /\ Agree(s.receipt, s.user) /\ (s.user = "active" => Pays(e))
    BY <2>1, Derived
  <2>3. \/ /\ receipt[e[1]] # None /\ Begins(e[1])
           /\ req' = [req EXCEPT ![r] = q(receipt[e[1]].owner, "upsert")]
        \/ /\ crossed' = crossed
           /\ \E phase \in {"ignored", "failed"} : req' = [req EXCEPT ![r] = q(None, phase)]
    BY <2>1 DEF Handles
  <2> HIDE DEF s
  <2>4. ASSUME NEW u \in Users \cup {None}, NEW phase \in {"upsert", "ignored", "failed"}
        PROVE  q(u, phase) \in Request
    BY <2>2 DEF Request
  <2>5. CASE /\ receipt[e[1]] # None /\ Begins(e[1])
             /\ req' = [req EXCEPT ![r] = q(receipt[e[1]].owner, "upsert")]
    <3>1. receipt[e[1]].owner \in Users
      BY <1>0, <2>5 DEF TypeOK, Receipt, Entry
    <3>2. q(receipt[e[1]].owner, "upsert") \in Request
      BY <2>4, <3>1
    <3> QED
      BY <1>0, <2>2, <2>5, <3>1, <3>2, ArrivedKeeps
  <2>6. ASSUME crossed' = crossed, NEW phase \in {"ignored", "failed"},
               req' = [req EXCEPT ![r] = q(None, phase)]
        PROVE  IInv'
    <3>1. q(None, phase) \in Request
      BY <2>4
    <3> QED
      BY <1>0, <2>6, <3>1, ArrivedKeeps
  <2> QED
    BY <2>3, <2>5, <2>6
<1> QED
  BY <1>1, <1>2 DEF Arrival

-----------------------------------------------------------------------------
(* A request goes on: only its phase changes, so who presented what stays, *)
(* and nobody comes to be under way.                                       *)

LEMMA Moved ==
  ASSUME IInv, NEW r \in Requests, InFlight(r), NEW phase \in {"update", "ok", "failed"},
         Goto(r, phase)
  PROVE  /\ req' \in [Requests -> Request] /\ FreshInv'
         /\ req'[r] = [req[r] EXCEPT !.phase = phase] /\ (InFlight(r)' <=> phase = "update")
         /\ \A o \in Requests \ {r} : req'[o] = req[o] /\ (InFlight(o)' <=> InFlight(o))
         /\ \A u, t : Presented(u, t)' <=> Presented(u, t)
         /\ \A t \in Originals : t # req[r].payload[1] /\ Settled(t)' /\ crossed \subseteq crossed' => Settled(t)
<1>1. req \in [Requests -> Request]
  BY DEF IInv, TypeOK
<1>2. req'[r] = [req[r] EXCEPT !.phase = phase] /\ \A o \in Requests \ {r} : req'[o] = req[o]
  BY <1>1 DEF Goto
<1>3. req' \in [Requests -> Request]
  BY <1>1 DEF Goto, Request
<1>4. \A o \in Requests : req'[o].op = req[o].op /\ req'[o].user = req[o].user /\ req'[o].payload = req[o].payload
  <2> TAKE o \in Requests
  <2>1. req[o] \in Request
    BY <1>1
  <2> QED
    BY <1>2, <2>1 DEF Request
<1>5. \A u, t : Presented(u, t)' <=> Presented(u, t)
  BY <1>4 DEF Presented
<1>6. FreshInv' /\ req'[r].phase = phase
  BY <1>1, <1>2 DEF IInv, FreshInv, Arrives, Request
<1>7. (InFlight(r)' <=> phase = "update") /\ \A o \in Requests \ {r} : InFlight(o)' <=> InFlight(o)
  BY <1>2, <1>6 DEF InFlight
<1>8. ASSUME NEW t \in Originals, t # req[r].payload[1], Settled(t)', crossed \subseteq crossed'
      PROVE  Settled(t)
  BY <1>4, <1>7, <1>8 DEF Settled
<1> QED
  BY <1>2, <1>3, <1>5, <1>6, <1>7, <1>8

LEMMA UpsertKeeps == ASSUME IInv, NEW r \in Requests, UpsertSubscriptionReceipt(r) PROVE IInv'
<1> DEFINE t == req[r].payload[1]
           owner == IF receipt[t] = None THEN req[r].user ELSE receipt[t].owner
<1> USE NoneAssumption
<1>0. InFlight(r) /\ Carried(r) /\ TypeOK /\ UNCHANGED <<now, signed, user>>
  BY DEF UpsertSubscriptionReceipt, InFlight, IInv, RequestInv
<1>1. t \in Originals /\ req[r].payload[2] \in 1..MaxSigned
  BY <1>0 DEF Carried, Entry
<1>2. PICK o \in Outcomes :
        /\ receipt' = IF Executed(o)
                      THEN [receipt EXCEPT ![t] = IF @ = None THEN Row(req[r])
                                                  ELSE [Row(req[r]) EXCEPT !.owner = receipt[t].owner]]
                      ELSE receipt
        /\ Goto(r, IF o = "done" THEN "update" ELSE "failed")
        /\ Crosses(r, o # "done" \/ (receipt[t] # None /\ receipt[t].owner # req[r].user))
  BY DEF UpsertSubscriptionReceipt
<1> DEFINE phase == IF o = "done" THEN "update" ELSE "failed"
<1>3. phase \in {"update", "failed"} /\ Goto(r, phase)
  BY <1>2
<1>4. /\ req' \in [Requests -> Request] /\ FreshInv'
      /\ req'[r] = [req[r] EXCEPT !.phase = phase] /\ (InFlight(r)' <=> phase = "update")
      /\ \A i \in Requests \ {r} : req'[i] = req[i] /\ (InFlight(i)' <=> InFlight(i))
      /\ \A u, s : Presented(u, s)' <=> Presented(u, s)
      /\ \A s \in Originals : s # t /\ Settled(s)' /\ crossed \subseteq crossed' => Settled(s)
  BY <1>0, <1>3, Moved
<1>5. crossed \subseteq crossed' /\ crossed' \subseteq Originals
  BY <1>0, <1>1, <1>2 DEF Crosses, TypeOK
<1>6. owner \in Users
  BY <1>0, <1>1 DEF Carried, TypeOK, Receipt
\* What the statement does to the receipt
<1>7. Executed(o) => receipt'[t] = [owner |-> owner, status |-> req[r].receipt, from |-> req[r].payload[2]]
                     /\ receipt'[t] \in Receipt
  <2> SUFFICES ASSUME Executed(o)
               PROVE  receipt'[t] = [owner |-> owner, status |-> req[r].receipt, from |-> req[r].payload[2]]
                      /\ receipt'[t] \in Receipt
    OBVIOUS
  <2>1. receipt'[t] = IF receipt[t] = None THEN Row(req[r])
                      ELSE [Row(req[r]) EXCEPT !.owner = receipt[t].owner]
    BY <1>0, <1>1, <1>2 DEF TypeOK
  <2>2. receipt'[t] = [owner |-> owner, status |-> req[r].receipt, from |-> req[r].payload[2]]
    BY <2>1 DEF Row
  <2> HIDE DEF owner
  <2> QED
    BY <1>0, <1>1, <1>6, <2>2 DEF Receipt, Carried
<1>8. receipt' \in [Originals -> Receipt \cup {None}] /\ \A s \in Originals \ {t} : receipt'[s] = receipt[s]
  <2>1. CASE Executed(o)
    BY <1>0, <1>1, <1>2, <1>7, <2>1 DEF TypeOK
  <2>2. CASE ~Executed(o)
    BY <1>0, <1>2, <2>2 DEF TypeOK
  <2> QED
    BY <2>1, <2>2
<1>9. \A s \in Originals : receipt[s] # None => receipt'[s] # None /\ receipt'[s].owner = receipt[s].owner
  <2> TAKE s \in Originals
  <2>1. CASE s # t
    BY <1>8, <2>1
  <2>2. CASE s = t /\ Executed(o)
    BY <1>0, <1>1, <1>7, <2>2 DEF TypeOK
  <2>3. CASE s = t /\ ~Executed(o)
    BY <1>2, <2>3
  <2> QED
    BY <2>1, <2>2, <2>3
<1>10. receipt[t] = None /\ receipt'[t] # None => receipt'[t].owner = req[r].user
  BY <1>2, <1>7
<1>11. phase = "update" => Executed(o) /\ receipt'[t] # None
  BY <1>2, <1>7 DEF Executed
<1> HIDE DEF phase
<1>12. TypeOK'
  BY <1>0, <1>4, <1>5, <1>8 DEF TypeOK
<1>13. AppleInv' /\ FreshInv'
  BY <1>0, <1>4 DEF IInv, AppleInv
<1>14. RequestInv'
  <2> SUFFICES ASSUME NEW i \in Requests, InFlight(i)'
               PROVE  Carried(i)'
    BY DEF RequestInv
  <2>1. InFlight(i) /\ Carried(i) /\ req[i] \in Request
    BY <1>0, <1>4 DEF IInv, RequestInv, TypeOK
  <2>2. /\ req'[i].op = req[i].op /\ req'[i].user = req[i].user /\ req'[i].payload = req[i].payload
        /\ req'[i].receipt = req[i].receipt /\ req'[i].status = req[i].status
        /\ (i # r => req'[i].phase = req[i].phase) /\ (i = r => phase = "update")
    BY <1>4, <2>1 DEF Request
  <2>3. req[i].payload[1] \in Originals
    BY <2>1 DEF Carried, Entry
  <2>4. req'[i].op = "webhook" \/ req'[i].phase = "update" => receipt'[req[i].payload[1]] # None
    BY <1>9, <1>11, <2>1, <2>2, <2>3 DEF Carried
  <2>5. req'[i].op = "webhook" => receipt'[req[i].payload[1]].owner = req[i].user
    BY <1>9, <2>1, <2>2, <2>3 DEF Carried
  <2> QED
    BY <1>0, <1>4, <2>1, <2>2, <2>4, <2>5 DEF Carried, Pays, Signed, Agree
<1>15. OwnerInv'
  <2> SUFFICES ASSUME NEW s \in Originals, receipt'[s] # None
               PROVE  Presented(receipt[s].owner, s)'
    BY DEF OwnerInv
  <2>1. CASE receipt[s] # None
    <3>1. Presented(receipt[s].owner, s) /\ receipt'[s].owner = receipt[s].owner
      BY <1>9, <2>1 DEF IInv, OwnerInv
    <3> QED
      BY <1>4, <3>1 DEF Presented
  <2>2. CASE receipt[s] = None
    <3>1. s = t /\ receipt'[s].owner = req[r].user
      BY <1>8, <1>10, <2>2
    <3>2. Presented(req[r].user, t)
      BY <1>0 DEF Carried
    <3> QED
      BY <1>4, <3>1, <3>2 DEF Presented
  <2> QED
    BY <2>1, <2>2
<1>16. UserInv'
  BY <1>0, <1>4, <1>9 DEF IInv, UserInv, Entry, Pays, Signed
<1>17. AloneInv'
  <2> SUFFICES ASSUME NEW i \in Requests, InFlight(i)', req'[i].payload[1] \notin crossed'
               PROVE  /\ \A other \in Requests :
                           InFlight(other)' /\ req'[other].payload[1] = req'[i].payload[1] => other = i
                      /\ req'[i].phase = "update" => receipt'[req'[i].payload[1]] = Row(req'[i])
    BY DEF AloneInv, Row
  <2>1. \A j \in Requests : req'[j].payload = req[j].payload /\ (InFlight(j)' => InFlight(j))
    <3> TAKE j \in Requests
    <3>1. req[j] \in Request
      BY <1>0 DEF TypeOK
    <3> QED
      BY <1>0, <1>4, <3>1 DEF Request
  <2>2. /\ \A other \in Requests : InFlight(other) /\ req[other].payload[1] = req[i].payload[1] => other = i
        /\ req[i].phase = "update" => receipt[req[i].payload[1]] = Row(req[i])
    BY <1>5, <2>1 DEF IInv, AloneInv
  <2>3. CASE i # r
    <3>1. req[i].payload[1] # t
      BY <1>0, <2>2, <2>3
    <3>2. req[i].payload[1] \in Originals
      BY <2>1 DEF IInv, RequestInv, Carried, Entry
    <3> QED
      BY <1>4, <1>8, <2>1, <2>2, <2>3, <3>1, <3>2
  <2>4. CASE i = r
    <3>1. t \notin crossed'
      BY <2>1, <2>4
    <3>2. receipt[t] = None \/ receipt[t].owner = req[r].user
      BY <3>1, <1>2 DEF Crosses
    <3>3. receipt'[t] = Row(req[r])
      BY <1>4, <1>7, <1>11, <2>4, <3>2 DEF Row
    <3>4. Row(req'[r]) = Row(req[r])
      BY <1>0, <1>4 DEF Row, TypeOK, Request
    <3> QED
      BY <2>1, <2>2, <2>4, <3>3, <3>4
  <2> QED
    BY <2>3, <2>4
<1>18. InSync'
  <2> SUFFICES ASSUME NEW s \in Originals, receipt'[s] # None, Settled(s)',
                      \A other \in Originals : Presented(receipt[s].owner, other)' => other = s
               PROVE  /\ user[receipt'[s].owner].from = <<s, receipt'[s].from>>
                      /\ Agree(receipt'[s].status, user[receipt'[s].owner].status)
    BY <1>0 DEF InSync, Agree
  <2>1. CASE s = t
    <3>1. phase = "update" \/ t \in crossed'
      BY <1>2 DEF Crosses, phase
    <3>2. req'[r].payload = req[r].payload
      BY <1>0, <1>4 DEF TypeOK, Request
    <3> QED
      BY <1>4, <2>1, <3>1, <3>2 DEF Settled
  <2>2. CASE s # t
    <3>1. receipt'[s] = receipt[s] /\ Settled(s)
      BY <1>4, <1>5, <1>8, <2>2
    <3>2. \A other \in Originals : Presented(receipt[s].owner, other) => other = s
      BY <1>4, <3>1 DEF Presented
    <3> QED
      BY <3>1, <3>2 DEF IInv, InSync
  <2> QED
    BY <2>1, <2>2
<1> QED
  BY <1>12, <1>13, <1>14, <1>15, <1>16, <1>17, <1>18 DEF IInv

LEMMA UpdateKeeps == ASSUME IInv, NEW r \in Requests, UpdateSubscription(r) PROVE IInv'
<1> DEFINE t == req[r].payload[1]
           u == req[r].user
<1> USE NoneAssumption
<1>0. /\ InFlight(r) /\ req[r].phase = "update" /\ Carried(r) /\ TypeOK
      /\ UNCHANGED <<now, signed, receipt>>
  BY DEF UpdateSubscription, InFlight, IInv, RequestInv
<1>1. t \in Originals /\ u \in Users /\ req[r].payload \in Entry /\ receipt[t] # None
      /\ req[r].payload = <<t, req[r].payload[2]>>
  BY <1>0 DEF Carried, Entry
<1>2. PICK o \in Outcomes :
        /\ user' = IF Executed(o)
                   THEN [user EXCEPT ![u] = [status |-> req[r].status, from |-> req[r].payload]]
                   ELSE user
        /\ Goto(r, IF o = "done" THEN "ok" ELSE "failed")
        /\ Crosses(r, o # "done")
  BY DEF UpdateSubscription
<1> DEFINE phase == IF o = "done" THEN "ok" ELSE "failed"
<1>3. phase \in {"ok", "failed"} /\ Goto(r, phase)
  BY <1>2
<1>4. /\ req' \in [Requests -> Request] /\ FreshInv'
      /\ req'[r] = [req[r] EXCEPT !.phase = phase] /\ (InFlight(r)' <=> phase = "update")
      /\ \A i \in Requests \ {r} : req'[i] = req[i] /\ (InFlight(i)' <=> InFlight(i))
      /\ \A v, s : Presented(v, s)' <=> Presented(v, s)
      /\ \A s \in Originals : s # t /\ Settled(s)' /\ crossed \subseteq crossed' => Settled(s)
  BY <1>0, <1>3, Moved
<1>5. crossed \subseteq crossed' /\ crossed' \subseteq Originals
  BY <1>0, <1>1, <1>2 DEF Crosses, TypeOK
<1>6. \A i \in Requests : InFlight(i)' => i # r /\ InFlight(i) /\ req'[i] = req[i]
  BY <1>3, <1>4
\* What the statement does to the user
<1>7. \A v \in Users : user'[v] = user[v]
                      \/ (v = u /\ user'[v] = [status |-> req[r].status, from |-> req[r].payload])
  <2>1. CASE Executed(o)
    <3>1. user' = [user EXCEPT ![u] = [status |-> req[r].status, from |-> req[r].payload]]
          /\ user \in [Users -> User]
      BY <1>0, <1>2, <2>1 DEF TypeOK
    <3> QED
      BY <1>1, <3>1
  <2>2. CASE ~Executed(o)
    BY <1>2, <2>2
  <2> QED
    BY <2>1, <2>2
<1>8. user' \in [Users -> User]
  <2>1. [status |-> req[r].status, from |-> req[r].payload] \in User
    BY <1>0 DEF Carried, User
  <2> QED
    BY <1>0, <1>2, <2>1 DEF TypeOK
<1> HIDE DEF phase
<1>9. TypeOK'
  BY <1>0, <1>4, <1>5, <1>8 DEF TypeOK
<1>10. AppleInv' /\ FreshInv'
  BY <1>0, <1>4 DEF IInv, AppleInv
<1>11. RequestInv'
  <2> SUFFICES ASSUME NEW i \in Requests, InFlight(i)'
               PROVE  Carried(i)'
    BY DEF RequestInv
  <2>1. Carried(i) /\ req'[i] = req[i]
    BY <1>6 DEF IInv, RequestInv
  <2> QED
    BY <1>0, <1>4, <2>1 DEF Carried, Pays, Signed, Agree
<1>12. OwnerInv'
  BY <1>0, <1>4 DEF IInv, OwnerInv, Presented
<1>13. UserInv'
  <2> SUFFICES ASSUME NEW v \in Users
               PROVE  /\ user'[v].from = None => user'[v].status = "free"
                      /\ user'[v].from # None =>
                           /\ user'[v].from \in Entry
                           /\ Presented(v, user[v].from[1])' /\ receipt[user'[v].from[1]] # None
                           /\ user'[v].status = "active" => Pays(user[v].from)'
    BY <1>0 DEF UserInv
  <2>1. CASE user'[v] = user[v]
    BY <1>0, <1>4, <2>1 DEF IInv, UserInv, Presented, Pays, Signed
  <2>2. CASE v = u /\ user'[v] = [status |-> req[r].status, from |-> req[r].payload]
    <3>1. user'[v].from = req[r].payload /\ user'[v].status = req[r].status
      BY <2>2
    <3>2. Presented(v, t) /\ (req[r].status = "active" => Pays(req[r].payload))
      BY <1>0, <2>2 DEF Carried
    <3> QED
      BY <1>0, <1>1, <1>4, <3>1, <3>2 DEF Presented, Pays, Signed
  <2> QED
    BY <1>7, <2>1, <2>2
<1>14. AloneInv'
  <2> SUFFICES ASSUME NEW i \in Requests, InFlight(i)', req'[i].payload[1] \notin crossed'
               PROVE  /\ \A other \in Requests :
                           InFlight(other)' /\ req'[other].payload[1] = req'[i].payload[1] => other = i
                      /\ req'[i].phase = "update" => receipt[req'[i].payload[1]] = Row(req'[i])
    BY <1>0 DEF AloneInv, Row
  <2>1. /\ \A other \in Requests : InFlight(other) /\ req[other].payload[1] = req[i].payload[1] => other = i
        /\ req[i].phase = "update" => receipt[req[i].payload[1]] = Row(req[i])
    BY <1>5, <1>6 DEF IInv, AloneInv
  <2> QED
    BY <1>6, <2>1
<1>15. InSync'
  <2> SUFFICES ASSUME NEW s \in Originals, receipt[s] # None, Settled(s)',
                      \A other \in Originals : Presented(receipt[s].owner, other)' => other = s
               PROVE  /\ user'[receipt[s].owner].from = <<s, receipt[s].from>>
                      /\ Agree(receipt[s].status, user'[receipt[s].owner].status)
    BY <1>0 DEF InSync, Agree
  <2>1. \A other \in Originals : Presented(receipt[s].owner, other) => other = s
    BY <1>0, <1>4 DEF Presented
  <2>2. receipt[s].owner \in Users
    BY <1>0 DEF TypeOK, Receipt
  <2>3. CASE s = t
    <3>1. t \notin crossed' /\ t \notin crossed
      BY <1>5, <2>3 DEF Settled
    <3>2. o = "done" /\ Executed(o)
      BY <1>2, <3>1 DEF Crosses, Executed
    <3>3. receipt[t] = Row(req[r])
      BY <1>0, <3>1 DEF IInv, AloneInv
    <3>4. receipt[t].owner = u /\ receipt[t].status = req[r].receipt /\ receipt[t].from = req[r].payload[2]
      BY <3>3 DEF Row
    <3>5. user'[u] = [status |-> req[r].status, from |-> req[r].payload]
      BY <1>0, <1>1, <1>2, <3>2 DEF TypeOK
    <3> QED
      BY <1>0, <1>1, <2>3, <3>4, <3>5 DEF Carried
  <2>4. CASE s # t
    <3>1. Settled(s)
      BY <1>4, <1>5, <2>4
    <3>2. receipt[s].owner # u
      BY <1>0, <1>1, <2>1, <2>4 DEF Carried
    <3>3. user'[receipt[s].owner] = user[receipt[s].owner]
      BY <1>7, <2>2, <3>2
    <3> QED
      BY <2>1, <3>1, <3>3 DEF IInv, InSync
  <2> QED
    BY <2>3, <2>4
<1> QED
  BY <1>9, <1>10, <1>11, <1>12, <1>13, <1>14, <1>15 DEF IInv

LEMMA StepIInv == ASSUME IInv, [Next]_vars PROVE IInv'
<1>1. CASE UNCHANGED vars
  <2>1. UNCHANGED <<now, signed, receipt, user, req, crossed>>
    BY <1>1 DEF vars
  <2>2. TypeOK' /\ AppleInv' /\ FreshInv'
    BY <2>1 DEF IInv, TypeOK, AppleInv, FreshInv, Arrives
  <2>3. RequestInv' /\ OwnerInv' /\ UserInv'
    BY <2>1 DEF IInv, RequestInv, Carried, OwnerInv, UserInv, Presented, InFlight, Pays, Signed, Agree
  <2>4. AloneInv'
    BY <2>1 DEF IInv, AloneInv, InFlight, Row
  <2>5. InSync'
    BY <2>1 DEF IInv, InSync, Settled, InFlight, Presented, Agree
  <2> QED
    BY <2>2, <2>3, <2>4, <2>5 DEF IInv
<1>2. CASE World
  BY <1>2, WorldKeeps
<1>3. ASSUME NEW r \in Requests, Arrival(r)
      PROVE  IInv'
  BY <1>3, ArrivalKeeps
<1>4. ASSUME NEW r \in Requests, Continue(r)
      PROVE  IInv'
  BY <1>4, UpsertKeeps, UpdateKeeps DEF Continue
<1> QED
  BY <1>1, <1>2, <1>3, <1>4 DEF Next

THEOREM Invariance == Spec => []IInv
<1>1. Init => IInv
  BY InitIInv
<1>2. IInv /\ [Next]_vars => IInv'
  BY StepIInv
<1> QED
  BY <1>1, <1>2, PTL DEF Spec

-----------------------------------------------------------------------------
(* The theorems.                                                           *)

(* The tables and the handlers' locals keep their types: billing_retry     *)
(* never reaches a user's row.                                             *)
THEOREM SubscriptionTypes == Spec => []TypeOK
<1>1. IInv => TypeOK
  BY DEF IInv
<1> QED
  BY <1>1, Invariance, PTL

(* The user a webhook writes to owns the receipt to the end.               *)
THEOREM WebhooksReachOwners == Spec => []WebhookReachesOwner
<1>1. IInv => WebhookReachesOwner
  BY DEF IInv, RequestInv, Carried, WebhookReachesOwner
<1> QED
  BY <1>1, Invariance, PTL

(* Whoever has a status presented the subscription it comes from, and that *)
(* one has a receipt.                                                      *)
THEOREM AccessIsReceipted == Spec => []AccessHasReceipt
<1>1. IInv => AccessHasReceipt
  BY DEF IInv, UserInv, AccessHasReceipt
<1> QED
  BY <1>1, Invariance, PTL

(* Nobody is let in by a payload that revokes or ends the subscription.    *)
THEOREM AccessWasSigned == Spec => []ActiveWasSigned
<1>1. IInv => ActiveWasSigned
  BY DEF IInv, UserInv, ActiveWasSigned, IsPaidUser, Pays
<1> QED
  BY <1>1, Invariance, PTL

(* The two tables converge: after a request that met no other one and did  *)
(* not fail, the owner's row says what the receipt says.                   *)
THEOREM TablesConverge == Spec => []InSync
<1>1. IInv => InSync
  BY DEF IInv
<1> QED
  BY <1>1, Invariance, PTL

-----------------------------------------------------------------------------
(* The refinement of PaidAccess.                                           *)

(* What a request under way will write to the two tables, and the claim of *)
(* Apple's that backs it: it did when it was derived, and still does.      *)
Said(r) == [from |-> req[r].payload[2], receipt |-> req[r].receipt, user |-> req[r].status]
BackedInv == \A r \in Requests : InFlight(r) => Said(r) \in Backed[req[r].payload[1]]

LEMMA BackedGrows ==
  ASSUME IInv, World
  PROVE  \A t \in Originals : Backed[t] \subseteq Backed'[t]
<1> SUFFICES ASSUME NEW t \in Originals, NEW c \in Claim,
                    c.from <= Len(signed[t]), Supports(signed[t][c.from], c)
             PROVE  c.from <= Len(signed'[t]) /\ Supports(signed[t][c.from], c)'
  BY DEF Backed
<1>1. now \in Nat /\ now' \in Nat /\ now <= now' /\ signed[t] \in Seq(Payload)
  BY WorldEffect, BoundsAssumption DEF TypeOK
<1>2. c.from \in Nat /\ c.from >= 1 /\ Len(signed[t]) \in Nat
  BY <1>1, BoundsAssumption DEF Claim
<1>3. /\ Len(signed'[t]) \in Nat /\ Len(signed'[t]) >= Len(signed[t])
      /\ signed'[t][c.from] = signed[t][c.from]
  BY <1>1, <1>2, WorldEffect DEF SignsOn
<1>4. signed[t][c.from] \in Payload
  BY <1>1, <1>2
<1>5. signed[t][c.from].expires \in Nat
  BY <1>4 DEF Payload
<1> QED
  BY <1>1, <1>2, <1>3, <1>5 DEF Supports

LEMMA DerivedIsBacked ==
  ASSUME IInv, NEW e \in Entry, Signed(e),
         NEW s \in {DeriveStatus(signed[e[1]][e[2]]), StatusFromNotification(signed[e[1]][e[2]])}
  PROVE  [from |-> e[2], receipt |-> s.receipt, user |-> s.user] \in Backed[e[1]]
<1> DEFINE p == signed[e[1]][e[2]]
           c == [from |-> e[2], receipt |-> s.receipt, user |-> s.user]
<1>1. /\ e[1] \in Originals /\ e[2] \in 1..MaxSigned /\ e[2] \in 1..Len(signed[e[1]])
      /\ signed[e[1]] \in Seq(Payload) /\ now \in Nat
  BY BoundsAssumption DEF IInv, TypeOK, Signed, Entry
<1>2. p \in Payload /\ Consistent(p, now)
  BY <1>1 DEF IInv, AppleInv
<1>3. c \in Claim
  BY <1>1, Derived DEF Claim
<1>4. s \in {DeriveStatus(p), StatusFromNotification(p)}
  OBVIOUS
<1> HIDE DEF p
<1>5. p.type \in Types /\ p.expires \in Nat /\ p.revoked \in BOOLEAN
  BY <1>2 DEF Payload
<1>6. s = DeriveStatus(p) => Supports(p, c)
  <2>1. s = DeriveStatus(p) =>
          s.receipt = IF p.revoked THEN "revoked"
                      ELSE IF p.expires > 0 /\ p.expires < now THEN "expired" ELSE "active"
    BY DEF DeriveStatus, Both, Statuses
  <2>2. p.type = "EXPIRED" => p.expires > 0 /\ p.expires < now
    BY <1>2 DEF Consistent
  <2>3. CASE p.revoked
    BY <2>1, <2>3 DEF Supports
  <2>4. CASE ~p.revoked
    BY <2>1, <2>2, <2>4 DEF Supports
  <2> QED
    BY <2>3, <2>4
<1>7. p.type # "OTHER" /\ s = StatusFromNotification(p) => Supports(p, c)
  <2>1. p.type # "OTHER" /\ s = StatusFromNotification(p) =>
          s.receipt = CASE p.type \in {"SUBSCRIBED", "DID_RENEW"} -> "active"
                        [] p.type = "DID_FAIL_TO_RENEW" -> "billing_retry"
                        [] p.type = "EXPIRED" -> "expired"
                        [] OTHER -> "revoked"
    BY <1>5 DEF Types, StatusFromNotification, Both, Statuses
  <2>2. /\ p.type = "EXPIRED" => ~p.revoked /\ p.expires > 0 /\ p.expires < now
        /\ p.type = "REVOKE" => p.revoked
        /\ p.type \in {"SUBSCRIBED", "DID_RENEW"} => ~p.revoked
    BY <1>2 DEF Consistent
  <2> QED
    BY <1>5, <2>1, <2>2 DEF Types, Supports
<1>8. p.type = "OTHER" => StatusFromNotification(p) = DeriveStatus(p)
  BY DEF StatusFromNotification
<1>9. Supports(p, c)
  BY <1>4, <1>6, <1>7, <1>8
<1>10. c.from <= Len(signed[e[1]])
  BY <1>1
<1> QED
  BY <1>1, <1>3, <1>9, <1>10 DEF Backed, p

(* An arriving request leaves the tables, and Apple's word, alone; if it   *)
(* goes to work, what it will say is backed, and if it is an app's it has  *)
(* presented the subscription.                                             *)
LEMMA ArrivalSays ==
  ASSUME IInv, NEW r \in Requests, Arrival(r)
  PROVE  /\ UNCHANGED <<now, signed, receipt, user>>
         /\ \A o \in Requests \ {r} : req'[o] = req[o]
         /\ InFlight(r)' => Said(r)' \in Backed[req'[r].payload[1]]
         /\ \/ Presentations' = Presentations
            \/ \E u \in Users, t \in Originals :
                 Presentations' = Presentations \cup {<<u, t>>}
<1>0. /\ TypeOK /\ UNCHANGED <<now, signed, receipt, user>> /\ req[r].op = "none"
  BY DEF IInv, FreshInv, Arrival, VerifySubscription, AppleWebhook
<1>1. CASE VerifySubscription(r)
  <2>1. PICK e \in Entry, u \in Users :
          /\ Signed(e)
          /\ Handles(r, "verify", u, e, DeriveStatus(signed[e[1]][e[2]]), "upsert")
    BY <1>1 DEF VerifySubscription
  <2> DEFINE s == DeriveStatus(signed[e[1]][e[2]])
             q == [op |-> "verify", user |-> u, payload |-> e,
                   receipt |-> s.receipt, status |-> s.user, phase |-> "upsert"]
  <2>2. [from |-> e[2], receipt |-> s.receipt, user |-> s.user] \in Backed[e[1]]
    BY <2>1, DerivedIsBacked
  <2>3. req'[r] = q /\ \A o \in Requests \ {r} : req'[o] = req[o]
    BY <1>0, <2>1 DEF Handles, TypeOK
  <2> HIDE DEF s
  <2>4. Said(r)' = [from |-> e[2], receipt |-> s.receipt, user |-> s.user] /\ req'[r].payload = e
    BY <2>3 DEF Said
  <2>5. e[1] \in Originals /\ <<u, e[1]>> \in Users \X Originals
    BY DEF Entry
  <2>6. \A v \in Users, t \in Originals :
          Presented(v, t)' <=> Presented(v, t) \/ (v = u /\ t = e[1])
    BY <1>0, <2>3 DEF Presented
  <2>7. Presentations' = Presentations \cup {<<u, e[1]>>}
    BY <2>5, <2>6 DEF Presentations
  <2> QED
    BY <1>0, <2>2, <2>3, <2>4, <2>5, <2>7
<1>2. CASE AppleWebhook(r)
  <2>1. PICK e \in Entry, u \in Users \cup {None}, phase \in {"upsert", "ignored", "failed"} :
          /\ Signed(e)
          /\ Handles(r, "webhook", u, e, StatusFromNotification(signed[e[1]][e[2]]), phase)
    <3>1. PICK e \in Entry :
            /\ Signed(e)
            /\ LET row == receipt[e[1]]
                   s == StatusFromNotification(signed[e[1]][e[2]])
               IN \/ row # None /\ Handles(r, "webhook", row.owner, e, s, "upsert")
                  \/ Handles(r, "webhook", None, e, s, "ignored")
                  \/ Handles(r, "webhook", None, e, s, "failed")
      BY <1>2 DEF AppleWebhook
    <3>2. receipt[e[1]] # None => receipt[e[1]].owner \in Users
      BY <1>0 DEF TypeOK, Receipt, Entry
    <3> QED
      BY <3>1, <3>2
  <2> DEFINE s == StatusFromNotification(signed[e[1]][e[2]])
             q == [op |-> "webhook", user |-> u, payload |-> e,
                   receipt |-> s.receipt, status |-> s.user, phase |-> phase]
  <2>2. [from |-> e[2], receipt |-> s.receipt, user |-> s.user] \in Backed[e[1]]
    BY <2>1, DerivedIsBacked
  <2>3. req'[r] = q /\ \A o \in Requests \ {r} : req'[o] = req[o]
    BY <1>0, <2>1 DEF Handles, TypeOK
  <2> HIDE DEF s
  <2>4. Said(r)' = [from |-> e[2], receipt |-> s.receipt, user |-> s.user] /\ req'[r].payload = e
    BY <2>3 DEF Said
  <2>5. \A v \in Users, t \in Originals : Presented(v, t)' <=> Presented(v, t)
    BY <1>0, <2>3 DEF Presented
  <2>6. Presentations' = Presentations
    BY <2>5 DEF Presentations
  <2> QED
    BY <1>0, <2>2, <2>3, <2>4, <2>6
<1> QED
  BY <1>1, <1>2 DEF Arrival

(* A later statement of a request says what it was going to say.           *)
LEMMA ContinueSays ==
  ASSUME IInv, NEW r \in Requests, Continue(r)
  PROVE  /\ InFlight(r) /\ UNCHANGED <<now, signed>>
         /\ Presentations' = Presentations
         /\ \A o \in Requests : /\ Said(o)' = Said(o) /\ req'[o].payload = req[o].payload
                                /\ InFlight(o)' => InFlight(o)
<1>1. PICK phase \in {"update", "ok", "failed"} : Goto(r, phase)
  BY DEF Continue, UpsertSubscriptionReceipt, UpdateSubscription
<1>2. InFlight(r) /\ UNCHANGED <<now, signed>> /\ TypeOK
  BY DEF Continue, UpsertSubscriptionReceipt, UpdateSubscription, InFlight, IInv
<1>3. /\ req'[r] = [req[r] EXCEPT !.phase = phase]
      /\ \A o \in Requests \ {r} : req'[o] = req[o] /\ (InFlight(o)' <=> InFlight(o))
      /\ \A u, t : Presented(u, t)' <=> Presented(u, t)
  BY <1>1, <1>2, Moved
<1>4. Presentations' = Presentations
  BY <1>3 DEF Presentations
<1>5. ASSUME NEW o \in Requests
      PROVE  /\ Said(o)' = Said(o) /\ req'[o].payload = req[o].payload
             /\ InFlight(o)' => InFlight(o)
  <2>1. req[o] \in Request
    BY <1>2 DEF TypeOK
  <2>2. /\ req'[o].payload = req[o].payload /\ req'[o].receipt = req[o].receipt
        /\ req'[o].status = req[o].status
    BY <1>3, <2>1 DEF Request
  <2> QED
    BY <1>2, <1>3, <2>2 DEF Said
<1> QED
  BY <1>2, <1>4, <1>5

LEMMA BackedStep ==
  ASSUME IInv, BackedInv, [Next]_vars
  PROVE  BackedInv'
<1>0. \A o \in Requests : InFlight(o) => req[o].payload[1] \in Originals
  BY DEF IInv, RequestInv, Carried, Entry
<1>1. CASE UNCHANGED vars
  <2>1. UNCHANGED <<now, signed, req>>
    BY <1>1 DEF vars
  <2>2. Backed' = Backed
    BY <2>1 DEF Backed, Supports
  <2> QED
    BY <2>1, <2>2 DEF BackedInv, InFlight, Said
<1>2. CASE World
  <2>1. UNCHANGED req
    BY <1>2, WorldEffect
  <2> QED
    BY <1>0, <1>2, <2>1, BackedGrows DEF BackedInv, InFlight, Said
<1>3. ASSUME NEW r \in Requests, Arrival(r)
      PROVE  BackedInv'
  <2>1. UNCHANGED <<now, signed>> /\ \A o \in Requests \ {r} : req'[o] = req[o]
    BY <1>3, ArrivalSays
  <2>2. Backed' = Backed
    BY <2>1 DEF Backed, Supports
  <2>3. InFlight(r)' => Said(r)' \in Backed[req'[r].payload[1]]
    BY <1>3, ArrivalSays
  <2> QED
    BY <2>1, <2>2, <2>3 DEF BackedInv, InFlight, Said
<1>4. ASSUME NEW r \in Requests, Continue(r)
      PROVE  BackedInv'
  <2>1. Backed' = Backed
    BY <1>4, ContinueSays DEF Backed, Supports
  <2> QED
    BY <1>4, <2>1, ContinueSays DEF BackedInv
<1> QED
  BY <1>1, <1>2, <1>3, <1>4 DEF Next

THEOREM SayingsAreBacked == Spec => [](IInv /\ BackedInv)
<1>1. Init => IInv /\ BackedInv
  BY InitIInv DEF Init, BackedInv, InFlight, Unused
<1>2. (IInv /\ BackedInv) /\ [Next]_vars => (IInv /\ BackedInv)'
  BY StepIInv, BackedStep
<1> QED
  BY <1>1, <1>2, PTL DEF Spec

(* Each statement of a request is a step of the promise or none at all.    *)
LEMMA UpsertEnters ==
  ASSUME IInv, BackedInv, NEW r \in Requests, UpsertSubscriptionReceipt(r)
  PROVE  Promise!Next \/ UNCHANGED Promise!paidVars
<1> DEFINE t == req[r].payload[1]
           c == Said(r)
<1>1. /\ InFlight(r) /\ Carried(r) /\ c \in Backed[t] /\ UNCHANGED user
      /\ UNCHANGED <<now, signed>> /\ Presentations' = Presentations
  BY ContinueSays DEF Continue, UpsertSubscriptionReceipt, InFlight, IInv, RequestInv, BackedInv
<1>2. Backed' = Backed
  BY <1>1 DEF Backed, Supports
<1>3. t \in Originals /\ <<req[r].user, t>> \in Presentations /\ req[r].user \in Users
  BY <1>1 DEF Carried, Entry, Presentations
<1>4. c \in Claim
  BY <1>1, <1>3 DEF Backed
<1>5. \/ UNCHANGED receipt
      \/ receipt' = [receipt EXCEPT ![t] =
           IF receipt[t] = None THEN Row(req[r])
           ELSE [Row(req[r]) EXCEPT !.owner = receipt[t].owner]]
  BY DEF UpsertSubscriptionReceipt
<1>6. CASE UNCHANGED receipt
  BY <1>1, <1>2, <1>6 DEF Promise!paidVars
<1>7. CASE receipt' = [receipt EXCEPT ![t] =
             IF receipt[t] = None THEN Row(req[r])
             ELSE [Row(req[r]) EXCEPT !.owner = receipt[t].owner]]
  <2>1. (IF receipt[t] = None THEN Row(req[r])
         ELSE [Row(req[r]) EXCEPT !.owner = receipt[t].owner])
        = [owner |-> IF receipt[t] = None THEN req[r].user ELSE receipt[t].owner,
           status |-> c.receipt, from |-> c.from]
    BY DEF Row, Said
  <2>2. receipt' = [receipt EXCEPT ![t] =
           [owner |-> IF @ = None THEN req[r].user ELSE @.owner,
            status |-> c.receipt, from |-> c.from]]
    BY <1>7, <2>1
  <2>3. Promise!Enter(req[r].user, t, c)
    BY <1>1, <1>2, <1>3, <2>2 DEF Promise!Enter
  <2> QED
    BY <1>3, <1>4, <2>3 DEF Promise!Next
<1> QED
  BY <1>5, <1>6, <1>7

LEMMA UpdateGrants ==
  ASSUME IInv, BackedInv, NEW r \in Requests, UpdateSubscription(r)
  PROVE  Promise!Next \/ UNCHANGED Promise!paidVars
<1> DEFINE t == req[r].payload[1]
           c == Said(r)
<1>1. /\ InFlight(r) /\ Carried(r) /\ c \in Backed[t] /\ UNCHANGED receipt
      /\ UNCHANGED <<now, signed>> /\ Presentations' = Presentations
      /\ req[r].phase = "update"
  BY ContinueSays DEF Continue, UpdateSubscription, InFlight, IInv, RequestInv, BackedInv
<1>2. Backed' = Backed
  BY <1>1 DEF Backed, Supports
<1>3. /\ t \in Originals /\ <<req[r].user, t>> \in Presentations /\ req[r].user \in Users
      /\ receipt[t] # None /\ req[r].payload = <<t, c.from>>
  BY <1>1 DEF Carried, Entry, Presentations, Said
<1>4. c \in Claim
  BY <1>1, <1>3 DEF Backed
<1>5. \/ UNCHANGED user
      \/ user' = [user EXCEPT ![req[r].user] = [status |-> req[r].status, from |-> req[r].payload]]
  BY DEF UpdateSubscription
<1>6. CASE UNCHANGED user
  BY <1>1, <1>2, <1>6 DEF Promise!paidVars
<1>7. CASE user' = [user EXCEPT ![req[r].user] = [status |-> req[r].status, from |-> req[r].payload]]
  <2>1. user' = [user EXCEPT ![req[r].user] = [status |-> c.user, from |-> <<t, c.from>>]]
    BY <1>3, <1>7 DEF Said
  <2>2. Promise!Grant(req[r].user, t, c)
    BY <1>1, <1>2, <1>3, <2>1 DEF Promise!Grant
  <2> QED
    BY <1>3, <1>4, <2>2 DEF Promise!Next
<1> QED
  BY <1>5, <1>6, <1>7

(* For any users, subscriptions, payloads and interleavings, the service   *)
(* keeps PaidAccess's promise: receipts never change hands, and no status  *)
(* is written that Apple's word on that subscription does not back.        *)
THEOREM AccessKeepsItsPromise == Spec => AccessIsPromised
<1>1. Init => Promise!Init
  <2> SUFFICES ASSUME Init PROVE Promise!Init
    OBVIOUS
  <2>1. \A t \in Originals : Len(signed[t]) = 0
    BY DEF Init
  <2>2. \A c \in Claim : c.from \in 1..MaxSigned
    BY DEF Claim
  <2>3. Backed = [t \in Originals |-> {}]
    BY <2>1, <2>2, BoundsAssumption DEF Backed
  <2>4. Presentations = {}
    BY DEF Init, Presentations, Presented, Unused
  <2> QED
    BY <2>3, <2>4 DEF Init, Promise!Init
<1>2. (IInv /\ BackedInv) /\ [Next]_vars => [Promise!Next]_Promise!paidVars
  <2> SUFFICES ASSUME IInv, BackedInv, [Next]_vars
               PROVE  Promise!Next \/ UNCHANGED Promise!paidVars
    OBVIOUS
  <2>1. CASE UNCHANGED vars
    BY <2>1 DEF vars, Promise!paidVars, Backed, Supports, Presentations, Presented
  <2>2. CASE World
    <3>1. UNCHANGED <<receipt, user, req>>
      BY <2>2, WorldEffect
    <3>2. Presentations' = Presentations
      BY <3>1 DEF Presentations, Presented
    <3>3. Backed' \in [Originals -> SUBSET Claim]
      BY DEF Backed
    <3>4. Promise!Learn
      BY <2>2, <3>1, <3>2, <3>3, BackedGrows DEF Promise!Learn
    <3> QED
      BY <3>4 DEF Promise!Next
  <2>3. ASSUME NEW r \in Requests, Arrival(r)
        PROVE  Promise!Next \/ UNCHANGED Promise!paidVars
    <3>1. UNCHANGED <<now, signed, receipt, user>>
      BY <2>3, ArrivalSays
    <3>2. Backed' = Backed
      BY <3>1 DEF Backed, Supports
    <3>3. CASE Presentations' = Presentations
      BY <3>1, <3>2, <3>3 DEF Promise!paidVars
    <3>4. ASSUME NEW u \in Users, NEW t \in Originals,
                 Presentations' = Presentations \cup {<<u, t>>}
          PROVE  Promise!Next
      BY <3>1, <3>2, <3>4 DEF Promise!Next, Promise!Present
    <3> QED
      BY <2>3, <3>3, <3>4, ArrivalSays
  <2> QED
    BY <2>1, <2>2, <2>3, UpsertEnters, UpdateGrants DEF Next, Continue
<1> QED
  BY <1>1, <1>2, SayingsAreBacked, PTL DEF Spec, AccessIsPromised, Promise!Spec
=============================================================================
