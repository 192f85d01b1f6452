---------------------------- MODULE Subscriptions ----------------------------
(***************************************************************************)
(* Apple subscriptions: the receipts (one row for each original            *)
(* transaction) and the subscription status on the user's row, which       *)
(* unlocks the paid menus.  Models api/storekit.go and api/subscription.go *)
(* over the tables subscription_receipts and users.                        *)
(*                                                                         *)
(* Two handlers write both tables, each with two statements that commit    *)
(* one by one: verifySubscription, which an app calls with the signed      *)
(* transaction StoreKit gave it, and appleWebhook, which Apple calls.      *)
(* Either may be given any payload Apple ever signed: the app keeps old    *)
(* ones, and Apple's notifications come late, twice, reordered or never.   *)
(***************************************************************************)
EXTENDS Naturals, Sequences

CONSTANTS
  Users,              \* app users, all registered
  Originals,          \* original transactions (subscriptions bought at Apple)
  Devices,            \* which user's app can present which transaction
  Requests,           \* ids of the requests the servers ever receive
  None,               \* a NULL, an absent row, a field not used
  StatementsMayFail,  \* whether SQL statements may report errors
  MaxSigned,          \* payloads Apple signs for one subscription
  MaxTime             \* length of the run, in subscription periods

Types == {"SUBSCRIBED", "DID_RENEW", "DID_FAIL_TO_RENEW", "EXPIRED", "REVOKE", "OTHER"}
ReceiptStatus == {"active", "expired", "revoked", "billing_retry"}
SubscriptionStatus == {"free", "active", "expired", "revoked"}

\* expires = 0: a product without expiresDate
Payload == [type : Types, expires : Nat, revoked : BOOLEAN]
Entry == Originals \X (1..MaxSigned)    \* a payload, named by its position

Receipt == [owner : Users, status : ReceiptStatus, from : 1..MaxSigned]
User == [status : SubscriptionStatus, from : Entry \cup {None}]
ASSUME DevicesAssumption == Devices \subseteq Users \X Originals
ASSUME NoneAssumption == None \notin Users \cup Originals \cup Requests
                         /\ None \notin Entry /\ None \notin Receipt
ASSUME BoundsAssumption == MaxSigned \in Nat /\ MaxTime \in Nat
ASSUME SwitchAssumption == StatementsMayFail \in BOOLEAN

VARIABLES
  now,      \* the wall clock
  signed,   \* at Apple: the payloads signed for each subscription, oldest first
  receipt,  \* subscription_receipts: None or the row of an original transaction
  user,     \* users: subscription_status, and the payload it was copied from
  req,      \* the requests: what each is doing and the locals of its handler
  crossed   \* history: subscriptions whose last request met another one under
            \* way, failed, or was by a user who does not own the receipt

vars == <<now, signed, receipt, user, req, crossed>>

Request ==
  [op      : {"none", "verify", "webhook"},
   user    : Users \cup {None},          \* whose row it updates
   payload : Entry \cup {None},          \* what it was given
   receipt : ReceiptStatus \cup {None},  \* the two statuses it derived
   status  : SubscriptionStatus \cup {None},
   phase   : {"unused", "upsert", "update", "ok", "ignored", "failed"}]

(* Every variable keeps its kind of value, the columns that of their enum: *)
(* billing_retry, above all, is for receipts and never for users.          *)
TypeOK ==
  /\ now \in 0..MaxTime
  /\ signed \in [Originals -> Seq(Payload)]
  /\ receipt \in [Originals -> Receipt \cup {None}]
  /\ user \in [Users -> User]
  /\ req \in [Requests -> Request]
  /\ crossed \subseteq Originals

Unused == [op |-> "none", user |-> None, payload |-> None,
           receipt |-> None, status |-> None, phase |-> "unused"]

Init ==
  /\ now = 0
  /\ signed = [t \in Originals |-> <<>>]
  /\ receipt = [t \in Originals |-> None]
  /\ user = [u \in Users |-> [status |-> "free", from |-> None]]
  /\ req = [r \in Requests |-> Unused]
  /\ crossed = {}

-----------------------------------------------------------------------------
(* Apple.                                                                  *)

Says(type, expires, revoked) == [type |-> type, expires |-> expires, revoked |-> revoked]

\* What Apple may sign after the payload p
After(p) ==
  IF p.revoked THEN {}
  ELSE {Says("REVOKE", p.expires, TRUE), Says("OTHER", p.expires, TRUE),
        Says("OTHER", p.expires, FALSE)}
       \cup (IF p.expires = 0 THEN {} ELSE {Says("DID_RENEW", now + 1, FALSE)})
       \cup (IF p.expires = 0 \/ p.expires >= now THEN {}
             ELSE {Says(type, p.expires, FALSE) : type \in {"DID_FAIL_TO_RENEW", "EXPIRED"}}
                  \cup {Says("SUBSCRIBED", now + 1, FALSE)})

AppleSigns(t) ==
  /\ Len(signed[t]) < MaxSigned
  /\ \E p \in IF signed[t] = <<>>
              THEN {Says("SUBSCRIBED", e, FALSE) : e \in {0, now + 1}}
              ELSE After(signed[t][Len(signed[t])]) :
       signed' = [signed EXCEPT ![t] = Append(@, p)]
  /\ UNCHANGED <<now, receipt, user, req, crossed>>

Tick ==
  /\ now < MaxTime
  /\ now' = now + 1
  /\ UNCHANGED <<signed, receipt, user, req, crossed>>

-----------------------------------------------------------------------------
(* What the handlers derive from a payload, a pair of statuses.            *)

\* Mutant: the two columns mixed up
StatusesSwapped(receiptStatus, userStatus) == [receipt |-> userStatus, user |-> receiptStatus]

Statuses(receiptStatus, userStatus) == [receipt |-> receiptStatus, user |-> userStatus]
Both(s) == Statuses(s, s)

\* Mutant: the revocation date is not looked at
DeriveWithoutRevocation(p) ==
  Both(IF p.expires > 0 /\ p.expires < now THEN "expired" ELSE "active")

DeriveStatus(p) ==
  Both(IF p.revoked THEN "revoked"
       ELSE IF p.expires > 0 /\ p.expires < now THEN "expired" ELSE "active")

\* Mutant: a failed renewal takes the user's access away at once
StatusWithoutGrace(p) ==
  CASE p.type \in {"SUBSCRIBED", "DID_RENEW"} -> Both("active")
    [] p.type = "DID_FAIL_TO_RENEW"      -> Statuses("billing_retry", "expired")
    [] p.type = "EXPIRED"                -> Both("expired")
    [] p.type = "REVOKE"                 -> Both("revoked")
    [] OTHER                             -> DeriveStatus(p)

StatusFromNotification(p) ==
  CASE p.type \in {"SUBSCRIBED", "DID_RENEW"} -> Both("active")
    [] p.type = "DID_FAIL_TO_RENEW"      -> Statuses("billing_retry", "active")
    [] p.type = "EXPIRED"                -> Both("expired")
    [] p.type = "REVOKE"                 -> Both("revoked")
    [] OTHER                             -> DeriveStatus(p)

-----------------------------------------------------------------------------
(* The handlers.                                                           *)

Outcomes == IF StatementsMayFail THEN {"done", "error", "lost"} ELSE {"done"}
Executed(o) == o # "error"

Signed(e) == e[2] <= Len(signed[e[1]])
Arrives(r) == req[r].phase = "unused"
Goto(r, phase) == req' = [req EXCEPT ![r].phase = phase]
InFlight(r) == req[r].phase \in {"upsert", "update"}
Begins(t) == crossed' = IF \E r \in Requests : InFlight(r) /\ req[r].payload[1] = t
                        THEN crossed \cup {t} ELSE crossed \ {t}
Crosses(r, if) == crossed' = IF if THEN crossed \cup {req[r].payload[1]} ELSE crossed
Handles(r, op, u, e, s, phase) ==
  req' = [req EXCEPT ![r] = [op |-> op, user |-> u, payload |-> e,
                             receipt |-> s.receipt, status |-> s.user, phase |-> phase]]

\* Mutant: the user's row first, the receipt afterwards
VerifyUserFirst(r) ==
  /\ Arrives(r)
  /\ \E e \in Entry, u \in Users :
       /\ <<u, e[1]>> \in Devices /\ Signed(e)
       /\ LET s == DeriveStatus(signed[e[1]][e[2]])
          IN /\ user' = [user EXCEPT ![u] = [status |-> s.user, from |-> e]]
             /\ Handles(r, "verify", u, e, s, "upsert")
       /\ Begins(e[1])
  /\ UNCHANGED <<now, signed, receipt>>

\* POST /subscription/verify, up to its first statement
VerifySubscription(r) ==
  /\ Arrives(r)
  /\ \E e \in Entry, u \in Users :
       /\ <<u, e[1]>> \in Devices /\ Signed(e)
       /\ Handles(r, "verify", u, e, DeriveStatus(signed[e[1]][e[2]]), "upsert")
       /\ Begins(e[1])
  /\ UNCHANGED <<now, signed, receipt, user>>

\* POST /webhooks/apple, up to and with the lookup of the receipt: a payload
\* about a transaction nobody presented yet is acknowledged and dropped
AppleWebhook(r) ==
  /\ Arrives(r)
  /\ \E e \in Entry :
       /\ Signed(e)
       /\ LET row == receipt[e[1]]
              s == StatusFromNotification(signed[e[1]][e[2]])
          IN \/ /\ row # None
                /\ Handles(r, "webhook", row.owner, e, s, "upsert")
                /\ Begins(e[1])
             \/ /\ row = None
                /\ Handles(r, "webhook", None, e, s, "ignored")
                /\ UNCHANGED crossed
             \/ /\ StatementsMayFail
                /\ Handles(r, "webhook", None, e, s, "failed")
                /\ UNCHANGED crossed
  /\ UNCHANGED <<now, signed, receipt, user>>

Row(q) == [owner |-> q.user, status |-> q.receipt, from |-> q.payload[2]]

\* Mutant: the conflict clause overwrites user_id too
UpsertTakesOwner(r) ==
  /\ req[r].phase = "upsert"
  /\ receipt' = [receipt EXCEPT ![req[r].payload[1]] = Row(req[r])]
  /\ Goto(r, "update")
  /\ UNCHANGED <<now, signed, user, crossed>>

\* UpsertSubscriptionReceipt: on conflict everything but the owner is replaced
UpsertSubscriptionReceipt(r) ==
  /\ req[r].phase = "upsert"
  /\ \E o \in Outcomes :
       /\ receipt' = IF Executed(o)
                     THEN [receipt EXCEPT ![req[r].payload[1]] =
                             IF @ = None THEN Row(req[r])
                             ELSE [Row(req[r]) EXCEPT !.owner = receipt[req[r].payload[1]].owner]]
                     ELSE receipt
       /\ Goto(r, IF o = "done" THEN "update" ELSE "failed")
       /\ LET old == receipt[req[r].payload[1]] IN
          Crosses(r, o # "done" \/ (old # None /\ old.owner # req[r].user))
  /\ UNCHANGED <<now, signed, user>>

\* UpdateSubscription: the handler's own user, whoever owns the receipt
UpdateSubscription(r) ==
  /\ req[r].phase = "update"
  /\ \E o \in Outcomes :
       /\ user' = IF Executed(o)
                  THEN [user EXCEPT ![req[r].user] =
                          [status |-> req[r].status, from |-> req[r].payload]]
                  ELSE user
       /\ Goto(r, IF o = "done" THEN "ok" ELSE "failed")
       /\ Crosses(r, o # "done")
  /\ UNCHANGED <<now, signed, receipt>>

World == Tick \/ \E t \in Originals : AppleSigns(t)
Arrival(r) == VerifySubscription(r) \/ AppleWebhook(r)
Continue(r) == UpsertSubscriptionReceipt(r) \/ UpdateSubscription(r)
Next == World \/ \E r \in Requests : Arrival(r) \/ Continue(r)

Spec == Init /\ [][Next]_vars

\* A lightly loaded service: a request arrives when none is being served
OneAtATime ==
  \A r \in Requests : Arrives(r) /\ req'[r] # req[r] => ~\E other \in Requests : InFlight(other)
SerialSpec == Init /\ [][Next /\ OneAtATime]_vars

-----------------------------------------------------------------------------
(* Properties.                                                             *)

IsPaidUser(u) == user[u].status = "active"
Presented(u, t) == \E r \in Requests :
  req[r].op = "verify" /\ req[r].user = u /\ req[r].payload[1] = t

(* A webhook looks the receipt's owner up, and writes a status to that     *)
(* user one or two statements later: the user is still the owner then,     *)
(* whatever other devices presented the same transaction in between.       *)
WebhookReachesOwner == \A r \in Requests :
  req[r].op = "webhook" /\ InFlight(r) =>
    LET row == receipt[req[r].payload[1]] IN row # None /\ row.owner = req[r].user

(* A user with any status but the initial one presented, in the app, the   *)
(* very subscription the status was copied from, and that subscription has *)
(* a receipt on file: nobody is let in (or out) on another's account, and  *)
(* no failure between the two statements leaves access without a receipt.  *)
AccessHasReceipt == \A u \in Users :
  user[u].from # None =>
    LET t == user[u].from[1] IN Presented(u, t) /\ receipt[t] # None

(* Access is paid for: a user's row says active only if the payload it was *)
(* copied from neither revokes the subscription nor announces its end.     *)
ActiveWasSigned == \A u \in Users :
  IsPaidUser(u) =>
    /\ user[u].from # None
    /\ LET p == signed[user[u].from[1]][user[u].from[2]]
       IN ~p.revoked /\ p.type \notin {"REVOKE", "EXPIRED"}

Agree(receiptStatus, userStatus) ==
  userStatus = (IF receiptStatus = "billing_retry" THEN "active" ELSE receiptStatus)

(* Both handlers converge.  Whatever crossed or failed before, once a      *)
(* request of the owner's or of Apple's has gone through on its own, the   *)
(* row of the receipt's owner says what the receipt says, from the same    *)
(* payload.  (For a user with one subscription: the status column has room *)
(* for one.)                                                               *)
Settled(t) == t \notin crossed /\ ~\E r \in Requests : InFlight(r) /\ req[r].payload[1] = t
InSync == \A t \in Originals :
  receipt[t] # None /\ Settled(t) =>
    LET row == receipt[t] IN
    (\A other \in Originals : Presented(row.owner, other) => other = t) =>
      /\ user[row.owner].from = <<t, row.from>>
      /\ Agree(row.status, user[row.owner].status)

(* What PaidAccess promises: receipts never change hands, every status in  *)
(* either table is one that a payload of that very subscription backed     *)
(* when it was written, and only what a user's own app presented moves     *)
(* that user's access, however requests interleave and fail.               *)
Claim == {c \in [from : 1..MaxSigned, receipt : ReceiptStatus, user : SubscriptionStatus] :
            Agree(c.receipt, c.user)}
Supports(p, c) ==
  \/ c.receipt = "revoked" /\ p.revoked
  \/ c.receipt = "expired" /\ ~p.revoked /\ p.expires > 0 /\ p.expires < now
  \/ c.receipt = "active" /\ ~p.revoked /\ p.type # "EXPIRED"
  \/ c.receipt = "billing_retry" /\ p.type = "DID_FAIL_TO_RENEW"
Backed == [t \in Originals |-> {c \in Claim : /\ c.from <= Len(signed[t])
                                             /\ Supports(signed[t][c.from], c)}]
Presentations == {x \in Users \X Originals : Presented(x[1], x[2])}
Promise == INSTANCE PaidAccess WITH
  Subscriptions <- Originals, Claims <- Claim,
  backed <- Backed, presented <- Presentations, book <- receipt, access <- user
AccessIsPromised == Promise!Spec

(* db/query/subscription_receipts.sql: the latest state always wins.  No   *)
(* receipt goes back to what Apple had said before.                        *)
LatestStateWins ==
  [][\A t \in Originals : receipt[t] # None => receipt'[t].from >= receipt[t].from]_vars
=============================================================================
