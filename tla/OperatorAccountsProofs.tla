----------------------- MODULE OperatorAccountsProofs -----------------------
(***************************************************************************)
(* Proofs about OperatorAccounts, for any sets of operators, passwords and *)
(* requests, with and without failing statements.                          *)
(***************************************************************************)
EXTENDS OperatorAccounts, TLAPS

-----------------------------------------------------------------------------
(* Type correctness.                                                       *)

(* What a handler makes of its request is a request.                       *)
LEMMA ReceivedType ==
  ASSUME NEW op \in Ops, NEW a \in Admins \cup {None},
         NEW p \in Passwords \cup {None}, NEW phase \in {"unused"} \cup InFlight \cup Ended
  PROVE  Received(op, a, p, phase) \in Request
  BY DEF Received, Request

LEMMA GotoType ==
  ASSUME TypeOK, NEW r \in Requests,
         NEW phase \in {"unused"} \cup InFlight \cup Ended, Goto(r, phase)
  PROVE  req' \in [Requests -> Request]
  BY DEF TypeOK, Goto, Request

LEMMA BecomesType ==
  ASSUME TypeOK, NEW r \in Requests, NEW record \in Request, Becomes(r, record)
  PROVE  req' \in [Requests -> Request]
  BY DEF TypeOK, Becomes

(* Whatever of its tables a request has still to purge is of the known two.*)
LEMMA PurgedType ==
  ASSUME TypeOK, NEW r \in Requests, NEW tables,
         NEW phase \in {"unused"} \cup InFlight \cup Ended, Purged(r, tables, phase)
  PROVE  req' \in [Requests -> Request]
  <1>1. req[r] \in Request
    BY DEF TypeOK
  <1>2. [req[r] EXCEPT !.phase = phase, !.owed = req[r].owed \ tables] \in Request
    BY <1>1 DEF Request
  <1> QED
    BY <1>1, <1>2, BecomesType DEF Purged, Request

LEMMA TypeInit == Init => TypeOK
  <1> SUFFICES ASSUME Init PROVE TypeOK
    OBVIOUS
  <1>1. Unused \in Request
    BY ReceivedType DEF Unused, Ops
  <1> QED
    BY <1>1 DEF Init, TypeOK, LinkStates

(* Each step of an arriving request keeps the types.                       *)
LEMMA TypeArrival ==
  ASSUME TypeOK, NEW r \in Requests, Arrival(r)
  PROVE  TypeOK'
  <1> USE DEF InFlight, Ended, Ops
  <1>1. CASE ReadFails(r)
    BY <1>1, GotoType DEF TypeOK, ReadFails
  <1>2. CASE Bootstrap(r) \/ CreateInternalAdmin(r)
    <2>1. PICK a \in Admins, p \in Passwords :
            /\ UNCHANGED <<sessions, links, live>>
            /\ IF p \in Unhashable \/ hash[a] # None
               THEN Goto(r, "refused") /\ UNCHANGED <<hash, written>>
               ELSE \E o \in Outcomes :
                      /\ Becomes(r, Received("create", a, p, IF o = "done" THEN "ok" ELSE "failed"))
                      /\ IF Executed(o)
                         THEN /\ hash' = [hash EXCEPT ![a] = r]
                              /\ written' = written \cup {r}
                         ELSE UNCHANGED <<hash, written>>
      BY <1>2 DEF Bootstrap, CreateInternalAdmin, InsertAccount
    <2>2. req' \in [Requests -> Request]
      BY <2>1, GotoType, BecomesType, ReceivedType
    <2>3. hash' \in [Admins -> Requests \cup {None}] /\ written' \subseteq Requests
      BY <2>1 DEF TypeOK
    <2> QED
      BY <2>1, <2>2, <2>3 DEF TypeOK
  <1>3. CASE Renew(r)
    <2>1. \A m \in Requests : req[m].admin \in Admins \cup {None}
      BY DEF TypeOK, Request
    <2>2. req' \in [Requests -> Request]
      BY <1>3, <2>1, GotoType, BecomesType, ReceivedType DEF Renew
    <2> QED
      BY <1>3, <2>2 DEF Renew, TypeOK, TokenKinds
  <1>4. CASE Logout(r)
    BY <1>4, GotoType DEF Logout, TypeOK
  <1>5. CASE Login(r)
    <2>1. \A a \in Admins : hash[a] \in Requests \cup {None}
      BY DEF TypeOK
    <2>2. \A a \in Admins :
            [Received("login", a, None, "mint") EXCEPT !.seen = hash[a]] \in Request
      BY <2>1 DEF Received, Request
    <2> QED
      BY <1>5, <2>2, GotoType, BecomesType DEF Login, TypeOK
  <1>6. CASE SetInternalAdminPassword(r)
    BY <1>6, GotoType, BecomesType, ReceivedType DEF SetInternalAdminPassword, TypeOK
  <1>7. CASE ChangeInternalPassword(r)
    <2>1. \A a \in Admins : hash[a] \in Requests \cup {None}
      BY DEF TypeOK
    <2>2. \A a \in Admins, p \in Passwords :
            [Received("change", a, p, "update") EXCEPT !.seen = hash[a]] \in Request
      BY <2>1 DEF Received, Request
    <2> QED
      BY <1>7, <2>2, GotoType, BecomesType DEF ChangeInternalPassword, TypeOK
  <1>8. CASE ForgotInternalPassword(r)
    BY <1>8, GotoType, BecomesType, ReceivedType DEF ForgotInternalPassword, TypeOK
  <1>9. CASE ResetInternalPassword(r)
    <2>1. \A l \in Requests : req[l].admin \in Admins \cup {None}
      BY DEF TypeOK, Request
    <2>2. \A l \in Requests, p \in Passwords :
            [Received("reset", req[l].admin, p, "claim") EXCEPT !.link = l] \in Request
      BY <2>1 DEF Received, Request
    <2> QED
      BY <1>9, <2>2, GotoType, BecomesType DEF ResetInternalPassword, TypeOK
  <1> QED
    BY <1>1, <1>2, <1>3, <1>4, <1>5, <1>6, <1>7, <1>8, <1>9 DEF Arrival

(* Each later step of a request keeps the types.                           *)
LEMMA TypeContinue ==
  ASSUME TypeOK, NEW r \in Requests, Continue(r)
  PROVE  TypeOK'
  <1> USE DEF InFlight, Ended
  <1>1. CASE StoreLink(r)
    BY <1>1, GotoType DEF StoreLink, TypeOK, LinkStates, TokenKinds
  <1>2. CASE MailLink(r)
    BY <1>2, GotoType DEF MailLink, TypeOK
  <1>3. CASE ClaimLink(r)
    BY <1>3, GotoType DEF ClaimLink, TypeOK, LinkStates
  <1>4. CASE StorePassword(r)
    <2>1. req[r] \in Request
      BY DEF TypeOK
    <2>2. ASSUME NEW phase \in {"purgeSessions", "failed"}, Replaced(r, phase)
          PROVE  req' \in [Requests -> Request]
      BY <2>1, <2>2, BecomesType
         DEF Replaced, Request, SessionsOf, OpenLinksOf, SigningInTo, TypeOK
    <2>3. req' \in [Requests -> Request]
      BY <1>4, <2>2, GotoType DEF StorePassword
    <2>4. hash' \in [Admins -> Requests \cup {None}] /\ written' \subseteq Requests
      BY <1>4 DEF StorePassword, TypeOK
    <2> QED
      BY <1>4, <2>3, <2>4 DEF StorePassword, TypeOK
  <1>5. CASE PurgeSessions(r)
    BY <1>5, GotoType, PurgedType DEF PurgeSessions, TypeOK
  <1>6. CASE PurgeLinks(r)
    <2>1. links' \in [Requests -> LinkStates]
      BY <1>6 DEF PurgeLinks, TypeOK, LinkStates
    <2>2. req' \in [Requests -> Request]
      BY <1>6, GotoType, PurgedType DEF PurgeLinks
    <2> QED
      BY <1>6, <2>1, <2>2 DEF PurgeLinks, TypeOK
  <1>7. CASE MintSession(r)
    BY <1>7, GotoType DEF MintSession, TypeOK, TokenKinds
  <1> QED
    BY <1>1, <1>2, <1>3, <1>4, <1>5, <1>6, <1>7 DEF Continue

LEMMA TypeStep == TypeOK /\ [Next]_vars => TypeOK'
  <1> SUFFICES ASSUME TypeOK, [Next]_vars PROVE TypeOK'
    OBVIOUS
  <1>1. CASE Expire
    BY <1>1 DEF Expire, TypeOK
  <1>2. ASSUME NEW r \in Requests, Arrival(r) \/ Continue(r)
        PROVE  TypeOK'
    BY <1>2, TypeArrival, TypeContinue
  <1>3. CASE UNCHANGED vars
    BY <1>3 DEF vars, TypeOK
  <1> QED
    BY <1>1, <1>2, <1>3 DEF Next

(* Whatever requests arrive, and whichever statements fail, every variable *)
(* of the model keeps its type.                                            *)
THEOREM TypeCorrect == Spec => []TypeOK
  BY TypeInit, TypeStep, PTL DEF Spec

-----------------------------------------------------------------------------
(* The inductive invariant.                                                *)

(* A step of r that only moves its program counter leaves the rest.        *)
LEMMA GotoEffect ==
  ASSUME TypeOK, NEW r \in Requests, NEW phase, Goto(r, phase)
  PROVE  /\ req'[r].phase = phase
         /\ \A s \in Requests :
              /\ req'[s].op = req[s].op /\ req'[s].admin = req[s].admin
              /\ req'[s].seen = req[s].seen /\ req'[s].link = req[s].link
              /\ req'[s].old = req[s].old /\ req'[s].crossing = req[s].crossing
              /\ req'[s].owed = req[s].owed
              /\ s # r => req'[s] = req[s]
  BY DEF TypeOK, Goto, Request

LEMMA BecomesEffect ==
  ASSUME TypeOK, NEW r \in Requests, NEW record, Becomes(r, record)
  PROVE  req'[r] = record /\ \A s \in Requests : s # r => req'[s] = req[s]
  BY DEF TypeOK, Becomes

LEMMA InitInv == Init => IInv
  <1> SUFFICES ASSUME Init PROVE IInv
    OBVIOUS
  <1>1. TypeOK
    BY TypeInit
  <1>2. \A r \in Requests : req[r] = Unused /\ links[r] = "none"
    BY DEF Init
  <1>3. hash = [a \in Admins |-> None] /\ sessions = {} /\ written = {}
    BY DEF Init
  <1>4. NoTraceYet /\ RowsAreSettled /\ OldIsSettled
    BY <1>2, <1>3 DEF NoTraceYet, RowsAreSettled, OldIsSettled, Unused, Received
  <1>5. HashesAreWritten /\ WritersAreBacked
    BY <1>2, <1>3 DEF HashesAreWritten, WritersAreBacked, Replaces, Unused, Received
  <1>6. ClaimedIsClosed /\ OneClaim
    BY <1>2, <1>3 DEF ClaimedIsClosed, OneClaim, PassedClaim, Unused, Received
  <1>7. PurgedSoFar
    BY <1>2, <1>3 DEF PurgedSoFar, RevokedOnSuccess, Unused, Received
  <1>8. SignersAreKnown /\ StaleSessionsCrossed
    BY <1>2, <1>3 DEF SignersAreKnown, StaleSessionsCrossed, SigningIn, Unused, Received
  <1> QED
    BY <1>1, <1>4, <1>5, <1>6, <1>7, <1>8 DEF IInv

(* What is known of sessions and of those about to open one stays known    *)
(* while no hash is stored: the request that stored the hash in force      *)
(* keeps its crossing, and owes its delete as long as a session it would   *)
(* remove is there.                                                        *)
LEMMA SignersKept ==
  ASSUME IInv, UNCHANGED hash,
         \A m \in Requests : SigningIn(m) \/ m \in sessions =>
           /\ req'[m].op = req[m].op /\ req'[m].admin = req[m].admin
           /\ req'[m].seen = req[m].seen,
         \A h \in written : req'[h].crossing = req[h].crossing,
         \A m \in Requests : SigningIn(m)' => SigningIn(m),
         \A m \in sessions' : m \in sessions \/ (m \in Requests /\ SigningIn(m)),
         \A m \in sessions', h \in written :
           req[h].admin = req[m].admin /\ "sessions" \in req[h].owed
             => "sessions" \in req'[h].owed
  PROVE  SignersAreKnown' /\ StaleSessionsCrossed'
  <1> DEFINE h(m) == hash[req[m].admin]
  <1>1. \A m \in sessions' : m \in Requests
    BY DEF IInv, TypeOK
  <1>2. ASSUME NEW m \in Requests, SigningIn(m) \/ m \in sessions
        PROVE  /\ req[m].op \in {"login", "change"} /\ req[m].admin \in Admins
               /\ h(m) # None /\ h(m) \in written /\ req[h(m)].admin = req[m].admin
               /\ req'[m].op = req[m].op /\ req'[m].admin = req[m].admin
               /\ IsCurrent(m)' <=> IsCurrent(m)
               /\ Crossing(m)' <=> Crossing(m)
    <2>1. req[m].op \in {"login", "change"} /\ req[m].admin \in Admins /\ h(m) # None
      BY <1>2 DEF IInv, SignersAreKnown
    <2>2. h(m) \in written /\ req[h(m)].admin = req[m].admin
      BY <2>1 DEF IInv, HashesAreWritten
    <2>3. hash'[req'[m].admin] = h(m)
      BY <1>2
    <2>4. IsCurrent(m)' <=> IsCurrent(m)
      BY <1>2, <2>3 DEF IsCurrent, OpenedUnder
    <2>5. Crossing(m)' <=> Crossing(m)
      BY <2>2, <2>3 DEF Crossing
    <2> QED
      BY <1>2, <2>1, <2>2, <2>4, <2>5
  <1>3. SignersAreKnown'
    <2>1. ASSUME NEW m \in Requests, SigningIn(m)' \/ m \in sessions'
          PROVE  (req[m].op \in {"login", "change"} /\ req[m].admin \in Admins /\ hash[req[m].admin] # None)'
      BY <1>2, <2>1
    <2>2. ASSUME NEW m \in Requests, SigningIn(m)'
          PROVE  (IsCurrent(m) \/ Crossing(m))'
      BY <1>2, <2>2 DEF IInv, SignersAreKnown
    <2> QED
      BY <2>1, <2>2 DEF SignersAreKnown
  <1>4. StaleSessionsCrossed'
    <2> SUFFICES ASSUME NEW m \in sessions'
                 PROVE  IsCurrent(m)' \/ Crossing(m)' \/ "sessions" \in req'[hash'[req'[m].admin]].owed
      BY DEF StaleSessionsCrossed
    <2>1. m \in Requests /\ (m \in sessions \/ SigningIn(m))
      BY <1>1
    <2>2. IsCurrent(m) \/ Crossing(m) \/ "sessions" \in req[h(m)].owed
      BY <2>1 DEF IInv, SignersAreKnown, StaleSessionsCrossed
    <2>3. CASE "sessions" \in req[h(m)].owed
      BY <1>2, <2>1, <2>3
    <2> QED
      BY <1>2, <2>1, <2>2, <2>3
  <1> QED
    BY <1>3, <1>4

(* An arriving request that stores nothing: it is refused, or it goes on   *)
(* to its first statement with the evidence its lookup found.              *)
LEMMA LookupInv ==
  ASSUME IInv, NEW r \in Requests, Arrives(r),
         UNCHANGED <<hash, links, written>>, sessions' \subseteq sessions,
         TypeOK',
         \A s \in Requests : s # r => req'[s] = req[s],
         req'[r].old = {}, req'[r].owed = {},
         req'[r].phase \in {"ok", "refused", "failed", "mint", "store", "claim", "update"},
         req'[r].phase = "update" => req'[r].op \in {"set", "change"},
         req'[r].phase = "claim" => req'[r].op = "reset",
         req'[r].phase = "mint" => /\ req'[r].op = "login" /\ req'[r].admin \in Admins
                                   /\ req'[r].seen = hash[req'[r].admin]
                                   /\ hash[req'[r].admin] # None,
         req'[r].op \in {"set", "change"} \/ req'[r].phase = "store"
           => req'[r].admin \in Admins /\ hash[req'[r].admin] # None,
         req'[r].op = "change" => /\ req'[r].seen \in written
                                  /\ req[req'[r].seen].admin = req'[r].admin,
         req'[r].op = "reset" => /\ req'[r].link \in Requests
                                 /\ req[req'[r].link].phase = "sent"
                                 /\ req[req'[r].link].admin = req'[r].admin
  PROVE  IInv'
  <1> USE DEF IInv
  <1>1. r \notin written /\ links[r] = "none"
    BY DEF NoTraceYet, Arrives
  <1>2. NoTraceYet'
    BY <1>1 DEF NoTraceYet
  <1>3. RowsAreSettled'
    BY <1>1 DEF RowsAreSettled, Settled, Arrives, Ended
  <1>4. OldIsSettled'
    BY DEF OldIsSettled, Settled, Arrives, Ended, TypeOK, Request
  <1>5. HashesAreWritten'
    BY <1>1 DEF HashesAreWritten, TypeOK
  <1>6. WritersAreBacked'
    <2>1. ASSUME NEW s \in Requests, s # r
          PROVE  /\ req'[s].op = "change" => req'[s].seen # r
                 /\ req'[s].op = "reset" => req'[s].link # r
      BY <2>1, <1>1 DEF WritersAreBacked, Arrives
    <2> QED
      BY <1>1, <2>1 DEF WritersAreBacked, Replaces, Arrives, TypeOK
  <1>7. \A s \in Requests : PassedClaim(s)' <=> PassedClaim(s) /\ s # r
    BY <1>1 DEF PassedClaim, Arrives
  <1>8. ClaimedIsClosed' /\ OneClaim'
    BY <1>7 DEF ClaimedIsClosed, OneClaim
  <1>9. PurgedSoFar'
    <2>1. ASSUME NEW s \in Requests, s # r PROVE req'[s] = req[s]
      BY <2>1
    <2> QED
      BY <2>1 DEF PurgedSoFar, RevokedOnSuccess
  <1>10. SignersAreKnown' /\ StaleSessionsCrossed'
    <2>1. r \notin sessions
      BY DEF RowsAreSettled, Settled, Arrives, Ended
    <2>2. \A a \in Admins : hash[a] # None => hash[a] \in written /\ hash[a] # r
      BY <1>1 DEF HashesAreWritten
    <2>3. \A m \in sessions : m \in Requests /\ m # r
      BY <2>1 DEF TypeOK
    <2>4. ASSUME NEW m \in Requests, m # r, SigningIn(m) \/ m \in sessions
          PROVE  /\ (req[m].op \in {"login", "change"} /\ req[m].admin \in Admins
                       /\ hash[req[m].admin] # None)'
                 /\ IsCurrent(m)' <=> IsCurrent(m)
                 /\ Crossing(m)' <=> Crossing(m)
                 /\ "sessions" \in req'[hash'[req'[m].admin]].owed
                      <=> "sessions" \in req[hash[req[m].admin]].owed
      <3>1. /\ req[m].op \in {"login", "change"} /\ req[m].admin \in Admins
            /\ hash[req[m].admin] # None
        BY <2>4 DEF SignersAreKnown
      <3>2. hash[req[m].admin] \in Requests /\ hash[req[m].admin] # r
        BY <2>2, <3>1 DEF TypeOK
      <3> QED
        BY <2>4, <3>1, <3>2 DEF IsCurrent, OpenedUnder, Crossing
    <2>5. \A m \in Requests : SigningIn(m)' => SigningIn(m) \/ m = r
      BY DEF SigningIn
    <2>6. SigningIn(r)' =>
            /\ (req[r].op \in {"login", "change"} /\ req[r].admin \in Admins
                  /\ hash[req[r].admin] # None)'
            /\ IsCurrent(r)'
      BY DEF SigningIn, IsCurrent, OpenedUnder
    <2>7. SignersAreKnown'
      BY <2>3, <2>4, <2>5, <2>6 DEF SignersAreKnown
    <2>8. StaleSessionsCrossed'
      BY <2>3, <2>4 DEF StaleSessionsCrossed
    <2> QED
      BY <2>7, <2>8
  <1> QED
    BY <1>2, <1>3, <1>4, <1>5, <1>6, <1>8, <1>9, <1>10

(* The statement that stores a new account, when it is executed.           *)
LEMMA InsertInv ==
  ASSUME IInv, NEW r \in Requests, Arrives(r), TypeOK',
         NEW a \in Admins, NEW p \in Passwords, NEW phase \in {"ok", "failed"},
         hash[a] = None, hash' = [hash EXCEPT ![a] = r], written' = written \cup {r},
         Becomes(r, Received("create", a, p, phase)), UNCHANGED <<sessions, links>>
  PROVE  IInv'
  <1> USE DEF IInv
  <1>1. req'[r] = Received("create", a, p, phase) /\ \A s \in Requests : s # r => req'[s] = req[s]
    BY BecomesEffect
  <1>2. /\ req'[r].op = "create" /\ req'[r].admin = a /\ req'[r].old = {}
        /\ req'[r].phase = phase /\ req'[r].owed = {}
    BY <1>1 DEF Received
  <1>3. r \notin written /\ links[r] = "none" /\ r \notin sessions
    BY DEF NoTraceYet, RowsAreSettled, Settled, Arrives, Ended
  <1>4. NoTraceYet'
    BY <1>1, <1>2, <1>3 DEF NoTraceYet
  <1>5. RowsAreSettled' /\ OldIsSettled'
    <2>1. \A m \in Requests : Settled(m) => m # r
      BY DEF Settled, Arrives, Ended
    <2>2. \A m \in Requests : Settled(m) => Settled(m)'
      BY <1>1, <2>1 DEF Settled
    <2>3. \A s \in Requests : req[s].old \subseteq Requests
      BY DEF TypeOK, Request
    <2>4. RowsAreSettled'
      BY <1>3, <2>2 DEF RowsAreSettled
    <2>5. OldIsSettled'
      BY <1>1, <1>2, <2>1, <2>2, <2>3 DEF OldIsSettled
    <2> QED
      BY <2>4, <2>5
  <1>6. HashesAreWritten'
    BY <1>1, <1>2, <1>3, NoneAssumption DEF HashesAreWritten, TypeOK
  <1>7. WritersAreBacked'
    <2>1. ASSUME NEW s \in Requests, s # r
          PROVE  /\ req'[s].op = "change" => req'[s].seen # r
                 /\ req'[s].op = "reset" => req'[s].link # r
      BY <2>1, <1>1, <1>3 DEF WritersAreBacked, Arrives
    <2> QED
      BY <1>1, <1>2, <1>3, <2>1, NoneAssumption
         DEF WritersAreBacked, Replaces, Arrives, TypeOK, Request
  <1>8. \A s \in Requests : PassedClaim(s)' <=> PassedClaim(s) /\ s # r
    BY <1>1, <1>2, <1>3 DEF PassedClaim, Arrives
  <1>9. ClaimedIsClosed' /\ OneClaim'
    BY <1>1, <1>8 DEF ClaimedIsClosed, OneClaim
  <1>10. PurgedSoFar'
    BY <1>1, <1>2 DEF PurgedSoFar, RevokedOnSuccess
  <1>11. SignersAreKnown' /\ StaleSessionsCrossed'
    <2>1. ASSUME NEW m \in Requests, SigningIn(m) \/ m \in sessions, m # r
          PROVE  /\ (req[m].op \in {"login", "change"} /\ req[m].admin \in Admins
                       /\ hash[req[m].admin] # None)'
                 /\ IsCurrent(m)' <=> IsCurrent(m)
                 /\ Crossing(m)' <=> Crossing(m)
                 /\ "sessions" \in req'[hash'[req'[m].admin]].owed
                      <=> "sessions" \in req[hash[req[m].admin]].owed
      <3>1. /\ req[m].op \in {"login", "change"} /\ req[m].admin \in Admins
            /\ hash[req[m].admin] # None
        BY <2>1 DEF SignersAreKnown
      <3>2. hash[req[m].admin] \in written /\ hash[req[m].admin] # r
        BY <1>3, <3>1 DEF HashesAreWritten
      <3>3. hash'[req'[m].admin] = hash[req[m].admin] /\ req'[m] = req[m]
        BY <1>1, <2>1, <3>1 DEF TypeOK
      <3>4. hash[req[m].admin] \in Requests
        BY <3>2 DEF TypeOK
      <3> QED
        BY <1>1, <3>1, <3>2, <3>3, <3>4 DEF IsCurrent, OpenedUnder, Crossing
    <2>2. \A m \in Requests : SigningIn(m)' => SigningIn(m) /\ m # r
      BY <1>1, <1>2 DEF SigningIn
    <2>3. \A m \in sessions : m \in Requests /\ m # r
      BY <1>3 DEF TypeOK
    <2>4. SignersAreKnown'
      BY <2>1, <2>2, <2>3 DEF SignersAreKnown
    <2>5. StaleSessionsCrossed'
      BY <2>1, <2>3 DEF StaleSessionsCrossed
    <2> QED
      BY <2>4, <2>5
  <1> QED
    BY <1>4, <1>5, <1>6, <1>7, <1>9, <1>10, <1>11

LEMMA ArrivalInv ==
  ASSUME IInv, NEW r \in Requests, Arrival(r)
  PROVE  IInv'
  <1>1. TypeOK /\ TypeOK'
    BY TypeArrival DEF IInv
  <1>2. Arrives(r)
    BY DEF Arrival, ReadFails, Bootstrap, CreateInternalAdmin, Renew, Logout, Login,
           SetInternalAdminPassword, ChangeInternalPassword, ForgotInternalPassword,
           ResetInternalPassword
  <1>3. req[r].op = "none" /\ req[r].old = {} /\ req[r].owed = {}
    BY <1>2 DEF IInv, NoTraceYet, Arrives, Unused, Received
  <1>4. ASSUME NEW phase \in {"ok", "refused", "failed"}, Goto(r, phase),
               UNCHANGED <<hash, links, written>>, sessions' \subseteq sessions
        PROVE  IInv'
    BY <1>1, <1>2, <1>3, <1>4, GotoEffect, LookupInv
  <1>5. CASE ReadFails(r)
    BY <1>4, <1>5 DEF ReadFails
  <1>6. CASE Bootstrap(r) \/ CreateInternalAdmin(r)
    <2>1. PICK a \in Admins, p \in Passwords :
            /\ UNCHANGED <<sessions, links, live>>
            /\ IF p \in Unhashable \/ hash[a] # None
               THEN Goto(r, "refused") /\ UNCHANGED <<hash, written>>
               ELSE \E o \in Outcomes :
                      /\ Becomes(r, Received("create", a, p, IF o = "done" THEN "ok" ELSE "failed"))
                      /\ IF Executed(o)
                         THEN /\ hash' = [hash EXCEPT ![a] = r]
                              /\ written' = written \cup {r}
                         ELSE UNCHANGED <<hash, written>>
      BY <1>6 DEF Bootstrap, CreateInternalAdmin, InsertAccount
    <2>2. CASE p \in Unhashable \/ hash[a] # None
      BY <1>4, <2>1, <2>2
    <2>3. CASE ~(p \in Unhashable \/ hash[a] # None)
      <3>1. PICK phase \in {"ok", "failed"} :
              /\ Becomes(r, Received("create", a, p, phase))
              /\ \/ hash' = [hash EXCEPT ![a] = r] /\ written' = written \cup {r}
                 \/ UNCHANGED <<hash, written>>
        BY <2>1, <2>3
      <3>2. CASE hash' = [hash EXCEPT ![a] = r] /\ written' = written \cup {r}
        BY <1>1, <1>2, <2>1, <2>3, <3>1, <3>2, InsertInv
      <3>3. CASE UNCHANGED <<hash, written>>
        BY <1>1, <1>2, <2>1, <3>1, <3>3, BecomesEffect, LookupInv DEF Received
      <3> QED
        BY <3>1, <3>2, <3>3
    <2> QED
      BY <2>2, <2>3
  <1>7. CASE Renew(r)
    <2>1. PICK m \in Requests :
            Goto(r, "refused") \/ Becomes(r, Received("renew", req[m].admin, None, "ok"))
      BY <1>7 DEF Renew
    <2> QED
      BY <1>1, <1>2, <1>4, <1>7, <2>1, BecomesEffect, LookupInv DEF Renew, Received
  <1>8. CASE Logout(r)
    <2>1. sessions' \subseteq sessions
      BY <1>8 DEF Logout
    <2> QED
      BY <1>4, <1>8, <2>1 DEF Logout
  <1>9. CASE Login(r)
    <2>1. PICK a \in Admins :
            \/ Goto(r, "refused")
            \/ /\ hash[a] # None
               /\ Becomes(r, [Received("login", a, None, "mint") EXCEPT !.seen = hash[a]])
      BY <1>9 DEF Login, Matches
    <2> QED
      BY <1>1, <1>2, <1>4, <1>9, <2>1, BecomesEffect, LookupInv DEF Login, Received
  <1>10. CASE SetInternalAdminPassword(r)
    <2>1. PICK a \in Admins, p \in Passwords :
            \/ Goto(r, "refused")
            \/ hash[a] # None /\ Becomes(r, Received("set", a, p, "update"))
      BY <1>10 DEF SetInternalAdminPassword
    <2> QED
      BY <1>1, <1>2, <1>4, <1>10, <2>1, BecomesEffect, LookupInv
         DEF SetInternalAdminPassword, Received
  <1>11. CASE ChangeInternalPassword(r)
    <2>1. PICK a \in Admins, p \in Passwords :
            \/ Goto(r, "refused")
            \/ /\ hash[a] # None
               /\ Becomes(r, [Received("change", a, p, "update") EXCEPT !.seen = hash[a]])
      BY <1>11 DEF ChangeInternalPassword, Matches
    <2>2. hash[a] # None => hash[a] \in written /\ req[hash[a]].admin = a
      BY DEF IInv, HashesAreWritten
    <2> QED
      BY <1>1, <1>2, <1>4, <1>11, <2>1, <2>2, BecomesEffect, LookupInv
         DEF ChangeInternalPassword, Received
  <1>12. CASE ForgotInternalPassword(r)
    <2>1. \/ Goto(r, "refused") \/ Goto(r, "ok")
          \/ \E a \in Admins : /\ hash[a] # None
                             /\ Becomes(r, Received("forgot", a, None, "store"))
      BY <1>12 DEF ForgotInternalPassword
    <2>2. UNCHANGED <<hash, sessions, links, live, written>>
      BY <1>12 DEF ForgotInternalPassword
    <2>3. ASSUME NEW a \in Admins, hash[a] # None, Becomes(r, Received("forgot", a, None, "store"))
          PROVE  IInv'
      BY <1>1, <1>2, <2>2, <2>3, BecomesEffect, LookupInv DEF Received
    <2> QED
      BY <1>4, <2>1, <2>2, <2>3
  <1>13. CASE ResetInternalPassword(r)
    <2>1. PICK l \in Requests, p \in Passwords :
            /\ req[l].phase = "sent"
            /\ \/ Goto(r, "refused")
               \/ Becomes(r, [Received("reset", req[l].admin, p, "claim") EXCEPT !.link = l])
      BY <1>13 DEF ResetInternalPassword
    <2>2. UNCHANGED <<hash, sessions, links, live, written>>
      BY <1>13 DEF ResetInternalPassword
    <2>3. CASE Becomes(r, [Received("reset", req[l].admin, p, "claim") EXCEPT !.link = l])
      <3>1. /\ req'[r].op = "reset" /\ req'[r].admin = req[l].admin /\ req'[r].link = l
            /\ req'[r].phase = "claim" /\ req'[r].old = {} /\ req'[r].owed = {}
            /\ \A s \in Requests : s # r => req'[s] = req[s]
        BY <1>1, <2>3, BecomesEffect DEF Received
      <3> QED
        BY <1>1, <1>2, <2>1, <2>2, <3>1, LookupInv
    <2> QED
      BY <1>4, <2>1, <2>2, <2>3
  <1> QED
    BY <1>5, <1>6, <1>7, <1>8, <1>9, <1>10, <1>11, <1>12, <1>13 DEF Arrival

(* The frame of a later step of r: only r's phase moves, and what has been *)
(* settled stays settled.                                                  *)
Moved(r, phase) ==
  /\ req'[r].phase = phase
  /\ \A s \in Requests :
       /\ req'[s].op = req[s].op /\ req'[s].admin = req[s].admin
       /\ req'[s].seen = req[s].seen /\ req'[s].link = req[s].link
       /\ req'[s].old = req[s].old /\ req'[s].crossing = req[s].crossing
       /\ s # r => req'[s] = req[s]
  /\ \A s \in Requests : Settled(s) => Settled(s)'
  /\ \A s \in Requests : Replaces(s)' <=> Replaces(s)
SameDebts == \A s \in Requests : req'[s].owed = req[s].owed

LEMMA GotoFrame ==
  ASSUME IInv, NEW r \in Requests, NEW phase \in InFlight \cup Ended, Goto(r, phase),
         req[r].phase \in InFlight, req[r].phase = "mail" => phase \in Ended
  PROVE  Moved(r, phase) /\ SameDebts
  <1>1. TypeOK
    BY DEF IInv
  <1>2. \A s \in Requests : s # r => req'[s].phase = req[s].phase
    BY <1>1, GotoEffect
  <1> QED
    BY <1>1, <1>2, GotoEffect DEF Moved, SameDebts, Settled, Replaces, InFlight, Ended

(* A purge that was executed takes its table off what r owes.              *)
LEMMA PurgedFrame ==
  ASSUME IInv, NEW r \in Requests, NEW phase \in InFlight \cup Ended, NEW tables,
         Purged(r, tables, phase), req[r].phase \in {"purgeSessions", "purgeLinks"}
  PROVE  /\ Moved(r, phase)
         /\ req'[r].owed = req[r].owed \ tables
  <1>1. TypeOK /\ req[r] \in Request
    BY DEF IInv, TypeOK
  <1>2. /\ req'[r] = [req[r] EXCEPT !.phase = phase, !.owed = req[r].owed \ tables]
        /\ \A s \in Requests : s # r => req'[s] = req[s]
    BY <1>1, BecomesEffect DEF Purged
  <1>3. /\ req'[r].phase = phase /\ req'[r].op = req[r].op /\ req'[r].admin = req[r].admin
        /\ req'[r].seen = req[r].seen /\ req'[r].link = req[r].link
        /\ req'[r].old = req[r].old /\ req'[r].crossing = req[r].crossing
        /\ req'[r].owed = req[r].owed \ tables
    BY <1>1, <1>2 DEF Request
  <1> QED
    BY <1>2, <1>3 DEF Moved, Settled, Replaces, Ended

(* A step of r that moves on within what it knew: nobody begins to sign in *)
(* and nothing is said of sessions that was not said before.               *)
LEMMA MovedSigners ==
  ASSUME IInv, NEW r \in Requests, NEW phase, Moved(r, phase), UNCHANGED hash,
         SigningIn(r)' => SigningIn(r),
         \A m \in sessions' : m \in sessions \/ (m \in Requests /\ SigningIn(m)),
         \A m \in sessions', h \in written :
           req[h].admin = req[m].admin /\ "sessions" \in req[h].owed
             => "sessions" \in req'[h].owed
  PROVE  SignersAreKnown' /\ StaleSessionsCrossed'
  <1>1. \A m \in Requests : SigningIn(m)' => SigningIn(m)
    BY DEF Moved, SigningIn
  <1>2. \A h \in written : h \in Requests
    BY DEF IInv, TypeOK
  <1> QED
    BY <1>1, <1>2, SignersKept DEF Moved

LEMMA OldAreRequests == IInv => \A r \in Requests : req[r].old \subseteq Requests
  BY DEF IInv, TypeOK, Request

LEMMA ClaimedLinkIsARequest ==
  IInv => \A r \in Requests : PassedClaim(r) => req[r].link \in Requests
  BY DEF IInv, WritersAreBacked, PassedClaim

LEMMA StoreLinkInv ==
  ASSUME IInv, NEW r \in Requests, StoreLink(r), TypeOK'
  PROVE  IInv'
  <1> USE DEF IInv, Moved
  <1>1. PICK phase \in {"mail", "failed"} : Goto(r, phase)
    BY DEF StoreLink
  <1>2. /\ req[r].phase = "store" /\ UNCHANGED <<hash, sessions, written>>
        /\ \A l \in Requests : links'[l] = links[l] \/ l = r
    BY DEF StoreLink, TypeOK
  <1>3. links[r] = "none" /\ ~Settled(r)
    BY <1>2 DEF NoTraceYet, Settled, Ended
  <1>4. Moved(r, phase) /\ SameDebts
    BY <1>1, <1>2, GotoFrame DEF InFlight, Ended
  <1>5. NoTraceYet'
    BY <1>2, <1>4 DEF NoTraceYet
  <1>6. RowsAreSettled'
    BY <1>2, <1>4 DEF RowsAreSettled, Settled, Ended
  <1>7. OldIsSettled'
    BY <1>4 DEF OldIsSettled, TypeOK, Request
  <1>8. HashesAreWritten'
    BY <1>2, <1>4 DEF HashesAreWritten, TypeOK
  <1>9. WritersAreBacked'
    BY <1>2, <1>4 DEF WritersAreBacked, TypeOK
  <1>10. \A s \in Requests : PassedClaim(s)' <=> PassedClaim(s)
    BY <1>2, <1>4 DEF PassedClaim
  <1>11. ClaimedIsClosed'
    BY <1>2, <1>3, <1>4, <1>10, ClaimedLinkIsARequest DEF ClaimedIsClosed
  <1>12. OneClaim'
    BY <1>4, <1>10 DEF OneClaim
  <1>13. PurgedSoFar'
    BY <1>2, <1>3, <1>4, OldAreRequests DEF PurgedSoFar, RevokedOnSuccess, SameDebts, OldIsSettled
  <1>14. SignersAreKnown' /\ StaleSessionsCrossed'
    <2>1. SigningIn(r)' => SigningIn(r)
      BY <1>2, <1>4 DEF SigningIn
    <2>2. \A h \in written : h \in Requests
      BY DEF TypeOK
    <2> QED
      BY <1>2, <1>4, <2>1, <2>2, MovedSigners DEF SameDebts
  <1> QED
    BY <1>5, <1>6, <1>7, <1>8, <1>9, <1>11, <1>12, <1>13, <1>14

LEMMA MailLinkInv ==
  ASSUME IInv, NEW r \in Requests, MailLink(r), TypeOK'
  PROVE  IInv'
  <1> USE DEF IInv, Moved
  <1>1. PICK phase \in {"sent", "unsent"} : Goto(r, phase)
    BY DEF MailLink
  <1>2. req[r].phase = "mail" /\ UNCHANGED <<hash, sessions, links, written>>
    BY DEF MailLink
  <1>4. Moved(r, phase) /\ SameDebts
    BY <1>1, <1>2, GotoFrame DEF InFlight, Ended
  <1>5. NoTraceYet'
    BY <1>2, <1>4 DEF NoTraceYet
  <1>6. RowsAreSettled'
    BY <1>2, <1>4 DEF RowsAreSettled
  <1>7. OldIsSettled'
    BY <1>4, OldAreRequests DEF OldIsSettled
  <1>8. HashesAreWritten'
    BY <1>2, <1>4 DEF HashesAreWritten, TypeOK
  <1>9. WritersAreBacked'
    BY <1>2, <1>4 DEF WritersAreBacked, TypeOK
  <1>10. \A s \in Requests : PassedClaim(s)' <=> PassedClaim(s)
    BY <1>2, <1>4 DEF PassedClaim
  <1>11. ClaimedIsClosed'
    BY <1>2, <1>4, <1>10 DEF ClaimedIsClosed
  <1>12. OneClaim'
    BY <1>4, <1>10 DEF OneClaim
  <1>13. PurgedSoFar'
    BY <1>2, <1>4 DEF PurgedSoFar, RevokedOnSuccess, SameDebts
  <1>14. SignersAreKnown' /\ StaleSessionsCrossed'
    <2>1. SigningIn(r)' => SigningIn(r)
      BY <1>2, <1>4 DEF SigningIn
    <2>2. \A h \in written : h \in Requests
      BY DEF TypeOK
    <2> QED
      BY <1>2, <1>4, <2>1, <2>2, MovedSigners DEF SameDebts
  <1> QED
    BY <1>5, <1>6, <1>7, <1>8, <1>9, <1>11, <1>12, <1>13, <1>14

(* The claim: the guard of MarkInternalPasswordResetUsed is what makes the *)
(* claimant the only one.                                                  *)
LEMMA ClaimLinkInv ==
  ASSUME IInv, NEW r \in Requests, ClaimLink(r), TypeOK'
  PROVE  IInv'
  <1> USE DEF IInv, Moved
  <1>1. PICK phase \in {"update", "refused", "failed"} :
          /\ Goto(r, phase)
          /\ \/ links' = links /\ phase # "update"
             \/ /\ links[req[r].link] = "open"
                /\ links' = [links EXCEPT ![req[r].link] = "used"]
    BY DEF ClaimLink
  <1>2. req[r].phase = "claim" /\ UNCHANGED <<hash, sessions, written>>
    BY DEF ClaimLink
  <1>3. req[r].op = "reset" /\ req[r].link \in Requests
    BY <1>2 DEF WritersAreBacked
  <1>4. Moved(r, phase) /\ SameDebts
    BY <1>1, <1>2, GotoFrame DEF InFlight, Ended
  <1>5. /\ \A l \in Requests : \/ links'[l] = links[l]
                               \/ l = req[r].link /\ links[l] = "open" /\ links'[l] = "used"
        /\ phase = "update" => links[req[r].link] = "open" /\ links'[req[r].link] = "used"
    BY <1>1, <1>3 DEF TypeOK
  <1>6. NoTraceYet'
    BY <1>2, <1>4, <1>5 DEF NoTraceYet
  <1>7. RowsAreSettled'
    BY <1>2, <1>4, <1>5 DEF RowsAreSettled
  <1>8. OldIsSettled'
    BY <1>4, OldAreRequests DEF OldIsSettled
  <1>9. HashesAreWritten'
    BY <1>2, <1>4 DEF HashesAreWritten, TypeOK
  <1>10. WritersAreBacked'
    BY <1>2, <1>3, <1>4 DEF WritersAreBacked, TypeOK, Replaces
  <1>11. \A s \in Requests : PassedClaim(s)' => PassedClaim(s) \/ (s = r /\ phase = "update")
    BY <1>2, <1>4 DEF PassedClaim
  <1>12. ClaimedIsClosed'
    BY <1>4, <1>5, <1>11, ClaimedLinkIsARequest DEF ClaimedIsClosed
  <1>13. OneClaim'
    BY <1>4, <1>5, <1>11, ClaimedLinkIsARequest DEF OneClaim, ClaimedIsClosed
  <1>14. PurgedSoFar'
    BY <1>2, <1>4, <1>5, OldAreRequests DEF PurgedSoFar, RevokedOnSuccess, SameDebts
  <1>15. SignersAreKnown' /\ StaleSessionsCrossed'
    <2>1. SigningIn(r)' => SigningIn(r)
      BY <1>2, <1>4 DEF SigningIn
    <2>2. \A h \in written : h \in Requests
      BY DEF TypeOK
    <2> QED
      BY <1>2, <1>4, <2>1, <2>2, MovedSigners DEF SameDebts
  <1> QED
    BY <1>6, <1>7, <1>8, <1>9, <1>10, <1>12, <1>13, <1>14, <1>15

LEMMA ReplacedEffect ==
  ASSUME TypeOK, NEW r \in Requests, NEW phase, Replaced(r, phase)
  PROVE  /\ req'[r].phase = phase
         /\ req'[r].old = SessionsOf(req[r].admin) \cup OpenLinksOf(req[r].admin)
         /\ req'[r].crossing = SigningInTo(req[r].admin)
         /\ req'[r].owed = {"sessions", "links"}
         /\ \A s \in Requests :
              /\ req'[s].op = req[s].op /\ req'[s].admin = req[s].admin
              /\ req'[s].seen = req[s].seen /\ req'[s].link = req[s].link
              /\ s # r => req'[s] = req[s]
  <1> DEFINE old == SessionsOf(req[r].admin) \cup OpenLinksOf(req[r].admin)
             crossing == SigningInTo(req[r].admin)
  <1>1. /\ req'[r] = [req[r] EXCEPT !.phase = phase, !.old = old, !.crossing = crossing,
                                    !.owed = {"sessions", "links"}]
        /\ \A s \in Requests : s # r => req'[s] = req[s]
    BY BecomesEffect DEF Replaced
  <1>2. req[r] \in Request
    BY DEF TypeOK
  <1> HIDE DEF old, crossing
  <1>3. /\ req'[r].phase = phase /\ req'[r].old = old /\ req'[r].crossing = crossing
        /\ req'[r].owed = {"sessions", "links"}
        /\ req'[r].op = req[r].op /\ req'[r].admin = req[r].admin
        /\ req'[r].seen = req[r].seen /\ req'[r].link = req[r].link
    BY <1>1, <1>2 DEF Request
  <1> QED
    BY <1>1, <1>3 DEF old, crossing

(* The two ways the write can go: it is executed, and what the account has *)
(* open is taken down, or it is not and the request ends.                  *)
LEMMA StorePasswordCases ==
  ASSUME NEW r \in Requests, StorePassword(r)
  PROVE  \/ Goto(r, "failed") /\ UNCHANGED <<hash, written>>
         \/ /\ hash' = [hash EXCEPT ![req[r].admin] = r]
            /\ written' = written \cup {r}
            /\ \E phase \in {"purgeSessions", "failed"} : Replaced(r, phase)
  BY DEF StorePassword

LEMMA StorePasswordEffect ==
  ASSUME TypeOK, NEW r \in Requests, StorePassword(r)
  PROVE  /\ req'[r].phase \in {"purgeSessions", "failed"}
         /\ \/ req'[r].old = req[r].old
            \/ req'[r].old = SessionsOf(req[r].admin) \cup OpenLinksOf(req[r].admin)
         /\ \A s \in Requests :
              /\ req'[s].op = req[s].op /\ req'[s].admin = req[s].admin
              /\ req'[s].seen = req[s].seen /\ req'[s].link = req[s].link
              /\ s # r => req'[s] = req[s]
  <1>1. CASE Goto(r, "failed")
    BY <1>1, GotoEffect
  <1>2. CASE \E phase \in {"purgeSessions", "failed"} : Replaced(r, phase)
    BY <1>2, ReplacedEffect
  <1> QED
    BY <1>1, <1>2, StorePasswordCases

(* Of the account whose hash is replaced, the sessions are now owed and    *)
(* those about to open one are crossing; of the others nothing changes.    *)
LEMMA ReplacedSigners ==
  ASSUME IInv, NEW r \in Requests, NEW phase, Replaced(r, phase), Replaces(r),
         hash' = [hash EXCEPT ![req[r].admin] = r], UNCHANGED sessions,
         req[r].phase = "update"
  PROVE  SignersAreKnown' /\ StaleSessionsCrossed'
  <1> DEFINE a == req[r].admin
  <1> USE DEF IInv
  <1>1. a \in Admins /\ hash'[a] = r /\ r # None
    BY NoneAssumption DEF WritersAreBacked, TypeOK
  <1>2. /\ req'[r].crossing = SigningInTo(a)
        /\ "sessions" \in req'[r].owed
        /\ \A s \in Requests :
              /\ req'[s].op = req[s].op /\ req'[s].admin = req[s].admin
              /\ req'[s].seen = req[s].seen /\ req'[s].link = req[s].link
              /\ s # r => req'[s] = req[s]
    BY ReplacedEffect
  <1>3. \A m \in sessions : m \in Requests
    BY DEF TypeOK
  <1>4. \A m \in Requests : SigningIn(m)' => SigningIn(m) \/ (m = r /\ req[r].op = "change")
    BY <1>2 DEF SigningIn, Replaces
  <1>5. ASSUME NEW m \in Requests, SigningIn(m) \/ m \in sessions
        PROVE  (req[m].op \in {"login", "change"} /\ req[m].admin \in Admins
                  /\ hash[req[m].admin] # None)'
    <2>1. /\ req[m].op \in {"login", "change"} /\ req[m].admin \in Admins
          /\ hash[req[m].admin] # None
      BY <1>5 DEF SignersAreKnown
    <2> QED
      BY <1>1, <1>2, <2>1 DEF TypeOK
  <1>6. ASSUME NEW m \in Requests, SigningIn(m) \/ m \in sessions, req[m].admin # a
        PROVE  /\ IsCurrent(m)' <=> IsCurrent(m)
               /\ Crossing(m)' <=> Crossing(m)
               /\ "sessions" \in req'[hash'[req'[m].admin]].owed
                    <=> "sessions" \in req[hash[req[m].admin]].owed
    <2>1. req[m].admin \in Admins /\ hash[req[m].admin] # None
      BY <1>6 DEF SignersAreKnown
    <2> DEFINE h == hash[req[m].admin]
    <2>2. h \in Requests /\ h # r
      BY <1>6, <2>1 DEF HashesAreWritten, TypeOK
    <2>3. hash'[req'[m].admin] = h /\ req'[h] = req[h]
      BY <1>2, <1>6, <2>1, <2>2 DEF TypeOK
    <2>4. OpenedUnder(m)' = OpenedUnder(m)
      BY <1>2 DEF OpenedUnder
    <2> QED
      BY <2>3, <2>4 DEF IsCurrent, Crossing
  <1>7. SignersAreKnown'
    <2>1. ASSUME req[r].op = "change"
          PROVE  (req[r].op \in {"login", "change"} /\ req[r].admin \in Admins
                    /\ hash[req[r].admin] # None)'
      BY <1>1, <1>2, <2>1
    <2>2. ASSUME NEW m \in Requests, SigningIn(m)'
          PROVE  (IsCurrent(m) \/ Crossing(m))'
      <3>1. CASE m = r /\ req[r].op = "change"
        BY <1>1, <1>2, <3>1 DEF IsCurrent, OpenedUnder
      <3>2. CASE SigningIn(m) /\ req[m].admin = a
        BY <1>1, <1>2, <3>2 DEF Crossing, SigningInTo
      <3>3. CASE SigningIn(m) /\ req[m].admin # a
        BY <1>6, <3>3 DEF SignersAreKnown
      <3> QED
        BY <1>4, <2>2, <3>1, <3>2, <3>3
    <2>3. ASSUME NEW m \in Requests, SigningIn(m)' \/ m \in sessions'
          PROVE  (req[m].op \in {"login", "change"} /\ req[m].admin \in Admins
                    /\ hash[req[m].admin] # None)'
      BY <1>4, <1>5, <2>1, <2>3
    <2> QED
      BY <2>2, <2>3 DEF SignersAreKnown
  <1>8. StaleSessionsCrossed'
    <2> SUFFICES ASSUME NEW m \in sessions'
                 PROVE  IsCurrent(m)' \/ Crossing(m)' \/ "sessions" \in req'[hash'[req'[m].admin]].owed
      BY DEF StaleSessionsCrossed
    <2>1. CASE req[m].admin = a
      BY <1>1, <1>2, <1>3, <2>1
    <2>2. CASE req[m].admin # a
      BY <1>3, <1>6, <2>2 DEF StaleSessionsCrossed
    <2> QED
      BY <2>1, <2>2
  <1> QED
    BY <1>7, <1>8

(* The write: it takes down what the account has open, and uses up the     *)
(* claim it rests on.                                                      *)
LEMMA StorePasswordInv ==
  ASSUME IInv, NEW r \in Requests, StorePassword(r), TypeOK'
  PROVE  IInv'
  <1> USE DEF IInv
  <1> DEFINE old == SessionsOf(req[r].admin) \cup OpenLinksOf(req[r].admin)
  <1>1. /\ req[r].phase = "update" /\ UNCHANGED <<sessions, links>>
        /\ Replaces(r)
    BY DEF StorePassword, WritersAreBacked
  <1>2. /\ req'[r].phase \in {"purgeSessions", "failed"}
        /\ req'[r].old = req[r].old \/ req'[r].old = old
        /\ \A s \in Requests :
             /\ req'[s].op = req[s].op /\ req'[s].admin = req[s].admin
             /\ req'[s].seen = req[s].seen /\ req'[s].link = req[s].link
             /\ s # r => req'[s] = req[s]
    BY StorePasswordEffect
  <1>3. \/ Goto(r, "failed") /\ UNCHANGED <<hash, written>>
        \/ /\ hash' = [hash EXCEPT ![req[r].admin] = r] /\ written' = written \cup {r}
           /\ \E phase \in {"purgeSessions", "failed"} : Replaced(r, phase)
    BY StorePasswordCases
  <1>4. \A s \in Requests : (Settled(s) => Settled(s)') /\ (Replaces(s)' <=> Replaces(s))
    BY <1>1, <1>2 DEF Settled, Replaces, Ended
  <1>5. NoTraceYet'
    BY <1>1, <1>2, <1>3 DEF NoTraceYet
  <1>6. RowsAreSettled'
    BY <1>1, <1>4 DEF RowsAreSettled
  <1>7. OldIsSettled'
    <2>1. old \subseteq Requests /\ \A m \in old : Settled(m) /\ req[m].admin = req[r].admin
      BY DEF RowsAreSettled, SessionsOf, OpenLinksOf, TypeOK
    <2>2. ASSUME NEW s \in Requests, NEW m \in req'[s].old
          PROVE  m \in Requests /\ Settled(m) /\ req[m].admin = req[s].admin
      BY <1>2, <2>1, <2>2, OldAreRequests DEF OldIsSettled
    <2> QED
      BY <1>2, <1>4, <2>2 DEF OldIsSettled
  <1>8. HashesAreWritten'
    BY <1>2, <1>3 DEF HashesAreWritten, TypeOK
  <1>9. WritersAreBacked'
    <2>1. written \subseteq written' /\ \A a \in Admins : hash[a] # None => hash'[a] # None
      BY <1>3, NoneAssumption DEF TypeOK
    <2> QED
      BY <1>1, <1>2, <1>4, <2>1 DEF WritersAreBacked, TypeOK
  <1>10. \A s \in Requests : PassedClaim(s)' => PassedClaim(s)
    BY <1>1, <1>2, <1>3 DEF PassedClaim
  <1>11. ClaimedIsClosed'
    BY <1>1, <1>2, <1>10 DEF ClaimedIsClosed
  <1>12. OneClaim'
    BY <1>2, <1>10 DEF OneClaim
  <1>13. CASE Goto(r, "failed") /\ UNCHANGED <<hash, written>>
    <2>1. Moved(r, "failed") /\ SameDebts
      BY <1>1, <1>13, GotoFrame DEF InFlight, Ended
    <2>2. PurgedSoFar'
      BY <1>1, <2>1 DEF Moved, SameDebts, PurgedSoFar, RevokedOnSuccess
    <2>3. SigningIn(r)' => SigningIn(r)
      BY <2>1 DEF Moved, SigningIn
    <2>4. \A h \in written : h \in Requests
      BY DEF TypeOK
    <2>5. SignersAreKnown' /\ StaleSessionsCrossed'
      BY <1>1, <1>13, <2>1, <2>3, <2>4, MovedSigners DEF SameDebts
    <2> QED
      BY <1>5, <1>6, <1>7, <1>8, <1>9, <1>11, <1>12, <2>2, <2>5
  <1>14. CASE /\ hash' = [hash EXCEPT ![req[r].admin] = r]
              /\ \E phase \in {"purgeSessions", "failed"} : Replaced(r, phase)
    <2>1. req'[r].owed = {"sessions", "links"}
      BY <1>14, ReplacedEffect
    <2>2. PurgedSoFar'
      BY <1>1, <1>2, <2>1 DEF PurgedSoFar, RevokedOnSuccess
    <2>3. SignersAreKnown' /\ StaleSessionsCrossed'
      BY <1>1, <1>14, ReplacedSigners
    <2> QED
      BY <1>5, <1>6, <1>7, <1>8, <1>9, <1>11, <1>12, <2>2, <2>3
  <1> QED
    BY <1>3, <1>13, <1>14

LEMMA PurgeSessionsInv ==
  ASSUME IInv, NEW r \in Requests, PurgeSessions(r), TypeOK'
  PROVE  IInv'
  <1> USE DEF IInv, Moved
  <1>1. req[r].phase = "purgeSessions" /\ UNCHANGED <<hash, links, written>>
    BY DEF PurgeSessions
  <1>2. \/ /\ sessions' = sessions \ SessionsOf(req[r].admin)
           /\ Purged(r, {"sessions"}, "purgeLinks")
        \/ StatementsMayFail /\ UNCHANGED sessions /\ Goto(r, "purgeLinks")
    BY DEF PurgeSessions, Outcomes, Executed
  <1>3. Moved(r, "purgeLinks")
    BY <1>1, <1>2, GotoFrame, PurgedFrame DEF InFlight
  <1>4. NoTraceYet'
    BY <1>1, <1>3 DEF NoTraceYet
  <1>5. RowsAreSettled'
    BY <1>1, <1>2, <1>3 DEF RowsAreSettled
  <1>6. OldIsSettled'
    BY <1>3, OldAreRequests DEF OldIsSettled
  <1>7. HashesAreWritten'
    BY <1>1, <1>3 DEF HashesAreWritten, TypeOK
  <1>8. WritersAreBacked'
    BY <1>1, <1>3 DEF WritersAreBacked, TypeOK
  <1>9. \A s \in Requests : PassedClaim(s)' <=> PassedClaim(s)
    BY <1>1, <1>3 DEF PassedClaim
  <1>10. ClaimedIsClosed' /\ OneClaim'
    BY <1>1, <1>3, <1>9 DEF ClaimedIsClosed, OneClaim
  <1>11. SigningIn(r)' => SigningIn(r)
    BY <1>1, <1>3 DEF SigningIn
  <1>12. \A h \in written : h \in Requests
    BY DEF TypeOK
  <1>13. CASE /\ sessions' = sessions \ SessionsOf(req[r].admin)
              /\ Purged(r, {"sessions"}, "purgeLinks")
    <2>1. req'[r].owed = req[r].owed \ {"sessions"}
      BY <1>1, <1>13, PurgedFrame DEF InFlight
    <2>2. req[r].owed \subseteq {"sessions", "links"}
      BY DEF TypeOK, Request
    <2>3. req[r].old \cap sessions' = {}
      BY <1>13, OldAreRequests DEF OldIsSettled, SessionsOf
    <2>4. PurgedSoFar'
      BY <1>1, <1>3, <1>13, <2>1, <2>2, <2>3 DEF PurgedSoFar, RevokedOnSuccess
    <2>5. \A m \in sessions' : m \in sessions /\ req[m].admin # req[r].admin
      BY <1>13 DEF SessionsOf
    <2>6. SignersAreKnown' /\ StaleSessionsCrossed'
      BY <1>1, <1>3, <1>11, <1>12, <2>5, MovedSigners
    <2> QED
      BY <1>4, <1>5, <1>6, <1>7, <1>8, <1>10, <2>4, <2>6
  <1>14. CASE StatementsMayFail /\ UNCHANGED sessions /\ Goto(r, "purgeLinks")
    <2>1. SameDebts
      BY <1>1, <1>14, GotoFrame DEF InFlight
    <2>2. PurgedSoFar'
      BY <1>1, <1>3, <1>14, <2>1 DEF PurgedSoFar, RevokedOnSuccess, SameDebts
    <2>3. SignersAreKnown' /\ StaleSessionsCrossed'
      BY <1>1, <1>3, <1>11, <1>12, <1>14, <2>1, MovedSigners DEF SameDebts
    <2> QED
      BY <1>4, <1>5, <1>6, <1>7, <1>8, <1>10, <2>2, <2>3
  <1> QED
    BY <1>2, <1>13, <1>14

LEMMA PurgeLinksCases ==
  ASSUME NEW r \in Requests, PurgeLinks(r)
  PROVE  \E phase \in {"mint", "ok"} :
           /\ phase = "mint" <=> req[r].op = "change"
           /\ \/ /\ links' = [l \in Requests |->
                      IF links[l] # "none" /\ req[l].admin = req[r].admin
                      THEN "purged" ELSE links[l]]
                 /\ Purged(r, {"links"}, phase)
              \/ StatementsMayFail /\ UNCHANGED links /\ Goto(r, phase)
  BY DEF PurgeLinks, Outcomes, Executed

LEMMA PurgeLinksInv ==
  ASSUME IInv, NEW r \in Requests, PurgeLinks(r), TypeOK'
  PROVE  IInv'
  <1> USE DEF IInv, Moved
  <1>1. req[r].phase = "purgeLinks" /\ UNCHANGED <<hash, sessions, written>>
    BY DEF PurgeLinks
  <1> DEFINE closed == [l \in Requests |-> IF links[l] # "none" /\ req[l].admin = req[r].admin
                                           THEN "purged" ELSE links[l]]
  <1>2. PICK phase \in {"mint", "ok"} :
          /\ phase = "mint" <=> req[r].op = "change"
          /\ \/ links' = closed /\ Purged(r, {"links"}, phase)
             \/ StatementsMayFail /\ UNCHANGED links /\ Goto(r, phase)
    BY PurgeLinksCases
  <1>3. Moved(r, phase)
    BY <1>1, <1>2, GotoFrame, PurgedFrame DEF InFlight, Ended
  <1>4. \A l \in Requests : \/ links'[l] = links[l]
                            \/ links[l] # "none" /\ links'[l] = "purged"
    BY <1>2
  <1>5. NoTraceYet'
    BY <1>1, <1>3, <1>4 DEF NoTraceYet
  <1>6. RowsAreSettled'
    BY <1>1, <1>3, <1>4 DEF RowsAreSettled
  <1>7. OldIsSettled'
    BY <1>3, OldAreRequests DEF OldIsSettled
  <1>8. HashesAreWritten'
    BY <1>1, <1>3 DEF HashesAreWritten, TypeOK
  <1>9. WritersAreBacked'
    BY <1>1, <1>2, <1>3 DEF WritersAreBacked, TypeOK
  <1>10. \A s \in Requests : PassedClaim(s)' <=> PassedClaim(s)
    BY <1>1, <1>3 DEF PassedClaim
  <1>11. ClaimedIsClosed' /\ OneClaim'
    BY <1>3, <1>4, <1>10, ClaimedLinkIsARequest DEF ClaimedIsClosed, OneClaim
  <1>12. SigningIn(r)' => SigningIn(r)
    BY <1>1, <1>2, <1>3 DEF SigningIn
  <1>13. \A h \in written : h \in Requests
    BY DEF TypeOK
  <1>14. CASE links' = closed /\ Purged(r, {"links"}, phase)
    <2>1. req'[r].owed = req[r].owed \ {"links"}
      BY <1>1, <1>14, PurgedFrame DEF InFlight, Ended
    <2>2. \A m \in req[r].old : links'[m] # "open"
      BY <1>14, OldAreRequests DEF OldIsSettled
    <2>3. \A l \in Requests : links'[l] = "open" => links[l] = "open"
      BY <1>4
    <2>4. PurgedSoFar'
      BY <1>1, <1>3, <2>1, <2>2, <2>3, OldAreRequests DEF PurgedSoFar, RevokedOnSuccess
    <2>5. SignersAreKnown' /\ StaleSessionsCrossed'
      BY <1>1, <1>3, <1>12, <1>13, <2>1, MovedSigners
    <2> QED
      BY <1>5, <1>6, <1>7, <1>8, <1>9, <1>11, <2>4, <2>5
  <1>15. CASE StatementsMayFail /\ UNCHANGED links /\ Goto(r, phase)
    <2>1. SameDebts
      BY <1>1, <1>15, GotoFrame DEF InFlight, Ended
    <2>2. PurgedSoFar'
      BY <1>1, <1>3, <1>15, <2>1 DEF PurgedSoFar, RevokedOnSuccess, SameDebts
    <2>3. SignersAreKnown' /\ StaleSessionsCrossed'
      BY <1>1, <1>3, <1>12, <1>13, <2>1, MovedSigners DEF SameDebts
    <2> QED
      BY <1>5, <1>6, <1>7, <1>8, <1>9, <1>11, <2>2, <2>3
  <1> QED
    BY <1>2, <1>14, <1>15

LEMMA MintSessionInv ==
  ASSUME IInv, NEW r \in Requests, MintSession(r), TypeOK'
  PROVE  IInv'
  <1> USE DEF IInv, Moved
  <1>1. PICK phase \in {"ok", "failed"} :
          /\ req[r].phase = "mint" /\ UNCHANGED <<hash, links, written>>
          /\ Goto(r, phase)
    BY DEF MintSession
  <1>2. sessions' = sessions \/ sessions' = sessions \cup {r}
    BY DEF MintSession
  <1>3. Moved(r, phase) /\ SameDebts
    BY <1>1, GotoFrame DEF InFlight, Ended
  <1>4. NoTraceYet'
    BY <1>1, <1>3 DEF NoTraceYet
  <1>5. RowsAreSettled'
    BY <1>1, <1>2, <1>3 DEF RowsAreSettled, Settled, Ended
  <1>6. OldIsSettled'
    BY <1>3, OldAreRequests DEF OldIsSettled
  <1>7. HashesAreWritten'
    BY <1>1, <1>3 DEF HashesAreWritten, TypeOK
  <1>8. WritersAreBacked'
    BY <1>1, <1>3 DEF WritersAreBacked, TypeOK
  <1>9. \A s \in Requests : PassedClaim(s)' <=> PassedClaim(s)
    BY <1>1, <1>3 DEF PassedClaim
  <1>10. ClaimedIsClosed' /\ OneClaim'
    BY <1>1, <1>3, <1>9 DEF ClaimedIsClosed, OneClaim
  <1>11. \A s \in Requests : r \notin req[s].old
    BY <1>1 DEF OldIsSettled, Settled, Ended
  <1>12. PurgedSoFar'
    BY <1>1, <1>2, <1>3, <1>11 DEF PurgedSoFar, RevokedOnSuccess, SameDebts
  <1>13. SignersAreKnown' /\ StaleSessionsCrossed'
    <2>1. SigningIn(r) /\ ~SigningIn(r)'
      BY <1>1, <1>3 DEF SigningIn, WritersAreBacked
    <2>2. \A h \in written : h \in Requests
      BY DEF TypeOK
    <2> QED
      BY <1>1, <1>2, <1>3, <2>1, <2>2, MovedSigners DEF SameDebts
  <1> QED
    BY <1>4, <1>5, <1>6, <1>7, <1>8, <1>10, <1>12, <1>13

LEMMA InvStep == IInv /\ [Next]_vars => IInv'
  <1> SUFFICES ASSUME IInv, [Next]_vars PROVE IInv'
    OBVIOUS
  <1>1. TypeOK'
    BY TypeStep DEF IInv
  <1>2. CASE UNCHANGED <<hash, sessions, links, written, req>>
    BY <1>1, <1>2 DEF IInv, NoTraceYet, RowsAreSettled, OldIsSettled, Settled,
       HashesAreWritten, WritersAreBacked, Replaces, ClaimedIsClosed, OneClaim,
       PassedClaim, PurgedSoFar, RevokedOnSuccess, SignersAreKnown, StaleSessionsCrossed,
       SigningIn, IsCurrent, OpenedUnder, Crossing
  <1>3. ASSUME NEW r \in Requests, Continue(r)
        PROVE  IInv'
    BY <1>1, <1>3, StoreLinkInv, MailLinkInv, ClaimLinkInv, StorePasswordInv,
       PurgeSessionsInv, PurgeLinksInv, MintSessionInv DEF Continue
  <1> QED
    BY <1>2, <1>3, ArrivalInv DEF Next, Expire, vars

(* The inductive invariant holds in every reachable state.                 *)
THEOREM Invariance == Spec => []IInv
  BY InitInv, InvStep, PTL DEF Spec

-----------------------------------------------------------------------------
(* What the invariant gives.                                               *)

(* A reset link works once: two requests never both set a password through *)
(* the same link, for any number of requests in flight and even when       *)
(* statements fail or their replies are lost.                              *)
THEOREM LinksAreSpentOnce == Spec => []LinkSpentOnce
  <1>1. IInv => LinkSpentOnce
    BY DEF IInv, TypeOK, OneClaim, PassedClaim, LinkSpentOnce
  <1> QED
    BY <1>1, Invariance, PTL

(* A delete of replaceAdminPassword that was executed has removed all the  *)
(* account had of its kind when the new hash was stored, whatever became   *)
(* of the other delete and of the replies; while statements work, a        *)
(* replacement that answers has executed both.                             *)
THEOREM ReplacementRevokes == Spec => []RevokedOnSuccess
  <1>1. IInv => RevokedOnSuccess
    BY DEF IInv, PurgedSoFar
  <1> QED
    BY <1>1, Invariance, PTL

(* A session of a replaced password is in the table only if whoever opened *)
(* it was past the check when the hash in force was stored, or if the      *)
(* delete that goes with this hash has not been executed.                  *)
THEOREM StaleSessionsHaveCrossed == Spec => []StaleSessionsCrossed
  <1>1. IInv => StaleSessionsCrossed
    BY DEF IInv
  <1> QED
    BY <1>1, Invariance, PTL

(* Whoever writes an account's password is entitled to: the address was    *)
(* free, or an operator set it, or a hash of the account was matched, or a *)
(* link mailed for this account was claimed.                               *)
THEOREM WritesAreEntitled == Spec => OnlyEntitledWrites
  <1> DEFINE Entitled == \A a \in Admins : hash'[a] # hash[a] => EntitledWrite(a)
  <1>1. IInv /\ [Next]_vars => [Entitled]_vars
    <2> SUFFICES ASSUME IInv, Next, NEW a \in Admins, hash'[a] # hash[a]
                 PROVE  EntitledWrite(a)
      BY DEF vars
    <2>1. TypeOK
      BY DEF IInv
    <2>2. PICK r \in Requests : \/ Bootstrap(r) \/ CreateInternalAdmin(r)
                                \/ StorePassword(r)
      BY DEF Next, Expire, Arrival, Continue, ReadFails, Renew, Logout, Login,
             SetInternalAdminPassword, ChangeInternalPassword, ForgotInternalPassword,
             ResetInternalPassword, StoreLink, MailLink, ClaimLink, PurgeSessions,
             PurgeLinks, MintSession
    <2>3. CASE Bootstrap(r) \/ CreateInternalAdmin(r)
      <3>1. PICK b \in Admins, p \in Passwords, phase \in {"ok", "failed"} :
              /\ hash[b] = None /\ hash' = [hash EXCEPT ![b] = r]
              /\ Becomes(r, Received("create", b, p, phase))
        BY <2>3 DEF Bootstrap, CreateInternalAdmin, InsertAccount
      <3>2. a = b /\ hash'[a] = r
        BY <2>1, <3>1 DEF TypeOK
      <3>3. req'[r].op = "create" /\ req'[r].admin = a
        BY <2>1, <3>1, <3>2, BecomesEffect DEF Received
      <3> QED
        BY <3>1, <3>2, <3>3 DEF EntitledWrite
    <2>4. CASE StorePassword(r)
      <3>1. hash' = [hash EXCEPT ![req[r].admin] = r]
        BY <2>4, StorePasswordCases
      <3>2. a = req[r].admin /\ hash'[a] = r
        BY <2>1, <3>1 DEF TypeOK
      <3>3. /\ req'[r].op = req[r].op /\ req'[r].admin = req[r].admin
            /\ req'[r].seen = req[r].seen /\ req'[r].link = req[r].link
        BY <2>1, <2>4, StorePasswordEffect
      <3>4. (Replaces(r) /\ PassedClaim(r)) \/ req[r].op \in {"set", "change"}
        BY <2>4 DEF StorePassword, IInv, WritersAreBacked, Replaces, PassedClaim
      <3>5. /\ req[r].op = "set" => hash[a] # None
            /\ req[r].op = "change" => req[r].seen \in written /\ req[req[r].seen].admin = a
            /\ req[r].op = "reset" => /\ req[req[r].link].phase = "sent"
                                      /\ req[req[r].link].admin = a
        BY <3>2 DEF IInv, WritersAreBacked, Replaces
      <3>6. req[r].op = "reset" => links[req[r].link] \in {"used", "purged"}
        BY <3>4 DEF IInv, ClaimedIsClosed
      <3> QED
        BY <3>2, <3>3, <3>4, <3>5, <3>6 DEF EntitledWrite, Replaces
    <2> QED
      BY <2>2, <2>3, <2>4
  <1> QED
    BY <1>1, Invariance, PTL DEF Spec, OnlyEntitledWrites

-----------------------------------------------------------------------------
(* The refinement of OneTimeLinks.                                         *)

\* No link changes hands in the step
SameLinks == LinkState' = LinkState /\ LinkHolders' = LinkHolders /\ LinkUsers' = LinkUsers

LEMMA UnmovedLinks ==
  ASSUME IInv, UNCHANGED links,
         \A s \in Requests, l \in Requests :
           /\ (s \in Redeemers(l) /\ req[s].phase = "update")'
                <=> (s \in Redeemers(l) /\ req[s].phase = "update")
           /\ (s \in Redeemers(l) \cap written)' <=> (s \in Redeemers(l) \cap written)
  PROVE  SameLinks
  <1>1. LinkState' = LinkState
    BY DEF LinkState
  <1>2. \A l \in Requests : /\ {r \in Redeemers(l) : req[r].phase = "update"}'
                                 = {r \in Redeemers(l) : req[r].phase = "update"}
                            /\ (Redeemers(l) \cap written)' = Redeemers(l) \cap written
    BY DEF Redeemers
  <1> QED
    BY <1>1, <1>2 DEF SameLinks, LinkHolders, LinkUsers

LEMMA ArrivalMovesNoLink ==
  ASSUME IInv, NEW r \in Requests, Arrival(r)
  PROVE  SameLinks
  <1> USE DEF IInv
  <1>1. Arrives(r) /\ UNCHANGED links
    BY DEF Arrival, ReadFails, Bootstrap, CreateInternalAdmin, InsertAccount, Renew,
           Logout, Login, SetInternalAdminPassword, ChangeInternalPassword,
           ForgotInternalPassword, ResetInternalPassword
  <1>2. r \notin written /\ req[r] = Unused
    BY <1>1 DEF NoTraceYet, Arrives
  <1>3. \A s \in Requests : s # r => req'[s] = req[s] /\ (s \in written' <=> s \in written)
    BY GotoEffect, BecomesEffect
       DEF Arrival, ReadFails, Bootstrap, CreateInternalAdmin, InsertAccount, Renew,
           Logout, Login, SetInternalAdminPassword, ChangeInternalPassword,
           ForgotInternalPassword, ResetInternalPassword
  <1> DEFINE NoClaim == req'[r].op = "reset" => req'[r].phase # "update" /\ r \notin written'
  <1>4. ASSUME NEW phase \in Ended, Goto(r, phase) PROVE req'[r].op = "none"
    BY <1>2, <1>4, GotoEffect DEF Unused, Received
  <1>5. ASSUME Bootstrap(r) \/ CreateInternalAdmin(r) PROVE NoClaim
    <2>1. PICK a \in Admins, p \in Passwords, phase \in {"ok", "failed"} :
            Goto(r, "refused") \/ Becomes(r, Received("create", a, p, phase))
      BY <1>5 DEF Bootstrap, CreateInternalAdmin, InsertAccount
    <2> QED
      BY <1>4, <2>1, BecomesEffect DEF Received, Ended, IInv
  <1>6. ASSUME ReadFails(r) \/ Logout(r) PROVE NoClaim
    BY <1>4, <1>6 DEF ReadFails, Logout, Ended
  <1>7. ASSUME Renew(r) PROVE NoClaim
    <2>1. PICK m \in Requests :
            Goto(r, "refused") \/ Becomes(r, Received("renew", req[m].admin, None, "ok"))
      BY <1>7 DEF Renew
    <2> QED
      BY <1>4, <2>1, BecomesEffect DEF Received, Ended
  <1>8. ASSUME Login(r) PROVE NoClaim
    <2>1. PICK a \in Admins :
            \/ Goto(r, "refused")
            \/ Becomes(r, [Received("login", a, None, "mint") EXCEPT !.seen = hash[a]])
      BY <1>8 DEF Login
    <2> QED
      BY <1>4, <2>1, BecomesEffect DEF Received, Ended
  <1>9. ASSUME SetInternalAdminPassword(r) PROVE NoClaim
    <2>1. PICK a \in Admins, p \in Passwords :
            Goto(r, "refused") \/ Becomes(r, Received("set", a, p, "update"))
      BY <1>9 DEF SetInternalAdminPassword
    <2> QED
      BY <1>4, <2>1, BecomesEffect DEF Received, Ended
  <1>10. ASSUME ChangeInternalPassword(r) PROVE NoClaim
    <2>1. PICK a \in Admins, p \in Passwords :
            \/ Goto(r, "refused")
            \/ Becomes(r, [Received("change", a, p, "update") EXCEPT !.seen = hash[a]])
      BY <1>10 DEF ChangeInternalPassword
    <2> QED
      BY <1>4, <2>1, BecomesEffect DEF Received, Ended
  <1>11. ASSUME ForgotInternalPassword(r) PROVE NoClaim
    <2>1. \/ Goto(r, "refused") \/ Goto(r, "ok")
          \/ \E a \in Admins : Becomes(r, Received("forgot", a, None, "store"))
      BY <1>11 DEF ForgotInternalPassword
    <2>2. ASSUME NEW a \in Admins, Becomes(r, Received("forgot", a, None, "store"))
          PROVE  req'[r].op # "reset"
      BY <2>2, BecomesEffect DEF Received
    <2> QED
      BY <1>4, <2>1, <2>2 DEF Ended
  <1>12. ASSUME ResetInternalPassword(r) PROVE NoClaim
    <2>1. PICK l \in Requests, p \in Passwords :
            \/ Goto(r, "refused")
            \/ Becomes(r, [Received("reset", req[l].admin, p, "claim") EXCEPT !.link = l])
      BY <1>12 DEF ResetInternalPassword
    <2>2. r \notin written'
      BY <1>2, <1>12 DEF ResetInternalPassword
    <2> QED
      BY <1>4, <2>1, <2>2, BecomesEffect DEF Received, Ended
  <1>13. NoClaim
    BY <1>5, <1>6, <1>7, <1>8, <1>9, <1>10, <1>11, <1>12 DEF Arrival
  <1> QED
    BY <1>1, <1>2, <1>3, <1>13, UnmovedLinks DEF Redeemers, Unused, Received

(* Each later step of a request is a step of the promise or leaves it.     *)
LEMMA ContinueMovesLinks ==
  ASSUME IInv, NEW r \in Requests, Continue(r)
  PROVE  SameLinks \/ Promise!Next
  <1> USE DEF IInv
  <1>0. \A l \in Requests : Redeemers(l) \subseteq Requests
    BY DEF Redeemers
  <1>1. CASE StoreLink(r)
    <2>1. PICK phase \in {"mail", "failed"} : Goto(r, phase)
      BY <1>1 DEF StoreLink
    <2>2. UNCHANGED written /\ links[r] = "none" /\ req[r].phase = "store"
      BY <1>1 DEF StoreLink, NoTraceYet
    <2>3. \A s, l \in Requests :
            /\ (s \in Redeemers(l) /\ req[s].phase = "update")'
                 <=> (s \in Redeemers(l) /\ req[s].phase = "update")
            /\ (s \in Redeemers(l) \cap written)' <=> (s \in Redeemers(l) \cap written)
      BY <2>1, <2>2, GotoEffect DEF Redeemers
    <2>4. CASE UNCHANGED links
      BY <2>3, <2>4, UnmovedLinks
    <2>5. CASE links' = [links EXCEPT ![r] = "open"]
      <3>1. LinkHolders' = LinkHolders /\ LinkUsers' = LinkUsers
        BY <2>3 DEF LinkHolders, LinkUsers, Redeemers
      <3>2. LinkState[r] = "unissued" /\ LinkState' = [LinkState EXCEPT ![r] = "open"]
        BY <2>2, <2>5 DEF LinkState, TypeOK
      <3> QED
        BY <3>1, <3>2 DEF Promise!Next, Promise!Issue
    <2> QED
      BY <1>1, <2>4, <2>5 DEF StoreLink
  <1>2. CASE MailLink(r) \/ PurgeSessions(r) \/ MintSession(r)
    <2>1. \E phase \in {"sent", "unsent", "purgeLinks", "ok", "failed"} :
            Goto(r, phase) \/ (req[r].phase = "purgeSessions" /\ Purged(r, {"sessions"}, phase))
      BY <1>2 DEF MailLink, PurgeSessions, MintSession
    <2>2. UNCHANGED <<links, written>> /\ req[r].phase # "update"
      BY <1>2 DEF MailLink, PurgeSessions, MintSession
    <2>3. /\ req'[r].phase # "update"
          /\ \A s \in Requests : /\ req'[s].op = req[s].op /\ req'[s].link = req[s].link
                                 /\ s # r => req'[s].phase = req[s].phase
      BY <2>1, GotoEffect, PurgedFrame DEF Moved, InFlight, Ended
    <2> QED
      BY <2>2, <2>3, UnmovedLinks DEF Redeemers
  <1>3. CASE ClaimLink(r)
    <2>1. PICK l \in Requests : /\ l = req[r].link
                                /\ req[r].op = "reset" /\ req[r].phase = "claim"
      BY <1>3 DEF ClaimLink, WritersAreBacked
    <2>2. PICK phase \in {"update", "refused", "failed"} :
            /\ Goto(r, phase)
            /\ \/ links' = links /\ phase # "update"
               \/ links[l] = "open" /\ links' = [links EXCEPT ![l] = "used"]
      BY <1>3, <2>1 DEF ClaimLink
    <2>3. UNCHANGED written
      BY <1>3 DEF ClaimLink
    <2>4. /\ req'[r].phase = phase
          /\ \A s \in Requests : /\ req'[s].op = req[s].op /\ req'[s].link = req[s].link
                                 /\ s # r => req'[s].phase = req[s].phase
      BY <2>2, GotoEffect
    <2>5. LinkUsers' = LinkUsers
      BY <2>3, <2>4 DEF LinkUsers, Redeemers
    <2>6. CASE phase # "update"
      <3>1. LinkHolders' = LinkHolders
        BY <2>1, <2>4, <2>6 DEF LinkHolders, Redeemers
      <3>2. CASE links' = links
        BY <2>5, <3>1, <3>2 DEF SameLinks, LinkState
      <3>3. CASE links[l] = "open" /\ links' = [links EXCEPT ![l] = "used"]
        <4>1. \A k \in {l} : LinkState[k] = "open"
          BY <2>1, <3>3 DEF LinkState
        <4>2. LinkState' = [k \in Requests |-> IF k \in {l} THEN "closed" ELSE LinkState[k]]
          BY <2>1, <3>3 DEF LinkState, TypeOK
        <4>3. Promise!Close({l})
          BY <2>5, <3>1, <4>1, <4>2 DEF Promise!Close
        <4> QED
          BY <2>1, <4>3 DEF Promise!Next
      <3> QED
        BY <2>2, <3>2, <3>3
    <2>7. CASE phase = "update"
      <3>1. LinkState[l] = "open" /\ LinkState' = [LinkState EXCEPT ![l] = "closed"]
        BY <2>1, <2>2, <2>7 DEF LinkState, TypeOK
      <3>2. \A s \in Redeemers(l) : req[s].phase # "update"
        BY <2>1, <2>2, <2>7 DEF ClaimedIsClosed, PassedClaim, Redeemers
      <3>3. LinkHolders' = [LinkHolders EXCEPT ![l] = {r}]
        <4>1. {s \in Redeemers(l) : req[s].phase = "update"}' = {r}
          BY <2>1, <2>4, <2>7, <3>2 DEF Redeemers
        <4>2. \A k \in Requests : k # l =>
                {s \in Redeemers(k) : req[s].phase = "update"}'
                  = {s \in Redeemers(k) : req[s].phase = "update"}
          BY <2>1, <2>4 DEF Redeemers
        <4> QED
          BY <4>1, <4>2 DEF LinkHolders
      <3>4. Promise!Redeem(l, r)
        BY <2>5, <3>1, <3>3 DEF Promise!Redeem
      <3> QED
        BY <2>1, <3>4 DEF Promise!Next
    <2> QED
      BY <2>6, <2>7
  <1>4. CASE StorePassword(r)
    <2>1. req[r].phase = "update" /\ UNCHANGED links
      BY <1>4 DEF StorePassword
    <2>2. /\ req'[r].phase # "update"
          /\ \A s \in Requests : /\ req'[s].op = req[s].op /\ req'[s].link = req[s].link
                                 /\ s # r => req'[s].phase = req[s].phase
      BY <1>4, StorePasswordEffect
    <2>3. written' = written \/ written' = written \cup {r}
      BY <1>4 DEF StorePassword
    <2>4. CASE req[r].op # "reset"
      BY <2>1, <2>2, <2>3, <2>4, UnmovedLinks DEF Redeemers
    <2>5. CASE req[r].op = "reset"
      <3> DEFINE l == req[r].link
      <3>1. l \in Requests /\ r \in LinkHolders[l]
        BY <2>1, <2>5 DEF WritersAreBacked, LinkHolders, Redeemers
      <3>2. LinkState' = LinkState
        BY <2>1 DEF LinkState
      <3>3. LinkHolders' = [LinkHolders EXCEPT ![l] = @ \ {r}]
        <4>1. \A k \in Requests :
                {s \in Redeemers(k) : req[s].phase = "update"}'
                  = {s \in Redeemers(k) : req[s].phase = "update"} \ (IF k = l THEN {r} ELSE {})
          BY <2>2 DEF Redeemers
        <4> QED
          BY <3>1, <4>1 DEF LinkHolders
      <3>4. CASE written' = written
        <4>1. LinkUsers' = LinkUsers
          BY <2>2, <3>4 DEF LinkUsers, Redeemers
        <4>2. Promise!GiveUp(l, r)
          BY <3>1, <3>2, <3>3, <4>1 DEF Promise!GiveUp
        <4> QED
          BY <3>1, <4>2 DEF Promise!Next
      <3>5. CASE written' = written \cup {r}
        <4>1. \A k \in Requests : (Redeemers(k) \cap written)'
                = (Redeemers(k) \cap written) \cup (IF k = l THEN {r} ELSE {})
          BY <2>2, <2>5, <3>5 DEF Redeemers
        <4>2. LinkUsers' = [LinkUsers EXCEPT ![l] = @ \cup {r}]
          BY <3>1, <4>1 DEF LinkUsers
        <4>3. Promise!SetPassword(l, r)
          BY <3>1, <3>2, <3>3, <4>2 DEF Promise!SetPassword
        <4> QED
          BY <3>1, <4>3 DEF Promise!Next
      <3> QED
        BY <2>3, <3>4, <3>5
    <2> QED
      BY <2>4, <2>5
  <1>5. CASE PurgeLinks(r)
    <2>1. PICK phase \in {"mint", "ok"} :
            \/ /\ links' = [l \in Requests |->
                    IF links[l] # "none" /\ req[l].admin = req[r].admin
                    THEN "purged" ELSE links[l]]
               /\ Purged(r, {"links"}, phase)
            \/ UNCHANGED links /\ Goto(r, phase)
      BY <1>5, PurgeLinksCases
    <2>2. UNCHANGED written /\ req[r].phase = "purgeLinks"
      BY <1>5 DEF PurgeLinks
    <2>3. LinkHolders' = LinkHolders /\ LinkUsers' = LinkUsers
      <3>1. /\ req'[r].phase # "update"
            /\ \A s \in Requests : /\ req'[s].op = req[s].op /\ req'[s].link = req[s].link
                                   /\ s # r => req'[s].phase = req[s].phase
        BY <2>1, <2>2, GotoEffect, PurgedFrame DEF Moved, InFlight, Ended
      <3> QED
        BY <2>2, <3>1 DEF LinkHolders, LinkUsers, Redeemers
    <2>4. PICK purged \in SUBSET Requests :
            /\ \A l \in purged : links[l] # "none"
            /\ links' = [l \in Requests |-> IF l \in purged THEN "purged" ELSE links[l]]
      <3>1. CASE UNCHANGED links
        <4> WITNESS {} \in SUBSET Requests
        <4> QED
          BY <3>1 DEF TypeOK
      <3>2. CASE links' = [l \in Requests |->
                   IF links[l] # "none" /\ req[l].admin = req[r].admin
                   THEN "purged" ELSE links[l]]
        <4> WITNESS {l \in Requests : links[l] # "none" /\ req[l].admin = req[r].admin}
                      \in SUBSET Requests
        <4> QED
          BY <3>2
      <3> QED
        BY <2>1, <3>1, <3>2
    <2> DEFINE L == {l \in purged : links[l] = "open"}
    <2>5. \A l \in L : LinkState[l] = "open"
      BY DEF LinkState
    <2>6. LinkState' = [l \in Requests |-> IF l \in L THEN "closed" ELSE LinkState[l]]
      BY <2>4 DEF LinkState, TypeOK
    <2>7. Promise!Close(L)
      BY <2>3, <2>5, <2>6 DEF Promise!Close
    <2> QED
      BY <2>7 DEF Promise!Next
  <1> QED
    BY <1>1, <1>2, <1>3, <1>4, <1>5 DEF Continue

(* However requests interleave and whichever statements fail, reset links  *)
(* behave as promised: redeemed by at most one holder while open, used by  *)
(* that holder at most once.                                               *)
THEOREM LinksKeepTheirPromise == Spec => LinksArePromised
  <1>1. Init => Promise!Init
    BY DEF Init, Promise!Init, LinkState, LinkHolders, LinkUsers, Redeemers, Unused, Received
  <1>2. IInv /\ [Next]_vars => [Promise!Next]_Promise!linkVars
    <2> SUFFICES ASSUME IInv, [Next]_vars
                 PROVE  Promise!Next \/ UNCHANGED Promise!linkVars
      OBVIOUS
    <2>1. CASE Expire \/ UNCHANGED vars
      BY <2>1, UnmovedLinks DEF Expire, vars, Redeemers, SameLinks, Promise!linkVars
    <2>2. ASSUME NEW r \in Requests, Arrival(r) \/ Continue(r)
          PROVE  SameLinks \/ Promise!Next
      BY <2>2, ArrivalMovesNoLink, ContinueMovesLinks
    <2> QED
      BY <2>1, <2>2 DEF Next, SameLinks, Promise!linkVars
  <1> QED
    BY <1>1, <1>2, Invariance, PTL DEF Spec, LinksArePromised, Promise!Spec
=============================================================================
