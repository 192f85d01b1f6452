-------------------------- MODULE OperatorAccounts --------------------------
(***************************************************************************)
(* The operators ("internal admins") of the directory: their accounts, the *)
(* refresh sessions that keep the portal signed in, and the e-mailed links *)
(* that reset a forgotten password.  Models api/internal.go (login,        *)
(* refresh, logout), api/internal_admins.go and cmd/createadmin over the   *)
(* tables internal_admins, internal_sessions, internal_password_resets.    *)
(*                                                                         *)
(* Every handler runs in a goroutine of its own, on any server instance,   *)
(* and no handler opens a transaction: each SQL statement commits alone.   *)
(* So a request is a small step machine, one step per statement, and the   *)
(* steps of different requests interleave freely.  A request that stops    *)
(* for ever is one whose instance died.                                    *)
(*                                                                         *)
(* A request id is used once.  It also names what is made while serving    *)
(* that request: the bcrypt hash (salted, so no two are equal), the        *)
(* refresh session's uuid, the access token, the reset token.              *)
(***************************************************************************)
CONSTANTS
  Admins,             \* operators, known by their (lower-cased) e-mail address
  Passwords,          \* plaintext passwords of at least 8 characters
  Unhashable,         \* those longer than the 72 bytes bcrypt accepts
  Requests,           \* ids of the requests the servers ever receive
  None,               \* no value: a NULL, an absent row, a field not used
  MailConfigured,     \* whether a mail provider and ADMIN_PORTAL_URL are set
  StatementsMayFail   \* whether SQL statements may report errors

ASSUME UnhashableAssumption == Unhashable \subseteq Passwords
ASSUME NoneAssumption == None \notin Admins \cup Passwords \cup Requests
ASSUME SwitchAssumption == MailConfigured \in BOOLEAN /\ StatementsMayFail \in BOOLEAN

VARIABLES
  hash,      \* internal_admins.password_hash: the request that computed it
  sessions,  \* rows of internal_sessions, named by the request that minted them
  links,     \* internal_password_resets: state of the row each request stored
  live,      \* signed tokens and reset links handed out and not yet expired
  written,   \* history: the requests whose password hash was ever stored
  req        \* the requests: what each is doing and the locals of its handler

vars == <<hash, sessions, links, live, written, req>>

LinkStates == {"none", "open", "used", "purged"}
TokenKinds == {"access", "refresh", "link"}
Ops == {"none", "create", "login", "renew", "set", "change", "forgot", "reset"}
InFlight == {"mint", "store", "mail", "claim", "update", "purgeSessions", "purgeLinks"}
Ended == {"ok", "sent", "unsent", "refused", "failed"}

Request ==
  [op     : Ops,
   admin  : Admins \cup {None},      \* whose account it is about
   secret : Passwords \cup {None},   \* the new password it carries
   seen   : Requests \cup {None},    \* the password hash its lookup returned
   link   : Requests \cup {None},    \* the reset link it redeems
   phase  : {"unused"} \cup InFlight \cup Ended,
   \* history, from the moment this request stored its hash: the account's
   \* sessions and open links then, the requests that were past their check of
   \* an earlier password then, and the tables not purged since
   old : SUBSET Requests, crossing : SUBSET Requests, owed : SUBSET {"sessions", "links"}]

(* Every variable keeps its kind of value, over any number of requests.    *)
TypeOK ==
  /\ hash \in [Admins -> Requests \cup {None}]
  /\ sessions \subseteq Requests
  /\ links \in [Requests -> LinkStates]
  /\ live \subseteq TokenKinds \X Requests
  /\ written \subseteq Requests
  /\ req \in [Requests -> Request]

Received(op, a, p, phase) ==
  [op |-> op, admin |-> a, secret |-> p, seen |-> None, link |-> None,
   phase |-> phase, old |-> {}, crossing |-> {}, owed |-> {}]
Unused == Received("none", None, None, "unused")

Init ==
  /\ hash = [a \in Admins |-> None]
  /\ sessions = {}
  /\ links = [l \in Requests |-> "none"]
  /\ live = {}
  /\ written = {}
  /\ req = [r \in Requests |-> Unused]

-----------------------------------------------------------------------------
(* How a statement can end: it ran and said so, it was not executed and    *)
(* returned an error, or it ran but the reply was lost and the handler     *)
(* sees an error all the same.                                             *)
Outcomes == IF StatementsMayFail THEN {"done", "error", "lost"} ELSE {"done"}
Executed(o) == o # "error"

\* CheckPassword of a plaintext against a stored hash
Matches(p, h) == h # None /\ req[h].secret = p

\* authMiddleware and requireRole: a token of this operator that verifies
BearerOf(a) == \E r \in Requests, k \in {"access", "refresh"} :
                  <<k, r>> \in live /\ req[r].admin = a
Bearer == \E a \in Admins : BearerOf(a)

SessionsOf(a) == {m \in sessions : req[m].admin = a}
OpenLinksOf(a) == {l \in Requests : links[l] = "open" /\ req[l].admin = a}

\* Requests that will open a session without another look at the password
SigningIn(m) == /\ req[m].op \in {"login", "change"}
                /\ req[m].phase \in {"purgeSessions", "purgeLinks", "mint"}
SigningInTo(a) == {m \in Requests : SigningIn(m) /\ req[m].admin = a}

Arrives(r) == req[r].phase = "unused"
Becomes(r, record) == req' = [req EXCEPT ![r] = record]
Goto(r, phase) == req' = [req EXCEPT ![r].phase = phase]
Replaced(r, phase) == Becomes(r, [req[r] EXCEPT !.phase = phase,
  !.old = SessionsOf(req[r].admin) \cup OpenLinksOf(req[r].admin),
  !.crossing = SigningInTo(req[r].admin), !.owed = {"sessions", "links"}])
Purged(r, tables, phase) ==
  Becomes(r, [req[r] EXCEPT !.phase = phase, !.owed = @ \ tables])

-----------------------------------------------------------------------------
(* Requests that come to their end in one statement.                       *)

\* A handler whose first read fails answers 500 and has changed nothing
ReadFails(r) ==
  /\ Arrives(r) /\ StatementsMayFail
  /\ Goto(r, "failed")
  /\ UNCHANGED <<hash, sessions, links, live, written>>

\* Mutant: an upsert where the unique index should refuse
UpsertAccount(r) == \E a \in Admins, p \in Passwords \ Unhashable :
  /\ UNCHANGED <<sessions, links, live>>
  /\ Becomes(r, Received("create", a, p, "ok"))
  /\ hash' = [hash EXCEPT ![a] = r]
  /\ written' = written \cup {r}

\* The INSERT of an account: the unique index on the e-mail is the authority
InsertAccount(r) == \E a \in Admins, p \in Passwords :
  /\ UNCHANGED <<sessions, links, live>>
  /\ IF p \in Unhashable \/ hash[a] # None
     THEN Goto(r, "refused") /\ UNCHANGED <<hash, written>>
     ELSE \E o \in Outcomes :
            /\ Becomes(r, Received("create", a, p, IF o = "done" THEN "ok" ELSE "failed"))
            /\ IF Executed(o)
               THEN /\ hash' = [hash EXCEPT ![a] = r]
                    /\ written' = written \cup {r}
               ELSE UNCHANGED <<hash, written>>

\* cmd/createadmin, run by whoever can reach the database
Bootstrap(r) == Arrives(r) /\ InsertAccount(r)

\* POST /internal/admins: an operator adds another
CreateInternalAdmin(r) == Arrives(r) /\ Bearer /\ InsertAccount(r)

\* POST /internal/auth/refresh: a new access token, if the session is there
Renew(r) ==
  /\ Arrives(r)
  /\ \E m \in Requests :
       IF <<"refresh", m>> \in live /\ m \in sessions
       THEN /\ Becomes(r, Received("renew", req[m].admin, None, "ok"))
            /\ live' = live \cup {<<"access", r>>}
       ELSE Goto(r, "refused") /\ UNCHANGED live
  /\ UNCHANGED <<hash, sessions, links, written>>

\* POST /internal/auth/logout: always answers 200
Logout(r) ==
  /\ Arrives(r)
  /\ \E m \in Requests, o \in Outcomes :
       sessions' = IF <<"refresh", m>> \in live /\ Executed(o)
                   THEN sessions \ {m} ELSE sessions
  /\ Goto(r, "ok")
  /\ UNCHANGED <<hash, links, live, written>>

-----------------------------------------------------------------------------
(* The lookup that begins each of the longer requests.                     *)

\* POST /internal/auth/login
Login(r) ==
  /\ Arrives(r)
  /\ \E a \in Admins, p \in Passwords :
       IF Matches(p, hash[a])
       THEN Becomes(r, [Received("login", a, None, "mint") EXCEPT !.seen = hash[a]])
       ELSE Goto(r, "refused")
  /\ UNCHANGED <<hash, sessions, links, live, written>>

\* PUT /internal/admins/:id/password: an operator sets a colleague's password
SetInternalAdminPassword(r) ==
  /\ Arrives(r) /\ Bearer
  /\ \E a \in Admins, p \in Passwords :
       IF hash[a] # None
       THEN Becomes(r, Received("set", a, p, "update"))
       ELSE Goto(r, "refused")
  /\ UNCHANGED <<hash, sessions, links, live, written>>

\* POST /internal/auth/change-password: re-checks the current password
ChangeInternalPassword(r) ==
  /\ Arrives(r)
  /\ \E a \in Admins, current, p \in Passwords :
       /\ BearerOf(a)
       /\ IF Matches(current, hash[a])
          THEN Becomes(r, [Received("change", a, p, "update") EXCEPT !.seen = hash[a]])
          ELSE Goto(r, "refused")
  /\ UNCHANGED <<hash, sessions, links, live, written>>

\* POST /internal/auth/forgot-password: 200 for an unknown address too
ForgotInternalPassword(r) ==
  /\ Arrives(r)
  /\ IF ~MailConfigured
     THEN Goto(r, "refused")
     ELSE \E a \in Admins :
            IF hash[a] # None
            THEN Becomes(r, Received("forgot", a, None, "store"))
            ELSE Goto(r, "ok")
  /\ UNCHANGED <<hash, sessions, links, live, written>>

\* Mutant: the lookup's used_at check is trusted and the claim left out
ResetWithoutClaim(r) ==
  /\ Arrives(r)
  /\ \E l \in Requests, p \in Passwords :
       /\ req[l].phase = "sent" /\ links[l] = "open" /\ <<"link", l>> \in live
       /\ Becomes(r, [Received("reset", req[l].admin, p, "update") EXCEPT !.link = l])
  /\ UNCHANGED <<hash, sessions, links, live, written>>

\* POST /internal/auth/reset-password, by the holder of a mailed link
ResetInternalPassword(r) ==
  /\ Arrives(r)
  /\ \E l \in Requests, p \in Passwords :
       /\ req[l].phase = "sent"
       /\ IF links[l] = "open" /\ <<"link", l>> \in live
          THEN Becomes(r, [Received("reset", req[l].admin, p, "claim") EXCEPT !.link = l])
          ELSE Goto(r, "refused")
  /\ UNCHANGED <<hash, sessions, links, live, written>>

-----------------------------------------------------------------------------
(* The statements that follow the lookup.                                  *)

\* CreateInternalPasswordReset
StoreLink(r) ==
  /\ req[r].phase = "store"
  /\ \E o \in Outcomes :
       /\ Goto(r, IF o = "done" THEN "mail" ELSE "failed")
       /\ IF Executed(o)
          THEN links' = [links EXCEPT ![r] = "open"] /\ live' = live \cup {<<"link", r>>}
          ELSE UNCHANGED <<links, live>>
  /\ UNCHANGED <<hash, sessions, written>>

\* mailer.Send: its failure is logged, the caller reads 200 either way
MailLink(r) ==
  /\ req[r].phase = "mail"
  /\ \E phase \in {"sent", "unsent"} : Goto(r, phase)
  /\ UNCHANGED <<hash, sessions, links, live, written>>

\* Mutant: the UPDATE without its "used_at IS NULL"
ClaimAnyLink(r) ==
  /\ req[r].phase = "claim"
  /\ links' = [links EXCEPT ![req[r].link] = "used"]
  /\ Goto(r, "update")
  /\ UNCHANGED <<hash, sessions, live, written>>

\* MarkInternalPasswordResetUsed: matches the row only while it is unused
ClaimLink(r) ==
  /\ req[r].phase = "claim"
  /\ \E o \in Outcomes :
       LET l == req[r].link
           claimed == Executed(o) /\ links[l] = "open"
       IN /\ links' = IF claimed THEN [links EXCEPT ![l] = "used"] ELSE links
          /\ Goto(r, IF o # "done" THEN "failed"
                     ELSE IF claimed THEN "update" ELSE "refused")
  /\ UNCHANGED <<hash, sessions, live, written>>

\* replaceAdminPassword: HashPassword, then UpdateInternalAdminPassword
StorePassword(r) ==
  /\ req[r].phase = "update"
  /\ UNCHANGED <<sessions, links, live>>
  /\ IF req[r].secret \in Unhashable
     THEN Goto(r, "failed") /\ UNCHANGED <<hash, written>>
     ELSE \E o \in Outcomes :
            IF Executed(o)
            THEN /\ hash' = [hash EXCEPT ![req[r].admin] = r]
                 /\ written' = written \cup {r}
                 /\ Replaced(r, IF o = "done" THEN "purgeSessions" ELSE "failed")
            ELSE Goto(r, "failed") /\ UNCHANGED <<hash, written>>

\* Mutant: only the sessions of other operators are deleted
PurgeOtherSessions(r) ==
  /\ req[r].phase = "purgeSessions"
  /\ sessions' = SessionsOf(req[r].admin)
  /\ Purged(r, {"sessions"}, "purgeLinks")
  /\ UNCHANGED <<hash, links, live, written>>

\* replaceAdminPassword: DeleteInternalSessionsForAdmin, a failure only logged
PurgeSessions(r) ==
  /\ req[r].phase = "purgeSessions"
  /\ \E o \in Outcomes :
       IF Executed(o)
       THEN /\ sessions' = sessions \ SessionsOf(req[r].admin)
            /\ Purged(r, {"sessions"}, "purgeLinks")
       ELSE Goto(r, "purgeLinks") /\ UNCHANGED sessions
  /\ UNCHANGED <<hash, links, live, written>>

\* Mutant: the DELETE minds used_at, and spares the links that still work
PurgeUsedLinks(r) ==
  /\ req[r].phase = "purgeLinks"
  /\ links' = [l \in Requests |-> IF links[l] = "used" /\ req[l].admin = req[r].admin
                                  THEN "purged" ELSE links[l]]
  /\ Purged(r, {"links"}, IF req[r].op = "change" THEN "mint" ELSE "ok")
  /\ UNCHANGED <<hash, sessions, live, written>>

\* replaceAdminPassword: DeleteInternalPasswordResetsForAdmin, likewise
PurgeLinks(r) ==
  /\ req[r].phase = "purgeLinks"
  /\ \E o \in Outcomes :
       LET phase == IF req[r].op = "change" THEN "mint" ELSE "ok" IN
       IF Executed(o)
       THEN /\ links' = [l \in Requests |->
                            IF links[l] # "none" /\ req[l].admin = req[r].admin
                            THEN "purged" ELSE links[l]]
            /\ Purged(r, {"links"}, phase)
       ELSE Goto(r, phase) /\ UNCHANGED links
  /\ UNCHANGED <<hash, sessions, live, written>>

\* issueInternalSession: the tokens are returned only if the row was stored
MintSession(r) ==
  /\ req[r].phase = "mint"
  /\ \E o \in Outcomes :
       /\ Goto(r, IF o = "done" THEN "ok" ELSE "failed")
       /\ sessions' = IF Executed(o) THEN sessions \cup {r} ELSE sessions
       /\ live' = IF o = "done" THEN live \cup {<<"access", r>>, <<"refresh", r>>}
                  ELSE live
  /\ UNCHANGED <<hash, links, written>>

\* Time passes: a token or a reset link reaches its expiry
Expire == \E t \in live :
  /\ live' = live \ {t}
  /\ UNCHANGED <<hash, sessions, links, written, req>>

-----------------------------------------------------------------------------
Arrival(r) ==
  \/ ReadFails(r) \/ Bootstrap(r) \/ CreateInternalAdmin(r)
  \/ Renew(r) \/ Logout(r) \/ Login(r)
  \/ SetInternalAdminPassword(r) \/ ChangeInternalPassword(r)
  \/ ForgotInternalPassword(r) \/ ResetInternalPassword(r)

Continue(r) ==
  \/ StoreLink(r) \/ MailLink(r) \/ ClaimLink(r)
  \/ StorePassword(r) \/ PurgeSessions(r) \/ PurgeLinks(r) \/ MintSession(r)

Next == Expire \/ \E r \in Requests : Arrival(r) \/ Continue(r)

Spec == Init /\ [][Next]_vars

-----------------------------------------------------------------------------
\* The requests that set the password of an account that exists
Replaces(r) == req[r].op \in {"set", "change", "reset"}
Quiet == \A r \in Requests : req[r].phase \notin InFlight

(* "It works once": two requests never both set a password through the     *)
(* same link, however their lookup, claim and update steps interleave and  *)
(* whichever statements fail or lose their reply.                          *)
LinkSpentOnce == \A r, s \in written :
  req[r].op = "reset" /\ req[s].op = "reset" /\ req[r].link = req[s].link => r = s

(* replaceAdminPassword "invalidates everything minted under the old one:  *)
(* refresh sessions and pending reset links": a delete that was executed   *)
(* leaves no session, or open link, that the account had when the new hash *)
(* was stored, whatever became of the other delete and even if its own     *)
(* reply was lost; and a request that has got past both owes none of them  *)
(* as long as statements work.                                             *)
RevokedOnSuccess == \A r \in Requests :
  /\ "sessions" \notin req[r].owed => req[r].old \cap sessions = {}
  /\ "links" \notin req[r].owed => \A m \in req[r].old : links[m] # "open"
  /\ ~StatementsMayFail /\ req[r].phase \in {"mint", "ok"} => req[r].owed = {}

\* The hash under which the session of request m is opened: the one its login
\* matched, or the one its own password change stored
OpenedUnder(m) == IF req[m].op = "change" THEN m ELSE req[m].seen
IsCurrent(m) == OpenedUnder(m) = hash[req[m].admin]
Crossing(m) == m \in req[hash[req[m].admin]].crossing

(* How far the revocation can fall behind.  A session in the table was     *)
(* opened under the hash in force; or by a request that was past its check *)
(* of an earlier one at the very moment this hash was stored; or else the  *)
(* delete that goes with this hash has not been executed.  No other old    *)
(* session comes back or stays, over any number of replacements.           *)
StaleSessionsCrossed == \A m \in sessions :
  IsCurrent(m) \/ Crossing(m) \/ "sessions" \in req[hash[req[m].admin]].owed

(* An account's password is written only by someone entitled to: a new     *)
(* account never takes over an existing one's address; a change was        *)
(* preceded by a match with a hash of that same account; a reset carries a *)
(* link mailed for that account, no longer open when the write happens.    *)
EntitledWrite(a) ==
  LET w == req'[hash'[a]] IN
  /\ w.admin = a
  /\ CASE w.op = "create" -> hash[a] = None
       [] w.op = "set"    -> hash[a] # None
       [] w.op = "change" -> w.seen \in written /\ req[w.seen].admin = a
       [] w.op = "reset"  -> /\ req[w.link].admin = a /\ req[w.link].phase = "sent"
                             /\ links[w.link] \in {"used", "purged"}
       [] OTHER -> FALSE
OnlyEntitledWrites == [][\A a \in Admins : hash'[a] # hash[a] => EntitledWrite(a)]_vars

(* Reset links as promised to whoever receives the mail.                   *)
Redeemers(l) == {r \in Requests : req[r].op = "reset" /\ req[r].link = l}
LinkState == [l \in Requests |-> CASE links[l] = "none" -> "unissued"
                                   [] links[l] = "open" -> "open"
                                   [] OTHER -> "closed"]
LinkHolders == [l \in Requests |-> {r \in Redeemers(l) : req[r].phase = "update"}]
LinkUsers == [l \in Requests |-> Redeemers(l) \cap written]
Promise == INSTANCE OneTimeLinks WITH
  Links <- Requests, Holders <- Requests,
  state <- LinkState, holders <- LinkHolders, users <- LinkUsers
LinksArePromised == Promise!Spec

-----------------------------------------------------------------------------
(* The inductive invariant behind LinkSpentOnce, OnlyEntitledWrites,       *)
(* LinksArePromised, RevokedOnSuccess and StaleSessionsCrossed.            *)

\* A request that has not arrived has left no trace, a link not stored no row
NoTraceYet == \A r \in Requests :
  /\ req[r].phase = "unused" => req[r] = Unused /\ r \notin written
  /\ req[r].phase \in {"unused", "store"} => links[r] = "none"

\* What a request makes, it makes at its end: rows do not come back
Settled(m) == req[m].phase \in Ended \cup {"mail"}
RowsAreSettled == \A m \in Requests : m \in sessions \/ links[m] = "open" => Settled(m)
OldIsSettled == \A r \in Requests : \A m \in req[r].old :
                  Settled(m) /\ req[m].admin = req[r].admin

\* The evidence each request has for what it is about to write
HashesAreWritten == \A a \in Admins :
  hash[a] # None => hash[a] \in written /\ req[hash[a]].admin = a
WritersAreBacked == \A r \in Requests :
  /\ req[r].phase = "update" => Replaces(r)
  /\ req[r].phase = "claim" => req[r].op = "reset"
  /\ req[r].phase = "mint" => req[r].op \in {"login", "change"}
  /\ Replaces(r) \/ req[r].phase \in {"store", "mail", "sent"} =>
       req[r].admin \in Admins /\ hash[req[r].admin] # None
  /\ req[r].op = "change" => req[r].seen \in written /\ req[req[r].seen].admin = req[r].admin
  /\ req[r].op = "reset" => /\ req[r].link \in Requests
                            /\ req[req[r].link].phase = "sent"
                            /\ req[req[r].link].admin = req[r].admin

\* Whoever has passed the claim of a link is alone, and the link is closed
PassedClaim(r) == req[r].op = "reset" /\ (req[r].phase = "update" \/ r \in written)
ClaimedIsClosed == \A r \in Requests :
  PassedClaim(r) => links[req[r].link] \in {"used", "purged"}
OneClaim == \A r, s \in Requests :
  PassedClaim(r) /\ PassedClaim(s) /\ req[r].link = req[s].link => r = s

\* What the purges of a request have removed so far
PurgedSoFar ==
  /\ RevokedOnSuccess
  /\ ~StatementsMayFail => \A r \in Requests :
       req[r].phase = "purgeLinks" => req[r].owed \subseteq {"links"}

\* Whoever is past the check of a password that has been replaced since was
\* there when the hash in force was stored
SignersAreKnown ==
  /\ \A m \in Requests : SigningIn(m) \/ m \in sessions =>
       req[m].op \in {"login", "change"} /\ req[m].admin \in Admins /\ hash[req[m].admin] # None
  /\ \A m \in Requests : SigningIn(m) => IsCurrent(m) \/ Crossing(m)

(* Each step of the handlers preserves this, whatever the other requests   *)
(* are in the middle of.                                                   *)
IInv ==
  /\ TypeOK
  /\ NoTraceYet /\ RowsAreSettled /\ OldIsSettled
  /\ HashesAreWritten /\ WritersAreBacked
  /\ ClaimedIsClosed /\ OneClaim
  /\ PurgedSoFar /\ SignersAreKnown /\ StaleSessionsCrossed

-----------------------------------------------------------------------------
(* Claimed by the code's comments and not kept: see the README.            *)

(* "so sessions opened with the old password cannot be renewed": with no   *)
(* request in flight, every session that a refresh token still renews was   *)
(* opened under the hash in force.                                         *)
SessionsFollowPassword ==
  Quiet => \A m \in sessions :
             <<"refresh", m>> \in live => IsCurrent(m)
=============================================================================
