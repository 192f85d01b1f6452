------------------------------ MODULE AppUsers ------------------------------
(***************************************************************************)
(* The accounts and sessions of the app's users: registration and login    *)
(* with a password, and Sign in with Apple, which creates the account on   *)
(* the first sign-in.  Models api/user.go and api/apple.go, a statement a  *)
(* step, over the tables users and sessions.                               *)
(*                                                                         *)
(* No account is ever deleted and none changes its address, so an account  *)
(* goes by its address as the unique index has it, in lower case.  Apple's *)
(* token is verified by the steps of AppleKeys; here it passes or, when    *)
(* Apple's keys cannot be had, does not.  /auth/refresh and /me only read. *)
(***************************************************************************)
EXTENDS Naturals, FiniteSets

CONSTANTS
  Clients,    \* goroutines that serve users' devices, time and again
  Persons,    \* Apple's subjects
  Emails,     \* as they are typed
  Lower,      \* what lower() makes of them
  Passwords,
  Address,    \* the e-mail Apple gives for a person, the first time only, and
              \* that the app then forwards
  Relay,      \* the placeholder made of the subject when no e-mail comes
  MaxFaults,  \* statements and verifications that fail in a run
  None

ASSUME EmailsAssumption ==
  /\ Lower \in [Emails -> Emails] /\ \A e \in Emails : Lower[Lower[e]] = Lower[e]
  /\ Address \in [Persons -> Emails] /\ Relay \in [Persons -> Emails]
  /\ \A p, q \in Persons : Lower[Relay[p]] # Lower[Address[q]] /\ (Relay[p] = Relay[q] => p = q)
ASSUME NamesAssumption ==
  /\ None \notin Persons /\ None \notin Passwords /\ None \notin Emails
  /\ None \notin [password : Passwords \cup {None}, apple : Persons \cup {None}]
  /\ MaxFaults \in Nat

VARIABLES
  account,   \* users: by lower-case address, None or the row
  sessions,  \* sessions: the account, and (history) what proved the identity
  client,    \* the request each serves
  faults

vars == <<account, sessions, client, faults>>

Row == [password : Passwords \cup {None}, apple : Persons \cup {None}]
\* A proof of identity: Apple's word, or an address and a password
Proof == [apple : Persons, email : {None}, password : {None}]
         \cup [apple : {None}, email : Emails, password : Passwords]
\* Nobody but appleSignIn uses a placeholder: subjects are Apple's and the app's
Typed == {e \in Emails : \A p \in Persons : Relay[p] # e}
ByApple(p) == [apple |-> p, email |-> None, password |-> None]
ByPassword(e, pw) == [apple |-> None, email |-> e, password |-> pw]
Idle == [phase |-> "idle"]

-----------------------------------------------------------------------------
(* The statements.                                                         *)

HasAccount(p) == \E e \in Emails : account[e] # None /\ account[e].apple = p

\* Mutant: the index on apple_user_id is forgotten
FreeAddress(e, row) == account[Lower[e]] = None

\* No unique index refuses the row
Free(e, row) == account[Lower[e]] = None /\ (row.apple = None \/ ~HasAccount(row.apple))

Insert(e, row) == account' = [account EXCEPT ![Lower[e]] = row]

Finish(c) == client' = [client EXCEPT ![c] = Idle]
Open(c, e, by) == client' = [client EXCEPT ![c] = [phase |-> "open", user |-> e, by |-> by]]

\* registerUser: 201, or 409 when the address has an account
RegisterUser(c) ==
  /\ client[c].phase = "idle"
  /\ \E e \in Typed, pw \in Passwords :
       LET row == [password |-> pw, apple |-> None] IN
       Free(e, row) /\ Insert(e, row)
  /\ UNCHANGED <<sessions, client, faults>>

\* loginUser up to the password: an Apple-only account has none that matches
LoginUser(c) ==
  /\ client[c].phase = "idle"
  /\ \E e \in Typed, pw \in Passwords :
       /\ account[Lower[e]] # None /\ account[Lower[e]].password = pw
       /\ Open(c, Lower[e], ByPassword(e, pw))
  /\ UNCHANGED <<account, sessions, faults>>

\* appleSignIn, with the e-mail of the token, or else whatever the client has
\* put into the request, or else the placeholder
AppleSignIn(c, p, e) ==
  /\ client[c].phase = "idle" /\ e \in Typed \cup {Relay[p]}
  /\ client' = [client EXCEPT ![c] = [phase |-> "verify", person |-> p, email |-> e]]
  /\ UNCHANGED <<account, sessions, faults>>

\* verify: AppleKeys
Verify(c) ==
  /\ client[c].phase = "verify"
  /\ client' = [client EXCEPT ![c].phase = "find"]
  /\ UNCHANGED <<account, sessions, faults>>

\* Mutant: the account is looked for by the e-mail of the request
FindByEmail(c) ==
  /\ client[c].phase = "find"
  /\ IF account[Lower[client[c].email]] # None
     THEN Open(c, Lower[client[c].email], ByApple(client[c].person))
     ELSE client' = [client EXCEPT ![c].phase = "create"]
  /\ UNCHANGED <<account, sessions, faults>>

\* Mutant: every sign-in is taken for a first one
FindNobody(c) ==
  /\ client[c].phase = "find"
  /\ client' = [client EXCEPT ![c].phase = "create"]
  /\ UNCHANGED <<account, sessions, faults>>

GetUserByAppleID(c) ==
  /\ client[c].phase = "find"
  /\ IF HasAccount(client[c].person)
     THEN \E e \in Emails : /\ account[e] # None /\ account[e].apple = client[c].person
                            /\ Open(c, e, ByApple(client[c].person))
     ELSE client' = [client EXCEPT ![c].phase = "create"]
  /\ UNCHANGED <<account, sessions, faults>>

\* createAppleUser, and 409 when an index refuses: the address has an account,
\* or another request has created this person's since the lookup
CreateAppleUser(c) ==
  /\ client[c].phase = "create"
  /\ LET e == client[c].email
         row == [password |-> None, apple |-> client[c].person] IN
     IF Free(e, row)
     THEN Insert(e, row) /\ Open(c, Lower[e], ByApple(client[c].person))
     ELSE Finish(c) /\ UNCHANGED account
  /\ UNCHANGED <<sessions, faults>>

\* issueSession
CreateSession(c) ==
  /\ client[c].phase = "open"
  /\ sessions' = sessions \cup {[user |-> client[c].user, by |-> client[c].by]}
  /\ Finish(c)
  /\ UNCHANGED <<account, faults>>

-----------------------------------------------------------------------------
(* A statement fails, or the verification, or the instance dies: 500 or    *)
(* 401.  Of an INSERT nobody can tell whether it was executed.             *)

Fails(c) ==
  /\ client[c].phase # "idle" /\ faults < MaxFaults
  /\ faults' = faults + 1
  /\ Finish(c)
  /\ LET e == client[c].email
         row == [password |-> None, apple |-> client[c].person] IN
     \/ UNCHANGED account
     \/ client[c].phase = "create" /\ Free(e, row) /\ Insert(e, row)
  /\ sessions' = sessions
       \/ /\ client[c].phase = "open"
          /\ sessions' = sessions \cup {[user |-> client[c].user, by |-> client[c].by]}

Init ==
  /\ account = [e \in Emails |-> None]
  /\ sessions = {}
  /\ client = [c \in Clients |-> Idle]
  /\ faults = 0

Proceed(c) == Verify(c) \/ GetUserByAppleID(c) \/ CreateAppleUser(c) \/ CreateSession(c)
Next == \/ \E c \in Clients : RegisterUser(c) \/ LoginUser(c) \/ Proceed(c) \/ Fails(c)
        \/ \E c \in Clients, p \in Persons, e \in Emails : AppleSignIn(c, p, e)

Spec == Init /\ [][Next]_vars

\* Goroutines run, and every person tries again for as long as a device is free
\* to try on, with the e-mail Apple gave or with none
TryAgain(p) == \E c \in Clients, e \in {Address[p], Relay[p]} : AppleSignIn(c, p, e)
FairSpec == /\ Spec
            /\ \A c \in Clients : WF_vars(Proceed(c))
            /\ \A p \in Persons : SF_vars(TryAgain(p))

-----------------------------------------------------------------------------
(* Properties.                                                             *)

(* Every variable keeps its type, and the two unique indexes hold: an      *)
(* address has one account (the table goes by it) and so has an Apple id,  *)
(* also when two first sign-ins of one person, with the e-mail and without *)
(* it, both find no account.                                               *)
TypeOK ==
  /\ account \in [Emails -> Row \cup {None}]
  /\ \A e \in Emails : account[e] # None => Lower[e] = e
  /\ \A e, f \in Emails : account[e] # None /\ account[f] # None
       /\ account[e].apple # None /\ account[e].apple = account[f].apple => e = f
  /\ sessions \subseteq [user : Emails, by : Proof]
  /\ client \in [Clients -> {Idle} \cup [phase : {"verify", "find", "create"}, person : Persons, email : Emails]
                                   \cup [phase : {"open"}, user : Emails, by : Proof]]
  /\ faults \in 0..MaxFaults

\* The account is that of whoever gave the proof
Belongs(e, by) ==
  /\ account[e] # None
  /\ \/ by.apple # None /\ account[e].apple = by.apple
     \/ by.apple = None /\ Lower[by.email] = e /\ account[e].password = by.password

(* Every session belongs to an account whose owner proved to be that: by   *)
(* Apple's word for the account's own Apple id, or by the account's own    *)
(* address and password.  An Apple sign-in whose e-mail belongs to another *)
(* account never ends up in it, nor does a registration under the address  *)
(* of an Apple-only account, however they cross.                           *)
SessionsAreOwn == \A s \in sessions : Belongs(s.user, s.by)

(* apple.go: a first sign-in creates the account.  Whoever keeps trying    *)
(* gets in, though the reply to the first INSERT may be lost, the session  *)
(* may not be stored, or two attempts may cross and one be told that the   *)
(* e-mail is taken; unless it is taken by somebody else, who registered    *)
(* under it or whose first sign-in forwarded it.                           *)
TakenFrom(p) == account[Lower[Address[p]]] # None /\ account[Lower[Address[p]]].apple # p
GetsIn == \A p \in Persons : <>((\E s \in sessions : s.by = ByApple(p)) \/ TakenFrom(p))
=============================================================================
