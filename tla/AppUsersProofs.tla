--------------------------- MODULE AppUsersProofs ---------------------------
(***************************************************************************)
(* Proofs about AppUsers, for any number of devices, persons and           *)
(* addresses.                                                              *)
(***************************************************************************)
EXTENDS AppUsers, TLAPS

(* Between the look at the account and the session the same holds as of    *)
(* the session afterwards.                                                 *)
OpensAreOwn == \A c \in Clients :
  client[c].phase = "open" => Belongs(client[c].user, client[c].by)
IInv == TypeOK /\ SessionsAreOwn /\ OpensAreOwn

Asking == [phase : {"verify", "find", "create"}, person : Persons, email : Emails]
Opening == [phase : {"open"}, user : Emails, by : Proof]
AccountsOK ==
  /\ account \in [Emails -> Row \cup {None}]
  /\ \A e \in Emails : account[e] # None => Lower[e] = e
  /\ \A e, f \in Emails : account[e] # None /\ account[f] # None
       /\ account[e].apple # None /\ account[e].apple = account[f].apple => e = f

(* Whatever the INSERT does, the indexes hold after it and the rows there  *)
(* were stay as they were.                                                 *)
LEMMA InsertKeeps ==
  ASSUME AccountsOK, NEW e \in Emails, NEW row \in Row, Free(e, row), Insert(e, row)
  PROVE  /\ AccountsOK' /\ account'[Lower[e]] = row
         /\ \A f \in Emails : account[f] # None => account'[f] = account[f]
<1> USE EmailsAssumption DEF AccountsOK, Free, Insert
<1>1. Lower[e] \in Emails /\ Lower[Lower[e]] = Lower[e]
  OBVIOUS
<1>2. /\ account' \in [Emails -> Row \cup {None}] /\ account'[Lower[e]] = row
      /\ \A f \in Emails : f # Lower[e] => account'[f] = account[f]
  BY <1>1
<1>3. \A f \in Emails : account[f] # None => account'[f] = account[f]
  BY <1>2
<1>4. \A f \in Emails : account'[f] # None => Lower[f] = f
  BY <1>1, <1>2
<1>5. \A f, g \in Emails : account'[f] # None /\ account'[g] # None
         /\ account'[f].apple # None /\ account'[f].apple = account'[g].apple => f = g
  BY <1>2 DEF HasAccount
<1> QED
  BY <1>2, <1>3, <1>4, <1>5

(* Belongs, of a given table.                                              *)
Held(users, e, by) ==
  /\ users[e] # None
  /\ \/ by.apple # None /\ users[e].apple = by.apple
     \/ by.apple = None /\ Lower[by.email] = e /\ users[e].password = by.password

(* The invariant holds at the start.                                       *)
LEMMA InitIInv == Init => IInv
  BY NamesAssumption DEF Init, IInv, TypeOK, SessionsAreOwn, OpensAreOwn, Idle

(* A step that leaves the accounts alone or inserts a row, leaves the      *)
(* sessions alone or stores that of a request that is opening one, and     *)
(* opens only what belongs to whoever is asking.                           *)
Benign(c) ==
  /\ AccountsOK' /\ \A f \in Emails : account[f] # None => account'[f] = account[f]
  /\ sessions' = sessions
       \/ /\ client[c].phase = "open"
          /\ sessions' = sessions \cup {[user |-> client[c].user, by |-> client[c].by]}
  /\ client' = [client EXCEPT ![c] = client'[c]]
  /\ client'[c] \in {Idle} \cup Asking \cup Opening
  /\ client'[c].phase = "open" => Held(account', client'[c].user, client'[c].by)
  /\ faults' \in 0..MaxFaults

LEMMA BenignKeeps ==
  ASSUME IInv, NEW c \in Clients, Benign(c)
  PROVE  IInv'
<1> USE DEF Benign, Asking, Opening
<1>1. client' \in [Clients -> {Idle} \cup Asking \cup Opening]
  BY DEF IInv, TypeOK
<1>2. sessions' \subseteq [user : Emails, by : Proof]
  BY DEF IInv, TypeOK, Idle
<1>3. TypeOK'
  BY <1>1, <1>2 DEF TypeOK, AccountsOK
<1>4. \A e \in Emails : \A by : Belongs(e, by) => Held(account', e, by)
  BY DEF Belongs, Held
<1>5. ASSUME NEW s \in sessions' PROVE Held(account', s.user, s.by)
  <2>1. CASE s \in sessions
    BY <2>1, <1>4 DEF IInv, TypeOK, SessionsAreOwn
  <2>2. CASE s \notin sessions
    <3>1. client[c].phase = "open" /\ s = [user |-> client[c].user, by |-> client[c].by]
      BY <2>2
    <3>2. client[c].user \in Emails /\ Belongs(client[c].user, client[c].by)
      BY <3>1 DEF IInv, TypeOK, OpensAreOwn, Idle
    <3> QED
      BY <3>1, <3>2, <1>4
  <2> QED
    BY <2>1, <2>2
<1>6. ASSUME NEW d \in Clients, client'[d].phase = "open"
      PROVE  Held(account', client'[d].user, client'[d].by)
  <2>1. CASE d = c
    BY <2>1, <1>6
  <2>2. CASE d # c
    <3>1. client'[d] = client[d]
      BY <2>2 DEF IInv, TypeOK
    <3>2. client[d].user \in Emails /\ Belongs(client[d].user, client[d].by)
      BY <3>1, <1>6 DEF IInv, TypeOK, OpensAreOwn, Idle
    <3> QED
      BY <3>1, <3>2, <1>4
  <2> QED
    BY <2>1, <2>2
<1>7. SessionsAreOwn' /\ OpensAreOwn'
  BY <1>5, <1>6 DEF SessionsAreOwn, OpensAreOwn, Belongs, Held
<1> QED
  BY <1>3, <1>7 DEF IInv

(* Every step keeps the invariant.                                         *)
LEMMA StepIInv == IInv /\ [Next]_vars => IInv'
<1> SUFFICES ASSUME IInv, [Next]_vars PROVE IInv'
  OBVIOUS
<1>0. AccountsOK /\ faults \in 0..MaxFaults /\ client \in [Clients -> {Idle} \cup Asking \cup Opening]
  BY DEF IInv, TypeOK, AccountsOK, Asking, Opening
<1> USE NamesAssumption
<1>1. ASSUME NEW c \in Clients, RegisterUser(c) PROVE IInv'
  <2>1. PICK e \in Typed, pw \in Passwords :
          LET row == [password |-> pw, apple |-> None] IN Free(e, row) /\ Insert(e, row)
    BY <1>1 DEF RegisterUser
  <2>2. e \in Emails /\ [password |-> pw, apple |-> None] \in Row
    BY DEF Typed, Row
  <2>3. AccountsOK' /\ \A f \in Emails : account[f] # None => account'[f] = account[f]
    BY <1>0, <2>1, <2>2, InsertKeeps
  <2>4. Benign(c)
    BY <1>0, <1>1, <2>3 DEF RegisterUser, Benign, Idle
  <2> QED
    BY <2>4, BenignKeeps
<1>2. ASSUME NEW c \in Clients, LoginUser(c) PROVE IInv'
  <2>1. PICK e \in Typed, pw \in Passwords :
          /\ account[Lower[e]] # None /\ account[Lower[e]].password = pw
          /\ Open(c, Lower[e], ByPassword(e, pw))
    BY <1>2 DEF LoginUser
  <2>2. client'[c] = [phase |-> "open", user |-> Lower[e], by |-> ByPassword(e, pw)]
    BY <1>0, <2>1 DEF Open
  <2>3. client'[c] \in Opening /\ Belongs(Lower[e], ByPassword(e, pw))
    BY <2>1, <2>2, EmailsAssumption DEF Opening, Proof, ByPassword, Typed, Belongs
  <2>4. Held(account', Lower[e], ByPassword(e, pw))
    BY <2>3, <1>2 DEF LoginUser, Belongs, Held
  <2>5. Benign(c)
    BY <1>0, <1>2, <2>1, <2>2, <2>3, <2>4 DEF LoginUser, Open, Benign, AccountsOK
  <2> QED
    BY <2>5, BenignKeeps
<1>3. ASSUME NEW c \in Clients, NEW p \in Persons, NEW e \in Emails, AppleSignIn(c, p, e) PROVE IInv'
  <2>1. Benign(c)
    BY <1>0, <1>3, EmailsAssumption DEF AppleSignIn, Benign, AccountsOK, Asking
  <2> QED
    BY <2>1, BenignKeeps
<1>4. ASSUME NEW c \in Clients, Verify(c) PROVE IInv'
  <2>1. client[c] \in Asking
    BY <1>0, <1>4 DEF Verify, Opening, Idle
  <2>2. Benign(c)
    BY <1>0, <1>4, <2>1 DEF Verify, Benign, AccountsOK, Asking
  <2> QED
    BY <2>2, BenignKeeps
<1>5. ASSUME NEW c \in Clients, GetUserByAppleID(c) PROVE IInv'
  <2>1. client[c] \in Asking
    BY <1>0, <1>5 DEF GetUserByAppleID, Opening, Idle
  <2>2. CASE HasAccount(client[c].person)
    <3>1. PICK e \in Emails : /\ account[e] # None /\ account[e].apple = client[c].person
                              /\ Open(c, e, ByApple(client[c].person))
      BY <1>5, <2>2 DEF GetUserByAppleID
    <3>2. client'[c] = [phase |-> "open", user |-> e, by |-> ByApple(client[c].person)]
      BY <1>0, <3>1 DEF Open
    <3>3. client'[c] \in Opening /\ Belongs(e, ByApple(client[c].person))
      BY <2>1, <3>1, <3>2 DEF Opening, Asking, Proof, ByApple, Belongs
    <3>4. Held(account', e, ByApple(client[c].person))
      BY <3>3, <1>5 DEF GetUserByAppleID, Belongs, Held
    <3>5. Benign(c)
      <4>1. AccountsOK' /\ \A f \in Emails : account[f] # None => account'[f] = account[f]
        BY <1>0, <1>5 DEF GetUserByAppleID, AccountsOK
      <4>2. client'[c].phase = "open" => Held(account', client'[c].user, client'[c].by)
        BY <3>2, <3>4
      <4> QED
        BY <1>0, <1>5, <3>1, <3>2, <3>3, <4>1, <4>2 DEF GetUserByAppleID, Open, Benign
    <3> QED
      BY <3>5, BenignKeeps
  <2>3. CASE ~HasAccount(client[c].person)
    <3>1. Benign(c)
      BY <1>0, <1>5, <2>1, <2>3 DEF GetUserByAppleID, Benign, AccountsOK, Asking
    <3> QED
      BY <3>1, BenignKeeps
  <2> QED
    BY <2>2, <2>3
<1>6. ASSUME NEW c \in Clients, CreateAppleUser(c) PROVE IInv'
  <2> DEFINE e == client[c].email
             row == [password |-> None, apple |-> client[c].person]
  <2>1. client[c] \in Asking /\ e \in Emails /\ row \in Row /\ client[c].person \in Persons
    BY <1>0, <1>6 DEF CreateAppleUser, Opening, Asking, Idle, Row
  <2>2. CASE Free(e, row)
    <3>1. Insert(e, row) /\ Open(c, Lower[e], ByApple(client[c].person))
      BY <1>6, <2>2 DEF CreateAppleUser
    <3>2. AccountsOK' /\ account'[Lower[e]] = row
          /\ \A f \in Emails : account[f] # None => account'[f] = account[f]
      BY <1>0, <2>1, <2>2, <3>1, InsertKeeps
    <3>3. client'[c] = [phase |-> "open", user |-> Lower[e], by |-> ByApple(client[c].person)]
      BY <1>0, <3>1 DEF Open
    <3>4. client'[c] \in Opening
      BY <2>1, <3>3, EmailsAssumption DEF Opening, Proof, ByApple
    <3>5. Lower[e] \in Emails /\ row # None
      BY <2>1, EmailsAssumption DEF Row
    <3>6. client'[c].phase = "open" => Held(account', client'[c].user, client'[c].by)
      BY <2>1, <3>2, <3>3, <3>5 DEF Held, ByApple
    <3>7. Benign(c)
      BY <1>0, <1>6, <3>1, <3>2, <3>3, <3>4, <3>6 DEF CreateAppleUser, Open, Benign
    <3> QED
      BY <3>7, BenignKeeps
  <2>3. CASE ~Free(e, row)
    <3>1. Benign(c)
      BY <1>0, <1>6, <2>3 DEF CreateAppleUser, Finish, Benign, AccountsOK, Idle
    <3> QED
      BY <3>1, BenignKeeps
  <2> QED
    BY <2>2, <2>3
<1>7. ASSUME NEW c \in Clients, CreateSession(c) PROVE IInv'
  <2>1. Benign(c)
    BY <1>0, <1>7 DEF CreateSession, Finish, Benign, AccountsOK, Idle
  <2> QED
    BY <2>1, BenignKeeps
<1>8. ASSUME NEW c \in Clients, Fails(c) PROVE IInv'
  <2> DEFINE e == client[c].email
             row == [password |-> None, apple |-> client[c].person]
  <2>1. AccountsOK' /\ \A f \in Emails : account[f] # None => account'[f] = account[f]
    <3>1. CASE UNCHANGED account
      BY <1>0, <3>1 DEF AccountsOK
    <3>2. CASE client[c].phase = "create" /\ Free(e, row) /\ Insert(e, row)
      <4>1. client[c] \in Asking
        BY <1>0, <3>2 DEF Opening, Idle
      <4>2. e \in Emails /\ row \in Row
        BY <4>1 DEF Asking, Row
      <4> QED
        BY <1>0, <3>2, <4>2, InsertKeeps
    <3> QED
      BY <1>8, <3>1, <3>2 DEF Fails
  <2>2. client'[c] = Idle /\ client' = [client EXCEPT ![c] = client'[c]] /\ faults' \in 0..MaxFaults
    BY <1>0, <1>8 DEF Fails, Finish
  <2>3. Benign(c)
    BY <1>8, <2>1, <2>2 DEF Fails, Benign, Idle
  <2> QED
    BY <2>3, BenignKeeps
<1>9. CASE UNCHANGED vars
  BY <1>9 DEF vars, IInv, TypeOK, SessionsAreOwn, OpensAreOwn, Belongs
<1> QED
  BY <1>1, <1>2, <1>3, <1>4, <1>5, <1>6, <1>7, <1>8, <1>9 DEF Next, Proceed

LEMMA Invariance == Spec => []IInv
  BY InitIInv, StepIInv, PTL DEF Spec

(* Every variable of AppUsers keeps its type, no address and no Apple id   *)
(* ever has two accounts.                                                  *)
THEOREM AccountsAreUnique == Spec => []TypeOK
  BY Invariance, PTL DEF IInv

(* Every session belongs to whoever proved to own its account.             *)
THEOREM SessionsBelong == Spec => []SessionsAreOwn
  BY Invariance, PTL DEF IInv
=============================================================================
