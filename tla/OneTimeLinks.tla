---------------------------- MODULE OneTimeLinks ----------------------------
(***************************************************************************)
(* What the reset mail promises ("It works once and expires in ..."): a    *)
(* link, once issued, is redeemed by at most one holder, and only that     *)
(* holder may set a password through it, once.  A link may also be closed  *)
(* without anyone redeeming it, and a holder may give up.  No statements,  *)
(* no expiry clock, no accounts: OperatorAccounts is shown to implement it.*)
(***************************************************************************)
CONSTANTS Links, Holders

VARIABLES
  state,     \* "unissued", "open" or "closed"
  holders,   \* who has redeemed the link and not yet used it
  users      \* who has set a password through it

linkVars == <<state, holders, users>>

Init ==
  /\ state = [l \in Links |-> "unissued"]
  /\ holders = [l \in Links |-> {}]
  /\ users = [l \in Links |-> {}]

Issue(l) ==
  /\ state[l] = "unissued"
  /\ state' = [state EXCEPT ![l] = "open"]
  /\ UNCHANGED <<holders, users>>

Redeem(l, h) ==
  /\ state[l] = "open"
  /\ state' = [state EXCEPT ![l] = "closed"]
  /\ holders' = [holders EXCEPT ![l] = {h}]
  /\ UNCHANGED users

SetPassword(l, h) ==
  /\ h \in holders[l]
  /\ holders' = [holders EXCEPT ![l] = @ \ {h}]
  /\ users' = [users EXCEPT ![l] = @ \cup {h}]
  /\ UNCHANGED state

GiveUp(l, h) ==
  /\ h \in holders[l]
  /\ holders' = [holders EXCEPT ![l] = @ \ {h}]
  /\ UNCHANGED <<state, users>>

\* Links of an account whose password changed, or one whose redeemer failed
Close(L) ==
  /\ \A l \in L : state[l] = "open"
  /\ state' = [l \in Links |-> IF l \in L THEN "closed" ELSE state[l]]
  /\ UNCHANGED <<holders, users>>

Next ==
  \/ \E l \in Links : Issue(l)
  \/ \E l \in Links, h \in Holders : Redeem(l, h) \/ SetPassword(l, h) \/ GiveUp(l, h)
  \/ \E L \in SUBSET Links : Close(L)

Spec == Init /\ [][Next]_linkVars
=============================================================================
