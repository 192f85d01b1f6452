----------------------------- MODULE PaidAccess -----------------------------
(***************************************************************************)
(* What a directory with paid menus promises its subscribers, and Apple: a *)
(* subscription is entered in the book once, for whoever presents it       *)
(* first, and never changes hands; what the book and a user's row say of   *)
(* it is at all times something that Apple's word backed when it was       *)
(* written; and a user's access follows only subscriptions that this user  *)
(* presented and that are in the book.  No handlers, no statements, no     *)
(* order of arrival: Subscriptions is shown to implement it.               *)
(***************************************************************************)
CONSTANTS
  Users, Subscriptions,
  Claims,  \* what may be said of a subscription: [from, receipt, user]
  None

VARIABLES
  backed,     \* the claims that Apple's word backs, or has backed, for each
  presented,  \* who has presented which subscription
  book,       \* None, or what is on file: [owner, status, from]
  access      \* each user's [status, from]

paidVars == <<backed, presented, book, access>>

Init ==
  /\ backed = [t \in Subscriptions |-> {}]
  /\ presented = {}
  /\ book = [t \in Subscriptions |-> None]
  /\ access = [u \in Users |-> [status |-> "free", from |-> None]]

\* Apple says more, and time makes true what it said of a date to come
Learn ==
  /\ backed' \in [Subscriptions -> SUBSET Claims]
  /\ \A t \in Subscriptions : backed[t] \subseteq backed'[t]
  /\ UNCHANGED <<presented, book, access>>

Present(u, t) ==
  /\ presented' = presented \cup {<<u, t>>}
  /\ UNCHANGED <<backed, book, access>>

\* The owner is the first user's for good, the rest is the latest claim's
Enter(u, t, c) ==
  /\ <<u, t>> \in presented /\ c \in backed[t]
  /\ book' = [book EXCEPT ![t] = [owner |-> IF @ = None THEN u ELSE @.owner,
                                  status |-> c.receipt, from |-> c.from]]
  /\ UNCHANGED <<backed, presented, access>>

Grant(u, t, c) ==
  /\ <<u, t>> \in presented /\ book[t] # None /\ c \in backed[t]
  /\ access' = [access EXCEPT ![u] = [status |-> c.user, from |-> <<t, c.from>>]]
  /\ UNCHANGED <<backed, presented, book>>

Next ==
  \/ Learn
  \/ \E u \in Users, t \in Subscriptions : Present(u, t)
  \/ \E u \in Users, t \in Subscriptions, c \in Claims : Enter(u, t, c) \/ Grant(u, t, c)

Spec == Init /\ [][Next]_paidVars
=============================================================================
