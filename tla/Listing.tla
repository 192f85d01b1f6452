------------------------------ MODULE Listing -------------------------------
(***************************************************************************)
(* What the paged list of stores promises to whoever walks through it, and *)
(* nothing about how the pages are cut: a walk shows stores that match at  *)
(* that moment, none twice, and does not end before it has shown every     *)
(* store that matched all the way.                                         *)
(***************************************************************************)
CONSTANTS Stores, Walks

VARIABLES
  matching,  \* the stores each walk's filter lets through just now
  seen,      \* the stores each walk has shown
  steady,    \* those that have matched ever since the walk began
  phase      \* "start", "open" or "done"

vars == <<matching, seen, steady, phase>>

Init ==
  /\ matching \in [Walks -> SUBSET Stores]
  /\ seen = [w \in Walks |-> {}]
  /\ steady = [w \in Walks |-> {}]
  /\ phase = [w \in Walks |-> "start"]

SteadyNow(w) == IF phase[w] = "start" THEN matching[w] ELSE steady[w]

\* The next stores are shown; the last ones only if none is then missing
Show(w) ==
  /\ phase[w] # "done"
  /\ \E page \in SUBSET (matching[w] \ seen[w]), end \in {"open", "done"} :
       /\ seen' = [seen EXCEPT ![w] = @ \cup page]
       /\ end = "done" => SteadyNow(w) \subseteq seen[w] \cup page
       /\ phase' = [phase EXCEPT ![w] = end]
  /\ steady' = [steady EXCEPT ![w] = SteadyNow(w)]
  /\ UNCHANGED matching

\* Stores come, go and move as they like
Change ==
  /\ matching' \in [Walks -> SUBSET Stores]
  /\ steady' = [w \in Walks |-> steady[w] \cap matching'[w]]
  /\ UNCHANGED <<seen, phase>>

Next == Change \/ \E w \in Walks : Show(w)
Spec == Init /\ [][Next]_vars
=============================================================================
