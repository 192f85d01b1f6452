----------------------------- MODULE MCAppUsers -----------------------------
(* A small instance of AppUsers.                                           *)
EXTENDS AppUsers

\* One address typed in two ways, and the placeholders of two persons
MCLower == [aiko |-> "aiko", Aiko |-> "aiko", ben |-> "ben", relay1 |-> "relay1", relay2 |-> "relay2"]
MCAddress == [p1 |-> "Aiko", p2 |-> "ben"]
MCRelay == [p1 |-> "relay1", p2 |-> "relay2"]
=============================================================================
