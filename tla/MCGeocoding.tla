---------------------------- MODULE MCGeocoding ----------------------------
(* A small instance of Geocoding.                                          *)
EXTENDS Geocoding

\* A quarter of Mitaka; no more than a ward of Yokohama; no more than the city
\* of Ichikawa, whose name begins with "shi"; nothing
CommonTitles == [
  mitaka   |-> <<"name", "shi", "name">>,
  nishiku  |-> <<"name", "shi", "name", "ku">>,
  ichikawa |-> <<"name", "shi", "name", "shi">>,
  blank    |-> <<>>]
=============================================================================
