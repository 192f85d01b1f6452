--------------------------- MODULE MCSubscriptions ---------------------------
(* Small instances of Subscriptions.                                       *)
EXTENDS Subscriptions, TLC
CONSTANTS yui, ken, tx, r1, r2, r3
RequestSymmetry == Permutations(Requests)
Shared == {<<yui, tx>>, <<ken, tx>>}                 \* a device handed over
Only == {<<yui, tx>>}
=============================================================================
