---------------------------- MODULE MCStoreReview ----------------------------
(* Small instances of StoreReview.                                         *)
EXTENDS StoreReview, TLC
CONSTANTS s1, s2, s3
RequestSymmetry == Permutations(Requests)
=============================================================================
