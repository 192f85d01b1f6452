------------------------- MODULE MCOperatorAccounts -------------------------
EXTENDS OperatorAccounts, TLC
CONSTANTS r1, r2, r3, r4
RequestSymmetry == Permutations(Requests)
=============================================================================
