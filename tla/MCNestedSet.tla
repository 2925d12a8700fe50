----------------------------- MODULE MCNestedSet -----------------------------
EXTENDS NestedSetRefines, TLC
Perms == Permutations(Clients)
=============================================================================
