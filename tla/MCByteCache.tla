---------------------------- MODULE MCByteCache ----------------------------
(* Two workers, three keys, values of 0 to 3 bytes.                        *)
EXTENDS ByteCacheRefines
MCValSize == [v \in Values |-> v]
Perms == Permutations(Nodes) \cup Permutations(Threads) \cup Permutations(Keys)
=============================================================================
