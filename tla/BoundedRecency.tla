--------------------------- MODULE BoundedRecency ---------------------------
(***************************************************************************)
(* What the file cache promises its users: it remembers values in the      *)
(* order of their last use and always holds exactly the longest stretch of *)
(* most recent ones that fits the limits.  Every operation takes effect in *)
(* one step, and nothing more happens before it returns; no list nodes, no *)
(* index, no byte counter, no eviction loop.                               *)
(***************************************************************************)
EXTENDS Naturals, FiniteSets, Sequences, SequencesExt

CONSTANTS Keys, Values, ValSize, MaxItems, InitBytes, ByteLimits

VARIABLES recent,  \* the remembered [key, val] entries, last used first
          limit,   \* the bytes allowed, 0 for no limit
          busy     \* an operation has taken effect but not returned

(* The longest prefix of s that fits within bytes bytes and MaxItems       *)
(* entries (0 stands for no limit).                                        *)
Trim(s, bytes) ==
  LET Sum[n \in 0..Len(s)] == IF n = 0 THEN 0 ELSE Sum[n - 1] + ValSize[s[n].val]
      Fits(n) == (bytes > 0 => Sum[n] <= bytes) /\ (MaxItems > 0 => n <= MaxItems)
  IN SubSeq(s, 1, Max({n \in 0..Len(s) : Fits(n)}))

(* The entries of s for other keys than k, in their order.                 *)
Others(s, k) ==
  LET upto[n \in 0..Len(s)] ==
        IF n = 0 THEN <<>> ELSE IF s[n].key = k THEN upto[n - 1] ELSE Append(upto[n - 1], s[n])
  IN  upto[Len(s)]

Init == recent = <<>> /\ limit = InitBytes /\ busy = FALSE

Put(k, v) ==
  /\ ~busy /\ busy' = TRUE
  /\ UNCHANGED limit
  /\ recent' = Trim(Cons([key |-> k, val |-> v], Others(recent, k)), limit)

Use(k) ==
  /\ ~busy /\ UNCHANGED busy
  /\ \E i \in 1..Len(recent) :
       recent[i].key = k /\ recent' = Cons(recent[i], Others(recent, k))
  /\ UNCHANGED limit

Forget(k) ==
  /\ ~busy /\ UNCHANGED busy
  /\ recent' = Others(recent, k)
  /\ UNCHANGED limit

Resize(bytes) ==
  /\ ~busy /\ busy' = TRUE
  /\ limit' = bytes
  /\ recent' = Trim(recent, bytes)

Return == busy /\ busy' = FALSE /\ UNCHANGED <<recent, limit>>

Next ==
  \/ \E k \in Keys, v \in Values : Put(k, v)
  \/ \E k \in Keys : Use(k) \/ Forget(k)
  \/ \E bytes \in ByteLimits : Resize(bytes)
  \/ Return

Spec == Init /\ [][Next]_<<recent, limit, busy>>
=============================================================================
