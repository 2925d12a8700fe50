---------------------------- MODULE HuffmanTrees ----------------------------
(***************************************************************************)
(* zlib/trees.c: how the tokens of one block (literals and matches) become *)
(* bits.  Code lengths come from a Huffman tree that is built on a heap    *)
(* and then cut to the allowed depth; the lengths themselves are sent with *)
(* repeat counts and a second Huffman code; and of three forms of a block  *)
(* the shortest is sent.                                                   *)
(*                                                                         *)
(* A token is <<0, byte>> or <<distance, length - MIN_MATCH>>, as in d_buf *)
(* and l_buf.  Lengths and codes are functions on the symbols of a tree.   *)
(***************************************************************************)
EXTENDS DeflateFormat

Sum(f) == FoldSet(LAMBDA x, v : v + f[x], 0, DOMAIN f)

----------------------------------------------------------------------------
(* The heap.  t holds freq and depth of all nodes, the heap of those that  *)
(* have no father yet, dad, and order: the nodes by falling frequency.     *)

Smaller(t, n, m) ==
  \/ t.freq[n] < t.freq[m]
  \/ t.freq[n] = t.freq[m] /\ t.depth[n] <= t.depth[m]

Son(t, k) ==
  IF 2 * k < Len(t.heap) /\ Smaller(t, t.heap[2 * k + 1], t.heap[2 * k]) THEN 2 * k + 1 ELSE 2 * k

Swapped(t, k, son) == [t EXCEPT !.heap[k] = t.heap[son], !.heap[son] = t.heap[k]]

RECURSIVE PqDownHeap(_, _)
PqDownHeap(t, k) ==
  IF 2 * k > Len(t.heap) \/ Smaller(t, t.heap[k], t.heap[Son(t, k)]) THEN t
  ELSE PqDownHeap(Swapped(t, k, Son(t, k)), Son(t, k))

(* At least two symbols get a code: with fewer, 0 or the one after the     *)
(* largest is added.                                                       *)
Forced(used) ==
  CASE Cardinality(used) > 1 -> <<>>
    [] used = {} -> <<0, 1>>
    [] OTHER -> LET n == CHOOSE x \in used : TRUE IN IF n < 2 THEN <<n + 1>> ELSE <<0>>

InitialHeap(freq, elems) ==
  LET used == {n \in 0..(elems - 1) : freq[n] # 0}
      forced == Forced(used)
      heap == SelectSeq([i \in 1..elems |-> i - 1], LAMBDA n : freq[n] # 0) \o forced
      t == [freq |-> [n \in 0..(2 * elems) |->
                        CASE n \in ToSet(forced) -> 1 [] n < elems -> freq[n] [] OTHER -> 0],
            depth |-> [n \in 0..(2 * elems) |-> 0],
            dad |-> [n \in 0..(2 * elems) |-> -1],
            heap |-> heap, order |-> <<>>, node |-> elems]
  IN FoldLeft(PqDownHeap, t, Reverse([k \in 1..(Len(heap) \div 2) |-> k]))

(* Take the two least frequent nodes and put back a father of them. *)
LeastOut(t) ==
  PqDownHeap([t EXCEPT !.heap = <<Last(t.heap)>> \o SubSeq(t.heap, 2, Len(t.heap) - 1)], 1)

Father(t, n, m) ==
  PqDownHeap([t EXCEPT !.order = <<m, n>> \o @,
                       !.freq[t.node] = t.freq[n] + t.freq[m],
                       !.depth[t.node] = 1 + IF t.depth[n] >= t.depth[m] THEN t.depth[n] ELSE t.depth[m],
                       !.dad[n] = t.node, !.dad[m] = t.node,
                       !.heap[1] = t.node, !.node = @ + 1], 1)

FatherOfLeast(t, n) == Father(t, n, t.heap[1])

RECURSIVE Combine(_)
Combine(t) ==
  IF Len(t.heap) < 2 THEN [t EXCEPT !.order = t.heap \o @]
  ELSE Combine(FatherOfLeast(LeastOut(t), t.heap[1]))

(* Lengths that would exceed maxLen are cut, and the counts of codes per   *)
(* length are then changed until they fit a tree again.                    *)
RECURSIVE Rebalance(_, _, _)
Rebalance(count, overflow, maxLen) ==
  IF overflow <= 0 THEN count
  ELSE LET b == CHOOSE b \in 1..(maxLen - 1) :
                  count[b] # 0 /\ \A c \in (b + 1)..(maxLen - 1) : count[c] = 0
       IN Rebalance([[[count EXCEPT ![b] = @ - 1] EXCEPT ![b + 1] = @ + 2] EXCEPT ![maxLen] = @ - 1],
                    overflow - 2, maxLen)

Cut(t, elems, maxLen) ==
  FoldLeft(LAMBDA a, n : LET b == a.len[t.dad[n]] + 1
                         IN [len |-> [a.len EXCEPT ![n] = IF b > maxLen THEN maxLen ELSE b],
                             overflow |-> a.overflow + IF b > maxLen THEN 1 ELSE 0],
           [len |-> [n \in 0..(2 * elems) |-> 0], overflow |-> 0], Tail(t.order))

(* The least frequent symbols get the longest codes. *)
Recomputed(leaves, count, elems, maxLen) ==
  LET longer(b) == FoldSet(LAMBDA c, v : v + count[c], 0, (b + 1)..maxLen)
      length(i) == CHOOSE b \in 1..maxLen : longer(b) < i /\ i <= longer(b - 1)
  IN [n \in 0..(elems - 1) |->
        IF n \in ToSet(leaves) THEN length(CHOOSE i \in 1..Len(leaves) : leaves[i] = n) ELSE 0]

Lengths(cut, leaves, elems, maxLen) ==
  LET count == [b \in 1..maxLen |-> Cardinality({n \in ToSet(leaves) : cut.len[n] = b})]
  IN IF cut.overflow = 0 THEN [n \in 0..(elems - 1) |-> cut.len[n]]
     ELSE Recomputed(leaves, Rebalance(count, cut.overflow, maxLen), elems, maxLen)

gen_bitlen(t, elems, maxLen) ==
  Lengths(Cut(t, elems, maxLen), SelectSeq(Reverse(t.order), LAMBDA n : n < elems), elems, maxLen)

build_tree(freq, elems, maxLen) == gen_bitlen(Combine(InitialHeap(freq, elems)), elems, maxLen)

(* Codes of one length are consecutive numbers, in the order of symbols. *)
gen_codes(lens) ==
  LET count(b) == Cardinality({n \in DOMAIN lens : lens[n] = b /\ b # 0})
      next[b \in 0..MAX_BITS] == IF b = 0 THEN 0 ELSE (next[b - 1] + count(b - 1)) * 2
  IN [n \in DOMAIN lens |->
        HighFirst(next[lens[n]] + Cardinality({m \in DOMAIN lens : m < n /\ lens[m] = lens[n]}), lens[n])]

MaxCode(lens) == Max({n \in DOMAIN lens : lens[n] # 0})

----------------------------------------------------------------------------
(* The description of a tree: its lengths in order, as symbols of the bit  *)
(* length alphabet with the bits that follow each.  A length may repeat    *)
(* the one before; the limits of a run depend on what came before it.      *)

RECURSIVE TreeSymbols(_, _, _)
TreeSymbols(lens, n, prevlen) ==
  LET maxCode == MaxCode(lens)
      cur == lens[n]
      limit == CASE cur = 0 -> 2 ^ RepBits[2] + 2 + 2 ^ RepBits[3]
                 [] cur = prevlen -> 2 + 2 ^ RepBits[1]
                 [] OTHER -> 3 + 2 ^ RepBits[1]
      least == IF cur # 0 /\ cur # prevlen THEN 4 ELSE 3
      count == Max({c \in 1..limit : n + c - 1 <= maxCode /\ \A i \in n..(n + c - 1) : lens[i] = cur})
      plain(k) == [i \in 1..k |-> <<cur, <<>>>>]
  IN IF n > maxCode THEN <<>>
     ELSE (CASE count < least -> plain(count)
             [] cur # 0 /\ cur # prevlen -> plain(1) \o << <<REP, LowFirst(count - 4, RepBits[1])>> >>
             [] cur # 0 -> << <<REP, LowFirst(count - 3, RepBits[1])>> >>
             [] count <= 2 + 2 ^ RepBits[2] -> << <<REPZ, LowFirst(count - 3, RepBits[2])>> >>
             [] OTHER -> << <<REPZZ, LowFirst(count - 3 - 2 ^ RepBits[2], RepBits[3])>> >>)
          \o TreeSymbols(lens, n + count, cur)

(* How often each bit length symbol is used for both trees. *)
scan_tree(symbols) ==
  [b \in 0..(BL_CODES - 1) |-> Cardinality({i \in 1..Len(symbols) : symbols[i][1] = b})]

SendSymbols(codes, symbols) == FlattenSeq([i \in 1..Len(symbols) |-> codes[symbols[i][1]] \o symbols[i][2]])

(* The lengths of the bit length codes are sent in bl_order, up to the last *)
(* that is used but at least four.                                          *)
BlCount(blLens) == Max({4} \cup {r \in 1..BL_CODES : blLens[BlOrder[r]] # 0})

----------------------------------------------------------------------------
(* The frequencies that _tr_tally() keeps for a block; END_BLOCK counts once. *)

LitFreq(tokens) ==
  [n \in 0..(L_CODES - 1) |->
     Cardinality({i \in 1..Len(tokens) :
       n = IF tokens[i][1] = 0 THEN tokens[i][2] ELSE LengthCode(tokens[i][2]) + LITERALS + 1})
     + IF n = END_BLOCK THEN 1 ELSE 0]

DistFreq(tokens) ==
  [c \in 0..(D_CODES - 1) |->
     Cardinality({i \in 1..Len(tokens) : tokens[i][1] # 0 /\ DistCode(tokens[i][1] - 1) = c})]

(* Everything that is built for a block before its form is chosen. *)
WithBlTree(l, d, symbols) ==
  [l |-> l, d |-> d, symbols |-> symbols, bl |-> build_tree(scan_tree(symbols), BL_CODES, MAX_BL_BITS)]

DescribeTrees(l, d) == WithBlTree(l, d, TreeSymbols(l, 0, -1) \o TreeSymbols(d, 0, -1))

BuildTrees(tokens) ==
  DescribeTrees(build_tree(LitFreq(tokens), L_CODES, MAX_BITS), build_tree(DistFreq(tokens), D_CODES, MAX_BITS))

(* One token, or the end of the block, in the codes lc and dc. *)
TokenBits(token, lc, dc) ==
  IF token[1] = 0 THEN lc[token[2]]
  ELSE LET c == LengthCode(token[2])
           d == DistCode(token[1] - 1)
       IN lc[c + LITERALS + 1] \o LowFirst(token[2] - LengthBase(c), LenExtra[c + 1])
          \o dc[d] \o LowFirst(token[1] - 1 - Base(DistExtra, d), DistExtra[d + 1])

compress_block(tokens, lc, dc) ==
  FlattenSeq([i \in 1..Len(tokens) |-> TokenBits(tokens[i], lc, dc)]) \o lc[END_BLOCK]

StaticLit == gen_codes(StaticLens)
StaticDist == [c \in 0..(D_CODES - 1) |-> HighFirst(c, StaticDistBits)]

send_all_trees(t) ==
  LET blc == gen_codes(t.bl)
  IN LowFirst(MaxCode(t.l) - LITERALS, CountBits[1]) \o LowFirst(MaxCode(t.d), CountBits[2])
     \o LowFirst(BlCount(t.bl) - 4, CountBits[3])
     \o FlattenSeq([r \in 1..BlCount(t.bl) |-> LowFirst(t.bl[BlOrder[r]], BlField)])
     \o SendSymbols(blc, t.symbols)

(* bi_windup(): fill the last byte. *)
Windup(bits) == bits \o LowFirst(0, (0 - Len(bits)) % ByteBits)

BlockType(kind, last) == LowFirst(2 * kind + last, 3)

(* A stored block: its length and the complement of that, and its bytes. *)
tr_stored_block(bits, buf, last) ==
  LET n == Len(buf)
  IN Windup(bits \o BlockType(0, last)) \o LowFirst(n, StoredBits)
     \o LowFirst(2 ^ StoredBits - 1 - n, StoredBits) \o BytesToBits(buf)

tr_align(bits) == bits \o BlockType(1, 0) \o StaticLit[END_BLOCK]

(* The block in its three forms: stored, static, with trees of its own.    *)
(* Level 0 and a smaller size choose the first, strategy Z_FIXED the second. *)
Shortest(bits, stored, static, dynamic, size, last, level, strategy) ==
  LET bytes(n) == (n + 3 + ByteBits - 1) \div ByteBits
      optLen == Min({bytes(Len(static)), bytes(Len(dynamic))})
  IN CASE stored # <<>> /\ (level = 0 \/ size + 4 <= optLen) -> stored
       [] strategy = "fixed" \/ bytes(Len(static)) = optLen -> bits \o BlockType(1, last) \o static
       [] OTHER -> bits \o BlockType(2, last) \o dynamic

Dynamic(t, tokens) == send_all_trees(t) \o compress_block(tokens, gen_codes(t.l), gen_codes(t.d))

(* bits is what is pending already; buf the bytes of the block, unless     *)
(* they have left the window (~known).                                     *)
tr_flush_block(bits, tokens, buf, known, size, last, level, strategy) ==
  LET sent == Shortest(bits, IF known THEN tr_stored_block(bits, buf, last) ELSE <<>>,
                       compress_block(tokens, StaticLit, StaticDist), Dynamic(BuildTrees(tokens), tokens),
                       size, last, level, strategy)
  IN sent \o LowFirst(0, IF last = 1 THEN (0 - Len(sent)) % ByteBits ELSE 0)
=============================================================================
