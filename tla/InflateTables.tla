---------------------------- MODULE InflateTables ----------------------------
(***************************************************************************)
(* zlib/inftrees.c: from code lengths to the tables by which inflate()     *)
(* decodes.  The root table is indexed by the next root bits; a longer     *)
(* code leads to a table of a second level, whose size is found by looking *)
(* ahead in the counts of the codes that are not entered yet.              *)
(*                                                                         *)
(* An entry is [kind, bits, val, extra]: "lit" a symbol, "base" the least  *)
(* length or distance of a code and its extra bits, "end" the end of a     *)
(* block, "bad" no code; "sub" has the second table in val and the number  *)
(* of its index bits in extra.  An index is a sequence of bits.            *)
(***************************************************************************)
EXTENDS DeflateFormat

CONSTANTS LenRoot, DistRoot,       \* lenbits 9 and distbits 6 of inflate()
          EnoughLens, EnoughDists  \* ENOUGH_LENS, ENOUGH_DISTS

Zeros(n) == [i \in 1..n |-> 0]
Index(bits, n) == [i \in 1..n |-> IF i <= Len(bits) THEN bits[i] ELSE 0]

(* The symbols that have a code, by length and then in their own order. *)
SortedSymbols(lens) ==
  FlattenSeq([l \in 1..MAX_BITS |-> SelectSeq([i \in 1..Cardinality(DOMAIN lens) |-> i - 1], LAMBDA n : lens[n] = l)])

(* The next code of the same length: the last 0 becomes 1, all after it 0. *)
Increment(code) ==
  LET j == Max({0} \cup {i \in 1..Len(code) : code[i] = 0})
  IN [i \in 1..Len(code) |-> CASE i < j -> code[i] [] i = j -> 1 [] OTHER -> 0]

Codes(lens, work) ==
  LET grown(code, n) == code \o Zeros(n - Len(code))
  IN FoldLeft(LAMBDA cs, n : Append(cs, IF cs = <<>> THEN Zeros(lens[n])
                                        ELSE grown(Increment(Last(cs)), lens[n])), <<>>, work)

(* What is still free of the codes of length l, negative when over-subscribed. *)
Left(lens) ==
  LET left[l \in 0..MAX_BITS] ==
        IF l = 0 THEN 1 ELSE 2 * left[l - 1] - Cardinality({n \in DOMAIN lens : lens[n] = l})
  IN left

Entry(type, n, bits) ==
  CASE type = "CODES" \/ (type = "LENS" /\ n < END_BLOCK) ->
         [kind |-> "lit", bits |-> bits, val |-> n, extra |-> 0]
    [] type = "LENS" /\ n = END_BLOCK -> [kind |-> "end", bits |-> bits, val |-> 0, extra |-> 0]
    [] type = "LENS" /\ n > END_BLOCK ->
         LET c == n - END_BLOCK - 1
         IN [kind |-> "base", bits |-> bits, val |-> MIN_MATCH + LengthBase(c), extra |-> LenExtra[c + 1]]
    [] type = "DISTS" /\ n < D_CODES ->
         [kind |-> "base", bits |-> bits, val |-> 1 + Base(DistExtra, n), extra |-> DistExtra[n + 1]]
    [] OTHER -> [kind |-> "bad", bits |-> bits, val |-> 0, extra |-> 0]

Invalid(bits) == [kind |-> "bad", bits |-> bits, val |-> 0, extra |-> 0]

(* What the tables are made of: the symbols in work, their codes and lengths. *)
CodeSet(type, lens, work, wanted) ==
  LET len == [k \in 1..Len(work) |-> lens[work[k]]]
      max == len[Len(work)]
  IN [type |-> type, work |-> work, codes |-> Codes(lens, work), len |-> len, max |-> max,
      root |-> Max({len[1], Min({wanted, max})})]

Agree(code, index) == \A i \in 1..Min({Len(code), Len(index)}) : code[i] = index[i]

(* The entry at an index, among the codes from k0 on; drop bits are gone. *)
At(c, index, k0, drop) ==
  LET fit == {k \in k0..Len(c.work) : c.len[k] <= Len(index) /\ Agree(c.codes[k], index)}
  IN IF fit = {} THEN Invalid(1)
     ELSE LET k == CHOOSE k \in fit : TRUE IN Entry(c.type, c.work[k], c.len[k] - drop)

(* The codes with which second tables begin, and the index bits of those.  *)
Firsts(c) ==
  {k \in 1..Len(c.work) :
     c.len[k] > c.root /\ \A j \in 1..(k - 1) : c.len[j] > c.root => ~Agree(c.codes[j], SubSeq(c.codes[k], 1, c.root))}

SubBits(c, first) ==
  LET taken(curr) == FoldSet(LAMBDA j, v : v + (IF c.len[j] <= c.root + curr THEN 2 ^ (c.root + curr - c.len[j]) ELSE 0),
                             0, first..Len(c.work))
  IN Min({curr \in (c.len[first] - c.root)..(c.max - c.root) : curr = c.max - c.root \/ 2 ^ curr <= taken(curr)})

RootEntry(c, subBits, index) ==
  LET first == {k \in DOMAIN subBits : Agree(c.codes[k], index)}
      Sub(k) == [i \in [1..subBits[k] -> {0, 1}] |-> At(c, SubSeq(c.codes[k], 1, c.root) \o i, k, c.root)]
  IN IF first = {} THEN At(c, index, 1, 0)
     ELSE LET k == CHOOSE k \in first : TRUE
          IN [kind |-> "sub", bits |-> c.root, val |-> Sub(k), extra |-> subBits[k]]

Tables(c, subBits, enough) ==
  IF FoldSet(LAMBDA k, v : v + 2 ^ subBits[k], 2 ^ c.root, DOMAIN subBits) > enough
  THEN [ret |-> 1, bits |-> 0, table |-> <<>>]
  ELSE [ret |-> 0, bits |-> c.root,
        table |-> [index \in [1..c.root -> {0, 1}] |-> RootEntry(c, subBits, index)]]

TablesOf(c, enough) == Tables(c, [k \in Firsts(c) |-> SubBits(c, k)], enough)

inflate_table(type, lens, wanted, enough) ==
  LET used == {lens[n] : n \in DOMAIN lens} \ {0}
      left == Left(lens)
      invalid == (\E l \in 1..MAX_BITS : left[l] < 0)
                 \/ (left[MAX_BITS] > 0 /\ (type = "CODES" \/ used # {1}))
  IN CASE used = {} -> [ret |-> 0, bits |-> 1, table |-> [index \in [1..1 -> {0, 1}] |-> Invalid(1)]]
       [] used # {} /\ invalid -> [ret |-> -1, bits |-> 0, table |-> <<>>]
       [] OTHER -> TablesOf(CodeSet(type, lens, SortedSymbols(lens), wanted), enough)

(* The entry for the bits at hand, and how many of them its code takes.  A  *)
(* code that is not complete yet may seem longer than the bits.             *)
Lookup(t, hold) ==
  LET here == t.table[Index(hold, t.bits)]
      rest == SubSeq(hold, t.bits + 1, Len(hold))
      second == here.val[Index(rest, here.extra)]
  IN IF here.kind = "sub" THEN [second EXCEPT !.bits = @ + here.bits] ELSE here
=============================================================================
