--------------------------- MODULE MCCompression ---------------------------
EXTENDS Compression

McLenExtra == <<0, 1, 0>>
McDistExtra == <<0, 0, 1>>
McCountBits == <<2, 2, 3>>
McRepBits == <<1, 1, 2>>
McBlOrder == <<5, 6, 7, 0, 3, 2, 4, 1>>
McStaticLens == [n \in 0..7 |-> CASE n \in {0, 1, 5, 6, 7} -> 3 [] n \in {2, 3} -> 4 [] n = 4 -> 2]

(* Levels 0 to 3 for zlib's 0, 1 to 3, 4 to 6 and 9. *)
McConfig ==
  [n \in 0..3 |->
     CASE n = 0 -> [func |-> "stored", good |-> 0, lazy |-> 0, nice |-> 0, chain |-> 0]
       [] n = 1 -> [func |-> "fast", good |-> 4, lazy |-> 4, nice |-> 4, chain |-> 4]
       [] n = 2 -> [func |-> "slow", good |-> 4, lazy |-> 4, nice |-> 5, chain |-> 4]
       [] n = 3 -> [func |-> "slow", good |-> 5, lazy |-> 5, nice |-> 5, chain |-> 8]]

(* Pieces of text: a run, a period of 4, and one without long repeats. *)
A == <<0, 0, 0, 0, 0, 0, 0, 0>>
B == <<1, 2, 3, 0, 1, 2, 3, 0>>
C == <<1, 2, 1, 3, 2, 1, 2, 2, 1, 2, 0>>
D == <<3, 1, 0, 2, 3, 3, 1, 2, 0, 0, 2, 1>>
Texts == {u \o v \o w : u \in {A, B, C}, v \in {C, D}, w \in {A, B}}
Long == {C \o B \o A \o C, A \o D \o B \o B}

(* Texts of few bytes, for which trees of their own are worth sending. *)
Runs == <<3, 3, 2, 3, 3, 3, 3, 3, 3, 3, 3, 2, 3, 3, 2, 3, 3, 2, 3, 2, 3, 2, 3, 2, 3, 2>> \o [i \in 1..24 |-> 3]
Few == <<3, 2, 2, 0, 3, 3, 0, 2, 3, 2, 2, 2, 3, 0, 0, 3, 2, 3, 3, 3, 0, 2, 0, 3, 3, 2, 2, 1, 3, 0, 2, 2,
         3, 3, 2, 3, 0, 0, 2, 3, 0, 2, 3, 3, 2, 0, 3, 2, 2, 0, 2, 3, 3, 0, 3, 2, 0, 3, 3, 3, 2, 3, 3>>

(* One that hands over the whole text to level 2, and variations of it. *)
Plain(text) ==
  [sender |-> "stream", text |-> text, dictionary |-> <<>>, level |-> 2, strategy |-> "default",
   params |-> <<>>, flush |-> NO_FLUSH, piece |-> 100, room |-> 100, chunk |-> 100, left |-> 100, late |-> FALSE]

Flushing == {PARTIAL_FLUSH, SYNC_FLUSH, FULL_FLUSH}

(* With room for less than a flush takes, zlib.h warns, every call flushes  *)
(* once more; with such rooms nothing is flushed here.                      *)
McScenarios ==
  {[Plain(t) EXCEPT !.level = l, !.late = e] : t \in Texts, l \in 0..3, e \in BOOLEAN}
  \cup {[Plain(t) EXCEPT !.level = l, !.flush = f, !.piece = 9] : t \in Texts, l \in 0..3, f \in Flushing}
  \cup {[Plain(t) EXCEPT !.level = l, !.piece = p, !.room = r, !.chunk = c[1], !.left = c[2]] :
           t \in Long, l \in 0..3, p \in {4, 100}, r \in {1, 3}, c \in {<<1, 4>>, <<5, 1>>}}
  \cup {[Plain(t) EXCEPT !.level = l, !.flush = f, !.piece = 7, !.room = 8, !.chunk = c[1], !.left = c[2]] :
           t \in Long, l \in 0..3, f \in Flushing, c \in {<<1, 6>>, <<8, 2>>}}
  \cup {[Plain(t) EXCEPT !.level = l, !.strategy = s, !.flush = f, !.piece = 9, !.left = 6] :
           t \in Long, l \in 1..2, s \in {"fixed", "rle", "huff", "filtered"}, f \in {SYNC_FLUSH, FULL_FLUSH}}
  \cup {[Plain(t) EXCEPT !.level = l, !.dictionary = d, !.flush = f, !.piece = p, !.chunk = 3, !.left = 5] :
           t \in Long, l \in 0..2, d \in {B, <<1, 2>>, C \o A}, f \in {SYNC_FLUSH, FULL_FLUSH}, p \in {5, 100}}
  \cup {[Plain(t) EXCEPT !.level = l, !.params = <<m, s>>, !.flush = SYNC_FLUSH, !.piece = 6] :
           t \in Long, l \in 0..2, m \in 0..2, s \in {"default", "huff"}}
  \cup {[Plain(t) EXCEPT !.level = l, !.dictionary = C \o A, !.params = <<m, "default">>, !.piece = 6, !.left = 5] :
           t \in Long, l \in 0..2, m \in 0..2}
  \cup {[Plain(t) EXCEPT !.level = l, !.strategy = s, !.chunk = c, !.left = e, !.room = r] :
           t \in {Runs, Few}, l \in 1..2, s \in {"default", "huff"}, c \in {6, 100}, e \in {3, 100}, r \in {5, 100}}
  \cup {[Plain(t) EXCEPT !.sender = "oneshot", !.level = l, !.late = TRUE] : t \in Texts, l \in 0..3}

(* The trees by themselves: whatever the frequencies, also those for which *)
(* a tree must be cut, gen_bitlen() leaves no code unused, and each code   *)
(* of gen_codes(), whatever follows it, leads through the tables of        *)
(* inflate_table() to its symbol (trees.c:484, 570; inftrees.c:32).        *)
DecodedBy(t, type, lens) ==
  LET codes == gen_codes(lens)
  IN t.ret = 0 /\ \A n \in DOMAIN lens, b \in {0, 1} :
       lens[n] # 0 => Lookup(t, codes[n] \o <<b, b, b, b>>) = Entry(type, n, lens[n])

Complete(lens) == FoldSet(LAMBDA n, v : v + (IF lens[n] = 0 THEN 0 ELSE 2 ^ (MAX_BITS - lens[n])), 0, DOMAIN lens) = 2 ^ MAX_BITS

TreesDecode ==
  /\ \A freq \in [0..(BL_CODES - 1) -> {0, 1, 4}] :
       freq[0] = 1 /\ freq[1] = 1 =>
         LET lens == build_tree(freq, BL_CODES, MAX_BL_BITS)
         IN Complete(lens) /\ DecodedBy(inflate_table("CODES", lens, MAX_BL_BITS, 2 ^ MAX_BL_BITS), "CODES", lens)
  /\ \A freq \in [0..(L_CODES - 1) -> {0, 1, 3, 9}] :
       (\A n \in 0..2 : freq[n] = 1) =>
         LET lens == build_tree(freq, L_CODES, MAX_BITS)
         IN Complete(lens) /\ DecodedBy(inflate_table("LENS", lens, LenRoot, EnoughLens), "LENS", lens)
  /\ \A freq \in [0..(D_CODES - 1) -> {0, 1, 2}] :
       LET lens == build_tree(freq, D_CODES, MAX_BITS)
       IN Complete(lens) /\ DecodedBy(inflate_table("DISTS", lens, DistRoot, EnoughDists), "DISTS", lens)
ASSUME TreesDecode
=============================================================================
