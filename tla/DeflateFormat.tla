--------------------------- MODULE DeflateFormat ---------------------------
(***************************************************************************)
(* What the two halves of the vendored zlib agree on: bits, the alphabets  *)
(* of literals, lengths, distances and code lengths, and the checksum      *)
(* (zlib/deflate.h, trees.c, inftrees.c, adler32.c).  zlib's numbers are   *)
(* constants here, so that a small instance has every kind of code:        *)
(*                                                                         *)
(*   ByteBits    8     bits of a byte, so LITERALS = 2^ByteBits            *)
(*   MAX_BITS    15    longest literal or distance code                    *)
(*   BlField     3     bits that a length of a bit length code takes       *)
(*   LenExtra    29 values, extra_lbits; DistExtra: 30, extra_dbits        *)
(*   CountBits   <<5, 5, 4>>  what the three counts of a header take       *)
(*   RepBits     <<2, 3, 7>>  what REP_3_6, REPZ_3_10, REPZ_11_138 take    *)
(*   BlOrder     bl_order; StaticLens: the code lengths of static_ltree    *)
(*   AdlerBase   65521     StoredBits  16, what a stored length takes       *)
(*   W           32768, the window size                                    *)
(*                                                                         *)
(* A message is a sequence of bits in the order in which they are packed   *)
(* into bytes, lowest bit first.                                           *)
(***************************************************************************)
EXTENDS Integers, Sequences, SequencesExt, FiniteSetsExt

CONSTANTS ByteBits, MAX_BITS, BlField, LenExtra, DistExtra, CountBits, RepBits,
          BlOrder, StaticLens, AdlerBase,
          StoredBits, W

MIN_MATCH == 3

LITERALS == 2 ^ ByteBits
END_BLOCK == LITERALS
LENGTH_CODES == Len(LenExtra)
L_CODES == LITERALS + 1 + LENGTH_CODES
D_CODES == Len(DistExtra)

(* The bit length alphabet: the lengths themselves and three ways to repeat. *)
REP == MAX_BITS + 1
REPZ == MAX_BITS + 2
REPZZ == MAX_BITS + 3
BL_CODES == MAX_BITS + 4
MAX_BL_BITS == 2 ^ BlField - 1

Byte == 0 .. LITERALS - 1

(* A number as bits, lowest first (send_bits) and highest first (a Huffman
   code, which trees.c reverses before it sends it lowest first). *)
LowFirst(v, n) == [i \in 1..n |-> (v \div 2 ^ (i - 1)) % 2]
HighFirst(v, n) == [i \in 1..n |-> (v \div 2 ^ (n - i)) % 2]
Value(bits) == FoldLeftDomain(LAMBDA v, i : v + bits[i] * 2 ^ (i - 1), 0, bits)

BytesToBits(s) == FlattenSeq([i \in 1..Len(s) |-> LowFirst(s[i], ByteBits)])
BitsToBytes(bits) ==
  [i \in 1..(Len(bits) \div ByteBits) |-> Value(SubSeq(bits, (i - 1) * ByteBits + 1, i * ByteBits))]

(* Code c stands for the 2^extra[c + 1] values from Base(extra, c) on. *)
Base(extra, c) == FoldLeft(LAMBDA v, e : v + 2 ^ e, 0, SubSeq(extra, 1, c))
CodeOf(extra, v) ==
  CHOOSE c \in 0..(Len(extra) - 1) : Base(extra, c) <= v /\ v < Base(extra, c + 1)

MAX_MATCH == MIN_MATCH + Base(LenExtra, LENGTH_CODES - 1) - 1
MAX_DISTANCE == Base(DistExtra, D_CODES)

(* The longest match has a code of its own: the last one, without extra bits. *)
LengthCode(lc) == IF lc = MAX_MATCH - MIN_MATCH THEN LENGTH_CODES - 1 ELSE CodeOf(LenExtra, lc)
LengthBase(c) == IF c = LENGTH_CODES - 1 THEN MAX_MATCH - MIN_MATCH ELSE Base(LenExtra, c)
DistCode(d) == CodeOf(DistExtra, d)

(* Every distance has the same length in a block with static trees. *)
StaticDistBits == CHOOSE n \in 1..MAX_BITS : 2 ^ n >= D_CODES /\ 2 ^ (n - 1) < D_CODES

(* adler32(): two sums modulo a prime, and as it is written in the trailer. *)
adler32(a, s) ==
  FoldLeft(LAMBDA p, b : LET one == (p[1] + b) % AdlerBase
                         IN <<one, (p[2] + one) % AdlerBase>>, a, s)
AdlerStart == <<1, 0>>

(* putShortMSB(): a number of two bytes, the high one first. *)
ShortMSB(v) == BytesToBits(<<v \div LITERALS, v % LITERALS>>)
AdlerBits(a) == ShortMSB(a[2]) \o ShortMSB(a[1])

(* The two header bytes: a method, a flag for a preset dictionary, and a   *)
(* remainder that makes the whole a multiple of HeaderCheck (31 in zlib).  *)
HeaderCheck == 3
PresetDict == (LITERALS * LITERALS) \div 2
Deflated == PresetDict \div 2
Header(dict) ==
  LET h == Deflated + IF dict THEN PresetDict ELSE 0
  IN ShortMSB(h + (HeaderCheck - (h % HeaderCheck)))

(* Values of flush, and the rank by which repeated flushes are compared. *)
NO_FLUSH == 0
PARTIAL_FLUSH == 1
SYNC_FLUSH == 2
FULL_FLUSH == 3
FINISH == 4
BLOCK == 5
RANK(f) == 2 * f - IF f > 4 THEN 9 ELSE 0

FormatAssumption ==
  /\ \A i \in 1..3 : CountBits[i] \in Nat \ {0} /\ RepBits[i] \in Nat \ {0}
  /\ ToSet(BlOrder) = 0..(BL_CODES - 1) /\ Len(BlOrder) = BL_CODES
  /\ LenExtra[LENGTH_CODES] = 0
  /\ DOMAIN StaticLens = 0..(L_CODES - 1)
  /\ AdlerBase <= 4 ^ ByteBits
  /\ (2 * StoredBits) % ByteBits = 0
ASSUME FormatAssumption
=============================================================================
