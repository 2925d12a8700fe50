------------------------------ MODULE Inflate ------------------------------
(***************************************************************************)
(* zlib/inflate.c and inffast.c: the decompressor, a machine that can stop *)
(* at every bit it has to wait for.  y holds struct inflate_state and the  *)
(* fields of z_stream.  An action is one call of inflate(): it takes the   *)
(* cases of the switch, and turns of the loop of inflate_fast(), one after *)
(* another until it has to stop.  in and hold are bits: the input not read *)
(* yet and the bits read but not used.                                     *)
(***************************************************************************)
EXTENDS InflateTables

CONSTANT FastIn  \* input from which inflate_fast() decodes a token unasked

VARIABLE y

NoTable == [bits |-> 1, table |-> <<>>]

(* inflateInit2_(), inflateReset2(); the window is in use once wsize is set. *)
FreshInflate ==
  [pc |-> "idle", mode |-> "HEAD", flush |-> NO_FLUSH, ret |-> "OK",
   in |-> <<>>, before |-> 0, hold |-> <<>>, out |-> <<>>, left |-> 0,
   last |-> 0, check |-> AdlerStart, havedict |-> FALSE,
   nlen |-> 0, ndist |-> 0, ncode |-> 0, lens |-> <<>>,
   lencode |-> NoTable, distcode |-> NoTable, length |-> 0, offset |-> 0, extra |-> 0,
   window |-> [i \in 0..(W - 1) |-> 0], wsize |-> 0, whave |-> 0, wnext |-> 0]

----------------------------------------------------------------------------
(* Bits: PULLBYTE, NEEDBITS, BITS, DROPBITS, BYTEBITS. *)

Pull(s, bytes) ==
  [s EXCEPT !.hold = @ \o SubSeq(s.in, 1, bytes * ByteBits),
            !.in = SubSeq(@, bytes * ByteBits + 1, Len(@))]
Bits(s, n) == Value(SubSeq(s.hold, 1, n))
Drop(s, n) == [s EXCEPT !.hold = SubSeq(@, n + 1, Len(@))]
ByteBoundary(s) == Drop(s, Len(s.hold) % ByteBits)
Have(s) == Len(s.in) \div ByteBits

Put(s, byte) == [s EXCEPT !.out = Append(@, byte), !.left = @ - 1]

(* The byte that is d back in the output, of this call or of the window. *)
Back(s, d) ==
  IF d <= Len(s.out) THEN s.out[Len(s.out) - d + 1]
  ELSE s.window[(s.wnext + s.wsize - (d - Len(s.out))) % s.wsize]

TooFarBack(s) == s.offset > Len(s.out) + s.whave

(* Mutant of CopyMatch: forgets how much of the match was copied. *)
CopyKeepsLength(s, n) == FoldLeft(LAMBDA u, i : Put(u, Back(u, u.offset)), s, [i \in 1..n |-> i])

CopyMatch(s, n) ==
  LET t == FoldLeft(LAMBDA u, i : Put(u, Back(u, u.offset)), s, [i \in 1..n |-> i])
  IN [t EXCEPT !.length = @ - n]

(* updatewindow(): the last wsize bytes of the output, in a circle. *)
updatewindow(s, bytes) ==
  LET n == Len(bytes)
      at == IF s.wsize = 0 THEN 0 ELSE s.wnext
      had == IF s.wsize = 0 THEN 0 ELSE s.whave
  IN IF n >= W
     THEN [s EXCEPT !.wsize = W, !.window = [i \in 0..(W - 1) |-> bytes[n - W + i + 1]],
                    !.wnext = 0, !.whave = W]
     ELSE [s EXCEPT !.wsize = W,
                    !.window = [i \in 0..(W - 1) |-> LET k == (i + W - at) % W IN IF k < n THEN bytes[k + 1] ELSE @[i]],
                    !.wnext = (at + n) % W, !.whave = Min({W, had + n})]

(* inf_leave: a call that did nothing returns Z_BUF_ERROR.  (Neither the   *)
(* window nor the checksum is used again after CHECK.)                     *)
Leave(s, ret) ==
  LET kept == s.mode # "BAD" /\ (s.mode \notin {"CHECK", "DONE"} \/ s.flush # FINISH)
      t == IF s.wsize # 0 \/ (s.out # <<>> /\ kept) THEN updatewindow(s, s.out) ELSE s
      stuck == (Len(s.in) = s.before /\ s.out = <<>>) \/ s.flush = FINISH
  IN [t EXCEPT !.pc = "idle", !.check = adler32(@, s.out), !.ret = IF stuck /\ ret = "OK" THEN "BUF_ERROR" ELSE ret]

(* Go on when Enough(hold) holds, reading as few bytes as that takes, or    *)
(* leave with all the input in hold.                                        *)
Read(s, Enough(_), Then(_)) ==
  LET ready(k) == Enough(Pull(s, k).hold)
      least == CHOOSE k \in 0..Have(s) : ready(k) /\ (k = 0 \/ ~ready(k - 1))
  IN IF \E k \in 0..Have(s) : ready(k) THEN Then(Pull(s, least)) ELSE Leave(Pull(s, Have(s)), "OK")

Need(s, n, Then(_)) == Read(s, LAMBDA hold : Len(hold) >= n, Then)

Decode(s, table, Then(_)) ==
  Read(s, LAMBDA hold : Lookup(table, hold).bits <= Len(hold), Then)

Go(s, mode) == [s EXCEPT !.mode = mode]
Bad(s) == Go(s, "BAD")

----------------------------------------------------------------------------
(* The cases. *)

ZlibHeader(s) ==
  Need(s, 2 * ByteBits, LAMBDA t :
    LET b == BitsToBytes(t.hold)
        v == b[1] * LITERALS + b[2]
    IN IF v % HeaderCheck # 0 \/ (v \div Deflated) % 2 # 1 THEN Bad(t)
       ELSE [t EXCEPT !.check = AdlerStart, !.hold = <<>>,
                      !.mode = IF v >= PresetDict THEN "DICTID" ELSE "TYPE"])

(* The checksum that is next in the stream. *)
Stated(hold) ==
  LET b == BitsToBytes(hold) IN <<b[3] * LITERALS + b[4], b[1] * LITERALS + b[2]>>

DictId(s) ==
  Need(s, 4 * ByteBits, LAMBDA t : [t EXCEPT !.check = Stated(t.hold), !.hold = <<>>, !.mode = "DICT"])

Dict(s) ==
  IF ~s.havedict THEN [s EXCEPT !.pc = "idle", !.ret = "NEED_DICT"]
  ELSE [s EXCEPT !.check = AdlerStart, !.mode = "TYPE"]

fixedtables(s) ==
  [s EXCEPT !.lencode = inflate_table("LENS", StaticLens, MAX_BITS, 2 ^ MAX_BITS),
            !.distcode = inflate_table("DISTS", [c \in 0..(2 ^ StaticDistBits - 1) |-> StaticDistBits],
                                       StaticDistBits, 2 ^ StaticDistBits),
            !.mode = "LEN"]

Type(s) ==
  IF s.last = 1 THEN Go(ByteBoundary(s), "CHECK")
  ELSE Need(s, 3, LAMBDA t :
         LET kind == Bits(Drop(t, 1), 2)
             u == [Drop(t, 3) EXCEPT !.last = Bits(t, 1)]
         IN CASE kind = 0 -> Go(u, "STORED")
              [] kind = 1 -> fixedtables(u)
              [] kind = 2 -> Go(u, "TABLE")
              [] OTHER -> Bad(u))

StoredBlock(s) ==
  Need(ByteBoundary(s), 2 * StoredBits, LAMBDA t :
    LET n == Bits(t, StoredBits)
    IN IF n + Bits(Drop(t, StoredBits), StoredBits) # 2 ^ StoredBits - 1 THEN Bad(t)
       ELSE [t EXCEPT !.length = n, !.hold = <<>>, !.mode = "COPY"])

Copy(s) ==
  LET n == Min({s.length, Have(s), s.left})
      bytes == BitsToBytes(SubSeq(s.in, 1, n * ByteBits))
  IN CASE s.length = 0 -> Go(s, "TYPE")
       [] s.length # 0 /\ n = 0 -> Leave(s, "OK")
       [] OTHER -> [s EXCEPT !.in = SubSeq(@, n * ByteBits + 1, Len(@)), !.out = @ \o bytes,
                             !.left = @ - n, !.length = @ - n]

Table(s) ==
  LET a == CountBits[1]  b == CountBits[2]  c == CountBits[3]
  IN Need(s, a + b + c, LAMBDA t :
       LET u == [Drop(t, a + b + c) EXCEPT !.nlen = Bits(t, a) + LITERALS + 1,
                                           !.ndist = Bits(Drop(t, a), b) + 1,
                                           !.ncode = Bits(Drop(t, a + b), c) + 4, !.lens = <<>>]
       IN IF u.nlen > L_CODES \/ u.ndist > D_CODES THEN Bad(u) ELSE Go(u, "LENLENS"))

(* The lengths of the bit length codes come in bl_order; state->have is Len(lens). *)
BlTable(s, built) ==
  IF built.ret # 0 THEN Bad(s) ELSE [s EXCEPT !.lencode = built, !.lens = <<>>, !.mode = "CODELENS"]

LenLens(s) ==
  LET n == Len(s.lens)
      lens == [b \in 0..(BL_CODES - 1) |->
                 LET r == CHOOSE i \in 1..BL_CODES : BlOrder[i] = b IN IF r <= n THEN s.lens[r] ELSE 0]
  IN IF n < s.ncode
     THEN Need(s, BlField, LAMBDA t : [Drop(t, BlField) EXCEPT !.lens = Append(@, Bits(t, BlField))])
     ELSE BlTable(s, inflate_table("CODES", lens, MAX_BL_BITS, 2 ^ MAX_BL_BITS))

(* One symbol of the lengths of both trees: a length, or a repeat. *)
CodeLen(s) ==
  Decode(s, s.lencode, LAMBDA t :
    LET here == Lookup(t.lencode, t.hold)
        n == Len(t.lens)
        Repeat(field, least, what) ==
          Need(t, here.bits + field, LAMBDA u :
            LET count == least + Bits(Drop(u, here.bits), field)
                v == Drop(u, here.bits + field)
            IN IF n + count > v.nlen + v.ndist THEN Bad(v)
               ELSE [v EXCEPT !.lens = @ \o [i \in 1..count |-> what]])
    IN CASE here.val < REP -> [Drop(t, here.bits) EXCEPT !.lens = Append(@, here.val)]
         [] here.val = REP /\ n = 0 -> Need(t, here.bits + RepBits[1], LAMBDA u : Bad(Drop(u, here.bits)))
         [] here.val = REP /\ n # 0 -> Repeat(RepBits[1], 3, t.lens[n])
         [] here.val = REPZ -> Repeat(RepBits[2], 3, 0)
         [] OTHER -> Repeat(RepBits[3], 3 + 2 ^ RepBits[2], 0))

BothTables(s, l, d) ==
  IF s.lens[END_BLOCK + 1] = 0 \/ l.ret # 0 \/ d.ret # 0 THEN Bad(s)
  ELSE [s EXCEPT !.lencode = l, !.distcode = d, !.mode = "LEN"]

CodeLens(s) ==
  IF Len(s.lens) < s.nlen + s.ndist THEN CodeLen(s)
  ELSE BothTables(s,
         inflate_table("LENS", [n \in 0..(s.nlen - 1) |-> s.lens[n + 1]], LenRoot, EnoughLens),
         inflate_table("DISTS", [n \in 0..(s.ndist - 1) |-> s.lens[s.nlen + n + 1]], DistRoot, EnoughDists))

----------------------------------------------------------------------------
(* inflate_fast(): with this much input and room nothing can run out within *)
(* a token.  Whole bytes that were read ahead are given back at the end.    *)

MayBeFast(s) == Have(s) >= FastIn /\ s.left >= MAX_MATCH

Refilled(s) == IF Len(s.hold) < MAX_BITS THEN Pull(s, 2) ELSE s
WithBits(s, n) == LET k == Min({i \in 0..2 : Len(s.hold) + i * ByteBits >= n}) IN Pull(s, k)

FastCopy(s) == IF TooFarBack(s) THEN Bad(s) ELSE CopyMatch(s, s.length)

FastOffset(s, least, extra) == FastCopy([Drop(s, extra) EXCEPT !.offset = least + Bits(s, extra)])

FastDistance(s, here) ==
  IF here.kind = "bad" THEN Bad(Drop(s, here.bits))
  ELSE FastOffset(WithBits(Drop(s, here.bits), here.extra), here.val, here.extra)

FastCode(s) == FastDistance(s, Lookup(s.distcode, s.hold))

FastLength(s, least, extra) ==
  FastCode(Refilled([Drop(s, extra) EXCEPT !.length = least + Bits(s, extra)]))

FastSymbol(s, here) ==
  CASE here.kind = "lit" -> Put(s, here.val)
    [] here.kind = "base" -> FastLength(WithBits(s, here.extra), here.val, here.extra)
    [] here.kind = "end" -> Go(s, "TYPE")
    [] OTHER -> Bad(s)

FastOne(s) == LET here == Lookup(s.lencode, s.hold) IN FastSymbol(Drop(s, here.bits), here)

FastEnd(s) ==
  LET kept == Len(s.hold) % ByteBits
  IN IF s.mode = "FAST" /\ MayBeFast(s) THEN s
     ELSE [s EXCEPT !.in = SubSeq(s.hold, kept + 1, Len(s.hold)) \o @, !.hold = SubSeq(@, 1, kept),
                    !.mode = IF @ = "FAST" THEN "LEN" ELSE @]

inflate_fast(s) == FastEnd(FastOne(Refilled(Go(s, "FAST"))))

(* One token, in as many cases as there are places to wait. *)
LenCode(s) ==
  IF MayBeFast(s) THEN inflate_fast(s)
  ELSE Decode(s, s.lencode, LAMBDA t :
         LET here == Lookup(t.lencode, t.hold)
             u == [Drop(t, here.bits) EXCEPT !.length = here.val]
         IN CASE here.kind = "lit" -> Go(u, "LIT")
              [] here.kind = "end" -> Go(u, "TYPE")
              [] here.kind = "base" -> [u EXCEPT !.extra = here.extra, !.mode = "LENEXT"]
              [] OTHER -> Bad(u))

LenExt(s) ==
  Need(s, s.extra, LAMBDA t : [Drop(t, t.extra) EXCEPT !.length = @ + Bits(t, t.extra), !.mode = "DIST"])

DistanceCode(s) ==
  Decode(s, s.distcode, LAMBDA t :
    LET here == Lookup(t.distcode, t.hold)
        u == Drop(t, here.bits)
    IN IF here.kind = "bad" THEN Bad(u)
       ELSE [u EXCEPT !.offset = here.val, !.extra = here.extra, !.mode = "DISTEXT"])

DistExt(s) ==
  Need(s, s.extra, LAMBDA t : [Drop(t, t.extra) EXCEPT !.offset = @ + Bits(t, t.extra), !.mode = "MATCH"])

Match(s) ==
  LET n == Min({s.length, s.left})
      t == CopyMatch(s, n)
  IN CASE s.left = 0 -> Leave(s, "OK")
       [] s.left # 0 /\ TooFarBack(s) -> Bad(s)
       [] OTHER -> IF t.length = 0 THEN Go(t, "LEN") ELSE t

Lit(s) == IF s.left = 0 THEN Leave(s, "OK") ELSE Go(Put(s, s.length), "LEN")

Check(s) ==
  Need(s, 4 * ByteBits, LAMBDA t :
    IF Stated(t.hold) # adler32(t.check, t.out) THEN Bad(t) ELSE [t EXCEPT !.hold = <<>>, !.mode = "DONE"])

Step(s) ==
  CASE s.mode = "HEAD" -> ZlibHeader(s)    [] s.mode = "DICTID" -> DictId(s)
    [] s.mode = "DICT" -> Dict(s)          [] s.mode = "TYPE" -> Type(s)
    [] s.mode = "STORED" -> StoredBlock(s) [] s.mode = "COPY" -> Copy(s)
    [] s.mode = "TABLE" -> Table(s)        [] s.mode = "LENLENS" -> LenLens(s)
    [] s.mode = "CODELENS" -> CodeLens(s)  [] s.mode = "LEN" -> LenCode(s)
    [] s.mode = "FAST" -> inflate_fast(s)  [] s.mode = "LENEXT" -> LenExt(s)
    [] s.mode = "DIST" -> DistanceCode(s)  [] s.mode = "DISTEXT" -> DistExt(s)
    [] s.mode = "MATCH" -> Match(s)        [] s.mode = "LIT" -> Lit(s)
    [] s.mode = "CHECK" -> Check(s)        [] s.mode = "DONE" -> Leave(s, "STREAM_END")
    [] s.mode = "BAD" -> Leave(s, "DATA_ERROR")

----------------------------------------------------------------------------
(* The calls. *)

RECURSIVE Run(_)
Run(s) == IF s.pc = "idle" THEN s ELSE Run(Step(s))

(* inflate() with more input, room for left bytes, and a flush value. *)
inflate(more, left, flush) ==
  Run([y EXCEPT !.pc = "work", !.in = @ \o more, !.before = Len(y.in \o more),
                !.out = <<>>, !.left = left, !.flush = flush])

inflateSetDictionary(dictionary) ==
  IF adler32(AdlerStart, dictionary) # y.check THEN [y EXCEPT !.ret = "DATA_ERROR"]
  ELSE [updatewindow(y, dictionary) EXCEPT !.havedict = TRUE, !.ret = "OK"]
=============================================================================
