------------------------------ MODULE Deflate ------------------------------
(***************************************************************************)
(* zlib/deflate.c: the compressor.  The application calls deflate() again  *)
(* and again with some input, some room for output and a flush value; each *)
(* call goes on where the last one stopped.  z holds struct internal_state *)
(* and the fields of z_stream; a call is a sequence of steps, one for each *)
(* turn of the loop of deflate_stored(), _fast(), _slow(), _rle() or       *)
(* _huff().  z.pc is "idle" between calls.                                 *)
(***************************************************************************)
EXTENDS HuffmanTrees

CONSTANTS LitBufsize, \* lit_bufsize: a block ends one token before that
          HashSize,   \* hash_size
          MaxStored,  \* max_block_size of deflate_stored()
          TooFar,     \* TOO_FAR: short matches farther away are not used
          Config      \* configuration_table: level -> [func, good, lazy, nice, chain]

MIN_LOOKAHEAD == MAX_MATCH + MIN_MATCH + 1
MAX_DIST == W - MIN_LOOKAHEAD
WindowSize == 2 * W

DeflateAssumption ==
  /\ 2 * MIN_LOOKAHEAD <= WindowSize /\ MAX_DIST >= 1 /\ MAX_DIST <= MAX_DISTANCE
  /\ 8 % HashSize = 0
  /\ MaxStored < 2 ^ StoredBits /\ WindowSize - MIN_LOOKAHEAD < 2 ^ StoredBits
ASSUME DeflateAssumption

VARIABLE z

NIL == 0
ClearHash(s) == [s EXCEPT !.head = [h \in 0..(HashSize - 1) |-> NIL]]

(* The parts of the state: what deflateResetKeep() and _tr_init() set, what *)
(* lm_init() sets, and the rest.  The window is not cleared by the code;    *)
(* what it holds at first is never used.                                    *)
deflateResetKeep ==
  [status |-> "INIT", wrap |-> 1, adler |-> AdlerStart, last_flush |-> NO_FLUSH, taken |-> 0,
   tokens |-> <<>>, bits |-> <<>>]

lm_init ==
  [head |-> [h \in 0..(HashSize - 1) |-> NIL], ins_h |-> 0,
   strstart |-> 0, block_start |-> 0, lookahead |-> 0, insert |-> 0,
   match_length |-> MIN_MATCH - 1, prev_length |-> MIN_MATCH - 1, match_available |-> FALSE]

(* deflateInit2_() *)
Fresh(level, strategy) ==
  [pc |-> "idle", in |-> <<>>, room |-> 0, out |-> <<>>, flush |-> NO_FLUSH, ret |-> "OK",
   params |-> <<>>, level |-> level, strategy |-> strategy,
   window |-> [i \in 0..(WindowSize - 1) |-> 0], prev |-> [i \in 0..(W - 1) |-> NIL],
   match_start |-> 0, prev_match |-> 0, horizon |-> 0] @@ deflateResetKeep @@ lm_init

(* Where strstart is in the whole input, a dictionary before it included. *)
Position(s) == s.taken - s.lookahead

----------------------------------------------------------------------------
(* The dictionary of strings.  The exclusive or of UPDATE_HASH() is a sum   *)
(* here: after three updates a byte has left the value, in both.            *)

UpdateHash(h, b) == (2 * h + b) % HashSize

InsertString(s, str) ==
  LET h == UpdateHash(s.ins_h, s.window[str + MIN_MATCH - 1])
  IN [s EXCEPT !.ins_h = h, !.prev[str % W] = s.head[h], !.head[h] = str]

HashHead(s, str) == s.head[UpdateHash(s.ins_h, s.window[str + MIN_MATCH - 1])]

InsertStrings(s, first, last) == FoldLeft(InsertString, s, [i \in 1..(last - first + 1) |-> first + i - 1])

(* Slide the window when its upper half is full: the lower half goes. *)
Slide(s) ==
  LET older(m) == IF m >= W THEN m - W ELSE NIL
  IN IF s.strstart < W + MAX_DIST THEN s
     ELSE [s EXCEPT !.window = [i \in DOMAIN s.window |-> s.window[IF i < W THEN i + W ELSE i]],
                    !.match_start = @ - W, !.strstart = @ - W, !.block_start = @ - W,
                    !.head = [h \in DOMAIN s.head |-> older(s.head[h])],
                    !.prev = [i \in DOMAIN s.prev |-> older(s.prev[i])]]

(* The checksum of the input is kept as it is read. *)
ReadBuf(s, size) ==
  LET len == Min({Len(s.in), size})
      at == s.strstart + s.lookahead
      got == SubSeq(s.in, 1, len)
  IN [s EXCEPT !.in = SubSeq(@, len + 1, Len(@)), !.taken = @ + len, !.lookahead = @ + len,
               !.window = [i \in DOMAIN @ |-> IF i >= at /\ i < at + len THEN got[i - at + 1] ELSE @[i]],
               !.adler = IF s.wrap = 1 THEN adler32(@, got) ELSE @]

(* Strings that could not be entered for want of lookahead are entered now. *)
InsertPending(s) ==
  LET str == s.strstart - s.insert
      n == Min({s.insert, s.lookahead + s.insert - (MIN_MATCH - 1)})
  IN IF s.lookahead + s.insert < MIN_MATCH THEN s
     ELSE [InsertStrings([s EXCEPT !.ins_h = UpdateHash(s.window[str], s.window[str + 1])], str, str + n - 1)
             EXCEPT !.insert = @ - n]

RECURSIVE fill_window(_)
fill_window(s) ==
  LET t == Slide(s)
      u == InsertPending(ReadBuf(t, WindowSize - t.lookahead - t.strstart))
  IN IF s.in = <<>> THEN t
     ELSE IF u.lookahead < MIN_LOOKAHEAD /\ u.in # <<>> THEN fill_window(u) ELSE u

----------------------------------------------------------------------------
(* The longest match that begins at strstart, along the chain of strings    *)
(* with the same hash.  Bytes are compared beyond the lookahead; the length *)
(* is cut at the end.  The third byte is not compared.                      *)

MatchLength(s, cur) ==
  Max({n \in MIN_MATCH..MAX_MATCH : \A i \in MIN_MATCH..(n - 1) : s.window[cur + i] = s.window[s.strstart + i]})

RECURSIVE FollowChain(_, _, _, _)
FollowChain(s, cur, chain, best) ==
  LET same(i) == s.window[cur + i] = s.window[s.strstart + i]
      len == IF same(best[1]) /\ same(best[1] - 1) /\ same(0) /\ same(1) THEN MatchLength(s, cur) ELSE 0
      new == IF len > best[1] THEN <<len, cur>> ELSE best
      next == s.prev[cur % W]
      limit == IF s.strstart > MAX_DIST THEN s.strstart - MAX_DIST ELSE NIL
      nice == Min({Config[s.level].nice, s.lookahead})
  IN IF (len > best[1] /\ len >= nice) \/ next <= limit \/ chain = 1 THEN new
     ELSE FollowChain(s, next, chain - 1, new)

longest_match(s, cur) ==
  LET c == Config[s.level]
      best == FollowChain(s, cur, IF s.prev_length >= c.good THEN c.chain \div 4 ELSE c.chain,
                          <<s.prev_length, s.match_start>>)
  IN [s EXCEPT !.match_length = Min({best[1], s.lookahead}), !.match_start = best[2]]

----------------------------------------------------------------------------
(* Output.  Whole bytes go to the application as long as it has room. *)

flush_pending(s) ==
  LET n == ByteBits * Min({Len(s.bits) \div ByteBits, s.room})
  IN [s EXCEPT !.out = @ \o SubSeq(s.bits, 1, n), !.bits = SubSeq(@, n + 1, Len(@)),
               !.room = @ - n \div ByteBits]

FlushBlockOnly(s, last) ==
  LET size == s.strstart - s.block_start
      known == s.block_start >= 0
      buf == IF known THEN [i \in 1..size |-> s.window[s.block_start + i - 1]] ELSE <<>>
  IN flush_pending([s EXCEPT !.bits = tr_flush_block(@, s.tokens, buf, known, size, last, s.level, s.strategy),
                             !.tokens = <<>>, !.block_start = s.strstart])

Tally(s, dist, lc) == [s EXCEPT !.tokens = Append(@, <<dist, lc>>)]
BlockFull(s) == Len(s.tokens) = LitBufsize - 1

Literal(s, at) == Tally(s, 0, s.window[at])

(* The second half of deflateParams(), after its call of deflate(). *)
SetParams(s) ==
  IF s.params = <<>> THEN s ELSE [s EXCEPT !.level = s.params[1], !.strategy = s.params[2], !.params = <<>>]

Return(s, ret) == SetParams([s EXCEPT !.pc = "idle", !.ret = ret])

(* The trailer is written once; a caller without room for it calls again. *)
TrailerSent(s) ==
  Return([s EXCEPT !.wrap = 0 - @], IF Len(s.bits) >= ByteBits THEN "OK" ELSE "STREAM_END")

Trailer(s) ==
  CASE s.flush # FINISH -> Return(s, "OK")
    [] s.flush = FINISH /\ s.wrap <= 0 -> Return(s, "STREAM_END")
    [] OTHER -> TrailerSent(flush_pending([s EXCEPT !.bits = @ \o AdlerBits(s.adler)]))

NeedMore(s) == Return([s EXCEPT !.last_flush = IF s.room = 0 THEN -1 ELSE @], "OK")

IfRoom(s) == IF s.room = 0 THEN NeedMore(s) ELSE s
TrailerIfRoom(s) == IF s.room = 0 THEN NeedMore(s) ELSE Trailer(s)

(* What deflate() does when a block is done: marks that make a flush        *)
(* complete, and after a full flush nothing before it is used again.        *)
Marked(s) ==
  CASE s.flush = PARTIAL_FLUSH -> [s EXCEPT !.bits = tr_align(@)]
    [] s.flush \in {SYNC_FLUSH, FULL_FLUSH} -> [s EXCEPT !.bits = tr_stored_block(@, <<>>, 0)]
    [] OTHER -> s

Cleared(s) ==
  LET c == [ClearHash(s) EXCEPT !.horizon = Position(s)]
  IN CASE s.flush # FULL_FLUSH -> s
       [] s.flush = FULL_FLUSH /\ s.lookahead # 0 -> c
       [] OTHER -> [c EXCEPT !.strstart = 0, !.block_start = 0, !.insert = 0]

BlockDone(s) == TrailerIfRoom(flush_pending(Cleared(Marked(s))))

(* FLUSH_BLOCK() inside a loop, and what the loops do when the input is at  *)
(* an end.                                                                  *)
FlushBlock(s) == IfRoom(FlushBlockOnly(s, 0))

FlushIfFull(s) == IF BlockFull(s) THEN FlushBlock(s) ELSE s

AfterLastBlock(s) ==
  CASE s.room = 0 -> NeedMore(s)
    [] s.room # 0 /\ s.flush = FINISH -> Trailer(s)
    [] OTHER -> BlockDone(s)

EndOfInput(s, open) ==
  LET finish == s.flush = FINISH
  IN IF ~finish /\ ~open THEN BlockDone(s)
     ELSE AfterLastBlock([FlushBlockOnly(s, IF finish THEN 1 ELSE 0)
                            EXCEPT !.status = IF finish THEN "FINISH" ELSE @])

HashEnd(s) == [s EXCEPT !.insert = Min({s.strstart, MIN_MATCH - 1})]

----------------------------------------------------------------------------
(* The loops.  Each asks for more lookahead when it has too little, leaves *)
(* when that is not to be had now, and ends with the input; else it deals  *)
(* with one token.                                                         *)

Filled(s, least) == IF s.lookahead < least THEN fill_window(s) ELSE s
Starved(s, least) == s.lookahead < least /\ s.flush = NO_FLUSH
Over(s) == s.lookahead = 0 /\ s.flush # NO_FLUSH

(* Level 0 takes all there is into the window and cuts it in blocks. *)
StoreFull(s) ==
  LET full == s.block_start + MaxStored
  IN IF s.strstart >= full
     THEN FlushBlock([s EXCEPT !.lookahead = s.strstart - full, !.strstart = full]) ELSE s

StoreRest(s) ==
  IF s.pc # "idle" /\ s.strstart - s.block_start >= MAX_DIST THEN FlushBlock(s) ELSE s

StoreWindow(s) == StoreRest(StoreFull([s EXCEPT !.strstart = @ + s.lookahead, !.lookahead = 0]))

StoredEnd(s) == EndOfInput([s EXCEPT !.insert = 0], s.strstart > s.block_start)

StoredTurn(s) ==
  CASE Starved(s, 1) -> NeedMore(s) [] Over(s) -> StoredEnd(s) [] OTHER -> StoreWindow(s)

deflate_stored(s) == StoredTurn(Filled(s, 2))

(* Mutant of HasMatch: takes any string the hash leads to, however far. *)
HasMatchAnywhere(s) == s.lookahead >= MIN_MATCH /\ HashHead(s, s.strstart) # NIL

HasMatch(s) ==
  /\ s.lookahead >= MIN_MATCH
  /\ HashHead(s, s.strstart) # NIL
  /\ s.strstart - HashHead(s, s.strstart) <= MAX_DIST

Entered(s) == IF s.lookahead >= MIN_MATCH THEN InsertString(s, s.strstart) ELSE s

(* deflate_fast() takes the first match it finds.  The strings inside it    *)
(* are entered only when it is short.                                       *)
TakeMatch(s) ==
  LET n == s.match_length
      left == [Tally(s, s.strstart - s.match_start, n - MIN_MATCH)
                 EXCEPT !.lookahead = @ - n, !.match_length = 0, !.strstart = @ + n]
  IN IF n <= Config[s.level].lazy /\ left.lookahead >= MIN_MATCH
       THEN InsertStrings(left, s.strstart + 1, s.strstart + n - 1)
       ELSE [left EXCEPT !.ins_h = UpdateHash(s.window[left.strstart], s.window[left.strstart + 1])]

TakeLiteral(s) == [Literal(s, s.strstart) EXCEPT !.lookahead = @ - 1, !.strstart = @ + 1]

FastChoice(s) == FlushIfFull(IF s.match_length >= MIN_MATCH THEN TakeMatch(s) ELSE TakeLiteral(s))

FastToken(s) ==
  FastChoice(IF HasMatch(s) THEN longest_match(Entered(s), HashHead(s, s.strstart)) ELSE Entered(s))

Compressed(s) == EndOfInput(HashEnd(s), s.tokens # <<>>)

FastTurn(s) ==
  CASE Starved(s, MIN_LOOKAHEAD) -> NeedMore(s) [] Over(s) -> Compressed(s) [] OTHER -> FastToken(s)

deflate_fast(s) == FastTurn(Filled(s, MIN_LOOKAHEAD))

(* deflate_slow() takes a match only when the next position has none that   *)
(* is longer; match_available says that a byte waits for this decision.     *)
TakePrevious(s) ==
  LET n == s.prev_length
      limit == s.strstart + s.lookahead - MIN_MATCH
      t == Tally(s, s.strstart - 1 - s.prev_match, n - MIN_MATCH)
      u == InsertStrings(t, s.strstart + 1, Min({s.strstart + n - 2, limit}))
  IN FlushIfFull([u EXCEPT !.lookahead = @ - (n - 1), !.strstart = @ + n - 1, !.prev_length = 0,
                           !.match_available = FALSE, !.match_length = MIN_MATCH - 1])

Advanced(s) == IfRoom([s EXCEPT !.strstart = @ + 1, !.lookahead = @ - 1])

PassPrevious(s) ==
  LET t == Literal(s, s.strstart - 1)
  IN Advanced(IF BlockFull(t) THEN FlushBlockOnly(t, 0) ELSE t)

(* A short match that is far away, or whose strategy does not want it, is   *)
(* none.                                                                    *)
Preferred(s) ==
  LET far == s.match_length = MIN_MATCH /\ s.strstart - s.match_start > TooFar
  IN IF s.match_length <= 5 /\ (s.strategy = "filtered" \/ far)
     THEN [s EXCEPT !.match_length = MIN_MATCH - 1] ELSE s

SlowChoice(s) ==
  IF s.prev_length >= MIN_MATCH /\ s.match_length <= s.prev_length THEN TakePrevious(s)
  ELSE IF s.match_available THEN PassPrevious(s)
  ELSE [s EXCEPT !.match_available = TRUE, !.strstart = @ + 1, !.lookahead = @ - 1]

SlowToken(s) ==
  LET waiting == [Entered(s) EXCEPT !.prev_length = s.match_length, !.prev_match = s.match_start,
                                    !.match_length = MIN_MATCH - 1]
  IN SlowChoice(IF HasMatch(s) /\ s.match_length < Config[s.level].lazy
                THEN Preferred(longest_match(waiting, HashHead(s, s.strstart))) ELSE waiting)

(* Mutant of SlowEnd: at the end of the input a byte goes on waiting. *)
SlowKeepsByte(s) == Compressed(s)

SlowEnd(s) ==
  Compressed(IF s.match_available THEN [Literal(s, s.strstart - 1) EXCEPT !.match_available = FALSE] ELSE s)

SlowTurn(s) ==
  CASE Starved(s, MIN_LOOKAHEAD) -> NeedMore(s) [] Over(s) -> SlowEnd(s) [] OTHER -> SlowToken(s)

deflate_slow(s) == SlowTurn(Filled(s, MIN_LOOKAHEAD))

(* Z_RLE finds runs of one byte, Z_HUFFMAN_ONLY nothing; neither enters     *)
(* strings.                                                                 *)
RunLength(s) ==
  LET run == {n \in 1..MAX_MATCH : \A i \in 0..(n - 1) : s.window[s.strstart + i] = s.window[s.strstart - 1]}
  IN IF s.lookahead >= MIN_MATCH /\ s.strstart > 0 /\ MIN_MATCH \in run
     THEN Min({Max(run), s.lookahead}) ELSE 0

RleToken(s) ==
  LET n == RunLength(s)
  IN FlushIfFull(
       IF n >= MIN_MATCH
         THEN [Tally(s, 1, n - MIN_MATCH) EXCEPT !.lookahead = @ - n, !.strstart = @ + n, !.match_length = 0]
         ELSE [TakeLiteral(s) EXCEPT !.match_length = n])

Unhashed(s) == EndOfInput([s EXCEPT !.insert = 0], s.tokens # <<>>)

RleTurn(s) ==
  CASE Starved(s, MAX_MATCH + 1) -> NeedMore(s) [] Over(s) -> Unhashed(s) [] OTHER -> RleToken(s)

deflate_rle(s) == RleTurn(Filled(s, MAX_MATCH + 1))

HuffTurn(s) ==
  CASE Starved(s, 1) -> NeedMore(s)
    [] Over(s) -> Unhashed(s)
    [] OTHER -> FlushIfFull([TakeLiteral(s) EXCEPT !.match_length = 0])

deflate_huff(s) == HuffTurn(Filled(s, 1))

----------------------------------------------------------------------------
(* The calls. *)

(* What deflate() does before its loop: the header, what is still pending,  *)
(* and whether there is anything to do.                                     *)
WriteHeader(s) ==
  IF s.status # "INIT" THEN s
  ELSE [s EXCEPT !.bits = @ \o Header(s.strstart # 0) \o (IF s.strstart # 0 THEN AdlerBits(s.adler) ELSE <<>>),
                 !.status = "BUSY", !.adler = AdlerStart]

Enter(s, room, flush) ==
  LET h == WriteHeader([s EXCEPT !.room = room, !.flush = flush, !.last_flush = flush])
      pending == Len(h.bits) >= ByteBits
      t == IF pending THEN flush_pending(h) ELSE h
      repeated == s.in = <<>> /\ RANK(flush) <= RANK(s.last_flush) /\ flush # FINISH
      afterEnd == s.status = "FINISH" /\ s.in # <<>>
      todo == s.in # <<>> \/ s.lookahead # 0 \/ (flush # NO_FLUSH /\ s.status # "FINISH")
  IN IF pending /\ t.room = 0 THEN NeedMore(t)
     ELSE IF (~pending /\ repeated) \/ afterEnd THEN Return(t, "BUF_ERROR")
     ELSE IF todo THEN [t EXCEPT !.pc = "work"] ELSE Trailer(t)

CallOn(s, more, room, flush) == Enter([s EXCEPT !.in = @ \o more, !.out = <<>>], room, flush)
Call(more, room, flush) == CallOn(z, more, room, flush)

(* deflateParams(): with another function or strategy, what has been read   *)
(* so far becomes a block first.                                            *)
deflateParams(level, strategy, room) ==
  LET s == [z EXCEPT !.params = <<level, strategy>>, !.out = <<>>]
  IN IF (strategy # z.strategy \/ Config[level].func # Config[z.level].func) /\ z.taken # 0
     THEN Enter(s, room, BLOCK) ELSE SetParams(s)

(* deflateSetDictionary() on a new stream: the end of the dictionary is     *)
(* input, counted like all of it, that no token will stand for.             *)
SetDictionary(s, dictionary) ==
  LET tail == SubSeq(dictionary, Max({1, Len(dictionary) - W + 1}), Len(dictionary))
      n == Len(tail)
      read == ReadBuf([s EXCEPT !.in = tail, !.wrap = 0], WindowSize)
      entered == InsertStrings([read EXCEPT !.ins_h = UpdateHash(read.window[0], read.window[1])], 0, n - MIN_MATCH)
  IN IF dictionary = <<>> THEN s
     ELSE [(IF n >= MIN_MATCH THEN entered ELSE read)
             EXCEPT !.wrap = s.wrap, !.adler = adler32(AdlerStart, dictionary),
                    !.strstart = n, !.block_start = n, !.insert = Min({n, MIN_MATCH - 1}), !.lookahead = 0]

(* One turn of the loop that the level and the strategy choose. *)
Stored == z.strategy \notin {"huff", "rle"} /\ Config[z.level].func = "stored" /\ z' = deflate_stored(z)
Fast == z.strategy \notin {"huff", "rle"} /\ Config[z.level].func = "fast" /\ z' = deflate_fast(z)
Slow == z.strategy \notin {"huff", "rle"} /\ Config[z.level].func = "slow" /\ z' = deflate_slow(z)
Rle == z.strategy = "rle" /\ z' = deflate_rle(z)
Huff == z.strategy = "huff" /\ z' = deflate_huff(z)

Work == z.pc = "work" /\ (Stored \/ Fast \/ Slow \/ Rle \/ Huff)
=============================================================================
