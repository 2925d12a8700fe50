---------------------------- MODULE Compression ----------------------------
(***************************************************************************)
(* Two applications and a compressed stream between them: one calls        *)
(* deflate() with pieces of a text, the other inflate() with pieces of     *)
(* what comes out.  A sender is "stream" (any pieces, flushes, a change of *)
(* level) or "oneshot": novastory::htmlData(), which compresses a whole    *)
(* page with compress2() and tries again with a larger buffer when it was  *)
(* too small.                                                              *)
(***************************************************************************)
EXTENDS Deflate, Inflate

CONSTANTS Scenarios,   \* what the applications do, see Init
          MaxFlushes,  \* flushes a sender asks for
          MaxTries,    \* caps the count of the tries of htmlData()
          Slack        \* the 12 of htmlData()

VARIABLES sc,     \* the scenario
          given,  \* bytes of the text that the sender has handed over
          asked,  \* flushes asked for
          wire,   \* bits under way
          got     \* bytes that came out

vars == <<z, y, sc, given, asked, wire, got>>

(* A scenario: the text and a dictionary that both sides know (or none),   *)
(* the level and strategy and what they change to (or <<>>), the flush     *)
(* value to use, the sizes of the pieces and of the buffers on both sides, *)
(* and whether the receiver waits for the end of the stream.               *)
Init ==
  /\ sc \in Scenarios
  /\ z = SetDictionary(Fresh(sc.level, sc.strategy), sc.dictionary)
  /\ y = FreshInflate
  /\ given = 0 /\ asked = 0 /\ wire = <<>> /\ got = <<>>

----------------------------------------------------------------------------
(* The sender. *)

Ended == z.ret = "STREAM_END"

(* The receiver has taken all there is, and did not run out of room. *)
Drained == wire = <<>> /\ y.in = <<>> /\ y.left # 0 /\ y.ret # "NEED_DICT"

MayCall == z.pc = "idle" /\ ~Ended /\ (sc.late \/ given = 0 \/ Drained)

(* A flush that did not fit is asked for again. *)
Unfinished == z.room = 0 /\ z.flush # NO_FLUSH /\ z.ret = "OK" /\ given # 0

Emit == wire' = IF z'.pc = "idle" THEN wire \o z'.out ELSE wire

Offer ==
  LET rest == Len(sc.text) - given
      n == IF z.in # <<>> \/ Unfinished THEN 0 ELSE Min({sc.piece, rest})
  IN /\ sc.sender = "stream" /\ MayCall
     /\ \E f \in {NO_FLUSH, sc.flush, FINISH} :
          /\ Unfinished => f = z.flush
          /\ f = NO_FLUSH => n # 0 \/ z.in # <<>>
          /\ f = FINISH => n = rest
          /\ f \in {sc.flush} \ {NO_FLUSH} => Unfinished \/ asked < MaxFlushes
          /\ asked' = IF f \in {NO_FLUSH, FINISH} \/ Unfinished THEN asked ELSE asked + 1
          /\ z' = Call(SubSeq(sc.text, given + 1, given + n), sc.room, f)
     /\ given' = given + n
     /\ Emit
     /\ UNCHANGED <<y, sc, got>>

(* deflateParams() between two calls, with room enough for what it writes. *)
Ample == 4 * Len(sc.text) + 16

Change ==
  /\ sc.sender = "stream" /\ MayCall /\ ~Unfinished
  /\ sc.params # <<>> /\ z.level # sc.params[1]
  /\ z' = deflateParams(sc.params[1], sc.params[2], Ample)
  /\ Emit
  /\ UNCHANGED <<y, sc, given, asked, got>>

(* compress2(), called by htmlData() with a buffer of len bytes. *)
(* Mutant of HtmlLen: the buffer never grows. *)
HtmlLenSame(tries) == Len(sc.text) + Len(sc.text) \div 100 + Slack

HtmlLen(tries) == (Len(sc.text) + Len(sc.text) \div 100 + Slack) * 2 ^ tries

Compress ==
  /\ sc.sender = "oneshot" /\ z.pc = "idle" /\ ~Ended
  /\ z' = CallOn(Fresh(sc.level, sc.strategy), sc.text, HtmlLen(asked), FINISH)
  /\ asked' = Min({asked + 1, MaxTries})
  /\ given' = Len(sc.text)
  /\ UNCHANGED <<y, sc, wire, got>>

(* What compress2() wrote is the page only when it says Z_STREAM_END. *)
(* A turn without effect would be repeated for ever: it is no step here,    *)
(* so that TLC would find a deadlock.  The same holds for Receive.          *)
DeflateStep ==
  /\ Work /\ z' # z
  /\ IF sc.sender = "stream" THEN Emit ELSE wire' = IF z'.ret = "STREAM_END" THEN z'.out ELSE wire
  /\ UNCHANGED <<y, sc, given, asked, got>>

Sender == Offer \/ Change \/ Compress \/ DeflateStep

----------------------------------------------------------------------------
(* The receiver. *)

MayReceive ==
  /\ z.pc = "idle" /\ y.ret \notin {"NEED_DICT", "STREAM_END", "DATA_ERROR"}
  /\ sc.late => Ended
  /\ wire # <<>> \/ y.in # <<>> \/ (got # <<>> /\ y.left = 0)

Receive ==
  LET n == ByteBits * Min({sc.chunk, Len(wire) \div ByteBits})
  IN /\ MayReceive
     /\ y' = inflate(SubSeq(wire, 1, n), sc.left, IF sc.sender = "oneshot" THEN FINISH ELSE NO_FLUSH)
     /\ wire' = SubSeq(wire, n + 1, Len(wire))
     /\ <<y, wire>>' # <<y, wire>>
     /\ got' = got \o y'.out
     /\ UNCHANGED <<z, sc, given, asked>>

GiveDictionary ==
  /\ y.ret = "NEED_DICT"
  /\ y' = inflateSetDictionary(sc.dictionary)
  /\ UNCHANGED <<z, sc, given, asked, wire, got>>

Receiver == Receive \/ GiveDictionary

BothEnded == Ended /\ y.ret = "STREAM_END"
Rest == BothEnded /\ UNCHANGED vars

Next == Sender \/ Receiver \/ Rest

(* Both applications go on calling until they see the end of the stream.   *)
(* This is weak fairness of Sender and of Receiver with their enabling      *)
(* conditions written out.  Steps of the first change z, steps of the       *)
(* second y or wire, and if MaySend or MayReceive held where there is no    *)
(* such step, that would be a deadlock sooner or later.                     *)
MaySend == z.pc = "work" \/ MayCall
Fairness ==
  /\ <>[]MaySend => []<><<TRUE>>_z
  /\ <>[](MayReceive \/ y.ret = "NEED_DICT") => []<><<TRUE>>_<<y, wire>>

Spec == Init /\ [][Next]_vars /\ Fairness
----------------------------------------------------------------------------
(* Properties. *)

(* Whatever the pieces, buffers, levels, strategies, flushes and retries,   *)
(* deflate() at one end and inflate() at the other are a pipe: no byte is   *)
(* lost, invented or out of order (deflate.c, trees.c, inflate.c,           *)
(* inftrees.c, inffast.c; compress2() and htmlData() for a whole page).     *)
P == INSTANCE Pipe WITH text <- sc.text, written <- given, ended <- z.flush = FINISH, read <- got
RefinesPipe == P!Spec

(* After a flush that had room enough, the receiver has everything that was *)
(* handed over so far, though the stream goes on: nothing of it waits in    *)
(* the window, in a lazy match, in the block or in the last bits.           *)
FlushDelivers ==
  z.pc = "idle" /\ z.flush \in {PARTIAL_FLUSH, SYNC_FLUSH, FULL_FLUSH} /\ z.ret = "OK" /\ z.room > 0 /\ Drained
    => got = SubSeq(sc.text, 1, given)

(* Every match in the block being built lies in what the receiver's window  *)
(* holds, however often the sender's own window slid in between; and none   *)
(* reaches back over a full flush, where a receiver may start afresh.       *)
MatchesReachable ==
  LET length(i) == IF z.tokens[i][1] = 0 THEN 1 ELSE z.tokens[i][2] + MIN_MATCH
      start == Position(z) - (z.strstart - z.block_start)
      at[i \in 1..Len(z.tokens)] == IF i = 1 THEN start ELSE at[i - 1] + length(i - 1)
  IN \A i \in 1..Len(z.tokens) :
       z.tokens[i][1] # 0 => z.tokens[i][1] <= MAX_DIST /\ at[i] - z.tokens[i][1] >= z.horizon

(* Between two calls, until the end of the data, the receiver's circular    *)
(* window is exactly the tail of the dictionary and the output, so that     *)
(* distances go on to mean the same when the output buffer is another one.  *)
WindowIsTail ==
  LET all == (IF y.havedict THEN sc.dictionary ELSE <<>>) \o got
  IN y.wsize # 0 /\ y.mode \notin {"CHECK", "DONE", "BAD"} =>
       /\ y.whave = Min({W, Len(all)})
       /\ \A i \in 1..y.whave : y.window[(y.wnext + W - i) % W] = all[Len(all) - i + 1]

(* What the sender refers to and what the receiver holds are one text.     *)
WindowsAgree == MatchesReachable /\ WindowIsTail

(* The stream comes to its end on both sides: no call waits for a byte that *)
(* the other side holds back, and htmlData() does not try for ever.         *)
Finishes == <>BothEnded
=============================================================================
