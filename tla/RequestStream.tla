--------------------------- MODULE RequestStream ---------------------------
(***************************************************************************)
(* How WebRequest::parse() cuts requests out of a connection.  Each        *)
(* readyRead() is taken for one request: what has arrived is read, split   *)
(* at the blank line, and handled, whether or not it is all of it.  Only a *)
(* body whose first byte came along is waited for.                         *)
(*                                                                         *)
(* The stream is a sequence of tokens: of each request the first line, the *)
(* header lines that matter, the blank line, and units of its body.  It    *)
(* may arrive in any pieces.  Of a body unit only this matters: a wide one *)
(* is one character of two bytes, a gap is a line break, a carriage return *)
(* and a line break, which is what the header is split at.                 *)
(***************************************************************************)
EXTENDS Naturals, Sequences, FiniteSets, SequencesExt

CONSTANTS
  Kinds,         \* requests: [type, keep, body], body a sequence of units
  MaxRequests,   \* bound: requests sent on the connection
  Limit          \* CONTENT_LIMIT_BYTES, in tokens

Units == {"plain", "wide", "gap"}

ASSUME StreamAssumption ==
  /\ MaxRequests \in Nat /\ Limit \in Nat \ {0}
  /\ \A k \in Kinds :
       /\ k.type \in {"GET", "POST"} /\ k.keep \in BOOLEAN /\ k.body \in Seq(Units)
       /\ k.type = "GET" => k.body = <<>>

VARIABLES
  sent,      \* the requests of the client, in order
  wire,      \* tokens on their way
  buffer,    \* tokens arrived but not read
  at,        \* "idle" in the event loop, "waiting" in parse(), "closed"
  request,   \* parsedValues while parse() waits: the request, keep, length
  body,      \* its body so far
  handled,   \* history: what the handlers were called with
  split      \* history: requests of the client met each other or were torn

vars == <<sent, wire, buffer, at, request, body, handled, split>>

-----------------------------------------------------------------------------
Bytes(units) == Len(units) + Cardinality({j \in 1..Len(units) : units[j] = "wide"})

(* Request i as it goes over the wire: its header and its body.            *)
Token(i, kind, part) == [req |-> i, part |-> part, length |-> Bytes(kind.body)]
Top(i, kind) ==
  LET Line(part) == <<Token(i, kind, part)>>
  IN Line("line") \o (IF kind.keep THEN Line("keep") ELSE <<>>)
       \o (IF kind.type = "POST" THEN Line("length") ELSE <<>>) \o Line("blank")
Letters(i, kind) == [j \in 1..Len(kind.body) |-> Token(i, kind, kind.body[j])]
Text(i, kind) == Top(i, kind) \o Letters(i, kind)

Body(i) == Letters(i, sent[i])

(* data.split("\n\r\n"): the first piece, and the second if there are two. *)
Breaks(data) == {j \in 1..Len(data) : data[j].part \in {"blank", "gap"}}
Header(data) ==
  IF Breaks(data) = {} THEN data ELSE SubSeq(data, 1, Min(Breaks(data)) - 1)
Rest(data) ==
  IF \E j \in Breaks(data) : Breaks(data) = {j}
  THEN SubSeq(data, Min(Breaks(data)) + 1, Len(data)) ELSE <<>>

(* The first line of a request is looked for anywhere in the first line of *)
(* the header, where it may follow the end of an earlier body.             *)
Lines(header) == {j \in 1..Len(header) : header[j].part \notin Units}
LineIn(header) == Min(Lines(header))
IsRequest(header) == Lines(header) # {} /\ header[LineIn(header)].part = "line"

(* parsedValues of such a header.                                          *)
Has(header, part) == \E j \in 1..Len(header) : header[j].part = part
Parsed(header) ==
  LET line == header[LineIn(header)]
  IN [req |-> line.req, keep |-> Has(header, "keep"), sized |-> Has(header, "length"),
      length |-> IF Has(header, "length") THEN line.length ELSE 0]

(* Is the rest of the body to be waited for?                               *)
Waits(rest, r) == rest # <<>> /\ r.sized /\ Len(rest) # r.length

-----------------------------------------------------------------------------
Init ==
  /\ sent = <<>> /\ wire = <<>> /\ buffer = <<>>
  /\ at = "idle" /\ request = <<>> /\ body = <<>>
  /\ handled = <<>> /\ split = FALSE

Send(kind) ==
  /\ at # "closed" /\ Len(sent) < MaxRequests
  /\ sent' = Append(sent, kind)
  /\ wire' = wire \o Text(Len(sent) + 1, kind)
  /\ UNCHANGED <<buffer, at, request, body, handled, split>>

(* The first n tokens on the wire are taken from it.                       *)
Arrive(n) == n \in 1..Len(wire) /\ wire' = SubSeq(wire, n + 1, Len(wire))
Chunk(n) == SubSeq(wire, 1, n)

(* What read(CONTENT_LIMIT_BYTES) takes of the data at hand, and what it   *)
(* leaves.  Mutant: peek().                                                *)
Taken(all) == SubSeq(all, 1, Min({Limit, Len(all)}))
LeftPeeked(all) == all
Left(all) == SubSeq(all, Limit + 1, Len(all))

(* The handlers are called with request r, with POST data b, and the       *)
(* connection is kept or closed.                                           *)
Handle(r, b) ==
  /\ handled' = Append(handled, [req |-> r.req, body |-> b])
  /\ at' = IF r.keep THEN "idle" ELSE "closed"
  /\ request' = <<>> /\ body' = <<>>

(* No handler knows an empty path; without a header there is no Connection *)
(* to keep.                                                                *)
HandleNothing ==
  at' = "closed" /\ UNCHANGED <<request, body, handled>>

(* History: data begins and ends within one request, and has its header    *)
(* and at least the first unit of its body, and no character of the body   *)
(* would be taken for something else.                                      *)
Clean(data, all) ==
  LET i == data[1].req
  IN /\ data = all
     /\ IsPrefix(data, Text(i, sent[i])) /\ Has(data, "blank")
     /\ sent[i].body # <<>> => Last(data).part # "blank"
     /\ \A u \in ToSet(sent[i].body) : u = "plain"
     /\ Bytes(sent[i].body) <= Limit

(* readyRead(): showHtmlPage() reads up to the limit and parses that.  A   *)
(* body is waited for if some of it is here and it has not its length,     *)
(* which the header gives in bytes.                                        *)
ReadyRead(n) ==
  LET all    == buffer \o Chunk(n)
      data   == Taken(all)
      header == Header(data)
      rest   == Rest(data)
      r      == Parsed(header)
  IN /\ at = "idle" /\ Arrive(n)
     /\ buffer' = Left(all)
     /\ split' = (split \/ ~Clean(data, all))
     /\ \/ ~IsRequest(header) /\ HandleNothing
        \/ IsRequest(header) /\ r.length > Limit /\ Handle(r, <<>>)
        \/ /\ IsRequest(header) /\ r.length <= Limit
           /\ IF Waits(rest, r)
              THEN at' = "waiting" /\ request' = r /\ body' = rest /\ UNCHANGED handled
              ELSE Handle(r, IF sent[r.req].type = "POST" THEN rest ELSE <<>>)
     /\ UNCHANGED sent

(* waitForReadyRead() returns true, for new data only; readAll().  Mutant: *)
(* a body that is too long is taken as it is.                              *)
TooLongTaken(b, length) == FALSE
TooLong(b, length) == Len(b) > length
WaitForReadyRead(n) ==
  LET all == body \o buffer \o Chunk(n)
  IN /\ at = "waiting" /\ Arrive(n) /\ buffer' = <<>>
     /\ split' = (split \/ \E t \in ToSet(all) : t.req # request.req)
     /\ \/ TooLong(all, request.length) /\ Handle(request, <<>>)
        \/ /\ ~TooLong(all, request.length) /\ Len(all) >= request.length
           /\ Handle(request, all)
        \/ /\ Len(all) < request.length
           /\ body' = all /\ UNCHANGED <<at, request, handled>>
     /\ UNCHANGED sent

(* It returns false, 30 seconds after the last data or because the peer is *)
(* gone: the request is handled without its body.  Mutant: wait again.     *)
WaitAgain ==
  at = "waiting" /\ split' = TRUE /\ UNCHANGED <<sent, wire, buffer, at, request, body, handled>>
WaitFails ==
  /\ at = "waiting" /\ split' = TRUE
  /\ Handle(request, <<>>)
  /\ UNCHANGED <<sent, wire, buffer>>

(* The session timer.                                                      *)
ClosedByInterval ==
  /\ at = "idle" /\ at' = "closed"
  /\ UNCHANGED <<sent, wire, buffer, request, body, handled, split>>

Next ==
  \/ \E kind \in Kinds : Send(kind)
  \/ \E n \in 1..Len(wire) : ReadyRead(n) \/ WaitForReadyRead(n)
  \/ WaitFails \/ ClosedByInterval

Spec == Init /\ [][Next]_vars

(* waitForReadyRead() has a timeout.  Every piece of data starts it anew,  *)
(* but a body can take no more of them than it has bytes.                  *)
FairSpec == Spec /\ WF_vars(WaitFails)

-----------------------------------------------------------------------------
(* The variables have their types; a request is at hand while its body is  *)
(* waited for, of which some has come and some has not.                    *)
TypeOK ==
  /\ sent \in Seq(Kinds) /\ Len(sent) <= MaxRequests
  /\ at \in {"idle", "waiting", "closed"} /\ split \in BOOLEAN
  /\ at = "waiting" <=> request # <<>>
  /\ at = "waiting" => body # <<>> /\ Len(body) # request.length
  /\ at # "waiting" => body = <<>>
  /\ \A h \in ToSet(handled) : h.req \in 1..Len(sent)

(* However the stream was torn, joined and cut off, handlers get the POST  *)
(* data of a request as it was sent or not at all; only where characters   *)
(* of several bytes are in it, which parse() counts as one each, may it    *)
(* take in some of what follows.                                           *)
BodyIntact ==
  \A h \in ToSet(handled) :
    "wide" \notin ToSet(sent[h.req].body) => h.body \in {<<>>, Body(h.req)}

(* No request is handled twice, or before one that was sent earlier,       *)
(* although left-overs of one are read together with the next.             *)
OnceInOrder ==
  \A j, k \in 1..Len(handled) : j < k => handled[j].req < handled[k].req

(* A client whose requests each arrive alone, the header and the beginning *)
(* of the body in one piece, gets every one of them handled, in full.      *)
SeparateServed ==
  ~split =>
    /\ \A j \in 1..Len(handled) : handled[j] = [req |-> j, body |-> Body(j)]
    /\ at = "idle" /\ wire = <<>> => Len(handled) = Len(sent)

(* What is sent is handled once, in its order, and all of it where the     *)
(* pieces give parse() a chance.                                           *)
RequestsServed == OnceInOrder /\ SeparateServed

(* Waiting for a body comes to an end, and with it a wait of the worker.   *)
ParseEnds == at = "waiting" ~> at # "waiting"
=============================================================================
