------------------------- MODULE RequestStreamProofs -------------------------
(***************************************************************************)
(* For any requests, any pieces they arrive in and any limit, what parse() *)
(* of webrequest.cpp hands to the handlers.  What is ahead of it, the body *)
(* it reads, the buffer and the wire, is always the end of the requests as *)
(* they were sent, one after another.  The first of them may be there in   *)
(* part only, since what is read together is taken for one request.  So    *)
(* the proof keeps, for each request, the place in it where that request   *)
(* begins, or would have begun.                                            *)
(***************************************************************************)
EXTENDS RequestStream, Integers, FiniteSetTheorems, SequenceTheorems, WellFoundedInduction, TLAPS

-----------------------------------------------------------------------------
Tokens == [req : Nat, part : {"line", "keep", "length", "blank"} \cup Units, length : Nat]

(* What has not been handled yet, of the body being read or behind it.     *)
Ahead == body \o buffer \o wire

(* s is the end of the requests of q as they are sent, one after another,  *)
(* the i-th of which begins at st[i], at 0 or before if s has it in part.  *)
Laid(s, q, st) ==
  /\ st \in [1..(Len(q) + 1) -> Int]
  /\ st[1] <= 1 /\ st[Len(q) + 1] = Len(s) + 1
  /\ \A i \in 1..Len(q) : st[i + 1] = st[i] + Len(Text(i, q[i]))
  /\ \A i, j \in 1..(Len(q) + 1) : i < j => st[i] < st[j]
  /\ \A k \in 1..Len(s) : \E i \in 1..Len(q) :
       st[i] <= k /\ k < st[i + 1] /\ s[k] = Text(i, q[i])[k - st[i] + 1]

StreamTypes ==
  /\ sent \in Seq(Kinds)
  /\ wire \in Seq(Tokens) /\ buffer \in Seq(Tokens) /\ body \in Seq(Tokens)
  /\ at \in {"idle", "waiting", "closed"} /\ split \in BOOLEAN
  /\ at # "waiting" => body = <<>>
  /\ at = "waiting" => request \in [req : 1..Len(sent), keep : BOOLEAN, sized : BOOLEAN, length : Nat]
  /\ handled \in Seq([req : 1..Len(sent), body : Seq(Tokens)])

(* What has been handled is behind what is ahead.                          *)
Later(st) ==
  \A h \in 1..Len(handled), i \in 1..Len(sent) : st[i] >= 1 => handled[h].req < i

(* parse() waits for the body right ahead, which is the next to be handled.*)
AtBody(st) ==
  at = "waiting" =>
    /\ st[request.req] + Len(Top(request.req, sent[request.req])) = 1
    /\ request.length = Bytes(sent[request.req].body)
    /\ \A h \in 1..Len(handled) : handled[h].req < request.req

(* As long as requests come one by one, the next is at hand.               *)
OneByOne(st) ==
  ~split =>
    /\ buffer = <<>>
    /\ Len(handled) <= Len(sent)
    /\ \A j \in 1..Len(handled) : handled[j] = [req |-> j, body |-> Body(j)]
    /\ at = "idle" => st[Len(handled) + 1] = 1
    /\ at = "waiting" =>
         /\ request.req = Len(handled) + 1 /\ Len(body) < request.length
         /\ \A u \in ToSet(sent[request.req].body) : u = "plain"

InStep(st) == Laid(Ahead, sent, st) /\ Later(st) /\ AtBody(st) /\ OneByOne(st)

(* Bodies without wide characters come as they were sent or not at all.    *)
Intact ==
  \A h \in 1..Len(handled) :
    "wide" \notin ToSet(sent[handled[h].req].body) =>
      handled[h].body = <<>> \/ handled[h].body = Body(handled[h].req)

StreamInv ==
  StreamTypes /\ OnceInOrder /\ Intact /\ \E st \in [1..(Len(sent) + 1) -> Int] : InStep(st)

-----------------------------------------------------------------------------
(* Texts: what a request looks like on the wire.                           *)
LEMMA ByteCount ==
  ASSUME NEW u \in Seq(Units)
  PROVE  /\ Bytes(u) \in Nat /\ Len(u) <= Bytes(u)
         /\ "wide" \notin ToSet(u) => Bytes(u) = Len(u)
<1> DEFINE Wide == {j \in 1..Len(u) : u[j] = "wide"}
<1>1. Len(u) \in Nat /\ DOMAIN u = 1..Len(u) BY LenProperties
<1>2. IsFiniteSet(1..Len(u)) BY <1>1, FS_Interval
<1>3. IsFiniteSet(Wide) BY <1>2, FS_Subset
<1>4. Cardinality(Wide) \in Nat BY <1>3, FS_CardinalityType
<1>5. Bytes(u) = Len(u) + Cardinality(Wide) BY DEF Bytes
<1>6. ASSUME "wide" \notin ToSet(u) PROVE Cardinality(Wide) = 0
  <2>1. Wide = {} BY <1>1, <1>6 DEF ToSet
  <2> QED BY <2>1, FS_EmptySet
<1> HIDE DEF Wide
<1> QED BY <1>1, <1>4, <1>5, <1>6

LEMMA OneToken ==
  ASSUME NEW i \in Nat, NEW kind \in Kinds, NEW p \in {"line", "keep", "length", "blank"} \cup Units
  PROVE  /\ Token(i, kind, p) \in Tokens
         /\ Token(i, kind, p).req = i /\ Token(i, kind, p).part = p
         /\ Token(i, kind, p).length = Bytes(kind.body)
BY StreamAssumption, ByteCount DEF Token, Tokens

(* One more token at the end.                                              *)
LEMMA OneMore ==
  ASSUME NEW s \in Seq(Tokens), NEW e \in Tokens, NEW t, t = s \o <<e>>
  PROVE  /\ t \in Seq(Tokens) /\ Len(s) \in Nat /\ Len(t) = Len(s) + 1 /\ t[Len(s) + 1] = e
         /\ \A k \in 1..Len(s) : t[k] = s[k]
<1>1. <<e>> \in Seq(Tokens) /\ Len(<<e>>) = 1 /\ <<e>>[1] = e OBVIOUS
<1>2. PICK f \in Seq(Tokens) : f = <<e>> BY <1>1
<1>3. /\ t \in Seq(Tokens) /\ Len(s) \in Nat /\ Len(t) = Len(s) + Len(f)
      /\ \A k \in 1..(Len(s) + Len(f)) : t[k] = IF k <= Len(s) THEN s[k] ELSE f[k - Len(s)]
  BY <1>2, ConcatProperties, LenProperties
<1>4. Len(f) = 1 /\ f[1] = e BY <1>1, <1>2
<1> QED BY <1>3, <1>4

(* A header is a first line, up to two more and the blank line.            *)
Headed(t, kind) ==
  /\ t \in Seq(Tokens) /\ Len(t) \in 2..4
  /\ t[1].part = "line" /\ t[Len(t)].part = "blank"
  /\ \A k \in 2..(Len(t) - 1) : t[k].part \in {"keep", "length"}
  /\ (\E k \in 2..(Len(t) - 1) : t[k].part = "length") <=> kind.type = "POST"

AllOf(t, i, kind) == \A k \in 1..Len(t) : t[k].req = i /\ t[k].length = Bytes(kind.body)

LEMMA TopShape ==
  ASSUME NEW i \in Nat, NEW kind \in Kinds
  PROVE  Headed(Top(i, kind), kind) /\ AllOf(Top(i, kind), i, kind)
<1> DEFINE T(p) == Token(i, kind, p)
<1>1. \A p \in {"line", "keep", "length", "blank"} :
        /\ T(p) \in Tokens /\ T(p).req = i /\ T(p).part = p /\ T(p).length = Bytes(kind.body)
  BY OneToken
<1>2. PICK a, b, c, d : a = T("line") /\ b = T("keep") /\ c = T("length") /\ d = T("blank") OBVIOUS
<1>3. /\ a \in Tokens /\ a.req = i /\ a.part = "line" /\ a.length = Bytes(kind.body)
      /\ b \in Tokens /\ b.req = i /\ b.part = "keep" /\ b.length = Bytes(kind.body)
      /\ c \in Tokens /\ c.req = i /\ c.part = "length" /\ c.length = Bytes(kind.body)
      /\ d \in Tokens /\ d.req = i /\ d.part = "blank" /\ d.length = Bytes(kind.body)
  BY <1>1, <1>2
<1>4. PICK s1, s2, s3, s4 :
        /\ s1 = <<a>>
        /\ s2 = s1 \o (IF kind.keep THEN <<b>> ELSE <<>>)
        /\ s3 = s2 \o (IF kind.type = "POST" THEN <<c>> ELSE <<>>)
        /\ s4 = s3 \o <<d>>
  OBVIOUS
<1>5. Top(i, kind) = s4 BY <1>2, <1>4 DEF Top
<1> HIDE DEF T
<1>6. s1 \in Seq(Tokens) /\ Len(s1) = 1 /\ s1[1] = a BY <1>3, <1>4
<1>7. /\ s2 \in Seq(Tokens) /\ s2[1] = a
      /\ \/ Len(s2) = 1
         \/ Len(s2) = 2 /\ s2[2] = b
  <2>1. CASE kind.keep BY <1>3, <1>4, <1>6, <2>1, OneMore
  <2>2. CASE ~kind.keep
    <3>1. s2 = s1 BY <1>4, <1>6, <2>2, ConcatEmptySeq
    <3> QED BY <1>6, <3>1
  <2> QED BY <2>1, <2>2
<1>8. CASE kind.type = "POST"
  <2>1. s3 = s2 \o <<c>> BY <1>4, <1>8
  <2>2. /\ s3 \in Seq(Tokens) /\ Len(s3) = Len(s2) + 1 /\ s3[Len(s3)] = c
        /\ \A k \in 1..Len(s2) : s3[k] = s2[k]
    BY <1>3, <1>7, <2>1, OneMore
  <2>3. /\ s4 \in Seq(Tokens) /\ Len(s4) = Len(s3) + 1 /\ s4[Len(s4)] = d
        /\ \A k \in 1..Len(s3) : s4[k] = s3[k]
    BY <1>3, <1>4, <2>2, OneMore
  <2>4. \/ Len(s4) = 3 /\ s4[1] = a /\ s4[2] = c /\ s4[3] = d
        \/ Len(s4) = 4 /\ s4[1] = a /\ s4[2] = b /\ s4[3] = c /\ s4[4] = d
    BY <1>7, <2>2, <2>3
  <2>5. Headed(s4, kind) BY <1>3, <1>8, <2>3, <2>4 DEF Headed
  <2>6. AllOf(s4, i, kind) BY <1>3, <2>4 DEF AllOf
  <2> QED BY <1>5, <2>5, <2>6
<1>9. CASE kind.type # "POST"
  <2>1. s3 = s2
    <3>1. s3 = s2 \o <<>> BY <1>4, <1>9
    <3> QED BY <1>7, <3>1, ConcatEmptySeq
  <2>3. /\ s4 \in Seq(Tokens) /\ Len(s4) = Len(s2) + 1 /\ s4[Len(s4)] = d
        /\ \A k \in 1..Len(s2) : s4[k] = s2[k]
    BY <1>3, <1>4, <1>7, <2>1, OneMore
  <2>4. \/ Len(s4) = 2 /\ s4[1] = a /\ s4[2] = d
        \/ Len(s4) = 3 /\ s4[1] = a /\ s4[2] = b /\ s4[3] = d
    BY <1>7, <2>3
  <2>5. Headed(s4, kind) BY <1>3, <1>9, <2>3, <2>4 DEF Headed
  <2>6. AllOf(s4, i, kind) BY <1>3, <2>4 DEF AllOf
  <2> QED BY <1>5, <2>5, <2>6
<1> QED BY <1>8, <1>9

LEMMA LettersShape ==
  ASSUME NEW i \in Nat, NEW kind \in Kinds, NEW b, b = Letters(i, kind)
  PROVE  /\ b \in Seq(Tokens) /\ Len(b) = Len(kind.body) /\ Len(b) \in Nat
         /\ \A k \in 1..Len(b) : b[k].part = kind.body[k] /\ b[k].part \in Units
         /\ AllOf(b, i, kind)
<1>1. kind.body \in Seq(Units) /\ Len(kind.body) \in Nat BY StreamAssumption, LenProperties
<1>2. \A k \in 1..Len(kind.body) : kind.body[k] \in Units BY <1>1, ElementOfSeq
<1>3. \A k \in 1..Len(kind.body) : b[k] = Token(i, kind, kind.body[k]) BY DEF Letters
<1>4. \A k \in 1..Len(kind.body) :
        /\ b[k] \in Tokens /\ b[k].part = kind.body[k]
        /\ b[k].req = i /\ b[k].length = Bytes(kind.body)
  <2> SUFFICES ASSUME NEW k \in 1..Len(kind.body), NEW p, p = kind.body[k]
               PROVE  /\ b[k] \in Tokens /\ b[k].part = p
                      /\ b[k].req = i /\ b[k].length = Bytes(kind.body)
    OBVIOUS
  <2>1. p \in {"line", "keep", "length", "blank"} \cup Units /\ b[k] = Token(i, kind, p)
    BY <1>2, <1>3
  <2>2. PICK e : e = Token(i, kind, p) OBVIOUS
  <2>3. e \in Tokens /\ e.req = i /\ e.part = p /\ e.length = Bytes(kind.body)
    BY ONLY <2>1, <2>2, OneToken
  <2> QED BY <2>1, <2>2, <2>3
<1>5. b \in Seq(Tokens) /\ Len(b) = Len(kind.body)
  <2>1. b = [j \in 1..Len(kind.body) |-> b[j]] BY DEF Letters
  <2>2. b \in [1..Len(kind.body) -> Tokens] BY <1>4, <2>1
  <2> QED BY ONLY <1>1, <2>2
<1>6. AllOf(b, i, kind) BY <1>4, <1>5 DEF AllOf
<1> QED BY <1>1, <1>2, <1>4, <1>5, <1>6

(* Where in the text of a request what is.                                 *)
Texted(t, i, kind) ==
  LET h == Len(Top(i, kind)) IN
  /\ t \in Seq(Tokens) /\ h \in 2..4 /\ Len(kind.body) \in Nat /\ Len(t) = h + Len(kind.body)
  /\ t[1].part = "line" /\ t[h].part = "blank"
  /\ \A k \in 2..(h - 1) : t[k].part \in {"keep", "length"}
  /\ (\E k \in 2..(h - 1) : t[k].part = "length") <=> kind.type = "POST"
  /\ \A k \in 1..Len(kind.body) : /\ t[h + k] = Letters(i, kind)[k]
                                  /\ t[h + k].part = kind.body[k] /\ t[h + k].part \in Units
  /\ AllOf(t, i, kind)

LEMMA TextShape ==
  ASSUME NEW i \in Nat, NEW kind \in Kinds
  PROVE  Texted(Text(i, kind), i, kind)
<1>1. PICK a : a = Top(i, kind) OBVIOUS
<1>2. PICK b : b = Letters(i, kind) OBVIOUS
<1>3. PICK t : t = a \o b OBVIOUS
<1>4. Headed(a, kind) /\ AllOf(a, i, kind) BY <1>1, TopShape
<1>5. /\ b \in Seq(Tokens) /\ Len(b) = Len(kind.body) /\ Len(b) \in Nat
      /\ \A k \in 1..Len(b) : b[k].part = kind.body[k] /\ b[k].part \in Units
      /\ AllOf(b, i, kind)
  BY <1>2, LettersShape
<1>6. a \in Seq(Tokens) /\ Len(a) \in 2..4 BY <1>4 DEF Headed
<1>7. /\ t \in Seq(Tokens) /\ Len(t) = Len(a) + Len(b)
      /\ \A k \in 1..(Len(a) + Len(b)) : t[k] = IF k <= Len(a) THEN a[k] ELSE b[k - Len(a)]
  <2>1. b \in Seq(Tokens) BY <1>5
  <2> QED BY ONLY <1>3, <1>6, <2>1, ConcatProperties
<1>8. ASSUME NEW k \in 1..Len(a) PROVE t[k] = a[k]
  <2>1. PICK m, n : m = Len(a) /\ n = Len(b) OBVIOUS
  <2>2. m \in 2..4 /\ n \in Nat /\ k \in 1..m BY <1>5, <1>6, <2>1
  <2>3. k \in 1..(m + n) /\ k <= m BY ONLY <2>2
  <2> QED BY <1>7, <2>1, <2>3
<1>9. ASSUME NEW k \in 1..Len(b) PROVE t[Len(a) + k] = b[k]
  <2>1. PICK m, n, j : m = Len(a) /\ n = Len(b) /\ j = m + k OBVIOUS
  <2>2. m \in 2..4 /\ n \in Nat /\ k \in 1..n BY <1>5, <1>6, <2>1
  <2>3. j \in 1..(m + n) /\ ~(j <= m) /\ j - m = k BY ONLY <2>1, <2>2
  <2> QED BY <1>7, <2>1, <2>3
<1>10. AllOf(t, i, kind)
  <2> SUFFICES ASSUME NEW k \in 1..(Len(a) + Len(b))
               PROVE  t[k].req = i /\ t[k].length = Bytes(kind.body)
    BY <1>7 DEF AllOf
  <2>1. CASE k <= Len(a)
    <3>1. k \in 1..Len(a) BY <1>5, <1>6, <2>1
    <3> QED BY <1>4, <1>8, <3>1 DEF AllOf
  <2>2. CASE k > Len(a)
    <3>1. k - Len(a) \in 1..Len(b) /\ Len(a) + (k - Len(a)) = k BY <1>5, <1>6, <2>2
    <3>2. t[Len(a) + (k - Len(a))] = b[k - Len(a)] BY <1>9, <3>1
    <3>3. t[k] = b[k - Len(a)] BY <3>1, <3>2
    <3> QED BY <1>5, <3>1, <3>3 DEF AllOf
  <2> QED BY <1>6, <2>1, <2>2
<1>11. /\ t[1].part = "line" /\ t[Len(a)].part = "blank"
       /\ \A k \in 2..(Len(a) - 1) : t[k].part \in {"keep", "length"}
       /\ (\E k \in 2..(Len(a) - 1) : t[k].part = "length") <=> kind.type = "POST"
  <2>1. 1 \in 1..Len(a) /\ Len(a) \in 1..Len(a) BY <1>6
  <2>2. \A k \in 2..(Len(a) - 1) : t[k] = a[k] BY <1>6, <1>8
  <2> QED BY <1>4, <1>8, <2>1, <2>2 DEF Headed
<1>12. \A k \in 1..Len(b) : /\ t[Len(a) + k] = b[k]
                            /\ t[Len(a) + k].part = kind.body[k] /\ t[Len(a) + k].part \in Units
  BY <1>5, <1>9
<1>13. t = Text(i, kind) BY <1>1, <1>2, <1>3 DEF Text
<1>14. Texted(t, i, kind) BY <1>1, <1>2, <1>5, <1>6, <1>7, <1>10, <1>11, <1>12 DEF Texted
<1> QED BY <1>13, <1>14

-----------------------------------------------------------------------------
(* Where in a stream that is laid out request i is.                        *)
Block(s, q, st, i) ==
  LET h == Len(Top(i, q[i]))
  IN /\ h \in 2..4 /\ Len(q[i].body) \in Nat
     /\ st[i] \in Int /\ st[i + 1] \in Int /\ st[i + 1] = st[i] + h + Len(q[i].body)
     /\ \A k \in 1..Len(s) : st[i] <= k /\ k < st[i + 1] =>
          /\ s[k].req = i /\ s[k].length = Bytes(q[i].body)
          /\ k = st[i] => s[k].part = "line"
          /\ st[i] < k /\ k < st[i] + h - 1 => s[k].part \in {"keep", "length"}
          /\ k = st[i] + h - 1 => s[k].part = "blank"
          /\ k >= st[i] + h => /\ s[k] = Letters(i, q[i])[k - st[i] - h + 1]
                               /\ s[k].part = q[i].body[k - st[i] - h + 1] /\ s[k].part \in Units
     /\ st[i] >= 1 /\ st[i] + h - 1 <= Len(s) =>
          ((\E k \in (st[i] + 1)..(st[i] + h - 2) : s[k].part = "length") <=> q[i].type = "POST")

LEMMA KindOf ==
  ASSUME NEW q \in Seq(Kinds), NEW i \in 1..Len(q)
  PROVE  q[i] \in Kinds /\ i \in Nat /\ i + 1 \in 1..(Len(q) + 1) /\ i \in 1..(Len(q) + 1)
<1>1. Len(q) \in Nat /\ q[i] \in Kinds BY LenProperties, ElementOfSeq
<1> QED BY <1>1

LEMMA Marks ==
  ASSUME NEW q \in Seq(Kinds), NEW s \in Seq(Tokens), NEW st, Laid(s, q, st)
  PROVE  /\ Len(q) \in Nat /\ Len(s) \in Nat
         /\ \A i \in 1..(Len(q) + 1) : st[i] \in Int /\ st[i] <= Len(s) + 1
         /\ \A i, j \in 1..(Len(q) + 1) : (i < j <=> st[i] < st[j]) /\ (i = j <=> st[i] = st[j])
<1>1. Len(q) \in Nat /\ Len(s) \in Nat BY LenProperties
<1>2. \A i \in 1..(Len(q) + 1) : st[i] \in Int BY DEF Laid
<1>3. \A i, j \in 1..(Len(q) + 1) : i < j => st[i] < st[j] BY DEF Laid
<1>4. st[Len(q) + 1] = Len(s) + 1 /\ Len(q) + 1 \in 1..(Len(q) + 1) BY <1>1 DEF Laid
<1>5. \A i \in 1..(Len(q) + 1) : i < Len(q) + 1 \/ i = Len(q) + 1 BY <1>1
<1>6. \A i \in 1..(Len(q) + 1) : st[i] <= Len(s) + 1 BY <1>1, <1>2, <1>3, <1>4, <1>5
<1>7. ASSUME NEW i \in 1..(Len(q) + 1), NEW j \in 1..(Len(q) + 1)
      PROVE  (i < j <=> st[i] < st[j]) /\ (i = j <=> st[i] = st[j])
  <2>1. i \in Int /\ j \in Int BY <1>1
  <2>2. i < j \/ i = j \/ j < i BY <2>1
  <2> QED BY <1>2, <1>3, <2>1, <2>2
<1> QED BY <1>1, <1>2, <1>6, <1>7

LEMMA OneBlock ==
  ASSUME NEW q \in Seq(Kinds), NEW s \in Seq(Tokens), NEW st, Laid(s, q, st),
         NEW i \in 1..Len(q), NEW j \in 1..Len(q), NEW k \in Int,
         st[i] <= k, k < st[i + 1], st[j] <= k, k < st[j + 1]
  PROVE  i = j
<1>1. Len(q) \in Nat /\ i \in Int /\ j \in Int BY Marks
<1>2. /\ i \in 1..(Len(q) + 1) /\ j \in 1..(Len(q) + 1)
      /\ i + 1 \in 1..(Len(q) + 1) /\ j + 1 \in 1..(Len(q) + 1)
  BY <1>1
<1>3. st[i] \in Int /\ st[j] \in Int /\ st[i + 1] \in Int /\ st[j + 1] \in Int BY <1>2, Marks
<1>4. st[i] < st[j + 1] /\ st[j] < st[i + 1] 
  BY ONLY <1>3, k \in Int, st[i] <= k, k < st[i + 1], st[j] <= k, k < st[j + 1]
<1>5. i < j + 1 /\ j < i + 1 BY <1>2, <1>4, Marks
<1> QED BY ONLY <1>1, <1>5

LEMMA BlockOf ==
  ASSUME NEW q \in Seq(Kinds), NEW s \in Seq(Tokens), NEW st, Laid(s, q, st), NEW i \in 1..Len(q)
  PROVE  Block(s, q, st, i)
<1>1. /\ q[i] \in Kinds /\ i \in Nat /\ i + 1 \in 1..(Len(q) + 1) /\ i \in 1..(Len(q) + 1)
      /\ Len(q) \in Nat /\ Len(s) \in Nat
  BY KindOf, LenProperties
<1>2. PICK t, h, b : t = Text(i, q[i]) /\ h = Len(Top(i, q[i])) /\ b = Letters(i, q[i]) OBVIOUS
<1>3. Texted(t, i, q[i]) BY <1>1, <1>2, TextShape
<1>4. PICK n : n = Len(q[i].body) OBVIOUS
<1>5. /\ h \in 2..4 /\ n \in Nat /\ Len(t) = h + n
      /\ t[1].part = "line" /\ t[h].part = "blank"
      /\ \A k \in 2..(h - 1) : t[k].part \in {"keep", "length"}
      /\ (\E k \in 2..(h - 1) : t[k].part = "length") <=> q[i].type = "POST"
      /\ \A k \in 1..n : t[h + k] = b[k] /\ t[h + k].part = q[i].body[k] /\ t[h + k].part \in Units
      /\ \A k \in 1..Len(t) : t[k].req = i /\ t[k].length = Bytes(q[i].body)
  BY <1>2, <1>3, <1>4 DEF Texted, AllOf
<1>6. st[i] \in Int /\ st[i + 1] \in Int BY <1>1, Marks
<1>7. ASSUME NEW k \in 1..Len(s), st[i] <= k, k < st[i + 1]
      PROVE  s[k] = t[k - st[i] + 1]
  <2>1. PICK j \in 1..Len(q) : st[j] <= k /\ k < st[j + 1] /\ s[k] = Text(j, q[j])[k - st[j] + 1]
    BY DEF Laid
  <2>2. k \in Int BY <1>1
  <2>3. j = i BY <1>7, <2>1, <2>2, OneBlock
  <2> QED BY <1>2, <2>1, <2>3
<1>10. PICK x, y, z : x = st[i] /\ y = st[i + 1] /\ z = Len(s) OBVIOUS
<1>11. /\ x \in Int /\ y \in Int /\ z \in Nat /\ h \in 2..4 /\ n \in Nat /\ y = x + h + n
       /\ Len(t) = h + n
  <2>1. st[i + 1] = st[i] + Len(t) BY <1>2 DEF Laid
  <2>2. Len(t) = h + n /\ h \in 2..4 /\ n \in Nat BY <1>5
  <2>3. y = x + Len(t) BY <1>10, <2>1
  <2>4. x \in Int /\ y \in Int /\ z \in Nat BY <1>1, <1>6, <1>10
  <2> QED BY ONLY <2>2, <2>3, <2>4
<1>8. ASSUME NEW k \in 1..Len(s), st[i] <= k, k < st[i + 1]
      PROVE  /\ s[k].req = i /\ s[k].length = Bytes(q[i].body)
             /\ k = st[i] => s[k].part = "line"
             /\ st[i] < k /\ k < st[i] + h - 1 => s[k].part \in {"keep", "length"}
             /\ k = st[i] + h - 1 => s[k].part = "blank"
             /\ k >= st[i] + h => /\ s[k] = b[k - st[i] - h + 1]
                                  /\ s[k].part = q[i].body[k - st[i] - h + 1]
                                  /\ s[k].part \in Units
  <2>1. PICK m : m = k - x + 1 OBVIOUS
  <2>2. k \in 1..z /\ x <= k /\ k < y BY <1>8, <1>10
  <2>3. m \in 1..(h + n) /\ m \in Int /\ k \in Int BY ONLY <1>11, <2>1, <2>2
  <2>4. s[k] = t[m] BY <1>7, <1>8, <1>10, <2>1
  <2>5. s[k].req = i /\ s[k].length = Bytes(q[i].body) BY <1>5, <2>3, <2>4
  <2>6. k = st[i] => s[k].part = "line"
    <3>1. k = x => m = 1 BY ONLY <1>11, <2>1, <2>3
    <3> QED BY <1>5, <1>10, <2>4, <3>1
  <2>7. st[i] < k /\ k < st[i] + h - 1 => s[k].part \in {"keep", "length"}
    <3>1. x < k /\ k < x + h - 1 => m \in 2..(h - 1) BY ONLY <1>11, <2>1, <2>3
    <3> QED BY <1>5, <1>10, <2>4, <3>1
  <2>8. k = st[i] + h - 1 => s[k].part = "blank"
    <3>1. k = x + h - 1 => m = h BY ONLY <1>11, <2>1, <2>3
    <3> QED BY <1>5, <1>10, <2>4, <3>1
  <2>9. ASSUME k >= st[i] + h
        PROVE  /\ s[k] = b[k - st[i] - h + 1]
               /\ s[k].part = q[i].body[k - st[i] - h + 1] /\ s[k].part \in Units
    <3>1. PICK l : l = k - x - h + 1 OBVIOUS
    <3>2. k >= x + h BY <1>10, <2>9
    <3>3. l \in 1..n /\ h + l = m BY ONLY <1>11, <2>1, <2>2, <2>3, <3>1, <3>2
    <3>4. t[h + l] = b[l] /\ t[h + l].part = q[i].body[l] /\ t[h + l].part \in Units
      BY <1>5, <3>3
    <3> QED BY <1>10, <2>4, <3>1, <3>3, <3>4
  <2> QED BY <2>5, <2>6, <2>7, <2>8, <2>9
<1>9. ASSUME st[i] >= 1, st[i] + h - 1 <= Len(s)
      PROVE  (\E k \in (st[i] + 1)..(st[i] + h - 2) : s[k].part = "length") <=> q[i].type = "POST"
  <2>0. x >= 1 /\ x + h - 1 <= z BY <1>9, <1>10
  <2>1. ASSUME NEW k \in (x + 1)..(x + h - 2)
        PROVE  s[k] = t[k - x + 1] /\ k - x + 1 \in 2..(h - 1)
    <3>1. k \in 1..z /\ x <= k /\ k < y /\ k - x + 1 \in 2..(h - 1)
      BY ONLY <1>11, <2>0, k \in (x + 1)..(x + h - 2)
    <3> QED BY <1>7, <1>10, <3>1
  <2>2. ASSUME NEW m \in 2..(h - 1), NEW k, k = m + x - 1
        PROVE  k \in (x + 1)..(x + h - 2) /\ k - x + 1 = m
    BY ONLY <1>11, m \in 2..(h - 1), k = m + x - 1
  <2>3. ASSUME q[i].type = "POST"
        PROVE  \E k \in (x + 1)..(x + h - 2) : s[k].part = "length"
    <3>1. PICK m \in 2..(h - 1) : t[m].part = "length" BY <1>5, <2>3
    <3>2. PICK k : k = m + x - 1 OBVIOUS
    <3>3. k \in (x + 1)..(x + h - 2) /\ k - x + 1 = m BY <2>2, <3>2
    <3>4. s[k] = t[k - x + 1] BY <2>1, <3>3
    <3> QED BY <3>1, <3>3, <3>4
  <2>4. ASSUME NEW k \in (x + 1)..(x + h - 2), s[k].part = "length"
        PROVE  q[i].type = "POST"
    BY <1>5, <2>1, <2>4
  <2> QED BY <1>10, <2>3, <2>4
<1>12. /\ st[i] \in Int /\ st[i + 1] \in Int /\ st[i + 1] = st[i] + h + n BY <1>10, <1>11
<1> QED BY <1>2, <1>4, <1>5, <1>8, <1>9, <1>12 DEF Block

LEMMA BlockAt ==
  ASSUME NEW q \in Seq(Kinds), NEW s \in Seq(Tokens), NEW st, Laid(s, q, st), NEW k \in 1..Len(s)
  PROVE  \E i \in 1..Len(q) : st[i] <= k /\ k < st[i + 1] /\ Block(s, q, st, i)
BY BlockOf DEF Laid

-----------------------------------------------------------------------------
(* A request more is sent.                                                 *)
Lengthened(st, q, n) == [i \in 1..(Len(q) + 2) |-> IF i <= Len(q) + 1 THEN st[i] ELSE n + 1]

Grown(q, kind, st, q2, s2, st2) ==
  /\ q2 \in Seq(Kinds) /\ Len(q2) = Len(q) + 1 /\ q2[Len(q) + 1] = kind
  /\ \A i \in 1..Len(q) : q2[i] = q[i]
  /\ Laid(s2, q2, st2)
  /\ \A i \in 1..(Len(q) + 1) : st2[i] = st[i]

LEMMA LaidMore ==
  ASSUME NEW q \in Seq(Kinds), NEW s \in Seq(Tokens), NEW st, Laid(s, q, st), NEW kind \in Kinds,
         NEW t, t = Text(Len(q) + 1, kind), NEW q2, q2 = Append(q, kind), NEW s2, s2 = s \o t,
         NEW st2, st2 = Lengthened(st, q, Len(s2))
  PROVE  Grown(q, kind, st, q2, s2, st2)
<1>1. PICK n, z, w : n = Len(q) /\ z = Len(s) /\ w = Len(t) OBVIOUS
<1>2. n \in Nat /\ z \in Nat /\ \A i \in 1..(n + 1) : st[i] \in Int /\ st[i] <= z + 1 BY <1>1, Marks
<1>3. t \in Seq(Tokens) /\ w \in Nat /\ w > 0
  <2>1. Texted(t, n + 1, kind) BY <1>1, <1>2, TextShape
  <2>2. PICK h : h \in 2..4 /\ Len(kind.body) \in Nat /\ Len(t) = h + Len(kind.body) BY <2>1 DEF Texted
  <2>3. w = h + Len(kind.body) BY <1>1, <2>2
  <2>4. w \in Nat /\ w > 0 BY ONLY <2>2, <2>3
  <2> QED BY <2>1, <2>4 DEF Texted
<1>4. /\ s2 \in Seq(Tokens) /\ Len(s2) = z + w
      /\ \A k \in 1..(z + w) : s2[k] = IF k <= z THEN s[k] ELSE t[k - z]
  BY <1>1, <1>3, ConcatProperties
<1>5. q2 \in Seq(Kinds) /\ Len(q2) = n + 1 /\ q2[n + 1] = kind /\ \A i \in 1..n : q2[i] = q[i]
  BY <1>1
<1>6. \A i \in 1..(n + 2) : st2[i] = IF i <= n + 1 THEN st[i] ELSE z + w + 1
  BY <1>1, <1>4 DEF Lengthened
<1>7. \A i \in 1..(n + 1) : st2[i] = st[i]
  <2>1. \A i \in 1..(n + 1) : i \in 1..(n + 2) /\ i <= n + 1 BY ONLY <1>2
  <2> QED BY <1>6, <2>1
<1>8. st2[n + 2] = z + w + 1
  <2>1. n + 2 \in 1..(n + 2) /\ ~(n + 2 <= n + 1) BY ONLY <1>2
  <2> QED BY <1>6, <2>1
<1>9. st[n + 1] = z + 1 /\ st[1] <= 1 BY <1>1 DEF Laid
<1>10. \A i \in 1..(n + 2) : i \in 1..(n + 1) \/ i = n + 2 BY ONLY <1>2
<1>11. st2 \in [1..(Len(q2) + 1) -> Int]
  <2>1. ASSUME NEW i \in 1..(n + 2) PROVE st2[i] \in Int
    <3>1. z + w + 1 \in Int BY ONLY <1>2, <1>3
    <3>2. CASE i \in 1..(n + 1) BY <1>2, <1>7, <3>2
    <3>3. CASE i = n + 2 BY <1>8, <3>1, <3>3
    <3> QED BY <1>10, <3>2, <3>3
  <2>2. st2 = [i \in 1..(n + 2) |-> st2[i]] BY <1>1 DEF Lengthened
  <2>3. Len(q2) + 1 = n + 2 BY <1>2, <1>5
  <2> QED BY <2>1, <2>2, <2>3
<1>12. st2[1] <= 1 /\ st2[Len(q2) + 1] = Len(s2) + 1
  <2>1. 1 \in 1..(n + 1) /\ Len(q2) + 1 = n + 2 BY <1>2, <1>5
  <2> QED BY <1>4, <1>7, <1>8, <1>9, <2>1
<1>13. ASSUME NEW i \in 1..Len(q2)
       PROVE  st2[i + 1] = st2[i] + Len(Text(i, q2[i]))
  <2>1. CASE i \in 1..n
    <3>1. i \in 1..(n + 1) /\ i + 1 \in 1..(n + 1) BY ONLY <1>2, <2>1
    <3>2. st[i + 1] = st[i] + Len(Text(i, q[i])) BY <1>1, <2>1 DEF Laid
    <3> QED BY <1>5, <1>7, <2>1, <3>1, <3>2
  <2>2. CASE i = n + 1
    <3>1. n + 1 \in 1..(n + 1) /\ i + 1 = n + 2 BY <1>2, <2>2
    <3>2. st2[i] = z + 1 /\ st2[i + 1] = z + w + 1 BY <1>7, <1>8, <1>9, <2>2, <3>1
    <3>3. Text(i, q2[i]) = t BY <1>1, <1>5, <2>2
    <3>4. z + w + 1 = z + 1 + w BY <1>2, <1>3
    <3> QED BY <1>1, <3>2, <3>3, <3>4
  <2>3. i \in 1..(n + 1) BY <1>5
  <2>4. i \in 1..n \/ i = n + 1 BY ONLY <1>2, <2>3
  <2> QED BY <2>1, <2>2, <2>4
<1>14. ASSUME NEW i \in 1..(Len(q2) + 1), NEW j \in 1..(Len(q2) + 1), i < j
       PROVE  st2[i] < st2[j]
  <2>1. i \in 1..(n + 2) /\ j \in 1..(n + 2) /\ i < j BY <1>2, <1>5, <1>14
  <2>2. i \in 1..(n + 1) /\ (j \in 1..(n + 1) \/ j = n + 2) BY ONLY <1>2, <2>1
  <2>3. CASE j \in 1..(n + 1)
    <3>1. st[i] < st[j] BY <1>1, <1>14, <2>2, <2>3 DEF Laid
    <3> QED BY <1>7, <2>2, <2>3, <3>1
  <2>4. CASE j = n + 2
    <3>1. st[i] \in Int /\ st[i] <= z + 1 BY <1>2, <2>2
    <3>2. st[i] < z + w + 1 BY ONLY <1>2, <1>3, <3>1
    <3> QED BY <1>7, <1>8, <2>2, <2>4, <3>2
  <2> QED BY <2>2, <2>3, <2>4
<1>15. ASSUME NEW k \in 1..Len(s2)
       PROVE  \E i \in 1..Len(q2) :
                st2[i] <= k /\ k < st2[i + 1] /\ s2[k] = Text(i, q2[i])[k - st2[i] + 1]
  <2>0. k \in 1..(z + w) BY <1>4
  <2>1. k \in 1..z \/ k \in (z + 1)..(z + w) BY ONLY <1>2, <1>3, <2>0
  <2>2. CASE k \in 1..z
    <3>1. PICK i \in 1..n : st[i] <= k /\ k < st[i + 1] /\ s[k] = Text(i, q[i])[k - st[i] + 1]
      BY <1>1, <2>2 DEF Laid
    <3>2. i \in 1..(n + 1) /\ i + 1 \in 1..(n + 1) BY ONLY <1>2, <3>1
    <3>3. s2[k] = s[k] BY <1>2, <1>4, <2>0, <2>2
    <3>4. i \in 1..Len(q2) BY <1>5, <3>2
    <3> QED BY <1>5, <1>7, <3>1, <3>2, <3>3, <3>4
  <2>3. CASE k \in (z + 1)..(z + w)
    <3>1. n + 1 \in 1..(n + 1) /\ n + 1 + 1 = n + 2 BY <1>2
    <3>2. st2[n + 1] = z + 1 /\ st2[n + 1 + 1] = z + w + 1 BY <1>7, <1>8, <1>9, <3>1
    <3>3. z + 1 <= k /\ k < z + w + 1 /\ ~(k <= z) /\ k - z = k - (z + 1) + 1
      BY ONLY <1>2, <1>3, <2>3
    <3>4. s2[k] = t[k - z] BY <1>4, <2>0, <3>3
    <3>5. Text(n + 1, q2[n + 1]) = t BY <1>1, <1>5
    <3>6. n + 1 \in 1..Len(q2) BY <1>5, <3>1
    <3>7. s2[k] = Text(n + 1, q2[n + 1])[k - st2[n + 1] + 1] BY <3>2, <3>3, <3>4, <3>5
    <3>8. st2[n + 1] <= k /\ k < st2[n + 1 + 1] BY <3>2, <3>3
    <3> QED BY ONLY <3>6, <3>7, <3>8
  <2> QED BY <2>1, <2>2, <2>3
<1>16. Laid(s2, q2, st2) BY <1>11, <1>12, <1>13, <1>14, <1>15 DEF Laid
<1> QED BY <1>1, <1>5, <1>7, <1>16 DEF Grown

(* The first d tokens have been read.                                      *)
Moved(st, d) == [i \in DOMAIN st |-> st[i] - d]

LEMMA LaidLess ==
  ASSUME NEW q \in Seq(Kinds), NEW s \in Seq(Tokens), NEW st, Laid(s, q, st), NEW d \in 0..Len(s),
         NEW s2 \in Seq(Tokens), Len(s2) = Len(s) - d, \A k \in 1..Len(s2) : s2[k] = s[k + d],
         NEW st2, st2 = Moved(st, d)
  PROVE  /\ Laid(s2, q, st2)
         /\ \A i \in 1..(Len(q) + 1) : st2[i] = st[i] - d
<1>1. PICK n, z, y : n = Len(q) /\ z = Len(s) /\ y = Len(s2) OBVIOUS
<1>2. /\ n \in Nat /\ z \in Nat /\ d \in Nat /\ y = z - d
      /\ \A i \in 1..(n + 1) : st[i] \in Int /\ st[i] <= z + 1
  BY <1>1, Marks
<1>3. \A i \in 1..(n + 1) : st2[i] = st[i] - d BY <1>1 DEF Moved, Laid
<1>4. st2 \in [1..(n + 1) -> Int]
  <2>1. \A i \in 1..(n + 1) : st2[i] \in Int BY <1>2, <1>3
  <2>2. st2 = [i \in 1..(n + 1) |-> st2[i]] BY <1>1 DEF Moved, Laid
  <2> QED BY <2>1, <2>2
<1>5. st2[1] <= 1 /\ st2[n + 1] = y + 1
  <2>1. 1 \in 1..(n + 1) /\ n + 1 \in 1..(n + 1) BY ONLY <1>2
  <2>2. st[1] <= 1 /\ st[n + 1] = z + 1 BY <1>1 DEF Laid
  <2>3. st[1] \in Int /\ st2[1] = st[1] - d /\ st2[n + 1] = st[n + 1] - d BY <1>2, <1>3, <2>1
  <2>4. PICK x : x = st[n + 1] OBVIOUS
  <2>5. x = z + 1 /\ st2[n + 1] = x - d BY <2>2, <2>3, <2>4
  <2> QED BY ONLY <1>2, <2>2, <2>3, <2>5
<1>6. ASSUME NEW i \in 1..n
      PROVE  /\ st2[i] = st[i] - d /\ st2[i + 1] = st[i + 1] - d
             /\ st[i] \in Int /\ st[i + 1] \in Int
             /\ st2[i + 1] = st2[i] + Len(Text(i, q[i]))
  <2>1. i \in 1..(n + 1) /\ i + 1 \in 1..(n + 1) BY ONLY <1>2, i \in 1..n
  <2>2. PICK w : w = Len(Text(i, q[i])) OBVIOUS
  <2>3. st[i + 1] = st[i] + w BY <1>1, <2>2 DEF Laid
  <2>4. w \in Int
    <3>1. Texted(Text(i, q[i]), i, q[i]) BY <1>1, KindOf, TextShape
    <3>2. PICK h : h \in 2..4 /\ Len(q[i].body) \in Nat /\ Len(Text(i, q[i])) = h + Len(q[i].body)
      BY <3>1 DEF Texted
    <3>3. w = h + Len(q[i].body) BY <2>2, <3>2
    <3> QED BY ONLY <3>2, <3>3
  <2>5. /\ st2[i] = st[i] - d /\ st2[i + 1] = st[i + 1] - d
        /\ st[i] \in Int /\ st[i + 1] \in Int
    BY <1>2, <1>3, <2>1
  <2>6. st2[i + 1] = st2[i] + w BY ONLY <1>2, <2>3, <2>4, <2>5
  <2> QED BY <2>2, <2>5, <2>6
<1>7. ASSUME NEW i \in 1..(n + 1), NEW j \in 1..(n + 1), i < j
      PROVE  st2[i] < st2[j]
  <2>1. st[i] < st[j] /\ st[i] \in Int /\ st[j] \in Int BY <1>1, <1>2, <1>7 DEF Laid
  <2>2. st2[i] = st[i] - d /\ st2[j] = st[j] - d BY <1>3
  <2> QED BY ONLY <1>2, <2>1, <2>2
<1>8. ASSUME NEW k \in 1..y
      PROVE  \E i \in 1..n :
               st2[i] <= k /\ k < st2[i + 1] /\ s2[k] = Text(i, q[i])[k - st2[i] + 1]
  <2>1. k + d \in 1..z /\ k \in Int BY ONLY <1>2, k \in 1..y
  <2>2. PICK i \in 1..n : /\ st[i] <= k + d /\ k + d < st[i + 1]
                          /\ s[k + d] = Text(i, q[i])[(k + d) - st[i] + 1]
    BY <1>1, <2>1 DEF Laid
  <2>3. /\ st2[i] = st[i] - d /\ st2[i + 1] = st[i + 1] - d
        /\ st[i] \in Int /\ st[i + 1] \in Int
    BY <1>6
  <2>4. st2[i] <= k /\ k < st2[i + 1] /\ k - st2[i] + 1 = (k + d) - st[i] + 1
    <3>1. PICK u, v, x, y2 : u = st[i] /\ v = st[i + 1] /\ x = st2[i] /\ y2 = st2[i + 1] OBVIOUS
    <3>2. /\ u \in Int /\ v \in Int /\ x = u - d /\ y2 = v - d /\ d \in Nat /\ k \in Int
          /\ u <= k + d /\ k + d < v
      BY <1>2, <2>1, <2>2, <2>3, <3>1
    <3>3. x <= k /\ k < y2 /\ k - x + 1 = (k + d) - u + 1 BY ONLY <3>2
    <3> QED BY <3>1, <3>3
  <2>5. s2[k] = s[k + d] BY <1>1
  <2> QED BY <2>2, <2>4, <2>5
<1>9. Laid(s2, q, st2) BY <1>1, <1>4, <1>5, <1>6, <1>7, <1>8 DEF Laid
<1> QED BY <1>1, <1>3, <1>9

-----------------------------------------------------------------------------
(* What split() makes of what has been read.                               *)
LEMMA LeastOf ==
  ASSUME NEW S, S \subseteq Nat, S # {}
  PROVE  Min(S) \in S /\ \A y \in S : Min(S) <= y
<1>1. IsWellFoundedOn(OpToRel(<, Nat), Nat) BY NatLessThanWellFounded
<1>2. PICK x \in S : \A y \in S : ~(<<y, x>> \in OpToRel(<, Nat)) BY <1>1, WFMin
<1>3. \A y \in Nat : y < x => <<y, x>> \in OpToRel(<, Nat) BY <1>2 DEF OpToRel
<1>4. ASSUME NEW y \in S PROVE x <= y
  <2>1. x \in Nat /\ y \in Nat /\ ~(y < x) BY <1>2, <1>3
  <2> QED BY ONLY <2>1
<1> QED BY <1>4 DEF Min

(* The header ends before the first break, if there is one.                *)
HeaderTo(d, f) ==
  /\ Header(d) \in Seq(Tokens) /\ Len(Header(d)) = f - 1
  /\ f \in 1..(Len(d) + 1) /\ (f = Len(d) + 1 \/ f \in Breaks(d))
  /\ \A b \in Breaks(d) : f <= b
  /\ \A k \in 1..(f - 1) : Header(d)[k] = d[k]

LEMMA HeaderOf ==
  ASSUME NEW d \in Seq(Tokens)
  PROVE  \E f \in 1..(Len(d) + 1) : HeaderTo(d, f)
<1>0. Len(d) \in Nat BY LenProperties
<1>1. Breaks(d) \subseteq 1..Len(d) BY DEF Breaks
<1>2. CASE Breaks(d) = {}
  <2>1. Header(d) = d BY <1>2 DEF Header
  <2>2. PICK f : f = Len(d) + 1 OBVIOUS
  <2>3. f \in 1..(Len(d) + 1) /\ f - 1 = Len(d) BY <1>0, <2>2
  <2>4. HeaderTo(d, f) BY <1>2, <2>1, <2>2, <2>3 DEF HeaderTo
  <2> QED BY <2>3, <2>4
<1>3. CASE Breaks(d) # {}
  <2>1. PICK f : f = Min(Breaks(d)) OBVIOUS
  <2>2. f \in Breaks(d) /\ \A b \in Breaks(d) : f <= b
    <3>1. Breaks(d) \subseteq Nat BY <1>0, <1>1
    <3> QED BY <1>3, <2>1, <3>1, LeastOf
  <2>3. f \in 1..Len(d) /\ f \in 1..(Len(d) + 1) /\ f - 1 \in Nat /\ f - 1 \in Int
        /\ \A k \in 1..(f - 1) : k \in 1..Len(d)
    BY <1>0, <1>1, <2>2
  <2>4. PICK g : g = f - 1 OBVIOUS
  <2>5. Header(d) = SubSeq(d, 1, g) BY <1>3, <2>1, <2>4 DEF Header
  <2>6. \A k \in 1..g : d[k] \in Tokens BY <2>3, <2>4, ElementOfSeq
  <2>7. /\ Header(d) \in Seq(Tokens) /\ Len(Header(d)) = (IF 1 <= g THEN g - 1 + 1 ELSE 0)
        /\ \A k \in 1..(g - 1 + 1) : Header(d)[k] = d[1 + k - 1]
    <3>1. g \in Int /\ 1 \in Int BY <2>3, <2>4
    <3> QED BY ONLY <2>5, <2>6, <3>1, SubSeqProperties
  <2>8. g \in Nat /\ g - 1 + 1 = g /\ \A k \in 1..g : 1 + k - 1 = k BY <2>3, <2>4
  <2>9. Len(Header(d)) = g
    <3>1. CASE 1 <= g BY <2>7, <2>8, <3>1
    <3>2. CASE g = 0
      <4>1. ~(1 <= g) BY <3>2
      <4> QED BY <2>7, <3>2, <4>1
    <3> QED BY <2>8, <3>1, <3>2
  <2>10. \A k \in 1..(f - 1) : Header(d)[k] = d[k]
    <3>1. \A k \in 1..g : Header(d)[k] = d[k] BY <2>7, <2>8
    <3> QED BY <2>4, <3>1
  <2>11. HeaderTo(d, f) BY <2>2, <2>3, <2>4, <2>7, <2>9, <2>10 DEF HeaderTo
  <2> QED BY <2>3, <2>11
<1> QED BY <1>2, <1>3

(* What follows the only break is taken for the body.                      *)
RestFrom(d, b) ==
  /\ Rest(d) \in Seq(Tokens) /\ Len(Rest(d)) = Len(d) - b
  /\ \A k \in 1..(Len(d) - b) : Rest(d)[k] = d[k + b]

LEMMA RestOf ==
  ASSUME NEW d \in Seq(Tokens)
  PROVE  /\ \A b \in 1..Len(d) : Breaks(d) = {b} => RestFrom(d, b)
         /\ Rest(d) = <<>> \/ \E b \in 1..Len(d) : Breaks(d) = {b}
<1>0. Len(d) \in Nat /\ Breaks(d) \subseteq 1..Len(d) BY LenProperties DEF Breaks
<1>1. ASSUME NEW b \in 1..Len(d), Breaks(d) = {b}
      PROVE  RestFrom(d, b)
  <2>1. Min(Breaks(d)) = b
    <3>1. b \in Nat BY <1>0
    <3>2. Min({b}) \in {b} BY <3>1, LeastOf
    <3> QED BY <1>1, <3>2
  <2>2. PICK g, n : g = b + 1 /\ n = Len(d) OBVIOUS
  <2>3. Rest(d) = SubSeq(d, g, n) BY <1>1, <2>1, <2>2 DEF Rest
  <2>4. g \in Int /\ n \in Int /\ n \in Nat /\ b \in Int /\ b >= 1 /\ b <= n BY <1>0, <2>2
  <2>5. \A k \in g..n : k \in 1..Len(d) BY <2>2, <2>4
  <2>6. \A k \in g..n : d[k] \in Tokens BY <2>5, ElementOfSeq
  <2>7. /\ Rest(d) \in Seq(Tokens) /\ Len(Rest(d)) = (IF g <= n THEN n - g + 1 ELSE 0)
        /\ \A k \in 1..(n - g + 1) : Rest(d)[k] = d[g + k - 1]
    BY ONLY <2>3, <2>4, <2>6, SubSeqProperties
  <2>8. (IF g <= n THEN n - g + 1 ELSE 0) = n - b /\ n - g + 1 = n - b BY ONLY <2>2, <2>4
  <2>9. \A k \in 1..(n - b) : g + k - 1 = k + b BY ONLY <2>2, <2>4
  <2> QED BY <2>2, <2>7, <2>8, <2>9 DEF RestFrom
<1>2. ASSUME Rest(d) # <<>> PROVE \E b \in 1..Len(d) : Breaks(d) = {b}
  <2>1. \E j \in Breaks(d) : Breaks(d) = {j} BY <1>2 DEF Rest
  <2> QED BY <1>0, <2>1
<1> QED BY <1>1, <1>2

LEMMA LineOf ==
  ASSUME NEW d \in Seq(Tokens), Lines(d) # {}, NEW p, p = LineIn(d)
  PROVE  /\ p \in 1..Len(d) /\ d[p].part \notin Units
         /\ \A k \in 1..Len(d) : k < p => d[k].part \in Units
<1>0. Len(d) \in Nat BY LenProperties
<1>1. Lines(d) \subseteq Nat BY <1>0 DEF Lines
<1>2. p \in Lines(d) /\ \A k \in Lines(d) : p <= k BY <1>1, LeastOf DEF LineIn
<1>3. p \in 1..Len(d) /\ d[p].part \notin Units BY <1>2 DEF Lines
<1>4. ASSUME NEW k \in 1..Len(d), k < p PROVE d[k].part \in Units
  <2>1. k \notin Lines(d) BY <1>0, <1>2, <1>3, <1>4
  <2> QED BY <2>1 DEF Lines
<1> QED BY <1>3, <1>4

-----------------------------------------------------------------------------
(* What parse() makes of m tokens of the stream: it finds request i, and   *)
(* its body begins where it takes it to begin.                             *)
ReadAs(s, q, st, m, d, i) ==
  LET r == Parsed(Header(d))
      b == st[i] + Len(Top(i, q[i])) - 1
  IN /\ 1 <= st[i] /\ st[i] <= m
     /\ r \in [req : 1..Len(q), keep : BOOLEAN, sized : BOOLEAN, length : Nat] /\ r.req = i
     /\ r.length = (IF r.sized THEN Bytes(q[i].body) ELSE 0)
     /\ Rest(d) # <<>> =>
          /\ b \in 1..m /\ Breaks(d) = {b} /\ RestFrom(d, b)
          /\ r.sized <=> q[i].type = "POST"

Start(s, d, m) == d \in Seq(Tokens) /\ Len(d) = m /\ \A k \in 1..m : d[k] = s[k]

LEMMA ReadsAs ==
  ASSUME NEW q \in Seq(Kinds), NEW s \in Seq(Tokens), NEW st, Laid(s, q, st),
         NEW m \in 0..Len(s), NEW d, Start(s, d, m), IsRequest(Header(d))
  PROVE  \E i \in 1..Len(q) : ReadAs(s, q, st, m, d, i)
<1>1. d \in Seq(Tokens) /\ Len(d) = m /\ (\A k \in 1..m : d[k] = s[k]) /\ m \in Nat /\ m <= Len(s)
      /\ Len(s) \in Nat
  BY LenProperties DEF Start
<1>2. PICK f \in 1..(m + 1) : HeaderTo(d, f) BY <1>1, HeaderOf
<1>3. PICK e : e = Header(d) OBVIOUS
<1>4. /\ e \in Seq(Tokens) /\ Len(e) = f - 1 /\ (f = m + 1 \/ f \in Breaks(d))
      /\ (\A b \in Breaks(d) : f <= b) /\ (\A k \in 1..(f - 1) : e[k] = d[k])
  BY <1>1, <1>2, <1>3 DEF HeaderTo
<1>5. Lines(e) # {} /\ e[LineIn(e)].part = "line" BY <1>3 DEF IsRequest
<1>6. PICK p : p = LineIn(e) OBVIOUS
<1>7. p \in 1..(f - 1) /\ e[p].part = "line" /\ \A k \in 1..(f - 1) : k < p => e[k].part \in Units
  BY <1>4, <1>5, <1>6, LineOf
<1>8. f \in Int /\ f <= m + 1 /\ p \in Int /\ 1 <= p /\ p < f BY <1>1, <1>7
<1>9. \A k \in 1..(f - 1) : k \in 1..m /\ k \in 1..Len(s) /\ e[k] = s[k] BY <1>1, <1>4, <1>8
<1>10. PICK i \in 1..Len(q) : st[i] <= p /\ p < st[i + 1] /\ Block(s, q, st, i)
  BY <1>7, <1>9, BlockAt
<1>11. PICK h, x, y, n : h = Len(Top(i, q[i])) /\ x = st[i] /\ y = st[i + 1] /\ n = Len(q[i].body)
  OBVIOUS
<1>12. /\ h \in 2..4 /\ n \in Nat /\ x \in Int /\ y \in Int /\ y = x + h + n
       /\ \A k \in 1..Len(s) : x <= k /\ k < y =>
            /\ s[k].req = i /\ s[k].length = Bytes(q[i].body)
            /\ x < k /\ k < x + h - 1 => s[k].part \in {"keep", "length"}
            /\ k = x + h - 1 => s[k].part = "blank"
            /\ k >= x + h => s[k].part \in Units
       /\ x >= 1 /\ x + h - 1 <= Len(s) =>
            ((\E k \in (x + 1)..(x + h - 2) : s[k].part = "length") <=> q[i].type = "POST")
  BY <1>10, <1>11 DEF Block
<1>13. s[p].part = "line" /\ p \in 1..Len(s) BY <1>7, <1>9
<1>14. p = x
  <2>1. x <= p /\ p < y BY <1>10, <1>11
  <2>2. ~(x < p /\ p < x + h - 1) BY <1>12, <1>13, <2>1
  <2>3. p # x + h - 1 BY <1>12, <1>13, <2>1
  <2>4. ~(p >= x + h) BY <1>12, <1>13, <2>1 DEF Units
  <2> QED BY ONLY <1>8, <1>12, <2>1, <2>2, <2>3, <2>4
<1>15. PICK b : b = x + h - 1 OBVIOUS
<1>16. b \in Int /\ x < b /\ b < y /\ 1 <= x BY ONLY <1>8, <1>12, <1>14, <1>15
<1>17. PICK r : r = Parsed(e) OBVIOUS
<1>18. /\ r \in [req : 1..Len(q), keep : BOOLEAN, sized : BOOLEAN, length : Nat] /\ r.req = i
       /\ r.length = (IF r.sized THEN Bytes(q[i].body) ELSE 0)
       /\ r.sized <=> \E k \in 1..(f - 1) : e[k].part = "length"
  <2>1. e[p] = s[p] /\ s[p].req = i /\ s[p].length = Bytes(q[i].body)
    BY <1>7, <1>9, <1>10, <1>11, <1>12
  <2>2. r = [req |-> i, keep |-> Has(e, "keep"), sized |-> Has(e, "length"),
             length |-> IF Has(e, "length") THEN Bytes(q[i].body) ELSE 0]
    BY <1>6, <1>17, <2>1 DEF Parsed
  <2>3. Has(e, "length") <=> \E k \in 1..(f - 1) : e[k].part = "length" BY <1>4 DEF Has
  <2>4. Has(e, "keep") \in BOOLEAN /\ Has(e, "length") \in BOOLEAN BY DEF Has
  <2>5. Bytes(q[i].body) \in Nat BY KindOf, StreamAssumption, ByteCount
  <2> QED BY <2>2, <2>3, <2>4, <2>5
<1>19. ASSUME Rest(d) # <<>>
       PROVE  /\ b \in 1..m /\ Breaks(d) = {b} /\ RestFrom(d, b)
              /\ r.sized <=> q[i].type = "POST"
  <2>1. PICK c \in 1..m : Breaks(d) = {c} BY <1>1, <1>19, RestOf
  <2>2. RestFrom(d, c) BY <1>1, <2>1, RestOf
  <2>3. f \in 1..m /\ f = c /\ d[f].part \in {"blank", "gap"}
    <3>1. f <= c /\ f # m + 1 BY <1>1, <1>4, <2>1
    <3>2. f \in Breaks(d) BY <1>4, <3>1
    <3> QED BY <1>1, <2>1, <3>2 DEF Breaks
  <2>4. f \in 1..Len(s) /\ s[f].part \in {"blank", "gap"} BY <1>1, <2>3
  <2>5. ~(x < f /\ f < b)
    <3> SUFFICES ASSUME x < f, f < b PROVE FALSE OBVIOUS
    <3>1. x <= f /\ f < y /\ f < x + h - 1 BY ONLY <1>8, <1>12, <1>15, <1>16, x < f, f < b
    <3>2. s[f].part \in {"keep", "length"} BY <1>12, <2>4, <3>1
    <3> QED BY <2>4, <3>2
  <2>6. f >= b BY ONLY <1>8, <1>14, <1>16, <2>5
  <2>7. b \in 1..m /\ b \in 1..Len(s)
    <3>1. PICK z : z = Len(s) OBVIOUS
    <3>2. m \in Nat /\ z \in Nat /\ m <= z /\ f \in 1..m BY <1>1, <2>3, <3>1
    <3>3. b \in 1..m /\ b \in 1..z BY ONLY <1>8, <1>14, <1>16, <2>6, <3>2
    <3> QED BY <3>1, <3>3
  <2>8. s[b].part = "blank" BY <1>12, <1>15, <1>16, <2>7
  <2>9. b \in Breaks(d) BY <1>1, <2>7, <2>8 DEF Breaks
  <2>10. b = c /\ b = f BY <2>1, <2>3, <2>9
  <2>11. r.sized <=> q[i].type = "POST"
    <3>1. (\E k \in (x + 1)..(x + h - 2) : s[k].part = "length") <=> q[i].type = "POST"
      <4>1. x >= 1 /\ x + h - 1 <= Len(s) BY <1>1, <1>15, <1>16, <2>7
      <4> QED BY <1>12, <4>1
    <3>2. ASSUME NEW k \in (x + 1)..(x + h - 2), s[k].part = "length"
          PROVE  r.sized
      <4>1. k \in 1..(f - 1)
        BY ONLY <1>8, <1>12, <1>15, <1>16, <2>10, k \in (x + 1)..(x + h - 2)
      <4> QED BY <1>9, <1>18, <3>2, <4>1
    <3>3. ASSUME NEW k \in 1..(f - 1), e[k].part = "length"
          PROVE  k \in (x + 1)..(x + h - 2) /\ s[k].part = "length"
      <4>1. s[k].part = "length" BY <1>9, <3>3
      <4>2. ~(k < p) BY <1>7, <3>3 DEF Units
      <4>3. k # p BY <1>13, <4>1
      <4> QED BY ONLY <1>8, <1>12, <1>14, <1>15, <2>10, <4>1, <4>2, <4>3, k \in 1..(f - 1)
    <3> QED BY <1>18, <3>1, <3>2, <3>3
  <2> QED BY <2>1, <2>2, <2>7, <2>10, <2>11
<1>20. 1 <= x /\ x <= m BY ONLY <1>1, <1>8, <1>14
<1>21. ReadAs(s, q, st, m, d, i) BY <1>3, <1>11, <1>15, <1>17, <1>18, <1>19, <1>20 DEF ReadAs
<1> QED BY <1>21

-----------------------------------------------------------------------------
(* The stream is what is at hand, what that leaves and what is on the wire.*)
Parts(s, d, l, w) ==
  /\ s \in Seq(Tokens) /\ d \in Seq(Tokens) /\ l \in Seq(Tokens) /\ w \in Seq(Tokens)
  /\ Len(s) = Len(d) + Len(l) + Len(w)
  /\ \A k \in 1..Len(d) : s[k] = d[k]
  /\ \A k \in 1..Len(l) : s[Len(d) + k] = l[k]
  /\ \A k \in 1..Len(w) : s[Len(d) + Len(l) + k] = w[k]

RunOn(s, t, b) == t \in Seq(Tokens) /\ Len(t) = Len(s) - b /\ \A k \in 1..Len(t) : t[k] = s[k + b]

LEMMA Joined ==
  ASSUME NEW a \in Seq(Tokens), NEW b \in Seq(Tokens), NEW c \in Seq(Tokens)
  PROVE  Parts(a \o b \o c, a, b, c)
<1>1. PICK x, y, z : x = Len(a) /\ y = Len(b) /\ z = Len(c) OBVIOUS
<1>2. x \in Nat /\ y \in Nat /\ z \in Nat BY <1>1, LenProperties
<1>3. PICK t : t = a \o b OBVIOUS
<1>4. PICK s : s = t \o c OBVIOUS
<1>5. /\ t \in Seq(Tokens) /\ Len(t) = x + y
      /\ \A k \in 1..(x + y) : t[k] = IF k <= x THEN a[k] ELSE b[k - x]
  BY ONLY <1>1, <1>3, ConcatProperties, a \in Seq(Tokens), b \in Seq(Tokens)
<1>6. /\ s \in Seq(Tokens) /\ Len(s) = x + y + z
      /\ \A k \in 1..(x + y + z) : s[k] = IF k <= x + y THEN t[k] ELSE c[k - (x + y)]
  BY ONLY <1>1, <1>4, <1>5, ConcatProperties, c \in Seq(Tokens)
<1>7. ASSUME NEW k \in 1..x PROVE s[k] = a[k]
  <2>1. k \in 1..(x + y) /\ k \in 1..(x + y + z) /\ k <= x /\ k <= x + y BY ONLY <1>2, k \in 1..x
  <2> QED BY <1>5, <1>6, <2>1
<1>8. ASSUME NEW k \in 1..y PROVE s[x + k] = b[k]
  <2>1. PICK m : m = x + k OBVIOUS
  <2>2. m \in 1..(x + y) /\ m \in 1..(x + y + z) /\ ~(m <= x) /\ m <= x + y /\ m - x = k
    BY ONLY <1>2, <2>1, k \in 1..y
  <2> QED BY <1>5, <1>6, <2>1, <2>2
<1>9. ASSUME NEW k \in 1..z PROVE s[x + y + k] = c[k]
  <2>1. PICK m : m = x + y + k OBVIOUS
  <2>2. m \in 1..(x + y + z) /\ ~(m <= x + y) /\ m - (x + y) = k
    BY ONLY <1>2, <2>1, k \in 1..z
  <2> QED BY <1>6, <2>1, <2>2
<1>10. Parts(s, a, b, c) BY <1>1, <1>6, <1>7, <1>8, <1>9 DEF Parts
<1> QED BY <1>3, <1>4, <1>10

(* If all but x of what is at hand is done with, the rest of the stream is *)
(* what comes after.                                                       *)
LEMMA Remains ==
  ASSUME NEW s, NEW d, NEW l, NEW w, Parts(s, d, l, w), NEW b \in 0..Len(d),
         NEW x, RunOn(d, x, b), NEW t, t = x \o l \o w
  PROVE  RunOn(s, t, b) /\ b \in 0..Len(s)
<1>1. /\ Parts(t, x, l, w) /\ Len(d) \in Nat /\ Len(l) \in Nat /\ Len(w) \in Nat
  <2>1. x \in Seq(Tokens) /\ d \in Seq(Tokens) /\ l \in Seq(Tokens) /\ w \in Seq(Tokens)
    BY DEF Parts, RunOn
  <2>2. Parts(x \o l \o w, x, l, w) BY ONLY <2>1, Joined
  <2>3. Len(d) \in Nat /\ Len(l) \in Nat /\ Len(w) \in Nat BY ONLY <2>1, LenProperties
  <2> QED BY <2>2, <2>3
<1>2. PICK m, n, o, a : m = Len(d) /\ n = Len(l) /\ o = Len(w) /\ a = Len(x) OBVIOUS
<1>3. m \in Nat /\ n \in Nat /\ o \in Nat /\ b \in 0..m /\ a = m - b
  BY <1>1, <1>2 DEF RunOn
<1>4. /\ Len(s) = m + n + o /\ t \in Seq(Tokens) /\ Len(t) = a + n + o
  BY <1>1, <1>2 DEF Parts
<1>5. Len(t) = Len(s) - b BY ONLY <1>3, <1>4
<1>6. ASSUME NEW k \in 1..Len(t) PROVE t[k] = s[k + b]
  <2>0. k \in 1..(a + n + o) BY <1>4
  <2>1. CASE k \in 1..a
    <3>1. k + b \in 1..m BY ONLY <1>3, <2>1
    <3>2. t[k] = x[k] /\ s[k + b] = d[k + b] BY <1>1, <1>2, <2>1, <3>1 DEF Parts
    <3> QED BY <1>2, <2>1, <3>2 DEF RunOn
  <2>2. CASE k \in (a + 1)..(a + n)
    <3>1. PICK j : j = k - a OBVIOUS
    <3>2. j \in 1..n /\ a + j = k /\ m + j = k + b BY ONLY <1>3, <2>2, <3>1
    <3>3. t[a + j] = l[j] /\ s[m + j] = l[j] BY <1>1, <1>2, <3>2 DEF Parts
    <3> QED BY <3>2, <3>3
  <2>3. CASE k \in (a + n + 1)..(a + n + o)
    <3>1. PICK j : j = k - a - n OBVIOUS
    <3>2. j \in 1..o /\ a + n + j = k /\ m + n + j = k + b BY ONLY <1>3, <2>3, <3>1
    <3>3. t[a + n + j] = w[j] /\ s[m + n + j] = w[j] BY <1>1, <1>2, <3>2 DEF Parts
    <3> QED BY <3>2, <3>3
  <2> QED BY ONLY <1>3, <2>0, <2>1, <2>2, <2>3
<1>7. b \in 0..Len(s) BY ONLY <1>3, <1>4
<1> QED BY <1>4, <1>5, <1>6, <1>7 DEF RunOn

LEMMA CutAt ==
  ASSUME NEW s \in Seq(Tokens), NEW n \in 0..Len(s),
         NEW a, a = SubSeq(s, 1, n), NEW b, b = SubSeq(s, n + 1, Len(s))
  PROVE  /\ a \in Seq(Tokens) /\ Len(a) = n /\ \A k \in 1..n : a[k] = s[k]
         /\ b \in Seq(Tokens) /\ Len(b) = Len(s) - n /\ \A k \in 1..Len(b) : b[k] = s[k + n]
<1>1. PICK z, m : z = Len(s) /\ m = n + 1 OBVIOUS
<1>2. z \in Nat /\ n \in 0..z /\ n \in Int /\ z \in Int /\ m \in Int /\ 1 \in Int
  <2>1. z \in Nat /\ n \in 0..z BY <1>1, LenProperties
  <2> QED BY ONLY <1>1, <2>1
<1>3. \A k \in 1..z : s[k] \in Tokens BY <1>1, ElementOfSeq
<1>4. (\A k \in 1..n : k \in 1..z) /\ \A k \in m..z : k \in 1..z BY ONLY <1>1, <1>2
<1>5. a = SubSeq(s, 1, n) /\ b = SubSeq(s, m, z) BY <1>1
<1>6. (\A k \in 1..n : s[k] \in Tokens) /\ \A k \in m..z : s[k] \in Tokens BY ONLY <1>3, <1>4
<1>7. /\ a \in Seq(Tokens) /\ Len(a) = (IF 1 <= n THEN n - 1 + 1 ELSE 0)
      /\ \A k \in 1..(n - 1 + 1) : a[k] = s[1 + k - 1]
  BY ONLY <1>2, <1>5, <1>6, SubSeqProperties
<1>8. /\ b \in Seq(Tokens) /\ Len(b) = (IF m <= z THEN z - m + 1 ELSE 0)
      /\ \A k \in 1..(z - m + 1) : b[k] = s[m + k - 1]
  BY ONLY <1>2, <1>5, <1>6, SubSeqProperties
<1>9. /\ (IF 1 <= n THEN n - 1 + 1 ELSE 0) = n /\ n - 1 + 1 = n /\ \A k \in 1..n : 1 + k - 1 = k
      /\ (IF m <= z THEN z - m + 1 ELSE 0) = z - n /\ z - m + 1 = z - n
      /\ \A k \in 1..(z - n) : m + k - 1 = k + n
  BY ONLY <1>1, <1>2
<1>10. Len(a) = n /\ \A k \in 1..n : a[k] = s[k] BY ONLY <1>7, <1>9
<1>11. Len(b) = z - n /\ \A k \in 1..(z - n) : b[k] = s[k + n] BY ONLY <1>8, <1>9
<1> QED BY <1>1, <1>7, <1>8, <1>10, <1>11

-----------------------------------------------------------------------------
(* As many tokens as the body has, from where it begins, are the body.     *)
BodyFrom(s, q, st, i, b, x) ==
  /\ b \in Nat /\ b = st[i] + Len(Top(i, q[i])) - 1
  /\ x \in Seq(Tokens) /\ Len(x) = Len(q[i].body) /\ b + Len(x) <= Len(s)
  /\ \A k \in 1..Len(x) : x[k] = s[k + b]

LEMMA BodyIn ==
  ASSUME NEW q \in Seq(Kinds), NEW s \in Seq(Tokens), NEW st, Laid(s, q, st), NEW i \in 1..Len(q),
         NEW b, NEW x, BodyFrom(s, q, st, i, b, x)
  PROVE  x = Letters(i, q[i])
<1>0. /\ b \in Nat /\ b = st[i] + Len(Top(i, q[i])) - 1
      /\ x \in Seq(Tokens) /\ Len(x) = Len(q[i].body) /\ b + Len(x) <= Len(s)
      /\ \A k \in 1..Len(x) : x[k] = s[k + b]
  BY DEF BodyFrom
<1>1. Block(s, q, st, i) BY BlockOf
<1>2. PICK h, n, u, v, z : /\ h = Len(Top(i, q[i])) /\ n = Len(x) /\ u = st[i] /\ v = st[i + 1]
                           /\ z = Len(s)
  OBVIOUS
<1>3. PICK y : y = Letters(i, q[i]) OBVIOUS
<1>4. /\ h \in 2..4 /\ n \in Nat /\ u \in Int /\ v = u + h + n /\ b \in Nat /\ b = u + h - 1
      /\ b + n <= z /\ z \in Nat
      /\ \A k \in 1..z : u <= k /\ k < v /\ k >= u + h => s[k] = y[k - u - h + 1]
  BY <1>0, <1>1, <1>2, <1>3, LenProperties DEF Block
<1>5. y \in Seq(Tokens) /\ Len(y) = n
  <2>1. q[i] \in Kinds /\ i \in Nat BY KindOf
  <2>2. PICK kind : kind = q[i] OBVIOUS
  <2>3. kind \in Kinds /\ y = Letters(i, kind) BY <1>3, <2>1, <2>2
  <2>4. y \in Seq(Tokens) /\ Len(y) = Len(kind.body) BY ONLY <2>1, <2>3, LettersShape
  <2> QED BY <1>0, <1>2, <2>2, <2>4
<1>6. ASSUME NEW k \in 1..n PROVE x[k] = y[k]
  <2>1. PICK j : j = k + b OBVIOUS
  <2>2. j \in 1..z /\ u <= j /\ j < v /\ j >= u + h /\ j - u - h + 1 = k
    BY ONLY <1>4, <2>1, k \in 1..n
  <2>3. s[j] = y[k] BY <1>4, <2>2
  <2> QED BY <1>0, <1>2, <2>1, <2>3
<1> QED BY <1>0, <1>2, <1>3, <1>5, <1>6, SeqEqual

(* What the history variable says of a request that came by itself.        *)
CleanRead(q, e, d, m) ==
  LET h == Len(Top(e, q[e]))
      n == Len(q[e].body)
  IN /\ h \in 2..4 /\ n \in Nat /\ h <= m /\ m <= h + n /\ (m = h => n = 0)
     /\ Breaks(d) = {h} /\ IsRequest(Header(d)) /\ Parsed(Header(d)).req = e
     /\ Bytes(q[e].body) = n /\ n <= Limit
     /\ \A u \in ToSet(q[e].body) : u = "plain"

LEMMA CleanSays ==
  ASSUME sent \in Seq(Kinds), NEW s \in Seq(Tokens), NEW st, Laid(s, sent, st),
         NEW e \in 1..(Len(sent) + 1), st[e] = 1,
         NEW m \in 1..Len(s), NEW d, Start(s, d, m), NEW all, Clean(d, all)
  PROVE  d = all /\ e \in 1..Len(sent) /\ CleanRead(sent, e, d, m)
<1>1. d \in Seq(Tokens) /\ Len(d) = m /\ (\A k \in 1..m : d[k] = s[k]) /\ m \in Nat /\ m >= 1
      /\ m <= Len(s) /\ Len(s) \in Nat
  BY LenProperties DEF Start
<1>2. e \in 1..Len(sent)
  <2>1. st[Len(sent) + 1] = Len(s) + 1 /\ Len(sent) \in Nat BY LenProperties DEF Laid
  <2>2. PICK z : z = Len(s) OBVIOUS
  <2>3. z + 1 # 1 BY ONLY <1>1, <2>2
  <2>4. e # Len(sent) + 1 BY <2>1, <2>2, <2>3
  <2> QED BY ONLY <2>1, <2>4, e \in 1..(Len(sent) + 1)
<1>3. Block(s, sent, st, e) BY <1>2, BlockOf
<1>4. PICK h, n, v : h = Len(Top(e, sent[e])) /\ n = Len(sent[e].body) /\ v = st[e + 1] OBVIOUS
<1>5. /\ h \in 2..4 /\ n \in Nat /\ v = 1 + h + n
      /\ \A k \in 1..Len(s) : 1 <= k /\ k < v =>
           /\ s[k].req = e
           /\ k = 1 => s[k].part = "line"
           /\ 1 < k /\ k < h => s[k].part \in {"keep", "length"}
           /\ k = h => s[k].part = "blank"
           /\ k >= 1 + h => s[k].part = sent[e].body[k - h]
  <2>1. /\ h \in 2..4 /\ n \in Nat /\ v = 1 + h + n
        /\ \A k \in 1..Len(s) : 1 <= k /\ k < v =>
             /\ s[k].req = e
             /\ k = 1 => s[k].part = "line"
             /\ 1 < k /\ k < 1 + h - 1 => s[k].part \in {"keep", "length"}
             /\ k = 1 + h - 1 => s[k].part = "blank"
             /\ k >= 1 + h => s[k].part = sent[e].body[k - 1 - h + 1]
    BY <1>3, <1>4 DEF Block
  <2>2. 1 + h - 1 = h /\ \A k \in 1..Len(s) : k - 1 - h + 1 = k - h BY ONLY <1>1, <2>1
  <2> QED BY <2>1, <2>2
<1>6. d[1].req = e
  <2>1. 1 \in 1..Len(s) /\ 1 < v /\ 1 \in 1..m BY ONLY <1>1, <1>5
  <2> QED BY <1>1, <1>5, <2>1
<1>7. /\ d = all /\ IsPrefix(d, Text(e, sent[e])) /\ Has(d, "blank")
      /\ sent[e].body # <<>> => Last(d).part # "blank"
      /\ \A u \in ToSet(sent[e].body) : u = "plain"
      /\ Bytes(sent[e].body) <= Limit
  BY <1>6 DEF Clean
<1>8. m <= h + n
  <2>1. Texted(Text(e, sent[e]), e, sent[e]) BY <1>2, KindOf, TextShape
  <2>2. Len(Text(e, sent[e])) = h + n BY <1>4, <2>1 DEF Texted
  <2> QED BY <1>1, <1>7, <2>2 DEF IsPrefix
<1>9. ASSUME NEW k \in 1..m
      PROVE  /\ k \in 1..Len(s) /\ k \in Int /\ d[k] = s[k] /\ s[k].req = e
             /\ k = 1 => s[k].part = "line"
             /\ 1 < k /\ k < h => s[k].part \in {"keep", "length"}
             /\ k = h => s[k].part = "blank"
             /\ k >= 1 + h => s[k].part = sent[e].body[k - h]
  <2>1. k \in 1..Len(s) /\ 1 <= k /\ k < v /\ k \in Int BY ONLY <1>1, <1>5, <1>8, k \in 1..m
  <2> QED BY <1>1, <1>5, <2>1
<1>10. sent[e].body \in Seq(Units) /\ DOMAIN sent[e].body = 1..n
  BY <1>2, <1>4, KindOf, StreamAssumption, LenProperties
<1>11. \A j \in 1..n : sent[e].body[j] = "plain" BY <1>7, <1>10 DEF ToSet
<1>12. ASSUME NEW k \in 1..m, d[k].part \in {"blank", "gap"} PROVE k = h
  <2>1. k = 1 \/ (1 < k /\ k < h) \/ k = h \/ k >= 1 + h BY ONLY <1>1, <1>5, k \in 1..m
  <2>2. k # 1 /\ ~(1 < k /\ k < h) BY <1>9, <1>12
  <2>3. ~(k >= 1 + h)
    <3>1. h \in 2..4 /\ n \in Nat /\ m \in Nat BY <1>1, <1>5
    <3>2. k >= 1 + h => k - h \in 1..n BY ONLY <1>8, <3>1, k \in 1..m
    <3> QED BY <1>9, <1>11, <1>12, <3>2
  <2> QED BY <2>1, <2>2, <2>3
<1>13. h \in 1..m
  <2>1. PICK k \in 1..m : d[k].part = "blank" BY <1>1, <1>7 DEF Has
  <2> QED BY <1>12, <2>1
<1>14. Breaks(d) = {h}
  <2>1. h \in Breaks(d) BY <1>1, <1>9, <1>13 DEF Breaks
  <2>2. \A k \in Breaks(d) : k = h BY <1>1, <1>12 DEF Breaks
  <2> QED BY <2>1, <2>2
<1>15. m = h => n = 0
  <2> SUFFICES ASSUME m = h PROVE n = 0 OBVIOUS
  <2>1. Last(d).part = "blank" BY <1>1, <1>9, <1>13 DEF Last
  <2>2. sent[e].body = <<>> BY <1>7, <2>1
  <2> QED BY <1>4, <2>2
<1>16. IsRequest(Header(d)) /\ Parsed(Header(d)).req = e
  <2>1. PICK f \in 1..(m + 1) : HeaderTo(d, f) BY <1>1, HeaderOf
  <2>2. PICK y : y = Header(d) OBVIOUS
  <2>3. /\ y \in Seq(Tokens) /\ Len(y) = f - 1 /\ (f = m + 1 \/ f \in Breaks(d))
        /\ (\A b \in Breaks(d) : f <= b) /\ (\A k \in 1..(f - 1) : y[k] = d[k])
    BY <1>1, <2>1, <2>2 DEF HeaderTo
  <2>4. f = h
    <3>1. f <= h BY <1>14, <2>3
    <3>2. f # m + 1 BY ONLY <1>1, <1>5, <1>13, <3>1
    <3> QED BY <1>14, <2>3, <3>2
  <2>5. 1 \in 1..(f - 1) /\ 1 \in 1..m /\ \A k \in 1..(f - 1) : k \in 1..m
    BY ONLY <1>1, <1>5, <1>13, <2>4
  <2>6. y[1].part = "line" BY <1>9, <2>3, <2>5
  <2>7. Lines(y) # {}
    <3>1. 1 \in Lines(y) BY <2>3, <2>5, <2>6 DEF Lines, Units
    <3> QED BY <3>1
  <2>8. PICK p : p = LineIn(y) OBVIOUS
  <2>9. p \in 1..(f - 1) /\ \A k \in 1..(f - 1) : k < p => y[k].part \in Units
    BY <2>3, <2>7, <2>8, LineOf
  <2>10. p = 1
    <3>1. ~(1 < p) BY <2>5, <2>6, <2>9 DEF Units
    <3> QED BY ONLY <1>5, <2>4, <2>9, <3>1
  <2>11. IsRequest(y) BY <2>6, <2>7, <2>8, <2>10 DEF IsRequest
  <2>12. Parsed(y).req = e
    <3>1. y[1].req = e BY <1>9, <2>3, <2>5
    <3> QED BY <2>8, <2>10, <3>1 DEF Parsed
  <2> QED BY <2>2, <2>11, <2>12
<1>17. Bytes(sent[e].body) = n
  <2>1. "wide" \notin ToSet(sent[e].body) BY <1>7
  <2> QED BY <1>4, <1>10, <2>1, ByteCount
<1>18. CleanRead(sent, e, d, m)
  <2>1. h \in 2..4 /\ n \in Nat /\ h <= m /\ n <= Limit BY <1>1, <1>5, <1>7, <1>13, <1>17
  <2>2. \A u \in ToSet(sent[e].body) : u = "plain" BY <1>7
  <2> QED BY ONLY <1>4, <1>8, <1>14, <1>15, <1>16, <1>17, <2>1, <2>2 DEF CleanRead
<1> QED BY <1>2, <1>7, <1>18

-----------------------------------------------------------------------------
(* A request is handled that is later than those before.                   *)
LEMMA HandlesNext ==
  ASSUME StreamTypes, OnceInOrder, Intact, sent' = sent,
         NEW r \in [req : 1..Len(sent), keep : BOOLEAN, sized : BOOLEAN, length : Nat],
         NEW b \in Seq(Tokens), Handle(r, b),
         \A h \in 1..Len(handled) : handled[h].req < r.req,
         "wide" \notin ToSet(sent[r.req].body) => b = <<>> \/ b = Body(r.req)
  PROVE  /\ handled' \in Seq([req : 1..Len(sent), body : Seq(Tokens)])
         /\ Len(handled) \in Nat /\ Len(handled') = Len(handled) + 1
         /\ handled'[Len(handled) + 1] = [req |-> r.req, body |-> b]
         /\ \A h \in 1..Len(handled) : handled'[h] = handled[h]
         /\ OnceInOrder' /\ Intact'
         /\ at' \in {"idle", "closed"} /\ body' = <<>>
<1>1. PICK g, f, c : g = handled /\ f = handled' /\ c = [req |-> r.req, body |-> b] OBVIOUS
<1>2. g \in Seq([req : 1..Len(sent), body : Seq(Tokens)]) /\ c \in [req : 1..Len(sent), body : Seq(Tokens)]
      /\ f = Append(g, c)
  BY <1>1 DEF StreamTypes, Handle
<1>3. /\ f \in Seq([req : 1..Len(sent), body : Seq(Tokens)]) /\ Len(g) \in Nat
      /\ Len(f) = Len(g) + 1 /\ f[Len(g) + 1] = c /\ \A h \in 1..Len(g) : f[h] = g[h]
  BY ONLY <1>2, AppendProperties, LenProperties
<1>4. \A h \in 1..Len(f) : h \in 1..Len(g) \/ h = Len(g) + 1 BY ONLY <1>3
<1>5. OnceInOrder'
  <2> SUFFICES ASSUME NEW j \in 1..Len(f), NEW k \in 1..Len(f), j < k
               PROVE  f[j].req < f[k].req
    BY <1>1 DEF OnceInOrder
  <2>1. j \in 1..Len(g) BY ONLY <1>3, j \in 1..Len(f), k \in 1..Len(f), j < k
  <2>2. CASE k \in 1..Len(g)
    <3>1. g[j].req < g[k].req BY <1>1, <2>1, <2>2 DEF OnceInOrder
    <3> QED BY <1>3, <2>1, <2>2, <3>1
  <2>3. CASE k = Len(g) + 1
    <3>1. g[j].req < r.req BY <1>1, <2>1
    <3> QED BY <1>1, <1>3, <2>1, <2>3, <3>1
  <2> QED BY <1>4, <2>2, <2>3
<1>6. Intact'
  <2> SUFFICES ASSUME NEW h \in 1..Len(f), "wide" \notin ToSet(sent[f[h].req].body)
               PROVE  f[h].body = <<>> \/ f[h].body = Letters(f[h].req, sent[f[h].req])
    BY <1>1 DEF Intact, Body
  <2>1. CASE h \in 1..Len(g)
    <3>1. f[h] = g[h] BY <1>3, <2>1
    <3> QED BY <1>1, <2>1, <3>1 DEF Intact, Body
  <2>2. CASE h = Len(g) + 1
    <3>1. f[h].req = r.req /\ f[h].body = b BY <1>1, <1>3, <2>2
    <3> QED BY <3>1 DEF Body
  <2> QED BY <1>4, <2>1, <2>2
<1>7. at' \in {"idle", "closed"} /\ body' = <<>> BY DEF Handle
<1> QED BY <1>1, <1>3, <1>5, <1>6, <1>7

(* What is ahead once b tokens are done with.                              *)
LEMMA LaterStill ==
  ASSUME StreamTypes, NEW s \in Seq(Tokens), NEW st, Laid(s, sent, st), Later(st), sent' = sent,
         NEW b \in Nat, NEW st2, \A i \in 1..(Len(sent) + 1) : st2[i] = st[i] - b,
         \/ handled' = handled
         \/ /\ Len(handled) \in Nat /\ Len(handled') = Len(handled) + 1
            /\ \A h \in 1..Len(handled) : handled'[h] = handled[h]
            /\ handled'[Len(handled) + 1].req \in 1..Len(sent)
            /\ st[handled'[Len(handled) + 1].req] - b < 1
  PROVE  Later(st2)'
<1>1. PICK g, f : g = handled /\ f = handled' OBVIOUS
<1>2. Len(sent) \in Nat /\ \A i \in 1..Len(sent) : i \in 1..(Len(sent) + 1) /\ st[i] \in Int
  <2>1. sent \in Seq(Kinds) /\ Len(sent) \in Nat BY LenProperties DEF StreamTypes
  <2>2. \A i \in 1..(Len(sent) + 1) : st[i] \in Int BY <2>1, Marks
  <2> QED BY <2>1, <2>2
<1>3. ASSUME NEW h \in 1..Len(f), NEW i \in 1..Len(sent), st2[i] >= 1
      PROVE  f[h].req < i
  <2>1. PICK x : x = st[i] OBVIOUS
  <2>2. x \in Int /\ x - b >= 1 BY <1>2, <1>3, <2>1
  <2>3. st[i] >= 1 BY ONLY <2>1, <2>2, b \in Nat
  <2>4. \A j \in 1..Len(g) : g[j].req < i BY <1>1, <2>3 DEF Later
  <2>5. CASE h \in 1..Len(g) /\ f[h] = g[h] BY <2>4, <2>5
  <2>6. CASE ~(h \in 1..Len(g) /\ f[h] = g[h])
    <3>1. f # g BY <2>6
    <3>2. /\ Len(g) \in Nat /\ Len(f) = Len(g) + 1 /\ \A j \in 1..Len(g) : f[j] = g[j]
          /\ f[Len(g) + 1].req \in 1..Len(sent) /\ st[f[Len(g) + 1].req] - b < 1
      BY <1>1, <3>1
    <3>3. h = Len(g) + 1
      <4>1. h \notin 1..Len(g) BY <2>6, <3>2
      <4> QED BY ONLY <3>2, <4>1, h \in 1..Len(f)
    <3>4. PICK j, y : j = f[h].req /\ y = st[j] OBVIOUS
    <3>5. j \in 1..Len(sent) /\ y \in Int /\ y - b < 1 BY <1>2, <3>2, <3>3, <3>4
    <3>6. y < x BY ONLY <2>2, <3>5, b \in Nat
    <3>7. j < i
      <4>1. sent \in Seq(Kinds) BY DEF StreamTypes
      <4>2. i \in 1..(Len(sent) + 1) /\ j \in 1..(Len(sent) + 1) BY <1>2, <3>5
      <4> QED BY <2>1, <3>4, <3>6, <4>1, <4>2, Marks
    <3> QED BY <3>4, <3>7
  <2> QED BY <2>5, <2>6
<1> QED BY <1>1, <1>3 DEF Later

-----------------------------------------------------------------------------
Requests == [req : 1..Len(sent), keep : BOOLEAN, sized : BOOLEAN, length : Nat]

(* The stream behind what is done with is still laid out.                  *)
LEMMA Onward ==
  ASSUME sent \in Seq(Kinds), NEW s \in Seq(Tokens), NEW st, Laid(s, sent, st),
         NEW b \in 0..Len(s), NEW t, RunOn(s, t, b)
  PROVE  \E st2 \in [1..(Len(sent) + 1) -> Int] :
           Laid(t, sent, st2) /\ \A i \in 1..(Len(sent) + 1) : st2[i] = st[i] - b
<1>1. t \in Seq(Tokens) /\ Len(t) = Len(s) - b /\ \A k \in 1..Len(t) : t[k] = s[k + b] BY DEF RunOn
<1>2. PICK st2 : st2 = Moved(st, b) OBVIOUS
<1>3. Laid(t, sent, st2) /\ \A i \in 1..(Len(sent) + 1) : st2[i] = st[i] - b
  BY <1>1, <1>2, LaidLess
<1> QED BY <1>3 DEF Laid

(* Request r is handled with body hb, and b tokens of the stream with it.  *)
LEMMA HandledThen ==
  ASSUME StreamTypes, OnceInOrder, Intact, NEW st, InStep(st), sent' = sent,
         NEW r \in Requests, NEW hb \in Seq(Tokens), Handle(r, hb),
         "wide" \notin ToSet(sent[r.req].body) => hb = <<>> \/ hb = Body(r.req),
         \A h \in 1..Len(handled) : handled[h].req < r.req,
         Ahead \in Seq(Tokens), NEW b \in 0..Len(Ahead), RunOn(Ahead, Ahead', b), st[r.req] - b < 1,
         buffer' \in Seq(Tokens), wire' \in Seq(Tokens), split' \in BOOLEAN,
         ~split' => /\ ~split /\ buffer' = <<>> /\ r.req = Len(handled) + 1
                    /\ hb = Body(r.req) /\ st[r.req + 1] - b = 1
  PROVE  StreamInv'
<1>0. sent \in Seq(Kinds) /\ b \in Nat /\ Len(sent) \in Nat /\ r.req \in 1..Len(sent)
  <2>1. sent \in Seq(Kinds) BY DEF StreamTypes
  <2>2. Len(sent) \in Nat /\ Len(Ahead) \in Nat BY <2>1, LenProperties
  <2>3. r.req \in 1..Len(sent) BY DEF Requests
  <2>4. b \in Nat BY ONLY <2>2, b \in 0..Len(Ahead)
  <2> QED BY <2>1, <2>2, <2>3, <2>4
<1>1. Laid(Ahead, sent, st) /\ Later(st) /\ OneByOne(st) BY DEF InStep
<1>2. /\ handled' \in Seq([req : 1..Len(sent), body : Seq(Tokens)])
      /\ Len(handled) \in Nat /\ Len(handled') = Len(handled) + 1
      /\ handled'[Len(handled) + 1] = [req |-> r.req, body |-> hb]
      /\ \A h \in 1..Len(handled) : handled'[h] = handled[h]
      /\ OnceInOrder' /\ Intact'
      /\ at' \in {"idle", "closed"} /\ body' = <<>>
  BY HandlesNext DEF Requests
<1>3. PICK st2 \in [1..(Len(sent) + 1) -> Int] :
        Laid(Ahead', sent, st2) /\ \A i \in 1..(Len(sent) + 1) : st2[i] = st[i] - b
  <2>1. PICK s, t : s = Ahead /\ t = Ahead' OBVIOUS
  <2>2. \E z \in [1..(Len(sent) + 1) -> Int] :
          Laid(t, sent, z) /\ \A i \in 1..(Len(sent) + 1) : z[i] = st[i] - b
    <3>1. s \in Seq(Tokens) /\ Laid(s, sent, st) /\ b \in 0..Len(s) /\ RunOn(s, t, b) BY <1>1, <2>1
    <3>2. sent \in Seq(Kinds) BY <1>0
    <3> QED BY ONLY <3>1, <3>2, Onward
  <2> QED BY <2>1, <2>2
<1>4. Later(st2)'
  <2>1. PICK s : s = Ahead OBVIOUS
  <2>2. s \in Seq(Tokens) /\ Laid(s, sent, st) BY <1>1, <2>1
  <2>3. handled'[Len(handled) + 1].req = r.req BY <1>2
  <2>4. /\ Len(handled) \in Nat /\ Len(handled') = Len(handled) + 1
        /\ \A h \in 1..Len(handled) : handled'[h] = handled[h]
        /\ handled'[Len(handled) + 1].req \in 1..Len(sent)
        /\ st[handled'[Len(handled) + 1].req] - b < 1
    BY <1>0, <1>2, <2>3
  <2>5. StreamTypes /\ Later(st) /\ sent' = sent /\ b \in Nat
        /\ \A i \in 1..(Len(sent) + 1) : st2[i] = st[i] - b
    BY <1>0, <1>1, <1>3
  <2> QED BY ONLY <2>2, <2>4, <2>5, LaterStill
<1>5. AtBody(st2)' BY <1>2 DEF AtBody
<1>6. OneByOne(st2)'
  <2> SUFFICES ASSUME ~split'
               PROVE  /\ buffer' = <<>>
                      /\ Len(handled') <= Len(sent')
                      /\ \A j \in 1..Len(handled') : handled'[j] = [req |-> j, body |-> Letters(j, sent'[j])]
                      /\ at' = "idle" => st2[Len(handled') + 1] = 1
    BY <1>2 DEF OneByOne, Body
  <2>1. /\ ~split /\ buffer' = <<>> /\ r.req = Len(handled) + 1
        /\ hb = Letters(r.req, sent[r.req]) /\ st[r.req + 1] - b = 1
    BY DEF Body
  <2>2. \A j \in 1..Len(handled) : handled[j] = [req |-> j, body |-> Letters(j, sent[j])]
    BY <1>1, <2>1 DEF OneByOne, Body
  <2>3. Len(handled') <= Len(sent') BY <1>0, <1>2, <2>1
  <2>4. ASSUME NEW j \in 1..Len(handled')
        PROVE  handled'[j] = [req |-> j, body |-> Letters(j, sent'[j])]
    <3>1. j \in 1..Len(handled) \/ j = Len(handled) + 1 BY ONLY <1>2, j \in 1..Len(handled')
    <3>2. CASE j \in 1..Len(handled) BY <1>2, <2>2, <3>2
    <3>3. CASE j = Len(handled) + 1 BY <1>2, <2>1, <3>3
    <3> QED BY <3>1, <3>2, <3>3
  <2>5. st2[Len(handled') + 1] = 1
    <3>1. r.req + 1 \in 1..(Len(sent) + 1) BY <1>0
    <3> QED BY <1>2, <1>3, <2>1, <3>1
  <2> QED BY <2>1, <2>3, <2>4, <2>5
<1>7. StreamTypes'
  <2>1. body' \in Seq(Tokens) BY <1>2
  <2> QED BY <1>0, <1>2, <2>1 DEF StreamTypes
<1>8. InStep(st2)' BY <1>3, <1>4, <1>5, <1>6 DEF InStep
<1> QED BY <1>2, <1>3, <1>7, <1>8 DEF StreamInv

-----------------------------------------------------------------------------
Halves(s, a, b) ==
  /\ s \in Seq(Tokens) /\ a \in Seq(Tokens) /\ b \in Seq(Tokens)
  /\ Len(a) \in Nat /\ Len(b) \in Nat /\ Len(s) = Len(a) + Len(b)
  /\ \A k \in 1..Len(a) : s[k] = a[k]
  /\ \A k \in 1..Len(b) : s[Len(a) + k] = b[k]

(* What is ahead is a sequence of tokens; n more of them arrive.           *)
LEMMA Arrived ==
  ASSUME NEW a \in Seq(Tokens), NEW b \in Seq(Tokens), NEW w \in Seq(Tokens), NEW n \in 1..Len(w),
         NEW s, s = a \o b \o w, NEW all, all = a \o b \o SubSeq(w, 1, n),
         NEW w2, w2 = SubSeq(w, n + 1, Len(w))
  PROVE  Halves(s, all, w2) /\ Len(all) >= 1
<1>1. PICK c : c = SubSeq(w, 1, n) OBVIOUS
<1>2. Len(w) \in Nat /\ Len(a) \in Nat /\ Len(b) \in Nat BY LenProperties
<1>3. n \in 0..Len(w) BY ONLY <1>2, n \in 1..Len(w)
<1>4. /\ c \in Seq(Tokens) /\ Len(c) = n /\ \A k \in 1..n : c[k] = w[k]
      /\ w2 \in Seq(Tokens) /\ Len(w2) = Len(w) - n /\ \A k \in 1..Len(w2) : w2[k] = w[k + n]
  BY ONLY <1>1, <1>3, CutAt, w \in Seq(Tokens), w2 = SubSeq(w, n + 1, Len(w))
<1>5. Parts(s, a, b, w) /\ Parts(all, a, b, c) BY <1>1, <1>4, Joined
<1>6. PICK x, y, z, o : x = Len(a) /\ y = Len(b) /\ z = Len(w) /\ o = Len(w2) OBVIOUS
<1>7. /\ x \in Nat /\ y \in Nat /\ z \in Nat /\ n \in 1..z /\ o = z - n
      /\ s \in Seq(Tokens) /\ all \in Seq(Tokens)
      /\ Len(s) = x + y + z /\ Len(all) = x + y + n
  BY <1>2, <1>4, <1>5, <1>6 DEF Parts
<1>8. /\ Len(all) \in Nat /\ Len(all) >= 1 /\ o \in Nat /\ Len(s) = Len(all) + o BY ONLY <1>7
<1>9. ASSUME NEW k \in 1..Len(all) PROVE s[k] = all[k]
  <2>0. k \in 1..(x + y + n) BY <1>7
  <2>1. CASE k \in 1..x BY <1>5, <1>6, <2>1 DEF Parts
  <2>2. CASE k \in (x + 1)..(x + y)
    <3>1. PICK j : j = k - x OBVIOUS
    <3>2. j \in 1..y /\ x + j = k BY ONLY <1>7, <2>2, <3>1
    <3>3. s[x + j] = b[j] /\ all[x + j] = b[j] BY <1>5, <1>6, <3>2 DEF Parts
    <3> QED BY <3>2, <3>3
  <2>3. CASE k \in (x + y + 1)..(x + y + n)
    <3>1. PICK j : j = k - x - y OBVIOUS
    <3>2. j \in 1..n /\ j \in 1..z /\ x + y + j = k BY ONLY <1>7, <2>3, <3>1
    <3>3. s[x + y + j] = w[j] /\ all[x + y + j] = c[j] BY <1>4, <1>5, <1>6, <3>2 DEF Parts
    <3> QED BY <1>4, <3>2, <3>3
  <2> QED BY ONLY <1>7, <2>0, <2>1, <2>2, <2>3
<1>10. ASSUME NEW k \in 1..o PROVE s[Len(all) + k] = w2[k]
  <2>1. PICK j : j = k + n OBVIOUS
  <2>2. j \in 1..z /\ x + y + j = Len(all) + k BY ONLY <1>7, <2>1, k \in 1..o
  <2>3. s[x + y + j] = w[j] BY <1>5, <1>6, <2>2 DEF Parts
  <2>4. w2[k] = w[k + n] BY <1>4, <1>6
  <2> QED BY <2>1, <2>2, <2>3, <2>4
<1> QED BY <1>4, <1>6, <1>7, <1>8, <1>9, <1>10 DEF Halves

(* What read() takes of it and what it leaves.                             *)
LEMMA TakenLeft ==
  ASSUME NEW all \in Seq(Tokens), Len(all) >= 1, NEW d, d = Taken(all), NEW l, l = Left(all)
  PROVE  Halves(all, d, l) /\ Len(d) >= 1
<1>1. PICK z, m : z = Len(all) /\ m = Min({Limit, z}) OBVIOUS
<1>2. z \in Nat /\ z >= 1 /\ Limit \in Nat /\ Limit >= 1
  <2>1. z \in Nat /\ z >= 1 BY <1>1, LenProperties
  <2>2. Limit \in Nat \ {0} BY StreamAssumption
  <2> QED BY <2>1, <2>2
<1>3. m \in {Limit, z} /\ m <= Limit /\ m <= z
  <2>1. PICK S : S = {Limit, z} OBVIOUS
  <2>2. S \subseteq Nat /\ S # {} BY <1>2, <2>1
  <2>3. Min(S) \in S /\ \A y \in S : Min(S) <= y BY ONLY <2>2, LeastOf
  <2> QED BY <1>1, <2>1, <2>3
<1>4. m \in 0..z /\ m \in 1..z BY <1>2, <1>3
<1>5. PICK e : e = SubSeq(all, m + 1, Len(all)) OBVIOUS
<1>6. d = SubSeq(all, 1, m) BY <1>1 DEF Taken
<1>7. /\ d \in Seq(Tokens) /\ Len(d) = m /\ \A k \in 1..m : d[k] = all[k]
      /\ e \in Seq(Tokens) /\ Len(e) = z - m /\ \A k \in 1..Len(e) : e[k] = all[k + m]
  <2>1. m \in 0..Len(all) BY <1>1, <1>4
  <2>2. /\ d \in Seq(Tokens) /\ Len(d) = m /\ \A k \in 1..m : d[k] = all[k]
        /\ e \in Seq(Tokens) /\ Len(e) = Len(all) - m /\ \A k \in 1..Len(e) : e[k] = all[k + m]
    BY ONLY <1>5, <1>6, <2>1, CutAt, all \in Seq(Tokens)
  <2> QED BY <1>1, <2>2
<1>8. l = e
  <2>1. CASE m = Limit BY <1>1, <1>5, <2>1 DEF Left
  <2>2. CASE m = z
    <3>1. PICK x, y : x = Limit + 1 /\ y = m + 1 OBVIOUS
    <3>2. x \in Int /\ y \in Int /\ z \in Int /\ z < x /\ z < y BY <1>2, <1>3, <2>2, <3>1
    <3>3. SubSeq(all, x, z) = <<>> /\ SubSeq(all, y, z) = <<>> BY ONLY <3>2, SubSeqEmpty
    <3> QED BY <1>1, <1>5, <3>1, <3>3 DEF Left
  <2> QED BY <1>3, <2>1, <2>2
<1>9. z = m + (z - m) /\ z - m \in Nat /\ \A k \in 1..(z - m) : m + k = k + m BY ONLY <1>2, <1>4
<1>10. /\ l \in Seq(Tokens) /\ Len(l) = z - m /\ Len(l) \in Nat /\ Len(all) = Len(d) + Len(l)
       /\ Len(d) \in Nat /\ Len(d) >= 1
  <2>1. Len(d) = m /\ Len(l) = z - m /\ l \in Seq(Tokens) BY <1>7, <1>8
  <2>2. m \in Nat /\ m >= 1 BY ONLY <1>2, <1>4
  <2> QED BY <1>1, <1>9, <2>1, <2>2
<1>11. \A k \in 1..Len(l) : all[Len(d) + k] = l[k] BY <1>7, <1>8, <1>9
<1>12. \A k \in 1..Len(d) : all[k] = d[k] BY <1>7
<1> QED BY ONLY <1>7, <1>10, <1>11, <1>12, all \in Seq(Tokens) DEF Halves

(* All of it together, as readyRead() finds it.                            *)
LEMMA Reading ==
  ASSUME NEW b \in Seq(Tokens), NEW w \in Seq(Tokens), NEW n \in 1..Len(w),
         NEW s, s = <<>> \o b \o w, NEW all, all = b \o SubSeq(w, 1, n),
         NEW w2, w2 = SubSeq(w, n + 1, Len(w)), NEW d, d = Taken(all), NEW l, l = Left(all)
  PROVE  /\ s \in Seq(Tokens) /\ Parts(s, d, l, w2) /\ Len(d) \in 1..Len(s)
         /\ Start(s, d, Len(d)) /\ (d = all => l = <<>>)
<1>1. PICK c : c = SubSeq(w, 1, n) OBVIOUS
<1>2. c \in Seq(Tokens)
  <2>1. n \in 0..Len(w) BY LenProperties
  <2> QED BY ONLY <1>1, <2>1, CutAt, w \in Seq(Tokens)
<1>3. PICK a : a = <<>> OBVIOUS
<1>4. a \in Seq(Tokens) /\ a \o b = b BY <1>3, ConcatEmptySeq
<1>5. s = a \o b \o w /\ all = a \o b \o SubSeq(w, 1, n) BY <1>3, <1>4
<1>6. Halves(s, all, w2) /\ Len(all) >= 1 BY <1>4, <1>5, Arrived
<1>7. Halves(all, d, l) /\ Len(d) >= 1
  <2>1. all \in Seq(Tokens) BY <1>6 DEF Halves
  <2> QED BY <1>6, <2>1, TakenLeft
<1>8. PICK x, y, z, o : x = Len(d) /\ y = Len(l) /\ z = Len(all) /\ o = Len(w2) OBVIOUS
<1>9. x \in 1..z /\ z = x + y /\ z \in Nat /\ y \in Nat /\ o \in Nat /\ Len(s) = z + o
  <2>1. x \in Nat /\ x >= 1 /\ y \in Nat /\ z \in Nat /\ o \in Nat BY <1>6, <1>7, <1>8 DEF Halves
  <2>2. z = x + y /\ Len(s) = z + o BY <1>6, <1>7, <1>8 DEF Halves
  <2> QED BY ONLY <2>1, <2>2
<1>10. Len(s) = x + y + o /\ x \in 1..Len(s) /\ x \in Nat BY ONLY <1>9
<1>11. ASSUME NEW k \in 1..x PROVE s[k] = d[k]
  <2>1. k \in 1..z BY ONLY <1>9, k \in 1..x
  <2> QED BY <1>6, <1>7, <1>8, <2>1 DEF Halves
<1>12. ASSUME NEW k \in 1..y PROVE s[x + k] = l[k]
  <2>1. x + k \in 1..z BY ONLY <1>9, k \in 1..y
  <2> QED BY <1>6, <1>7, <1>8, <2>1 DEF Halves
<1>13. ASSUME NEW k \in 1..o PROVE s[x + y + k] = w2[k]
  <2>1. s[z + k] = w2[k] BY <1>6, <1>8 DEF Halves
  <2>2. z = x + y BY <1>9
  <2> QED BY <2>1, <2>2
<1>14. Parts(s, d, l, w2) BY <1>6, <1>7, <1>8, <1>10, <1>11, <1>12, <1>13 DEF Parts, Halves
<1>15. Start(s, d, Len(d)) BY <1>7, <1>8, <1>11 DEF Start, Halves
<1>16. d = all => l = <<>>
  <2>1. d = all => y = 0 BY <1>8, <1>9
  <2> QED BY <1>7, <1>8, <2>1 DEF Halves
<1> QED BY <1>6, <1>8, <1>10, <1>14, <1>15, <1>16 DEF Halves

-----------------------------------------------------------------------------
(* The steps.                                                              *)
LEMMA AheadSeq ==
  ASSUME StreamTypes
  PROVE  Ahead \in Seq(Tokens) /\ Parts(Ahead, body, buffer, wire)
<1>1. body \in Seq(Tokens) /\ buffer \in Seq(Tokens) /\ wire \in Seq(Tokens) BY DEF StreamTypes
<1>2. Parts(body \o buffer \o wire, body, buffer, wire) BY ONLY <1>1, Joined
<1> QED BY <1>2 DEF Ahead, Parts

LEMMA WaitFailsStep ==
  ASSUME StreamInv, WaitFails
  PROVE  StreamInv'
<1>1. PICK st \in [1..(Len(sent) + 1) -> Int] : InStep(st) BY DEF StreamInv
<1>2. StreamTypes /\ OnceInOrder /\ Intact BY DEF StreamInv
<1>3. /\ at = "waiting" /\ split' = TRUE /\ Handle(request, <<>>)
      /\ sent' = sent /\ wire' = wire /\ buffer' = buffer
  BY DEF WaitFails
<1>4. request \in Requests BY <1>2, <1>3 DEF StreamTypes, Requests
<1>5. /\ st[request.req] + Len(Top(request.req, sent[request.req])) = 1
      /\ \A h \in 1..Len(handled) : handled[h].req < request.req
      /\ Laid(Ahead, sent, st)
  BY <1>1, <1>3 DEF InStep, AtBody
<1>6. Ahead \in Seq(Tokens) /\ Parts(Ahead, body, buffer, wire) BY <1>2, AheadSeq
<1>7. body' = <<>> BY <1>3 DEF Handle
<1>8. PICK b, s, t, x : b = Len(body) /\ s = Ahead /\ t = Ahead' /\ x = <<>> OBVIOUS
<1>9. b \in 0..Len(body) /\ RunOn(body, x, b) /\ b \in Nat
  <2>1. Len(body) \in Nat /\ x \in Seq(Tokens) /\ Len(x) = 0 
    BY <1>2, <1>8, LenProperties, EmptySeq DEF StreamTypes
  <2>2. Len(x) = Len(body) - b /\ b \in 0..Len(body) /\ b \in Nat BY <1>8, <2>1
  <2> QED BY <2>1, <2>2 DEF RunOn
<1>10. RunOn(s, t, b) /\ b \in 0..Len(s)
  <2>1. t = x \o buffer \o wire BY <1>3, <1>7, <1>8 DEF Ahead
  <2>2. Parts(s, body, buffer, wire) BY <1>6, <1>8
  <2> QED BY ONLY <1>9, <2>1, <2>2, Remains
<1>11. st[request.req] - b < 1
  <2>1. request.req \in 1..Len(sent) /\ sent \in Seq(Kinds) BY <1>2, <1>4 DEF Requests, StreamTypes
  <2>2. PICK i : i = request.req OBVIOUS
  <2>3. Block(s, sent, st, i) BY <1>5, <1>6, <1>8, <2>1, <2>2, BlockOf
  <2>4. PICK h, u : h = Len(Top(i, sent[i])) /\ u = st[i] OBVIOUS
  <2>5. h \in 2..4 /\ u \in Int /\ u + h = 1 BY <1>5, <2>2, <2>3, <2>4 DEF Block
  <2>6. u - b < 1 BY ONLY <1>9, <2>5
  <2> QED BY <2>2, <2>4, <2>6
<1>12. buffer' \in Seq(Tokens) /\ wire' \in Seq(Tokens) /\ <<>> \in Seq(Tokens) BY <1>2, <1>3 DEF StreamTypes
<1>13. b \in 0..Len(Ahead) /\ RunOn(Ahead, Ahead', b) BY <1>8, <1>10
<1>14. split' \in BOOLEAN /\ ~(~split') BY <1>3
<1> QED BY ONLY <1>1, <1>2, <1>3, <1>4, <1>5, <1>6, <1>11, <1>12, <1>13, <1>14, HandledThen

LEMMA ClosedStep ==
  ASSUME StreamInv, ClosedByInterval
  PROVE  StreamInv'
<1>1. PICK st \in [1..(Len(sent) + 1) -> Int] : InStep(st) BY DEF StreamInv
<1>2. /\ at = "idle" /\ at' = "closed" /\ sent' = sent /\ wire' = wire /\ buffer' = buffer
      /\ request' = request /\ body' = body /\ handled' = handled /\ split' = split
  BY DEF ClosedByInterval
<1>3. StreamTypes' /\ OnceInOrder' /\ Intact'
  BY <1>2 DEF StreamInv, StreamTypes, OnceInOrder, Intact, Body
<1>4. Ahead' = Ahead BY <1>2 DEF Ahead
<1>5. Later(st)' BY <1>1, <1>2 DEF InStep, Later
<1>6. AtBody(st)' BY <1>2 DEF AtBody
<1>7. OneByOne(st)' BY <1>1, <1>2 DEF InStep, OneByOne, Body
<1>8. InStep(st)' BY <1>1, <1>2, <1>4, <1>5, <1>6, <1>7 DEF InStep
<1> QED BY <1>2, <1>3, <1>8 DEF StreamInv

LEMMA SendStep ==
  ASSUME StreamInv, NEW kind \in Kinds, Send(kind)
  PROVE  StreamInv'
<1>1. PICK st \in [1..(Len(sent) + 1) -> Int] : InStep(st) BY DEF StreamInv
<1>2. /\ sent' = Append(sent, kind) /\ wire' = wire \o Text(Len(sent) + 1, kind)
      /\ at' = at /\ buffer' = buffer
      /\ request' = request /\ body' = body /\ handled' = handled /\ split' = split
  BY DEF Send
<1>3. StreamTypes /\ OnceInOrder /\ Intact /\ sent \in Seq(Kinds) /\ Len(sent) \in Nat
  <2>1. StreamTypes /\ sent \in Seq(Kinds) BY DEF StreamInv, StreamTypes
  <2> QED BY <2>1, LenProperties DEF StreamInv
<1>4. Ahead \in Seq(Tokens) /\ body \in Seq(Tokens) /\ buffer \in Seq(Tokens) /\ wire \in Seq(Tokens)
  BY <1>3, AheadSeq DEF StreamTypes
<1>5. PICK t, s, s2, q2, st2 : /\ t = Text(Len(sent) + 1, kind) /\ s = Ahead /\ s2 = s \o t
                               /\ q2 = Append(sent, kind) /\ st2 = Lengthened(st, sent, Len(s2))
  OBVIOUS
<1>6. Laid(s, sent, st) /\ Later(st) /\ AtBody(st) /\ OneByOne(st) /\ s \in Seq(Tokens)
  BY <1>1, <1>4, <1>5 DEF InStep
<1>7. /\ q2 \in Seq(Kinds) /\ Len(q2) = Len(sent) + 1 /\ q2[Len(sent) + 1] = kind
      /\ \A i \in 1..Len(sent) : q2[i] = sent[i]
      /\ Laid(s2, q2, st2)
      /\ \A i \in 1..(Len(sent) + 1) : st2[i] = st[i]
  <2>1. Grown(sent, kind, st, q2, s2, st2) BY <1>3, <1>5, <1>6, LaidMore
  <2> QED BY <2>1 DEF Grown
<1>8. t \in Seq(Tokens)
  <2>1. PICK i : i = Len(sent) + 1 OBVIOUS
  <2>2. i \in Nat BY <1>3, <2>1
  <2>3. Texted(Text(i, kind), i, kind) BY <2>2, TextShape
  <2> QED BY <1>5, <2>1, <2>3 DEF Texted
<1>9. Ahead' = s2
  <2>1. PICK p : p = body \o buffer OBVIOUS
  <2>2. p \in Seq(Tokens) BY <1>4, <2>1, ConcatProperties
  <2>3. p \o (wire \o t) = (p \o wire) \o t 
    <3>1. wire \in Seq(Tokens) /\ t \in Seq(Tokens) BY <1>4, <1>8
    <3>2. PICK w : w = wire OBVIOUS
    <3>3. p \o (w \o t) = (p \o w) \o t BY ONLY <2>2, <3>1, <3>2, ConcatAssociative
    <3> QED BY <3>2, <3>3
  <2> QED BY <1>2, <1>5, <2>1, <2>3 DEF Ahead
<1>10. \A i \in 1..Len(sent) : i \in 1..(Len(sent) + 1) /\ i \in 1..Len(q2) BY ONLY <1>3, <1>7
<1>11. handled \in Seq([req : 1..Len(sent), body : Seq(Tokens)]) /\ DOMAIN handled = 1..Len(handled)
       /\ \A h \in 1..Len(handled) : handled[h].req \in 1..Len(sent) /\ handled[h].body \in Seq(Tokens)
  <2>1. handled \in Seq([req : 1..Len(sent), body : Seq(Tokens)]) BY <1>3 DEF StreamTypes
  <2>2. \A h \in 1..Len(handled) : handled[h] \in [req : 1..Len(sent), body : Seq(Tokens)]
    BY <2>1, ElementOfSeq
  <2> QED BY <2>1, <2>2, LenProperties
<1>12. StreamTypes'
  <2>1. [req : 1..Len(sent), body : Seq(Tokens)] \subseteq [req : 1..Len(q2), body : Seq(Tokens)]
    BY <1>10
  <2>2. handled \in Seq([req : 1..Len(q2), body : Seq(Tokens)]) BY <1>11, <2>1, SeqMonotonic
  <2>3. wire' \in Seq(Tokens) BY <1>2, <1>4, <1>5, <1>8, ConcatProperties
  <2>4. at = "waiting" => request \in [req : 1..Len(q2), keep : BOOLEAN, sized : BOOLEAN, length : Nat]
    BY <1>3, <1>10 DEF StreamTypes
  <2> QED BY <1>2, <1>3, <1>5, <1>7, <2>2, <2>3, <2>4 DEF StreamTypes
<1>13. OnceInOrder' BY <1>2, <1>3 DEF OnceInOrder
<1>14. Intact' BY <1>2, <1>3, <1>5, <1>7, <1>11 DEF Intact, Body
<1>15. Later(st2)'
  <2> SUFFICES ASSUME NEW h \in 1..Len(handled), NEW i \in 1..Len(q2), st2[i] >= 1
               PROVE  handled[h].req < i
    BY <1>2, <1>5 DEF Later
  <2>1. i \in 1..Len(sent) \/ i = Len(sent) + 1 BY ONLY <1>3, <1>7, i \in 1..Len(q2)
  <2>2. CASE i \in 1..Len(sent)
    <3>1. st[i] >= 1 BY <1>7, <1>10, <2>2
    <3> QED BY <1>6, <2>2, <3>1 DEF Later
  <2>3. CASE i = Len(sent) + 1
    <3>1. handled[h].req \in 1..Len(sent) BY <1>11
    <3> QED BY ONLY <1>3, <2>3, <3>1
  <2> QED BY <2>1, <2>2, <2>3
<1>16. AtBody(st2)'
  <2> SUFFICES ASSUME at = "waiting"
               PROVE  /\ st2[request.req] + Len(Top(request.req, q2[request.req])) = 1
                      /\ request.length = Bytes(q2[request.req].body)
                      /\ \A h \in 1..Len(handled) : handled[h].req < request.req
    BY <1>2, <1>5 DEF AtBody
  <2>1. request.req \in 1..Len(sent) BY <1>3 DEF StreamTypes
  <2>2. st2[request.req] = st[request.req] /\ q2[request.req] = sent[request.req] BY <1>7, <1>10, <2>1
  <2> QED BY <1>6, <2>2 DEF AtBody
<1>17. OneByOne(st2)'
  <2> SUFFICES ASSUME ~split
               PROVE  /\ buffer = <<>>
                      /\ Len(handled) <= Len(q2)
                      /\ \A j \in 1..Len(handled) : handled[j] = [req |-> j, body |-> Letters(j, q2[j])]
                      /\ at = "idle" => st2[Len(handled) + 1] = 1
                      /\ at = "waiting" =>
                           /\ request.req = Len(handled) + 1 /\ Len(body) < request.length
                           /\ \A u \in ToSet(q2[request.req].body) : u = "plain"
    BY <1>2, <1>5 DEF OneByOne, Body
  <2>1. /\ buffer = <<>> /\ Len(handled) <= Len(sent)
        /\ \A j \in 1..Len(handled) : handled[j] = [req |-> j, body |-> Letters(j, sent[j])]
        /\ at = "idle" => st[Len(handled) + 1] = 1
        /\ at = "waiting" =>
             /\ request.req = Len(handled) + 1 /\ Len(body) < request.length
             /\ \A u \in ToSet(sent[request.req].body) : u = "plain"
    BY <1>6 DEF OneByOne, Body
  <2>2. PICK n : n = Len(handled) OBVIOUS
  <2>3. n \in Nat /\ n <= Len(sent) BY <1>11, <2>1, <2>2, LenProperties
  <2>4. n <= Len(q2) /\ n + 1 \in 1..(Len(sent) + 1) /\ \A j \in 1..n : j \in 1..Len(sent)
    BY ONLY <1>3, <1>7, <2>3
  <2>5. \A j \in 1..Len(handled) : handled[j] = [req |-> j, body |-> Letters(j, q2[j])]
    BY <1>7, <2>1, <2>2, <2>4
  <2>6. at = "idle" => st2[Len(handled) + 1] = 1 BY <1>7, <2>1, <2>2, <2>4
  <2>7. at = "waiting" => q2[request.req] = sent[request.req] BY <1>3, <1>7 DEF StreamTypes
  <2> QED BY <2>1, <2>2, <2>4, <2>5, <2>6, <2>7
<1>18. InStep(st2)' BY <1>2, <1>5, <1>7, <1>9, <1>15, <1>16, <1>17 DEF InStep
<1>19. st2 \in [1..(Len(sent') + 1) -> Int] BY <1>2, <1>5, <1>7 DEF Laid
<1> QED BY <1>12, <1>13, <1>14, <1>18, <1>19 DEF StreamInv

(* More of the body arrives.                                               *)
LEMMA WaitForReadyReadStep ==
  ASSUME StreamInv, NEW n \in 1..Len(wire), WaitForReadyRead(n)
  PROVE  StreamInv'
<1>1. PICK st \in [1..(Len(sent) + 1) -> Int] : InStep(st) BY DEF StreamInv
<1>2. StreamTypes /\ OnceInOrder /\ Intact BY DEF StreamInv
<1>3. PICK all, s, t, w2 : /\ all = body \o buffer \o Chunk(n) /\ s = Ahead /\ t = Ahead'
                           /\ w2 = SubSeq(wire, n + 1, Len(wire))
  OBVIOUS
<1>4. /\ at = "waiting" /\ wire' = w2 /\ buffer' = <<>> /\ sent' = sent
      /\ split' = (split \/ \E u \in ToSet(all) : u.req # request.req)
      /\ \/ Len(all) > request.length /\ Handle(request, <<>>)
         \/ ~(Len(all) > request.length) /\ Len(all) >= request.length /\ Handle(request, all)
         \/ /\ Len(all) < request.length
            /\ body' = all /\ at' = at /\ request' = request /\ handled' = handled
  BY <1>3 DEF WaitForReadyRead, Arrive, TooLong
<1>5. request \in Requests /\ sent \in Seq(Kinds) /\ request.length \in Nat
      /\ request.req \in 1..Len(sent)
  BY <1>2, <1>4 DEF StreamTypes, Requests
<1>6. /\ st[request.req] + Len(Top(request.req, sent[request.req])) = 1
      /\ request.length = Bytes(sent[request.req].body)
      /\ \A h \in 1..Len(handled) : handled[h].req < request.req
      /\ Laid(s, sent, st) /\ Later(st) /\ OneByOne(st)
  BY <1>1, <1>3, <1>4 DEF InStep, AtBody
<1>7. Halves(s, all, w2) /\ Len(all) >= 1
  <2>1. body \in Seq(Tokens) /\ buffer \in Seq(Tokens) /\ wire \in Seq(Tokens) BY <1>2 DEF StreamTypes
  <2>2. PICK a, b, w : a = body /\ b = buffer /\ w = wire OBVIOUS
  <2>3. /\ a \in Seq(Tokens) /\ b \in Seq(Tokens) /\ w \in Seq(Tokens) /\ n \in 1..Len(w)
        /\ s = a \o b \o w /\ all = a \o b \o SubSeq(w, 1, n) /\ w2 = SubSeq(w, n + 1, Len(w))
    BY <1>3, <2>1, <2>2 DEF Ahead, Chunk
  <2> QED BY ONLY <2>3, Arrived
<1>8. PICK i, h, m, u, v, z, o : /\ i = request.req /\ h = Len(Top(i, sent[i]))
                                 /\ m = Len(sent[i].body) /\ u = st[i] /\ v = st[i + 1]
                                 /\ z = Len(all) /\ o = Len(w2)
  OBVIOUS
<1>9. /\ s \in Seq(Tokens) /\ all \in Seq(Tokens) /\ w2 \in Seq(Tokens)
      /\ z \in Nat /\ z >= 1 /\ o \in Nat /\ Len(s) = z + o
      /\ \A k \in 1..z : s[k] = all[k]
  BY <1>7, <1>8 DEF Halves
<1>10. Block(s, sent, st, i) BY <1>5, <1>6, <1>8, <1>9, BlockOf
<1>11. /\ h \in 2..4 /\ m \in Nat /\ u \in Int /\ v \in Int /\ u + h = 1 /\ v = m + 1
  <2>1. h \in 2..4 /\ m \in Nat /\ u \in Int /\ v \in Int /\ v = u + h + m
    BY <1>8, <1>10 DEF Block
  <2>2. u + h = 1 BY <1>6, <1>8
  <2> QED BY ONLY <2>1, <2>2
<1>12. sent[i].body \in Seq(Units) /\ sent[i] \in Kinds /\ i \in Nat /\ i + 1 \in 1..(Len(sent) + 1)
  BY <1>5, <1>8, KindOf, StreamAssumption
<1>13. "wide" \notin ToSet(sent[i].body) => request.length = m BY <1>6, <1>8, <1>12, ByteCount
<1>14. ASSUME "wide" \notin ToSet(sent[i].body), z = request.length
       PROVE  all = Letters(i, sent[i])
  <2>1. PICK b : b = 0 OBVIOUS
  <2>2. b \in Nat /\ b = u + h - 1 /\ b + z <= Len(s) BY ONLY <1>9, <1>11, <2>1
  <2>3. \A k \in 1..Len(all) : all[k] = s[k + b] BY <1>8, <1>9, <2>1
  <2>4. Len(all) = Len(sent[i].body) BY <1>8, <1>13, <1>14
  <2>5. b = st[i] + Len(Top(i, sent[i])) - 1 /\ b + Len(all) <= Len(s) BY <1>8, <2>2
  <2>6. PICK q : q = sent OBVIOUS
  <2>7. /\ q \in Seq(Kinds) /\ s \in Seq(Tokens) /\ Laid(s, q, st) /\ i \in 1..Len(q)
        /\ BodyFrom(s, q, st, i, b, all)
    BY <1>5, <1>6, <1>8, <1>9, <2>2, <2>3, <2>4, <2>5, <2>6 DEF BodyFrom
  <2>8. all = Letters(i, q[i]) BY ONLY <2>7, BodyIn
  <2> QED BY <2>6, <2>8
<1>15. ASSUME ~split'
       PROVE  /\ ~split /\ request.req = Len(handled) + 1 /\ z <= m /\ request.length = m
              /\ \A c \in ToSet(sent[i].body) : c = "plain"
  <2>1. ~split /\ \A c \in ToSet(all) : c.req = i BY <1>4, <1>8, <1>15
  <2>2. /\ request.req = Len(handled) + 1
        /\ \A c \in ToSet(sent[i].body) : c = "plain"
    BY <1>4, <1>6, <1>8, <2>1 DEF OneByOne
  <2>3. request.length = m
    <3>1. "wide" \notin ToSet(sent[i].body) BY <2>2
    <3> QED BY <1>13, <3>1
  <2>4. z <= m
    <3> SUFFICES ASSUME ~(z <= m) PROVE FALSE OBVIOUS
    <3>1. PICK k : k = m + 1 OBVIOUS
    <3>2. k \in 1..z /\ k \in 1..Len(s) /\ k = v BY ONLY <1>9, <1>11, <3>1, ~(z <= m)
    <3>3. PICK j \in 1..Len(sent) : st[j] <= k /\ k < st[j + 1] /\ Block(s, sent, st, j)
      BY <1>5, <1>6, <1>9, <3>2, BlockAt
    <3>4. s[k].req = j BY <3>2, <3>3 DEF Block
    <3>5. s[k].req = i
      <4>1. DOMAIN all = 1..z BY <1>8, <1>9, LenProperties
      <4>2. all[k] \in ToSet(all) BY <3>2, <4>1 DEF ToSet
      <4> QED BY <1>9, <2>1, <3>2, <4>2
    <3>6. k < v BY <1>8, <3>3, <3>4, <3>5
    <3> QED BY ONLY <1>11, <3>2, <3>6
  <2> QED BY <2>1, <2>2, <2>3, <2>4
<1>16. wire' \in Seq(Tokens) /\ buffer' \in Seq(Tokens) /\ <<>> \in Seq(Tokens) /\ split' \in BOOLEAN
  <2>1. split \in BOOLEAN BY <1>2 DEF StreamTypes
  <2> QED BY <1>4, <1>9, <2>1
<1>17. Parts(s, all, <<>>, w2)
  <2>1. PICK e : e = <<>> OBVIOUS
  <2>2. e \in Seq(Tokens) /\ Len(e) = 0 BY <2>1
  <2>3. \A k \in 1..o : s[z + k] = w2[k] BY <1>7, <1>8 DEF Halves
  <2>4. z + 0 = z /\ z + 0 + o = z + o /\ \A k \in 1..0 : FALSE BY <1>9
  <2>5. Parts(s, all, e, w2) BY <1>8, <1>9, <2>2, <2>3, <2>4 DEF Parts
  <2> QED BY <2>1, <2>5
<1>18. ASSUME body' = <<>>
       PROVE  RunOn(s, t, z) /\ z \in 0..Len(s)
  <2>1. PICK e : e = <<>> OBVIOUS
  <2>2. e \in Seq(Tokens) /\ Len(e) = 0 BY <2>1
  <2>3. RunOn(all, e, z) /\ z \in 0..Len(all)
    <3>1. z - z = 0 /\ z \in 0..z BY <1>9
    <3> QED BY <1>8, <2>2, <3>1 DEF RunOn
  <2>4. t = e \o e \o w2 BY <1>3, <1>4, <1>18, <2>1 DEF Ahead
  <2>5. Parts(s, all, e, w2) BY <1>17, <2>1
  <2> QED BY ONLY <2>3, <2>4, <2>5, Remains
<1>19. u - z < 1 BY ONLY <1>9, <1>11
<1>20. ASSUME NEW hb \in Seq(Tokens), Handle(request, hb),
              "wide" \notin ToSet(sent[i].body) => hb = <<>> \/ hb = Letters(i, sent[i]),
              ~split' => hb = Letters(i, sent[i]) /\ z = m
       PROVE  StreamInv'
  <2>1. body' = <<>> BY <1>20 DEF Handle
  <2>2. Ahead \in Seq(Tokens) /\ z \in 0..Len(Ahead) /\ RunOn(Ahead, Ahead', z) BY <1>3, <1>9, <1>18, <2>1
  <2>3. "wide" \notin ToSet(sent[request.req].body) => hb = <<>> \/ hb = Body(request.req)
    BY <1>8, <1>20 DEF Body
  <2>4. ~split' => /\ ~split /\ buffer' = <<>> /\ request.req = Len(handled) + 1
                   /\ hb = Body(request.req) /\ st[request.req + 1] - z = 1
    <3> SUFFICES ASSUME ~split'
                 PROVE  /\ ~split /\ buffer' = <<>> /\ request.req = Len(handled) + 1
                        /\ hb = Body(request.req) /\ st[request.req + 1] - z = 1
      OBVIOUS
    <3>1. z = m /\ hb = Body(request.req) BY <1>8, <1>20 DEF Body
    <3>2. v - z = 1 BY ONLY <1>9, <1>11, <3>1
    <3> QED BY <1>4, <1>8, <1>15, <3>1, <3>2
  <2>5. st[request.req] - z < 1 BY <1>8, <1>19
  <2> QED BY ONLY <1>1, <1>2, <1>4, <1>5, <1>6, <1>16, <1>20, <2>2, <2>3, <2>4, <2>5, HandledThen
<1>21. CASE Len(all) > request.length /\ Handle(request, <<>>)
  <2>1. ~split' => FALSE
    <3>1. z > request.length BY <1>8, <1>21
    <3> QED BY ONLY <1>9, <1>11, <1>15, <3>1
  <2> QED BY <1>16, <1>20, <1>21, <2>1
<1>22. CASE ~(Len(all) > request.length) /\ Len(all) >= request.length /\ Handle(request, all)
  <2>1. z = request.length BY <1>5, <1>8, <1>9, <1>22
  <2>2. ~split' => "wide" \notin ToSet(sent[i].body) /\ z = m BY <1>15, <2>1
  <2> QED BY <1>9, <1>14, <1>20, <1>22, <2>1, <2>2
<1>23. CASE /\ Len(all) < request.length
            /\ body' = all /\ at' = at /\ request' = request /\ handled' = handled
  <2>1. RunOn(s, t, 0) /\ 0 \in 0..Len(s)
    <3>1. PICK e, b : e = <<>> /\ b = 0 OBVIOUS
    <3>2. RunOn(all, all, b) /\ b \in 0..Len(all)
      <4>1. z - b = z /\ b \in 0..z /\ \A k \in 1..z : k + b = k BY ONLY <1>9, <3>1
      <4> QED BY <1>8, <1>9, <4>1 DEF RunOn
    <3>3. t = all \o e \o w2 BY <1>3, <1>4, <1>23, <3>1 DEF Ahead
    <3>4. Parts(s, all, e, w2) BY <1>17, <3>1
    <3>5. RunOn(s, t, b) /\ b \in 0..Len(s) BY ONLY <3>2, <3>3, <3>4, Remains
    <3> QED BY <3>1, <3>5
  <2>2. PICK st2 \in [1..(Len(sent) + 1) -> Int] :
          Laid(t, sent, st2) /\ \A j \in 1..(Len(sent) + 1) : st2[j] = st[j] - 0
    <3>1. PICK b : b = 0 OBVIOUS
    <3>2. RunOn(s, t, b) /\ b \in 0..Len(s) /\ sent \in Seq(Kinds) /\ s \in Seq(Tokens)
          /\ Laid(s, sent, st)
      BY <1>5, <1>6, <1>9, <2>1, <3>1
    <3>3. \E st2 \in [1..(Len(sent) + 1) -> Int] :
            Laid(t, sent, st2) /\ \A j \in 1..(Len(sent) + 1) : st2[j] = st[j] - b
      BY ONLY <3>2, Onward
    <3> QED BY <3>1, <3>3
  <2>3. \A j \in 1..(Len(sent) + 1) : st2[j] = st[j]
    <3>1. \A j \in 1..(Len(sent) + 1) : st[j] \in Int BY <1>1
    <3> QED BY <2>2, <3>1
  <2>4. Later(st2)'
    <3>1. Len(sent) \in Nat BY <1>5, LenProperties
    <3>2. \A j \in 1..Len(sent) : j \in 1..(Len(sent) + 1) BY ONLY <3>1
    <3>3. \A j \in 1..Len(sent) : st2[j] = st[j] BY <2>3, <3>2
    <3> QED BY <1>4, <1>6, <1>23, <3>3 DEF Later
  <2>5. AtBody(st2)'
    <3>1. st2[request.req] = st[request.req]
      <4>1. request.req \in 1..(Len(sent) + 1) BY <1>5, KindOf
      <4> QED BY <2>3, <4>1
    <3> QED BY <1>4, <1>6, <1>23, <3>1 DEF AtBody
  <2>6. OneByOne(st2)'
    <3> SUFFICES ASSUME ~split'
                 PROVE  /\ buffer' = <<>>
                        /\ Len(handled) <= Len(sent)
                        /\ \A j \in 1..Len(handled) : handled[j] = [req |-> j, body |-> Letters(j, sent[j])]
                        /\ request.req = Len(handled) + 1 /\ Len(all) < request.length
                        /\ \A c \in ToSet(sent[request.req].body) : c = "plain"
      BY <1>4, <1>23 DEF OneByOne, Body
    <3>1. ~split BY <1>15
    <3> QED BY <1>4, <1>6, <1>8, <1>15, <1>23, <3>1 DEF OneByOne, Body
  <2>7. StreamTypes' BY <1>2, <1>4, <1>9, <1>16, <1>23 DEF StreamTypes
  <2>8. OnceInOrder' /\ Intact' BY <1>2, <1>4, <1>23 DEF OnceInOrder, Intact, Body
  <2>9. InStep(st2)' BY <1>3, <1>4, <2>2, <2>4, <2>5, <2>6 DEF InStep
  <2> QED BY <1>4, <2>2, <2>7, <2>8, <2>9 DEF StreamInv
<1> QED BY <1>4, <1>21, <1>22, <1>23

(* What has arrived is taken for a request.                                *)
LEMMA ReadyReadStep ==
  ASSUME StreamInv, NEW n \in 1..Len(wire), ReadyRead(n)
  PROVE  StreamInv'
<1>1. PICK st \in [1..(Len(sent) + 1) -> Int] : InStep(st) BY DEF StreamInv
<1>2. StreamTypes /\ OnceInOrder /\ Intact BY DEF StreamInv
<1>3. PICK all : all = buffer \o Chunk(n) OBVIOUS
<1>4. PICK s, t, d, l, w2, r, rest : /\ s = Ahead /\ t = Ahead' /\ d = Taken(all) /\ l = Left(all)
                                     /\ w2 = SubSeq(wire, n + 1, Len(wire))
                                     /\ r = Parsed(Header(d)) /\ rest = Rest(d)
  OBVIOUS
<1>5. PICK hb : hb = IF sent[r.req].type = "POST" THEN rest ELSE <<>> OBVIOUS
<1>6. /\ at = "idle" /\ wire' = w2 /\ buffer' = l /\ sent' = sent
      /\ split' = (split \/ ~Clean(d, all))
      /\ \/ ~IsRequest(Header(d)) /\ HandleNothing
         \/ IsRequest(Header(d)) /\ r.length > Limit /\ Handle(r, <<>>)
         \/ /\ IsRequest(Header(d)) /\ r.length <= Limit
            /\ Waits(rest, r) /\ at' = "waiting" /\ request' = r /\ body' = rest /\ handled' = handled
         \/ IsRequest(Header(d)) /\ r.length <= Limit /\ ~Waits(rest, r) /\ Handle(r, hb)
  BY <1>3, <1>4, <1>5 DEF ReadyRead, Arrive
<1>7. body = <<>> /\ buffer \in Seq(Tokens) /\ wire \in Seq(Tokens) /\ sent \in Seq(Kinds)
      /\ split \in BOOLEAN
  BY <1>2, <1>6 DEF StreamTypes
<1>8. PICK m : m = Len(d) OBVIOUS
<1>9. /\ s \in Seq(Tokens) /\ Parts(s, d, l, w2) /\ m \in 1..Len(s) /\ Start(s, d, m)
      /\ (d = all => l = <<>>)
  <2>1. PICK b, w : b = buffer /\ w = wire OBVIOUS
  <2>2. /\ b \in Seq(Tokens) /\ w \in Seq(Tokens) /\ n \in 1..Len(w)
        /\ s = <<>> \o b \o w /\ all = b \o SubSeq(w, 1, n) /\ w2 = SubSeq(w, n + 1, Len(w))
        /\ d = Taken(all) /\ l = Left(all)
    BY <1>3, <1>4, <1>7, <2>1 DEF Ahead, Chunk
  <2>3. /\ s \in Seq(Tokens) /\ Parts(s, d, l, w2) /\ Len(d) \in 1..Len(s)
        /\ Start(s, d, Len(d)) /\ (d = all => l = <<>>)
    BY ONLY <2>2, Reading
  <2> QED BY <1>8, <2>3
<1>10. Laid(s, sent, st) /\ Later(st) /\ OneByOne(st) BY <1>1, <1>4 DEF InStep
<1>11. /\ d \in Seq(Tokens) /\ l \in Seq(Tokens) /\ w2 \in Seq(Tokens) /\ m \in Nat /\ m >= 1
       /\ m \in 0..Len(s) /\ m \in 0..Len(d)
  <2>1. d \in Seq(Tokens) /\ l \in Seq(Tokens) /\ w2 \in Seq(Tokens) BY <1>9 DEF Parts
  <2>2. m \in Nat /\ Len(s) \in Nat BY <1>8, <1>9, <2>1, LenProperties
  <2>3. m >= 1 /\ m \in 0..Len(s) /\ m \in 0..m BY ONLY <1>9, <2>2
  <2> QED BY <1>8, <2>1, <2>2, <2>3
<1>12. wire' \in Seq(Tokens) /\ buffer' \in Seq(Tokens) /\ <<>> \in Seq(Tokens) /\ split' \in BOOLEAN
  BY <1>6, <1>7, <1>11
<1>13. ASSUME body' = <<>>
       PROVE  RunOn(s, t, m)
  <2>1. PICK e : e = <<>> OBVIOUS
  <2>2. e \in Seq(Tokens) /\ Len(e) = 0 BY <2>1
  <2>3. RunOn(d, e, m)
    <3>1. m - m = 0 BY ONLY <1>11
    <3> QED BY <1>8, <2>2, <3>1 DEF RunOn
  <2>4. t = e \o l \o w2 BY <1>4, <1>6, <1>13, <2>1 DEF Ahead
  <2>5. Parts(s, d, l, w2) /\ m \in 0..Len(d) BY <1>9, <1>11
  <2> QED BY ONLY <2>3, <2>4, <2>5, Remains
<1>14. PICK e : e = Len(handled) + 1 OBVIOUS
<1>15. ASSUME ~split'
       PROVE  /\ ~split /\ l = <<>> /\ e \in 1..Len(sent) /\ CleanRead(sent, e, d, m)
              /\ st[e] = 1
  <2>1. ~split /\ Clean(d, all) BY <1>6, <1>15
  <2>2. Len(handled) <= Len(sent) /\ st[e] = 1 BY <1>6, <1>10, <1>14, <2>1 DEF OneByOne
  <2>3. e \in 1..(Len(sent) + 1)
    <3>1. PICK a, b : a = Len(handled) /\ b = Len(sent) OBVIOUS
    <3>2. handled \in Seq([req : 1..Len(sent), body : Seq(Tokens)]) BY <1>2 DEF StreamTypes
    <3>3. a \in Nat /\ b \in Nat BY <1>7, <3>1, <3>2, LenProperties
    <3>4. a <= b BY <2>2, <3>1
    <3>5. a + 1 \in 1..(b + 1) BY ONLY <3>3, <3>4
    <3> QED BY <1>14, <3>1, <3>5
  <2>4. d = all /\ e \in 1..Len(sent) /\ CleanRead(sent, e, d, m)
    BY ONLY <1>7, <1>9, <1>10, <2>1, <2>2, <2>3, CleanSays
  <2> QED BY <1>9, <2>1, <2>2, <2>4
<1>16. CASE ~IsRequest(Header(d)) /\ HandleNothing
  <2>1. at' = "closed" /\ request' = request /\ body' = body /\ handled' = handled
    BY <1>16 DEF HandleNothing
  <2>2. split' BY <1>15, <1>16 DEF CleanRead
  <2>3. RunOn(s, t, m) BY <1>7, <1>13, <2>1
  <2>4. PICK st2 \in [1..(Len(sent) + 1) -> Int] :
          Laid(t, sent, st2) /\ \A i \in 1..(Len(sent) + 1) : st2[i] = st[i] - m
    <3>1. sent \in Seq(Kinds) /\ s \in Seq(Tokens) /\ Laid(s, sent, st) /\ m \in 0..Len(s)
      BY <1>7, <1>9, <1>10, <1>11
    <3> QED BY ONLY <2>3, <3>1, Onward
  <2>5. Later(st2)' BY ONLY <1>2, <1>6, <1>9, <1>10, <1>11, <2>1, <2>4, LaterStill
  <2>6. AtBody(st2)' /\ OneByOne(st2)' BY <2>1, <2>2 DEF AtBody, OneByOne
  <2>7. InStep(st2)' BY <1>4, <1>6, <2>4, <2>5, <2>6 DEF InStep
  <2>8. StreamTypes' BY <1>2, <1>6, <1>7, <1>12, <2>1 DEF StreamTypes
  <2>9. OnceInOrder' /\ Intact' BY <1>2, <1>6, <2>1 DEF OnceInOrder, Intact, Body
  <2> QED BY <1>6, <2>4, <2>7, <2>8, <2>9 DEF StreamInv
<1>17. CASE IsRequest(Header(d))
  <2>1. PICK i \in 1..Len(sent) : ReadAs(s, sent, st, m, d, i)
    BY ONLY <1>7, <1>9, <1>10, <1>11, <1>17, ReadsAs
  <2>2. PICK h, k, u, b, x : /\ h = Len(Top(i, sent[i])) /\ k = Len(sent[i].body) /\ u = st[i]
                             /\ b = u + h - 1 /\ x = Len(rest)
    OBVIOUS
  <2>3. /\ 1 <= u /\ u <= m /\ r \in Requests /\ r.req = i
        /\ r.length = (IF r.sized THEN Bytes(sent[i].body) ELSE 0)
        /\ rest # <<>> =>
             /\ b \in 1..m /\ Breaks(d) = {b} /\ RestFrom(d, b)
             /\ r.sized <=> sent[i].type = "POST"
    BY <1>4, <2>1, <2>2 DEF ReadAs, Requests
  <2>4. h \in 2..4 /\ k \in Nat /\ u \in Int /\ st[i + 1] = u + h + k
    <3>1. Block(s, sent, st, i) BY <1>7, <1>9, <1>10, BlockOf
    <3> QED BY <2>2, <3>1 DEF Block
  <2>5. sent[i] \in Kinds /\ sent[i].body \in Seq(Units) /\ i + 1 \in 1..(Len(sent) + 1)
        /\ (sent[i].type # "POST" => k = 0)
    <3>1. sent[i] \in Kinds /\ sent[i].body \in Seq(Units) /\ i + 1 \in 1..(Len(sent) + 1)
      BY <1>7, KindOf, StreamAssumption
    <3>2. sent[i].type # "POST" => sent[i].body = <<>> BY <3>1, StreamAssumption
    <3> QED BY <2>2, <3>1, <3>2
  <2>6. \A j \in 1..Len(handled) : handled[j].req < i BY <1>10, <2>2, <2>3 DEF Later
  <2>7. rest \in Seq(Tokens) /\ x \in Nat
    <3>1. CASE rest = <<>> BY <1>12, <2>2, <3>1
    <3>2. CASE rest # <<>>
      <4>1. rest \in Seq(Tokens) BY <1>4, <2>3, <3>2 DEF RestFrom
      <4> QED BY <2>2, <4>1, LenProperties
    <3> QED BY <3>1, <3>2
  <2>8. rest # <<>> => x = m - b /\ \A j \in 1..x : rest[j] = s[j + b]
    <3> SUFFICES ASSUME rest # <<>> PROVE x = m - b /\ \A j \in 1..x : rest[j] = s[j + b]
      OBVIOUS
    <3>1. RestFrom(d, b) /\ b \in 1..m BY <2>3
    <3>2. x = m - b /\ \A j \in 1..(m - b) : rest[j] = d[j + b]
      BY <1>4, <1>8, <2>2, <3>1 DEF RestFrom
    <3>3. \A j \in 1..(m - b) : j + b \in 1..m BY ONLY <1>11, <3>1
    <3> QED BY <1>9, <3>2, <3>3 DEF Start
  <2>9. rest # <<>> /\ x = k => rest = Letters(i, sent[i])
    <3> SUFFICES ASSUME rest # <<>>, x = k PROVE rest = Letters(i, sent[i]) OBVIOUS
    <3>1. PICK q, z : q = sent /\ z = Len(s) OBVIOUS
    <3>2. b \in 1..m /\ x = m - b /\ m \in 0..z BY <1>11, <2>3, <2>8, <3>1
    <3>3. b \in Nat /\ b + x <= z
      <4>1. z \in Nat BY <1>9, <3>1, LenProperties
      <4> QED BY ONLY <1>11, <3>2, <4>1
    <3>4. b = st[i] + Len(Top(i, q[i])) - 1 /\ b + Len(rest) <= Len(s) /\ Len(rest) = Len(q[i].body)
      BY <2>2, <3>1, <3>3
    <3>5. /\ q \in Seq(Kinds) /\ s \in Seq(Tokens) /\ Laid(s, q, st) /\ i \in 1..Len(q)
          /\ BodyFrom(s, q, st, i, b, rest)
      BY <1>7, <1>9, <1>10, <2>2, <2>7, <2>8, <3>1, <3>3, <3>4 DEF BodyFrom
    <3>6. rest = Letters(i, q[i]) BY ONLY <3>5, BodyIn
    <3> QED BY <3>1, <3>6
  <2>10. ASSUME ~split'
         PROVE  /\ i = e /\ u = 1 /\ b = h /\ h <= m /\ m <= h + k /\ (m = h => k = 0)
                /\ Breaks(d) = {h} /\ Bytes(sent[i].body) = k /\ k <= Limit
                /\ \A c \in ToSet(sent[i].body) : c = "plain"
    <3>1. CleanRead(sent, e, d, m) /\ st[e] = 1 BY <1>15, <2>10
    <3>2. r.req = e BY <1>4, <3>1 DEF CleanRead
    <3>3. i = e /\ u = 1 BY <2>2, <2>3, <3>1, <3>2
    <3>4. b = h BY ONLY <2>2, <2>4, <3>3
    <3> QED BY <2>2, <3>1, <3>3, <3>4 DEF CleanRead
  <2>11. u - m < 1 /\ b \in Int /\ u - b + h = 1
    <3>1. b = u + h - 1 /\ u <= m /\ m \in Nat BY <1>11, <2>2, <2>3
    <3> QED BY ONLY <2>4, <3>1
  <2>12. r.length \in Nat /\ Bytes(sent[i].body) \in Nat /\ Limit \in Nat
         /\ ("wide" \notin ToSet(sent[i].body) => Bytes(sent[i].body) = k)
    BY <2>2, <2>3, <2>5, ByteCount, StreamAssumption DEF Requests
  <2>13. ASSUME NEW c \in Seq(Tokens), Handle(r, c),
                "wide" \notin ToSet(sent[i].body) => c = <<>> \/ c = Letters(i, sent[i]),
                ~split' => c = Letters(i, sent[i]) /\ m = h + k
         PROVE  StreamInv'
    <3>1. body' = <<>> BY <2>13 DEF Handle
    <3>2. Ahead \in Seq(Tokens) /\ m \in 0..Len(Ahead) /\ RunOn(Ahead, Ahead', m)
      BY <1>4, <1>9, <1>11, <1>13, <3>1
    <3>3. "wide" \notin ToSet(sent[r.req].body) => c = <<>> \/ c = Body(r.req)
      BY <2>3, <2>13 DEF Body
    <3>4. \A j \in 1..Len(handled) : handled[j].req < r.req BY <2>3, <2>6
    <3>5. st[r.req] - m < 1 BY <2>2, <2>3, <2>11
    <3>6. ~split' => /\ ~split /\ buffer' = <<>> /\ r.req = Len(handled) + 1
                     /\ c = Body(r.req) /\ st[r.req + 1] - m = 1
      <4> SUFFICES ASSUME ~split'
                   PROVE  /\ ~split /\ buffer' = <<>> /\ r.req = Len(handled) + 1
                          /\ c = Body(r.req) /\ st[r.req + 1] - m = 1
        OBVIOUS
      <4>1. m = h + k /\ c = Body(r.req) BY <2>3, <2>13 DEF Body
      <4>2. PICK v : v = st[i + 1] OBVIOUS
      <4>3. u = 1 /\ i = e BY <2>10
      <4>4. v = u + h + k BY <2>4, <4>2
      <4>5. v - m = 1 BY ONLY <1>11, <2>4, <4>1, <4>3, <4>4
      <4> QED BY <1>6, <1>14, <1>15, <2>3, <4>1, <4>2, <4>3, <4>5
    <3>7. r \in Requests BY <2>3
    <3> QED BY ONLY <1>1, <1>2, <1>6, <1>12, <2>13, <3>2, <3>3, <3>4, <3>5, <3>6, <3>7, HandledThen
  <2>14. CASE r.length > Limit /\ Handle(r, <<>>)
    <3>1. ~split' => FALSE
      <4> SUFFICES ASSUME ~split' PROVE FALSE OBVIOUS
      <4>1. Bytes(sent[i].body) = k /\ k <= Limit BY <2>10
      <4>2. r.length <= k BY <2>3, <2>4, <4>1
      <4>3. r.length > Limit BY <2>14
      <4> QED BY ONLY <2>4, <2>12, <4>1, <4>2, <4>3
    <3> QED BY <1>12, <2>13, <2>14, <3>1
  <2>15. CASE ~Waits(rest, r) /\ Handle(r, hb)
    <3>1. hb \in Seq(Tokens) BY <1>5, <1>12, <2>7
    <3>2. hb = IF sent[i].type = "POST" THEN rest ELSE <<>> BY <1>5, <2>3
    <3>3. sent[i].type = "POST" /\ rest # <<>> => x = Bytes(sent[i].body)
      BY <2>2, <2>3, <2>15 DEF Waits
    <3>4. "wide" \notin ToSet(sent[i].body) => hb = <<>> \/ hb = Letters(i, sent[i])
      BY <2>9, <2>12, <3>2, <3>3
    <3>5. ASSUME ~split' PROVE hb = Letters(i, sent[i]) /\ m = h + k
      <4>1. /\ u = 1 /\ b = h /\ h <= m /\ m <= h + k /\ (m = h => k = 0)
            /\ Breaks(d) = {h} /\ Bytes(sent[i].body) = k
        BY <2>10, <3>5
      <4>2. k = 0 => Letters(i, sent[i]) = <<>>
        <5>1. PICK kind : kind = sent[i] OBVIOUS
        <5>2. PICK y : y = Letters(i, kind) OBVIOUS
        <5>3. i \in Nat /\ kind \in Kinds BY <1>7, <5>1, KindOf
        <5>4. y \in Seq(Tokens) /\ Len(y) = Len(kind.body) BY ONLY <5>2, <5>3, LettersShape
        <5> QED BY <2>2, <5>1, <5>2, <5>4
      <4>3. RestFrom(d, h)
        <5>1. h \in 1..Len(d) BY <1>8, <1>11, <2>4, <4>1
        <5> QED BY <1>11, <4>1, <5>1, RestOf
      <4>4. x = m - h BY <1>4, <1>8, <2>2, <4>3 DEF RestFrom
      <4>5. rest = <<>> <=> x = 0 BY <2>2, <2>7
      <4>6. CASE sent[i].type = "POST" /\ rest # <<>>
        <5>1. x = k BY <3>3, <4>1, <4>6
        <5>2. hb = Letters(i, sent[i]) BY <2>9, <3>2, <4>6, <5>1
        <5>3. m = h + k BY ONLY <1>11, <2>4, <4>4, <5>1
        <5> QED BY <5>2, <5>3
      <4>7. CASE sent[i].type # "POST"
        <5>1. k = 0 BY <2>5, <4>7
        <5>2. m = h + k BY ONLY <1>11, <2>4, <4>1, <5>1
        <5> QED BY <3>2, <4>2, <4>7, <5>1, <5>2
      <4>8. CASE sent[i].type = "POST" /\ rest = <<>>
        <5>1. x = 0 BY <4>5, <4>8
        <5>2. m = h BY ONLY <1>11, <2>4, <4>4, <5>1
        <5>3. k = 0 BY <4>1, <5>2
        <5>4. m = h + k BY ONLY <1>11, <2>4, <5>2, <5>3
        <5> QED BY <3>2, <4>2, <4>8, <5>3, <5>4
      <4> QED BY <4>6, <4>7, <4>8
    <3> QED BY <2>13, <2>15, <3>1, <3>4, <3>5
  <2>16. CASE Waits(rest, r) /\ at' = "waiting" /\ request' = r /\ body' = rest /\ handled' = handled
    <3>1. rest # <<>> /\ r.sized /\ x # r.length BY <2>2, <2>16 DEF Waits
    <3>2. /\ b \in 1..m /\ x = m - b /\ r.length = Bytes(sent[i].body)
          /\ \A j \in 1..x : rest[j] = s[j + b]
      BY <2>3, <2>8, <3>1
    <3>3. RunOn(s, t, b) /\ b \in 0..Len(s)
      <4>1. b \in 0..m /\ m - b = x BY ONLY <1>11, <2>11, <3>2
      <4>2. RunOn(d, rest, b)
        <5>1. RestFrom(d, b) BY <2>3, <3>1
        <5>2. rest \in Seq(Tokens) /\ Len(rest) = m - b /\ \A j \in 1..(m - b) : rest[j] = d[j + b]
          BY <1>4, <1>8, <5>1 DEF RestFrom
        <5> QED BY <1>8, <5>2 DEF RunOn
      <4>3. t = rest \o l \o w2 BY <1>4, <1>6, <2>16 DEF Ahead
      <4>4. Parts(s, d, l, w2) /\ b \in 0..Len(d) BY <1>8, <1>9, <4>1
      <4> QED BY ONLY <4>2, <4>3, <4>4, Remains
    <3>4. PICK st2 \in [1..(Len(sent) + 1) -> Int] :
            Laid(t, sent, st2) /\ \A j \in 1..(Len(sent) + 1) : st2[j] = st[j] - b
      BY ONLY <1>7, <1>9, <1>10, <3>3, Onward
    <3>5. Later(st2)'
      <4>1. b \in Nat BY ONLY <1>11, <3>2
      <4> QED BY ONLY <1>2, <1>6, <1>9, <1>10, <2>16, <3>4, <4>1, LaterStill
    <3>6. AtBody(st2)'
      <4>1. st2[i] = u - b
        <5>1. i \in 1..(Len(sent) + 1) BY <1>7, KindOf
        <5> QED BY <2>2, <3>4, <5>1
      <4> QED BY <1>6, <2>2, <2>3, <2>6, <2>11, <2>16, <3>2, <4>1 DEF AtBody
    <3>7. OneByOne(st2)'
      <4> SUFFICES ASSUME ~split'
                   PROVE  /\ l = <<>>
                          /\ Len(handled) <= Len(sent)
                          /\ \A j \in 1..Len(handled) : handled[j] = [req |-> j, body |-> Letters(j, sent[j])]
                          /\ i = Len(handled) + 1 /\ x < r.length
                          /\ \A c \in ToSet(sent[i].body) : c = "plain"
        BY <1>6, <2>2, <2>3, <2>16 DEF OneByOne, Body
      <4>1. /\ i = e /\ b = h /\ m <= h + k /\ Bytes(sent[i].body) = k
            /\ \A c \in ToSet(sent[i].body) : c = "plain"
        BY <2>10
      <4>2. x < r.length
        <5>1. r.length = k /\ x # k BY <3>1, <3>2, <4>1
        <5>2. x = m - b BY <3>2
        <5>3. x < k BY ONLY <1>11, <2>4, <4>1, <5>1, <5>2
        <5> QED BY <5>1, <5>3
      <4>3. ~split /\ l = <<>> BY <1>15
      <4> QED BY <1>10, <1>14, <4>1, <4>2, <4>3 DEF OneByOne, Body
    <3>8. StreamTypes'
      <4>1. r \in [req : 1..Len(sent), keep : BOOLEAN, sized : BOOLEAN, length : Nat]
        BY <2>3 DEF Requests
      <4> QED BY <1>2, <1>6, <1>12, <2>7, <2>16, <4>1 DEF StreamTypes
    <3>9. OnceInOrder' /\ Intact' BY <1>2, <1>6, <2>16 DEF OnceInOrder, Intact, Body
    <3>10. InStep(st2)' BY <1>4, <1>6, <3>4, <3>5, <3>6, <3>7 DEF InStep
    <3> QED BY <1>6, <3>4, <3>8, <3>9, <3>10 DEF StreamInv
  <2> QED BY <1>6, <1>17, <2>14, <2>15, <2>16
<1> QED BY <1>6, <1>16, <1>17

-----------------------------------------------------------------------------
LEMMA StreamInit ==
  ASSUME Init
  PROVE  StreamInv
<1>1. /\ sent = <<>> /\ wire = <<>> /\ buffer = <<>> /\ at = "idle" /\ body = <<>>
      /\ handled = <<>> /\ split = FALSE
  BY DEF Init
<1>2. StreamTypes
  <2>1. \A S : <<>> \in Seq(S) BY EmptySeq
  <2>2. /\ sent \in Seq(Kinds) /\ wire \in Seq(Tokens) /\ buffer \in Seq(Tokens) /\ body \in Seq(Tokens)
        /\ handled \in Seq([req : 1..Len(sent), body : Seq(Tokens)])
    BY ONLY <1>1, <2>1
  <2>3. at # "waiting" /\ at \in {"idle", "waiting", "closed"} /\ split \in BOOLEAN BY <1>1
  <2> QED BY <1>1, <2>2, <2>3 DEF StreamTypes
<1>3. OnceInOrder /\ Intact BY <1>1 DEF OnceInOrder, Intact
<1>4. PICK st : st = [i \in 1..1 |-> 1] OBVIOUS
<1>5. Ahead = <<>>
  <2>1. PICK e : e = <<>> OBVIOUS
  <2>2. e \in Seq(Tokens) /\ e \o e = e BY <2>1, ConcatEmptySeq
  <2> QED BY <1>1, <2>1, <2>2 DEF Ahead
<1>6. Len(sent) + 1 = 1 /\ Len(Ahead) = 0 /\ st[1] = 1 /\ st \in [1..1 -> Int]
  BY <1>1, <1>4, <1>5
<1>7. Laid(Ahead, sent, st) BY <1>1, <1>6 DEF Laid
<1>8. Later(st) /\ AtBody(st) BY <1>1 DEF Later, AtBody
<1>9. OneByOne(st) BY <1>1, <1>6 DEF OneByOne
<1>10. InStep(st) BY <1>7, <1>8, <1>9 DEF InStep
<1> QED BY <1>2, <1>3, <1>6, <1>10 DEF StreamInv

LEMMA StreamNext ==
  ASSUME StreamInv, [Next]_vars
  PROVE  StreamInv'
<1>1. ASSUME NEW kind \in Kinds, Send(kind) PROVE StreamInv' BY <1>1, SendStep
<1>2. ASSUME NEW n \in 1..Len(wire), ReadyRead(n) PROVE StreamInv' BY <1>2, ReadyReadStep
<1>3. ASSUME NEW n \in 1..Len(wire), WaitForReadyRead(n) PROVE StreamInv'
  BY <1>3, WaitForReadyReadStep
<1>4. CASE WaitFails BY <1>4, WaitFailsStep
<1>5. CASE ClosedByInterval BY <1>5, ClosedStep
<1>6. CASE UNCHANGED vars
  <2>1. /\ sent' = sent /\ wire' = wire /\ buffer' = buffer /\ at' = at /\ request' = request
        /\ body' = body /\ handled' = handled /\ split' = split
    BY <1>6 DEF vars
  <2>2. PICK st \in [1..(Len(sent) + 1) -> Int] : InStep(st) BY DEF StreamInv
  <2>3. Later(st)' /\ AtBody(st)' /\ OneByOne(st)' /\ Ahead' = Ahead
    BY <2>1, <2>2 DEF InStep, Later, AtBody, OneByOne, Body, Ahead
  <2>4. InStep(st)' BY <2>1, <2>2, <2>3 DEF InStep
  <2>5. StreamTypes' /\ OnceInOrder' /\ Intact'
    BY <2>1 DEF StreamInv, StreamTypes, OnceInOrder, Intact, Body
  <2> QED BY <2>1, <2>2, <2>4, <2>5 DEF StreamInv
<1> QED BY <1>1, <1>2, <1>3, <1>4, <1>5, <1>6 DEF Next

(* The invariant, from which the two properties follow.                    *)
THEOREM StreamSafe == Spec => []StreamInv
<1>1. Init => StreamInv BY StreamInit
<1>2. StreamInv /\ [Next]_vars => StreamInv' BY StreamNext
<1> QED BY <1>1, <1>2, PTL DEF Spec

(* Handlers get the POST data of a request as it was sent or not at all,   *)
(* however the stream is torn (parse()), save for wide characters.         *)
THEOREM BodiesComeWhole == Spec => []BodyIntact
<1>1. StreamInv => BodyIntact
  <2> SUFFICES ASSUME StreamInv, NEW x \in ToSet(handled), "wide" \notin ToSet(sent[x.req].body)
               PROVE  x.body \in {<<>>, Body(x.req)}
    BY DEF BodyIntact
  <2>1. handled \in Seq([req : 1..Len(sent), body : Seq(Tokens)]) BY DEF StreamInv, StreamTypes
  <2>2. PICK h \in 1..Len(handled) : x = handled[h] BY <2>1, LenProperties DEF ToSet
  <2>3. Intact BY DEF StreamInv
  <2> QED BY <2>2, <2>3 DEF Intact
<1> QED BY <1>1, StreamSafe, PTL

(* No request is handled twice or out of order, and those that come one by *)
(* one are all handled, in full (readyRead(), parse()).                    *)
THEOREM AllServedInOrder == Spec => []RequestsServed
<1>1. StreamInv => SeparateServed
  <2> SUFFICES ASSUME StreamInv, ~split
               PROVE  /\ \A j \in 1..Len(handled) : handled[j] = [req |-> j, body |-> Body(j)]
                      /\ at = "idle" /\ wire = <<>> => Len(handled) = Len(sent)
    BY DEF SeparateServed
  <2>1. PICK st \in [1..(Len(sent) + 1) -> Int] : InStep(st) BY DEF StreamInv
  <2>2. StreamTypes BY DEF StreamInv
  <2>3. Laid(Ahead, sent, st) /\ OneByOne(st) BY <2>1 DEF InStep
  <2>4. ASSUME at = "idle", wire = <<>> PROVE Len(handled) = Len(sent)
    <3>1. buffer = <<>> /\ body = <<>> BY <2>2, <2>3, <2>4 DEF OneByOne, StreamTypes
    <3>2. Ahead = <<>>
      <4>1. PICK e : e = <<>> OBVIOUS
      <4>2. e \in Seq(Tokens) /\ e \o e = e BY <4>1, ConcatEmptySeq
      <4> QED BY <2>4, <3>1, <4>1, <4>2 DEF Ahead
    <3>3. PICK m, n : m = Len(handled) /\ n = Len(sent) OBVIOUS
    <3>4. m \in Nat /\ n \in Nat
      <4>1. handled \in Seq([req : 1..Len(sent), body : Seq(Tokens)]) /\ sent \in Seq(Kinds)
        BY <2>2 DEF StreamTypes
      <4> QED BY <3>3, <4>1, LenProperties
    <3>5. m <= n /\ st[m + 1] = 1 BY <2>3, <2>4, <3>3 DEF OneByOne
    <3>6. st[n + 1] = 1
      <4>1. Len(Ahead) = 0 BY <3>2
      <4> QED BY <2>3, <3>3, <4>1 DEF Laid
    <3>7. m + 1 \in 1..(n + 1) /\ n + 1 \in 1..(n + 1) BY ONLY <3>4, <3>5
    <3>8. m + 1 = n + 1
      <4>1. sent \in Seq(Kinds) BY <2>2 DEF StreamTypes
      <4>2. Ahead \in Seq(Tokens) BY <3>2
      <4> QED BY <2>3, <3>3, <3>5, <3>6, <3>7, <4>1, <4>2, Marks
    <3>9. m = n BY ONLY <3>4, <3>8
    <3> QED BY <3>3, <3>9
  <2> QED BY <2>3, <2>4 DEF OneByOne
<1>2. StreamInv => RequestsServed BY <1>1 DEF StreamInv, RequestsServed
<1> QED BY <1>2, StreamSafe, PTL
=============================================================================
