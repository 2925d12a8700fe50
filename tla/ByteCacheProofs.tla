--------------------------- MODULE ByteCacheProofs ---------------------------
EXTENDS ByteCacheRefines, FiniteSetTheorems, SequenceTheorems, WellFoundedInduction, TLAPS

(* The strengthening: what the runs check, and that the lock is released   *)
(* only when the eviction loop has nothing left to do.                     *)
Released == mutex = NoThread => ~NeedCleanup

IInv ==
  /\ TypeOK
  /\ IndexMatchesList
  /\ AccountExact /\ IsFiniteSet(Cached)
  /\ Released
  /\ RecentOnlyTouched

-----------------------------------------------------------------------------
(* The list operations: erase() and push_front() of std::list.             *)
LEMMA RemoveAtFacts ==
  ASSUME NEW S, NEW s \in Seq(S), NEW i \in 1..Len(s)
  PROVE  /\ RemoveAt(s, i) \in Seq(S)
         /\ Len(RemoveAt(s, i)) = Len(s) - 1
         /\ \A j \in 1..(Len(s) - 1) :
              RemoveAt(s, i)[j] = IF j < i THEN s[j] ELSE s[j + 1]
<1> DEFINE front == SubSeq(s, 1, i - 1)
           back  == SubSeq(s, i + 1, Len(s))
<1>1. /\ front \in Seq(S) /\ Len(front) = i - 1
      /\ back \in Seq(S) /\ Len(back) = Len(s) - i
      /\ RemoveAt(s, i) \in Seq(S)
  BY DEF RemoveAt
<1>2. /\ Len(RemoveAt(s, i)) = Len(front) + Len(back)
      /\ \A j \in 1..(Len(front) + Len(back)) : RemoveAt(s, i)[j] =
           IF j <= Len(front) THEN front[j] ELSE back[j - Len(front)]
  <2>1. front \in Seq(S) /\ back \in Seq(S) /\ RemoveAt(s, i) = front \o back
    BY <1>1 DEF RemoveAt
  <2> HIDE DEF front, back
  <2>2. QED  BY <2>1, ConcatProperties, Zenon
<1>3. Len(s) \in Nat /\ Len(front) + Len(back) = Len(s) - 1
  <2>1. Len(s) \in Nat  OBVIOUS
  <2> HIDE DEF front, back
  <2>2. QED  BY <1>1, <2>1
<1>4. ASSUME NEW j \in 1..(Len(s) - 1)
      PROVE  RemoveAt(s, i)[j] = IF j < i THEN s[j] ELSE s[j + 1]
  <2>1. j \in 1..(Len(front) + Len(back))  BY <1>3, Zenon
  <2>2. CASE j < i
    <3>1. front[j] = s[j]  BY <2>2
    <3>2. j <= Len(front)  BY <1>1, <2>2, SMT
    <3>3. QED  BY <1>2, <2>1, <2>2, <3>1, <3>2, Zenon
  <2>3. CASE ~(j < i)
    <3>1. back[j - (i - 1)] = s[j + 1]  BY <2>3
    <3>2. ~(j <= Len(front))  BY <1>1, <2>3, SMT
    <3>3. QED  BY <1>1, <1>2, <2>1, <2>3, <3>1, <3>2, Zenon
  <2>4. QED  BY <2>2, <2>3, Zenon
<1>5. QED  BY <1>1, <1>2, <1>3, <1>4, Zenon

LEMMA ConsFacts ==
  ASSUME NEW S, NEW s \in Seq(S), NEW e \in S
  PROVE  /\ Cons(e, s) \in Seq(S)
         /\ Len(Cons(e, s)) = Len(s) + 1
         /\ \A j \in 1..(Len(s) + 1) :
              Cons(e, s)[j] = IF j = 1 THEN e ELSE s[j - 1]
BY DEF Cons

(* Byte counting: a value of n bytes stored under key k.                   *)
Slice(k, n) == {k} \X (1..n)

LEMMA SliceFacts ==
  ASSUME NEW k, NEW n \in Nat
  PROVE  IsFiniteSet(Slice(k, n)) /\ Cardinality(Slice(k, n)) = n
<1>1. IsFiniteSet(1..n) /\ Cardinality(1..n) = n
  BY FS_Interval
<1>2. IsFiniteSet({k}) /\ Cardinality({k}) = 1
  BY FS_Singleton
<1>3. QED  BY <1>1, <1>2, FS_Product DEF Slice

LEMMA AddSlice ==
  ASSUME NEW B, IsFiniteSet(B), NEW k, NEW n \in Nat, B \cap Slice(k, n) = {}
  PROVE  /\ IsFiniteSet(B \cup Slice(k, n))
         /\ Cardinality(B \cup Slice(k, n)) = Cardinality(B) + n
<1>1. Cardinality({}) = 0  BY FS_EmptySet
<1>2. Cardinality(B) \in Nat  BY FS_CardinalityType
<1>3. QED  BY <1>1, <1>2, SliceFacts, FS_Union

LEMMA DropSlice ==
  ASSUME NEW B, IsFiniteSet(B), NEW k, NEW n \in Nat, Slice(k, n) \subseteq B
  PROVE  /\ IsFiniteSet(B \ Slice(k, n))
         /\ Cardinality(B \ Slice(k, n)) = Cardinality(B) - n
         /\ Cardinality(B) - n \in Nat
<1>1. B \cap Slice(k, n) = Slice(k, n)  OBVIOUS
<1>2. IsFiniteSet(B \ Slice(k, n))  BY FS_Difference
<1>3. Cardinality(B \ Slice(k, n)) = Cardinality(B) - n
  <2>1. Cardinality(B \ Slice(k, n)) = Cardinality(B) - Cardinality(B \cap Slice(k, n))
    BY FS_Difference, Zenon
  <2>2. Cardinality(Slice(k, n)) = n  BY SliceFacts
  <2>3. QED  BY <1>1, <2>1, <2>2, Zenon
<1>4. QED  BY <1>2, <1>3, FS_CardinalityType

-----------------------------------------------------------------------------
(* The invariant over explicit arguments, so that erasing an entry and     *)
(* pushing one can be composed: put() of a present key and get() are an    *)
(* erase followed by a push.                                               *)
Shape(l, m, h) ==
  /\ l \in Seq(Nodes)
  /\ m \in [Keys -> Nodes \cup {NoNode}]
  /\ h \in [Nodes -> Entry]
  /\ \A i, j \in 1..Len(l) : l[i] = l[j] => i = j
  /\ \A i \in 1..Len(l) : m[h[l[i]].key] = l[i]
  /\ \A k \in Keys : m[k] # NoNode =>
       (\E i \in 1..Len(l) : l[i] = m[k]) /\ h[m[k]].key = k

Held(m) == {k \in Keys : m[k] # NoNode}

Stored(m, h) == UNION {Slice(k, ValSize[h[m[k]].val]) : k \in Held(m)}

Counted(m, h, c) ==
  /\ IsFiniteSet(Held(m))
  /\ IsFiniteSet(Stored(m, h)) /\ c = Cardinality(Stored(m, h))

(* Node n is listed and the entries before it all have their key in K.     *)
Guarded(l, h, n, K) ==
  /\ \E i \in 1..Len(l) : l[i] = n
  /\ \A i, j \in 1..Len(l) : l[j] = n /\ i < j => h[l[i]].key \in K

(* Erasing the entry of key k, found at position p.                        *)
LEMMA EraseShape ==
  ASSUME NEW l, NEW m, NEW h, Shape(l, m, h),
         NEW k \in Keys, m[k] # NoNode, NEW p \in 1..Len(l), l[p] = m[k]
  PROVE  /\ Shape(RemoveAt(l, p), [m EXCEPT ![k] = NoNode], h)
         /\ \A i \in 1..Len(RemoveAt(l, p)) : RemoveAt(l, p)[i] # m[k]
         /\ \A n, K : n # m[k] /\ Guarded(l, h, n, K)
                        => Guarded(RemoveAt(l, p), h, n, K)
<1> DEFINE r  == RemoveAt(l, p)
           m2 == [m EXCEPT ![k] = NoNode]
           up == [i \in 1..(Len(l) - 1) |-> IF i < p THEN i ELSE i + 1]
<1>1. l \in Seq(Nodes) /\ Len(l) \in Nat  BY DEF Shape
<1>2. /\ r \in Seq(Nodes)
      /\ Len(r) = Len(l) - 1
      /\ \A i \in 1..Len(r) : r[i] = l[up[i]]
  BY <1>1, RemoveAtFacts
<1>3. \A i \in 1..Len(r) : up[i] \in 1..Len(l) /\ up[i] # p
  BY <1>1, <1>2
<1>4. \A i, j \in 1..Len(r) : (up[i] = up[j] => i = j) /\ (i < j => up[i] < up[j])
  BY <1>1, <1>2
<1>5. \A i \in 1..Len(l) : i # p => \E j \in 1..Len(r) : up[j] = i
  <2>1. SUFFICES ASSUME NEW i \in 1..Len(l), i # p
                 PROVE  \E j \in 1..Len(r) : up[j] = i
    OBVIOUS
  <2>2. CASE i < p  BY <1>1, <1>2, <2>2
  <2>3. CASE i > p
    <3>1. i - 1 \in 1..Len(r) /\ up[i - 1] = i  BY <1>1, <1>2, <2>3
    <3>2. QED  BY <3>1
  <2>4. i < p \/ i > p  BY <1>1, <2>1
  <2>5. QED  BY <2>2, <2>3, <2>4
<1> HIDE DEF r, up
<1>s. /\ \A i, j \in 1..Len(l) : l[i] = l[j] => i = j
      /\ \A i \in 1..Len(l) : m[h[l[i]].key] = l[i]
  BY DEF Shape
<1>6. ASSUME NEW i \in 1..Len(r) PROVE r[i] # m[k]
  <2>1. r[i] = l[up[i]] /\ up[i] \in 1..Len(l) /\ up[i] # p
    BY <1>2, <1>3
  <2>2. QED  BY <1>s, <2>1
<1>7. Shape(r, m2, h)
  <2>1. m2 \in [Keys -> Nodes \cup {NoNode}] /\ h \in [Nodes -> Entry]
    BY DEF Shape
  <2>2. ASSUME NEW i \in 1..Len(r), NEW j \in 1..Len(r), r[i] = r[j]
        PROVE  i = j
    <3>1. l[up[i]] = l[up[j]]  BY <1>2, <2>2
    <3>2. up[i] = up[j]  BY <1>3, <1>s, <3>1
    <3>3. QED  BY <1>4, <3>2, Zenon
  <2>3. ASSUME NEW i \in 1..Len(r)
        PROVE  m2[h[r[i]].key] = r[i]
    <3>1. r[i] = l[up[i]] /\ up[i] \in 1..Len(l)  BY <1>2, <1>3
    <3>2. m[h[r[i]].key] = r[i] /\ r[i] # m[k]  BY <1>6, <1>s, <3>1
    <3>3. r[i] \in Nodes  BY <1>2, ElementOfSeq
    <3>4. h[r[i]].key \in Keys  BY <3>3 DEF Shape, Entry
    <3>5. QED  BY <2>1, <3>2, <3>4 DEF Shape
  <2>4. ASSUME NEW q \in Keys, m2[q] # NoNode
        PROVE  (\E i \in 1..Len(r) : r[i] = m2[q]) /\ h[m2[q]].key = q
    <3>1. q # k /\ m2[q] = m[q]  BY <2>4 DEF Shape
    <3>2. PICK i \in 1..Len(l) : l[i] = m[q] /\ h[m[q]].key = q
      BY <2>4, <3>1 DEF Shape
    <3>3. i # p  BY <3>1, <3>2 DEF Shape
    <3>4. QED  BY <1>2, <1>5, <3>1, <3>2, <3>3
  <2>5. QED  BY <1>2, <2>1, <2>2, <2>3, <2>4 DEF Shape
<1>8. ASSUME NEW n, NEW K, n # m[k], Guarded(l, h, n, K)
      PROVE  Guarded(r, h, n, K)
  <2>1. PICK i \in 1..Len(l) : l[i] = n  BY <1>8 DEF Guarded
  <2>2. \E j \in 1..Len(r) : r[j] = n  BY <1>2, <1>5, <1>8, <2>1
  <2>3. ASSUME NEW a \in 1..Len(r), NEW b \in 1..Len(r), r[b] = n, a < b
        PROVE  h[r[a]].key \in K
    <3>1. /\ up[a] \in 1..Len(l) /\ up[b] \in 1..Len(l) /\ up[a] < up[b]
          /\ r[a] = l[up[a]] /\ l[up[b]] = n
      BY <1>2, <1>3, <1>4, <2>3, Zenon
    <3>2. QED  BY <1>8, <3>1 DEF Guarded
  <2>4. QED  BY <2>2, <2>3 DEF Guarded
<1>9. QED  BY <1>6, <1>7, <1>8 DEF r

(* Pushing node n, so far unlisted, for a key k without an entry.          *)
LEMMA PushShape ==
  ASSUME NEW l, NEW m, NEW h, Shape(l, m, h),
         NEW k \in Keys, m[k] = NoNode, NEW e \in Entry, e.key = k,
         NEW n \in Nodes, \A i \in 1..Len(l) : l[i] # n
  PROVE  /\ Shape(Cons(n, l), [m EXCEPT ![k] = n], [h EXCEPT ![n] = e])
         /\ \A q, K : Guarded(l, h, q, K)
              => Guarded(Cons(n, l), [h EXCEPT ![n] = e], q, K \cup {k})
         /\ \A K : Guarded(Cons(n, l), [h EXCEPT ![n] = e], n, K)
<1> DEFINE c  == Cons(n, l)
           m2 == [m EXCEPT ![k] = n]
           h2 == [h EXCEPT ![n] = e]
<1>1. l \in Seq(Nodes) /\ Len(l) \in Nat  BY DEF Shape
<1>2. /\ c \in Seq(Nodes)
      /\ Len(c) = Len(l) + 1
      /\ \A j \in 1..Len(c) : c[j] = IF j = 1 THEN n ELSE l[j - 1]
  BY <1>1, ConsFacts
<1> HIDE DEF c
<1>3. c[1] = n /\ 1 \in 1..Len(c)  BY <1>1, <1>2
<1>4. ASSUME NEW j \in 1..Len(c), j # 1
      PROVE  j - 1 \in 1..Len(l) /\ c[j] = l[j - 1] /\ c[j] # n
  BY <1>1, <1>2, <1>4
<1>5. ASSUME NEW j \in 1..Len(l)
      PROVE  j + 1 \in 1..Len(c) /\ c[j + 1] = l[j]
  BY <1>1, <1>2
<1>6. /\ \A i, j \in 1..Len(l) : l[i] = l[j] => i = j
      /\ \A i \in 1..Len(l) : m[h[l[i]].key] = l[i]
  BY DEF Shape
<1>7. m2 \in [Keys -> Nodes \cup {NoNode}] /\ h2 \in [Nodes -> Entry]
  BY DEF Shape
<1>8. \A q \in Nodes : q # n => h2[q] = h[q]
  BY DEF Shape
<1>9. h2[n] = e  BY DEF Shape
<1> HIDE DEF h2
<1>10. ASSUME NEW i \in 1..Len(c), NEW j \in 1..Len(c), c[i] = c[j]
       PROVE  i = j
  <2>1. CASE i = 1 \/ j = 1  BY <1>3, <1>4, <1>10, <2>1, Zenon
  <2>2. CASE i # 1 /\ j # 1
    <3>1. i - 1 = j - 1  BY <1>4, <1>6, <1>10, <2>2
    <3>2. QED  BY <3>1
  <2>3. QED  BY <2>1, <2>2
<1>11. ASSUME NEW i \in 1..Len(c)
       PROVE  m2[h2[c[i]].key] = c[i]
  <2>1. CASE i = 1
    <3>1. h2[c[i]].key = k  BY <1>3, <1>9, <2>1
    <3>2. QED  BY <1>3, <2>1, <3>1 DEF Shape
  <2>2. CASE i # 1
    <3>1. c[i] = l[i - 1] /\ i - 1 \in 1..Len(l) /\ c[i] # n
      BY <1>4, <2>2
    <3>2. c[i] \in Nodes  BY <1>2, ElementOfSeq
    <3>3. h2[c[i]] = h[c[i]]  BY <1>8, <3>1, <3>2
    <3>4. m[h[c[i]].key] = c[i]  BY <1>6, <3>1
    <3>5. h[c[i]].key \in Keys /\ h[c[i]].key # k
      BY <3>2, <3>4, CacheAssumption DEF Shape, Entry
    <3>6. QED  BY <3>3, <3>4, <3>5 DEF Shape
  <2>3. QED  BY <2>1, <2>2
<1>12. ASSUME NEW q \in Keys, m2[q] # NoNode
       PROVE  (\E i \in 1..Len(c) : c[i] = m2[q]) /\ h2[m2[q]].key = q
  <2>1. CASE q = k
    <3>1. m2[q] = n  BY <2>1 DEF Shape
    <3>2. QED  BY <1>3, <1>9, <2>1, <3>1
  <2>2. CASE q # k
    <3>1. m2[q] = m[q] /\ m[q] \in Nodes  BY <1>12, <2>2 DEF Shape
    <3>2. PICK i \in 1..Len(l) : l[i] = m[q] /\ h[m[q]].key = q
      BY <1>12, <3>1 DEF Shape
    <3>3. m[q] # n  BY <3>2
    <3>4. QED  BY <1>5, <1>8, <3>1, <3>2, <3>3
  <2>3. QED  BY <2>1, <2>2
<1>13. Shape(c, m2, h2)
  <2> HIDE DEF m2
  <2>1. QED  BY <1>2, <1>7, <1>10, <1>11, <1>12 DEF Shape
<1>14. ASSUME NEW q, NEW K, Guarded(l, h, q, K)
       PROVE  Guarded(c, h2, q, K \cup {k})
  <2>1. PICK i \in 1..Len(l) : l[i] = q  BY <1>14 DEF Guarded
  <2>2. \E j \in 1..Len(c) : c[j] = q  BY <1>5, <2>1
  <2>3. ASSUME NEW a \in 1..Len(c), NEW b \in 1..Len(c), c[b] = q, a < b
        PROVE  h2[c[a]].key \in K \cup {k}
    <3>1. CASE a = 1  BY <1>3, <1>9, <3>1
    <3>2. CASE a # 1
      <4>1. b # 1  BY <1>2, <2>3, <3>2
      <4>2. /\ a - 1 \in 1..Len(l) /\ c[a] = l[a - 1] /\ c[a] # n
            /\ b - 1 \in 1..Len(l) /\ c[b] = l[b - 1]
        BY <1>4, <3>2, <4>1
      <4>3. a - 1 < b - 1  BY <2>3
      <4>4. h[c[a]].key \in K  BY <1>14, <2>3, <4>2, <4>3 DEF Guarded
      <4>5. c[a] \in Nodes  BY <1>2, ElementOfSeq
      <4>6. QED  BY <1>8, <4>2, <4>4, <4>5
    <3>3. QED  BY <3>1, <3>2
  <2>4. QED  BY <2>2, <2>3 DEF Guarded
<1>15. ASSUME NEW K PROVE Guarded(c, h2, n, K)
  <2>1. \A j \in 1..Len(c) : c[j] = n => j = 1  BY <1>4
  <2>2. QED  BY <1>2, <1>3, <2>1 DEF Guarded
<1>16. QED  BY <1>13, <1>14, <1>15 DEF c, h2

(* What erasing and pushing do to the byte count.                          *)
LEMMA StoredElement ==
  ASSUME NEW m, NEW h, NEW x
  PROVE  x \in Stored(m, h) <=> /\ x[1] \in Held(m)
                                /\ x \in Slice(x[1], ValSize[h[m[x[1]]].val])
<1>1. ASSUME x \in Stored(m, h)
      PROVE  x[1] \in Held(m) /\ x \in Slice(x[1], ValSize[h[m[x[1]]].val])
  <2>1. PICK q \in Held(m) : x \in Slice(q, ValSize[h[m[q]].val])
    BY <1>1 DEF Stored
  <2>2. x[1] = q  BY <2>1 DEF Slice
  <2>3. QED  BY <2>1, <2>2
<1>2. ASSUME x[1] \in Held(m), x \in Slice(x[1], ValSize[h[m[x[1]]].val])
      PROVE  x \in Stored(m, h)
  BY <1>2 DEF Stored
<1>3. QED  BY <1>1, <1>2

LEMMA EraseCounted ==
  ASSUME NEW l, NEW m, NEW h, Shape(l, m, h),
         NEW k \in Keys, m[k] # NoNode, NEW c, Counted(m, h, c)
  PROVE  /\ c - ValSize[h[m[k]].val] \in Nat
         /\ Counted([m EXCEPT ![k] = NoNode], h, c - ValSize[h[m[k]].val])
         /\ Cardinality(Held([m EXCEPT ![k] = NoNode])) <= Cardinality(Held(m))
<1> DEFINE n  == ValSize[h[m[k]].val]
           m2 == [m EXCEPT ![k] = NoNode]
<1>1. n \in Nat  BY CacheAssumption DEF Shape, Entry
<1>2. k \in Held(m) /\ Held(m2) = Held(m) \ {k}
  BY DEF Held, Shape
<1>3. \A q \in Held(m2) : m2[q] = m[q]
  BY DEF Held, Shape
<1> HIDE DEF n, m2
<1>4. Slice(k, n) \subseteq Stored(m, h)
  BY <1>2 DEF Stored, n
<1>5. Stored(m2, h) = Stored(m, h) \ Slice(k, n)
  <2>1. ASSUME NEW x
        PROVE  x \in Stored(m2, h) <=> x \in Stored(m, h) /\ x \notin Slice(k, n)
    <3>1. CASE x[1] = k
      <4>1. x \notin Stored(m2, h)  BY <1>2, <3>1, StoredElement, Zenon
      <4>2. x \in Stored(m, h) => x \in Slice(k, n)
        BY <3>1, StoredElement, Zenon DEF n
      <4>3. QED  BY <4>1, <4>2
    <3>2. CASE x[1] # k
      <4>1. x \notin Slice(k, n)  BY <3>2 DEF Slice
      <4>2. x[1] \in Held(m2) <=> x[1] \in Held(m)  BY <1>2, <3>2
      <4>3. x \in Stored(m2, h) <=> x \in Stored(m, h)
        <5>1. /\ x \in Stored(m, h) <=>
                   x[1] \in Held(m) /\ x \in Slice(x[1], ValSize[h[m[x[1]]].val])
              /\ x \in Stored(m2, h) <=>
                   x[1] \in Held(m2) /\ x \in Slice(x[1], ValSize[h[m2[x[1]]].val])
          BY StoredElement, Zenon
        <5>2. QED  BY <1>3, <4>2, <5>1
      <4>4. QED  BY <4>1, <4>3
    <3>3. QED  BY <3>1, <3>2
  <2>2. QED  BY <2>1
<1>6. IsFiniteSet(Held(m2)) /\ Cardinality(Held(m2)) <= Cardinality(Held(m))
  BY <1>2, FS_Subset DEF Counted
<1>7. /\ IsFiniteSet(Stored(m2, h)) /\ c - n = Cardinality(Stored(m2, h))
      /\ c - n \in Nat
  BY <1>1, <1>4, <1>5, DropSlice DEF Counted
<1>8. QED  BY <1>6, <1>7 DEF Counted, n, m2

LEMMA PushCounted ==
  ASSUME NEW l, NEW m, NEW h, Shape(l, m, h), NEW c, Counted(m, h, c),
         NEW k \in Keys, m[k] = NoNode, NEW e \in Entry, e.key = k,
         NEW n \in Nodes, \A i \in 1..Len(l) : l[i] # n
  PROVE  /\ c + ValSize[e.val] \in Nat
         /\ Counted([m EXCEPT ![k] = n], [h EXCEPT ![n] = e], c + ValSize[e.val])
<1> DEFINE z  == ValSize[e.val]
           m2 == [m EXCEPT ![k] = n]
           h2 == [h EXCEPT ![n] = e]
<1>1. z \in Nat  BY CacheAssumption DEF Entry
<1>2. k \notin Held(m) /\ Held(m2) = Held(m) \cup {k}
  BY CacheAssumption DEF Held, Shape
<1>3. \A q \in Held(m) : m2[q] = m[q] /\ h2[m2[q]] = h[m[q]]
  <2>1. ASSUME NEW q \in Held(m)
        PROVE  m2[q] = m[q] /\ h2[m2[q]] = h[m[q]]
    <3>1. q # k /\ q \in Keys /\ m[q] # NoNode  BY <1>2 DEF Held
    <3>2. m2[q] = m[q]  BY <3>1 DEF Shape
    <3>3. m[q] # n /\ m[q] \in Nodes  BY <3>1 DEF Shape
    <3>4. QED  BY <3>2, <3>3 DEF Shape
  <2>2. QED  BY <2>1
<1>4. ValSize[h2[m2[k]].val] = z
  BY DEF Shape
<1> HIDE DEF z, m2, h2
<1>5. Stored(m2, h2) = Stored(m, h) \cup Slice(k, z)
  <2>1. ASSUME NEW x
        PROVE  x \in Stored(m2, h2) <=> x \in Stored(m, h) \/ x \in Slice(k, z)
    <3>1. CASE x[1] = k
      <4>1. x \notin Stored(m, h)  BY <1>2, <3>1, StoredElement, Zenon
      <4>2. x \in Stored(m2, h2) <=> x \in Slice(k, z)
        <5>1. x[1] \in Held(m2)  BY <1>2, <3>1
        <5>2. QED  BY <1>4, <3>1, <5>1, StoredElement, Zenon
      <4>3. QED  BY <4>1, <4>2
    <3>2. CASE x[1] # k
      <4>1. x \notin Slice(k, z)  BY <3>2 DEF Slice
      <4>2. x[1] \in Held(m2) <=> x[1] \in Held(m)  BY <1>2, <3>2
      <4>3. x \in Stored(m2, h2) <=> x \in Stored(m, h)
        <5>1. /\ x \in Stored(m, h) <=>
                   x[1] \in Held(m) /\ x \in Slice(x[1], ValSize[h[m[x[1]]].val])
              /\ x \in Stored(m2, h2) <=>
                   x[1] \in Held(m2) /\ x \in Slice(x[1], ValSize[h2[m2[x[1]]].val])
          BY StoredElement, Zenon
        <5>2. QED  BY <1>3, <4>2, <5>1
      <4>4. QED  BY <4>1, <4>3
    <3>3. QED  BY <3>1, <3>2
  <2>2. QED  BY <2>1
<1>6. Stored(m, h) \cap Slice(k, z) = {}
  <2>1. ASSUME NEW x \in Stored(m, h) PROVE x \notin Slice(k, z)
    <3>1. x[1] # k  BY <1>2, StoredElement
    <3>2. QED  BY <3>1 DEF Slice
  <2>2. QED  BY <2>1
<1>7. IsFiniteSet(Held(m2))
  BY <1>2, FS_AddElement DEF Counted
<1>8. c \in Nat  BY FS_CardinalityType DEF Counted
<1>9. IsFiniteSet(Stored(m2, h2)) /\ c + z = Cardinality(Stored(m2, h2))
  BY <1>1, <1>5, <1>6, AddSlice DEF Counted
<1>10. QED  BY <1>1, <1>7, <1>8, <1>9 DEF Counted, z, m2, h2

-----------------------------------------------------------------------------
(* The invariant in terms of those predicates, before and after a step.    *)
Readers(l, h, rf, dn, tc) ==
  \A r \in Threads : rf[r] # NoNode /\ r \notin dn => Guarded(l, h, rf[r], tc[r])

Others(mb, mx, rf, dn, tc) ==
  /\ mb \in Nat
  /\ mx \in Threads \cup {NoThread}
  /\ rf \in [Threads -> Nodes \cup {NoNode}]
  /\ dn \in SUBSET Threads
  /\ tc \in [Threads -> SUBSET Keys]

LEMMA StoredIsBytes ==
  BytesOf(Keys) = Stored(map, heap) /\ Cached = Held(map)
<1>1. Cached = Held(map) /\ Keys \cap Cached = Held(map)
  BY DEF Cached, Held
<1>2. QED  BY <1>1, Zenon DEF BytesOf, Stored, Slice, SizeAt

LEMMA Unfold ==
  IInv => /\ Shape(list, map, heap)
          /\ Counted(map, heap, currentSize)
          /\ currentSize \in Nat
          /\ Others(maxBytes, mutex, ref, dangling, touched)
          /\ Readers(list, heap, ref, dangling, touched)
<1> SUFFICES ASSUME IInv
             PROVE  /\ Shape(list, map, heap)
                    /\ Counted(map, heap, currentSize)
                    /\ currentSize \in Nat
                    /\ Others(maxBytes, mutex, ref, dangling, touched)
                    /\ Readers(list, heap, ref, dangling, touched)
  OBVIOUS
<1>1. Shape(list, map, heap)
  BY DEF IInv, TypeOK, IndexMatchesList, Shape, Live, Cached
<1>2. Counted(map, heap, currentSize)
  BY StoredIsBytes DEF IInv, AccountExact, Counted
<1>3. currentSize \in Nat /\ Others(maxBytes, mutex, ref, dangling, touched)
  BY DEF IInv, TypeOK, Others
<1>4. Readers(list, heap, ref, dangling, touched)
  BY DEF IInv, RecentOnlyTouched, Readers, Guarded, Live
<1>5. QED  BY <1>1, <1>2, <1>3, <1>4

LEMMA Fold ==
  /\ Shape(list, map, heap)
  /\ Counted(map, heap, currentSize)
  /\ currentSize \in Nat
  /\ Others(maxBytes, mutex, ref, dangling, touched)
  /\ Readers(list, heap, ref, dangling, touched)
  /\ Released
  => IInv
<1> SUFFICES ASSUME Shape(list, map, heap),
                    Counted(map, heap, currentSize),
                    currentSize \in Nat,
                    Others(maxBytes, mutex, ref, dangling, touched),
                    Readers(list, heap, ref, dangling, touched),
                    Released
             PROVE  IInv
  OBVIOUS
<1>1. TypeOK
  BY DEF Shape, Others, TypeOK
<1>2. IndexMatchesList
  BY DEF Shape, IndexMatchesList, Live, Cached
<1>3. AccountExact /\ IsFiniteSet(Cached)
  BY StoredIsBytes DEF AccountExact, Counted
<1>4. RecentOnlyTouched
  BY DEF RecentOnlyTouched, Readers, Guarded, Live
<1>5. QED  BY <1>1, <1>2, <1>3, <1>4 DEF IInv

LEMMA Initially == Init => IInv
<1> SUFFICES ASSUME Init PROVE IInv  OBVIOUS
<1>1. Shape(list, map, heap)
  BY CacheAssumption DEF Init, Shape
<1>2. Held(map) = {} /\ Stored(map, heap) = {}
  BY DEF Init, Held, Stored
<1>3. Counted(map, heap, currentSize) /\ currentSize \in Nat
  BY <1>2, FS_EmptySet DEF Counted, Init
<1>4. Others(maxBytes, mutex, ref, dangling, touched)
  BY CacheAssumption DEF Init, Others
<1>5. Readers(list, heap, ref, dangling, touched)
  BY DEF Init, Readers
<1>6. Released
  BY <1>2, StoredIsBytes, FS_EmptySet, CacheAssumption DEF Released, NeedCleanup, Init
<1>7. QED  BY <1>1, <1>3, <1>4, <1>5, <1>6, Fold

LEMMA FoldNext ==
  (/\ Shape(list, map, heap)
   /\ Counted(map, heap, currentSize)
   /\ currentSize \in Nat
   /\ Others(maxBytes, mutex, ref, dangling, touched)
   /\ Readers(list, heap, ref, dangling, touched)
   /\ Released)'
  => IInv'
BY Fold, PTL

-----------------------------------------------------------------------------
(* One lemma per action.                                                   *)
LEMMA FindNode ==
  ASSUME IInv, NEW k \in Keys, map[k] # NoNode
  PROVE  IndexOf(map[k]) \in 1..Len(list) /\ list[IndexOf(map[k])] = map[k]
<1>1. \E i \in 1..Len(list) : list[i] = map[k]
  BY Unfold DEF Shape
<1>2. QED  BY <1>1 DEF IndexOf

LEMMA TouchFacts ==
  ASSUME IInv, NEW k \in Keys, Touch(k)
  PROVE  /\ touched' \in [Threads -> SUBSET Keys]
         /\ \A r \in Threads : ref[r] # NoNode => touched'[r] = touched[r] \cup {k}
         /\ \A r \in Threads : ref[r] = NoNode => touched'[r] = {}
BY Unfold DEF Touch, Others

LEMMA PutNewStep ==
  ASSUME IInv, NEW t \in Threads, NEW k \in Keys, NEW v \in Values, PutNew(t, k, v)
  PROVE  IInv'
<1> DEFINE e == [key |-> k, val |-> v]
<1>1. PICK n \in Nodes \ Live :
        /\ list' = Cons(n, list)
        /\ map' = [map EXCEPT ![k] = n]
        /\ heap' = [heap EXCEPT ![n] = e]
  BY DEF PutNew, onInsertValue
<1>2. e \in Entry /\ e.key = k /\ e.val = v  BY DEF Entry
<1>3. map[k] = NoNode /\ \A i \in 1..Len(list) : list[i] # n
  BY <1>1 DEF PutNew, Live
<1> HIDE DEF e
<1>4. Shape(list, map, heap) /\ Counted(map, heap, currentSize)
  BY Unfold
<1>5. Shape(list', map', heap')
  BY <1>1, <1>2, <1>3, <1>4, PushShape
<1>6. Counted(map', heap', currentSize') /\ currentSize' \in Nat
  <2>1. currentSize' = currentSize + ValSize[e.val]  BY <1>2 DEF PutNew, onInsertValue
  <2>2. QED  BY <1>1, <1>2, <1>3, <1>4, <2>1, PushCounted
<1>7. Others(maxBytes', mutex', ref', dangling', touched')
  BY Unfold, TouchFacts DEF PutNew, Others
<1>8. Readers(list', heap', ref', dangling', touched')
  <2>1. ASSUME NEW r \in Threads, ref[r] # NoNode, r \notin dangling
        PROVE  Guarded(list', heap', ref[r], touched'[r])
    <3>1. Guarded(list, heap, ref[r], touched[r])
      BY <2>1, Unfold DEF Readers
    <3>2. Guarded(list', heap', ref[r], touched[r] \cup {k})
      BY <1>1, <1>2, <1>3, <1>4, <3>1, PushShape
    <3>3. QED  BY <2>1, <3>2, TouchFacts DEF PutNew
  <2>2. QED  BY <2>1 DEF Readers, PutNew
<1>9. Released'
  BY CacheAssumption DEF Released, PutNew
<1>10. QED  BY <1>5, <1>6, <1>7, <1>8, <1>9, FoldNext

LEMMA PutChangeStep ==
  ASSUME IInv, NEW t \in Threads, NEW k \in Keys, NEW v \in Values, PutChange(t, k, v)
  PROVE  IInv'
<1> DEFINE e    == [key |-> k, val |-> v]
           old  == map[k]
           rest == RemoveAt(list, IndexOf(old))
           m0   == [map EXCEPT ![k] = NoNode]
<1>1. PICK n \in (Nodes \ Live) \cup {old} :
        /\ list' = Cons(n, rest)
        /\ map' = [map EXCEPT ![k] = n]
        /\ heap' = [heap EXCEPT ![n] = e]
  BY DEF PutChange, onChangeValue
<1>2. e \in Entry /\ e.key = k /\ e.val = v  BY DEF Entry
<1>3. map[k] # NoNode  BY DEF PutChange
<1>4. Shape(list, map, heap) /\ Counted(map, heap, currentSize)
  BY Unfold
<1>5. IndexOf(old) \in 1..Len(list) /\ list[IndexOf(old)] = old
  BY <1>3, FindNode
<1> HIDE DEF e
<1>6. /\ Shape(rest, m0, heap)
      /\ \A i \in 1..Len(rest) : rest[i] # old
      /\ \A q, K : q # old /\ Guarded(list, heap, q, K) => Guarded(rest, heap, q, K)
  BY <1>3, <1>4, <1>5, EraseShape
<1>7. Counted(m0, heap, currentSize - SizeAt(old))
  BY <1>3, <1>4, EraseCounted DEF SizeAt
<1>8. n \in Nodes /\ \A i \in 1..Len(rest) : rest[i] # n
  <2>1. n \in Nodes  BY <1>1, <1>3, <1>4 DEF Shape
  <2>2. ASSUME NEW i \in 1..Len(rest) PROVE rest[i] # n
    <3>1. rest[i] \in Live /\ rest[i] # old
      <4>1. list \in Seq(Nodes) /\ Len(list) \in Nat  BY <1>4 DEF Shape
      <4>2. /\ Len(rest) = Len(list) - 1
            /\ \A j \in 1..(Len(list) - 1) :
                 rest[j] = IF j < IndexOf(old) THEN list[j] ELSE list[j + 1]
        BY <1>5, <4>1, RemoveAtFacts
      <4> HIDE DEF rest
      <4>3. \E j \in 1..Len(list) : rest[i] = list[j]
        BY <1>5, <4>1, <4>2
      <4>4. QED  BY <1>6, <4>3 DEF Live
    <3>2. QED  BY <1>1, <3>1
  <2>3. QED  BY <2>1, <2>2
<1>9. m0[k] = NoNode /\ map' = [m0 EXCEPT ![k] = n]
  BY <1>1, <1>4 DEF Shape
<1> HIDE DEF rest, m0
<1>10. Shape(list', map', heap')
  <2>1. Shape(Cons(n, rest), [m0 EXCEPT ![k] = n], [heap EXCEPT ![n] = e])
    BY <1>2, <1>6, <1>8, <1>9, PushShape, Zenon
  <2>2. QED  BY <1>1, <1>9, <2>1, Zenon
<1>11. Counted(map', heap', currentSize') /\ currentSize' \in Nat
  <2>1. currentSize' = (currentSize - SizeAt(old)) + ValSize[e.val]
    BY <1>2 DEF PutChange, onChangeValue
  <2> DEFINE c == currentSize - SizeAt(old)
  <2>2. /\ Shape(rest, m0, heap) /\ Counted(m0, heap, c)
        /\ m0[k] = NoNode /\ e \in Entry /\ e.key = k
        /\ n \in Nodes /\ \A i \in 1..Len(rest) : rest[i] # n
    BY <1>2, <1>6, <1>7, <1>8, <1>9
  <2> HIDE DEF c
  <2>3. /\ c + ValSize[e.val] \in Nat
        /\ Counted([m0 EXCEPT ![k] = n], [heap EXCEPT ![n] = e], c + ValSize[e.val])
    BY <2>2, PushCounted, ZenonT(60)
  <2>4. QED  BY <1>1, <1>9, <2>1, <2>3, Zenon DEF c
<1>12. dangling' = dangling \cup {r \in Threads : ref[r] = old}
  BY DEF PutChange, Free
<1>13. Others(maxBytes', mutex', ref', dangling', touched')
  BY <1>12, Unfold, TouchFacts DEF PutChange, Others
<1>14. Readers(list', heap', ref', dangling', touched')
  <2>1. ASSUME NEW r \in Threads, ref[r] # NoNode, r \notin dangling'
        PROVE  Guarded(list', heap', ref[r], touched'[r])
    <3>1. Guarded(list, heap, ref[r], touched[r]) /\ ref[r] # old
      BY <1>12, <2>1, Unfold DEF Readers
    <3>2. Guarded(rest, heap, ref[r], touched[r])
      BY <1>6, <3>1
    <3>3. Guarded(list', heap', ref[r], touched[r] \cup {k})
      BY <1>1, <1>2, <1>6, <1>8, <1>9, <3>2, PushShape
    <3>4. QED  BY <2>1, <3>3, TouchFacts DEF PutChange
  <2>2. QED  BY <2>1 DEF Readers, PutChange
<1>15. Released'
  BY CacheAssumption DEF Released, PutChange
<1>16. QED  BY <1>10, <1>11, <1>13, <1>14, <1>15, FoldNext

LEMMA GetStep ==
  ASSUME IInv, NEW t \in Threads, NEW k \in Keys, Get(t, k)
  PROVE  IInv'
<1> DEFINE n    == map[k]
           rest == RemoveAt(list, IndexOf(n))
           m0   == [map EXCEPT ![k] = NoNode]
<1>1. map[k] # NoNode /\ list' = Cons(n, rest)  BY DEF Get, MoveToFront
<1>2. Shape(list, map, heap) /\ Counted(map, heap, currentSize)
  BY Unfold
<1>3. IndexOf(n) \in 1..Len(list) /\ list[IndexOf(n)] = n
  BY <1>1, FindNode
<1>4. /\ Shape(rest, m0, heap)
      /\ \A i \in 1..Len(rest) : rest[i] # n
      /\ \A q, K : q # n /\ Guarded(list, heap, q, K) => Guarded(rest, heap, q, K)
  BY <1>1, <1>2, <1>3, EraseShape
<1>5. n \in Nodes /\ heap[n] \in Entry /\ heap[n].key = k
  BY <1>1, <1>2 DEF Shape
<1>6. m0[k] = NoNode /\ map = [m0 EXCEPT ![k] = n] /\ heap = [heap EXCEPT ![n] = heap[n]]
  <2>1. map \in [Keys -> Nodes \cup {NoNode}] /\ heap \in [Nodes -> Entry]
    BY <1>2 DEF Shape
  <2>2. QED  BY <1>5, <2>1
<1> HIDE DEF rest, m0, n
<1>7. /\ Shape(Cons(n, rest), [m0 EXCEPT ![k] = n], [heap EXCEPT ![n] = heap[n]])
      /\ \A q, K : Guarded(rest, heap, q, K) =>
           Guarded(Cons(n, rest), [heap EXCEPT ![n] = heap[n]], q, K \cup {k})
      /\ \A K : Guarded(Cons(n, rest), [heap EXCEPT ![n] = heap[n]], n, K)
  BY <1>4, <1>5, <1>6, PushShape
<1>8. /\ Shape(list', map, heap)
      /\ \A q, K : Guarded(rest, heap, q, K) => Guarded(list', heap, q, K \cup {k})
      /\ \A K : Guarded(list', heap, n, K)
  BY <1>1, <1>6, <1>7
<1>9. Shape(list', map', heap')  BY <1>8 DEF Get, MoveToFront
<1>10. Counted(map', heap', currentSize') /\ currentSize' \in Nat
  BY <1>2, Unfold DEF Get, MoveToFront
<1>11. Others(maxBytes', mutex', ref', dangling', touched')
  <2>1. ref' \in [Threads -> Nodes \cup {NoNode}]
    BY <1>5, Unfold DEF Get, MoveToFront, Others, n
  <2>2. QED  BY <2>1, Unfold, TouchFacts DEF Get, MoveToFront, Others
<1>12. Readers(list', heap', ref', dangling', touched')
  <2>1. ASSUME NEW r \in Threads, ref'[r] # NoNode, r \notin dangling'
        PROVE  Guarded(list', heap', ref'[r], touched'[r])
    <3>1. CASE ref'[r] = n  BY <1>8, <3>1 DEF Get, MoveToFront
    <3>2. CASE ref'[r] # n
      <4>1. ref'[r] = ref[r]
        BY <3>2, Unfold DEF Get, MoveToFront, Others, n
      <4>2. Guarded(list, heap, ref[r], touched[r])
        BY <2>1, <4>1, Unfold DEF Readers, Get
      <4>3. Guarded(list', heap, ref[r], touched[r] \cup {k})
        BY <1>4, <1>8, <3>2, <4>1, <4>2
      <4>4. touched'[r] = touched[r] \cup {k}
        BY <2>1, <4>1, TouchFacts DEF Get
      <4>5. QED  BY <4>1, <4>3, <4>4 DEF Get, MoveToFront
    <3>3. QED  BY <3>1, <3>2
  <2>2. QED  BY <2>1 DEF Readers
<1>13. Released'
  BY DEF IInv, Released, NeedCleanup, Cached, Get
<1>14. QED  BY <1>9, <1>10, <1>11, <1>12, <1>13, FoldNext

LEMMA CopyStep ==
  ASSUME IInv, NEW t \in Threads, Copy(t)
  PROVE  IInv'
<1>1. /\ Shape(list', map', heap')
      /\ Counted(map', heap', currentSize') /\ currentSize' \in Nat
  BY Unfold DEF Copy
<1>2. Others(maxBytes', mutex', ref', dangling', touched')
  BY Unfold DEF Copy, Others
<1>3. Readers(list', heap', ref', dangling', touched')
  <2>1. ASSUME NEW r \in Threads, ref'[r] # NoNode, r \notin dangling'
        PROVE  Guarded(list', heap', ref'[r], touched'[r])
    <3>1. r # t  BY <2>1, Unfold DEF Copy, Others
    <3>2. ref'[r] = ref[r] /\ touched'[r] = touched[r] /\ r \notin dangling
      BY <2>1, <3>1, Unfold DEF Copy, Others
    <3>3. QED  BY <2>1, <3>2, Unfold DEF Readers, Copy
  <2>2. QED  BY <2>1 DEF Readers
<1>4. Released'
  BY DEF IInv, Released, NeedCleanup, Cached, Copy
<1>5. QED  BY <1>1, <1>2, <1>3, <1>4, FoldNext

(* remove() and one turn of the eviction loop both erase a listed entry.   *)
LEMMA EraseStep ==
  ASSUME IInv, NEW k \in Keys, map[k] # NoNode,
         NEW p \in 1..Len(list), list[p] = map[k],
         list' = RemoveAt(list, p),
         map' = [map EXCEPT ![k] = NoNode],
         currentSize' = currentSize - SizeAt(map[k]),
         Free(map[k]),
         UNCHANGED <<heap, maxBytes, mutex, ref, touched>>
  PROVE  /\ Shape(list', map', heap')
         /\ Counted(map', heap', currentSize') /\ currentSize' \in Nat
         /\ Others(maxBytes', mutex', ref', dangling', touched')
         /\ Readers(list', heap', ref', dangling', touched')
         /\ currentSize' <= currentSize
         /\ Cardinality(Cached') <= Cardinality(Cached)
<1>1. Shape(list, map, heap) /\ Counted(map, heap, currentSize) /\ currentSize \in Nat
  BY Unfold
<1>2. /\ Shape(list', map', heap)
      /\ \A q, K : q # map[k] /\ Guarded(list, heap, q, K) => Guarded(list', heap, q, K)
  BY <1>1, EraseShape
<1>3. /\ Counted(map', heap, currentSize') /\ currentSize' \in Nat
      /\ Cardinality(Held(map')) <= Cardinality(Held(map))
  BY <1>1, EraseCounted DEF SizeAt
<1>4. SizeAt(map[k]) \in Nat
  BY <1>1, CacheAssumption DEF SizeAt, Shape, Entry
<1>5. Others(maxBytes', mutex', ref', dangling', touched')
  BY Unfold DEF Free, Others
<1>6. Readers(list', heap', ref', dangling', touched')
  BY <1>2, Unfold DEF Readers, Free
<1>7. Held(map) = Cached /\ Held(map') = Cached'
  BY DEF Held, Cached
<1>8. QED  BY <1>1, <1>2, <1>3, <1>4, <1>5, <1>6, <1>7

LEMMA RemoveStep ==
  ASSUME IInv, NEW t \in Threads, NEW k \in Keys, RemoveKey(t, k)
  PROVE  IInv'
<1>1. map[k] # NoNode  BY DEF RemoveKey
<1>2. IndexOf(map[k]) \in 1..Len(list) /\ list[IndexOf(map[k])] = map[k]
  BY <1>1, FindNode
<1>3. /\ Shape(list', map', heap')
      /\ Counted(map', heap', currentSize') /\ currentSize' \in Nat
      /\ Others(maxBytes', mutex', ref', dangling', touched')
      /\ Readers(list', heap', ref', dangling', touched')
      /\ currentSize' <= currentSize
      /\ Cardinality(Cached') <= Cardinality(Cached)
  BY <1>1, <1>2, EraseStep DEF RemoveKey, onDeleteValue, EraseKey
<1>4. Released'
  <2>1. ~NeedCleanup /\ maxBytes' = maxBytes  BY DEF IInv, Released, RemoveKey, Enter
  <2>2. /\ Cardinality(Cached') \in Nat /\ Cardinality(Cached) \in Nat
    <3>1. IsFiniteSet(Cached) /\ Held(map') = Cached'  BY DEF IInv, Held, Cached
    <3>2. IsFiniteSet(Cached')  BY <1>3, <3>1 DEF Counted
    <3>3. QED  BY <3>1, <3>2, FS_CardinalityType
  <2>3. currentSize \in Nat /\ maxBytes \in Nat  BY Unfold DEF Others
  <2>4. QED  BY <1>3, <2>1, <2>2, <2>3, CacheAssumption DEF Released, NeedCleanup
<1>5. QED  BY <1>3, <1>4, FoldNext

LEMMA SetMaxSizeStep ==
  ASSUME IInv, NEW t \in Threads, NEW bytes \in ByteLimits, SetMaxSize(t, bytes)
  PROVE  IInv'
<1>1. /\ Shape(list', map', heap')
      /\ Counted(map', heap', currentSize') /\ currentSize' \in Nat
      /\ Readers(list', heap', ref', dangling', touched')
  BY Unfold DEF SetMaxSize
<1>2. Others(maxBytes', mutex', ref', dangling', touched')
  BY Unfold, CacheAssumption DEF SetMaxSize, Others
<1>3. Released'
  BY CacheAssumption DEF Released, SetMaxSize
<1>4. QED  BY <1>1, <1>2, <1>3, FoldNext

(* With an exact account the loop stops at the latest on an empty list.    *)
LEMMA NonEmpty == IInv => NeverEvictFromEmpty
<1> SUFFICES ASSUME IInv, list = <<>> PROVE ~NeedCleanup
  BY DEF NeverEvictFromEmpty
<1>1. Held(map) = {} /\ Stored(map, heap) = {}
  <2>1. Held(map) = {}  BY Unfold DEF Shape, Held
  <2>2. QED  BY <2>1 DEF Stored
<1>2. currentSize = 0 /\ Cardinality(Cached) = 0
  BY <1>1, Unfold, StoredIsBytes, FS_EmptySet DEF Counted
<1>3. QED  BY <1>2, Unfold, CacheAssumption DEF NeedCleanup, Others

LEMMA LastEntry ==
  ASSUME IInv, NeedCleanup
  PROVE  /\ Len(list) \in 1..Len(list)
         /\ Last(list) = list[Len(list)]
         /\ Last(list) \in Nodes
         /\ heap[Last(list)].key \in Keys
         /\ map[heap[Last(list)].key] = Last(list)
<1>1. list \in Seq(Nodes) /\ list # <<>>
  BY Unfold, NonEmpty DEF Shape, NeverEvictFromEmpty
<1>2. Len(list) \in 1..Len(list)  BY <1>1, EmptySeq
<1>3. Last(list) = list[Len(list)]  BY DEF Last
<1>4. Last(list) \in Nodes  BY <1>1, <1>2, <1>3, ElementOfSeq
<1>5. heap[Last(list)].key \in Keys  BY <1>4, Unfold DEF Shape, Entry
<1>6. map[heap[Last(list)].key] = Last(list)  BY <1>2, <1>3, Unfold DEF Shape
<1>7. QED  BY <1>2, <1>3, <1>4, <1>5, <1>6

LEMMA CleanupStep ==
  ASSUME IInv, NEW t \in Threads, Cleanup(t)
  PROVE  IInv'
<1> DEFINE k == heap[Last(list)].key
<1>1. /\ Len(list) \in 1..Len(list)
      /\ Last(list) = list[Len(list)]
      /\ k \in Keys /\ map[k] = Last(list) /\ map[k] # NoNode
  BY LastEntry, CacheAssumption DEF Cleanup
<1>2. /\ list' = RemoveAt(list, Len(list))
      /\ map' = [map EXCEPT ![k] = NoNode]
      /\ currentSize' = currentSize - SizeAt(map[k])
      /\ Free(map[k])
      /\ UNCHANGED <<heap, maxBytes, mutex, ref, touched>>
  BY <1>1 DEF Cleanup, onDeleteValue, EraseKey
<1> HIDE DEF k
<1>3. /\ Shape(list', map', heap')
      /\ Counted(map', heap', currentSize') /\ currentSize' \in Nat
      /\ Others(maxBytes', mutex', ref', dangling', touched')
      /\ Readers(list', heap', ref', dangling', touched')
  BY <1>1, <1>2, EraseStep
<1>4. Released'
  BY CacheAssumption DEF Cleanup, Released
<1>5. QED  BY <1>3, <1>4, FoldNext

LEMMA UnlockStep ==
  ASSUME IInv, NEW t \in Threads, Unlock(t)
  PROVE  IInv'
<1>1. /\ Shape(list', map', heap')
      /\ Counted(map', heap', currentSize') /\ currentSize' \in Nat
      /\ Readers(list', heap', ref', dangling', touched')
  BY Unfold DEF Unlock
<1>2. Others(maxBytes', mutex', ref', dangling', touched')
  BY Unfold DEF Unlock, Others
<1>3. Released'
  BY DEF Unlock, Released, NeedCleanup, Cached
<1>4. QED  BY <1>1, <1>2, <1>3, FoldNext

LEMMA Stutter == IInv /\ UNCHANGED vars => IInv'
BY DEF IInv, TypeOK, IndexMatchesList, AccountExact, Released, RecentOnlyTouched,
       NeedCleanup, Cached, Live, BytesOf, SizeAt, vars

LEMMA Inductive == IInv /\ [Next]_vars => IInv'
<1> SUFFICES ASSUME IInv, Next PROVE IInv'
  BY Stutter
<1>1. ASSUME NEW t \in Threads, NEW k \in Keys, NEW v \in Values,
             PutNew(t, k, v) \/ PutChange(t, k, v)
      PROVE  IInv'
  BY <1>1, PutNewStep, PutChangeStep
<1>2. ASSUME NEW t \in Threads, NEW k \in Keys, Get(t, k) \/ RemoveKey(t, k)
      PROVE  IInv'
  BY <1>2, GetStep, RemoveStep
<1>3. ASSUME NEW t \in Threads, NEW bytes \in ByteLimits, SetMaxSize(t, bytes)
      PROVE  IInv'
  BY <1>3, SetMaxSizeStep
<1>4. ASSUME NEW t \in Threads, Copy(t) \/ Cleanup(t) \/ Unlock(t)
      PROVE  IInv'
  BY <1>4, CopyStep, CleanupStep, UnlockStep
<1>5. QED  BY <1>1, <1>2, <1>3, <1>4 DEF Next

LEMMA Invariance == Spec => []IInv
<1>1. Init => IInv  BY Initially
<1>2. IInv /\ [Next]_vars => IInv'  BY Inductive
<1>3. QED  BY <1>1, <1>2, PTL DEF Spec

-----------------------------------------------------------------------------
(* The list and the index of LRUCache describe the same entries at every   *)
(* step of every method, for any number of threads, keys and sizes.        *)
THEOREM CacheConsistent == Spec => [](TypeOK /\ IndexMatchesList)
<1>1. IInv => TypeOK /\ IndexMatchesList  BY DEF IInv
<1>2. QED  BY <1>1, Invariance, PTL

(* m_currentSize counts exactly the bytes of the cached values.            *)
THEOREM CacheAccount == Spec => []AccountExact
<1>1. IInv => AccountExact  BY DEF IInv
<1>2. QED  BY <1>1, Invariance, PTL

(* The eviction loop never runs on an empty list, although                 *)
(* ByteCache::needCleanup() does not ask.                                  *)
THEOREM CacheNeverUnderflows == Spec => []NeverEvictFromEmpty
BY NonEmpty, Invariance, PTL

(* When no method is running the limits hold, whatever was put and however *)
(* setMaxSize() moved them.                                                *)
THEOREM CacheBounded == Spec => []WithinLimits
<1>1. IInv => WithinLimits
  <2> SUFFICES ASSUME IInv, mutex = NoThread
               PROVE  /\ maxBytes > 0 => Cardinality(BytesOf(Keys)) <= maxBytes
                      /\ MaxItems > 0 => Cardinality(Cached) <= MaxItems
    BY DEF WithinLimits
  <2>1. ~NeedCleanup /\ currentSize = Cardinality(BytesOf(Keys))
    BY DEF IInv, Released, AccountExact
  <2>2. Cardinality(Cached) \in Nat /\ currentSize \in Nat /\ maxBytes \in Nat
    BY FS_CardinalityType DEF IInv, TypeOK
  <2>3. QED  BY <2>1, <2>2, CacheAssumption DEF NeedCleanup
<1>2. QED  BY <1>1, Invariance, PTL

(* The list is ordered by use around every reader that was not cut off: its *)
(* node is listed and only keys used since its get() come before it.       *)
THEOREM CacheRecency == Spec => []RecentOnlyTouched
<1>1. IInv => RecentOnlyTouched  BY DEF IInv
<1>2. QED  BY <1>1, Invariance, PTL

(* An eviction frees a value under its reader only when that value and the *)
(* entries used since it was looked up exceed a limit together.            *)
THEOREM CacheProtectsReaders == Spec => LruProtects
<1> DEFINE Squeezed(r) ==
      LET K == touched[r] \cup {heap[ref[r]].key}
      IN \/ maxBytes > 0 /\ Cardinality(BytesOf(K)) > maxBytes
         \/ MaxItems > 0 /\ Cardinality(K \cap Cached) > MaxItems
<1>1. ASSUME IInv, Next, mutex # NoThread, NEW r \in dangling' \ dangling
      PROVE  Squeezed(r)
  <2>1. PICK t \in Threads : Copy(t) \/ Cleanup(t) \/ Unlock(t)
    BY <1>1 DEF Next, PutNew, onInsertValue, PutChange, onChangeValue, Get, MoveToFront, RemoveKey, onDeleteValue, EraseKey, SetMaxSize, Enter
  <2>2. CASE Copy(t)  BY <1>1, <2>2 DEF Copy
  <2>3. CASE Unlock(t)  BY <1>1, <2>3 DEF Unlock
  <2>4. CASE Cleanup(t)
    <3> DEFINE K == touched[r] \cup {heap[ref[r]].key}
    <3>1. r \in Threads /\ ref[r] = Last(list) /\ NeedCleanup
      BY <1>1, <2>4 DEF Cleanup, onDeleteValue, EraseKey, Free
    <3>2. ref[r] = list[Len(list)] /\ Len(list) \in 1..Len(list) /\ ref[r] # NoNode
      BY <1>1, <3>1, LastEntry, CacheAssumption
    <3>3. Guarded(list, heap, ref[r], touched[r])
      BY <1>1, <3>1, <3>2, Unfold DEF Readers
    <3>4. ASSUME NEW q \in Cached PROVE q \in K
      <4>1. PICK i \in 1..Len(list) : list[i] = map[q] /\ heap[map[q]].key = q
        BY <1>1, Unfold DEF Shape, Cached
      <4>2. CASE i = Len(list)  BY <3>2, <4>1, <4>2
      <4>3. CASE i # Len(list)
        <5>1. i < Len(list)  BY <3>2, <4>3
        <5>2. QED  BY <3>2, <3>3, <4>1, <5>1 DEF Guarded
      <4>4. QED  BY <4>2, <4>3
    <3>5. K \cap Cached = Cached /\ Keys \cap Cached = Cached
      BY <3>4 DEF Cached
    <3> HIDE DEF K
    <3>6. BytesOf(K) = BytesOf(Keys)
      BY <3>5 DEF BytesOf
    <3>7. Cardinality(BytesOf(K)) = currentSize
      BY <1>1, <3>6 DEF IInv, AccountExact
    <3>8. QED  BY <3>1, <3>5, <3>7 DEF NeedCleanup, K
  <2>5. QED  BY <2>1, <2>2, <2>3, <2>4
<1>2. IInv /\ [Next]_vars =>
        [mutex # NoThread => \A r \in dangling' \ dangling : Squeezed(r)]_vars
  BY <1>1
<1>3. QED  BY <1>2, Invariance, PTL DEF Spec, LruProtects

-----------------------------------------------------------------------------
(* The cache implements BoundedRecency.                                    *)

(* Sets of natural numbers are shown to be complete by induction.          *)
LEMMA NatSets ==
  ASSUME NEW S, 0 \in S, \A n \in Nat : n \in S => n + 1 \in S
  PROVE  Nat \subseteq S
<1> DEFINE T == Nat \ S
<1> SUFFICES ASSUME T # {} PROVE FALSE OBVIOUS
<1>1. IsWellFoundedOn(OpToRel(<, Nat), Nat) BY NatLessThanWellFounded
<1>2. PICK x \in T : \A y \in T : ~(<<y, x>> \in OpToRel(<, Nat)) BY <1>1, WFMin
<1>3. \A y \in Nat : y < x => <<y, x>> \in OpToRel(<, Nat) BY <1>2 DEF OpToRel
<1>4. x # 0 /\ x \in Nat BY <1>2
<1>5. x - 1 \in Nat /\ x - 1 < x /\ (x - 1) + 1 = x BY <1>4
<1>6. x - 1 \in S BY <1>2, <1>3, <1>5
<1> QED BY <1>2, <1>5, <1>6

(* g has the bytes of the first n entries of s, for every n up to m.       *)
Sums(g, s, m) == g = [n \in 0..m |-> IF n = 0 THEN 0 ELSE g[n - 1] + ValSize[s[n].val]]

LEMMA SomethingSums == ASSUME NEW s, NEW m \in Nat PROVE \E g : Sums(g, s, m)
<1> DEFINE S == {n \in Nat : \E g : Sums(g, s, n)}
<1>1. 0 \in S
  <2>1. Sums([n \in 0..0 |-> 0], s, 0) BY DEF Sums
  <2> QED BY <2>1
<1>2. ASSUME NEW n \in Nat, n \in S PROVE n + 1 \in S
  <2>1. PICK g : Sums(g, s, n) BY <1>2
  <2> DEFINE last == g[n] + ValSize[s[n + 1].val]
             h == [k \in 0..(n + 1) |-> IF k <= n THEN g[k] ELSE last]
             F == [k \in 0..(n + 1) |-> IF k = 0 THEN 0 ELSE h[k - 1] + ValSize[s[k].val]]
  <2>2. \A k \in 0..n : g[k] = IF k = 0 THEN 0 ELSE g[k - 1] + ValSize[s[k].val] BY <2>1 DEF Sums
  <2>3. ASSUME NEW k \in 0..(n + 1) PROVE h[k] = F[k]
    <3>1. CASE k = 0 BY <2>2, <3>1
    <3>2. CASE k \in 1..n
      <4>1. k - 1 \in 0..n /\ k \in 0..n /\ k # 0 BY <3>2
      <4>2. h[k - 1] = g[k - 1] /\ h[k] = g[k] BY <4>1
      <4> QED BY <2>2, <4>1, <4>2
    <3>3. CASE k = n + 1
      <4>1. h[k - 1] = g[n] /\ k # 0 /\ k - 1 = n /\ h[k] = last BY <3>3
      <4> QED BY <3>3, <4>1
    <3> QED BY <3>1, <3>2, <3>3
  <2>4. h = F BY <2>3
  <2>5. Sums(h, s, n + 1) BY <2>4 DEF Sums
  <2> QED BY <2>5
<1> HIDE DEF S
<1>3. Nat \subseteq S BY <1>1, <1>2, NatSets
<1> QED BY <1>3 DEF S

(* The sums of a sequence depend on its entries only.                      *)
Alike(s, r, k) == \A i \in 1..k : s[i] = r[i]

LEMMA SameSums ==
  ASSUME NEW s, NEW r, NEW m \in Nat, NEW n \in Nat, NEW k \in Nat, k <= m, k <= n,
         NEW g, NEW h, Sums(g, s, m), Sums(h, r, n), Alike(s, r, k)
  PROVE  \A i \in 0..k : g[i] = h[i]
<1> DEFINE S == {i \in Nat : i <= k => g[i] = h[i]}
<1>0. /\ \A i \in 0..m : g[i] = IF i = 0 THEN 0 ELSE g[i - 1] + ValSize[s[i].val]
      /\ \A i \in 0..n : h[i] = IF i = 0 THEN 0 ELSE h[i - 1] + ValSize[r[i].val]
  BY DEF Sums
<1>1. 0 \in S BY <1>0
<1>2. ASSUME NEW i \in Nat, i \in S PROVE i + 1 \in S
  <2> SUFFICES ASSUME i + 1 <= k PROVE g[i + 1] = h[i + 1] OBVIOUS
  <2>1. i + 1 \in 0..m /\ i + 1 \in 0..n /\ i + 1 \in 1..k /\ i + 1 # 0 /\ (i + 1) - 1 = i /\ i <= k
    OBVIOUS
  <2>2. g[i] = h[i] /\ s[i + 1] = r[i + 1] BY <1>2, <2>1 DEF Alike
  <2> QED BY <1>0, <2>1, <2>2
<1> HIDE DEF S
<1>3. Nat \subseteq S BY <1>1, <1>2, NatSets
<1> QED BY <1>3 DEF S

(* The first n entries fit within the limits.                              *)
FitsIn(g, n, bytes) == (bytes > 0 => g[n] <= bytes) /\ (MaxItems > 0 => n <= MaxItems)

(* What fits has a longest.                                                *)
LEMMA Longest ==
  ASSUME NEW m \in Nat, NEW P, P \subseteq 0..m, 0 \in P
  PROVE  \E n \in P : \A i \in P : n >= i
<1> DEFINE T == {d \in Nat : d <= m /\ m - d \in P}
<1>1. m \in T OBVIOUS
<1>2. IsWellFoundedOn(OpToRel(<, Nat), Nat) BY NatLessThanWellFounded
<1>3. PICK d \in T : \A y \in T : ~(<<y, d>> \in OpToRel(<, Nat)) BY <1>1, <1>2, WFMin
<1>4. \A y \in Nat : y < d => <<y, d>> \in OpToRel(<, Nat) BY <1>3 DEF OpToRel
<1>5. d \in Nat /\ d <= m /\ m - d \in P BY <1>3
<1>6. ASSUME NEW i \in P PROVE m - d >= i
  <2>1. i \in 0..m /\ m - i \in Nat /\ m - i <= m /\ m - (m - i) = i OBVIOUS
  <2>2. m - i \in T BY <2>1
  <2>3. ~(m - i < d) BY <1>3, <1>4, <2>2
  <2> HIDE DEF T
  <2> QED BY <1>5, <2>1, <2>3
<1> QED BY <1>5, <1>6

(* What Trim leaves.                                                       *)
Trimmed(t, s, g, n, bytes) ==
  /\ Sums(g, s, Len(s)) /\ n \in 0..Len(s) /\ t = SubSeq(s, 1, n) /\ FitsIn(g, n, bytes)
  /\ \A i \in 0..Len(s) : FitsIn(g, i, bytes) => i <= n

LEMMA TrimIs ==
  ASSUME NEW S, NEW s \in Seq(S), NEW bytes \in Nat
  PROVE  \E g, n : Trimmed(Trimming!Trim(s, bytes), s, g, n, bytes)
<1> DEFINE f == CHOOSE g : g = [n \in 0..Len(s) |-> IF n = 0 THEN 0 ELSE g[n - 1] + ValSize[s[n].val]]
           P == {n \in 0..Len(s) : FitsIn(f, n, bytes)}
<1>1. Len(s) \in Nat OBVIOUS
<1>2. Sums(f, s, Len(s))
  <2>1. \E g : Sums(g, s, Len(s)) BY <1>1, SomethingSums
  <2> QED BY <2>1 DEF Sums
<1>3. Trimming!Trim(s, bytes) = SubSeq(s, 1, Max(P)) BY Zenon DEF Trimming!Trim, Trimming!Max, Max, FitsIn
<1> HIDE DEF f
<1>4. 0 \in P
  <2>1. f[0] = 0 BY <1>1, <1>2 DEF Sums
  <2> QED BY <1>1, <2>1, CacheAssumption DEF FitsIn
<1>5. P \subseteq 0..Len(s) OBVIOUS
<1> HIDE DEF P
<1>6. Max(P) \in P /\ \A i \in P : Max(P) >= i
  <2>1. \E n \in P : \A i \in P : n >= i BY <1>1, <1>4, <1>5, Longest
  <2> QED BY <2>1 DEF Max
<1>7. Max(P) \in 0..Len(s) /\ FitsIn(f, Max(P), bytes) BY <1>6 DEF P
<1>8. ASSUME NEW i \in 0..Len(s), FitsIn(f, i, bytes) PROVE i <= Max(P)
  <2>1. i \in P BY <1>8 DEF P
  <2>2. Max(P) >= i BY <1>6, <2>1
  <2> QED BY <1>1, <1>7, <2>2
<1> QED BY <1>2, <1>3, <1>7, <1>8 DEF Trimmed

LEMMA SameTrim == \A s, b : Abstract!Trim(s, b) = Trimming!Trim(s, b)
BY Zenon DEF Abstract!Trim, Abstract!Max, Trimming!Trim, Trimming!Max

(* What fits as a whole is left as it is.                                  *)
LEMMA TrimWhole ==
  ASSUME NEW S, NEW s \in Seq(S), NEW bytes \in Nat, NEW g, Sums(g, s, Len(s)), FitsIn(g, Len(s), bytes)
  PROVE  Trimming!Trim(s, bytes) = s
<1>1. Len(s) \in Nat OBVIOUS
<1>2. PICK h, n : Trimmed(Trimming!Trim(s, bytes), s, h, n, bytes) BY TrimIs
<1>3. \A i \in 0..Len(s) : g[i] = h[i]
  <2>1. Sums(h, s, Len(s)) /\ Len(s) <= Len(s) /\ Alike(s, s, Len(s)) BY <1>1, <1>2 DEF Trimmed, Alike
  <2> QED BY <1>1, <2>1, SameSums
<1>4. Len(s) \in 0..Len(s) BY <1>1
<1>5. FitsIn(h, Len(s), bytes) BY <1>3, <1>4 DEF FitsIn
<1>6. n = Len(s)
  <2>1. n \in 0..Len(s) /\ Len(s) <= n BY <1>2, <1>4, <1>5 DEF Trimmed
  <2> QED BY <1>1, <2>1
<1> QED BY <1>2, <1>6, SubSeqFull DEF Trimmed

(* A last entry that does not fit counts as gone.                          *)
LEMMA TrimLast ==
  ASSUME NEW S, NEW s \in Seq(S), NEW bytes \in Nat, Len(s) # 0,
         NEW g, Sums(g, s, Len(s)), ~FitsIn(g, Len(s), bytes)
  PROVE  Trimming!Trim(RemoveAt(s, Len(s)), bytes) = Trimming!Trim(s, bytes)
<1> DEFINE l == Len(s)
           r == RemoveAt(s, Len(s))
<1>1. l \in Nat /\ l \in 1..l /\ l - 1 \in Nat OBVIOUS
<1>2. r \in Seq(S) /\ Len(r) = l - 1 /\ \A i \in 1..(l - 1) : r[i] = s[i]
  <2>1. /\ r \in Seq(S) /\ Len(r) = l - 1
        /\ \A i \in 1..(l - 1) : r[i] = IF i < l THEN s[i] ELSE s[i + 1]
    BY <1>1, RemoveAtFacts
  <2>2. \A i \in 1..(l - 1) : i < l BY <1>1
  <2> QED BY <2>1, <2>2
<1> HIDE DEF r
<1>3. PICK h, n : Trimmed(Trimming!Trim(s, bytes), s, h, n, bytes) BY TrimIs
<1>4. PICK f, m : Trimmed(Trimming!Trim(r, bytes), r, f, m, bytes) BY <1>2, TrimIs
<1>5. \A i \in 0..l : g[i] = h[i]
  <2>1. Sums(g, s, l) /\ Sums(h, s, l) /\ l <= l /\ Alike(s, s, l) BY <1>1, <1>3 DEF Trimmed, Alike
  <2> QED BY <1>1, <2>1, SameSums
<1>6. \A i \in 0..(l - 1) : h[i] = f[i]
  <2>1. Alike(s, r, l - 1) BY <1>2 DEF Alike
  <2>2. Sums(h, s, l) /\ Sums(f, r, l - 1) BY <1>2, <1>3, <1>4 DEF Trimmed
  <2>3. l - 1 <= l BY <1>1
  <2>4. l - 1 <= l - 1 BY <1>1
  <2> HIDE DEF l
  <2> QED BY <1>1, <2>1, <2>2, <2>3, <2>4, SameSums
<1>7. n \in 0..(l - 1)
  <2>1. n \in 0..l /\ FitsIn(h, n, bytes) BY <1>3 DEF Trimmed
  <2>2. n # l BY <1>1, <1>5, <2>1 DEF FitsIn
  <2> QED BY <1>1, <2>1, <2>2
<1>8. m \in 0..(l - 1) BY <1>2, <1>4 DEF Trimmed
<1>9. m = n
  <2>1. FitsIn(f, n, bytes) BY <1>3, <1>6, <1>7 DEF Trimmed, FitsIn
  <2>2. n <= m BY <1>2, <1>4, <1>7, <2>1 DEF Trimmed
  <2>3. FitsIn(h, m, bytes) BY <1>4, <1>6, <1>8 DEF Trimmed, FitsIn
  <2>4. m \in 0..l BY <1>1, <1>8
  <2>5. m <= n BY <1>3, <2>3, <2>4 DEF Trimmed
  <2> QED BY <1>7, <1>8, <2>2, <2>5
<1>10. SubSeq(r, 1, n) = SubSeq(s, 1, n)
  <2>1. \A i \in 1..n : r[i] = s[i] /\ s[i] \in S /\ r[i] \in S
    <3>1. \A i \in 1..n : i \in 1..(l - 1) /\ i \in 1..l BY <1>1, <1>7
    <3>2. \A i \in 1..l : s[i] \in S OBVIOUS
    <3> QED BY <1>2, <3>1, <3>2
  <2>2. n \in Nat /\ 1 \in Int /\ n \in Int BY <1>7
  <2>3. /\ SubSeq(s, 1, n) \in Seq(S) /\ Len(SubSeq(s, 1, n)) = n
        /\ \A i \in 1..n : SubSeq(s, 1, n)[i] = s[i]
    <3>1. n \in 0..Len(s) BY <1>3 DEF Trimmed
    <3> QED BY <2>1, <2>2, <3>1
  <2>4. /\ SubSeq(r, 1, n) \in Seq(S) /\ Len(SubSeq(r, 1, n)) = n
        /\ \A i \in 1..n : SubSeq(r, 1, n)[i] = r[i]
    <3>1. n \in 0..Len(r) BY <1>2, <1>7
    <3> QED BY <1>2, <2>1, <2>2, <3>1
  <2> QED BY <2>1, <2>3, <2>4, SeqEqual
<1>11. Trimming!Trim(s, bytes) = SubSeq(s, 1, n) /\ Trimming!Trim(r, bytes) = SubSeq(r, 1, n)
  BY <1>3, <1>4, <1>9 DEF Trimmed
<1> QED BY <1>10, <1>11 DEF r

-----------------------------------------------------------------------------
(* Leaving out the entries of one key, of which there is at most one: at   *)
(* place p, or behind the end.                                             *)
Leaves(g, s, k, m) ==
  g = [n \in 0..m |->
         IF n = 0 THEN <<>> ELSE IF s[n].key = k THEN g[n - 1] ELSE Append(g[n - 1], s[n])]

LEMMA SomethingLeaves == ASSUME NEW s, NEW k, NEW m \in Nat PROVE \E g : Leaves(g, s, k, m)
<1> DEFINE S == {n \in Nat : \E g : Leaves(g, s, k, n)}
<1>1. 0 \in S
  <2>1. Leaves([n \in 0..0 |-> <<>>], s, k, 0) BY DEF Leaves
  <2> QED BY <2>1
<1>2. ASSUME NEW n \in Nat, n \in S PROVE n + 1 \in S
  <2>1. PICK g : Leaves(g, s, k, n) BY <1>2
  <2> DEFINE last == IF s[n + 1].key = k THEN g[n] ELSE Append(g[n], s[n + 1])
             h == [i \in 0..(n + 1) |-> IF i <= n THEN g[i] ELSE last]
             F == [i \in 0..(n + 1) |->
                     IF i = 0 THEN <<>> ELSE IF s[i].key = k THEN h[i - 1] ELSE Append(h[i - 1], s[i])]
  <2>2. \A i \in 0..n : g[i] = IF i = 0 THEN <<>> ELSE IF s[i].key = k THEN g[i - 1] ELSE Append(g[i - 1], s[i])
    BY <2>1 DEF Leaves
  <2>3. ASSUME NEW i \in 0..(n + 1) PROVE h[i] = F[i]
    <3>1. CASE i = 0 BY <2>2, <3>1
    <3>2. CASE i \in 1..n
      <4>1. i - 1 \in 0..n /\ i \in 0..n /\ i # 0 BY <3>2
      <4>2. h[i - 1] = g[i - 1] /\ h[i] = g[i] BY <4>1
      <4> QED BY <2>2, <4>1, <4>2
    <3>3. CASE i = n + 1
      <4>1. h[i - 1] = g[n] /\ i # 0 /\ i - 1 = n /\ h[i] = last BY <3>3
      <4> QED BY <3>3, <4>1
    <3> QED BY <3>1, <3>2, <3>3
  <2>4. h = F BY <2>3
  <2>5. Leaves(h, s, k, n + 1) BY <2>4 DEF Leaves
  <2> QED BY <2>5
<1> HIDE DEF S
<1>3. Nat \subseteq S BY <1>1, <1>2, NatSets
<1> QED BY <1>3 DEF S

(* q has the first n entries of s but that at place p.                     *)
LeavesAt(q, s, p, n, S) ==
  /\ q \in Seq(S) /\ Len(q) = (IF n < p THEN n ELSE n - 1)
  /\ \A i \in 1..Len(q) : q[i] = IF i < p THEN s[i] ELSE s[i + 1]

LEMMA LeavesMore ==
  ASSUME NEW S, NEW n \in Nat, NEW s, s[n + 1] \in S, NEW p \in Nat \ {0}, NEW q, LeavesAt(q, s, p, n, S)
  PROVE  LeavesAt(IF n + 1 = p THEN q ELSE Append(q, s[n + 1]), s, p, n + 1, S)
<1>1. q \in Seq(S) /\ Len(q) \in Nat /\ Len(q) = IF n < p THEN n ELSE n - 1 BY DEF LeavesAt
<1>2. CASE n + 1 = p
  <2>1. Len(q) = IF n + 1 < p THEN n + 1 ELSE (n + 1) - 1 BY <1>1, <1>2
  <2> QED BY <1>2, <2>1 DEF LeavesAt
<1>3. CASE n + 1 # p
  <2> DEFINE r == Append(q, s[n + 1])
  <2>1. /\ r \in Seq(S) /\ Len(r) = Len(q) + 1 /\ r[Len(q) + 1] = s[n + 1]
        /\ \A i \in 1..Len(q) : r[i] = q[i]
    BY <1>1
  <2> HIDE DEF r
  <2>2. Len(r) = IF n + 1 < p THEN n + 1 ELSE (n + 1) - 1 BY <1>1, <1>3, <2>1
  <2>3. ASSUME NEW i \in 1..Len(r) PROVE r[i] = IF i < p THEN s[i] ELSE s[i + 1]
    <3>1. CASE i \in 1..Len(q) BY <2>1, <3>1 DEF LeavesAt
    <3>2. CASE i = Len(q) + 1
      <4>1. IF i < p THEN i = n + 1 ELSE i + 1 = n + 1 BY <1>1, <1>3, <3>2
      <4> QED BY <2>1, <3>2, <4>1
    <3>3. i \in 1..Len(q) \/ i = Len(q) + 1 BY <1>1, <2>1
    <3> QED BY <3>1, <3>2, <3>3
  <2>4. LeavesAt(r, s, p, n + 1, S) BY <2>1, <2>2, <2>3 DEF LeavesAt
  <2> QED BY <1>3, <2>4 DEF r
<1> QED BY <1>2, <1>3

LEMMA OthersAre ==
  ASSUME NEW S, NEW s \in Seq(S), NEW k, NEW p \in Nat \ {0},
         \A i \in 1..Len(s) : s[i].key = k <=> i = p
  PROVE  LeavesAt(Abstract!Others(s, k), s, p, Len(s), S)
<1> DEFINE f == CHOOSE g : g = [n \in 0..Len(s) |->
                  IF n = 0 THEN <<>> ELSE IF s[n].key = k THEN g[n - 1] ELSE Append(g[n - 1], s[n])]
           T == {n \in Nat : n <= Len(s) => LeavesAt(f[n], s, p, n, S)}
<1>1. Len(s) \in Nat /\ \A i \in 1..Len(s) : s[i] \in S OBVIOUS
<1>2. Leaves(f, s, k, Len(s))
  <2>1. \E g : Leaves(g, s, k, Len(s)) BY <1>1, SomethingLeaves
  <2> QED BY <2>1 DEF Leaves
<1>3. Abstract!Others(s, k) = f[Len(s)] BY Zenon DEF Abstract!Others
<1> HIDE DEF f
<1>4. \A n \in 0..Len(s) :
        f[n] = IF n = 0 THEN <<>> ELSE IF s[n].key = k THEN f[n - 1] ELSE Append(f[n - 1], s[n])
  BY <1>2 DEF Leaves
<1>5. 0 \in T
  <2>1. f[0] = <<>> BY <1>1, <1>4
  <2>2. <<>> \in Seq(S) /\ Len(<<>>) = 0 /\ 1..0 = {} /\ 0 < p OBVIOUS
  <2>3. LeavesAt(<<>>, s, p, 0, S) BY <2>2 DEF LeavesAt
  <2> QED BY <2>1, <2>3
<1>6. ASSUME NEW n \in Nat, n \in T PROVE n + 1 \in T
  <2> SUFFICES ASSUME n + 1 <= Len(s) PROVE LeavesAt(f[n + 1], s, p, n + 1, S) OBVIOUS
  <2>1. n + 1 \in 0..Len(s) /\ n + 1 \in 1..Len(s) /\ n + 1 # 0 /\ (n + 1) - 1 = n /\ n <= Len(s) BY <1>1
  <2>2. LeavesAt(f[n], s, p, n, S) BY <1>6, <2>1
  <2>3. f[n + 1] = IF n + 1 = p THEN f[n] ELSE Append(f[n], s[n + 1]) BY <1>4, <2>1
  <2> QED BY <1>1, <2>1, <2>2, <2>3, LeavesMore
<1> HIDE DEF T
<1>7. Nat \subseteq T BY <1>5, <1>6, NatSets
<1>8. LeavesAt(f[Len(s)], s, p, Len(s), S) BY <1>1, <1>7 DEF T
<1> QED BY <1>3, <1>8

LEMMA OthersNone ==
  ASSUME NEW S, NEW s \in Seq(S), NEW k, \A i \in 1..Len(s) : s[i].key # k
  PROVE  Abstract!Others(s, k) = s
<1> DEFINE q == Abstract!Others(s, k)
           p == Len(s) + 1
<1>1. Len(s) \in Nat /\ p \in Nat \ {0} /\ Len(s) < p /\ \A i \in 1..Len(s) : i # p /\ i < p OBVIOUS
<1>2. \A i \in 1..Len(s) : s[i].key = k <=> i = p BY <1>1
<1> HIDE DEF q, p
<1>3. LeavesAt(q, s, p, Len(s), S) BY <1>1, <1>2, OthersAre DEF q
<1>4. q \in Seq(S) /\ Len(q) = Len(s) /\ \A i \in 1..Len(s) : q[i] = s[i] BY <1>1, <1>3 DEF LeavesAt
<1>5. q = s BY <1>4, SeqEqual
<1> QED BY <1>5 DEF q

LEMMA OthersOne ==
  ASSUME NEW S, NEW s \in Seq(S), NEW k, NEW p \in 1..Len(s),
         \A i \in 1..Len(s) : s[i].key = k <=> i = p
  PROVE  Abstract!Others(s, k) = RemoveAt(s, p)
<1> DEFINE q == Abstract!Others(s, k)
           r == RemoveAt(s, p)
<1>1. Len(s) \in Nat /\ p \in Nat \ {0} /\ ~(Len(s) < p) OBVIOUS
<1>2. /\ r \in Seq(S) /\ Len(r) = Len(s) - 1
      /\ \A j \in 1..(Len(s) - 1) : r[j] = IF j < p THEN s[j] ELSE s[j + 1]
  BY RemoveAtFacts
<1> HIDE DEF q, r
<1>3. LeavesAt(q, s, p, Len(s), S) BY <1>1, OthersAre DEF q
<1>4. q \in Seq(S) /\ Len(q) = Len(s) - 1 /\ \A j \in 1..(Len(s) - 1) : q[j] = IF j < p THEN s[j] ELSE s[j + 1]
  BY <1>1, <1>3 DEF LeavesAt
<1>5. q = r BY <1>2, <1>4, SeqEqual
<1> QED BY <1>5 DEF q, r

-----------------------------------------------------------------------------
(* The entries a list of nodes stands for.                                 *)
Entries(l, h) == [i \in 1..Len(l) |-> h[l[i]]]

LEMMA EntriesType ==
  ASSUME NEW l, NEW m, NEW h, Shape(l, m, h)
  PROVE  /\ Entries(l, h) \in Seq(Entry) /\ Len(Entries(l, h)) = Len(l) /\ Len(l) \in Nat
         /\ \A i \in 1..Len(l) : l[i] \in Nodes /\ Entries(l, h)[i] = h[l[i]] /\ h[l[i]] \in Entry
<1>1. l \in Seq(Nodes) /\ Len(l) \in Nat /\ h \in [Nodes -> Entry] BY DEF Shape
<1>2. \A i \in 1..Len(l) : l[i] \in Nodes BY <1>1
<1>3. \A i \in 1..Len(l) : h[l[i]] \in Entry BY <1>1, <1>2
<1>4. [i \in 1..Len(l) |-> h[l[i]]] \in Seq(Entry) /\ Len([i \in 1..Len(l) |-> h[l[i]]]) = Len(l)
  BY <1>1, <1>3
<1> QED BY <1>1, <1>2, <1>3, <1>4 DEF Entries

LEMMA EntriesErase ==
  ASSUME NEW l, NEW m, NEW h, Shape(l, m, h), NEW p \in 1..Len(l)
  PROVE  Entries(RemoveAt(l, p), h) = RemoveAt(Entries(l, h), p)
<1> DEFINE s == Entries(l, h)
           r == RemoveAt(l, p)
           a == Entries(r, h)
           b == RemoveAt(s, p)
<1>1. /\ s \in Seq(Entry) /\ Len(s) = Len(l) /\ Len(l) \in Nat /\ l \in Seq(Nodes)
      /\ \A i \in 1..Len(l) : l[i] \in Nodes /\ s[i] = h[l[i]] /\ h[l[i]] \in Entry
  BY EntriesType DEF Shape
<1>2. /\ Len(r) = Len(l) - 1
      /\ \A j \in 1..(Len(l) - 1) : r[j] = IF j < p THEN l[j] ELSE l[j + 1]
  BY <1>1, RemoveAtFacts
<1> HIDE DEF s
<1>3. /\ b \in Seq(Entry) /\ Len(b) = Len(l) - 1
      /\ \A j \in 1..(Len(l) - 1) : b[j] = IF j < p THEN s[j] ELSE s[j + 1]
  <2>1. p \in 1..Len(s) BY <1>1
  <2> QED BY <1>1, <2>1, RemoveAtFacts
<1> HIDE DEF r, b
<1>4. \A j \in 1..(Len(l) - 1) : j \in 1..Len(l) /\ j + 1 \in 1..Len(l) BY <1>1
<1>5. \A j \in 1..(Len(l) - 1) : h[r[j]] = b[j] /\ h[r[j]] \in Entry BY <1>1, <1>2, <1>3, <1>4
<1>6. a \in Seq(Entry) /\ Len(a) = Len(l) - 1 /\ \A j \in 1..(Len(l) - 1) : a[j] = h[r[j]]
  <2>1. Len(l) - 1 \in Nat BY <1>1
  <2>2. a = [j \in 1..(Len(l) - 1) |-> h[r[j]]] BY <1>2 DEF Entries
  <2> HIDE DEF a
  <2> QED BY <1>5, <2>1, <2>2
<1> HIDE DEF a
<1>7. a = b BY <1>3, <1>5, <1>6, SeqEqual
<1> QED BY <1>7 DEF a, b, r, s

LEMMA EntriesPush ==
  ASSUME NEW l, NEW m, NEW h, Shape(l, m, h), NEW n \in Nodes, \A i \in 1..Len(l) : l[i] # n,
         NEW e \in Entry
  PROVE  Entries(Cons(n, l), [h EXCEPT ![n] = e]) = Cons(e, Entries(l, h))
<1> DEFINE s == Entries(l, h)
           c == Cons(n, l)
           x == [h EXCEPT ![n] = e]
           a == Entries(c, x)
           b == Cons(e, s)
<1>1. /\ s \in Seq(Entry) /\ Len(s) = Len(l) /\ Len(l) \in Nat /\ l \in Seq(Nodes)
      /\ h \in [Nodes -> Entry]
      /\ \A i \in 1..Len(l) : l[i] \in Nodes /\ s[i] = h[l[i]] /\ h[l[i]] \in Entry
  BY EntriesType DEF Shape
<1>2. /\ Len(c) = Len(l) + 1
      /\ \A j \in 1..(Len(l) + 1) : c[j] = IF j = 1 THEN n ELSE l[j - 1]
  <2>1. l \in Seq(Nodes) BY <1>1
  <2> QED BY ONLY <2>1, n \in Nodes, ConsFacts
<1> HIDE DEF s
<1>3. /\ b \in Seq(Entry) /\ Len(b) = Len(l) + 1
      /\ \A j \in 1..(Len(l) + 1) : b[j] = IF j = 1 THEN e ELSE s[j - 1]
  <2>1. /\ b \in Seq(Entry) /\ Len(b) = Len(s) + 1
        /\ \A j \in 1..(Len(s) + 1) : b[j] = IF j = 1 THEN e ELSE s[j - 1]
    <3>1. s \in Seq(Entry) BY <1>1
    <3> QED BY ONLY <3>1, e \in Entry, ConsFacts
  <2> QED BY <1>1, <2>1
<1>4. x[n] = e /\ \A i \in 1..Len(l) : x[l[i]] = h[l[i]] BY <1>1
<1> HIDE DEF c, b, x
<1>5. \A j \in 1..(Len(l) + 1) : x[c[j]] = b[j] /\ b[j] \in Entry
  <2>1. \A j \in 1..(Len(l) + 1) : j = 1 \/ j - 1 \in 1..Len(l) BY <1>1
  <2>2. ASSUME NEW j \in 1..(Len(l) + 1) PROVE x[c[j]] = b[j] /\ b[j] \in Entry
    <3>1. CASE j = 1 BY <1>2, <1>3, <1>4, <3>1
    <3>2. CASE j # 1
      <4>1. j - 1 \in 1..Len(l) /\ c[j] = l[j - 1] /\ b[j] = s[j - 1] BY <1>2, <1>3, <2>1, <3>2
      <4> QED BY <1>1, <1>4, <4>1
    <3> QED BY <3>1, <3>2
  <2> QED BY <2>2
<1>6. a \in Seq(Entry) /\ Len(a) = Len(l) + 1 /\ \A j \in 1..(Len(l) + 1) : a[j] = x[c[j]]
  <2>1. Len(l) + 1 \in Nat BY <1>1
  <2>2. a = [j \in 1..(Len(l) + 1) |-> x[c[j]]] BY <1>2 DEF Entries
  <2> HIDE DEF a
  <2> QED BY <1>5, <2>1, <2>2
<1> HIDE DEF a
<1>7. a = b BY <1>3, <1>5, <1>6, SeqEqual
<1> QED BY <1>7 DEF a, b, c, s, x

(* The sums of all entries and their number are what the cache counts.     *)
FrontKeys(l, h, n) == {h[l[i]].key : i \in 1..n}
FrontBytes(l, h, n) == UNION {Slice(h[l[i]].key, ValSize[h[l[i]].val]) : i \in 1..n}

LEMMA FrontCounts ==
  ASSUME NEW l, NEW m, NEW h, Shape(l, m, h), NEW g, Sums(g, Entries(l, h), Len(l))
  PROVE  /\ Cardinality(FrontKeys(l, h, Len(l))) = Len(l)
         /\ Cardinality(FrontBytes(l, h, Len(l))) = g[Len(l)]
<1> DEFINE T == {n \in Nat : n <= Len(l) =>
                   /\ IsFiniteSet(FrontKeys(l, h, n)) /\ Cardinality(FrontKeys(l, h, n)) = n
                   /\ IsFiniteSet(FrontBytes(l, h, n)) /\ Cardinality(FrontBytes(l, h, n)) = g[n]}
<1>1. /\ Len(l) \in Nat
      /\ \A i \in 1..Len(l) : h[l[i]] \in Entry /\ Entries(l, h)[i] = h[l[i]]
  BY EntriesType
<1>2. \A n \in 0..Len(l) : g[n] = IF n = 0 THEN 0 ELSE g[n - 1] + ValSize[Entries(l, h)[n].val]
  BY DEF Sums
<1>3. 0 \in T
  <2>1. FrontKeys(l, h, 0) = {} /\ FrontBytes(l, h, 0) = {} BY DEF FrontKeys, FrontBytes
  <2>2. g[0] = 0 BY <1>1, <1>2
  <2> QED BY <2>1, <2>2, FS_EmptySet
<1>4. ASSUME NEW n \in Nat, n \in T PROVE n + 1 \in T
  <2> SUFFICES ASSUME n + 1 <= Len(l)
               PROVE  /\ IsFiniteSet(FrontKeys(l, h, n + 1)) /\ Cardinality(FrontKeys(l, h, n + 1)) = n + 1
                      /\ IsFiniteSet(FrontBytes(l, h, n + 1)) /\ Cardinality(FrontBytes(l, h, n + 1)) = g[n + 1]
    OBVIOUS
  <2> DEFINE k == h[l[n + 1]].key
             z == ValSize[h[l[n + 1]].val]
  <2>1. n + 1 \in 1..Len(l) /\ n + 1 \in 0..Len(l) /\ n + 1 # 0 /\ (n + 1) - 1 = n /\ n <= Len(l) BY <1>1
  <2>2. /\ IsFiniteSet(FrontKeys(l, h, n)) /\ Cardinality(FrontKeys(l, h, n)) = n
        /\ IsFiniteSet(FrontBytes(l, h, n)) /\ Cardinality(FrontBytes(l, h, n)) = g[n]
    BY <1>4, <2>1
  <2>3. z \in Nat BY <1>1, <2>1, CacheAssumption DEF Entry
  <2>4. g[n + 1] = g[n] + z BY <1>1, <1>2, <2>1
  <2>5. \A i \in 1..(n + 1) : i \in 1..n \/ i = n + 1 OBVIOUS
  <2>6. 1..n \subseteq 1..(n + 1) /\ n + 1 \in 1..(n + 1) OBVIOUS
  <2>7. FrontKeys(l, h, n + 1) = FrontKeys(l, h, n) \cup {k} BY <2>5, <2>6 DEF FrontKeys
  <2>8. FrontBytes(l, h, n + 1) = FrontBytes(l, h, n) \cup Slice(k, z) BY <2>5, <2>6 DEF FrontBytes
  <2>9. k \notin FrontKeys(l, h, n)
    <3>1. SUFFICES ASSUME NEW i \in 1..n, h[l[i]].key = k PROVE FALSE BY DEF FrontKeys
    <3>2. i \in 1..Len(l) /\ i # n + 1 BY <1>1, <2>1
    <3>3. l[i] = l[n + 1] BY <2>1, <3>1, <3>2 DEF Shape
    <3> QED BY <2>1, <3>2, <3>3 DEF Shape
  <2>10. FrontBytes(l, h, n) \cap Slice(k, z) = {}
    <3>1. SUFFICES ASSUME NEW x \in FrontBytes(l, h, n), x \in Slice(k, z) PROVE FALSE OBVIOUS
    <3>2. PICK i \in 1..n : x \in Slice(h[l[i]].key, ValSize[h[l[i]].val]) BY DEF FrontBytes
    <3>3. x[1] = k /\ x[1] = h[l[i]].key BY <3>1, <3>2 DEF Slice
    <3> QED BY <2>9, <3>2, <3>3 DEF FrontKeys
  <2> HIDE DEF k, z
  <2>11. IsFiniteSet(FrontKeys(l, h, n + 1)) /\ Cardinality(FrontKeys(l, h, n + 1)) = n + 1
    BY <2>2, <2>7, <2>9, FS_AddElement
  <2>12. IsFiniteSet(FrontBytes(l, h, n + 1)) /\ Cardinality(FrontBytes(l, h, n + 1)) = g[n + 1]
    <3>1. /\ IsFiniteSet(FrontBytes(l, h, n) \cup Slice(k, z))
          /\ Cardinality(FrontBytes(l, h, n) \cup Slice(k, z)) = Cardinality(FrontBytes(l, h, n)) + z
      BY <2>2, <2>3, <2>10, AddSlice, Zenon
    <3> QED BY <2>2, <2>4, <2>8, <3>1
  <2> QED BY <2>11, <2>12
<1> HIDE DEF T
<1>5. Nat \subseteq T BY <1>3, <1>4, NatSets
<1> QED BY <1>1, <1>5 DEF T

LEMMA AllCounted ==
  ASSUME IInv, NEW g, Sums(g, Entries(list, heap), Len(list))
  PROVE  Cardinality(Cached) = Len(list) /\ currentSize = g[Len(list)]
<1>1. Shape(list, map, heap) /\ Counted(map, heap, currentSize) BY Unfold
<1>2. FrontKeys(list, heap, Len(list)) = Held(map)
  <2>1. \A i \in 1..Len(list) : heap[list[i]].key \in Held(map)
    <3>1. \A i \in 1..Len(list) : heap[list[i]] \in Entry /\ list[i] \in Nodes BY <1>1, EntriesType
    <3> QED BY <1>1, <3>1, CacheAssumption DEF Held, Shape, Entry
  <2>2. \A k \in Held(map) : \E i \in 1..Len(list) : heap[list[i]].key = k
    BY <1>1 DEF Held, Shape
  <2> QED BY <2>1, <2>2 DEF FrontKeys
<1>3. FrontBytes(list, heap, Len(list)) = Stored(map, heap)
  <2>1. \A i \in 1..Len(list) : map[heap[list[i]].key] = list[i] BY <1>1 DEF Shape
  <2>2. ASSUME NEW x \in FrontBytes(list, heap, Len(list)) PROVE x \in Stored(map, heap)
    <3>1. PICK i \in 1..Len(list) : x \in Slice(heap[list[i]].key, ValSize[heap[list[i]].val])
      BY DEF FrontBytes
    <3>2. heap[list[i]].key \in Held(map) BY <1>2 DEF FrontKeys
    <3> QED BY <2>1, <3>1, <3>2 DEF Stored
  <2>3. ASSUME NEW x \in Stored(map, heap) PROVE x \in FrontBytes(list, heap, Len(list))
    <3>1. PICK k \in Held(map) : x \in Slice(k, ValSize[heap[map[k]].val]) BY DEF Stored
    <3>2. PICK i \in 1..Len(list) : heap[list[i]].key = k BY <1>2 DEF FrontKeys
    <3>3. map[k] = list[i] BY <2>1, <3>2
    <3> QED BY <3>1, <3>2, <3>3 DEF FrontBytes
  <2> QED BY <2>2, <2>3
<1>4. Cached = Held(map) BY StoredIsBytes
<1> QED BY <1>1, <1>2, <1>3, <1>4, FrontCounts DEF Counted

-----------------------------------------------------------------------------
(* The steps of the cache, as BoundedRecency sees them.                    *)
Seen == IF mutex = NoThread THEN Listed ELSE Trimming!Trim(Listed, maxBytes)

LEMMA ListedFacts ==
  ASSUME IInv
  PROVE  /\ Listed = Entries(list, heap) /\ Listed \in Seq(Entry) /\ Len(Listed) = Len(list) /\ Len(list) \in Nat
         /\ \A i \in 1..Len(list) : Listed[i] = heap[list[i]]
         /\ maxBytes \in Nat
<1>1. Shape(list, map, heap) /\ maxBytes \in Nat BY Unfold DEF Others
<1>2. Listed = Entries(list, heap) BY DEF Listed, Entries
<1> QED BY <1>1, <1>2, EntriesType

(* The entry of a key that is cached, and of one that is not.              *)
LEMMA KeyListed ==
  ASSUME IInv, NEW k \in Keys, map[k] # NoNode, NEW p \in 1..Len(list), list[p] = map[k]
  PROVE  /\ p \in 1..Len(Listed) /\ Listed[p].key = k
         /\ Abstract!Others(Listed, k) = RemoveAt(Listed, p)
<1>1. Shape(list, map, heap) BY Unfold
<1>2. /\ Listed \in Seq(Entry) /\ Len(Listed) = Len(list)
      /\ \A i \in 1..Len(list) : Listed[i] = heap[list[i]]
  BY ListedFacts
<1>3. \A i \in 1..Len(Listed) : Listed[i].key = k <=> i = p
  <2>1. ASSUME NEW i \in 1..Len(list), heap[list[i]].key = k PROVE i = p BY <1>1, <2>1 DEF Shape
  <2>2. heap[list[p]].key = k BY <1>1 DEF Shape
  <2> QED BY <1>2, <2>1, <2>2
<1> HIDE DEF Listed
<1>4. Abstract!Others(Listed, k) = RemoveAt(Listed, p) BY <1>2, <1>3, OthersOne
<1> QED BY <1>2, <1>3, <1>4

LEMMA KeyUnlisted ==
  ASSUME IInv, NEW k \in Keys, map[k] = NoNode
  PROVE  Abstract!Others(Listed, k) = Listed
<1>1. Shape(list, map, heap) BY Unfold
<1>2. /\ Listed \in Seq(Entry) /\ Len(Listed) = Len(list)
      /\ \A i \in 1..Len(list) : Listed[i] = heap[list[i]]
  BY ListedFacts
<1>3. \A i \in 1..Len(Listed) : Listed[i].key # k
  <2>1. \A i \in 1..Len(list) : list[i] \in Nodes BY <1>1, EntriesType
  <2> QED BY <1>1, <1>2, <2>1, CacheAssumption DEF Shape
<1> HIDE DEF Listed
<1> QED BY <1>2, <1>3, OthersNone

LEMMA ListedNext == Listed' = Entries(list', heap')
BY DEF Listed, Entries

LEMMA PutNewListed ==
  ASSUME IInv, NEW t \in Threads, NEW k \in Keys, NEW v \in Values, PutNew(t, k, v)
  PROVE  Listed' = Cons([key |-> k, val |-> v], Abstract!Others(Listed, k))
<1> DEFINE e == [key |-> k, val |-> v]
<1>1. PICK n \in Nodes \ Live : list' = Cons(n, list) /\ heap' = [heap EXCEPT ![n] = e]
  BY DEF PutNew
<1>2. e \in Entry BY DEF Entry
<1> HIDE DEF e
<1>3. map[k] = NoNode /\ n \in Nodes /\ \A i \in 1..Len(list) : list[i] # n BY <1>1 DEF PutNew, Live
<1>4. Entries(list', heap') = Cons(e, Entries(list, heap)) BY <1>1, <1>2, <1>3, Unfold, EntriesPush
<1> QED BY <1>3, <1>4, ListedNext, ListedFacts, KeyUnlisted DEF e

LEMMA PutChangeListed ==
  ASSUME IInv, NEW t \in Threads, NEW k \in Keys, NEW v \in Values, PutChange(t, k, v)
  PROVE  Listed' = Cons([key |-> k, val |-> v], Abstract!Others(Listed, k))
<1> DEFINE e == [key |-> k, val |-> v]
           p == IndexOf(map[k])
           rest == RemoveAt(list, p)
<1>1. PICK n \in (Nodes \ Live) \cup {map[k]} : list' = Cons(n, rest) /\ heap' = [heap EXCEPT ![n] = e]
  BY DEF PutChange
<1>2. e \in Entry BY DEF Entry
<1>3. map[k] # NoNode BY DEF PutChange
<1>4. p \in 1..Len(list) /\ list[p] = map[k] BY <1>3, FindNode
<1>5. Shape(list, map, heap) BY Unfold
<1> HIDE DEF e, p
<1>6. /\ Shape(rest, [map EXCEPT ![k] = NoNode], heap)
      /\ \A i \in 1..Len(rest) : rest[i] # map[k]
  BY <1>3, <1>4, <1>5, EraseShape
<1>7. n \in Nodes /\ \A i \in 1..Len(rest) : rest[i] # n
  <2>1. n \in Nodes BY <1>1, <1>3, <1>5 DEF Shape
  <2>2. ASSUME NEW i \in 1..Len(rest) PROVE rest[i] # n
    <3>1. list \in Seq(Nodes) /\ Len(list) \in Nat BY <1>5 DEF Shape
    <3>2. /\ Len(rest) = Len(list) - 1
          /\ \A j \in 1..(Len(list) - 1) : rest[j] = IF j < p THEN list[j] ELSE list[j + 1]
      BY <1>4, <3>1, RemoveAtFacts
    <3> HIDE DEF rest
    <3>3. \E j \in 1..Len(list) : rest[i] = list[j] BY <1>4, <3>1, <3>2
    <3> QED BY <1>1, <1>6, <3>3 DEF Live
  <2> QED BY <2>1, <2>2
<1>8. Entries(rest, heap) = RemoveAt(Entries(list, heap), p) BY <1>4, <1>5, EntriesErase
<1>9. Entries(list', heap') = Cons(e, Entries(rest, heap))
  <2> HIDE DEF rest
  <2> QED BY <1>1, <1>2, <1>6, <1>7, EntriesPush
<1>10. Abstract!Others(Listed, k) = RemoveAt(Listed, p) BY <1>3, <1>4, KeyListed
<1> QED BY <1>8, <1>9, <1>10, ListedNext, ListedFacts DEF e

LEMMA GetListed ==
  ASSUME IInv, NEW t \in Threads, NEW k \in Keys, Get(t, k)
  PROVE  \E i \in 1..Len(Listed) :
           Listed[i].key = k /\ Listed' = Cons(Listed[i], Abstract!Others(Listed, k))
<1> DEFINE n == map[k]
           p == IndexOf(map[k])
           rest == RemoveAt(list, p)
<1>1. n # NoNode /\ list' = Cons(n, rest) /\ heap' = heap BY DEF Get, MoveToFront
<1>2. p \in 1..Len(list) /\ list[p] = n BY <1>1, FindNode
<1>3. Shape(list, map, heap) BY Unfold
<1> HIDE DEF p
<1>4. /\ Shape(rest, [map EXCEPT ![k] = NoNode], heap)
      /\ \A i \in 1..Len(rest) : rest[i] # n
  BY <1>1, <1>2, <1>3, EraseShape
<1>5. n \in Nodes /\ heap[n] \in Entry /\ heap = [heap EXCEPT ![n] = heap[n]] BY <1>1, <1>3 DEF Shape
<1>6. Entries(rest, heap) = RemoveAt(Entries(list, heap), p) BY <1>2, <1>3, EntriesErase
<1> HIDE DEF n, rest
<1>7. Entries(Cons(n, rest), [heap EXCEPT ![n] = heap[n]]) = Cons(heap[n], Entries(rest, heap))
  BY <1>4, <1>5, EntriesPush
<1>8. Listed' = Cons(heap[n], RemoveAt(Listed, p)) BY <1>1, <1>5, <1>6, <1>7, ListedNext, ListedFacts
<1>9. p \in 1..Len(Listed) /\ Listed[p].key = k /\ Abstract!Others(Listed, k) = RemoveAt(Listed, p)
  BY <1>1, <1>2, KeyListed DEF n
<1>10. Listed[p] = heap[n] BY <1>2, ListedFacts
<1> QED BY <1>8, <1>9, <1>10

LEMMA RemoveListed ==
  ASSUME IInv, NEW t \in Threads, NEW k \in Keys, RemoveKey(t, k)
  PROVE  Listed' = Abstract!Others(Listed, k)
<1>1. map[k] # NoNode /\ list' = RemoveAt(list, IndexOf(map[k])) /\ heap' = heap
  BY DEF RemoveKey, onDeleteValue, EraseKey
<1>2. IndexOf(map[k]) \in 1..Len(list) /\ list[IndexOf(map[k])] = map[k] BY <1>1, FindNode
<1>3. Entries(list', heap') = RemoveAt(Entries(list, heap), IndexOf(map[k]))
  BY <1>1, <1>2, Unfold, EntriesErase
<1> QED BY <1>1, <1>2, <1>3, ListedNext, ListedFacts, KeyListed

(* What the loop asks is whether everything fits.                          *)
LEMMA CleanupAsks ==
  ASSUME IInv, NEW g, Sums(g, Listed, Len(Listed))
  PROVE  NeedCleanup <=> ~FitsIn(g, Len(Listed), maxBytes)
<1>1. Listed = Entries(list, heap) /\ Len(Listed) = Len(list) /\ Len(list) \in Nat /\ maxBytes \in Nat
  BY ListedFacts
<1>2. Cardinality(Cached) = Len(list) /\ currentSize = g[Len(list)] BY <1>1, AllCounted
<1>3. currentSize \in Nat BY Unfold
<1> QED BY <1>1, <1>2, <1>3, CacheAssumption DEF NeedCleanup, FitsIn

LEMMA CleanupSeen ==
  ASSUME IInv, NEW t \in Threads, Cleanup(t)
  PROVE  Trimming!Trim(Listed', maxBytes) = Trimming!Trim(Listed, maxBytes)
<1>1. NeedCleanup /\ list' = RemoveAt(list, Len(list)) /\ heap' = heap
  BY DEF Cleanup, onDeleteValue, EraseKey
<1>2. Len(list) \in 1..Len(list) BY <1>1, LastEntry
<1>3. /\ Listed = Entries(list, heap) /\ Listed \in Seq(Entry) /\ Len(Listed) = Len(list) /\ Len(list) \in Nat
      /\ maxBytes \in Nat
  BY ListedFacts
<1>4. Listed' = RemoveAt(Listed, Len(Listed))
  <2>1. Entries(list', heap') = RemoveAt(Entries(list, heap), Len(list)) BY <1>1, <1>2, Unfold, EntriesErase
  <2> QED BY <1>3, <2>1, ListedNext
<1>5. PICK g : Sums(g, Listed, Len(Listed)) BY <1>3, SomethingSums
<1>6. ~FitsIn(g, Len(Listed), maxBytes) BY <1>1, <1>5, CleanupAsks
<1>7. Len(Listed) # 0 BY <1>2, <1>3
<1>8. Trimming!Trim(RemoveAt(Listed, Len(Listed)), maxBytes) = Trimming!Trim(Listed, maxBytes)
  BY <1>3, <1>5, <1>6, <1>7, TrimLast
<1> QED BY <1>4, <1>8

LEMMA UnlockSeen ==
  ASSUME IInv, ~NeedCleanup
  PROVE  Trimming!Trim(Listed, maxBytes) = Listed
<1>1. Listed \in Seq(Entry) /\ Len(Listed) \in Nat /\ maxBytes \in Nat BY ListedFacts
<1>2. PICK g : Sums(g, Listed, Len(Listed)) BY <1>1, SomethingSums
<1>3. FitsIn(g, Len(Listed), maxBytes) BY <1>2, CleanupAsks
<1> QED BY <1>1, <1>2, <1>3, TrimWhole

LEMMA SameCons == \A e, s : Abstract!Cons(e, s) = Cons(e, s)
BY Zenon DEF Abstract!Cons, Cons

(* Each action is an action of BoundedRecency, or none to it.              *)
LEMMA PutIsPut ==
  ASSUME IInv, NEW t \in Threads, NEW k \in Keys, NEW v \in Values, PutNew(t, k, v) \/ PutChange(t, k, v)
  PROVE  Abstract!Put(k, v)
<1>1. mutex = NoThread /\ mutex' = t /\ mutex' # NoThread /\ maxBytes' = maxBytes
  BY CacheAssumption DEF PutNew, PutChange, Enter
<1>2. Listed' = Cons([key |-> k, val |-> v], Abstract!Others(Listed, k)) BY PutNewListed, PutChangeListed
<1>3. Trimming!Trim(Listed', maxBytes) = Abstract!Trim(Listed', maxBytes) BY SameTrim
<1> HIDE DEF Listed
<1> QED BY <1>1, <1>2, <1>3, SameCons, Zenon DEF Abstract!Put

LEMMA GetIsUse ==
  ASSUME IInv, NEW t \in Threads, NEW k \in Keys, Get(t, k)
  PROVE  Abstract!Use(k)
<1>1. mutex = NoThread /\ mutex' = mutex /\ maxBytes' = maxBytes BY DEF Get, Enter
<1>2. \E i \in 1..Len(Listed) :
        Listed[i].key = k /\ Listed' = Cons(Listed[i], Abstract!Others(Listed, k))
  BY GetListed
<1> HIDE DEF Listed
<1> QED BY <1>1, <1>2, SameCons, Zenon DEF Abstract!Use

LEMMA RemoveIsForget ==
  ASSUME IInv, NEW t \in Threads, NEW k \in Keys, RemoveKey(t, k)
  PROVE  Abstract!Forget(k)
<1>1. mutex = NoThread /\ mutex' = mutex /\ maxBytes' = maxBytes BY DEF RemoveKey, Enter
<1>2. Listed' = Abstract!Others(Listed, k) BY RemoveListed
<1> HIDE DEF Listed
<1> QED BY <1>1, <1>2, Zenon DEF Abstract!Forget

LEMMA SetMaxSizeIsResize ==
  ASSUME NEW t \in Threads, NEW bytes \in ByteLimits, SetMaxSize(t, bytes)
  PROVE  Abstract!Resize(bytes)
<1>1. mutex = NoThread /\ mutex' # NoThread /\ maxBytes' = bytes
  BY CacheAssumption DEF SetMaxSize, Enter
<1>2. Listed' = Listed BY DEF SetMaxSize, Listed
<1>3. Trimming!Trim(Listed, bytes) = Abstract!Trim(Listed, bytes) BY SameTrim
<1> HIDE DEF Listed
<1> QED BY <1>1, <1>2, <1>3, Zenon DEF Abstract!Resize

LEMMA UnlockIsReturn ==
  ASSUME IInv, NEW t \in Threads, Unlock(t)
  PROVE  Abstract!Return
<1>1. mutex # NoThread /\ mutex' = NoThread /\ maxBytes' = maxBytes BY CacheAssumption DEF Unlock
<1>2. Listed' = Listed BY DEF Unlock, Listed
<1>3. Trimming!Trim(Listed, maxBytes) = Listed BY UnlockSeen DEF Unlock
<1> HIDE DEF Listed
<1> QED BY <1>1, <1>2, <1>3, Zenon DEF Abstract!Return

(* An eviction drops an entry that no longer counts.                       *)
LEMMA CleanupIsUnseen ==
  ASSUME IInv, NEW t \in Threads, Cleanup(t)
  PROVE  UNCHANGED <<Seen, maxBytes, mutex # NoThread>>
<1>1. mutex # NoThread /\ mutex' = mutex /\ maxBytes' = maxBytes BY CacheAssumption DEF Cleanup
<1>2. Trimming!Trim(Listed', maxBytes) = Trimming!Trim(Listed, maxBytes) BY CleanupSeen
<1> HIDE DEF Listed
<1> QED BY <1>1, <1>2, Zenon DEF Seen

LEMMA CopyIsUnseen ==
  ASSUME UNCHANGED <<list, heap, maxBytes, mutex>>
  PROVE  UNCHANGED <<Seen, maxBytes, mutex # NoThread>>
<1>1. Listed' = Listed BY DEF Listed
<1> HIDE DEF Listed
<1> QED BY <1>1, Zenon DEF Seen

LEMMA StepRefines ==
  IInv /\ [Next]_vars => [Abstract!Next]_<<Seen, maxBytes, mutex # NoThread>>
<1> SUFFICES ASSUME IInv, [Next]_vars
             PROVE  Abstract!Next \/ UNCHANGED <<Seen, maxBytes, mutex # NoThread>>
  OBVIOUS
<1>1. CASE UNCHANGED vars BY <1>1, CopyIsUnseen DEF vars
<1>2. ASSUME NEW t \in Threads, NEW k \in Keys, NEW v \in Values, PutNew(t, k, v) \/ PutChange(t, k, v)
      PROVE  Abstract!Next
  BY <1>2, PutIsPut DEF Abstract!Next
<1>3. ASSUME NEW t \in Threads, NEW k \in Keys, Get(t, k) PROVE Abstract!Next
  BY <1>3, GetIsUse DEF Abstract!Next
<1>4. ASSUME NEW t \in Threads, NEW k \in Keys, RemoveKey(t, k) PROVE Abstract!Next
  BY <1>4, RemoveIsForget DEF Abstract!Next
<1>5. ASSUME NEW t \in Threads, NEW bytes \in ByteLimits, SetMaxSize(t, bytes) PROVE Abstract!Next
  BY <1>5, SetMaxSizeIsResize DEF Abstract!Next
<1>6. ASSUME NEW t \in Threads, Copy(t) PROVE UNCHANGED <<Seen, maxBytes, mutex # NoThread>>
  BY <1>6, CopyIsUnseen DEF Copy
<1>7. ASSUME NEW t \in Threads, Cleanup(t) PROVE UNCHANGED <<Seen, maxBytes, mutex # NoThread>>
  BY <1>7, CleanupIsUnseen
<1>8. ASSUME NEW t \in Threads, Unlock(t) PROVE Abstract!Next
  BY <1>8, UnlockIsReturn DEF Abstract!Next
<1> QED BY <1>1, <1>2, <1>3, <1>4, <1>5, <1>6, <1>7, <1>8 DEF Next

LEMMA InitRefines == Init => Abstract!Init
<1> SUFFICES ASSUME Init PROVE Abstract!Init OBVIOUS
<1>1. mutex = NoThread /\ maxBytes = InitBytes BY DEF Init
<1>2. Listed = <<>>
  <2>1. IInv BY Initially
  <2>2. Listed \in Seq(Entry) /\ Len(Listed) = Len(list) BY <2>1, ListedFacts
  <2>3. Len(list) = 0 BY DEF Init
  <2> HIDE DEF Listed
  <2> QED BY <2>2, <2>3
<1> HIDE DEF Listed
<1> QED BY <1>1, <1>2, Zenon DEF Abstract!Init

(* ByteCacheRefines: whatever the threads do, put(), get(), remove() and   *)
(* setMaxSize() have in one step the effect BoundedRecency gives them: the *)
(* cache remembers the longest stretch of last used entries that fits, and *)
(* the eviction loop only carries out what was settled when it started.    *)
THEOREM CacheRefines == Spec => RefinesBoundedRecency
<1>1. Init => Abstract!Init BY InitRefines
<1>2. IInv /\ [Next]_vars => [Abstract!Next]_<<Seen, maxBytes, mutex # NoThread>> BY StepRefines
<1> QED BY <1>1, <1>2, Invariance, PTL DEF Spec, RefinesBoundedRecency, Abstract!Spec, Seen
=============================================================================
