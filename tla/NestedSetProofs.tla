--------------------------- MODULE NestedSetProofs ---------------------------
(***************************************************************************)
(* What nestedset.cpp guarantees for any number of clients, rows and       *)
(* failures.  The inductive invariant TreeInv says of an unspoiled state:  *)
(* a row of the table lies apart from, within or around every other, and   *)
(* within its parent's; what an operation has SELECTed is still so when    *)
(* its first UPDATE runs; one operation at most is past that UPDATE; and   *)
(* what it finds is a tree with room for two keys (insert), a tree with a  *)
(* gap (remove) or, row by row, what its UPDATEs so far make of the tree   *)
(* it began with (move).  That tree, or the same one with other keys, is   *)
(* the one in `settled`, which is why the table implements OrderedForest.  *)
(***************************************************************************)
EXTENDS NestedSetRefines, FiniteSetTheorems, WellFoundedInduction, TLAPS

(* A table is a function from ids to rows; these are the ids that have one.*)
Has(t) == {i \in Ids : t[i] # NoRow}
Tables == [Ids -> Row \cup {NoRow}]

Apart(r, s) == r.right < s.left \/ s.right < r.left
Encloses(r, s) == r.left < s.left /\ s.right < r.right

(* Two rows are apart or one in the other, a row is in its parent's, and   *)
(* whatever encloses it is its parent or encloses that too.                *)
Nested(t) ==
  /\ \A i \in Has(t) : 0 < t[i].left /\ t[i].left < t[i].right
  /\ \A i, j \in Has(t) :
       i # j => Apart(t[i], t[j]) \/ Encloses(t[i], t[j]) \/ Encloses(t[j], t[i])
  /\ \A i \in Has(t) : t[i].parent # 0 =>
       t[i].parent \in Has(t) /\ Encloses(t[t[i].parent], t[i])
  /\ \A i, j \in Has(t) : Encloses(t[i], t[j]) =>
       /\ t[j].parent \in Has(t)
       /\ t[j].parent = i \/ Encloses(t[i], t[t[j].parent])

(* The keys are 1, 2, ... but for those of the gap.                        *)
Used(t, k) == \E i \in Has(t) : k = t[i].left \/ k = t[i].right
FilledTo(t, gap, n) ==
  /\ gap \subseteq 1..n
  /\ \A k \in Int : Used(t, k) <=> k \in 1..n /\ k \notin gap
Filled(t, gap) == \E n \in Nat : FilledTo(t, gap, n)
Whole(t, gap) == Nested(t) /\ (failures = 0 => Filled(t, gap))

(* What a client has read is still so.                                     *)
Behind(t, k) ==
  /\ k \in Int
  /\ \A i \in Has(t) : t[i].right < k
  /\ k = 1 \/ \E i \in Has(t) : t[i].right = k - 1
InsertRead(t, j) ==
  \/ j.parent \in Has(t) /\ j.right = t[j.parent].right
  \/ j.parent = 0 /\ Behind(t, j.right)
RowRead(t, j) == \E i \in Has(t) : j.left = t[i].left /\ j.right = t[i].right
NodeRead(t, j) == j.id \in Has(t) /\ j.left = t[j.id].left /\ j.right = t[j.id].right
MoveRead(t, j) ==
  NodeRead(t, j) /\ j.parent \in Has(t) /\ j.parentRight = t[j.parent].right
Fresh ==
  \A c \in Clients :
    /\ pc[c] = "makeRoom" => InsertRead(table, job[c])
    /\ pc[c] = "deleteTree" => RowRead(table, job[c])
    /\ pc[c] = "findParent" => NodeRead(table, job[c])
    /\ pc[c] = "disableTree" => MoveRead(table, job[c])

(* Operations past their first UPDATE, of which there is one at a time.    *)
Moving == {"restrictLeft", "restrictRight", "addLeft", "addRight", "backNode", "updateID"}
Busy == {"insertRow", "closeGap"} \cup Moving
OneBusy == \A c, d \in Clients : pc[c] \in Busy /\ pc[d] \in Busy => c = d

(* The same trees, whatever the keys are.                                  *)
SameForest(t, u) ==
  /\ Has(u) = Has(t)
  /\ \A i \in Has(t) : u[i].parent = t[i].parent
  /\ \A i, k \in Has(t) : t[i].left < t[k].left <=> u[i].left < u[k].left

AtRest == (\A c \in Clients : pc[c] \notin Busy) => Whole(table, {}) /\ settled = table

(* insert() has made room for its row.                                     *)
Room(t, j) ==
  /\ j.right > 0
  /\ \A i \in Has(t) : /\ t[i].left < j.right \/ t[i].left > j.right + 1
                       /\ t[i].right < j.right \/ t[i].right > j.right + 1
  /\ IF j.parent = 0 THEN \A i \in Has(t) : t[i].right < j.right
     ELSE j.parent \in Has(t) /\ t[j.parent].left < j.right /\ t[j.parent].right = j.right + 2
AtInsert ==
  \A c \in Clients : pc[c] = "insertRow" =>
    /\ Whole(table, {job[c].right, job[c].right + 1}) /\ Room(table, job[c])
    /\ SameForest(settled, table)

(* remove() has left a gap.                                                *)
Gap(t, j) ==
  /\ 0 < j.left /\ j.left < j.right
  /\ \A i \in Has(t) : /\ t[i].left < j.left \/ t[i].left > j.right
                       /\ t[i].right < j.left \/ t[i].right > j.right
Within(r, j) == j.left <= r.left /\ r.right <= j.right
Cleared(t, u, j) ==
  /\ Nested(t) /\ RowRead(t, j)
  /\ Has(u) = {i \in Has(t) : ~Within(t[i], j)}
  /\ \A i \in Has(u) : u[i] = t[i]
AtClose ==
  \A c \in Clients : pc[c] = "closeGap" =>
    /\ Whole(table, job[c].left..job[c].right) /\ Gap(table, job[c])
    /\ Cleared(settled, table, job[c])

(* What has become of a row of the tree that move() began with.            *)
Closed(j, k) == IF k > j.right THEN k - (j.right - j.left + 1) ELSE k
Opened(c, k) == IF k >= Target(c) THEN k + Size(c) ELSE k
LeftNow(c, k) ==
  IF pc[c] = "restrictLeft" THEN k
  ELSE IF pc[c] \in {"restrictRight", "addLeft"} THEN Closed(job[c], k)
  ELSE Opened(c, Closed(job[c], k))
RightNow(c, k) ==
  IF pc[c] \in {"restrictLeft", "restrictRight"} THEN k
  ELSE IF pc[c] \in {"addLeft", "addRight"} THEN Closed(job[c], k)
  ELSE Opened(c, Closed(job[c], k))
Disabled(c, k) == IF pc[c] = "updateID" THEN Shift(c) + k ELSE -k
MovedLeft(c, r) == IF Within(r, job[c]) THEN Disabled(c, r.left) ELSE LeftNow(c, r.left)
MovedRight(c, r) == IF Within(r, job[c]) THEN Disabled(c, r.right) ELSE RightNow(c, r.right)
Midway(c, before) ==
  /\ Whole(before, {})
  /\ MoveRead(before, job[c])
  /\ Has(table) = Has(before)
  /\ \A i \in Has(before) : /\ table[i].left = MovedLeft(c, before[i])
                            /\ table[i].right = MovedRight(c, before[i])
                            /\ table[i].parent = before[i].parent
AtMove ==
  \A c \in Clients : pc[c] \in Moving =>
    \E before \in Tables : before = settled /\ Midway(c, before)

RowsSoFar == \A i \in Present : i <= lastId

Sound == OneBusy /\ Fresh /\ AtRest /\ AtInsert /\ AtClose /\ AtMove
TreeInv == TypeOK /\ RowsSoFar /\ (spoiled \/ Sound)

-----------------------------------------------------------------------------
LEMMA Keys ==
  ASSUME NEW t \in Tables, NEW i \in Has(t)
  PROVE  /\ i \in Ids /\ i \in Nat /\ i # 0
         /\ t[i] \in Row /\ t[i] # NoRow
         /\ t[i].left \in Int /\ t[i].right \in Int /\ t[i].parent \in 0..MaxId
BY TreeAssumption DEF Tables, Has, Row, Ids

LEMMA NotZero == ASSUME NEW t PROVE 0 \notin Has(t)
BY TreeAssumption DEF Has, Ids

LEMMA HasNot == ASSUME NEW t, NEW i \in Ids PROVE i \notin Has(t) <=> t[i] = NoRow
BY DEF Has

LEMMA RowNotNone == ASSUME NEW r \in Row PROVE r # NoRow
BY TreeAssumption DEF Row

(* How two different rows of a nested table lie to each other.             *)
LEMMA Pairs ==
  ASSUME NEW t \in Tables, Nested(t), NEW i \in Has(t), NEW j \in Has(t), i # j
  PROVE  /\ 0 < t[i].left /\ t[i].left < t[i].right /\ 0 < t[j].left /\ t[j].left < t[j].right
         /\ \/ t[i].right < t[j].left
            \/ t[j].right < t[i].left
            \/ t[i].left < t[j].left /\ t[j].right < t[i].right
            \/ t[j].left < t[i].left /\ t[i].right < t[j].right
BY Keys DEF Nested, Apart, Encloses

(* A row that does not get out of another is enclosed by it.               *)
LEMMA InRow ==
  ASSUME NEW t \in Tables, Nested(t), NEW i \in Has(t), NEW j \in Has(t), i # j,
         t[i].left <= t[j].left, t[j].right <= t[i].right
  PROVE  /\ Encloses(t[i], t[j])
         /\ t[j].parent \in Has(t)
         /\ t[j].parent = i \/ Encloses(t[i], t[t[j].parent])
<1>1. Encloses(t[i], t[j]) BY Pairs, Keys DEF Encloses
<1> QED BY <1>1 DEF Nested

LEMMA Transitive ==
  ASSUME NEW t \in Tables, NEW i \in Has(t), NEW j \in Has(t), NEW k \in Has(t),
         Encloses(t[i], t[j]), Encloses(t[j], t[k])
  PROVE  Encloses(t[i], t[k])
BY Keys DEF Encloses

-----------------------------------------------------------------------------
(* The rows within a row are those it has below it.                        *)
Branch(t, i) == {k \in Has(t) : t[i].left <= t[k].left /\ t[k].right <= t[i].right}

LEMMA BranchTells ==
  ASSUME NEW t \in Tables, Nested(t), NEW i \in Has(t), NEW k \in Has(t)
  PROVE  k \in Branch(t, i) <=> k = i \/ t[k].parent \in Branch(t, i)
<1>1. ASSUME k \in Branch(t, i), k # i PROVE t[k].parent \in Branch(t, i)
  <2>1. t[k].parent \in Has(t) /\ (t[k].parent = i \/ Encloses(t[i], t[t[k].parent]))
    BY <1>1, InRow DEF Branch
  <2> QED BY <2>1, Keys DEF Branch, Encloses
<1>2. i \in Branch(t, i) BY Keys DEF Branch
<1>3. ASSUME t[k].parent \in Branch(t, i) PROVE k \in Branch(t, i)
  <2>1. /\ t[k].parent \in Has(t) /\ t[i].left <= t[t[k].parent].left
        /\ t[t[k].parent].right <= t[i].right
    BY <1>3 DEF Branch
  <2>2. Encloses(t[t[k].parent], t[k]) BY <2>1, NotZero DEF Nested
  <2> QED BY <2>1, <2>2, Keys DEF Branch, Encloses
<1> QED BY <1>1, <1>2, <1>3

(* What the keys say is what the parents say.                              *)
LEMMA NestedAgrees ==
  ASSUME table \in Tables, Nested(table)
  PROVE  /\ \A i \in Present :
              /\ table[i].left < table[i].right
              /\ table[i].parent # 0 =>
                   /\ table[i].parent \in Present
                   /\ table[table[i].parent].left < table[i].left
                   /\ table[i].right < table[table[i].parent].right
         /\ \A i, j \in Present :
              i # j /\ table[i].parent = table[j].parent =>
                table[i].right < table[j].left \/ table[j].right < table[i].left
<1>0. Present = Has(table) BY DEF Present, Has
<1>1. \A i \in Present :
         /\ table[i].left < table[i].right
         /\ table[i].parent # 0 =>
              /\ table[i].parent \in Present
              /\ table[table[i].parent].left < table[i].left
              /\ table[i].right < table[table[i].parent].right
  BY <1>0 DEF Nested, Encloses
<1>2. ASSUME NEW i \in Present, NEW j \in Present, i # j, table[i].parent = table[j].parent,
             Encloses(table[i], table[j])
      PROVE  FALSE
  <2>1. /\ table[j].parent \in Present
        /\ table[j].parent = i \/ Encloses(table[i], table[table[j].parent])
    BY <1>0, <1>2 DEF Nested
  <2>2. Encloses(table[table[i].parent], table[i])
    BY <1>0, <1>2, <2>1, NotZero DEF Nested
  <2> QED BY <1>0, <1>2, <2>1, <2>2, Keys DEF Encloses
<1>3. ASSUME NEW i \in Present, NEW j \in Present, i # j, table[i].parent = table[j].parent
      PROVE  table[i].right < table[j].left \/ table[j].right < table[i].left
  <2>1. Apart(table[i], table[j]) \/ Encloses(table[i], table[j]) \/ Encloses(table[j], table[i])
    BY <1>0, <1>3 DEF Nested
  <2> QED BY <1>2, <1>3, <2>1 DEF Apart
<1> QED BY <1>1, <1>3

LEMMA QueriesTell ==
  ASSUME table \in Tables, Nested(table)
  PROVE  /\ \A i, j \in Present :
              j \in Subtree(i) <=> j = i \/ table[j].parent \in Subtree(i)
         /\ \A i \in Present : ContaisTree(i) = Subtree(i) \cup ParentTree(i)
         /\ \A i \in Leefs : Children(i) = {}
<1>0. Present = Has(table) BY DEF Present, Has
<1>1. ASSUME NEW i \in Present, NEW j \in Present
      PROVE  j \in Subtree(i) <=> j = i \/ table[j].parent \in Subtree(i)
  <2>1. \A k \in Present : Subtree(k) = Branch(table, k) BY <1>0, Keys DEF Subtree, Branch
  <2> QED BY <1>0, <2>1, BranchTells
<1>2. ASSUME NEW i \in Present PROVE ContaisTree(i) = Subtree(i) \cup ParentTree(i)
  <2>1. ASSUME NEW j \in Present
        PROVE  table[j].right > table[i].left /\ table[j].left < table[i].right
               <=> \/ table[j].left >= table[i].left /\ table[j].right <= table[i].right
                   \/ table[j].left <= table[i].left /\ table[j].right >= table[i].right
    <3>1. CASE i = j BY <1>0, <3>1, Keys DEF Nested
    <3>2. CASE i # j BY <1>0, <3>2, Keys, Pairs
    <3> QED BY <3>1, <3>2
  <2> QED BY <2>1 DEF ContaisTree, Subtree, ParentTree
<1>3. ASSUME NEW i \in Leefs, NEW j \in Children(i) PROVE FALSE
  <2>1. i \in Has(table) /\ j \in Has(table) /\ table[j].parent = i
        /\ table[i].right - table[i].left = 1
    BY <1>0 DEF Leefs, Children
  <2>2. Encloses(table[i], table[j]) BY <2>1, NotZero DEF Nested
  <2>3. table[j].left < table[j].right BY <2>1 DEF Nested
  <2> QED BY <2>1, <2>2, <2>3, Keys DEF Encloses
<1> QED BY <1>1, <1>2, <1>3

(* In a table without gaps what is not a leaf has a child: the row whose   *)
(* key comes next.                                                         *)
LEMMA LeavesTell ==
  ASSUME table \in Tables, Nested(table), Filled(table, {}),
         NEW i \in Present, Children(i) = {}
  PROVE  i \in Leefs
<1>0. i \in Has(table) /\ Present = Has(table) BY DEF Present, Has
<1>1. PICK n \in Nat : FilledTo(table, {}, n) BY DEF Filled
<1>2. table[i].left \in Int /\ table[i].right \in Int /\ 0 < table[i].left
      /\ table[i].left < table[i].right
  BY <1>0, Keys DEF Nested
<1> SUFFICES ASSUME table[i].right # table[i].left + 1 PROVE FALSE
  BY <1>0, <1>2 DEF Leefs
<1>3. Used(table, table[i].right) BY <1>0 DEF Used
<1>4. table[i].right \in 1..n BY <1>1, <1>2, <1>3 DEF FilledTo
<1>5. Used(table, table[i].left + 1) BY <1>1, <1>2, <1>4 DEF FilledTo
<1>6. PICK j \in Has(table) : \/ table[i].left + 1 = table[j].left
                              \/ table[i].left + 1 = table[j].right
  BY <1>5 DEF Used
<1>7. i # j BY <1>2, <1>6
<1>8. table[j].left = table[i].left + 1 /\ table[j].right < table[i].right
  BY <1>0, <1>2, <1>6, <1>7, Pairs, Keys
<1>9. Encloses(table[i], table[j]) BY <1>0, <1>2, <1>8, Keys DEF Encloses
<1>10. /\ table[j].parent \in Has(table)
       /\ table[j].parent = i \/ Encloses(table[i], table[table[j].parent])
  BY <1>0, <1>9 DEF Nested
<1>11. table[j].parent # i BY <1>0 DEF Children
<1>12. Encloses(table[table[j].parent], table[j]) BY <1>10, NotZero DEF Nested
<1> QED BY <1>0, <1>2, <1>8, <1>10, <1>11, <1>12, Keys DEF Encloses

-----------------------------------------------------------------------------
(* Each row has two keys and no two rows share one: n rows fill 1..2n.     *)
LEMMA TwoKeysEach ==
  ASSUME table \in Tables, Nested(table), Filled(table, {})
  PROVE  {table[i].left : i \in Present} \cup {table[i].right : i \in Present}
           = 1..(2 * Cardinality(Present))
<1>0. Present = Has(table) BY DEF Present, Has
<1> DEFINE L == {table[i].left : i \in Present}
           R == {table[i].right : i \in Present}
           l == [i \in Present |-> table[i].left]
           r == [i \in Present |-> table[i].right]
<1>1. PICK n \in Nat : FilledTo(table, {}, n) BY DEF Filled
<1>2. IsFiniteSet(Present)
  <2>1. IsFiniteSet(1..MaxId) BY TreeAssumption, FS_Interval
  <2>2. Present \subseteq 1..MaxId BY DEF Present, Ids
  <2> QED BY <2>1, <2>2, FS_Subset
<1>3. \A i, j \in Present : i # j =>
        /\ table[i].left # table[j].left /\ table[i].right # table[j].right
        /\ table[i].left # table[j].right
  BY <1>0, Pairs, Keys
<1>4. \A i \in Present : table[i].left # table[i].right BY <1>0, Keys DEF Nested
<1>5. L \cap R = {} BY <1>3, <1>4
<1>6. IsFiniteSet(L) /\ Cardinality(L) = Cardinality(Present)
  <2>1. l \in Bijection(Present, L)
    <3>1. l \in [Present -> L] OBVIOUS
    <3>2. \A i, j \in Present : l[i] = l[j] => i = j BY <1>3
    <3>3. \A k \in L : \E i \in Present : l[i] = k OBVIOUS
    <3> QED BY <3>1, <3>2, <3>3 DEF Bijection, Injection, Surjection, IsInjective
  <2> QED BY <1>2, <2>1, FS_Bijection DEF ExistsBijection
<1>7. IsFiniteSet(R) /\ Cardinality(R) = Cardinality(Present)
  <2>1. r \in Bijection(Present, R)
    <3>1. r \in [Present -> R] OBVIOUS
    <3>2. \A i, j \in Present : r[i] = r[j] => i = j BY <1>3
    <3>3. \A k \in R : \E i \in Present : r[i] = k OBVIOUS
    <3> QED BY <3>1, <3>2, <3>3 DEF Bijection, Injection, Surjection, IsInjective
  <2> QED BY <1>2, <2>1, FS_Bijection DEF ExistsBijection
<1>8. \A k \in Int : Used(table, k) <=> k \in L \cup R BY <1>0 DEF Used
<1>9. L \cup R \subseteq Int BY <1>0, Keys
<1>10. L \cup R = 1..n
  <2>1. \A k \in Int : k \in L \cup R <=> k \in 1..n BY <1>1, <1>8 DEF FilledTo
  <2> HIDE DEF L, R
  <2> QED BY <1>9, <2>1
<1> HIDE DEF L, R
<1>11. Cardinality(L \cup R) = Cardinality(L) + Cardinality(R) - Cardinality(L \cap R)
  BY <1>6, <1>7, FS_Union
<1>12. Cardinality(L \cap R) = 0 BY <1>5, FS_EmptySet
<1>13. Cardinality(1..n) = n BY FS_Interval
<1>14. Cardinality(Present) \in Nat BY <1>2, FS_CardinalityType
<1>15. n = 2 * Cardinality(Present)
  <2>1. n = Cardinality(L \cup R) BY <1>10, <1>13
  <2>2. PICK k \in Nat : k = Cardinality(Present) BY <1>14
  <2>3. n = k + k - 0 BY <1>6, <1>7, <1>11, <1>12, <2>1, <2>2
  <2> QED BY <2>2, <2>3
<1> QED BY <1>10, <1>15 DEF L, R

-----------------------------------------------------------------------------
(* A table whose keys change but keep their order stays nested.            *)
LEMMA OrderKept ==
  ASSUME NEW t \in Tables, NEW u \in Tables, Nested(t), Has(u) = Has(t),
         \A i \in Has(t) : u[i].parent = t[i].parent /\ 0 < u[i].left,
         \A i, j \in Has(t) :
           /\ t[i].left < t[j].left => u[i].left < u[j].left
           /\ t[i].left < t[j].right => u[i].left < u[j].right
           /\ t[i].right < t[j].left => u[i].right < u[j].left
           /\ t[i].right < t[j].right => u[i].right < u[j].right
  PROVE  Nested(u)
<1>1. \A i \in Has(u) : 0 < u[i].left /\ u[i].left < u[i].right BY DEF Nested
<1>2. \A i, j \in Has(u) : Encloses(t[i], t[j]) => Encloses(u[i], u[j]) BY DEF Encloses
<1>3. \A i, j \in Has(u) : Apart(t[i], t[j]) => Apart(u[i], u[j]) BY DEF Apart
<1>4. \A i, j \in Has(u) :
        i # j => Apart(u[i], u[j]) \/ Encloses(u[i], u[j]) \/ Encloses(u[j], u[i])
  BY <1>2, <1>3 DEF Nested
<1>5. \A i \in Has(u) : u[i].parent # 0 =>
        u[i].parent \in Has(u) /\ Encloses(u[u[i].parent], u[i])
  BY <1>2 DEF Nested
<1>6. \A i, j \in Has(u) : Encloses(u[i], u[j]) => Encloses(t[i], t[j])
  <2> SUFFICES ASSUME NEW i \in Has(u), NEW j \in Has(u), Encloses(u[i], u[j]),
                      ~Encloses(t[i], t[j])
               PROVE  FALSE
    OBVIOUS
  <2>1. i # j BY Keys DEF Encloses
  <2>2. Apart(u[i], u[j]) \/ Encloses(u[j], u[i]) BY <1>2, <1>3, <2>1 DEF Nested
  <2> QED BY <1>1, <2>2, Keys DEF Apart, Encloses
<1>7. \A i, j \in Has(u) : Encloses(u[i], u[j]) =>
        /\ u[j].parent \in Has(u)
        /\ u[j].parent = i \/ Encloses(u[i], u[u[j].parent])
  BY <1>2, <1>6 DEF Nested
<1> QED BY <1>1, <1>4, <1>5, <1>7 DEF Nested

(* No key of the table is in the interval.                                 *)
Clear(t, a, b) ==
  \A i \in Has(t) : /\ t[i].left < a \/ t[i].left > b
                    /\ t[i].right < a \/ t[i].right > b

-----------------------------------------------------------------------------
(* The row with other keys.                                                *)
Rekeyed(r, k, m) == [r EXCEPT !.left = k, !.right = m]

LEMMA WithKeys ==
  ASSUME NEW r \in Row, NEW k \in Int, NEW m \in Int
  PROVE  /\ Rekeyed(r, k, m) \in Row
         /\ Rekeyed(r, k, m).left = k /\ Rekeyed(r, k, m).right = m
         /\ Rekeyed(r, k, m).parent = r.parent
BY DEF Rekeyed, Row

(* insert(): two keys are made free before a key, or behind all of them.   *)
RoomMade(t, u, key) ==
  u = [i \in Ids |->
         IF i \in Has(t) /\ t[i].right >= key
         THEN [t[i] EXCEPT !.left = IF @ > key THEN @ + 2 ELSE @, !.right = @ + 2]
         ELSE t[i]]

(* The key is that of the end of a node, or behind all keys.               *)
LEMMA InsertKey ==
  ASSUME NEW t \in Tables, Nested(t), NEW j \in Job, InsertRead(t, j)
  PROVE  /\ j.right > 0
         /\ \A i \in Has(t) : t[i].left # j.right
         /\ \A n \in Nat : FilledTo(t, {}, n) => j.right <= n + 1
<1>0. j.right \in Int BY DEF Job
<1>1. CASE j.parent \in Has(t) /\ j.right = t[j.parent].right
  <2>1. \A i \in Has(t) : t[i].left # j.right
    <3> SUFFICES ASSUME NEW i \in Has(t) PROVE t[i].left # t[j.parent].right BY <1>1
    <3>1. CASE i = j.parent BY <1>1, <3>1, Keys DEF Nested
    <3>2. CASE i # j.parent BY <1>1, <3>2, Pairs, Keys
    <3> QED BY <3>1, <3>2
  <2>2. j.right > 0 BY <1>1, Keys DEF Nested
  <2>3. Used(t, j.right) BY <1>1 DEF Used
  <2>4. \A n \in Nat : FilledTo(t, {}, n) => j.right <= n + 1 BY <1>0, <2>3 DEF FilledTo
  <2> QED BY <2>1, <2>2, <2>4
<1>2. CASE j.parent = 0 /\ Behind(t, j.right)
  <2>1. \A i \in Has(t) : t[i].left # j.right BY <1>0, <1>2, Keys DEF Behind, Nested
  <2>2. j.right > 0 BY <1>0, <1>2, Keys DEF Behind, Nested
  <2>3. ASSUME NEW n \in Nat, FilledTo(t, {}, n) PROVE j.right <= n + 1
    <3>1. CASE j.right = 1 BY <3>1
    <3>2. CASE \E i \in Has(t) : t[i].right = j.right - 1
      <4>1. Used(t, j.right - 1) BY <3>2 DEF Used
      <4> QED BY <1>0, <2>3, <4>1 DEF FilledTo
    <3> QED BY <1>2, <3>1, <3>2 DEF Behind
  <2> QED BY <2>1, <2>2, <2>3
<1> QED BY <1>1, <1>2 DEF InsertRead

(* An UPDATE makes rows of rows.                                           *)
LEMMA Updated ==
  ASSUME NEW t \in Tables, NEW u, u = [i \in Ids |-> u[i]],
         \A i \in Has(t) : u[i] \in Row,
         \A i \in Ids : i \notin Has(t) => u[i] = t[i]
  PROVE  u \in Tables /\ Has(u) = Has(t)
<1>1. \A i \in Ids : i \notin Has(t) => u[i] = NoRow BY HasNot
<1>2. \A i \in Ids : u[i] \in Row \cup {NoRow} BY <1>1
<1>3. Has(u) = Has(t) BY <1>1, RowNotNone DEF Has
<1> QED BY <1>2, <1>3 DEF Tables

LEMMA RoomRows ==
  ASSUME NEW t \in Tables, NEW u, NEW key \in Int, RoomMade(t, u, key)
  PROVE  /\ u \in Tables /\ Has(u) = Has(t)
         /\ \A i \in Has(t) :
              /\ u[i].parent = t[i].parent
              /\ u[i].left = IF t[i].right >= key /\ t[i].left > key THEN t[i].left + 2
                             ELSE t[i].left
              /\ u[i].right = IF t[i].right >= key THEN t[i].right + 2 ELSE t[i].right
<1>1. ASSUME NEW i \in Has(t)
      PROVE  /\ u[i] \in Row
             /\ u[i].parent = t[i].parent
             /\ u[i].left = IF t[i].right >= key /\ t[i].left > key THEN t[i].left + 2
                            ELSE t[i].left
             /\ u[i].right = IF t[i].right >= key THEN t[i].right + 2 ELSE t[i].right
  <2>1. t[i] \in Row /\ i \in Ids BY Keys
  <2>2. CASE t[i].right >= key
    <3>1. u[i] = [t[i] EXCEPT !.left = IF @ > key THEN @ + 2 ELSE @, !.right = @ + 2]
      BY <2>1, <2>2 DEF RoomMade
    <3>2. PICK k \in Int : k = IF t[i].left > key THEN t[i].left + 2 ELSE t[i].left BY Keys
    <3>3. PICK m \in Int : m = t[i].right + 2 BY Keys
    <3>4. u[i] = Rekeyed(t[i], k, m) BY <3>1, <3>2, <3>3 DEF Rekeyed
    <3>5. u[i] \in Row /\ u[i].left = k /\ u[i].right = m /\ u[i].parent = t[i].parent
      BY ONLY <2>1, <3>2, <3>3, <3>4, k \in Int, m \in Int, WithKeys
    <3> QED BY <2>2, <3>2, <3>3, <3>5
  <2>3. CASE ~(t[i].right >= key)
    <3>1. u[i] = t[i] BY <2>1, <2>3 DEF RoomMade
    <3> QED BY <2>1, <2>3, <3>1
  <2> QED BY <2>2, <2>3
<1>2. u = [i \in Ids |-> u[i]] /\ \A i \in Ids : i \notin Has(t) => u[i] = t[i] BY DEF RoomMade
<1> QED BY <1>1, <1>2, Updated

(* The trees stay as they were.                                            *)
LEMMA RoomForest ==
  ASSUME NEW t \in Tables, NEW u, NEW key \in Int, RoomMade(t, u, key), Nested(t)
  PROVE  SameForest(t, u)
<1>1. /\ Has(u) = Has(t)
      /\ \A i \in Has(t) :
           /\ u[i].parent = t[i].parent
           /\ u[i].left = IF t[i].left > key THEN t[i].left + 2 ELSE t[i].left
  BY RoomRows, Keys DEF Nested
<1>2. \A i \in Has(t) : t[i].left \in Int BY Keys
<1> QED BY <1>1, <1>2 DEF SameForest

LEMMA RoomKept ==
  ASSUME NEW t \in Tables, Nested(t), NEW j \in Job, InsertRead(t, j),
         NEW u, RoomMade(t, u, j.right)
  PROVE  /\ u \in Tables /\ Has(u) = Has(t)
         /\ Nested(u) /\ Room(u, j)
         /\ Filled(t, {}) => Filled(u, {j.right, j.right + 1})
<1> DEFINE key == j.right
<1>0. key \in Int /\ key > 0 /\ (\A i \in Has(t) : t[i].left # key) BY InsertKey DEF Job
<1>1. /\ u \in Tables /\ Has(u) = Has(t)
      /\ \A i \in Has(t) :
           /\ u[i].parent = t[i].parent
           /\ u[i].left = IF t[i].left > key THEN t[i].left + 2 ELSE t[i].left
           /\ u[i].right = IF t[i].right >= key THEN t[i].right + 2 ELSE t[i].right
  <2>1. /\ u \in Tables /\ Has(u) = Has(t)
        /\ \A i \in Has(t) :
             /\ u[i].parent = t[i].parent
             /\ u[i].left = IF t[i].right >= key /\ t[i].left > key THEN t[i].left + 2
                            ELSE t[i].left
             /\ u[i].right = IF t[i].right >= key THEN t[i].right + 2 ELSE t[i].right
    BY <1>0, RoomRows
  <2>2. \A i \in Has(t) : t[i].left < t[i].right /\ t[i].left \in Int /\ t[i].right \in Int
    BY Keys DEF Nested
  <2> QED BY <1>0, <2>1, <2>2
<1> HIDE DEF key
<1>2. Nested(u)
  <2>1. \A i \in Has(t) : u[i].parent = t[i].parent /\ 0 < u[i].left BY <1>1, Keys DEF Nested
  <2>2. ASSUME NEW i \in Has(t), NEW k \in Has(t)
        PROVE  /\ t[i].left < t[k].left => u[i].left < u[k].left
               /\ t[i].left < t[k].right => u[i].left < u[k].right
               /\ t[i].right < t[k].left => u[i].right < u[k].left
               /\ t[i].right < t[k].right => u[i].right < u[k].right
    BY <1>0, <1>1, Keys
  <2> QED BY <1>1, <2>1, <2>2, OrderKept
<1>3. Room(u, j)
  <2>1. j.right > 0 BY <1>0 DEF key
  <2>2. \A i \in Has(u) : /\ u[i].left < j.right \/ u[i].left > j.right + 1
                          /\ u[i].right < j.right \/ u[i].right > j.right + 1
    BY <1>0, <1>1, Keys DEF key
  <2>3. CASE j.parent \in Has(t) /\ j.right = t[j.parent].right
    <3>1. t[j.parent].left < key /\ t[j.parent].right = key /\ j.parent # 0
      BY <2>3, NotZero DEF key, Nested
    <3>2. u[j.parent].left < key /\ u[j.parent].right = key + 2
      BY <1>0, <1>1, <2>3, <3>1, Keys
    <3> QED BY <1>1, <2>1, <2>2, <2>3, <3>1, <3>2 DEF Room, key
  <2>4. CASE j.parent = 0 /\ Behind(t, j.right)
    <3>1. \A i \in Has(u) : u[i].right < key BY <1>0, <1>1, <2>4, Keys DEF Behind, key
    <3> QED BY <2>1, <2>2, <2>4, <3>1 DEF Room, key
  <2> QED BY <2>3, <2>4 DEF InsertRead
<1>4. ASSUME NEW n \in Nat, FilledTo(t, {}, n)
      PROVE  FilledTo(u, {key, key + 1}, n + 2)
  <2>1. key <= n + 1 BY <1>4, InsertKey DEF key
  <2>2. {key, key + 1} \subseteq 1..(n + 2) BY <1>0, <2>1
  <2>3. ASSUME NEW m \in Int, Used(u, m) PROVE m \in 1..(n + 2) /\ m \notin {key, key + 1}
    <3>1. PICK i \in Has(t) : m = u[i].left \/ m = u[i].right BY <1>1, <2>3 DEF Used
    <3>2. t[i].left \in 1..n /\ t[i].right \in 1..n BY <1>4, Keys DEF FilledTo, Used
    <3> QED BY <1>0, <1>1, <3>1, <3>2
  <2>4. ASSUME NEW m \in 1..(n + 2), m \notin {key, key + 1} PROVE Used(u, m)
    <3>1. PICK k \in Int : k = IF m < key THEN m ELSE m - 2 BY <1>0
    <3>2. k \in 1..n /\ (m < key => k < key) /\ (~(m < key) => k >= key) BY <1>0, <2>1, <2>4, <3>1
    <3>3. PICK i \in Has(t) : k = t[i].left \/ k = t[i].right BY <1>4, <3>2 DEF FilledTo, Used
    <3>4. m = u[i].left \/ m = u[i].right BY <1>0, <1>1, <2>4, <3>1, <3>2, <3>3
    <3> QED BY <1>1, <3>4 DEF Used
  <2> QED BY <2>2, <2>3, <2>4 DEF FilledTo
<1>5. ASSUME Filled(t, {}) PROVE Filled(u, {key, key + 1})
  <2>1. PICK n \in Nat : FilledTo(t, {}, n) BY <1>5 DEF Filled
  <2>2. n + 2 \in Nat /\ FilledTo(u, {key, key + 1}, n + 2) BY <1>4, <2>1
  <2> QED BY <2>2 DEF Filled
<1> QED BY <1>1, <1>2, <1>3, <1>5 DEF key

(* The new row takes the two keys.                                         *)
LEMMA RowInserted ==
  ASSUME NEW t \in Tables, Nested(t), NEW j \in Job, Room(t, j),
         NEW n \in Ids, n \notin Has(t), NEW u, u = [t EXCEPT ![n] = NewRow(j)]
  PROVE  /\ u \in Tables
         /\ Nested(u)
         /\ Has(u) = Has(t) \cup {n}
         /\ Filled(t, {j.right, j.right + 1}) => Filled(u, {})
<1> DEFINE key == j.right
<1>0. key \in Int /\ key > 0 BY DEF Room, Job
<1>1. /\ NewRow(j) \in Row /\ NewRow(j).left = key /\ NewRow(j).right = key + 1
      /\ NewRow(j).parent = j.parent
  BY DEF NewRow, Row, Job
<1>2. u[n] = NewRow(j) /\ \A i \in Ids : i # n => u[i] = t[i] BY DEF Tables
<1>3. u \in Tables BY <1>1 DEF Tables
<1>4. Has(u) = Has(t) \cup {n} BY <1>1, <1>2, RowNotNone DEF Has
<1>5. \A i \in Has(t) : i # n /\ u[i] = t[i] BY <1>2, Keys
<1>6. u[n].left = key /\ u[n].right = key + 1 /\ u[n].parent = j.parent BY <1>1, <1>2
<1>7. \A i \in Has(t) : /\ t[i].left < key \/ t[i].left > key + 1
                        /\ t[i].right < key \/ t[i].right > key + 1
                        /\ t[i].left \in Int /\ t[i].right \in Int
                        /\ 0 < t[i].left /\ t[i].left < t[i].right
  BY Keys DEF Room, Nested
<1>8. /\ j.parent = 0 => \A i \in Has(t) : t[i].right < key
      /\ j.parent # 0 => j.parent \in Has(t) /\ t[j.parent].left < key
                         /\ t[j.parent].right = key + 2
  BY DEF Room
<1> HIDE DEF key
<1>9. Nested(u)
  <2>1. \A i \in Has(u) : 0 < u[i].left /\ u[i].left < u[i].right
    BY <1>0, <1>4, <1>5, <1>6 DEF Nested
  <2>2. \A i \in Has(t) : Apart(u[n], u[i]) \/ Encloses(u[i], u[n])
    BY <1>0, <1>5, <1>6, <1>7 DEF Apart, Encloses
  <2>3. ASSUME NEW i \in Has(u), NEW k \in Has(u), i # k
        PROVE  Apart(u[i], u[k]) \/ Encloses(u[i], u[k]) \/ Encloses(u[k], u[i])
    <3>1. CASE i = n BY <1>4, <2>2, <2>3, <3>1
    <3>2. CASE k = n BY <1>4, <2>2, <2>3, <3>2 DEF Apart
    <3>3. CASE i # n /\ k # n BY <1>4, <1>5, <2>3, <3>3 DEF Nested
    <3> QED BY <3>1, <3>2, <3>3
  <2>4. ASSUME NEW i \in Has(u), u[i].parent # 0
        PROVE  u[i].parent \in Has(u) /\ Encloses(u[u[i].parent], u[i])
    <3>1. CASE i = n
      <4>1. j.parent # 0 BY <1>6, <2>4, <3>1
      <4>2. j.parent \in Has(t) /\ t[j.parent].left < key /\ t[j.parent].right = key + 2
        BY <1>8, <4>1
      <4>3. u[j.parent].left < key /\ key + 1 < u[j.parent].right BY <1>0, <1>5, <4>2
      <4> QED BY <1>4, <1>6, <3>1, <4>2, <4>3 DEF Encloses
    <3>2. CASE i # n
      <4>1. i \in Has(t) /\ u[i] = t[i] BY <1>4, <1>5, <3>2
      <4>2. t[i].parent \in Has(t) /\ Encloses(t[t[i].parent], t[i]) BY <2>4, <4>1 DEF Nested
      <4> QED BY <1>4, <1>5, <4>1, <4>2
    <3> QED BY <3>1, <3>2
  <2>5. ASSUME NEW i \in Has(u), NEW k \in Has(u), Encloses(u[i], u[k])
        PROVE  /\ u[k].parent \in Has(u)
               /\ u[k].parent = i \/ Encloses(u[i], u[u[k].parent])
    <3>1. CASE i = n
      <4>1. k # n BY <1>0, <1>6, <2>5, <3>1 DEF Encloses
      <4>2. k \in Has(t) /\ u[k] = t[k] BY <1>4, <1>5, <4>1
      <4>3. key < t[k].left /\ t[k].right < key + 1 BY <1>6, <2>5, <3>1, <4>2 DEF Encloses
      <4> QED BY <1>0, <1>7, <4>2, <4>3
    <3>2. CASE i # n /\ k # n
      <4>1. i \in Has(t) /\ u[i] = t[i] /\ k \in Has(t) /\ u[k] = t[k] BY <1>4, <1>5, <3>2
      <4>2. /\ t[k].parent \in Has(t)
            /\ t[k].parent = i \/ Encloses(t[i], t[t[k].parent])
        BY <2>5, <4>1 DEF Nested
      <4> QED BY <1>4, <1>5, <4>1, <4>2
    <3>3. CASE i # n /\ k = n
      <4>1. i \in Has(t) /\ u[i] = t[i] BY <1>4, <1>5, <3>3
      <4>2. t[i].left < key /\ key + 1 < t[i].right BY <1>6, <2>5, <3>3, <4>1 DEF Encloses
      <4>3. j.parent # 0 BY <1>0, <1>7, <1>8, <4>1, <4>2
      <4>4. j.parent \in Has(t) /\ t[j.parent].left < key /\ t[j.parent].right = key + 2
        BY <1>8, <4>3
      <4>5. CASE i = j.parent BY <1>4, <1>6, <3>3, <4>4, <4>5
      <4>6. CASE i # j.parent
        <5>1. Encloses(t[i], t[j.parent])
          BY <1>0, <1>7, <4>1, <4>2, <4>4, <4>6, Pairs DEF Encloses
        <5> QED BY <1>4, <1>5, <1>6, <3>3, <4>1, <4>4, <5>1
      <4> QED BY <4>5, <4>6
    <3> QED BY <3>1, <3>2, <3>3
  <2> QED BY <2>1, <2>3, <2>4, <2>5 DEF Nested
<1>10. ASSUME Filled(t, {key, key + 1}) PROVE Filled(u, {})
  <2>1. PICK m \in Nat : FilledTo(t, {key, key + 1}, m) BY <1>10 DEF Filled
  <2>2. key \in 1..m /\ key + 1 \in 1..m BY <2>1 DEF FilledTo
  <2>3. ASSUME NEW k \in Int PROVE Used(u, k) <=> Used(t, k) \/ k = key \/ k = key + 1
    BY <1>4, <1>5, <1>6 DEF Used
  <2>4. FilledTo(u, {}, m) BY <2>1, <2>2, <2>3 DEF FilledTo
  <2> QED BY <2>4 DEF Filled
<1> QED BY <1>3, <1>4, <1>9, <1>10 DEF key

-----------------------------------------------------------------------------
(* remove(): the rows of the subtree go.                                   *)
TreeDeleted(t, u, j) == u = [i \in Ids |-> IF i \in Has(t) /\ Within(t[i], j) THEN NoRow ELSE t[i]]

(* What is not in the subtree has no key between those of its root.        *)
LEMMA OutsideKeys ==
  ASSUME NEW t \in Tables, Nested(t), NEW r \in Has(t), NEW j,
         j.left = t[r].left, j.right = t[r].right, NEW i \in Has(t)
  PROVE  /\ Within(t[i], j) => /\ j.left <= t[i].left /\ t[i].left < t[i].right
                               /\ t[i].right <= j.right
         /\ ~Within(t[i], j) => /\ t[i].left < j.left \/ t[i].left > j.right
                                /\ t[i].right < j.left \/ t[i].right > j.right
                                /\ t[i].left < t[i].right
<1>1. CASE i = r BY <1>1, Keys DEF Within, Nested
<1>2. CASE i # r BY <1>2, Keys, Pairs DEF Within
<1> QED BY <1>1, <1>2

LEMMA TreeCleared ==
  ASSUME NEW t, NEW j, NEW u, TreeDeleted(t, u, j), Nested(t), RowRead(t, j)
  PROVE  Cleared(t, u, j)
<1>1. \A i \in Ids : u[i] = IF i \in Has(t) /\ Within(t[i], j) THEN NoRow ELSE t[i]
  BY DEF TreeDeleted
<1>2. /\ Has(u) = {i \in Has(t) : ~Within(t[i], j)}
      /\ \A i \in Has(u) : u[i] = t[i]
  BY <1>1 DEF Has
<1> QED BY <1>2 DEF Cleared

LEMMA SubtreeGone ==
  ASSUME NEW t \in Tables, Nested(t), NEW j \in Job, RowRead(t, j), NEW u, TreeDeleted(t, u, j)
  PROVE  /\ u \in Tables /\ Has(u) \subseteq Has(t)
         /\ Nested(u) /\ Gap(u, j)
         /\ Filled(t, {}) => Filled(u, j.left..j.right)
<1>0. j.left \in Int /\ j.right \in Int BY DEF Job
<1>1. PICK r \in Has(t) : j.left = t[r].left /\ j.right = t[r].right BY DEF RowRead
<1>2. 0 < j.left /\ j.left < j.right BY <1>1 DEF Nested
<1>3. \A i \in Ids : u[i] = IF i \in Has(t) /\ Within(t[i], j) THEN NoRow ELSE t[i]
  BY DEF TreeDeleted
<1>4. u \in Tables BY DEF TreeDeleted, Tables
<1>5. /\ Has(u) = {i \in Has(t) : ~Within(t[i], j)}
      /\ \A i \in Has(u) : u[i] = t[i]
  BY <1>3 DEF Has
<1>6. \A i \in Has(u) : /\ i \in Has(t) /\ u[i] = t[i] /\ ~Within(t[i], j)
                        /\ t[i].left < j.left \/ t[i].left > j.right
                        /\ t[i].right < j.left \/ t[i].right > j.right
                        /\ t[i].left < t[i].right
  BY <1>1, <1>5, OutsideKeys
<1>7. Gap(u, j) BY <1>2, <1>6 DEF Gap
<1>8. ASSUME NEW i \in Has(u), t[i].parent \in Has(t) PROVE t[i].parent \in Has(u)
  <2> SUFFICES ASSUME Within(t[t[i].parent], j) PROVE FALSE BY <1>5, <1>8
  <2>1. Encloses(t[t[i].parent], t[i]) BY <1>6, <1>8, NotZero DEF Nested
  <2> QED BY <1>0, <1>6, <1>8, <2>1, Keys DEF Within, Encloses
<1>9. Nested(u)
  <2>1. \A i \in Has(u) : 0 < u[i].left /\ u[i].left < u[i].right BY <1>6 DEF Nested
  <2>2. \A i, k \in Has(u) : i # k =>
          Apart(u[i], u[k]) \/ Encloses(u[i], u[k]) \/ Encloses(u[k], u[i])
    BY <1>6 DEF Nested
  <2>3. \A i \in Has(u) : u[i].parent # 0 =>
          u[i].parent \in Has(u) /\ Encloses(u[u[i].parent], u[i])
    BY <1>6, <1>8 DEF Nested
  <2>4. \A i, k \in Has(u) : Encloses(u[i], u[k]) =>
          /\ u[k].parent \in Has(u)
          /\ u[k].parent = i \/ Encloses(u[i], u[u[k].parent])
    BY <1>6, <1>8 DEF Nested
  <2> QED BY <2>1, <2>2, <2>3, <2>4 DEF Nested
<1>10. ASSUME Filled(t, {}) PROVE Filled(u, j.left..j.right)
  <2>1. PICK n \in Nat : FilledTo(t, {}, n) BY <1>10 DEF Filled
  <2>2. Used(t, j.right) BY <1>1 DEF Used
  <2>3. j.left..j.right \subseteq 1..n BY <1>0, <1>2, <2>1, <2>2 DEF FilledTo
  <2>4. ASSUME NEW k \in Int PROVE Used(u, k) <=> k \in 1..n /\ k \notin j.left..j.right
    <3>1. ASSUME Used(u, k) PROVE k \in 1..n /\ k \notin j.left..j.right
      <4>1. PICK i \in Has(u) : k = u[i].left \/ k = u[i].right BY <3>1 DEF Used
      <4>2. Used(t, k) BY <1>6, <4>1 DEF Used
      <4> QED BY <1>0, <1>6, <2>1, <4>1, <4>2 DEF FilledTo
    <3>2. ASSUME k \in 1..n, k \notin j.left..j.right PROVE Used(u, k)
      <4>1. PICK i \in Has(t) : k = t[i].left \/ k = t[i].right BY <2>1, <3>2 DEF FilledTo, Used
      <4>2. ~Within(t[i], j) BY <1>0, <1>1, <3>2, <4>1, OutsideKeys, Keys
      <4> QED BY <1>5, <4>1, <4>2 DEF Used
    <3> QED BY <3>1, <3>2
  <2> QED BY <2>1, <2>3, <2>4 DEF FilledTo, Filled
<1> QED BY <1>4, <1>5, <1>7, <1>9, <1>10

(* The keys behind the gap move up.                                        *)
Span(j) == j.right - j.left + 1
GapClosed(t, u, j) ==
  u = [i \in Ids |->
         IF i \in Has(t) /\ t[i].right > j.right
         THEN [t[i] EXCEPT !.left = IF @ > j.left THEN @ - Span(j) ELSE @, !.right = @ - Span(j)]
         ELSE t[i]]

LEMMA GapRows ==
  ASSUME NEW t \in Tables, NEW j \in Job, NEW u, GapClosed(t, u, j)
  PROVE  /\ u \in Tables /\ Has(u) = Has(t)
         /\ \A i \in Has(t) :
              /\ u[i].parent = t[i].parent
              /\ u[i].left = IF t[i].right > j.right /\ t[i].left > j.left
                             THEN t[i].left - Span(j) ELSE t[i].left
              /\ u[i].right = Closed(j, t[i].right)
<1>0. j.left \in Int /\ j.right \in Int BY DEF Job
<1>1. ASSUME NEW i \in Has(t)
      PROVE  /\ u[i] \in Row
             /\ u[i].parent = t[i].parent
             /\ u[i].left = IF t[i].right > j.right /\ t[i].left > j.left
                            THEN t[i].left - Span(j) ELSE t[i].left
             /\ u[i].right = Closed(j, t[i].right)
  <2>1. t[i] \in Row /\ i \in Ids /\ t[i].left \in Int /\ t[i].right \in Int BY Keys
  <2>2. CASE t[i].right > j.right
    <3>1. u[i] = [t[i] EXCEPT !.left = IF @ > j.left THEN @ - Span(j) ELSE @, !.right = @ - Span(j)]
      BY <2>1, <2>2 DEF GapClosed
    <3>2. PICK k \in Int : k = IF t[i].left > j.left THEN t[i].left - Span(j) ELSE t[i].left
      BY <1>0, <2>1 DEF Span
    <3>3. PICK m \in Int : m = t[i].right - Span(j) BY <1>0, <2>1 DEF Span
    <3>4. u[i] = Rekeyed(t[i], k, m) BY <3>1, <3>2, <3>3 DEF Rekeyed
    <3>5. u[i] \in Row /\ u[i].left = k /\ u[i].right = m /\ u[i].parent = t[i].parent
      BY ONLY <2>1, <3>2, <3>3, <3>4, k \in Int, m \in Int, WithKeys
    <3>6. m = Closed(j, t[i].right) BY <2>2, <3>3 DEF Closed, Span
    <3> QED BY <2>2, <3>2, <3>5, <3>6
  <2>3. CASE ~(t[i].right > j.right)
    <3>1. u[i] = t[i] BY <2>1, <2>3 DEF GapClosed
    <3> QED BY <2>1, <2>3, <3>1 DEF Closed
  <2> QED BY <2>2, <2>3
<1>2. u = [i \in Ids |-> u[i]] /\ \A i \in Ids : i \notin Has(t) => u[i] = t[i] BY DEF GapClosed
<1> QED BY <1>1, <1>2, Updated

LEMMA GapGone ==
  ASSUME NEW t \in Tables, Nested(t), NEW j \in Job, Gap(t, j), NEW u, GapClosed(t, u, j)
  PROVE  /\ u \in Tables /\ Has(u) = Has(t)
         /\ Nested(u)
         /\ Filled(t, j.left..j.right) => Filled(u, {})
<1> DEFINE Shut(k) == Closed(j, k)
<1>0. j.left \in Int /\ j.right \in Int /\ 0 < j.left /\ j.left < j.right BY DEF Job, Gap
<1>1. /\ u \in Tables /\ Has(u) = Has(t)
      /\ \A i \in Has(t) :
           /\ u[i].parent = t[i].parent
           /\ u[i].left = Shut(t[i].left) /\ u[i].right = Shut(t[i].right)
  <2>1. /\ u \in Tables /\ Has(u) = Has(t)
        /\ \A i \in Has(t) :
             /\ u[i].parent = t[i].parent
             /\ u[i].left = IF t[i].right > j.right /\ t[i].left > j.left
                            THEN t[i].left - Span(j) ELSE t[i].left
             /\ u[i].right = Closed(j, t[i].right)
    BY GapRows
  <2>2. ASSUME NEW i \in Has(t)
        PROVE  /\ t[i].left \in Int /\ t[i].right \in Int /\ t[i].left < t[i].right
               /\ t[i].left < j.left \/ t[i].left > j.right
               /\ t[i].right < j.left \/ t[i].right > j.right
    BY Keys DEF Nested, Gap
  <2> QED BY <1>0, <2>1, <2>2 DEF Closed, Span
<1>2. /\ \A k, m \in Int :
           /\ k < j.left \/ k > j.right
           /\ m < j.left \/ m > j.right
           /\ k < m
           => Shut(k) < Shut(m)
      /\ \A k \in Int : 0 < k => 0 < Shut(k) /\ Shut(k) \in Int
  BY <1>0 DEF Closed
<1>3. \A i \in Has(t) : /\ t[i].left < j.left \/ t[i].left > j.right
                        /\ t[i].right < j.left \/ t[i].right > j.right
                        /\ t[i].left \in Int /\ t[i].right \in Int
                        /\ 0 < t[i].left /\ 0 < t[i].right
  BY Keys DEF Gap, Nested
<1>4. Nested(u)
  <2> HIDE DEF Shut
  <2>1. \A i \in Has(t) : u[i].parent = t[i].parent /\ 0 < u[i].left BY <1>1, <1>2, <1>3
  <2>2. \A i, k \in Has(t) :
          /\ t[i].left < t[k].left => u[i].left < u[k].left
          /\ t[i].left < t[k].right => u[i].left < u[k].right
          /\ t[i].right < t[k].left => u[i].right < u[k].left
          /\ t[i].right < t[k].right => u[i].right < u[k].right
    BY <1>1, <1>2, <1>3
  <2> QED BY <1>1, <2>1, <2>2, OrderKept
<1>5. ASSUME Filled(t, j.left..j.right) PROVE Filled(u, {})
  <2>1. PICK n \in Nat : FilledTo(t, j.left..j.right, n) BY <1>5 DEF Filled
  <2>2. j.left \in 1..n /\ j.right \in 1..n BY <1>0, <2>1 DEF FilledTo
  <2>3. PICK m \in Nat : m = n - Span(j) BY <1>0, <2>2 DEF Span
  <2>4. ASSUME NEW k \in Int, Used(u, k) PROVE k \in 1..m
    <3>1. PICK i \in Has(t) : k = Shut(t[i].left) \/ k = Shut(t[i].right) BY <1>1, <2>4 DEF Used
    <3>2. /\ t[i].left \in 1..n /\ t[i].left \notin j.left..j.right
          /\ t[i].right \in 1..n /\ t[i].right \notin j.left..j.right
      BY <1>3, <2>1 DEF FilledTo, Used
    <3> QED BY <1>0, <2>2, <2>3, <3>1, <3>2 DEF Span, Closed
  <2>5. ASSUME NEW k \in 1..m PROVE Used(u, k)
    <3>1. PICK h \in Int : h = IF k < j.left THEN k ELSE k + Span(j) BY <1>0 DEF Span
    <3>2. h \in 1..n /\ h \notin j.left..j.right /\ k = Shut(h)
      BY <1>0, <2>2, <2>3, <2>5, <3>1 DEF Span, Closed
    <3>3. PICK i \in Has(t) : h = t[i].left \/ h = t[i].right BY <2>1, <3>2 DEF FilledTo, Used
    <3> QED BY <1>1, <3>2, <3>3 DEF Used
  <2> QED BY <2>3, <2>4, <2>5 DEF FilledTo, Filled
<1> QED BY <1>1, <1>4, <1>5

-----------------------------------------------------------------------------
(* move(): where a key goes, one of the subtree and one outside it.        *)
Aim(j) == IF j.parentRight > j.right THEN j.parentRight - Span(j) ELSE j.parentRight
Jump(j) ==
  IF j.parentRight > j.right THEN j.parentRight - j.right - 1
  ELSE j.parentRight - j.right - 1 + Span(j)
Widened(j, k) == IF k >= Aim(j) THEN k + Span(j) ELSE k
Around(j, k) == Widened(j, Closed(j, k))

(* Nothing that move() was told is in the subtree.                         *)
GoodMove(j) ==
  /\ j.left \in Int /\ j.right \in Int /\ j.parentRight \in Int
  /\ 0 < j.left /\ j.left < j.right /\ 0 < j.parentRight
  /\ j.parentRight < j.left \/ j.parentRight > j.right

(* The keys of the subtree go where the new parent ends, all others make   *)
(* way without changing their order.                                       *)
LEMMA Places ==
  ASSUME NEW j, GoodMove(j)
  PROVE  /\ Aim(j) \in Int /\ Span(j) \in Int /\ Jump(j) \in Int /\ 0 < Aim(j) /\ 1 < Span(j)
         /\ \A k \in Int : j.left <= k /\ k <= j.right =>
              Aim(j) <= Jump(j) + k /\ Jump(j) + k < Aim(j) + Span(j)
         /\ \A k \in Int : 0 < k /\ (k < j.left \/ k > j.right) =>
              /\ Around(j, k) \in Int /\ 0 < Around(j, k)
              /\ k < j.parentRight => Around(j, k) < Aim(j)
              /\ k >= j.parentRight => Around(j, k) >= Aim(j) + Span(j)
         /\ \A k, m \in Int :
              /\ k < j.left \/ k > j.right
              /\ m < j.left \/ m > j.right
              /\ k < m
              => Around(j, k) < Around(j, m)
<1> USE DEF GoodMove, Aim, Jump, Span, Around, Widened, Closed
<1>1. /\ Aim(j) \in Int /\ Span(j) \in Int /\ Jump(j) \in Int /\ 0 < Aim(j) /\ 1 < Span(j)
  OBVIOUS
<1>2. \A k \in Int : j.left <= k /\ k <= j.right =>
        Aim(j) <= Jump(j) + k /\ Jump(j) + k < Aim(j) + Span(j)
  OBVIOUS
<1>3. \A k \in Int : 0 < k /\ (k < j.left \/ k > j.right) =>
        /\ Around(j, k) \in Int /\ 0 < Around(j, k)
        /\ k < j.parentRight => Around(j, k) < Aim(j)
        /\ k >= j.parentRight => Around(j, k) >= Aim(j) + Span(j)
  OBVIOUS
<1>4. \A k, m \in Int :
        /\ k < j.left \/ k > j.right
        /\ m < j.left \/ m > j.right
        /\ k < m
        => Around(j, k) < Around(j, m)
  OBVIOUS
<1> QED BY ONLY <1>1, <1>2, <1>3, <1>4

(* Every key is somebody's.                                                *)
LEMMA PlacesTaken ==
  ASSUME NEW j, GoodMove(j), NEW n \in Nat, j.right <= n, j.parentRight <= n, NEW k \in 1..n
  PROVE  \E h \in 1..n : IF j.left <= h /\ h <= j.right THEN k = Jump(j) + h ELSE k = Around(j, h)
<1> USE DEF GoodMove, Aim, Jump, Span, Around, Widened, Closed
<1>1. CASE Aim(j) <= k /\ k < Aim(j) + Span(j)
  <2>1. k - Jump(j) \in 1..n /\ j.left <= k - Jump(j) /\ k - Jump(j) <= j.right BY <1>1
  <2>2. k = Jump(j) + (k - Jump(j)) OBVIOUS
  <2> QED BY ONLY <2>1, <2>2
<1>2. CASE k < Aim(j) \/ k >= Aim(j) + Span(j)
  <2>1. PICK m \in Int : m = IF k < Aim(j) THEN k ELSE k - Span(j) OBVIOUS
  <2>2. PICK h \in Int : h = IF m < j.left THEN m ELSE m + Span(j) OBVIOUS
  <2>3. h \in 1..n /\ ~(j.left <= h /\ h <= j.right) /\ k = Around(j, h) BY <1>2, <2>1, <2>2
  <2> QED BY ONLY <2>3
<1> QED BY <1>1, <1>2

LEMMA PlacesWithin ==
  ASSUME NEW j, GoodMove(j), NEW n \in Nat, j.right <= n, j.parentRight <= n, NEW h \in 1..n
  PROVE  IF j.left <= h /\ h <= j.right THEN Jump(j) + h \in 1..n ELSE Around(j, h) \in 1..n
BY DEF GoodMove, Aim, Jump, Span, Around, Widened, Closed

(* The subtree j names is in its new place.                                *)
Relocated(t, u, j) ==
  /\ Has(u) = Has(t)
  /\ \A i \in Has(t) :
       /\ u[i].left = IF Within(t[i], j) THEN Jump(j) + t[i].left ELSE Around(j, t[i].left)
       /\ u[i].right = IF Within(t[i], j) THEN Jump(j) + t[i].right ELSE Around(j, t[i].right)
       /\ u[i].parent = IF i = j.id THEN j.parent ELSE t[i].parent

LEMMA TreeMoved ==
  ASSUME NEW t \in Tables, Nested(t), NEW j \in Job, MoveRead(t, j),
         j.parentRight < j.left \/ j.parentRight > j.right,
         NEW u \in Tables, Relocated(t, u, j)
  PROVE  /\ Nested(u)
         /\ Filled(t, {}) => Filled(u, {})
<1> DEFINE T == Aim(j)
           E == Aim(j) + Span(j)
           q == j.parentRight
           p == j.parent
           In(i) == Within(t[i], j)
<1>1. GoodMove(j) /\ j.id \in Has(t) /\ p \in Has(t) /\ t[p].right = q
      /\ j.left = t[j.id].left /\ j.right = t[j.id].right
  BY Keys DEF MoveRead, NodeRead, GoodMove, Nested
<1>2. T \in Int /\ E \in Int /\ 0 < T /\ T < E BY <1>1, Places
<1>3. j.left \in Int /\ j.right \in Int /\ q \in Int /\ j.left < j.right BY <1>1 DEF GoodMove
<1>4. \A i \in Has(t) : /\ t[i].left \in Int /\ t[i].right \in Int
                        /\ 0 < t[i].left /\ t[i].left < t[i].right
  BY Keys DEF Nested
<1>5. ASSUME NEW i \in Has(t)
      PROVE  /\ In(i) => /\ j.left <= t[i].left /\ t[i].left <= j.right
                         /\ j.left <= t[i].right /\ t[i].right <= j.right
             /\ ~In(i) => /\ t[i].left < j.left \/ t[i].left > j.right
                          /\ t[i].right < j.left \/ t[i].right > j.right
  BY <1>1, <1>3, <1>4, OutsideKeys
<1>6. ASSUME NEW i \in Has(t), In(i)
      PROVE  /\ u[i].left \in Int /\ u[i].right \in Int
             /\ T <= u[i].left /\ u[i].left < u[i].right /\ u[i].right < E
  <2>1. u[i].left = Jump(j) + t[i].left /\ u[i].right = Jump(j) + t[i].right
    BY <1>6 DEF Relocated
  <2>2. /\ T <= Jump(j) + t[i].left /\ Jump(j) + t[i].right < E /\ Jump(j) \in Int
    BY <1>1, <1>4, <1>5, <1>6, Places
  <2> HIDE DEF T, E, In
  <2> QED BY <1>4, <2>1, <2>2
<1>7. ASSUME NEW i \in Has(t), ~In(i)
      PROVE  /\ u[i].left \in Int /\ u[i].right \in Int
             /\ 0 < u[i].left /\ u[i].left < u[i].right
             /\ t[i].left < q => u[i].left < T
             /\ t[i].left >= q => u[i].left >= E
             /\ t[i].right < q => u[i].right < T
             /\ t[i].right >= q => u[i].right >= E
  <2>1. u[i].left = Around(j, t[i].left) /\ u[i].right = Around(j, t[i].right)
    BY <1>7 DEF Relocated
  <2>2. 0 < t[i].right BY <1>4
  <2> QED BY <1>1, <1>4, <1>5, <1>7, <2>1, <2>2, Places
<1>8. ASSUME NEW i \in Has(t), NEW k \in Has(t), In(i) <=> In(k)
      PROVE  /\ t[i].left < t[k].left => u[i].left < u[k].left
             /\ t[i].left < t[k].right => u[i].left < u[k].right
             /\ t[i].right < t[k].left => u[i].right < u[k].left
             /\ t[i].right < t[k].right => u[i].right < u[k].right
  <2>1. CASE In(i)
    <3>1. /\ u[i].left = Jump(j) + t[i].left /\ u[i].right = Jump(j) + t[i].right
          /\ u[k].left = Jump(j) + t[k].left /\ u[k].right = Jump(j) + t[k].right
          /\ Jump(j) \in Int
      BY <1>1, <1>8, <2>1, Places DEF Relocated
    <3> HIDE DEF In
    <3> QED BY <1>4, <3>1
  <2>2. CASE ~In(i)
    <3>1. /\ u[i].left = Around(j, t[i].left) /\ u[i].right = Around(j, t[i].right)
          /\ u[k].left = Around(j, t[k].left) /\ u[k].right = Around(j, t[k].right)
      BY <1>8, <2>2 DEF Relocated
    <3>2. /\ t[i].left < j.left \/ t[i].left > j.right
          /\ t[i].right < j.left \/ t[i].right > j.right
          /\ t[k].left < j.left \/ t[k].left > j.right
          /\ t[k].right < j.left \/ t[k].right > j.right
      BY <1>5, <1>8, <2>2
    <3> HIDE DEF In
    <3> QED BY <1>1, <1>4, <3>1, <3>2, Places
  <2> QED BY <2>1, <2>2
<1>9. In(j.id) /\ ~In(p) BY <1>1, <1>3, <1>4 DEF Within, GoodMove
<1>10. Has(u) = Has(t) /\ (\A i \in Has(t) : u[i].parent = IF i = j.id THEN p ELSE t[i].parent)
  BY DEF Relocated
<1> HIDE DEF T, E, q, In, p
<1>11. \A i, k \in Has(t) : (In(i) <=> In(k)) =>
         /\ Encloses(t[i], t[k]) => Encloses(u[i], u[k])
         /\ Apart(t[i], t[k]) => Apart(u[i], u[k])
  BY <1>8 DEF Encloses, Apart
<1>12. ASSUME NEW i \in Has(t), NEW k \in Has(t), In(i) <=> In(k), Encloses(u[i], u[k])
       PROVE  Encloses(t[i], t[k])
  <2>1. i # k BY <1>6, <1>7, <1>12 DEF Encloses
  <2>2. \/ Encloses(t[i], t[k]) \/ Encloses(t[k], t[i]) \/ Apart(t[i], t[k])
    BY <2>1 DEF Nested
  <2>3. \/ Encloses(t[i], t[k]) \/ Encloses(u[k], u[i]) \/ Apart(u[i], u[k])
    BY <1>11, <1>12, <2>2 DEF Apart
  <2> QED BY <1>6, <1>7, <1>12, <2>3 DEF Encloses, Apart
<1>13. ASSUME NEW i \in Has(t), NEW k \in Has(t), ~In(i), In(k)
       PROVE  /\ Apart(u[i], u[k]) \/ Encloses(u[i], u[k])
              /\ Encloses(u[i], u[k]) <=> t[i].left < q /\ t[i].right >= q
              /\ ~Encloses(u[k], u[i])
  BY <1>2, <1>3, <1>4, <1>6, <1>7, <1>13 DEF Encloses, Apart, q
<1>14. ASSUME NEW i \in Has(t), In(i), i # j.id
       PROVE  t[i].parent \in Has(t) /\ In(t[i].parent)
  <2>1. j.left <= t[i].left /\ t[i].right <= j.right BY <1>14 DEF In, Within
  <2>2. /\ t[i].parent \in Has(t)
        /\ t[i].parent = j.id \/ Encloses(t[j.id], t[t[i].parent])
    BY <1>1, <1>14, <2>1, InRow
  <2> QED BY <1>1, <1>3, <1>4, <1>9, <2>2 DEF In, Within, Encloses
<1>15. ASSUME NEW i \in Has(t), ~In(i), t[i].parent \in Has(t)
       PROVE  ~In(t[i].parent)
  <2>1. Encloses(t[t[i].parent], t[i]) BY <1>15, NotZero DEF Nested
  <2> QED BY <1>3, <1>4, <1>15, <2>1 DEF In, Within, Encloses
<1>16. \A i \in Has(u) : 0 < u[i].left /\ u[i].left < u[i].right
  BY <1>2, <1>6, <1>7, <1>10
<1>17. ASSUME NEW i \in Has(u), NEW k \in Has(u), i # k
       PROVE  Apart(u[i], u[k]) \/ Encloses(u[i], u[k]) \/ Encloses(u[k], u[i])
  <2>1. CASE In(i) <=> In(k)
    <3>1. Apart(t[i], t[k]) \/ Encloses(t[i], t[k]) \/ Encloses(t[k], t[i])
      BY <1>10, <1>17 DEF Nested
    <3> QED BY <1>10, <1>11, <2>1, <3>1
  <2>2. CASE ~In(i) /\ In(k) BY <1>10, <1>13, <2>2
  <2>3. CASE In(i) /\ ~In(k) BY <1>10, <1>13, <2>3 DEF Apart
  <2> QED BY <2>1, <2>2, <2>3
<1>18. ASSUME NEW i \in Has(u), u[i].parent # 0
       PROVE  u[i].parent \in Has(u) /\ Encloses(u[u[i].parent], u[i])
  <2>1. CASE i = j.id
    <3>1. t[p].left < q /\ t[p].right >= q BY <1>1, <1>3, <1>4 DEF q, p
    <3>2. p \in Has(t) /\ u[i].parent = p BY <1>1, <1>10, <2>1 DEF p
    <3> QED BY <1>9, <1>10, <1>13, <2>1, <3>1, <3>2
  <2>2. CASE i # j.id
    <3>1. u[i].parent = t[i].parent /\ i \in Has(t) BY <1>10, <2>2
    <3>2. t[i].parent \in Has(t) /\ Encloses(t[t[i].parent], t[i]) BY <1>18, <3>1 DEF Nested
    <3>3. In(t[i].parent) <=> In(i) BY <1>14, <1>15, <2>2, <3>1, <3>2
    <3> QED BY <1>10, <1>11, <3>1, <3>2, <3>3
  <2> QED BY <2>1, <2>2
<1>19. ASSUME NEW i \in Has(u), NEW k \in Has(u), Encloses(u[i], u[k])
       PROVE  /\ u[k].parent \in Has(u)
              /\ u[k].parent = i \/ Encloses(u[i], u[u[k].parent])
  <2>0. i \in Has(t) /\ k \in Has(t) BY <1>10
  <2>1. CASE In(i) <=> In(k)
    <3>1. Encloses(t[i], t[k]) BY <1>12, <1>19, <2>0, <2>1
    <3>2. k # j.id
      BY <1>1, <1>3, <1>4, <1>9, <2>0, <2>1, <3>1 DEF In, Within, Encloses
    <3>3. /\ t[k].parent \in Has(t) /\ u[k].parent = t[k].parent
          /\ t[k].parent = i \/ Encloses(t[i], t[t[k].parent])
      BY <1>10, <2>0, <3>1, <3>2 DEF Nested
    <3>4. In(t[k].parent) <=> In(k) BY <1>14, <1>15, <2>0, <3>2, <3>3
    <3> QED BY <1>10, <1>11, <2>0, <2>1, <3>3, <3>4
  <2>2. CASE ~In(i) /\ In(k)
    <3>1. t[i].left < q /\ t[i].right >= q BY <1>13, <1>19, <2>0, <2>2
    <3>2. CASE k = j.id
      <4>1. u[k].parent = p /\ p \in Has(t) BY <1>1, <1>10, <3>2, <2>0 DEF p
      <4>2. CASE i # p
        <5>1. t[p].right = q BY <1>1 DEF p, q
        <5>2. Encloses(t[i], t[p])
          BY <1>4, <2>0, <3>1, <4>1, <4>2, <5>1, Pairs DEF Encloses
        <5> QED BY <1>9, <1>10, <1>11, <2>0, <2>2, <4>1, <5>2
      <4> QED BY <1>10, <4>1, <4>2
    <3>3. CASE k # j.id
      <4>1. t[k].parent \in Has(t) /\ In(t[k].parent) /\ u[k].parent = t[k].parent
        BY <1>10, <1>14, <2>0, <2>2, <3>3
      <4>2. Encloses(u[i], u[t[k].parent]) BY <1>13, <2>0, <2>2, <3>1, <4>1
      <4> QED BY <1>10, <4>1, <4>2
    <3> QED BY <3>2, <3>3
  <2>3. CASE In(i) /\ ~In(k) BY <1>13, <1>19, <2>0, <2>3
  <2> QED BY <2>1, <2>2, <2>3
<1>20. Nested(u) BY <1>16, <1>17, <1>18, <1>19 DEF Nested
<1>21. ASSUME Filled(t, {}) PROVE Filled(u, {})
  <2>1. PICK n \in Nat : FilledTo(t, {}, n) BY <1>21 DEF Filled
  <2>2. j.right <= n /\ j.parentRight <= n
    <3>1. Used(t, j.right) /\ Used(t, j.parentRight) BY <1>1 DEF Used, p, q
    <3> QED BY <1>3, <2>1, <3>1 DEF FilledTo, q
  <2>3. ASSUME NEW k \in Int, Used(u, k) PROVE k \in 1..n
    <3>1. PICK i \in Has(t) : k = u[i].left \/ k = u[i].right BY <1>10, <2>3 DEF Used
    <3>2. t[i].left \in 1..n /\ t[i].right \in 1..n BY <1>4, <2>1 DEF FilledTo, Used
    <3>3. PICK h \in 1..n : /\ h = t[i].left \/ h = t[i].right
                            /\ k = IF In(i) THEN Jump(j) + h ELSE Around(j, h)
      BY <3>1, <3>2 DEF Relocated, In
    <3>4. In(i) <=> j.left <= h /\ h <= j.right BY <1>3, <1>5, <3>3
    <3> QED BY <1>1, <2>2, <3>3, <3>4, PlacesWithin
  <2>4. ASSUME NEW k \in 1..n PROVE Used(u, k)
    <3>1. PICK h \in 1..n :
            IF j.left <= h /\ h <= j.right THEN k = Jump(j) + h ELSE k = Around(j, h)
      BY <1>1, <2>2, PlacesTaken
    <3>2. PICK i \in Has(t) : h = t[i].left \/ h = t[i].right BY <2>1 DEF FilledTo, Used
    <3>3. In(i) <=> j.left <= h /\ h <= j.right BY <1>3, <1>5, <3>2
    <3>4. k = u[i].left \/ k = u[i].right BY <3>1, <3>2, <3>3 DEF Relocated, In
    <3> QED BY <1>10, <3>4 DEF Used
  <2> QED BY <2>1, <2>3, <2>4 DEF FilledTo, Filled
<1> QED BY <1>20, <1>21

-----------------------------------------------------------------------------
(* What the statements do to the table, whoever makes them.                *)
LEMMA Presence == Present = Has(table)
BY DEF Present, Has

Releft(r, k) == [r EXCEPT !.left = k]
Reright(r, k) == [r EXCEPT !.right = k]

LEMMA WithLeft ==
  ASSUME NEW r \in Row, NEW k \in Int
  PROVE  /\ Releft(r, k) \in Row
         /\ Releft(r, k).left = k /\ Releft(r, k).right = r.right /\ Releft(r, k).parent = r.parent
BY DEF Releft, Row

LEMMA WithRight ==
  ASSUME NEW r \in Row, NEW k \in Int
  PROVE  /\ Reright(r, k) \in Row
         /\ Reright(r, k).left = r.left /\ Reright(r, k).right = k /\ Reright(r, k).parent = r.parent
BY DEF Reright, Row

LEMMA OtherParent ==
  ASSUME NEW r \in Row, NEW p \in 0..MaxId
  PROVE  /\ WithParent(r, p) \in Row
         /\ WithParent(r, p).left = r.left /\ WithParent(r, p).right = r.right
         /\ WithParent(r, p).parent = p
BY DEF WithParent, Row

LEMMA JobKeys ==
  ASSUME NEW j \in Job
  PROVE  /\ j.left \in Int /\ j.right \in Int /\ j.parentRight \in Int
         /\ j.parent \in 0..MaxId /\ j.id \in 0..MaxId
BY DEF Job

LEMMA RoomIsMade ==
  ASSUME NEW c \in Clients, MakeRoom(c)
  PROVE  RoomMade(table, table', job[c].right)
BY Presence DEF MakeRoom, Update, FromKey, RoomMade

LEMMA TreeIsDeleted ==
  ASSUME NEW c \in Clients, DeleteTree(c)
  PROVE  TreeDeleted(table, table', job[c])
BY Presence DEF DeleteTree, TreeDeleted, Within

LEMMA GapIsClosed ==
  ASSUME NEW c \in Clients, CloseGap(c)
  PROVE  GapClosed(table, table', job[c])
BY Presence DEF CloseGap, Update, GapClosed, Span, Size

LEMMA MoveSizes ==
  ASSUME NEW c \in Clients
  PROVE  /\ Size(c) = Span(job[c])
         /\ Target(c) = Aim(job[c])
         /\ Shift(c) = Jump(job[c])
BY DEF Size, Target, Shift, Span, Aim, Jump

LEMMA JobSizes ==
  ASSUME NEW j \in Job
  PROVE  Span(j) \in Int /\ Aim(j) \in Int /\ Jump(j) \in Int
BY JobKeys DEF Span, Aim, Jump

LEMMA TreeIsDisabled ==
  ASSUME table \in Tables, NEW c \in Clients, DisableTree(c)
  PROVE  /\ table' \in Tables /\ Has(table') = Has(table)
         /\ \A i \in Has(table) :
              /\ table'[i].left = IF Within(table[i], job[c]) THEN -table[i].left ELSE table[i].left
              /\ table'[i].right = IF Within(table[i], job[c]) THEN -table[i].right ELSE table[i].right
              /\ table'[i].parent = table[i].parent
<1>1. table' = [i \in Ids |-> IF i \in Has(table) /\ Within(table[i], job[c])
                              THEN [table[i] EXCEPT !.left = -@, !.right = -@] ELSE table[i]]
  BY Presence DEF DisableTree, Update, Within
<1>2. ASSUME NEW i \in Has(table)
      PROVE  /\ table'[i] \in Row
             /\ table'[i].left = IF Within(table[i], job[c]) THEN -table[i].left ELSE table[i].left
             /\ table'[i].right = IF Within(table[i], job[c]) THEN -table[i].right ELSE table[i].right
             /\ table'[i].parent = table[i].parent
  <2>1. table[i] \in Row /\ i \in Ids /\ table[i].left \in Int /\ table[i].right \in Int BY Keys
  <2>2. CASE Within(table[i], job[c])
    <3>1. PICK k \in Int : k = -table[i].left BY <2>1
    <3>2. PICK m \in Int : m = -table[i].right BY <2>1
    <3>3. table'[i] = Rekeyed(table[i], k, m) BY <1>1, <2>1, <2>2, <3>1, <3>2 DEF Rekeyed
    <3>4. table'[i] \in Row /\ table'[i].left = k /\ table'[i].right = m
          /\ table'[i].parent = table[i].parent
      BY ONLY <2>1, <3>3, k \in Int, m \in Int, WithKeys
    <3> QED BY <2>2, <3>1, <3>2, <3>4
  <2>3. CASE ~Within(table[i], job[c])
    <3>1. table'[i] = table[i] BY <1>1, <2>1, <2>3
    <3> QED BY <2>1, <2>3, <3>1
  <2> QED BY <2>2, <2>3
<1>3. table' = [i \in Ids |-> table'[i]] /\ \A i \in Ids : i \notin Has(table) => table'[i] = table[i]
  BY <1>1
<1> QED BY <1>2, <1>3, Updated

(* An UPDATE of the left keys, and one of the right keys.                  *)
LeftSet(t, u, W, f) ==
  u = [i \in Ids |-> IF i \in Has(t) /\ i \in W THEN Releft(t[i], f[i]) ELSE t[i]]
RightSet(t, u, W, f) ==
  u = [i \in Ids |-> IF i \in Has(t) /\ i \in W THEN Reright(t[i], f[i]) ELSE t[i]]

LEMMA LeftKeys ==
  ASSUME NEW t \in Tables, NEW u, NEW W, NEW f \in [Has(t) -> Int],
         LeftSet(t, u, W, f)
  PROVE  /\ u \in Tables /\ Has(u) = Has(t)
         /\ \A i \in Has(t) : /\ u[i].left = IF i \in W THEN f[i] ELSE t[i].left
                              /\ u[i].right = t[i].right /\ u[i].parent = t[i].parent
<1>1. ASSUME NEW i \in Has(t)
      PROVE  /\ u[i] \in Row
             /\ u[i].left = IF i \in W THEN f[i] ELSE t[i].left
             /\ u[i].right = t[i].right /\ u[i].parent = t[i].parent
  <2>1. t[i] \in Row /\ i \in Ids /\ f[i] \in Int BY Keys
  <2>2. u[i] = IF i \in W THEN Releft(t[i], f[i]) ELSE t[i] BY <2>1 DEF LeftSet
  <2> QED BY ONLY <2>1, <2>2, WithLeft
<1>2. u = [i \in Ids |-> u[i]] /\ \A i \in Ids : i \notin Has(t) => u[i] = t[i] 
  BY DEF LeftSet
<1> QED BY <1>1, <1>2, Updated

LEMMA RightKeys ==
  ASSUME NEW t \in Tables, NEW u, NEW W, NEW f \in [Has(t) -> Int],
         RightSet(t, u, W, f)
  PROVE  /\ u \in Tables /\ Has(u) = Has(t)
         /\ \A i \in Has(t) : /\ u[i].right = IF i \in W THEN f[i] ELSE t[i].right
                              /\ u[i].left = t[i].left /\ u[i].parent = t[i].parent
<1>1. ASSUME NEW i \in Has(t)
      PROVE  /\ u[i] \in Row
             /\ u[i].right = IF i \in W THEN f[i] ELSE t[i].right
             /\ u[i].left = t[i].left /\ u[i].parent = t[i].parent
  <2>1. t[i] \in Row /\ i \in Ids /\ f[i] \in Int BY Keys
  <2>2. u[i] = IF i \in W THEN Reright(t[i], f[i]) ELSE t[i] BY <2>1 DEF RightSet
  <2> QED BY ONLY <2>1, <2>2, WithRight
<1>2. u = [i \in Ids |-> u[i]] /\ \A i \in Ids : i \notin Has(t) => u[i] = t[i] 
  BY DEF RightSet
<1> QED BY <1>1, <1>2, Updated

LEMMA TreeIsRestricted ==
  ASSUME table \in Tables, NEW c \in Clients, job[c] \in Job, RestrictFullTree(c)
  PROVE  /\ table' \in Tables /\ Has(table') = Has(table)
         /\ \A i \in Has(table) : table'[i].parent = table[i].parent
         /\ \/ /\ Statement(c, "restrictLeft", "restrictRight")
               /\ \A i \in Has(table) : /\ table'[i].left = Closed(job[c], table[i].left)
                                        /\ table'[i].right = table[i].right
            \/ /\ Statement(c, "restrictRight", "addLeft")
               /\ \A i \in Has(table) : /\ table'[i].left = table[i].left
                                        /\ table'[i].right = Closed(job[c], table[i].right)
<1>0. job[c].left \in Int /\ job[c].right \in Int /\ Size(c) \in Int
  BY JobKeys, JobSizes, MoveSizes
<1>1. CASE /\ table' = [i \in Ids |-> IF i \in Present /\ table[i].left > job[c].right
                                      THEN [table[i] EXCEPT !.left = @ - Size(c)] ELSE table[i]]
           /\ Statement(c, "restrictLeft", "restrictRight")
  <2> DEFINE W == {i \in Has(table) : table[i].left > job[c].right}
             f == [i \in Has(table) |-> table[i].left - Size(c)]
  <2>1. f \in [Has(table) -> Int] BY <1>0, Keys
  <2>2. LeftSet(table, table', W, f)
    BY <1>1, Presence DEF Releft, LeftSet
  <2>3. \A i \in Has(table) : /\ i \in W <=> table[i].left > job[c].right
                              /\ f[i] = table[i].left - (job[c].right - job[c].left + 1)
    BY DEF Size
  <2> HIDE DEF W, f
  <2>4. /\ table' \in Tables /\ Has(table') = Has(table)
        /\ \A i \in Has(table) : /\ table'[i].left = IF i \in W THEN f[i] ELSE table[i].left
                                 /\ table'[i].right = table[i].right
                                 /\ table'[i].parent = table[i].parent
    BY ONLY table \in Tables, <2>1, <2>2, LeftKeys
  <2> QED BY <1>1, <2>3, <2>4 DEF Closed
<1>2. CASE /\ table' = [i \in Ids |-> IF i \in Present /\ table[i].right > job[c].right
                                      THEN [table[i] EXCEPT !.right = @ - Size(c)] ELSE table[i]]
           /\ Statement(c, "restrictRight", "addLeft")
  <2> DEFINE W == {i \in Has(table) : table[i].right > job[c].right}
             f == [i \in Has(table) |-> table[i].right - Size(c)]
  <2>1. f \in [Has(table) -> Int] BY <1>0, Keys
  <2>2. RightSet(table, table', W, f)
    BY <1>2, Presence DEF Reright, RightSet
  <2>3. \A i \in Has(table) : /\ i \in W <=> table[i].right > job[c].right
                              /\ f[i] = table[i].right - (job[c].right - job[c].left + 1)
    BY DEF Size
  <2> HIDE DEF W, f
  <2>4. /\ table' \in Tables /\ Has(table') = Has(table)
        /\ \A i \in Has(table) : /\ table'[i].right = IF i \in W THEN f[i] ELSE table[i].right
                                 /\ table'[i].left = table[i].left
                                 /\ table'[i].parent = table[i].parent
    BY ONLY table \in Tables, <2>1, <2>2, RightKeys
  <2> QED BY <1>2, <2>3, <2>4 DEF Closed
<1> QED BY <1>1, <1>2 DEF RestrictFullTree, Update

LEMMA TreeIsWidened ==
  ASSUME table \in Tables, NEW c \in Clients, job[c] \in Job, AddFullTree(c)
  PROVE  /\ table' \in Tables /\ Has(table') = Has(table)
         /\ \A i \in Has(table) : table'[i].parent = table[i].parent
         /\ \/ /\ Statement(c, "addLeft", "addRight")
               /\ \A i \in Has(table) : /\ table'[i].left = Widened(job[c], table[i].left)
                                        /\ table'[i].right = table[i].right
            \/ /\ Statement(c, "addRight", "backNode")
               /\ \A i \in Has(table) : /\ table'[i].left = table[i].left
                                        /\ table'[i].right = Widened(job[c], table[i].right)
<1>0. Target(c) = Aim(job[c]) /\ Size(c) = Span(job[c]) /\ Size(c) \in Int /\ Target(c) \in Int
  BY JobKeys, JobSizes, MoveSizes
<1>1. CASE /\ table' = [i \in Ids |-> IF i \in Present /\ table[i].left >= Target(c)
                                      THEN [table[i] EXCEPT !.left = @ + Size(c)] ELSE table[i]]
           /\ Statement(c, "addLeft", "addRight")
  <2> DEFINE W == {i \in Has(table) : table[i].left >= Target(c)}
             f == [i \in Has(table) |-> table[i].left + Size(c)]
  <2>1. f \in [Has(table) -> Int] BY <1>0, Keys
  <2>2. LeftSet(table, table', W, f)
    BY <1>1, Presence DEF Releft, LeftSet
  <2>3. \A i \in Has(table) : /\ i \in W <=> table[i].left >= Aim(job[c])
                              /\ f[i] = table[i].left + Span(job[c])
    BY <1>0
  <2> HIDE DEF W, f
  <2>4. /\ table' \in Tables /\ Has(table') = Has(table)
        /\ \A i \in Has(table) : /\ table'[i].left = IF i \in W THEN f[i] ELSE table[i].left
                                 /\ table'[i].right = table[i].right
                                 /\ table'[i].parent = table[i].parent
    BY ONLY table \in Tables, <2>1, <2>2, LeftKeys
  <2> QED BY <1>1, <2>3, <2>4 DEF Widened
<1>2. CASE /\ table' = [i \in Ids |-> IF i \in Present /\ table[i].right >= Target(c)
                                      THEN [table[i] EXCEPT !.right = @ + Size(c)] ELSE table[i]]
           /\ Statement(c, "addRight", "backNode")
  <2> DEFINE W == {i \in Has(table) : table[i].right >= Target(c)}
             f == [i \in Has(table) |-> table[i].right + Size(c)]
  <2>1. f \in [Has(table) -> Int] BY <1>0, Keys
  <2>2. RightSet(table, table', W, f)
    BY <1>2, Presence DEF Reright, RightSet
  <2>3. \A i \in Has(table) : /\ i \in W <=> table[i].right >= Aim(job[c])
                              /\ f[i] = table[i].right + Span(job[c])
    BY <1>0
  <2> HIDE DEF W, f
  <2>4. /\ table' \in Tables /\ Has(table') = Has(table)
        /\ \A i \in Has(table) : /\ table'[i].right = IF i \in W THEN f[i] ELSE table[i].right
                                 /\ table'[i].left = table[i].left
                                 /\ table'[i].parent = table[i].parent
    BY ONLY table \in Tables, <2>1, <2>2, RightKeys
  <2> QED BY <1>2, <2>3, <2>4 DEF Widened
<1> QED BY <1>1, <1>2 DEF AddFullTree, Update

LEMMA NodeIsBack ==
  ASSUME table \in Tables, NEW c \in Clients, job[c] \in Job, BackNode(c)
  PROVE  /\ table' \in Tables /\ Has(table') = Has(table)
         /\ \A i \in Has(table) :
              /\ table'[i].parent = table[i].parent
              /\ IF table[i].left <= -job[c].left /\ table[i].right >= -job[c].right
                 THEN /\ table'[i].left = Jump(job[c]) - table[i].left
                      /\ table'[i].right = Jump(job[c]) - table[i].right
                 ELSE table'[i].left = table[i].left /\ table'[i].right = table[i].right
<1> DEFINE Back(i) == table[i].left <= -job[c].left /\ table[i].right >= -job[c].right
<1>0. Shift(c) = Jump(job[c]) /\ Jump(job[c]) \in Int BY JobSizes, MoveSizes
<1>1. table' = [i \in Ids |-> IF i \in Has(table) /\ Back(i)
                THEN [table[i] EXCEPT !.left = Jump(job[c]) - @, !.right = Jump(job[c]) - @]
                ELSE table[i]]
  BY <1>0, Presence DEF BackNode, Update
<1>2. ASSUME NEW i \in Has(table)
      PROVE  /\ table'[i] \in Row
             /\ table'[i].parent = table[i].parent
             /\ IF Back(i)
                THEN /\ table'[i].left = Jump(job[c]) - table[i].left
                     /\ table'[i].right = Jump(job[c]) - table[i].right
                ELSE table'[i].left = table[i].left /\ table'[i].right = table[i].right
  <2> HIDE DEF Back
  <2>1. table[i] \in Row /\ i \in Ids /\ table[i].left \in Int /\ table[i].right \in Int BY Keys
  <2>2. CASE Back(i)
    <3>1. PICK k \in Int : k = Jump(job[c]) - table[i].left BY <1>0, <2>1
    <3>2. PICK m \in Int : m = Jump(job[c]) - table[i].right BY <1>0, <2>1
    <3>3. table'[i] = Rekeyed(table[i], k, m) BY <1>1, <2>1, <2>2, <3>1, <3>2 DEF Rekeyed
    <3>4. table'[i] \in Row /\ table'[i].left = k /\ table'[i].right = m
          /\ table'[i].parent = table[i].parent
      BY ONLY <2>1, <3>3, k \in Int, m \in Int, WithKeys
    <3> QED BY <2>2, <3>1, <3>2, <3>4
  <2>3. CASE ~Back(i)
    <3>1. table'[i] = table[i] BY <1>1, <2>1, <2>3
    <3> QED BY <2>1, <2>3, <3>1
  <2> QED BY <2>2, <2>3
<1>3. table' = [i \in Ids |-> table'[i]] /\ \A i \in Ids : i \notin Has(table) => table'[i] = table[i]
  BY <1>1
<1> QED BY <1>2, <1>3, Updated

LEMMA ParentIsSet ==
  ASSUME table \in Tables, NEW c \in Clients, job[c] \in Job, UpdateID(c)
  PROVE  /\ table' \in Tables /\ Has(table') = Has(table)
         /\ \A i \in Has(table) :
              /\ table'[i].left = table[i].left /\ table'[i].right = table[i].right
              /\ table'[i].parent = IF i = job[c].id THEN job[c].parent ELSE table[i].parent
<1>1. table' = [i \in Ids |-> IF i \in Has(table) /\ i = job[c].id
                              THEN WithParent(table[i], job[c].parent) ELSE table[i]]
  BY Presence DEF UpdateID
<1>2. ASSUME NEW i \in Has(table)
      PROVE  /\ table'[i] \in Row
             /\ table'[i].left = table[i].left /\ table'[i].right = table[i].right
             /\ table'[i].parent = IF i = job[c].id THEN job[c].parent ELSE table[i].parent
  <2>1. table[i] \in Row /\ i \in Ids /\ job[c].parent \in 0..MaxId BY Keys, JobKeys
  <2>2. table'[i] = IF i = job[c].id THEN WithParent(table[i], job[c].parent) ELSE table[i]
    BY <1>1, <2>1
  <2> QED BY ONLY <2>1, <2>2, OtherParent
<1>3. table' = [i \in Ids |-> table'[i]] /\ \A i \in Ids : i \notin Has(table) => table'[i] = table[i]
  BY <1>1
<1> QED BY <1>2, <1>3, Updated

-----------------------------------------------------------------------------
Labels == Updates \cup {"idle", "makeRoom", "insertRow", "deleteTree", "closeGap", "findParent"}

LEMMA Types ==
  TypeOK <=> /\ table \in Tables /\ settled \in Tables
             /\ lastId \in 0..MaxId /\ pc \in [Clients -> Labels] /\ job \in [Clients -> Job]
             /\ failures \in Nat /\ spoiled \in BOOLEAN
BY DEF TypeOK, Tables, Labels

LEMMA NoJobType == NoJob \in Job
BY TreeAssumption DEF NoJob, Job

LEMMA GotoSays ==
  ASSUME TypeOK, NEW c \in Clients, NEW label \in Labels, Goto(c, label)
  PROVE  /\ pc' \in [Clients -> Labels] /\ job' \in [Clients -> Job]
         /\ pc'[c] = label
         /\ label # "idle" => job' = job
         /\ \A d \in Clients \ {c} : pc'[d] = pc[d] /\ job'[d] = job[d]
<1>1. pc \in [Clients -> Labels] /\ job \in [Clients -> Job] BY Types
<1>2. CASE label = "idle"
  <2>1. pc' = [pc EXCEPT ![c] = label] /\ job' = [job EXCEPT ![c] = NoJob] BY <1>2 DEF Goto
  <2> QED BY <1>1, <1>2, <2>1, NoJobType
<1>3. CASE label # "idle" BY <1>1, <1>3 DEF Goto
<1> QED BY <1>2, <1>3

LEMMA StatementSays ==
  ASSUME TypeOK, NEW c \in Clients, NEW from, NEW to \in Labels, Statement(c, from, to),
         table' \in Tables
  PROVE  /\ pc' \in [Clients -> Labels] /\ job' \in [Clients -> Job]
         /\ pc[c] = from /\ pc'[c] = to
         /\ to # "idle" => job' = job
         /\ \A d \in Clients \ {c} : pc'[d] = pc[d] /\ job'[d] = job[d]
         /\ failures' = failures
         /\ spoiled' \in BOOLEAN /\ settled' \in Tables
         /\ ~spoiled' => ~spoiled /\ \A d \in Clients \ {c} : pc[d] = "idle"
<1>1. /\ pc' \in [Clients -> Labels] /\ job' \in [Clients -> Job]
      /\ pc[c] = from /\ pc'[c] = to
      /\ to # "idle" => job' = job
      /\ \A d \in Clients \ {c} : pc'[d] = pc[d] /\ job'[d] = job[d]
  BY GotoSays DEF Statement
<1>2. failures' = failures BY DEF Statement
<1>3. spoiled' \in BOOLEAN BY Types DEF Statement
<1>4. settled' \in Tables BY Types DEF Statement
<1>5. ~spoiled' => ~spoiled /\ \A d \in Clients \ {c} : pc[d] = "idle" BY DEF Statement
<1> QED BY <1>1, <1>2, <1>3, <1>4, <1>5

-----------------------------------------------------------------------------
(* The rows of a move on its way.                                          *)
LEMMA MoveKeys ==
  ASSUME NEW t \in Tables, Nested(t), NEW j \in Job, MoveRead(t, j)
  PROVE  /\ j.left \in Int /\ j.right \in Int /\ j.parentRight \in Int
         /\ 0 < j.left /\ j.left < j.right /\ 0 < j.parentRight
         /\ Span(j) \in Int /\ Aim(j) \in Int /\ Jump(j) \in Int
         /\ Span(j) = j.right - j.left + 1 /\ 0 < Aim(j)
         /\ \A i \in Has(t) :
              /\ t[i].left \in Int /\ t[i].right \in Int
              /\ 0 < t[i].left /\ t[i].left < t[i].right
              /\ Within(t[i], j) => /\ j.left <= t[i].left /\ t[i].left <= j.right
                                    /\ j.left <= t[i].right /\ t[i].right <= j.right
              /\ ~Within(t[i], j) => /\ t[i].left < j.left \/ t[i].left > j.right
                                     /\ t[i].right < j.left \/ t[i].right > j.right
<1>1. j.left \in Int /\ j.right \in Int /\ j.parentRight \in Int BY JobKeys
<1>2. 0 < j.left /\ j.left < j.right /\ 0 < j.parentRight
  BY Keys DEF MoveRead, NodeRead, Nested
<1>3. Span(j) \in Int /\ Aim(j) \in Int /\ Jump(j) \in Int BY JobSizes
<1>4. Span(j) = j.right - j.left + 1 BY DEF Span
<1>5. 0 < Aim(j) BY <1>1, <1>2 DEF Aim, Span
<1>6. ASSUME NEW i \in Has(t)
      PROVE  /\ t[i].left \in Int /\ t[i].right \in Int
             /\ 0 < t[i].left /\ t[i].left < t[i].right
             /\ Within(t[i], j) => /\ j.left <= t[i].left /\ t[i].left <= j.right
                                   /\ j.left <= t[i].right /\ t[i].right <= j.right
             /\ ~Within(t[i], j) => /\ t[i].left < j.left \/ t[i].left > j.right
                                    /\ t[i].right < j.left \/ t[i].right > j.right
  <2>1. /\ t[i].left \in Int /\ t[i].right \in Int
        /\ 0 < t[i].left /\ t[i].left < t[i].right
    BY Keys DEF Nested
  <2>2. j.id \in Has(t) /\ j.left = t[j.id].left /\ j.right = t[j.id].right
    BY DEF MoveRead, NodeRead
  <2> QED BY <1>1, <2>1, <2>2, OutsideKeys
<1> QED BY <1>1, <1>2, <1>3, <1>4, <1>5, <1>6

(* What has become of the keys of a row, step by step.                     *)
LEMMA MovedSoFar ==
  ASSUME NEW c \in Clients, NEW r
  PROVE  /\ Within(r, job[c]) /\ pc[c] \in Moving \ {"updateID"} =>
              MovedLeft(c, r) = -r.left /\ MovedRight(c, r) = -r.right
         /\ Within(r, job[c]) /\ pc[c] = "updateID" =>
              /\ MovedLeft(c, r) = Jump(job[c]) + r.left
              /\ MovedRight(c, r) = Jump(job[c]) + r.right
         /\ ~Within(r, job[c]) =>
              /\ pc[c] = "restrictLeft" => MovedLeft(c, r) = r.left /\ MovedRight(c, r) = r.right
              /\ pc[c] = "restrictRight" =>
                   MovedLeft(c, r) = Closed(job[c], r.left) /\ MovedRight(c, r) = r.right
              /\ pc[c] = "addLeft" =>
                   /\ MovedLeft(c, r) = Closed(job[c], r.left)
                   /\ MovedRight(c, r) = Closed(job[c], r.right)
              /\ pc[c] = "addRight" =>
                   /\ MovedLeft(c, r) = Around(job[c], r.left)
                   /\ MovedRight(c, r) = Closed(job[c], r.right)
              /\ pc[c] \in {"backNode", "updateID"} =>
                   /\ MovedLeft(c, r) = Around(job[c], r.left)
                   /\ MovedRight(c, r) = Around(job[c], r.right)
<1>1. Shift(c) = Jump(job[c]) BY MoveSizes
<1>2. \A k : Opened(c, k) = Widened(job[c], k) BY MoveSizes DEF Opened, Widened
<1> QED BY <1>1, <1>2 DEF MovedLeft, MovedRight, Disabled, LeftNow, RightNow, Around, Moving

LEMMA MidwayGoesOn ==
  ASSUME NEW c \in Clients, NEW before \in Tables, Midway(c, before),
         job' = job, failures' = failures, Has(table') = Has(table),
         \A i \in Has(before) : /\ table'[i].left = MovedLeft(c, before[i])'
                                /\ table'[i].right = MovedRight(c, before[i])'
                                /\ table'[i].parent = table[i].parent
  PROVE  Midway(c, before)'
<1>1. Whole(before, {})' BY DEF Midway, Whole
<1>2. MoveRead(before, job[c])' BY DEF Midway
<1>3. Has(table)' = Has(before) BY DEF Midway, Has
<1> QED BY <1>1, <1>2, <1>3 DEF Midway

LEMMA MovedNext ==
  ASSUME NEW c \in Clients, NEW r, job' = job
  PROVE  /\ Within(r, job[c]) /\ pc'[c] \in Moving \ {"updateID"} =>
              MovedLeft(c, r)' = -r.left /\ MovedRight(c, r)' = -r.right
         /\ Within(r, job[c]) /\ pc'[c] = "updateID" =>
              /\ MovedLeft(c, r)' = Jump(job[c]) + r.left
              /\ MovedRight(c, r)' = Jump(job[c]) + r.right
         /\ ~Within(r, job[c]) =>
              /\ pc'[c] = "restrictLeft" => MovedLeft(c, r)' = r.left /\ MovedRight(c, r)' = r.right
              /\ pc'[c] = "restrictRight" =>
                   MovedLeft(c, r)' = Closed(job[c], r.left) /\ MovedRight(c, r)' = r.right
              /\ pc'[c] = "addLeft" =>
                   /\ MovedLeft(c, r)' = Closed(job[c], r.left)
                   /\ MovedRight(c, r)' = Closed(job[c], r.right)
              /\ pc'[c] = "addRight" =>
                   /\ MovedLeft(c, r)' = Around(job[c], r.left)
                   /\ MovedRight(c, r)' = Closed(job[c], r.right)
              /\ pc'[c] \in {"backNode", "updateID"} =>
                   /\ MovedLeft(c, r)' = Around(job[c], r.left)
                   /\ MovedRight(c, r)' = Around(job[c], r.right)
<1>1. Shift(c)' = Jump(job[c]) BY DEF Shift, Size, Jump, Span
<1>2. \A k : Opened(c, k)' = Widened(job[c], k) BY DEF Opened, Widened, Target, Size, Aim, Span
<1> QED BY <1>1, <1>2 DEF MovedLeft, MovedRight, Disabled, LeftNow, RightNow, Around, Moving

LEMMA MoveBegins ==
  ASSUME NEW before \in Tables, before = table, NEW c \in Clients, job[c] \in Job,
         DisableTree(c), Whole(table, {}), MoveRead(table, job[c]),
         pc'[c] = "restrictLeft", job' = job, failures' = failures
  PROVE  Midway(c, before)'
<1>1. /\ Has(table') = Has(before)
      /\ \A i \in Has(before) :
           /\ table'[i].left = IF Within(before[i], job[c]) THEN -before[i].left ELSE before[i].left
           /\ table'[i].right = IF Within(before[i], job[c]) THEN -before[i].right ELSE before[i].right
           /\ table'[i].parent = before[i].parent
  BY TreeIsDisabled
<1>2. "restrictLeft" \in Moving \ {"updateID"} BY DEF Moving
<1>3. ASSUME NEW i \in Has(before)
      PROVE  table'[i].left = MovedLeft(c, before[i])' /\ table'[i].right = MovedRight(c, before[i])'
  BY <1>1, <1>2, MovedNext
<1>4. Whole(before, {})' BY DEF Whole
<1>5. MoveRead(before, job[c])' OBVIOUS
<1>6. Has(table)' = Has(before) BY <1>1 DEF Has
<1> QED BY <1>1, <1>3, <1>4, <1>5, <1>6 DEF Midway

LEMMA MoveRestricts ==
  ASSUME table \in Tables, NEW before \in Tables, NEW c \in Clients, job[c] \in Job,
         Midway(c, before), RestrictFullTree(c),
         pc[c] = "restrictLeft" => pc'[c] = "restrictRight",
         pc[c] = "restrictRight" => pc'[c] = "addLeft",
         job' = job, failures' = failures
  PROVE  Midway(c, before)'
<1> DEFINE j == job[c]
<1>1. /\ Nested(before) /\ MoveRead(before, j) /\ Has(table) = Has(before)
      /\ \A i \in Has(before) : /\ table[i].left = MovedLeft(c, before[i])
                                /\ table[i].right = MovedRight(c, before[i])
  BY DEF Midway, Whole
<1>2. /\ Has(table') = Has(table)
      /\ \A i \in Has(table) : table'[i].parent = table[i].parent
      /\ \/ /\ pc[c] = "restrictLeft"
            /\ \A i \in Has(table) : /\ table'[i].left = Closed(j, table[i].left)
                                     /\ table'[i].right = table[i].right
         \/ /\ pc[c] = "restrictRight"
            /\ \A i \in Has(table) : /\ table'[i].left = table[i].left
                                     /\ table'[i].right = Closed(j, table[i].right)
  BY TreeIsRestricted DEF Statement
<1>3. /\ "restrictLeft" \in Moving \ {"updateID"} /\ "restrictRight" \in Moving \ {"updateID"}
      /\ "addLeft" \in Moving \ {"updateID"}
  BY DEF Moving
<1>4. ASSUME NEW i \in Has(before)
      PROVE  table'[i].left = MovedLeft(c, before[i])' /\ table'[i].right = MovedRight(c, before[i])'
  <2>1. /\ before[i].left \in Int /\ before[i].right \in Int
        /\ 0 < before[i].left /\ before[i].left < before[i].right
        /\ j.right \in Int /\ 0 < j.right
    BY <1>1, MoveKeys
  <2>2. Closed(j, -before[i].left) = -before[i].left /\ Closed(j, -before[i].right) = -before[i].right
    BY <2>1 DEF Closed
  <2> HIDE DEF j
  <2>3. CASE Within(before[i], j)
    <3>1. table[i].left = -before[i].left /\ table[i].right = -before[i].right
      BY <1>1, <1>2, <1>3, <2>3, MovedSoFar DEF j
    <3>2. MovedLeft(c, before[i])' = -before[i].left /\ MovedRight(c, before[i])' = -before[i].right
      BY <1>2, <1>3, <2>3, MovedNext DEF j
    <3> QED BY <1>1, <1>2, <2>2, <3>1, <3>2
  <2>4. CASE ~Within(before[i], j)
    <3>1. CASE pc[c] = "restrictLeft"
      <4>1. table[i].left = before[i].left /\ table[i].right = before[i].right
        BY <1>1, <2>4, <3>1, MovedSoFar DEF j
      <4>2. /\ MovedLeft(c, before[i])' = Closed(j, before[i].left)
            /\ MovedRight(c, before[i])' = before[i].right
        BY <2>4, <3>1, MovedNext DEF j
      <4> QED BY <1>1, <1>2, <3>1, <4>1, <4>2
    <3>2. CASE pc[c] = "restrictRight"
      <4>1. table[i].left = Closed(j, before[i].left) /\ table[i].right = before[i].right
        BY <1>1, <2>4, <3>2, MovedSoFar DEF j
      <4>2. /\ MovedLeft(c, before[i])' = Closed(j, before[i].left)
            /\ MovedRight(c, before[i])' = Closed(j, before[i].right)
        BY <2>4, <3>2, MovedNext DEF j
      <4> QED BY <1>1, <1>2, <3>2, <4>1, <4>2
    <3> QED BY <1>2, <3>1, <3>2
  <2> QED BY <2>3, <2>4
<1> QED BY <1>1, <1>2, <1>4, MidwayGoesOn

LEMMA MoveWidens ==
  ASSUME table \in Tables, NEW before \in Tables, NEW c \in Clients, job[c] \in Job,
         Midway(c, before), AddFullTree(c),
         pc[c] = "addLeft" => pc'[c] = "addRight",
         pc[c] = "addRight" => pc'[c] = "backNode",
         job' = job, failures' = failures
  PROVE  Midway(c, before)'
<1> DEFINE j == job[c]
<1>1. /\ Nested(before) /\ MoveRead(before, j) /\ Has(table) = Has(before)
      /\ \A i \in Has(before) : /\ table[i].left = MovedLeft(c, before[i])
                                /\ table[i].right = MovedRight(c, before[i])
  BY DEF Midway, Whole
<1>2. /\ Has(table') = Has(table)
      /\ \A i \in Has(table) : table'[i].parent = table[i].parent
      /\ \/ /\ pc[c] = "addLeft"
            /\ \A i \in Has(table) : /\ table'[i].left = Widened(j, table[i].left)
                                     /\ table'[i].right = table[i].right
         \/ /\ pc[c] = "addRight"
            /\ \A i \in Has(table) : /\ table'[i].left = table[i].left
                                     /\ table'[i].right = Widened(j, table[i].right)
  BY TreeIsWidened DEF Statement
<1>3. /\ "addLeft" \in Moving \ {"updateID"} /\ "addRight" \in Moving \ {"updateID"}
      /\ "backNode" \in Moving \ {"updateID"}
  BY DEF Moving
<1>4. ASSUME NEW i \in Has(before)
      PROVE  table'[i].left = MovedLeft(c, before[i])' /\ table'[i].right = MovedRight(c, before[i])'
  <2>1. /\ before[i].left \in Int /\ before[i].right \in Int
        /\ 0 < before[i].left /\ before[i].left < before[i].right
        /\ Aim(j) \in Int /\ 0 < Aim(j)
    BY <1>1, MoveKeys
  <2>2. Widened(j, -before[i].left) = -before[i].left /\ Widened(j, -before[i].right) = -before[i].right
    BY <2>1 DEF Widened
  <2> HIDE DEF j
  <2>3. CASE Within(before[i], j)
    <3>1. table[i].left = -before[i].left /\ table[i].right = -before[i].right
      BY <1>1, <1>2, <1>3, <2>3, MovedSoFar DEF j
    <3>2. MovedLeft(c, before[i])' = -before[i].left /\ MovedRight(c, before[i])' = -before[i].right
      BY <1>2, <1>3, <2>3, MovedNext DEF j
    <3> QED BY <1>1, <1>2, <2>2, <3>1, <3>2
  <2>4. CASE ~Within(before[i], j)
    <3>1. CASE pc[c] = "addLeft"
      <4>1. /\ table[i].left = Closed(j, before[i].left)
            /\ table[i].right = Closed(j, before[i].right)
        BY <1>1, <2>4, <3>1, MovedSoFar DEF j
      <4>2. /\ MovedLeft(c, before[i])' = Around(j, before[i].left)
            /\ MovedRight(c, before[i])' = Closed(j, before[i].right)
        BY <2>4, <3>1, MovedNext DEF j
      <4> QED BY <1>1, <1>2, <3>1, <4>1, <4>2 DEF Around
    <3>2. CASE pc[c] = "addRight"
      <4>1. /\ table[i].left = Around(j, before[i].left)
            /\ table[i].right = Closed(j, before[i].right)
        BY <1>1, <2>4, <3>2, MovedSoFar DEF j
      <4>2. /\ MovedLeft(c, before[i])' = Around(j, before[i].left)
            /\ MovedRight(c, before[i])' = Around(j, before[i].right)
        BY <2>4, <3>2, MovedNext DEF j
      <4> QED BY <1>1, <1>2, <3>2, <4>1, <4>2 DEF Around
    <3> QED BY <1>2, <3>1, <3>2
  <2> QED BY <2>3, <2>4
<1> QED BY <1>1, <1>2, <1>4, MidwayGoesOn

LEMMA MoveBrings ==
  ASSUME table \in Tables, NEW before \in Tables, NEW c \in Clients, job[c] \in Job,
         Midway(c, before), BackNode(c), pc[c] = "backNode", pc'[c] = "updateID",
         job' = job, failures' = failures
  PROVE  Midway(c, before)'
<1> DEFINE j == job[c]
           Back(i) == table[i].left <= -j.left /\ table[i].right >= -j.right
<1>1. /\ Nested(before) /\ MoveRead(before, j) /\ Has(table) = Has(before)
      /\ \A i \in Has(before) : /\ table[i].left = MovedLeft(c, before[i])
                                /\ table[i].right = MovedRight(c, before[i])
  BY DEF Midway, Whole
<1>2. /\ Has(table') = Has(table)
      /\ \A i \in Has(table) :
           /\ table'[i].parent = table[i].parent
           /\ IF Back(i)
              THEN /\ table'[i].left = Jump(j) - table[i].left
                   /\ table'[i].right = Jump(j) - table[i].right
              ELSE table'[i].left = table[i].left /\ table'[i].right = table[i].right
  BY NodeIsBack
<1>3. "backNode" \in Moving \ {"updateID"} BY DEF Moving
<1>4. ASSUME NEW i \in Has(before)
      PROVE  table'[i].left = MovedLeft(c, before[i])' /\ table'[i].right = MovedRight(c, before[i])'
  <2>1. /\ before[i].left \in Int /\ before[i].right \in Int
        /\ 0 < before[i].left /\ before[i].left < before[i].right
        /\ j.left \in Int /\ j.right \in Int /\ 0 < j.left /\ j.left < j.right
        /\ Span(j) = j.right - j.left + 1 /\ Aim(j) \in Int /\ Jump(j) \in Int
        /\ Within(before[i], j) => /\ j.left <= before[i].left /\ before[i].left <= j.right
                                   /\ j.left <= before[i].right /\ before[i].right <= j.right
        /\ ~Within(before[i], j) =>
             /\ before[i].left < j.left \/ before[i].left > j.right
             /\ before[i].right < j.left \/ before[i].right > j.right
    BY <1>1, MoveKeys
  <2>2. CASE Within(before[i], j)
    <3>1. table[i].left = -before[i].left /\ table[i].right = -before[i].right
      BY <1>1, <1>3, <2>2, MovedSoFar
    <3>2. /\ MovedLeft(c, before[i])' = Jump(j) + before[i].left
          /\ MovedRight(c, before[i])' = Jump(j) + before[i].right
      BY <2>2, MovedNext
    <3>3. Back(i) BY <2>1, <2>2, <3>1
    <3>4. table'[i].left = Jump(j) - table[i].left /\ table'[i].right = Jump(j) - table[i].right
      BY <1>1, <1>2, <3>3
    <3> HIDE DEF j
    <3> QED BY <2>1, <3>1, <3>2, <3>4
  <2>3. CASE ~Within(before[i], j)
    <3>1. table[i].left = Around(j, before[i].left) /\ table[i].right = Around(j, before[i].right)
      BY <1>1, <2>3, MovedSoFar
    <3>2. /\ MovedLeft(c, before[i])' = Around(j, before[i].left)
          /\ MovedRight(c, before[i])' = Around(j, before[i].right)
      BY <2>3, MovedNext
    <3>3. Around(j, before[i].left) \in Int /\ 0 < Around(j, before[i].left)
      BY <2>1, <2>3 DEF Around, Widened, Closed
    <3>4. ~Back(i) BY <2>1, <3>1, <3>3
    <3> QED BY <1>1, <1>2, <3>1, <3>2, <3>4
  <2> QED BY <2>2, <2>3
<1>5. \A i \in Has(before) : table'[i].parent = table[i].parent BY <1>1, <1>2
<1> HIDE DEF Back, j
<1> QED BY <1>1, <1>2, <1>4, <1>5, MidwayGoesOn

(* The last statement ends the move; one into the own subtree is not for   *)
(* the keys to stand.                                                      *)
LEMMA MoveLands ==
  ASSUME table \in Tables, NEW before \in Tables, NEW c \in Clients, job[c] \in Job,
         Midway(c, before), UpdateID(c), ~Inside(c)
  PROVE  /\ Nested(before) /\ MoveRead(before, job[c])
         /\ table' \in Tables /\ Relocated(before, table', job[c])
         /\ job[c].parentRight < job[c].left \/ job[c].parentRight > job[c].right
<1> DEFINE j == job[c]
<1>1. /\ Nested(before) /\ MoveRead(before, j) /\ Has(table) = Has(before)
      /\ \A i \in Has(before) : /\ table[i].left = MovedLeft(c, before[i])
                                /\ table[i].right = MovedRight(c, before[i])
                                /\ table[i].parent = before[i].parent
  BY DEF Midway, Whole
<1>2. /\ table' \in Tables /\ Has(table') = Has(table)
      /\ \A i \in Has(table) :
           /\ table'[i].left = table[i].left /\ table'[i].right = table[i].right
           /\ table'[i].parent = IF i = j.id THEN j.parent ELSE table[i].parent
  BY ParentIsSet
<1>3. pc[c] = "updateID" BY DEF UpdateID
<1>4. Relocated(before, table', j)
  <2>1. ASSUME NEW i \in Has(before)
        PROVE  /\ table'[i].left = IF Within(before[i], j) THEN Jump(j) + before[i].left
                                   ELSE Around(j, before[i].left)
               /\ table'[i].right = IF Within(before[i], j) THEN Jump(j) + before[i].right
                                    ELSE Around(j, before[i].right)
               /\ table'[i].parent = IF i = j.id THEN j.parent ELSE before[i].parent
    BY <1>1, <1>2, <1>3, MovedSoFar
  <2> HIDE DEF j
  <2> QED BY <1>1, <1>2, <2>1 DEF Relocated
<1>5. j.parentRight < j.left \/ j.parentRight > j.right BY JobKeys DEF Inside
<1> QED BY <1>1, <1>2, <1>4, <1>5

LEMMA MoveEnds ==
  ASSUME table \in Tables, NEW before \in Tables, NEW c \in Clients, job[c] \in Job,
         Midway(c, before), UpdateID(c), ~Inside(c), failures' = failures
  PROVE  Whole(table, {})'
<1>1. failures = 0 => Filled(before, {}) BY DEF Midway, Whole
<1>2. Nested(table') /\ (Filled(before, {}) => Filled(table', {})) BY MoveLands, TreeMoved
<1> QED BY <1>1, <1>2 DEF Whole, Nested, Filled, FilledTo, Used, Has

-----------------------------------------------------------------------------
LEMMA Primes ==
  /\ \A gap : Whole(table, gap)' <=> Nested(table') /\ (failures' = 0 => Filled(table', gap))
  /\ Present' = Has(table')
  /\ Has(table)' = Has(table')
<1>1. \A gap : Whole(table, gap)' <=> Nested(table') /\ (failures' = 0 => Filled(table', gap))
  BY DEF Whole
<1>2. Present' = Has(table') BY DEF Present, Has
<1> QED BY <1>1, <1>2

(* What a statement of client c leaves to be shown.                        *)
Done(c, to) ==
  /\ pc' \in [Clients -> Labels] /\ job' \in [Clients -> Job]
  /\ pc'[c] = to
  /\ to # "idle" => job' = job
  /\ failures' = failures
  /\ spoiled' \in BOOLEAN /\ settled' \in Tables
  /\ ~spoiled' => ~spoiled /\ \A d \in Clients \ {c} : pc[d] = "idle" /\ pc'[d] = "idle"
  /\ settled' = IF spoiled' \/ to \in Busy THEN settled ELSE table'

(* The table counts as settled when nobody is past the first UPDATE.       *)
LEMMA UntouchedNext ==
  ASSUME pc' \in [Clients -> Labels]
  PROVE  Untouched' <=> \A c \in Clients : pc'[c] \notin Busy
<1>1. \A l \in Labels :
        l \in {"idle", "makeRoom", "deleteTree", "findParent", "disableTree"} <=> l \notin Busy
  BY DEF Labels, Updates, Busy, Moving
<1>2. Untouched' <=> \A c \in Clients :
        pc'[c] \in {"idle", "makeRoom", "deleteTree", "findParent", "disableTree"}
  BY DEF Untouched
<1> QED BY <1>1, <1>2

LEMMA StatementDone ==
  ASSUME TypeOK, NEW c \in Clients, NEW from, NEW to \in Labels, Statement(c, from, to),
         table' \in Tables
  PROVE  pc[c] = from /\ Done(c, to)
<1>1. /\ pc' \in [Clients -> Labels] /\ job' \in [Clients -> Job]
      /\ pc[c] = from /\ pc'[c] = to
      /\ to # "idle" => job' = job
      /\ \A d \in Clients \ {c} : pc'[d] = pc[d]
      /\ failures' = failures
      /\ spoiled' \in BOOLEAN /\ settled' \in Tables
      /\ ~spoiled' => ~spoiled /\ \A d \in Clients \ {c} : pc[d] = "idle"
  BY StatementSays
<1>2. settled' = IF Untouched' /\ ~spoiled' THEN table' ELSE settled BY DEF Statement
<1>3. "idle" \notin Busy BY DEF Busy, Moving
<1>4. ~spoiled' => (Untouched' <=> to \notin Busy) BY <1>1, <1>3, UntouchedNext
<1> QED BY <1>1, <1>2, <1>4 DEF Done

LEMMA StatementKeeps ==
  ASSUME TypeOK, NEW c \in Clients, NEW to \in Busy \cup {"idle"}, Done(c, to),
         table' \in Tables, lastId' \in 0..MaxId, \A i \in Has(table') : i <= lastId',
         ~spoiled' /\ to = "idle" =>
            Nested(table') /\ (failures = 0 => Filled(table', {})),
         ~spoiled' /\ to = "insertRow" =>
            /\ Nested(table')
            /\ failures = 0 => Filled(table', {job[c].right, job[c].right + 1})
            /\ Room(table', job[c])
            /\ SameForest(settled, table'),
         ~spoiled' /\ to = "closeGap" =>
            /\ Nested(table')
            /\ failures = 0 => Filled(table', job[c].left..job[c].right)
            /\ Gap(table', job[c])
            /\ Cleared(settled, table', job[c]),
         ~spoiled' /\ to \in Moving => \E before \in Tables : before = settled /\ Midway(c, before)'
  PROVE  TreeInv'
<1>1. TypeOK'
  <2>1. /\ settled' \in Tables /\ pc' \in [Clients -> Labels] /\ job' \in [Clients -> Job]
        /\ failures' \in Nat /\ spoiled' \in BOOLEAN
    BY Types DEF Done
  <2> QED BY <2>1 DEF TypeOK, Tables, Labels
<1>2. RowsSoFar' BY Primes DEF RowsSoFar
<1>3. ASSUME ~spoiled' PROVE Sound'
  <2>1. \A d \in Clients : d # c => pc'[d] = "idle" BY <1>3 DEF Done
  <2>2. pc'[c] = to /\ failures' = failures /\ (to # "idle" => job' = job) BY DEF Done
  <2>3. to \notin {"makeRoom", "deleteTree", "findParent", "disableTree"} BY DEF Busy, Moving
  <2>4. "idle" \notin Busy BY DEF Busy, Moving
  <2>5. OneBusy' BY <2>1, <2>4 DEF OneBusy
  <2>6. Fresh' BY <2>1, <2>2, <2>3 DEF Fresh
  <2>7. AtRest'
    <3>1. (\A d \in Clients : pc'[d] \notin Busy) => to = "idle" BY <2>2
    <3>2. to = "idle" => settled' = table' BY <1>3, <2>4 DEF Done
    <3> QED BY <1>3, <2>2, <3>1, <3>2, Primes DEF AtRest
  <2>8. AtInsert'
    <3> SUFFICES ASSUME NEW d \in Clients, pc'[d] = "insertRow"
                 PROVE  (/\ Whole(table, {job[d].right, job[d].right + 1}) /\ Room(table, job[d])
                         /\ SameForest(settled, table))'
      BY DEF AtInsert
    <3>1. d = c /\ to = "insertRow" /\ job' = job BY <2>1, <2>2
    <3>2. settled' = settled BY <1>3, <3>1 DEF Done, Busy
    <3>3. /\ Nested(table') /\ Room(table', job'[d]) /\ SameForest(settled', table')
          /\ failures' = 0 => Filled(table', {job'[d].right, job'[d].right + 1})
      BY <1>3, <2>2, <3>1, <3>2
    <3>4. SameForest(settled, table)' BY <3>3 DEF SameForest, Has
    <3> QED BY <3>3, <3>4 DEF Whole
  <2>9. AtClose'
    <3> SUFFICES ASSUME NEW d \in Clients, pc'[d] = "closeGap"
                 PROVE  (/\ Whole(table, job[d].left..job[d].right) /\ Gap(table, job[d])
                         /\ Cleared(settled, table, job[d]))'
      BY DEF AtClose
    <3>1. d = c /\ to = "closeGap" /\ job' = job BY <2>1, <2>2
    <3>2. settled' = settled BY <1>3, <3>1 DEF Done, Busy
    <3>3. /\ Nested(table') /\ Gap(table', job'[d]) /\ Cleared(settled', table', job'[d])
          /\ failures' = 0 => Filled(table', job'[d].left..job'[d].right)
      BY <1>3, <2>2, <3>1, <3>2
    <3>4. Cleared(settled, table, job[d])' BY <3>3 DEF Cleared, Has, Nested, RowRead
    <3> QED BY <3>3, <3>4 DEF Whole
  <2>10. AtMove'
    <3> SUFFICES ASSUME NEW d \in Clients, pc'[d] \in Moving
                 PROVE  \E before \in Tables : before = settled' /\ Midway(d, before)'
      BY DEF AtMove
    <3>1. d = c /\ to \in Moving BY <2>1, <2>2 DEF Moving
    <3>2. settled' = settled BY <1>3, <3>1 DEF Done, Busy
    <3> QED BY <1>3, <3>1, <3>2
  <2> QED BY <2>5, <2>6, <2>7, <2>8, <2>9, <2>10 DEF Sound
<1> QED BY <1>1, <1>2, <1>3 DEF TreeInv

(* A statement made when nothing else is under way finds a whole tree, if  *)
(* it is the first of its operation.                                       *)
LEMMA FirstFinds ==
  ASSUME TreeInv, NEW c \in Clients, pc[c] \notin Busy, NEW to, Done(c, to), ~spoiled'
  PROVE  Fresh /\ Nested(table) /\ (failures = 0 => Filled(table, {})) /\ settled = table
<1>1. Sound BY DEF Done, TreeInv
<1>2. \A d \in Clients : pc[d] \notin Busy
  <2>1. \A d \in Clients \ {c} : pc[d] = "idle" BY DEF Done
  <2> QED BY <2>1 DEF Busy, Moving
<1> QED BY <1>1, <1>2 DEF Sound, AtRest, Whole

LEMMA AfterMakeRoom ==
  ASSUME TreeInv, NEW c \in Clients, MakeRoom(c)
  PROVE  TreeInv'
<1>0. TypeOK /\ table \in Tables /\ job[c] \in Job /\ lastId \in 0..MaxId /\ RowsSoFar
  BY Types DEF TreeInv
<1>1. RoomMade(table, table', job[c].right) BY RoomIsMade
<1>2. table' \in Tables /\ Has(table') = Has(table) BY <1>0, <1>1, RoomRows, JobKeys
<1>3. Statement(c, "makeRoom", "insertRow") /\ lastId' = lastId BY DEF MakeRoom
<1>4. "insertRow" \in Labels /\ "insertRow" \in Busy /\ "makeRoom" \notin Busy
      /\ "insertRow" \notin Moving
  BY DEF Labels, Busy, Moving
<1>5. pc[c] = "makeRoom" /\ Done(c, "insertRow") BY <1>0, <1>2, <1>3, <1>4, StatementDone
<1>6. \A i \in Has(table') : i <= lastId' BY <1>0, <1>2, <1>3, Presence DEF RowsSoFar
<1>7. ASSUME ~spoiled'
      PROVE  /\ Nested(table')
             /\ failures = 0 => Filled(table', {job[c].right, job[c].right + 1})
             /\ Room(table', job[c])
             /\ SameForest(settled, table')
  <2>1. Fresh /\ Nested(table) /\ (failures = 0 => Filled(table, {})) /\ settled = table
    BY <1>4, <1>5, <1>7, FirstFinds
  <2>2. InsertRead(table, job[c]) BY <1>5, <2>1 DEF Fresh
  <2>3. SameForest(table, table') BY <1>0, <1>1, <2>1, JobKeys, RoomForest
  <2> QED BY <1>0, <1>1, <2>1, <2>2, <2>3, RoomKept
<1> QED BY <1>0, <1>2, <1>3, <1>4, <1>5, <1>6, <1>7, StatementKeeps

LEMMA AfterDeleteTree ==
  ASSUME TreeInv, NEW c \in Clients, DeleteTree(c)
  PROVE  TreeInv'
<1>0. TypeOK /\ table \in Tables /\ job[c] \in Job /\ lastId \in 0..MaxId /\ RowsSoFar
  BY Types DEF TreeInv
<1>1. TreeDeleted(table, table', job[c]) BY TreeIsDeleted
<1>2. table' \in Tables /\ Has(table') \subseteq Has(table)
  BY <1>0, <1>1 DEF TreeDeleted, Tables, Has
<1>3. Statement(c, "deleteTree", "closeGap") /\ lastId' = lastId BY DEF DeleteTree
<1>4. "closeGap" \in Labels /\ "closeGap" \in Busy /\ "deleteTree" \notin Busy
      /\ "closeGap" \notin Moving
  BY DEF Labels, Busy, Moving
<1>5. pc[c] = "deleteTree" /\ Done(c, "closeGap") BY <1>0, <1>2, <1>3, <1>4, StatementDone
<1>6. \A i \in Has(table') : i <= lastId' BY <1>0, <1>2, <1>3, Presence DEF RowsSoFar
<1>7. ASSUME ~spoiled'
      PROVE  /\ Nested(table')
             /\ failures = 0 => Filled(table', job[c].left..job[c].right)
             /\ Gap(table', job[c])
             /\ Cleared(settled, table', job[c])
  <2>1. Fresh /\ Nested(table) /\ (failures = 0 => Filled(table, {})) /\ settled = table
    BY <1>4, <1>5, <1>7, FirstFinds
  <2>2. RowRead(table, job[c]) BY <1>5, <2>1 DEF Fresh
  <2>3. Cleared(table, table', job[c]) BY <1>1, <2>1, <2>2, TreeCleared
  <2> QED BY <1>0, <1>1, <2>1, <2>2, <2>3, SubtreeGone
<1> QED BY <1>0, <1>2, <1>3, <1>4, <1>5, <1>6, <1>7, StatementKeeps

LEMMA AfterInsertRow ==
  ASSUME TreeInv, NEW c \in Clients, InsertRow(c)
  PROVE  TreeInv'
<1>0. TypeOK /\ table \in Tables /\ job[c] \in Job /\ lastId \in 0..MaxId /\ RowsSoFar
  BY Types DEF TreeInv
<1>1. lastId < MaxId /\ lastId' = lastId + 1
      /\ table' = [table EXCEPT ![lastId + 1] = NewRow(job[c])]
      /\ Statement(c, "insertRow", "idle")
  BY DEF InsertRow
<1>2. lastId + 1 \in Ids /\ lastId' \in 0..MaxId BY <1>0, <1>1, TreeAssumption DEF Ids
<1>3. lastId + 1 \notin Has(table) BY <1>0, <1>1, Presence, Keys DEF RowsSoFar
<1>4. NewRow(job[c]) \in Row BY <1>0 DEF NewRow, Row, Job
<1>5. table' \in Tables BY <1>0, <1>1, <1>4 DEF Tables
<1>6. Has(table') \subseteq Has(table) \cup {lastId + 1} BY <1>0, <1>1, <1>2 DEF Has, Tables
<1>7. \A i \in Has(table') : i <= lastId'
  BY <1>0, <1>1, <1>6, Presence, Keys DEF RowsSoFar
<1>8. "idle" \in Labels /\ "idle" \notin Moving /\ "insertRow" \in Busy
  BY DEF Labels, Moving, Busy
<1>9. pc[c] = "insertRow" /\ Done(c, "idle") BY <1>0, <1>1, <1>5, <1>8, StatementDone
<1>10. ASSUME ~spoiled' PROVE Nested(table') /\ (failures = 0 => Filled(table', {}))
  <2>1. AtInsert BY <1>9, <1>10 DEF Done, TreeInv, Sound
  <2>2. /\ Nested(table) /\ Room(table, job[c])
        /\ failures = 0 => Filled(table, {job[c].right, job[c].right + 1})
    BY <1>9, <2>1 DEF AtInsert, Whole
  <2> QED BY <1>0, <1>1, <1>2, <1>3, <2>2, RowInserted
<1> QED BY <1>0, <1>2, <1>5, <1>7, <1>8, <1>9, <1>10, StatementKeeps

LEMMA AfterCloseGap ==
  ASSUME TreeInv, NEW c \in Clients, CloseGap(c)
  PROVE  TreeInv'
<1>0. TypeOK /\ table \in Tables /\ job[c] \in Job /\ lastId \in 0..MaxId /\ RowsSoFar
  BY Types DEF TreeInv
<1>1. GapClosed(table, table', job[c]) BY GapIsClosed
<1>2. table' \in Tables /\ Has(table') = Has(table) BY <1>0, <1>1, GapRows
<1>3. Statement(c, "closeGap", "idle") /\ lastId' = lastId BY DEF CloseGap
<1>4. "idle" \in Labels /\ "idle" \notin Moving BY DEF Labels, Moving
<1>5. pc[c] = "closeGap" /\ Done(c, "idle") BY <1>0, <1>2, <1>3, <1>4, StatementDone
<1>6. \A i \in Has(table') : i <= lastId' BY <1>0, <1>2, <1>3, Presence DEF RowsSoFar
<1>7. ASSUME ~spoiled' PROVE Nested(table') /\ (failures = 0 => Filled(table', {}))
  <2>1. AtClose BY <1>5, <1>7 DEF Done, TreeInv, Sound
  <2>2. /\ Nested(table) /\ Gap(table, job[c])
        /\ failures = 0 => Filled(table, job[c].left..job[c].right)
    BY <1>5, <2>1 DEF AtClose, Whole
  <2> QED BY <1>0, <1>1, <2>2, GapGone
<1> QED BY <1>0, <1>2, <1>3, <1>4, <1>5, <1>6, <1>7, StatementKeeps

(* The statements of move().                                               *)
LEMMA AfterDisableTree ==
  ASSUME TreeInv, NEW c \in Clients, DisableTree(c)
  PROVE  TreeInv'
<1>0. TypeOK /\ table \in Tables /\ job[c] \in Job /\ lastId \in 0..MaxId /\ RowsSoFar
  BY Types DEF TreeInv
<1>1. table' \in Tables /\ Has(table') = Has(table) BY <1>0, TreeIsDisabled
<1>2. Statement(c, "disableTree", "restrictLeft") /\ lastId' = lastId BY DEF DisableTree
<1>3. "restrictLeft" \in Labels /\ "restrictLeft" \in Busy /\ "disableTree" \notin Busy
  BY DEF Labels, Busy, Moving, Updates
<1>4. pc[c] = "disableTree" /\ Done(c, "restrictLeft") BY <1>0, <1>1, <1>2, <1>3, StatementDone
<1>5. \A i \in Has(table') : i <= lastId' BY <1>0, <1>1, <1>2, Presence DEF RowsSoFar
<1>6. ASSUME ~spoiled' PROVE \E before \in Tables : before = settled /\ Midway(c, before)'
  <2>1. Fresh /\ Nested(table) /\ (failures = 0 => Filled(table, {})) /\ settled = table
    BY <1>3, <1>4, <1>6, FirstFinds
  <2>2. MoveRead(table, job[c]) BY <1>4, <2>1 DEF Fresh
  <2>3. Whole(table, {}) BY <2>1 DEF Whole
  <2>4. PICK before \in Tables : before = table /\ before = settled BY <1>0, <2>1
  <2>5. pc'[c] = "restrictLeft" /\ job' = job /\ failures' = failures BY <1>4 DEF Done
  <2>6. Midway(c, before)' BY <1>0, <2>2, <2>3, <2>4, <2>5, MoveBegins
  <2> QED BY <2>4, <2>6
<1> QED BY <1>0, <1>1, <1>2, <1>3, <1>4, <1>5, <1>6, StatementKeeps

LEMMA OnTheWay ==
  ASSUME TreeInv, NEW c \in Clients, pc[c] \in Moving, NEW to, Done(c, to), ~spoiled'
  PROVE  \E before \in Tables : before = settled /\ Midway(c, before)
BY DEF TreeInv, Sound, AtMove, Done

LEMMA AfterRestrict ==
  ASSUME TreeInv, NEW c \in Clients, RestrictFullTree(c)
  PROVE  TreeInv'
<1>0. TypeOK /\ table \in Tables /\ job[c] \in Job /\ lastId \in 0..MaxId /\ RowsSoFar
  BY Types DEF TreeInv
<1>1. table' \in Tables /\ Has(table') = Has(table) BY <1>0, TreeIsRestricted
<1>2. PICK from, to : /\ Statement(c, from, to)
                      /\ \/ from = "restrictLeft" /\ to = "restrictRight"
                         \/ from = "restrictRight" /\ to = "addLeft"
  BY DEF RestrictFullTree
<1>3. lastId' = lastId BY DEF RestrictFullTree
<1>4. to \in Labels /\ to \in Moving /\ to \in Busy /\ from \in Moving
      /\ to \notin {"idle", "insertRow", "closeGap"}
  BY <1>2 DEF Labels, Busy, Moving, Updates
<1>5. pc[c] = from /\ Done(c, to) BY <1>0, <1>1, <1>2, <1>4, StatementDone
<1>6. \A i \in Has(table') : i <= lastId' BY <1>0, <1>1, <1>3, Presence DEF RowsSoFar
<1>7. ASSUME ~spoiled' PROVE \E before \in Tables : before = settled /\ Midway(c, before)'
  <2>1. PICK before \in Tables : before = settled /\ Midway(c, before) BY <1>4, <1>5, <1>7, OnTheWay
  <2>2. pc'[c] = to /\ job' = job /\ failures' = failures BY <1>4, <1>5 DEF Done
  <2>3. /\ pc[c] = "restrictLeft" => pc'[c] = "restrictRight"
        /\ pc[c] = "restrictRight" => pc'[c] = "addLeft"
    BY <1>2, <1>5, <2>2
  <2>4. Midway(c, before)' BY <1>0, <2>1, <2>2, <2>3, MoveRestricts
  <2> QED BY <2>1, <2>4
<1> QED BY <1>0, <1>1, <1>3, <1>4, <1>5, <1>6, <1>7, StatementKeeps

LEMMA AfterWiden ==
  ASSUME TreeInv, NEW c \in Clients, AddFullTree(c)
  PROVE  TreeInv'
<1>0. TypeOK /\ table \in Tables /\ job[c] \in Job /\ lastId \in 0..MaxId /\ RowsSoFar
  BY Types DEF TreeInv
<1>1. table' \in Tables /\ Has(table') = Has(table) BY <1>0, TreeIsWidened
<1>2. PICK from, to : /\ Statement(c, from, to)
                      /\ \/ from = "addLeft" /\ to = "addRight"
                         \/ from = "addRight" /\ to = "backNode"
  BY DEF AddFullTree
<1>3. lastId' = lastId BY DEF AddFullTree
<1>4. to \in Labels /\ to \in Moving /\ to \in Busy /\ from \in Moving
      /\ to \notin {"idle", "insertRow", "closeGap"}
  BY <1>2 DEF Labels, Busy, Moving, Updates
<1>5. pc[c] = from /\ Done(c, to) BY <1>0, <1>1, <1>2, <1>4, StatementDone
<1>6. \A i \in Has(table') : i <= lastId' BY <1>0, <1>1, <1>3, Presence DEF RowsSoFar
<1>7. ASSUME ~spoiled' PROVE \E before \in Tables : before = settled /\ Midway(c, before)'
  <2>1. PICK before \in Tables : before = settled /\ Midway(c, before) BY <1>4, <1>5, <1>7, OnTheWay
  <2>2. pc'[c] = to /\ job' = job /\ failures' = failures BY <1>4, <1>5 DEF Done
  <2>3. /\ pc[c] = "addLeft" => pc'[c] = "addRight"
        /\ pc[c] = "addRight" => pc'[c] = "backNode"
    BY <1>2, <1>5, <2>2
  <2>4. Midway(c, before)' BY <1>0, <2>1, <2>2, <2>3, MoveWidens
  <2> QED BY <2>1, <2>4
<1> QED BY <1>0, <1>1, <1>3, <1>4, <1>5, <1>6, <1>7, StatementKeeps

LEMMA AfterBackNode ==
  ASSUME TreeInv, NEW c \in Clients, BackNode(c)
  PROVE  TreeInv'
<1>0. TypeOK /\ table \in Tables /\ job[c] \in Job /\ lastId \in 0..MaxId /\ RowsSoFar
  BY Types DEF TreeInv
<1>1. table' \in Tables /\ Has(table') = Has(table) BY <1>0, NodeIsBack
<1>2. Statement(c, "backNode", "updateID") /\ lastId' = lastId BY DEF BackNode
<1>3. "updateID" \in Labels /\ "updateID" \in Busy /\ "backNode" \in Moving
  BY DEF Labels, Busy, Moving, Updates
<1>4. pc[c] = "backNode" /\ Done(c, "updateID") BY <1>0, <1>1, <1>2, <1>3, StatementDone
<1>5. \A i \in Has(table') : i <= lastId' BY <1>0, <1>1, <1>2, Presence DEF RowsSoFar
<1>6. ASSUME ~spoiled' PROVE \E before \in Tables : before = settled /\ Midway(c, before)'
  <2>1. PICK before \in Tables : before = settled /\ Midway(c, before) BY <1>3, <1>4, <1>6, OnTheWay
  <2>2. pc'[c] = "updateID" /\ job' = job /\ failures' = failures BY <1>4 DEF Done
  <2>3. Midway(c, before)' BY <1>0, <1>4, <2>1, <2>2, MoveBrings
  <2> QED BY <2>1, <2>3
<1> QED BY <1>0, <1>1, <1>2, <1>3, <1>4, <1>5, <1>6, StatementKeeps

LEMMA AfterUpdateID ==
  ASSUME TreeInv, NEW c \in Clients, UpdateID(c)
  PROVE  TreeInv'
<1>0. TypeOK /\ table \in Tables /\ job[c] \in Job /\ lastId \in 0..MaxId /\ RowsSoFar
  BY Types DEF TreeInv
<1>1. table' \in Tables /\ Has(table') = Has(table) BY <1>0, ParentIsSet
<1>2. /\ pc[c] = "updateID" /\ Goto(c, "idle") /\ lastId' = lastId /\ failures' = failures
      /\ spoiled' = (spoiled \/ Inside(c) \/ \E d \in Clients \ {c} : pc[d] # "idle")
      /\ settled' = IF Untouched' /\ ~spoiled' THEN table' ELSE settled
  BY DEF UpdateID
<1>3. "idle" \in Labels /\ "idle" \notin Busy /\ "idle" \notin Moving /\ "updateID" \in Moving
  BY DEF Labels, Busy, Moving
<1>4. Done(c, "idle")
  <2>1. /\ pc' \in [Clients -> Labels] /\ job' \in [Clients -> Job]
        /\ pc'[c] = "idle"
        /\ \A d \in Clients \ {c} : pc'[d] = pc[d]
    BY <1>0, <1>2, <1>3, GotoSays
  <2>2. spoiled' \in BOOLEAN /\ settled' \in Tables BY <1>0, <1>1, <1>2, Types
  <2>3. ~spoiled' => ~spoiled /\ \A d \in Clients \ {c} : pc[d] = "idle" BY <1>2
  <2>4. ~spoiled' => Untouched' BY <1>3, <2>1, <2>3, UntouchedNext
  <2>5. settled' = IF spoiled' \/ "idle" \in Busy THEN settled ELSE table' BY <1>2, <1>3, <2>4
  <2> QED BY <1>2, <2>1, <2>2, <2>3, <2>5 DEF Done
<1>5. \A i \in Has(table') : i <= lastId' BY <1>0, <1>1, <1>2, Presence DEF RowsSoFar
<1>6. ASSUME ~spoiled' PROVE Nested(table') /\ (failures = 0 => Filled(table', {}))
  <2>1. PICK before \in Tables : before = settled /\ Midway(c, before) BY <1>2, <1>3, <1>4, <1>6, OnTheWay
  <2>2. ~Inside(c) BY <1>2, <1>6
  <2>3. Whole(table, {})' BY <1>0, <1>2, <2>1, <2>2, MoveEnds
  <2> QED BY <1>2, <2>3, Primes
<1> QED BY <1>0, <1>1, <1>2, <1>3, <1>4, <1>5, <1>6, StatementKeeps

-----------------------------------------------------------------------------
(* Steps that leave the table alone.                                       *)
LEMMA MidwayStays ==
  ASSUME NEW d \in Clients, NEW before \in Tables, Midway(d, before),
         pc'[d] = pc[d], job'[d] = job[d], table' = table, failures' = 0 => failures = 0
  PROVE  Midway(d, before)'
<1>1. Whole(before, {})' BY DEF Midway, Whole
<1>2. MoveRead(before, job[d])' BY DEF Midway
<1>3. Has(table)' = Has(before) BY DEF Midway, Has
<1>4. \A i \in Has(before) : /\ table'[i].left = MovedLeft(d, before[i])'
                             /\ table'[i].right = MovedRight(d, before[i])'
                             /\ table'[i].parent = before[i].parent
  <2>1. \A r : MovedLeft(d, r)' = MovedLeft(d, r) /\ MovedRight(d, r)' = MovedRight(d, r)
    BY DEF MovedLeft, MovedRight, Disabled, LeftNow, RightNow, Opened, Target, Shift, Size
  <2> QED BY <2>1 DEF Midway
<1> QED BY <1>1, <1>2, <1>3, <1>4 DEF Midway

LEMMA TableStays ==
  ASSUME Sound, NEW c \in Clients, table' = table, settled' = settled, failures' = 0 => failures = 0,
         pc[c] \notin Busy, pc'[c] \notin Busy,
         \A d \in Clients \ {c} : pc'[d] = pc[d] /\ job'[d] = job[d],
         pc'[c] = "makeRoom" => InsertRead(table, job'[c]),
         pc'[c] = "deleteTree" => RowRead(table, job'[c]),
         pc'[c] = "findParent" => NodeRead(table, job'[c]),
         pc'[c] = "disableTree" => MoveRead(table, job'[c])
  PROVE  Sound'
<1>1. OneBusy' BY DEF Sound, OneBusy
<1>2. Fresh'
  <2> SUFFICES ASSUME NEW d \in Clients
               PROVE  /\ pc'[d] = "makeRoom" => InsertRead(table', job'[d])
                      /\ pc'[d] = "deleteTree" => RowRead(table', job'[d])
                      /\ pc'[d] = "findParent" => NodeRead(table', job'[d])
                      /\ pc'[d] = "disableTree" => MoveRead(table', job'[d])
    BY DEF Fresh
  <2>1. CASE d = c BY <2>1
  <2>2. CASE d # c BY <2>2 DEF Sound, Fresh
  <2> QED BY <2>1, <2>2
<1>3. AtRest'
  <2> SUFFICES ASSUME \A d \in Clients : pc'[d] \notin Busy
               PROVE  Whole(table, {})' /\ settled' = table'
    BY DEF AtRest
  <2>1. \A d \in Clients : pc[d] \notin Busy OBVIOUS
  <2>2. Whole(table, {}) /\ settled = table BY <2>1 DEF Sound, AtRest
  <2> QED BY <2>2 DEF Whole
<1>4. ASSUME NEW d \in Clients, pc'[d] \in Busy
      PROVE  d # c /\ pc'[d] = pc[d] /\ job'[d] = job[d]
  BY <1>4
<1>5. AtInsert'
  <2> SUFFICES ASSUME NEW d \in Clients, pc'[d] = "insertRow"
               PROVE  (/\ Whole(table, {job[d].right, job[d].right + 1}) /\ Room(table, job[d])
                       /\ SameForest(settled, table))'
    BY DEF AtInsert
  <2>1. pc'[d] \in Busy BY DEF Busy
  <2>2. pc'[d] = pc[d] /\ job'[d] = job[d] BY <1>4, <2>1
  <2>3. /\ Whole(table, {job[d].right, job[d].right + 1}) /\ Room(table, job[d])
        /\ SameForest(settled, table)
    BY <2>2 DEF Sound, AtInsert
  <2> QED BY <2>2, <2>3 DEF Whole
<1>6. AtClose'
  <2> SUFFICES ASSUME NEW d \in Clients, pc'[d] = "closeGap"
               PROVE  (/\ Whole(table, job[d].left..job[d].right) /\ Gap(table, job[d])
                       /\ Cleared(settled, table, job[d]))'
    BY DEF AtClose
  <2>1. pc'[d] \in Busy BY DEF Busy
  <2>2. pc'[d] = pc[d] /\ job'[d] = job[d] BY <1>4, <2>1
  <2>3. /\ Whole(table, job[d].left..job[d].right) /\ Gap(table, job[d])
        /\ Cleared(settled, table, job[d])
    BY <2>2 DEF Sound, AtClose
  <2> QED BY <2>2, <2>3 DEF Whole
<1>7. AtMove'
  <2> SUFFICES ASSUME NEW d \in Clients, pc'[d] \in Moving
               PROVE  \E before \in Tables : before = settled' /\ Midway(d, before)'
    BY DEF AtMove
  <2>1. pc'[d] = pc[d] /\ job'[d] = job[d] BY <1>4 DEF Busy
  <2>2. PICK before \in Tables : before = settled /\ Midway(d, before) BY <2>1 DEF Sound, AtMove
  <2>3. Midway(d, before)' BY <2>1, <2>2, MidwayStays
  <2> QED BY <2>2, <2>3
<1> QED BY <1>1, <1>2, <1>3, <1>5, <1>6, <1>7 DEF Sound

LEMMA ReadKeeps ==
  ASSUME TreeInv, NEW c \in Clients, Begin(c), NEW j \in Job,
         NEW label \in {"makeRoom", "deleteTree", "findParent"}, Read(c, label, j),
         label = "makeRoom" => InsertRead(table, j),
         label = "deleteTree" => RowRead(table, j),
         label = "findParent" => NodeRead(table, j)
  PROVE  TreeInv'
<1>0. TypeOK /\ RowsSoFar /\ pc[c] = "idle" /\ ~spoiled /\ Sound BY DEF TreeInv, Begin
<1>1. /\ pc' = [pc EXCEPT ![c] = label] /\ job' = [job EXCEPT ![c] = j]
      /\ table' = table /\ lastId' = lastId /\ failures' = failures
      /\ spoiled' = spoiled /\ settled' = settled
  BY DEF Read
<1>2. label \in Labels /\ label \notin Busy /\ "idle" \notin Busy BY DEF Labels, Busy, Moving
<1>3. pc \in [Clients -> Labels] /\ job \in [Clients -> Job] BY <1>0, Types
<1>4. /\ pc' \in [Clients -> Labels] /\ job' \in [Clients -> Job]
      /\ pc'[c] = label /\ job'[c] = j
      /\ \A d \in Clients \ {c} : pc'[d] = pc[d] /\ job'[d] = job[d]
  BY <1>1, <1>2, <1>3
<1>5. TypeOK' BY <1>0, <1>1, <1>4 DEF TypeOK, Labels
<1>6. RowsSoFar' BY <1>0, <1>1 DEF RowsSoFar, Present
<1>7. Sound' BY <1>0, <1>1, <1>2, <1>4, TableStays
<1> QED BY <1>5, <1>6, <1>7 DEF TreeInv

-----------------------------------------------------------------------------
(* Sets of natural numbers are shown to be complete by induction.          *)
LEMMA NatSets ==
  ASSUME NEW S, 0 \in S, \A n \in Nat : n \in S => n + 1 \in S
  PROVE  Nat \subseteq S
<1> DEFINE T == Nat \ S
<1> SUFFICES ASSUME T # {} PROVE FALSE OBVIOUS
<1>1. IsWellFoundedOn(OpToRel(<, Nat), Nat) BY NatLessThanWellFounded
<1>2. PICK x \in T : \A y \in T : ~(<<y, x>> \in OpToRel(<, Nat)) BY <1>1, WFMin
<1>3. \A y \in Nat : y < x => <<y, x>> \in OpToRel(<, Nat) BY <1>2 DEF OpToRel
<1>4. x # 0 /\ x \in Nat BY <1>2
<1>5. x - 1 \in Nat /\ x - 1 < x /\ (x - 1) + 1 = x BY <1>4
<1>6. x - 1 \in S BY <1>2, <1>3, <1>5
<1> QED BY <1>2, <1>5, <1>6

(* The table ends somewhere.                                               *)
LEMMA LastRow ==
  ASSUME NEW t \in Tables, Has(t) # {}
  PROVE  \E i \in Has(t) : \A k \in Has(t) : t[i].right >= t[k].right
<1> DEFINE Upto(n) == {k \in Has(t) : k <= n}
           Last(n) == Upto(n) # {} => \E i \in Upto(n) : \A k \in Upto(n) : t[i].right >= t[k].right
           S == {n \in Nat : Last(n)}
<1>1. 0 \in S
  <2>1. Upto(0) = {} BY TreeAssumption DEF Has, Ids
  <2> QED BY <2>1
<1>2. ASSUME NEW n \in Nat, n \in S PROVE n + 1 \in S
  <2>1. Last(n) BY <1>2
  <2>2. CASE n + 1 \notin Has(t)
    <3>1. \A k \in Has(t) : k <= n + 1 <=> k <= n BY <2>2, Keys
    <3>2. Upto(n + 1) = Upto(n) BY <3>1
    <3> HIDE DEF Upto
    <3>3. Last(n + 1) BY <2>1, <3>2
    <3> QED BY <3>3
  <2>3. CASE n + 1 \in Has(t)
    <3>1. Upto(n + 1) = Upto(n) \cup {n + 1}
      <4>1. \A k \in Has(t) : k <= n + 1 <=> k <= n \/ k = n + 1 BY Keys
      <4> QED BY <2>3, <4>1
    <3>2. \A k \in Upto(n + 1) : k \in Has(t) /\ t[k].right \in Int BY Keys
    <3>3. CASE Upto(n) = {}
      <4> HIDE DEF Upto
      <4>1. Last(n + 1) BY <3>1, <3>2, <3>3
      <4> QED BY <4>1
    <3>4. CASE Upto(n) # {}
      <4>1. PICK i \in Upto(n) : \A k \in Upto(n) : t[i].right >= t[k].right BY <2>1, <3>4
      <4> HIDE DEF Upto
      <4>2. CASE t[i].right >= t[n + 1].right
        <5>1. i \in Upto(n + 1) /\ \A k \in Upto(n + 1) : t[i].right >= t[k].right
          BY <3>1, <4>1, <4>2
        <5> QED BY <5>1
      <4>3. CASE ~(t[i].right >= t[n + 1].right)
        <5>1. /\ n + 1 \in Upto(n + 1)
              /\ \A k \in Upto(n + 1) : t[n + 1].right >= t[k].right
          BY <3>1, <3>2, <4>1, <4>3
        <5> QED BY <5>1
      <4> QED BY <4>2, <4>3
    <3> QED BY <3>3, <3>4
  <2> QED BY <2>2, <2>3
<1> HIDE DEF S
<1>3. Nat \subseteq S BY <1>1, <1>2, NatSets
<1>4. Last(MaxId) BY <1>3, TreeAssumption DEF S
<1>5. Upto(MaxId) = Has(t) BY TreeAssumption DEF Has, Ids
<1> QED BY <1>4, <1>5

LEMMA MaxRight ==
  ASSUME table \in Tables, Present # {}, NEW key, key = Max({table[i].right : i \in Present}) + 1
  PROVE  Behind(table, key)
<1> DEFINE R == {table[i].right : i \in Present}
<1>1. PICK i \in Has(table) : \A k \in Has(table) : table[i].right >= table[k].right
  BY Presence, LastRow
<1>2. table[i].right \in R /\ \A m \in R : table[i].right >= m BY <1>1, Presence
<1>3. Max(R) \in R /\ \A m \in R : Max(R) >= m BY <1>2 DEF Max
<1>4. PICK k \in Has(table) : Max(R) = table[k].right BY <1>3, Presence
<1>5. table[k].right \in Int /\ key = table[k].right + 1 BY <1>4, Keys
<1>6. \A m \in Has(table) : table[m].right \in Int /\ table[k].right >= table[m].right
  BY <1>3, <1>4, Presence, Keys
<1>7. \A m \in Has(table) : table[m].right < key BY <1>5, <1>6
<1>8. table[k].right = key - 1 /\ key \in Int BY <1>5
<1> QED BY <1>7, <1>8 DEF Behind

(* What the first SELECT of an operation leaves in its locals.             *)
InsertJob(n, p, key) == [n EXCEPT !.parent = p, !.right = key]
RemoveJob(n, l, r) == [n EXCEPT !.left = l, !.right = r]
MoveJob(n, i, p, l, r) == [n EXCEPT !.id = i, !.parent = p, !.left = l, !.right = r]

LEMMA InsertJobSays ==
  ASSUME NEW n \in Job, NEW p \in 0..MaxId, NEW key \in Int
  PROVE  /\ InsertJob(n, p, key) \in Job
         /\ InsertJob(n, p, key).parent = p /\ InsertJob(n, p, key).right = key
BY DEF InsertJob, Job

LEMMA RemoveJobSays ==
  ASSUME NEW n \in Job, NEW l \in Int, NEW r \in Int
  PROVE  /\ RemoveJob(n, l, r) \in Job
         /\ RemoveJob(n, l, r).left = l /\ RemoveJob(n, l, r).right = r
BY DEF RemoveJob, Job

LEMMA MoveJobSays ==
  ASSUME NEW n \in Job, NEW i \in 0..MaxId, NEW p \in 0..MaxId, NEW l \in Int, NEW r \in Int
  PROVE  /\ MoveJob(n, i, p, l, r) \in Job /\ MoveJob(n, i, p, l, r).id = i
         /\ MoveJob(n, i, p, l, r).left = l /\ MoveJob(n, i, p, l, r).right = r
BY DEF MoveJob, Job

LEMMA ParentJob ==
  ASSUME NEW j \in Job, NEW q \in Int
  PROVE  /\ [j EXCEPT !.parentRight = q] \in Job
         /\ [j EXCEPT !.parentRight = q].id = j.id /\ [j EXCEPT !.parentRight = q].parent = j.parent
         /\ [j EXCEPT !.parentRight = q].left = j.left
         /\ [j EXCEPT !.parentRight = q].right = j.right
         /\ [j EXCEPT !.parentRight = q].parentRight = q
BY DEF Job

LEMMA AfterInsertFind ==
  ASSUME TreeInv, NEW c \in Clients, NEW p \in 0..MaxId, InsertFind(c, p)
  PROVE  TreeInv'
<1>0. table \in Tables BY Types DEF TreeInv
<1>1. PICK key : /\ key = IF p # 0 THEN table[p].right
                          ELSE IF Present = {} THEN 1
                          ELSE Max({table[i].right : i \in Present}) + 1
                 /\ Read(c, "makeRoom", InsertJob(NoJob, p, key))
  BY DEF InsertFind, InsertJob
<1>2. Begin(c) /\ p \in Present \cup {0} BY DEF InsertFind
<1>3. \/ p \in Has(table) /\ key = table[p].right
      \/ p = 0 /\ Behind(table, key)
  <2>1. CASE p # 0 BY <1>1, <1>2, <2>1, Presence
  <2>2. CASE p = 0 /\ Present = {} BY <1>1, <2>2, Presence DEF Behind
  <2>3. CASE p = 0 /\ Present # {} BY <1>0, <1>1, <2>3, MaxRight
  <2> QED BY <2>1, <2>2, <2>3
<1>4. key \in Int BY <1>0, <1>3, Keys DEF Behind
<1>5. PICK j : j = InsertJob(NoJob, p, key) OBVIOUS
<1>6. j \in Job /\ j.parent = p /\ j.right = key BY <1>4, <1>5, NoJobType, InsertJobSays
<1>7. InsertRead(table, j) BY <1>3, <1>6 DEF InsertRead
<1>8. Read(c, "makeRoom", j) BY <1>1, <1>5
<1> QED BY <1>2, <1>6, <1>7, <1>8, ReadKeeps

LEMMA AfterRemoveFind ==
  ASSUME TreeInv, NEW c \in Clients, NEW i \in Ids, RemoveFind(c, i)
  PROVE  TreeInv'
<1>0. table \in Tables BY Types DEF TreeInv
<1>1. PICK j : j = RemoveJob(NoJob, table[i].left, table[i].right) OBVIOUS
<1>2. Begin(c) /\ i \in Has(table) /\ Read(c, "deleteTree", j)
  BY <1>1, Presence DEF RemoveFind, RemoveJob
<1>3. table[i].left \in Int /\ table[i].right \in Int BY <1>0, <1>2, Keys
<1>4. j \in Job /\ j.left = table[i].left /\ j.right = table[i].right BY <1>1, <1>3, NoJobType, RemoveJobSays
<1>5. RowRead(table, j) BY <1>2, <1>4 DEF RowRead
<1> QED BY <1>2, <1>4, <1>5, ReadKeeps

LEMMA AfterMoveFind ==
  ASSUME TreeInv, NEW c \in Clients, NEW i \in Ids, NEW p \in 0..MaxId, MoveFind(c, i, p)
  PROVE  TreeInv'
<1>0. table \in Tables /\ i \in 0..MaxId BY Types, TreeAssumption DEF TreeInv, Ids
<1>1. PICK j : j = MoveJob(NoJob, i, p, table[i].left, table[i].right) OBVIOUS
<1>2. Begin(c) /\ i \in Has(table) /\ Read(c, "findParent", j)
  BY <1>1, Presence DEF MoveFind, MoveJob
<1>3. table[i].left \in Int /\ table[i].right \in Int BY <1>0, <1>2, Keys
<1>4. j \in Job /\ j.id = i /\ j.left = table[i].left /\ j.right = table[i].right
  <2>1. i \in 0..MaxId /\ p \in 0..MaxId BY <1>0
  <2> QED BY ONLY <1>1, <1>3, <2>1, NoJobType, MoveJobSays
<1>5. NodeRead(table, j) BY <1>2, <1>4 DEF NodeRead
<1> QED BY <1>2, <1>4, <1>5, ReadKeeps

LEMMA AfterParentFind ==
  ASSUME TreeInv, NEW c \in Clients, ParentFind(c)
  PROVE  TreeInv'
<1>0. /\ TypeOK /\ RowsSoFar /\ table \in Tables /\ pc \in [Clients -> Labels]
      /\ job \in [Clients -> Job] /\ job[c] \in Job
  BY Types DEF TreeInv
<1>1. /\ pc[c] = "findParent" /\ table' = table /\ lastId' = lastId /\ failures' = failures
      /\ spoiled' = spoiled /\ settled' = settled
  BY DEF ParentFind
<1>2. /\ "idle" \in Labels /\ "disableTree" \in Labels
      /\ {"idle", "findParent", "disableTree"} \cap Busy = {}
  BY DEF Labels, Updates, Busy, Moving
<1>3. CASE job[c].parent \in Present
  <2>1. PICK q \in Int : q = table[job[c].parent].right BY <1>0, <1>3, Presence, Keys
  <2>2. PICK j : j = [job[c] EXCEPT !.parentRight = q] OBVIOUS
  <2>3. pc' = [pc EXCEPT ![c] = "disableTree"] /\ job' = [job EXCEPT ![c] = j]
    <3>1. pc' = [pc EXCEPT ![c] = "disableTree"]
          /\ job' = [job EXCEPT ![c].parentRight = table[job[c].parent].right]
      BY <1>3 DEF ParentFind
    <3> QED BY <2>1, <2>2, <3>1
  <2>4. /\ j \in Job /\ j.id = job[c].id /\ j.parent = job[c].parent /\ j.left = job[c].left
        /\ j.right = job[c].right /\ j.parentRight = q
    BY <1>0, <2>2, ParentJob
  <2>5. /\ pc' \in [Clients -> Labels] /\ job' \in [Clients -> Job]
        /\ pc'[c] = "disableTree" /\ job'[c] = j
        /\ \A d \in Clients \ {c} : pc'[d] = pc[d] /\ job'[d] = job[d]
    BY <1>0, <1>2, <2>3, <2>4
  <2>6. TypeOK' BY <1>0, <1>1, <2>5 DEF TypeOK, Labels
  <2>7. RowsSoFar' BY <1>0, <1>1 DEF RowsSoFar, Present
  <2>8. ASSUME ~spoiled' PROVE Sound'
    <3>1. Sound BY <1>1, <2>8 DEF TreeInv
    <3>2. NodeRead(table, job[c]) BY <1>1, <3>1 DEF Sound, Fresh
    <3>3. MoveRead(table, j) BY <1>3, <2>1, <2>4, <3>2, Presence DEF MoveRead, NodeRead
    <3> QED BY <1>1, <1>2, <2>5, <3>1, <3>3, TableStays
  <2> QED BY <2>6, <2>7, <2>8 DEF TreeInv
<1>4. CASE job[c].parent \notin Present
  <2>1. Goto(c, "idle") BY <1>4 DEF ParentFind
  <2>2. /\ pc' \in [Clients -> Labels] /\ job' \in [Clients -> Job]
        /\ pc'[c] = "idle"
        /\ \A d \in Clients \ {c} : pc'[d] = pc[d] /\ job'[d] = job[d]
    BY <1>0, <1>2, <2>1, GotoSays
  <2>3. TypeOK' BY <1>0, <1>1, <2>2 DEF TypeOK, Labels
  <2>4. RowsSoFar' BY <1>0, <1>1 DEF RowsSoFar, Present
  <2>5. ASSUME ~spoiled' PROVE Sound'
    <3>1. Sound BY <1>1, <2>5 DEF TreeInv
    <3> QED BY <1>1, <1>2, <2>2, <3>1, TableStays
  <2> QED BY <2>3, <2>4, <2>5 DEF TreeInv
<1> QED BY <1>3, <1>4

LEMMA AfterMakeRoomFails ==
  ASSUME TreeInv, NEW c \in Clients, MakeRoomFails(c)
  PROVE  TreeInv'
<1>0. TypeOK /\ RowsSoFar /\ failures \in Nat BY Types DEF TreeInv
<1>1. /\ failures' = failures + 1 /\ spoiled' = TRUE /\ Goto(c, "insertRow")
      /\ table' = table /\ lastId' = lastId /\ settled' = settled
  BY DEF MakeRoomFails
<1>2. "insertRow" \in Labels BY DEF Labels
<1>3. pc' \in [Clients -> Labels] /\ job' \in [Clients -> Job] BY <1>0, <1>1, <1>2, GotoSays
<1>4. TypeOK' BY <1>0, <1>1, <1>3 DEF TypeOK, Labels
<1>5. RowsSoFar' BY <1>0, <1>1 DEF RowsSoFar, Present
<1> QED BY <1>1, <1>4, <1>5 DEF TreeInv

(* insert() and remove() may stop anywhere; what they leave is nested.     *)
LEMMA AfterCutShort ==
  ASSUME TreeInv, NEW c \in Clients, CutShort(c)
  PROVE  TreeInv'
<1>0. TypeOK /\ RowsSoFar /\ failures \in Nat /\ table \in Tables BY Types DEF TreeInv
<1>1. /\ failures' = failures + 1 /\ Goto(c, "idle")
      /\ spoiled' = (spoiled \/ pc[c] \in Updates \ {"disableTree"})
      /\ settled' = IF Untouched' /\ ~spoiled' THEN table ELSE settled
      /\ table' = table /\ lastId' = lastId
  BY DEF CutShort
<1>2. "idle" \in Labels /\ "idle" \notin Busy BY DEF Labels, Busy, Moving
<1>3. /\ pc' \in [Clients -> Labels] /\ job' \in [Clients -> Job] /\ pc'[c] = "idle"
      /\ \A d \in Clients \ {c} : pc'[d] = pc[d] /\ job'[d] = job[d]
  BY <1>0, <1>1, <1>2, GotoSays
<1>4. TypeOK'
  <2>1. failures' \in Nat /\ settled' \in Tables /\ spoiled' \in BOOLEAN BY <1>0, <1>1, Types
  <2> QED BY <1>0, <1>1, <1>3, <2>1 DEF TypeOK, Labels, Tables
<1>5. RowsSoFar' BY <1>0, <1>1 DEF RowsSoFar, Present
<1>6. failures' # 0 BY <1>0, <1>1
<1>7. ASSUME ~spoiled' PROVE Sound'
  <2>1. Sound /\ pc[c] \notin Updates \ {"disableTree"} BY <1>1, <1>7 DEF TreeInv
  <2>2. CASE pc[c] \notin Busy
    <3>1. Untouched' => \A d \in Clients : pc[d] \notin Busy BY <1>2, <1>3, <2>2, UntouchedNext
    <3>2. settled' = settled BY <1>1, <2>1, <3>1 DEF Sound, AtRest
    <3> QED BY <1>1, <1>2, <1>3, <1>6, <2>1, <2>2, <3>2, TableStays
  <2>3. CASE pc[c] \in Busy
    <3>1. pc[c] \in {"insertRow", "closeGap"} BY <2>1, <2>3 DEF Busy, Moving, Updates
    <3>2. Nested(table) BY <2>1, <3>1 DEF Sound, AtInsert, AtClose, Whole
    <3>3. \A d \in Clients : pc'[d] \notin Busy
      BY <1>2, <1>3, <2>1, <2>3 DEF Sound, OneBusy
    <3>4. OneBusy' BY <3>3 DEF OneBusy
    <3>5. Fresh'
      <4> SUFFICES ASSUME NEW d \in Clients
                   PROVE  /\ pc'[d] = "makeRoom" => InsertRead(table', job'[d])
                          /\ pc'[d] = "deleteTree" => RowRead(table', job'[d])
                          /\ pc'[d] = "findParent" => NodeRead(table', job'[d])
                          /\ pc'[d] = "disableTree" => MoveRead(table', job'[d])
        BY DEF Fresh
      <4>1. CASE d = c BY <1>3, <4>1
      <4>2. CASE d # c BY <1>1, <1>3, <2>1, <4>2 DEF Sound, Fresh
      <4> QED BY <4>1, <4>2
    <3>6. AtRest'
      <4>1. settled' = table' BY <1>1, <1>3, <1>7, <3>3, UntouchedNext
      <4> QED BY <1>1, <1>6, <3>2, <4>1, Primes DEF AtRest
    <3>7. AtInsert' BY <3>3 DEF AtInsert, Busy
    <3>8. AtClose' BY <3>3 DEF AtClose, Busy
    <3>9. AtMove' BY <3>3 DEF AtMove, Busy
    <3> QED BY <3>4, <3>5, <3>6, <3>7, <3>8, <3>9 DEF Sound
  <2> QED BY <2>2, <2>3
<1> QED BY <1>4, <1>5, <1>7 DEF TreeInv

-----------------------------------------------------------------------------
LEMMA TreeStart == Init => TreeInv
<1> SUFFICES ASSUME Init PROVE TreeInv OBVIOUS
<1>1. TypeOK
  <2>1. table \in Tables /\ settled \in Tables BY DEF Init, Tables
  <2>2. pc \in [Clients -> Labels] /\ job \in [Clients -> Job] BY NoJobType DEF Init, Labels
  <2>3. lastId \in 0..MaxId /\ failures \in Nat
    <3>1. lastId = 0 /\ failures = 0 BY DEF Init
    <3> QED BY <3>1, TreeAssumption
  <2>4. spoiled \in BOOLEAN
    <3>1. spoiled = FALSE BY DEF Init
    <3> QED BY <3>1
  <2> QED BY <2>1, <2>2, <2>3, <2>4, Types
<1>2. Has(table) = {} BY DEF Init, Has
<1>3. RowsSoFar BY <1>2, Presence DEF RowsSoFar
<1>4. \A c \in Clients : pc[c] = "idle" BY DEF Init
<1>5. "idle" \notin Busy BY DEF Busy, Moving
<1>6. OneBusy /\ Fresh BY <1>4, <1>5 DEF OneBusy, Fresh
<1>7. AtInsert /\ AtClose /\ AtMove BY <1>4 DEF AtInsert, AtClose, AtMove, Moving
<1>8. Nested(table) BY <1>2 DEF Nested
<1>9. Filled(table, {})
  <2>1. FilledTo(table, {}, 0) BY <1>2 DEF FilledTo, Used
  <2> QED BY <2>1 DEF Filled
<1>10. settled = table BY DEF Init
<1> QED BY <1>1, <1>3, <1>6, <1>7, <1>8, <1>9, <1>10 DEF TreeInv, Sound, AtRest, Whole

LEMMA TreeStep == TreeInv /\ [Next]_vars => TreeInv'
<1> SUFFICES ASSUME TreeInv, [Next]_vars PROVE TreeInv' OBVIOUS
<1>1. CASE UNCHANGED vars
  <2>1. /\ table' = table /\ lastId' = lastId /\ pc' = pc /\ job' = job /\ failures' = failures
        /\ spoiled' = spoiled /\ settled' = settled
    BY <1>1 DEF vars
  <2>2. TypeOK' BY <2>1 DEF TreeInv, TypeOK
  <2>3. RowsSoFar' BY <2>1 DEF TreeInv, RowsSoFar, Present
  <2>4. ASSUME ~spoiled' PROVE Sound'
    <3>1. Sound BY <2>1, <2>4 DEF TreeInv
    <3>2. \A gap : Whole(table, gap) => Whole(table, gap)' BY <2>1 DEF Whole
    <3>3. AtMove'
      <4> SUFFICES ASSUME NEW d \in Clients, pc'[d] \in Moving
                   PROVE  \E before \in Tables : before = settled' /\ Midway(d, before)'
        BY DEF AtMove
      <4>1. PICK before \in Tables : before = settled /\ Midway(d, before)
        BY <2>1, <3>1 DEF Sound, AtMove
      <4>2. Midway(d, before)' BY <2>1, <4>1, MidwayStays
      <4> QED BY <2>1, <4>1, <4>2
    <3>4. AtInsert'
      <4> SUFFICES ASSUME NEW d \in Clients, pc'[d] = "insertRow"
                   PROVE  (/\ Whole(table, {job[d].right, job[d].right + 1}) /\ Room(table, job[d])
                           /\ SameForest(settled, table))'
        BY DEF AtInsert
      <4>1. /\ Whole(table, {job[d].right, job[d].right + 1}) /\ Room(table, job[d])
            /\ SameForest(settled, table)
        BY <2>1, <3>1 DEF Sound, AtInsert
      <4> QED BY <2>1, <4>1 DEF Whole
    <3>5. AtClose'
      <4> SUFFICES ASSUME NEW d \in Clients, pc'[d] = "closeGap"
                   PROVE  (/\ Whole(table, job[d].left..job[d].right) /\ Gap(table, job[d])
                           /\ Cleared(settled, table, job[d]))'
        BY DEF AtClose
      <4>1. /\ Whole(table, job[d].left..job[d].right) /\ Gap(table, job[d])
            /\ Cleared(settled, table, job[d])
        BY <2>1, <3>1 DEF Sound, AtClose
      <4> QED BY <2>1, <4>1 DEF Whole
    <3>6. OneBusy' /\ Fresh' BY <2>1, <3>1 DEF Sound, OneBusy, Fresh
    <3>7. AtRest' BY <2>1, <3>1, <3>2 DEF Sound, AtRest
    <3> QED BY <3>3, <3>4, <3>5, <3>6, <3>7 DEF Sound
  <2> QED BY <2>2, <2>3, <2>4 DEF TreeInv
<1>2. CASE Next
  <2>1. PICK c \in Clients :
          \/ \E p \in 0..MaxId : InsertFind(c, p)
          \/ MakeRoom(c) \/ MakeRoomFails(c) \/ InsertRow(c)
          \/ \E i \in Ids : RemoveFind(c, i)
          \/ DeleteTree(c) \/ CloseGap(c)
          \/ \E i \in Ids, p \in 0..MaxId : MoveFind(c, i, p)
          \/ ParentFind(c) \/ DisableTree(c) \/ RestrictFullTree(c) \/ AddFullTree(c)
          \/ BackNode(c) \/ UpdateID(c)
          \/ CutShort(c)
    BY <1>2 DEF Next
  <2>2. CASE \E p \in 0..MaxId : InsertFind(c, p) BY <2>2, AfterInsertFind
  <2>3. CASE MakeRoom(c) BY <2>3, AfterMakeRoom
  <2>4. CASE MakeRoomFails(c) BY <2>4, AfterMakeRoomFails
  <2>5. CASE InsertRow(c) BY <2>5, AfterInsertRow
  <2>6. CASE \E i \in Ids : RemoveFind(c, i) BY <2>6, AfterRemoveFind
  <2>7. CASE DeleteTree(c) BY <2>7, AfterDeleteTree
  <2>8. CASE CloseGap(c) BY <2>8, AfterCloseGap
  <2>9. CASE \E i \in Ids, p \in 0..MaxId : MoveFind(c, i, p) BY <2>9, AfterMoveFind
  <2>10. CASE ParentFind(c) BY <2>10, AfterParentFind
  <2>11. CASE DisableTree(c) BY <2>11, AfterDisableTree
  <2>12. CASE RestrictFullTree(c) BY <2>12, AfterRestrict
  <2>13. CASE AddFullTree(c) BY <2>13, AfterWiden
  <2>14. CASE BackNode(c) BY <2>14, AfterBackNode
  <2>15. CASE UpdateID(c) BY <2>15, AfterUpdateID
  <2>16. CASE CutShort(c) BY <2>16, AfterCutShort
  <2> QED BY <2>1, <2>2, <2>3, <2>4, <2>5, <2>6, <2>7, <2>8, <2>9, <2>10, <2>11, <2>12, <2>13,
             <2>14, <2>15, <2>16
<1> QED BY <1>1, <1>2

LEMMA SettledTree ==
  ASSUME TreeInv, Settled
  PROVE  table \in Tables /\ Nested(table) /\ (failures = 0 => Filled(table, {}))
<1>1. \A c \in Clients : pc[c] \notin Busy BY DEF Settled, Quiet, Busy, Moving
<1> QED BY <1>1, Types DEF TreeInv, Settled, Sound, AtRest, Whole

(* All variables keep to their types.                                      *)
THEOREM TreeTypes == Spec => []TypeOK
<1>1. TreeInv => TypeOK BY DEF TreeInv
<1> QED BY <1>1, TreeStart, TreeStep, PTL DEF Spec

(* Whenever no operation is under way, keys and parents describe the same  *)
(* tree, and the queries of nestedset.cpp give what the parents say: for   *)
(* any number of clients, rows and failures, unless a move was cut short   *)
(* or went into its own subtree, the first UPDATE of insert() failed, or   *)
(* two clients came between each other.                                    *)
THEOREM KeysTellParents == Spec => []KeysMatchParents
<1>1. TreeInv => KeysMatchParents
  <2> SUFFICES ASSUME TreeInv, Settled
               PROVE  KeysMatchParents
    BY DEF KeysMatchParents, NestingMatchesParents, QueriesAgree
  <2>1. table \in Tables /\ Nested(table) /\ (failures = 0 => Filled(table, {}))
    BY SettledTree
  <2>2. NestingMatchesParents BY <2>1, NestedAgrees DEF NestingMatchesParents
  <2>3. QueriesAgree BY <2>1, QueriesTell, LeavesTell DEF QueriesAgree
  <2> QED BY <2>2, <2>3 DEF KeysMatchParents
<1> QED BY <1>1, TreeStart, TreeStep, PTL DEF Spec

(* When besides no operation was cut short, the keys are 1..2n: insert(),  *)
(* remove() and move() leave neither gaps nor keys used twice.             *)
THEOREM KeysStayTight == Spec => []KeysTight
<1>1. TreeInv => KeysTight
  <2> SUFFICES ASSUME TreeInv, Settled, failures = 0
               PROVE  {table[i].left : i \in Present} \cup {table[i].right : i \in Present}
                        = 1..(2 * Cardinality(Present))
    BY DEF KeysTight
  <2> QED BY SettledTree, TwoKeysEach
<1> QED BY <1>1, TreeStart, TreeStep, PTL DEF Spec

-----------------------------------------------------------------------------
(* The table implements OrderedForest.                                     *)
Order(t) == {e \in Has(t) \X Has(t) : t[e[1]].left < t[e[2]].left}
Parents(t) == [i \in Ids |-> IF i \in Has(t) THEN t[i].parent ELSE 0]

LEMMA SeenForest == Kept = Has(settled) /\ KeptOrder = Order(settled) /\ KeptParents = Parents(settled)
BY DEF Kept, KeptOrder, KeptParents, Has, Order, Parents

LEMMA SeenNext ==
  ASSUME NEW u, settled' = u
  PROVE  Kept' = Has(u) /\ KeptOrder' = Order(u) /\ KeptParents' = Parents(u)
BY DEF Kept, KeptOrder, KeptParents, Has, Order, Parents

LEMMA SameSeen ==
  ASSUME NEW t, NEW u, SameForest(t, u)
  PROVE  Has(u) = Has(t) /\ Order(u) = Order(t) /\ Parents(u) = Parents(t)
<1>1. Has(u) = Has(t) BY DEF SameForest
<1>2. Order(u) = Order(t)
  <2>1. \A e \in Has(t) \X Has(t) : t[e[1]].left < t[e[2]].left <=> u[e[1]].left < u[e[2]].left
    BY DEF SameForest
  <2> QED BY <1>1, <2>1 DEF Order
<1>3. Parents(u) = Parents(t) BY <1>1 DEF Parents, SameForest
<1> QED BY <1>1, <1>2, <1>3

(* There is one family of a node.                                          *)
LEMMA FamilyIs ==
  ASSUME NEW t \in Tables, Nested(t), Kept = Has(t), KeptParents = Parents(t), NEW i \in Has(t)
  PROVE  Forest!Family(i) = Branch(t, i)
<1> DEFINE IsFamily(S) == \A k \in Has(t) : k \in S <=> k = i \/ KeptParents[k] \in S
<1>1. \A k \in Has(t) : k \in Ids /\ KeptParents[k] = t[k].parent BY DEF Has, Parents
<1>2. Branch(t, i) \in SUBSET Kept /\ IsFamily(Branch(t, i))
  BY <1>1, BranchTells DEF Branch
<1>3. ASSUME NEW S \in SUBSET Kept, IsFamily(S) PROVE S = Branch(t, i)
  <2> DEFINE B == Branch(t, i)
             D == {k \in Has(t) : ~(k \in S <=> k \in B)}
             L == {t[k].left : k \in D}
  <2>1. \A k \in Has(t) : t[k].left \in Nat BY Keys DEF Nested
  <2>2. ASSUME NEW k \in D
        PROVE  \E q \in D : t[q].left < t[k].left
    <3>1. k \in Has(t) /\ ~(k \in S <=> k \in B) OBVIOUS
    <3>2. (k \in S <=> k = i \/ t[k].parent \in S) /\ (k \in B <=> k = i \/ t[k].parent \in B)
      BY <1>1, <1>2, <1>3, <3>1
    <3>3. t[k].parent \in Has(t) /\ ~(t[k].parent \in S <=> t[k].parent \in B)
      BY <1>2, <3>1, <3>2
    <3>4. Encloses(t[t[k].parent], t[k]) BY <3>1, <3>3, NotZero DEF Nested
    <3> QED BY <3>3, <3>4 DEF Encloses
  <2>3. D = {}
    <3> SUFFICES ASSUME D # {} PROVE FALSE OBVIOUS
    <3>1. L \subseteq Nat /\ L # {} BY <2>1
    <3>2. IsWellFoundedOn(OpToRel(<, Nat), Nat) BY NatLessThanWellFounded
    <3> HIDE DEF L
    <3>3. PICK x \in L : \A y \in L : ~(<<y, x>> \in OpToRel(<, Nat)) BY <3>1, <3>2, WFMin
    <3>4. \A y \in L : ~(y < x) BY <3>1, <3>3 DEF OpToRel
    <3>5. PICK k \in D : x = t[k].left BY DEF L
    <3>6. PICK q \in D : t[q].left < t[k].left BY <2>2
    <3>7. t[q].left \in L BY DEF L
    <3> QED BY <3>4, <3>5, <3>6, <3>7
  <2> QED BY <1>2, <1>3, <2>3
<1>4. Forest!Family(i) = CHOOSE S \in SUBSET Kept : IsFamily(S)
  BY Zenon DEF Forest!Family
<1> HIDE DEF IsFamily
<1> QED BY <1>2, <1>3, <1>4

(* What comes after a node and its family.                                 *)
LEMMA BehindIs ==
  ASSUME NEW t \in Tables, Nested(t), Kept = Has(t), KeptOrder = Order(t), KeptParents = Parents(t),
         NEW p \in Has(t)
  PROVE  Forest!Behind(p) = {k \in Has(t) : t[p].right < t[k].left}
<1>1. Forest!Family(p) = Branch(t, p) BY FamilyIs
<1>2. p # 0 BY NotZero
<1>3. Forest!Behind(p) = {k \in Has(t) \ Branch(t, p) : <<p, k>> \in Order(t)}
  BY <1>1, <1>2, Zenon DEF Forest!Behind
<1>4. ASSUME NEW k \in Has(t)
      PROVE  k \notin Branch(t, p) /\ <<p, k>> \in Order(t) <=> t[p].right < t[k].left
  <2>1. <<p, k>> \in Order(t) <=> t[p].left < t[k].left BY DEF Order
  <2>2. k \in Branch(t, p) <=> t[p].left <= t[k].left /\ t[k].right <= t[p].right BY DEF Branch
  <2>3. CASE k = p BY <2>1, <2>2, <2>3, Keys DEF Nested
  <2>4. CASE k # p BY <2>1, <2>2, <2>4, Keys, Pairs
  <2> QED BY <2>3, <2>4
<1> QED BY <1>3, <1>4

(* A pair of nodes of the new order.                                       *)
LEMMA InOrder ==
  ASSUME NEW t, NEW i \in Has(t), NEW k \in Has(t)
  PROVE  <<i, k>> \in Order(t) <=> t[i].left < t[k].left
BY DEF Order

LEMMA SameOrder ==
  ASSUME NEW t, NEW Q, Q \subseteq Has(t) \X Has(t),
         \A i, k \in Has(t) : <<i, k>> \in Q <=> t[i].left < t[k].left
  PROVE  Order(t) = Q
BY DEF Order

(* In u the nodes of S come after those of rest that are not in B and      *)
(* before those that are; otherwise the order is O.                        *)
Placed(u, O, B, rest, S) ==
  /\ Has(u) = rest \cup S
  /\ \A i, k \in rest : <<i, k>> \in O <=> u[i].left < u[k].left
  /\ \A i, k \in S : <<i, k>> \in O <=> u[i].left < u[k].left
  /\ \A i \in rest, k \in S :
       /\ u[i].left < u[k].left <=> i \notin B
       /\ u[k].left < u[i].left <=> i \in B

LEMMA UnderIs ==
  ASSUME NEW u, NEW rest, NEW S, NEW p, rest \cap S = {},
         Placed(u, KeptOrder, Forest!Behind(p), rest, S)
  PROVE  Forest!Under(p, rest, S) = Order(u)
<1> DEFINE B == Forest!Behind(p)
           back == rest \cap B
           Q == (KeptOrder \cap (rest \X rest)) \cup (KeptOrder \cap (S \X S))
                  \cup ((rest \ back) \X S) \cup (S \X back)
<1>1. Forest!Under(p, rest, S) = Q BY Zenon DEF Forest!Under, Forest!Among
<1> HIDE DEF B
<1>2. Has(u) = rest \cup S BY DEF Placed
<1>3. Q \subseteq Has(u) \X Has(u) BY <1>2
<1>4. ASSUME NEW i \in Has(u), NEW k \in Has(u)
      PROVE  <<i, k>> \in Q <=> u[i].left < u[k].left
  <2>1. CASE i \in rest /\ k \in rest BY <2>1 DEF Placed
  <2>2. CASE i \in S /\ k \in S BY <2>2 DEF Placed
  <2>3. CASE i \in rest /\ k \in S
    <3>1. <<i, k>> \in Q <=> i \notin B BY <2>3
    <3> QED BY <2>3, <3>1 DEF Placed, B
  <2>4. CASE i \in S /\ k \in rest
    <3>1. <<i, k>> \in Q <=> k \in B BY <2>4
    <3> QED BY <2>4, <3>1 DEF Placed, B
  <2> QED BY <1>2, <2>1, <2>2, <2>3, <2>4
<1> HIDE DEF Q
<1>5. Order(u) = Q BY <1>3, <1>4, SameOrder
<1> QED BY <1>1, <1>5

(* What comes after the node under which insert() or move() puts another.  *)
After(t, p) == IF p = 0 THEN {} ELSE {k \in Has(t) : t[p].right < t[k].left}

LEMMA AfterIs ==
  ASSUME NEW t \in Tables, Nested(t), Kept = Has(t), KeptOrder = Order(t), KeptParents = Parents(t),
         NEW p \in Has(t) \cup {0}
  PROVE  Forest!Behind(p) = After(t, p)
<1>1. CASE p = 0 BY <1>1 DEF Forest!Behind, After
<1>2. CASE p # 0 BY <1>2, BehindIs DEF After
<1> QED BY <1>1, <1>2

(* The two keys of insert() are behind all below the parent.               *)
LEMMA RowPlaced ==
  ASSUME NEW t \in Tables, Nested(t), NEW j \in Job, Room(t, j),
         NEW n \in Ids, n \notin Has(t), NEW u, u = [t EXCEPT ![n] = NewRow(j)]
  PROVE  /\ Placed(u, Order(t), After(t, j.parent), Has(t), {n})
         /\ Parents(u) = [Parents(t) EXCEPT ![n] = j.parent]
<1> DEFINE p == j.parent
<1>1. /\ NewRow(j) \in Row /\ NewRow(j).left = j.right /\ NewRow(j).parent = p /\ j.right \in Int
  BY DEF NewRow, Row, Job
<1>2. Has(u) = Has(t) \cup {n} BY RowInserted
<1>3. u[n] = NewRow(j) /\ \A i \in Has(t) : u[i] = t[i] BY DEF Tables, Has
<1>4. ASSUME NEW i \in Has(t)
      PROVE  /\ t[i].left < j.right <=> i \notin After(t, p)
             /\ j.right < t[i].left <=> i \in After(t, p)
  <2>1. /\ t[i].left \in Int /\ t[i].right \in Int /\ t[i].left < t[i].right
        /\ t[i].left < j.right \/ t[i].left > j.right + 1
    BY Keys DEF Nested, Room
  <2>2. CASE p = 0
    <3>1. t[i].right < j.right BY <2>2 DEF Room
    <3> QED BY <1>1, <2>1, <2>2, <3>1 DEF After
  <2>3. CASE p # 0
    <3>1. p \in Has(t) /\ t[p].left < j.right /\ t[p].right = j.right + 2 BY <2>3 DEF Room
    <3>2. t[i].left # t[p].right
      <4>1. CASE i = p BY <1>1, <2>1, <3>1, <4>1
      <4>2. CASE i # p BY <3>1, <4>2, Keys, Pairs
      <4> QED BY <4>1, <4>2
    <3>3. i \in After(t, p) <=> j.right + 2 < t[i].left BY <2>3, <3>1 DEF After
    <3> QED BY <1>1, <2>1, <3>1, <3>2, <3>3
  <2> QED BY <2>2, <2>3
<1> HIDE DEF p
<1>5. \A i, k \in Has(t) : <<i, k>> \in Order(t) <=> u[i].left < u[k].left BY <1>3, InOrder
<1>6. <<n, n>> \notin Order(t) /\ ~(u[n].left < u[n].left) BY <1>1, <1>3 DEF Order
<1>7. Placed(u, Order(t), After(t, p), Has(t), {n}) BY <1>1, <1>2, <1>3, <1>4, <1>5, <1>6 DEF Placed
<1>8. Parents(u) = [Parents(t) EXCEPT ![n] = p]
  <2>1. u[n].parent = p BY <1>1, <1>3
  <2>2. \A i \in Has(t) : u[i].parent = t[i].parent BY <1>3
  <2>3. \A i \in Ids : Parents(u)[i] = [Parents(t) EXCEPT ![n] = p][i]
    <3> SUFFICES ASSUME NEW i \in Ids PROVE Parents(u)[i] = [Parents(t) EXCEPT ![n] = p][i] OBVIOUS
    <3>1. Parents(t) \in [Ids -> {Parents(t)[k] : k \in Ids}] BY DEF Parents
    <3>2. [Parents(t) EXCEPT ![n] = p][i] = IF i = n THEN p ELSE Parents(t)[i] BY <3>1
    <3>3. CASE i = n BY <1>2, <2>1, <3>2, <3>3 DEF Parents
    <3>4. CASE i # n BY <1>2, <2>2, <3>2, <3>4 DEF Parents
    <3> QED BY <3>3, <3>4
  <2>4. Parents(u) = [i \in Ids |-> Parents(u)[i]] BY DEF Parents
  <2>5. [Parents(t) EXCEPT ![n] = p] = [i \in Ids |-> [Parents(t) EXCEPT ![n] = p][i]] BY DEF Parents
  <2> QED BY <2>3, <2>4, <2>5
<1> QED BY <1>7, <1>8 DEF p

(* So are those move() gives the subtree.                                  *)
LEMMA TreePlaced ==
  ASSUME NEW t \in Tables, Nested(t), NEW j \in Job, MoveRead(t, j),
         j.parentRight < j.left \/ j.parentRight > j.right,
         NEW u, Relocated(t, u, j)
  PROVE  /\ j.id \in Has(t) /\ j.parent \in Has(t) \ Branch(t, j.id)
         /\ Placed(u, Order(t), After(t, j.parent), Has(t) \ Branch(t, j.id), Branch(t, j.id))
         /\ Has(u) = Has(t) /\ Parents(u) = [Parents(t) EXCEPT ![j.id] = j.parent]
<1> DEFINE q == j.parentRight
           p == j.parent
           S == Branch(t, j.id)
<1>1. GoodMove(j) /\ j.id \in Has(t) /\ p \in Has(t) /\ t[p].right = q
      /\ j.left = t[j.id].left /\ j.right = t[j.id].right
  BY Keys DEF MoveRead, NodeRead, GoodMove, Nested
<1>2. /\ Aim(j) \in Int /\ Span(j) \in Int /\ Jump(j) \in Int /\ 0 < Aim(j) /\ 1 < Span(j)
      /\ j.left \in Int /\ j.right \in Int /\ q \in Int
  BY <1>1, Places DEF GoodMove
<1>3. \A i \in Has(t) : t[i].left \in Int /\ t[i].right \in Int /\ 0 < t[i].left /\ t[i].left < t[i].right
  BY Keys DEF Nested
<1>4. \A i \in Has(t) : i \in S <=> Within(t[i], j) BY <1>1 DEF Branch, Within
<1>5. p \notin S BY <1>1, <1>2, <1>3, <1>4 DEF Within
<1>6. S \subseteq Has(t) BY DEF Branch
<1> HIDE DEF S, p, q
<1>7. ASSUME NEW i \in S
      PROVE  /\ u[i].left = Jump(j) + t[i].left
             /\ Aim(j) <= u[i].left /\ u[i].left < Aim(j) + Span(j)
  <2>1. u[i].left = Jump(j) + t[i].left BY <1>4, <1>6, <1>7 DEF Relocated
  <2>2. j.left <= t[i].left /\ t[i].left <= j.right BY <1>1, <1>4, <1>6, <1>7, OutsideKeys, <1>2, <1>3
  <2> QED BY <1>1, <1>3, <1>6, <2>1, <2>2, Places
<1>8. ASSUME NEW i \in Has(t) \ S
      PROVE  /\ u[i].left = Around(j, t[i].left) /\ u[i].left \in Int
             /\ t[i].left < j.left \/ t[i].left > j.right
             /\ t[i].left < q => u[i].left < Aim(j)
             /\ t[i].left >= q => u[i].left >= Aim(j) + Span(j)
  <2>1. u[i].left = Around(j, t[i].left) BY <1>4, <1>8 DEF Relocated
  <2>2. t[i].left < j.left \/ t[i].left > j.right BY <1>1, <1>4, <1>8, OutsideKeys
  <2> QED BY <1>1, <1>3, <2>1, <2>2, Places DEF q
<1>9. ASSUME NEW i \in Has(t) \ S PROVE i \in After(t, p) <=> t[i].left >= q
  <2>1. p # 0 BY <1>1, NotZero
  <2>2. t[i].left # q
    <3>1. CASE i = p BY <1>1, <1>3, <3>1
    <3>2. CASE i # p BY <1>1, <3>2, Keys, Pairs
    <3> QED BY <3>1, <3>2
  <2> QED BY <1>1, <1>2, <1>3, <2>1, <2>2 DEF After
<1>10. \A i, k \in Has(t) \ S : <<i, k>> \in Order(t) <=> u[i].left < u[k].left
  <2> SUFFICES ASSUME NEW i \in Has(t) \ S, NEW k \in Has(t) \ S
               PROVE  t[i].left < t[k].left <=> u[i].left < u[k].left
    BY InOrder
  <2>1. t[i].left < t[k].left => u[i].left < u[k].left BY <1>1, <1>3, <1>8, Places
  <2>2. t[k].left < t[i].left => u[k].left < u[i].left BY <1>1, <1>3, <1>8, Places
  <2>3. t[i].left = t[k].left => u[i].left = u[k].left BY <1>8
  <2>4. u[i].left \in Int /\ u[k].left \in Int /\ t[i].left \in Int /\ t[k].left \in Int BY <1>3, <1>8
  <2> QED BY ONLY <2>1, <2>2, <2>3, <2>4
<1>11. \A i, k \in S : <<i, k>> \in Order(t) <=> u[i].left < u[k].left
  <2> SUFFICES ASSUME NEW i \in S, NEW k \in S
               PROVE  t[i].left < t[k].left <=> u[i].left < u[k].left
    BY <1>6, InOrder
  <2> QED BY <1>2, <1>3, <1>6, <1>7
<1>12. \A i \in Has(t) \ S, k \in S :
         /\ u[i].left < u[k].left <=> i \notin After(t, p)
         /\ u[k].left < u[i].left <=> i \in After(t, p)
  <2> SUFFICES ASSUME NEW i \in Has(t) \ S, NEW k \in S
               PROVE  /\ u[i].left < u[k].left <=> i \notin After(t, p)
                      /\ u[k].left < u[i].left <=> i \in After(t, p)
    OBVIOUS
  <2>1. u[k].left \in Int /\ Aim(j) <= u[k].left /\ u[k].left < Aim(j) + Span(j)
    BY <1>2, <1>3, <1>6, <1>7
  <2>2. CASE t[i].left < q
    <3>1. i \notin After(t, p) /\ u[i].left < Aim(j) /\ u[i].left \in Int
      BY <1>2, <1>3, <1>8, <1>9, <2>2
    <3> QED BY <1>2, <2>1, <3>1
  <2>3. CASE ~(t[i].left < q)
    <3>1. i \in After(t, p) /\ u[i].left >= Aim(j) + Span(j) /\ u[i].left \in Int
      BY <1>2, <1>3, <1>8, <1>9, <2>3
    <3> QED BY <1>2, <2>1, <3>1
  <2> QED BY <2>2, <2>3
<1>13. Has(u) = Has(t) BY DEF Relocated
<1>14. Has(u) = (Has(t) \ S) \cup S BY <1>6, <1>13
<1>15. Placed(u, Order(t), After(t, p), Has(t) \ S, S) BY <1>10, <1>11, <1>12, <1>14 DEF Placed
<1>16. Parents(u) = [Parents(t) EXCEPT ![j.id] = p]
  <2>1. \A i \in Has(t) : u[i].parent = IF i = j.id THEN p ELSE t[i].parent BY DEF Relocated, p
  <2>2. j.id \in Ids BY <1>1 DEF Has
  <2> QED BY <1>1, <1>13, <2>1, <2>2 DEF Parents
<1> QED BY <1>1, <1>5, <1>13, <1>15, <1>16 DEF S, p

(* Closing a gap moves no row past another.                                *)
LEMMA GapForest ==
  ASSUME NEW t \in Tables, Nested(t), NEW j \in Job, Gap(t, j), NEW u, GapClosed(t, u, j)
  PROVE  SameForest(t, u)
<1>1. j.left \in Int /\ j.right \in Int /\ j.left < j.right /\ Span(j) = j.right - j.left + 1
  BY DEF Job, Gap, Span
<1>2. /\ Has(u) = Has(t)
      /\ \A i \in Has(t) :
           /\ u[i].parent = t[i].parent
           /\ u[i].left = IF t[i].right > j.right /\ t[i].left > j.left
                          THEN t[i].left - Span(j) ELSE t[i].left
  BY GapRows
<1>3. \A i \in Has(t) : /\ t[i].left \in Int /\ t[i].right \in Int /\ t[i].left < t[i].right
                        /\ t[i].left < j.left \/ t[i].left > j.right
  BY Keys DEF Nested, Gap
<1>4. \A i \in Has(t) : u[i].left = IF t[i].left > j.right THEN t[i].left - Span(j) ELSE t[i].left
  BY <1>1, <1>2, <1>3
<1>5. \A i, k \in Has(t) : t[i].left < t[k].left <=> u[i].left < u[k].left BY <1>1, <1>3, <1>4
<1> QED BY <1>2, <1>5 DEF SameForest

(* remove() has its effect, or its DELETE alone had.                       *)
LEMMA DropIs ==
  ASSUME settled \in Tables, NEW j \in Job, NEW u, Cleared(settled, u, j),
         NEW v, settled' = v, SameForest(u, v)
  PROVE  \E i \in Kept : Forest!Drop(i)
<1>1. PICK i \in Has(settled) : j.left = settled[i].left /\ j.right = settled[i].right
  BY DEF Cleared, RowRead
<1>2. Kept = Has(settled) /\ KeptOrder = Order(settled) /\ KeptParents = Parents(settled)
  BY SeenForest
<1>3. Kept' = Has(u) /\ KeptOrder' = Order(u) /\ KeptParents' = Parents(u)
  BY SeenNext, SameSeen
<1> DEFINE S == Branch(settled, i)
<1>4. Nested(settled) BY DEF Cleared
<1>5. Forest!Family(i) = S BY <1>2, <1>4, FamilyIs
<1>6. Has(u) = Has(settled) \ S /\ \A k \in Has(u) : u[k] = settled[k]
  BY <1>1 DEF Cleared, Branch, Within
<1> HIDE DEF S
<1>7. Order(u) = Order(settled) \cap ((Has(settled) \ S) \X (Has(settled) \ S))
  BY <1>6 DEF Order
<1>8. Parents(u) = [k \in Ids |-> IF k \in S THEN 0 ELSE Parents(settled)[k]]
  BY <1>6 DEF Parents
<1>9. Forest!Ids = Ids BY DEF Forest!Ids, Ids
<1>10. Forest!Drop(i) BY <1>2, <1>3, <1>5, <1>6, <1>7, <1>8, <1>9, Zenon DEF Forest!Drop, Forest!Among
<1> QED BY <1>1, <1>2, <1>10

(* insert() adds its row as the last below the parent.                     *)
LEMMA InsertIs ==
  ASSUME TreeInv, NEW c \in Clients, InsertRow(c), table' \in Tables, ~spoiled'
  PROVE  \E i \in Forest!Ids, p \in 0..MaxId : Forest!Insert(i, p)
<1> DEFINE j == job[c]
           n == lastId + 1
           p == j.parent
<1>0. TypeOK /\ table \in Tables /\ settled \in Tables /\ j \in Job /\ lastId \in 0..MaxId
  BY Types DEF TreeInv
<1>1. lastId < MaxId /\ table' = [table EXCEPT ![n] = NewRow(j)] /\ Statement(c, "insertRow", "idle")
  BY DEF InsertRow
<1>2. n \in Ids BY <1>0, <1>1, TreeAssumption DEF Ids
<1>3. n \notin Has(table) BY <1>0, Presence, Keys DEF TreeInv, RowsSoFar
<1>4. "idle" \in Labels /\ "idle" \notin Busy BY DEF Labels, Busy, Moving
<1>5. pc[c] = "insertRow" /\ Done(c, "idle") BY <1>0, <1>1, <1>4, StatementDone
<1>6. Sound /\ settled' = table' BY <1>4, <1>5 DEF Done, TreeInv
<1>7. Nested(table) /\ Room(table, j) /\ SameForest(settled, table)
  BY <1>5, <1>6 DEF Sound, AtInsert, Whole
<1>8. Kept = Has(table) /\ KeptOrder = Order(table) /\ KeptParents = Parents(table)
  BY <1>7, SeenForest, SameSeen
<1>9. Kept' = Has(table') /\ KeptOrder' = Order(table') /\ KeptParents' = Parents(table')
  BY <1>6, SeenNext
<1>11. p \in Has(table) \cup {0} /\ p \in 0..MaxId BY <1>0, <1>7, JobKeys DEF Room
<1>12. Forest!Behind(p) = After(table, p) BY <1>0, <1>7, <1>8, <1>11, AfterIs
<1>13. /\ Placed(table', Order(table), After(table, p), Has(table), {n})
       /\ Parents(table') = [Parents(table) EXCEPT ![n] = p]
  BY <1>0, <1>1, <1>2, <1>3, <1>7, RowPlaced
<1> HIDE DEF n, p
<1>10. Has(table') = Has(table) \cup {n} BY <1>13 DEF Placed
<1>14. Has(table) \cap {n} = {} BY <1>3
<1>15. Forest!Under(p, Has(table), {n}) = Order(table') BY <1>8, <1>12, <1>13, <1>14, UnderIs
<1>16. Forest!Insert(n, p)
  BY <1>3, <1>8, <1>9, <1>10, <1>11, <1>13, <1>15, Zenon DEF Forest!Insert
<1>17. Forest!Ids = Ids BY DEF Forest!Ids, Ids
<1> QED BY <1>2, <1>11, <1>16, <1>17

(* move() makes the subtree the last below the new parent.                 *)
LEMMA MoveIs ==
  ASSUME TreeInv, NEW c \in Clients, UpdateID(c), ~spoiled'
  PROVE  \E i \in Kept, p \in Kept : Forest!Move(i, p)
<1> DEFINE j == job[c]
<1>0. TypeOK /\ table \in Tables /\ settled \in Tables /\ j \in Job /\ pc \in [Clients -> Labels]
  BY Types DEF TreeInv
<1>1. /\ pc[c] = "updateID" /\ Goto(c, "idle") /\ ~spoiled /\ ~Inside(c)
      /\ \A d \in Clients \ {c} : pc[d] = "idle"
      /\ settled' = IF Untouched' /\ ~spoiled' THEN table' ELSE settled
  BY DEF UpdateID
<1>2. "idle" \in Labels /\ "idle" \notin Busy /\ "updateID" \in Moving BY DEF Labels, Busy, Moving
<1>3. /\ pc' \in [Clients -> Labels] /\ pc'[c] = "idle"
      /\ \A d \in Clients \ {c} : pc'[d] = pc[d]
  BY <1>0, <1>1, <1>2, GotoSays
<1>4. settled' = table' BY <1>1, <1>2, <1>3, UntouchedNext
<1>5. PICK before \in Tables : before = settled /\ Midway(c, before)
  BY <1>1, <1>2 DEF TreeInv, Sound, AtMove
<1>6. /\ Nested(settled) /\ MoveRead(settled, j) /\ Relocated(settled, table', j)
      /\ j.parentRight < j.left \/ j.parentRight > j.right
  BY <1>0, <1>1, <1>5, MoveLands
<1>7. Kept = Has(settled) /\ KeptOrder = Order(settled) /\ KeptParents = Parents(settled)
  BY SeenForest
<1>8. Kept' = Has(table') /\ KeptOrder' = Order(table') /\ KeptParents' = Parents(table')
  BY <1>4, SeenNext
<1> DEFINE i == j.id
           p == j.parent
           S == Branch(settled, i)
<1>9. /\ i \in Has(settled) /\ p \in Has(settled) \ S
      /\ Placed(table', Order(settled), After(settled, p), Has(settled) \ S, S)
      /\ Has(table') = Has(settled) /\ Parents(table') = [Parents(settled) EXCEPT ![i] = p]
  BY <1>0, <1>6, TreePlaced
<1>10. Forest!Family(i) = S BY <1>0, <1>6, <1>7, <1>9, FamilyIs
<1>11. Forest!Behind(p) = After(settled, p) BY <1>0, <1>6, <1>7, <1>9, AfterIs
<1> HIDE DEF i, p, S
<1>12. (Has(settled) \ S) \cap S = {} OBVIOUS
<1>13. Forest!Under(p, Has(settled) \ S, S) = Order(table') BY <1>7, <1>9, <1>11, <1>12, UnderIs
<1>14. Forest!Move(i, p) BY <1>7, <1>8, <1>9, <1>10, <1>13, Zenon DEF Forest!Move
<1> QED BY <1>7, <1>9, <1>14

(* What a client reads or has to do changes nothing of the forest.         *)
Seen == <<Kept, KeptOrder, KeptParents>>

LEMMA SeenStays ==
  ASSUME settled' = settled
  PROVE  UNCHANGED Seen
<1>1. Kept' = Kept /\ KeptOrder' = KeptOrder /\ KeptParents' = KeptParents
  BY SeenForest, SeenNext
<1> QED BY <1>1 DEF Seen

LEMMA SeenSame ==
  ASSUME SameForest(settled, settled')
  PROVE  UNCHANGED Seen
<1>1. Kept' = Kept /\ KeptOrder' = KeptOrder /\ KeptParents' = KeptParents
  BY SeenForest, SeenNext, SameSeen
<1> QED BY <1>1 DEF Seen

(* Nor does a statement after which the operation still has to change rows.*)
LEMMA BusyStays ==
  ASSUME TypeOK, table' \in Tables, NEW c \in Clients, NEW from, NEW to \in Busy, Statement(c, from, to)
  PROVE  UNCHANGED Seen
<1>1. to \in Labels BY DEF Busy, Moving, Labels, Updates
<1>2. settled' = settled BY <1>1, StatementDone DEF Done
<1> QED BY <1>2, SeenStays

LEMMA GapIs ==
  ASSUME TreeInv, NEW c \in Clients, CloseGap(c), table' \in Tables
  PROVE  (\E i \in Kept : Forest!Drop(i)) \/ UNCHANGED Seen
<1>0. TypeOK /\ table \in Tables /\ settled \in Tables /\ job[c] \in Job BY Types DEF TreeInv
<1>1. GapClosed(table, table', job[c]) BY GapIsClosed
<1>2. Statement(c, "closeGap", "idle") BY DEF CloseGap
<1>3. "idle" \in Labels /\ "idle" \notin Busy BY DEF Labels, Busy, Moving
<1>4. pc[c] = "closeGap" /\ Done(c, "idle") BY <1>0, <1>2, <1>3, StatementDone
<1>5. CASE spoiled'
  <2>1. settled' = settled BY <1>4, <1>5 DEF Done
  <2> QED BY <2>1, SeenStays
<1>6. CASE ~spoiled'
  <2>1. Sound /\ settled' = table' BY <1>3, <1>4, <1>6 DEF Done, TreeInv
  <2>2. Nested(table) /\ Gap(table, job[c]) /\ Cleared(settled, table, job[c])
    BY <1>4, <2>1 DEF Sound, AtClose, Whole
  <2>3. SameForest(table, table') BY <1>0, <1>1, <2>2, GapForest
  <2> QED BY <1>0, <2>1, <2>2, <2>3, DropIs
<1> QED BY <1>5, <1>6

(* What an operation that goes no further has done so far.                 *)
LEMMA CutIs ==
  ASSUME TreeInv, NEW c \in Clients, CutShort(c)
  PROVE  (\E i \in Kept : Forest!Drop(i)) \/ UNCHANGED Seen
<1>0. /\ TypeOK /\ table \in Tables /\ settled \in Tables /\ job[c] \in Job
      /\ pc \in [Clients -> Labels] /\ pc[c] \in Labels
  BY Types DEF TreeInv
<1>1. /\ Goto(c, "idle")
      /\ spoiled' = (spoiled \/ pc[c] \in Updates \ {"disableTree"})
      /\ settled' = IF Untouched' /\ ~spoiled' THEN table ELSE settled
  BY DEF CutShort
<1>2. "idle" \in Labels /\ "idle" \notin Busy BY DEF Labels, Busy, Moving
<1>3. pc' \in [Clients -> Labels] /\ \A d \in Clients \ {c} : pc'[d] = pc[d] BY <1>0, <1>1, <1>2, GotoSays
<1>4. CASE settled' = settled BY <1>4, SeenStays
<1>5. CASE settled' # settled
  <2>1. Untouched' /\ ~spoiled' /\ settled' = table BY <1>1, <1>5
  <2>2. Sound /\ pc[c] \notin Updates \ {"disableTree"} BY <1>1, <2>1 DEF TreeInv
  <2>3. \A d \in Clients : pc'[d] \notin Busy BY <1>3, <2>1, UntouchedNext
  <2>4. CASE pc[c] \notin Busy
    <3>1. \A d \in Clients : pc[d] \notin Busy BY <1>3, <2>3, <2>4
    <3> QED BY <1>5, <2>1, <2>2, <3>1 DEF Sound, AtRest
  <2>5. CASE pc[c] = "insertRow"
    <3>1. SameForest(settled, settled') BY <2>1, <2>2, <2>5 DEF Sound, AtInsert
    <3> QED BY <3>1, SeenSame
  <2>6. CASE pc[c] = "closeGap"
    <3>1. Cleared(settled, table, job[c]) BY <2>2, <2>6 DEF Sound, AtClose
    <3>2. SameForest(table, table) BY DEF SameForest
    <3> QED BY <1>0, <2>1, <3>1, <3>2, DropIs
  <2>7. pc[c] \in Busy => pc[c] \in {"insertRow", "closeGap"} BY <2>2 DEF Busy, Moving, Updates
  <2> QED BY <2>4, <2>5, <2>6, <2>7
<1> QED BY <1>4, <1>5

LEMMA ForestStart == Init => Forest!Init
<1> SUFFICES ASSUME Init PROVE Forest!Init OBVIOUS
<1>1. Has(settled) = {} BY DEF Init, Has
<1>2. Order(settled) = {} /\ Parents(settled) = [i \in Ids |-> 0] BY <1>1 DEF Order, Parents
<1>3. Forest!Ids = Ids BY DEF Forest!Ids, Ids
<1> QED BY <1>1, <1>2, <1>3, SeenForest, Zenon DEF Forest!Init

LEMMA ForestStep == TreeInv /\ TreeInv' /\ [Next]_vars => [Forest!Next]_Seen
<1> SUFFICES ASSUME TreeInv, TreeInv', [Next]_vars PROVE [Forest!Next]_Seen OBVIOUS
<1>0. TypeOK /\ table' \in Tables
  <2>1. TypeOK' => table' \in Tables BY DEF TypeOK, Tables, Row, Ids
  <2> QED BY <2>1 DEF TreeInv
<1>1. ASSUME settled' = settled PROVE UNCHANGED Seen BY <1>1, SeenStays
<1>2. {"insertRow", "closeGap"} \cup Moving \subseteq Busy BY DEF Busy
<1>3. CASE UNCHANGED vars BY <1>1, <1>3 DEF vars
<1>4. CASE Next
  <2>1. PICK c \in Clients :
          \/ \E p \in 0..MaxId : InsertFind(c, p)
          \/ MakeRoom(c) \/ MakeRoomFails(c) \/ InsertRow(c)
          \/ \E i \in Ids : RemoveFind(c, i)
          \/ DeleteTree(c) \/ CloseGap(c)
          \/ \E i \in Ids, p \in 0..MaxId : MoveFind(c, i, p)
          \/ ParentFind(c) \/ DisableTree(c) \/ RestrictFullTree(c) \/ AddFullTree(c)
          \/ BackNode(c) \/ UpdateID(c)
          \/ CutShort(c)
    BY <1>4 DEF Next
  <2>2. CASE \E p \in 0..MaxId : InsertFind(c, p) BY <1>1, <2>2 DEF InsertFind, Read
  <2>3. CASE \E i \in Ids : RemoveFind(c, i) BY <1>1, <2>3 DEF RemoveFind, Read
  <2>4. CASE \E i \in Ids, p \in 0..MaxId : MoveFind(c, i, p) BY <1>1, <2>4 DEF MoveFind, Read
  <2>5. CASE ParentFind(c) \/ MakeRoomFails(c) BY <1>1, <2>5 DEF ParentFind, MakeRoomFails
  <2>6. CASE MakeRoom(c) BY <1>0, <1>2, <2>6, BusyStays DEF MakeRoom
  <2>7. CASE DeleteTree(c) BY <1>0, <1>2, <2>7, BusyStays DEF DeleteTree
  <2>8. CASE DisableTree(c)
    <3>1. Statement(c, "disableTree", "restrictLeft") BY <2>8 DEF DisableTree
    <3> QED BY <1>0, <1>2, <3>1, BusyStays DEF Moving
  <2>9. CASE RestrictFullTree(c) \/ AddFullTree(c)
    <3>1. PICK from, to \in Moving : Statement(c, from, to)
      BY <2>9 DEF RestrictFullTree, AddFullTree, Moving
    <3> QED BY <1>0, <1>2, <3>1, BusyStays
  <2>10. CASE BackNode(c)
    <3>1. Statement(c, "backNode", "updateID") BY <2>10 DEF BackNode
    <3> QED BY <1>0, <1>2, <3>1, BusyStays DEF Moving
  <2>11. CASE InsertRow(c)
    <3>1. CASE spoiled'
      <4>1. settled' = settled BY <2>11, <3>1 DEF InsertRow, Statement
      <4> QED BY <1>1, <4>1
    <3>2. CASE ~spoiled'
      <4>1. \E i \in Forest!Ids, p \in 0..MaxId : Forest!Insert(i, p) BY <1>0, <2>11, <3>2, InsertIs
      <4> QED BY <4>1, Zenon DEF Forest!Next
    <3> QED BY <3>1, <3>2
  <2>12. CASE UpdateID(c)
    <3>1. CASE spoiled'
      <4>1. settled' = settled BY <2>12, <3>1 DEF UpdateID
      <4> QED BY <1>1, <4>1
    <3>2. CASE ~spoiled'
      <4>1. \E i \in Kept, p \in Kept : Forest!Move(i, p) BY <2>12, <3>2, MoveIs
      <4> QED BY <4>1, Zenon DEF Forest!Next
    <3> QED BY <3>1, <3>2
  <2>13. CASE CloseGap(c) \/ CutShort(c)
    <3>1. (\E i \in Kept : Forest!Drop(i)) \/ UNCHANGED Seen BY <1>0, <2>13, GapIs, CutIs
    <3> QED BY <3>1, Zenon DEF Forest!Next
  <2> QED BY <2>1, <2>2, <2>3, <2>4, <2>5, <2>6, <2>7, <2>8, <2>9, <2>10, <2>11, <2>12, <2>13
<1> QED BY <1>3, <1>4

(* The table implements OrderedForest: seen only when no operation has     *)
(* begun to change rows, each insert(), remove() and move() has its one    *)
(* effect on the forest, a failed one none or, once remove() has deleted,  *)
(* its whole effect, for any number of clients, rows and failures, until a *)
(* tree is spoiled.                                                        *)
THEOREM TreeRefines == Spec => RefinesOrderedForest
<1> QED BY ForestStart, ForestStep, TreeStart, TreeStep, PTL DEF Spec, RefinesOrderedForest, Forest!Spec, Seen
=============================================================================
