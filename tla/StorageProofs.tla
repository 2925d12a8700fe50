---------------------------- MODULE StorageProofs ----------------------------
(***************************************************************************)
(* What holds of what the program keeps outside itself, for any number of  *)
(* threads, connections, queries, rows and objects, pages, builds, columns *)
(* and restarts: the database layer (sql/sqldatabase.cpp, sql/sqlquery.cpp *)
(* keep threads apart, sql/sqlizable.cpp keeps an object with its row), the*)
(* translation file of templator/translatorhelper.cpp, the toolkit that    *)
(* gets a build its Qt, and the patcher of tables (sql/dbpatcher.cpp).     *)
(***************************************************************************)
EXTENDS SqlConnections, ObjectMapping, Toolkit, Translations, SchemaPatch, SequenceTheorems, FiniteSetTheorems,
        WellFoundedInduction, TLAPS

-----------------------------------------------------------------------------
(* For any number of threads, handles, connections and queries, a query    *)
(* works on a connection of its own thread.  The property is not           *)
(* inductive: a handle's connection must be known to be of the thread that *)
(* has the handle now, which holds because a worker closes before it ends, *)
(* and threads must be known by different numbers.                         *)

(* Threads have numbers of their own. *)
ThreadsApart ==
  /\ threads \in Nat
  /\ thread \in [Handles -> Nat]
  /\ \A h \in Handles : thread[h] <= threads
  /\ \A g, h \in Handles : g # h /\ thread[g] # 0 => thread[g] # thread[h]

(* What a handle has open, the thread that has the handle opened. *)
OpenedHere ==
  /\ opener \in Seq(Nat)
  /\ database \in [Handles -> Nat]
  /\ \A h \in Handles : database[h] # 0 =>
       /\ database[h] \in 1..Len(opener)
       /\ opener[database[h]] = thread[h] /\ Runs(h)

(* A query belongs to a thread that runs, and until that thread closes,    *)
(* works on its connection.                                                *)
QueriesAtWork ==
  /\ DOMAIN query = Queries
  /\ \A q \in Queries : query[q] # Unmade =>
       /\ query[q] \in [by : Nat, conn : Nat, there : BOOLEAN, closed : BOOLEAN]
       /\ query[q].conn \in 1..Len(opener)
       /\ \E h \in Handles :
            /\ Runs(h) /\ query[q].by = thread[h]
            /\ ~query[q].closed => query[q].conn = database[h]

ConnectionsInv == ThreadsApart /\ OpenedHere /\ QueriesAtWork /\ OwnConnection

LEMMA ConnectionsStart == DatabaseInit => ConnectionsInv
BY DEF DatabaseInit, ConnectionsInv, ThreadsApart, OpenedHere, QueriesAtWork, OwnConnection, Unmade, Runs

(* Every action keeps the invariant. *)
LEMMA ConnectionsStep == ConnectionsInv /\ [DatabaseNext]_connections => ConnectionsInv'
<1> SUFFICES ASSUME ConnectionsInv, [DatabaseNext]_connections PROVE ConnectionsInv' OBVIOUS
<1> USE DEF ConnectionsInv
<1>1. ASSUME NEW h \in Handles, StartThread(h) PROVE ConnectionsInv'
  <2> USE <1>1 DEF StartThread, Runs
  <2>1. ThreadsApart'
    <3>1. \A g \in Handles : thread'[g] = IF g = h THEN threads + 1 ELSE thread[g]
      BY DEF ThreadsApart
    <3> QED BY <3>1 DEF ThreadsApart
  <2>2. OpenedHere' BY DEF OpenedHere, ThreadsApart
  <2>3. QueriesAtWork' BY DEF QueriesAtWork, ThreadsApart
  <2>4. OwnConnection' BY DEF OwnConnection
  <2> QED BY <2>1, <2>2, <2>3, <2>4
<1>2. ASSUME NEW h \in Handles, NEW q \in Queries, SqlQuery(h, q) PROVE ConnectionsInv'
  <2> USE DEF Runs
  <2>1. /\ Runs(h) /\ query[q] = Unmade /\ UNCHANGED <<thread, threads>>
        /\ query' = [query EXCEPT ![q] =
             [by |-> thread[h], conn |-> database'[h], there |-> TRUE, closed |-> FALSE]]
    BY <1>2 DEF SqlQuery, Id
  <2>2. ThreadsApart' BY <2>1 DEF ThreadsApart
  <2>3. /\ OpenedHere' /\ database'[h] # 0 /\ Len(opener') >= Len(opener)
        /\ \A i \in 1..Len(opener) : opener'[i] = opener[i]
        /\ \A g \in Handles : database[g] # 0 => database'[g] = database[g]
    <3>1. CASE database[h] # 0
      <4>1. UNCHANGED <<database, opener>> BY <1>2, <3>1 DEF SqlQuery, Open, Id
      <4> QED BY <2>1, <3>1, <4>1 DEF OpenedHere
    <3>2. CASE database[h] = 0
      <4>1. /\ opener' = Append(opener, thread[h])
            /\ database' = [database EXCEPT ![h] = Len(opener) + 1]
        BY <1>2, <3>2 DEF SqlQuery, Open, Id
      <4>2. /\ opener' \in Seq(Nat) /\ Len(opener') = Len(opener) + 1
            /\ opener'[Len(opener) + 1] = thread[h]
            /\ \A i \in 1..Len(opener) : opener'[i] = opener[i]
        BY <4>1 DEF OpenedHere, ThreadsApart
      <4>3. database' \in [Handles -> Nat] /\ database'[h] = Len(opener) + 1
        BY <4>1 DEF OpenedHere
      <4> QED BY <2>1, <3>2, <4>1, <4>2, <4>3 DEF OpenedHere
    <3> QED BY <3>1, <3>2
  <2>4. database'[h] \in 1..Len(opener') /\ opener'[database'[h]] = thread[h]
    BY <2>1, <2>3 DEF OpenedHere
  <2>5. QueriesAtWork'
    <3>1. query'[q] = [by |-> thread[h], conn |-> database'[h], there |-> TRUE, closed |-> FALSE]
      BY <2>1 DEF QueriesAtWork
    <3>2. query'[q] \in [by : Nat, conn : Nat, there : BOOLEAN, closed : BOOLEAN]
      BY <3>1, <2>3 DEF ThreadsApart, OpenedHere
    <3>3. ASSUME NEW p \in Queries, p # q, query[p] # Unmade
          PROVE /\ query'[p] = query[p] /\ query[p].conn \in 1..Len(opener')
                /\ \E g \in Handles : /\ Runs(g) /\ query[p].by = thread[g]
                                      /\ ~query[p].closed => query[p].conn = database'[g]
      <4>1. query'[p] = query[p] BY <2>1, <3>3 DEF QueriesAtWork
      <4>2. PICK g \in Handles : /\ Runs(g) /\ query[p].by = thread[g]
                                 /\ ~query[p].closed => query[p].conn = database[g]
        BY <3>3 DEF QueriesAtWork
      <4>3. query[p].conn \in 1..Len(opener) BY <3>3 DEF QueriesAtWork
      <4>4. ~query[p].closed => database'[g] = database[g]
        BY <2>3, <4>2, <4>3 DEF OpenedHere
      <4>5. query[p].conn \in 1..Len(opener') BY <2>3, <4>3 DEF OpenedHere
      <4> QED BY <4>1, <4>2, <4>4, <4>5
    <3>4. \A p \in Queries : p # q => query'[p] = query[p] BY <2>1 DEF QueriesAtWork
    <3>5. DOMAIN query' = Queries BY <2>1 DEF QueriesAtWork
    <3> QED BY <2>1, <2>4, <3>1, <3>2, <3>3, <3>4, <3>5 DEF QueriesAtWork
  <2>6. OwnConnection'
    <3>1. query'[q] = [by |-> thread[h], conn |-> database'[h], there |-> TRUE, closed |-> FALSE]
      BY <2>1 DEF QueriesAtWork
    <3>2. \A p \in Queries : p # q => query'[p] = query[p] BY <2>1 DEF QueriesAtWork
    <3> QED BY <2>3, <2>4, <3>1, <3>2 DEF OwnConnection, QueriesAtWork
  <2> QED BY <2>2, <2>3, <2>5, <2>6
<1>3. ASSUME NEW q \in Queries, DestroyQuery(q) PROVE ConnectionsInv'
  <2> USE <1>3 DEF DestroyQuery, Runs
  <2>1. ThreadsApart' BY DEF ThreadsApart
  <2>2. OpenedHere' BY DEF OpenedHere
  <2>3. \A p \in Queries : query'[p] = IF p = q THEN Unmade ELSE query[p] BY DEF QueriesAtWork
  <2>4. QueriesAtWork' BY <2>3 DEF QueriesAtWork
  <2>5. OwnConnection' BY <2>3 DEF OwnConnection
  <2> QED BY <2>1, <2>2, <2>4, <2>5
<1>4. ASSUME NEW h \in Handles, CloseDatabase(h) PROVE ConnectionsInv'
  <2> USE DEF Runs
  <2>1. /\ Runs(h) /\ database' = [database EXCEPT ![h] = 0]
        /\ query' = [q \in Queries |-> Removed(h, q)]
        /\ UNCHANGED <<thread, threads, opener>>
    BY <1>4 DEF CloseDatabase, Id
  <2>2. ThreadsApart' BY <2>1 DEF ThreadsApart
  <2>3. /\ database' \in [Handles -> Nat] /\ database'[h] = 0
        /\ \A g \in Handles : g # h => database'[g] = database[g]
    BY <2>1 DEF OpenedHere
  <2>4. OpenedHere' BY <2>1, <2>3 DEF OpenedHere
  <2>5. \A q \in Queries : query[q] = Unmade => query'[q] = Unmade
    BY <2>1 DEF Removed
  <2>6. ASSUME NEW q \in Queries, query[q] # Unmade
        PROVE /\ query'[q] \in [by : Nat, conn : Nat, there : BOOLEAN, closed : BOOLEAN]
              /\ query'[q].by = query[q].by /\ query'[q].conn = query[q].conn
              /\ query'[q].there <=> query[q].there /\ query[q].conn # database[h]
              /\ query'[q].closed <=> query[q].closed \/ query[q].by = thread[h]
    <3>1. query'[q] = [query[q] EXCEPT !.there = @ /\ query[q].conn # database[h],
                                       !.closed = @ \/ query[q].by = thread[h]]
      BY <2>1, <2>6 DEF Removed, Id
    <3>2. query[q] \in [by : Nat, conn : Nat, there : BOOLEAN, closed : BOOLEAN]
      BY <2>6 DEF QueriesAtWork
    <3> QED BY <3>1, <3>2
  <2>7. ASSUME NEW q \in Queries, query[q] # Unmade, ~query'[q].closed, NEW g \in Handles,
               Runs(g), query[q].by = thread[g], ~query[q].closed => query[q].conn = database[g]
        PROVE /\ g # h /\ ~query[q].closed
              /\ query[q].conn = database[g] /\ database'[g] = database[g]
              /\ query[q].conn # database[h]
    <3>1. ~query[q].closed /\ query[q].by # thread[h] BY <2>6, <2>7
    <3>2. query[q].conn \in 1..Len(opener) BY <2>7 DEF QueriesAtWork
    <3>3. opener[query[q].conn] = query[q].by BY <2>7, <3>1 DEF OwnConnection
    <3>4. query[q].conn # database[h]
      <4> SUFFICES ASSUME query[q].conn = database[h] PROVE FALSE OBVIOUS
      <4>1. database[h] # 0 BY <3>2, SMT DEF OpenedHere
      <4>2. opener[database[h]] = thread[h] BY <4>1 DEF OpenedHere
      <4> QED BY <4>2, <3>3, <3>1
    <3> QED BY <2>3, <2>7, <3>1, <3>4
  <2>8. QueriesAtWork'
    <3>1. DOMAIN query' = Queries BY <2>1
    <3>2. ASSUME NEW q \in Queries, query'[q] # Unmade
          PROVE /\ query'[q] \in [by : Nat, conn : Nat, there : BOOLEAN, closed : BOOLEAN]
                /\ query'[q].conn \in 1..Len(opener')
                /\ \E g \in Handles : /\ Runs(g)' /\ query'[q].by = thread'[g]
                                      /\ ~query'[q].closed => query'[q].conn = database'[g]
      <4>1. query[q] # Unmade BY <2>5, <3>2
      <4>2. PICK g \in Handles : /\ Runs(g) /\ query[q].by = thread[g]
                                 /\ ~query[q].closed => query[q].conn = database[g]
        BY <4>1 DEF QueriesAtWork
      <4>3. ~query'[q].closed => query'[q].conn = database'[g] BY <2>6, <2>7, <4>1, <4>2
      <4>4. query[q].conn \in 1..Len(opener) BY <4>1 DEF QueriesAtWork
      <4> QED BY <2>1, <2>6, <4>1, <4>2, <4>3, <4>4
    <3> QED BY <3>1, <3>2 DEF QueriesAtWork
  <2>9. OwnConnection'
    <3> SUFFICES ASSUME NEW q \in Queries, query'[q] # Unmade, ~query'[q].closed
                 PROVE query'[q].there /\ opener'[query'[q].conn] = query'[q].by
      BY DEF OwnConnection
    <3>1. query[q] # Unmade BY <2>5
    <3>2. PICK g \in Handles : /\ Runs(g) /\ query[q].by = thread[g]
                               /\ ~query[q].closed => query[q].conn = database[g]
      BY <3>1 DEF QueriesAtWork
    <3>3. ~query[q].closed /\ query[q].conn # database[h] BY <2>7, <3>1, <3>2
    <3>4. query[q].there /\ opener[query[q].conn] = query[q].by
      BY <3>1, <3>3 DEF OwnConnection
    <3> QED BY <2>1, <2>6, <3>1, <3>3, <3>4
  <2> QED BY <2>2, <2>4, <2>8, <2>9
<1>5. ASSUME NEW h \in Handles, Finish(h) PROVE ConnectionsInv'
  <2> USE DEF Runs
  <2>1. /\ Runs(h) /\ \A q \in Queries : query[q].by # thread[h]
        /\ thread' \in {thread, [thread EXCEPT ![h] = 0]}
        /\ database' = [database EXCEPT ![h] = 0]
        /\ UNCHANGED <<threads, opener, query>>
    BY <1>5 DEF Finish, Done, Id
  <2>2. /\ \A g \in Handles : g # h => thread'[g] = thread[g] /\ database'[g] = database[g]
        /\ thread'[h] \in {thread[h], 0} /\ database'[h] = 0
        /\ thread' \in [Handles -> Nat] /\ database' \in [Handles -> Nat]
    BY <2>1 DEF ThreadsApart, OpenedHere
  <2>3. ThreadsApart' BY <2>1, <2>2 DEF ThreadsApart
  <2>4. OpenedHere' BY <2>1, <2>2 DEF OpenedHere
  <2>5. QueriesAtWork' BY <2>1, <2>2 DEF QueriesAtWork
  <2>6. OwnConnection' BY <2>1 DEF OwnConnection
  <2> QED BY <2>3, <2>4, <2>5, <2>6
<1>6. CASE UNCHANGED connections
  BY <1>6 DEF connections, ThreadsApart, OpenedHere, QueriesAtWork, OwnConnection, Runs
<1> QED BY <1>1, <1>2, <1>3, <1>4, <1>5, <1>6 DEF DatabaseNext

(* Whatever threads come and go under whatever handles, and whoever closes  *)
(* a connection under a query: a query works on a connection its thread    *)
(* has opened, until that thread itself closes it.                         *)
THEOREM ConnectionsApart == DatabaseSpec => []OwnConnection
<1>1. ConnectionsInv => OwnConnection BY DEF ConnectionsInv
<1> QED BY <1>1, ConnectionsStart, ConnectionsStep, PTL DEF DatabaseSpec

-----------------------------------------------------------------------------
(* For any number of workers, rows, fields and values, an object's key     *)
(* names the row it was inserted as or read from, or none.  The property   *)
(* is not inductive: that no other row takes the key of one that is gone   *)
(* rests on the counter of the table being above every key that was ever   *)
(* given out, and so above every key an object remembers.                  *)

MappingTypes ==
  /\ rows \in [Ids -> Row \cup {NoRow}]
  /\ next \in Nat \ {0}
  /\ object \in [Holders -> [id : 0..MaxId, val : Row]]
  /\ birth \in [Ids -> Nat]
  /\ known \in [Holders -> (0..MaxId) \X Nat]
  /\ mixed \in [Holders -> BOOLEAN]

(* The counter is above all keys in use, there or known.                   *)
KeysBelowNext ==
  /\ \A i \in Present : i < next
  /\ \A w \in Holders : known[w][1] < next

(* An object is of the row it knows, as long as only the table gives keys. *)
KnowsOwn ==
  \A w \in Holders :
    ~mixed[w] /\ object[w].id # 0 =>
      /\ known[w][1] = object[w].id
      /\ object[w].id \notin kept => known[w][2] = birth[object[w].id]

MappingInv == MappingTypes /\ KeysBelowNext /\ KnowsOwn

LEMMA MappingStart == MappingInit => MappingInv
<1> SUFFICES ASSUME MappingInit PROVE MappingInv OBVIOUS
<1>1. MaxId \in Nat BY MappingAssumption
<1>2. object \in [Holders -> [id : 0..MaxId, val : Row]]
  <2>1. [f \in Fields |-> Default] \in Row BY MappingAssumption DEF Row
  <2>2. \A w \in Holders : object[w] \in [id : {0}, val : {[f \in Fields |-> Default]}]
    BY DEF MappingInit
  <2>3. DOMAIN object = Holders /\ object = [w \in DOMAIN object |-> object[w]] BY DEF MappingInit
  <2> QED BY <1>1, <2>1, <2>2, <2>3
<1>3. \A w \in Holders : object[w].id = 0 BY DEF MappingInit
<1>4. MappingTypes BY <1>1, <1>2 DEF MappingInit, MappingTypes
<1>5. KeysBelowNext BY <1>1 DEF MappingInit, KeysBelowNext, Present
<1>6. KnowsOwn BY <1>3 DEF KnowsOwn
<1> QED BY <1>4, <1>5, <1>6 DEF MappingInv

LEMMA MaxOfTwo ==
  ASSUME NEW a \in Nat, NEW b \in Nat
  PROVE  Max({a, b}) \in {a, b} /\ Max({a, b}) >= a /\ Max({a, b}) >= b
<1>1. \E x \in {a, b} : \A y \in {a, b} : x >= y OBVIOUS
<1> QED BY <1>1 DEF Max

(* What an object becomes when its key is set.                             *)
LEMMA Named ==
  ASSUME MappingInv, NEW w \in Holders, NEW i \in Ids, Name(w, i)
  PROVE  /\ object' \in [Holders -> [id : 0..MaxId, val : Row]]
         /\ object'[w].id = i
         /\ \A v \in Holders \ {w} : object'[v] = object[v]
<1>1. i \in 0..MaxId BY MappingAssumption DEF Ids
<1>2. object[w] \in [id : 0..MaxId, val : Row] BY DEF MappingInv, MappingTypes
<1>3. [object[w] EXCEPT !.id = i] = [id |-> i, val |-> object[w].val] BY <1>2
<1>4. object' = [object EXCEPT ![w] = [id |-> i, val |-> object[w].val]] BY <1>3 DEF Name
<1>5. [id |-> i, val |-> object[w].val] \in [id : 0..MaxId, val : Row] BY <1>1, <1>2
<1> QED BY <1>4, <1>5 DEF MappingInv, MappingTypes

(* A row is added, under the next key or one of the program's choice.      *)
LEMMA InsertNewKeeps ==
  ASSUME MappingInv, NEW w \in Holders, NEW keep \in BOOLEAN, InsertNew(w, keep)
  PROVE  MappingInv'
<1> DEFINE o == object[w]
           i == IF WithId(o, keep) THEN o.id ELSE next
<1> USE DEF MappingTypes
<1>1. /\ i \in Ids
      /\ rows' = [rows EXCEPT ![i] = o.val]
      /\ next' = Max({next, i + 1})
      /\ Name(w, i)
      /\ birth' = [birth EXCEPT ![i] = @ + 1]
      /\ kept' = IF keep /\ o.id > 0 THEN kept \cup {i} ELSE kept
      /\ known' = [known EXCEPT ![w] = <<i, birth'[i]>>]
      /\ mixed' = [mixed EXCEPT ![w] = FALSE]
  BY DEF InsertNew, Knows
<1>2. /\ object' \in [Holders -> [id : 0..MaxId, val : Row]]
      /\ object'[w].id = i /\ \A v \in Holders \ {w} : object'[v] = object[v]
  BY <1>1, Named
<1>3. i \in Nat \ {0} /\ i \in 0..MaxId BY <1>1, MappingAssumption DEF Ids
<1>4. i = next \/ i \in kept' BY <1>1 DEF WithId
<1>5. kept \subseteq kept' BY <1>1
<1> HIDE DEF i
<1>6. next' \in Nat \ {0} /\ next' >= next /\ next' > i
  <2>1. next \in Nat \ {0} /\ i + 1 \in Nat BY <1>3 DEF MappingInv
  <2> QED BY <1>1, <1>3, <2>1, MaxOfTwo
<1>7. birth' \in [Ids -> Nat] /\ \A j \in Ids \ {i} : birth'[j] = birth[j]
  BY <1>1 DEF MappingInv
<1>8. /\ known' \in [Holders -> (0..MaxId) \X Nat] /\ known'[w] = <<i, birth'[i]>>
      /\ \A v \in Holders \ {w} : known'[v] = known[v]
  BY <1>1, <1>3, <1>7 DEF MappingInv
<1>9. MappingTypes'
  <2>1. rows' \in [Ids -> Row \cup {NoRow}] BY <1>1 DEF MappingInv
  <2>2. mixed' \in [Holders -> BOOLEAN] BY <1>1 DEF MappingInv
  <2> QED BY <1>2, <1>6, <1>7, <1>8, <2>1, <2>2
<1>10. KeysBelowNext'
  <2>1. \A j \in Present' : j \in Present \/ j = i BY <1>1 DEF Present, MappingInv
  <2>2. \A j \in Present : j \in Nat /\ j < next BY DEF MappingInv, KeysBelowNext, Present, Ids
  <2>3. \A j \in Present' : j < next' BY <1>3, <1>6, <2>1, <2>2 DEF MappingInv
  <2>4. \A v \in Holders : known'[v][1] < next'
    BY <1>3, <1>6, <1>8 DEF MappingInv, KeysBelowNext
  <2> QED BY <2>3, <2>4 DEF KeysBelowNext
<1>11. KnowsOwn'
  <2> SUFFICES ASSUME NEW v \in Holders, ~mixed'[v], object'[v].id # 0
               PROVE  /\ known'[v][1] = object'[v].id
                      /\ object'[v].id \notin kept' => known'[v][2] = birth'[object'[v].id]
    BY DEF KnowsOwn
  <2>1. CASE v = w BY <1>2, <1>8, <2>1
  <2>2. CASE v # w
    <3>1. ~mixed[v] /\ object'[v] = object[v] /\ known'[v] = known[v]
      BY <1>1, <1>2, <1>8, <2>2 DEF MappingInv
    <3>2. /\ known[v][1] = object[v].id
          /\ object[v].id \notin kept => known[v][2] = birth[object[v].id]
      BY <3>1 DEF MappingInv, KnowsOwn
    <3>3. object[v].id \in Ids BY <1>2, <3>1, MappingAssumption DEF Ids
    <3>4. known[v][1] < next BY DEF MappingInv, KeysBelowNext
    <3>5. object[v].id = i => i \in kept' BY <1>3, <1>4, <3>2, <3>4 DEF MappingInv
    <3> QED BY <1>5, <1>7, <3>1, <3>2, <3>3, <3>5
  <2> QED BY <2>1, <2>2
<1> QED BY <1>9, <1>10, <1>11 DEF MappingInv

(* A row that is there is changed.                                         *)
LEMMA InsertDuplicateKeeps ==
  ASSUME MappingInv, NEW w \in Holders, NEW keep \in BOOLEAN, InsertDuplicate(w, keep)
  PROVE  MappingInv'
<1> USE DEF MappingTypes
<1>1. PICK i \in Hits(object[w], keep) :
        /\ rows' = [rows EXCEPT ![i] = object[w].val] /\ Name(w, i)
        /\ UNCHANGED <<next, birth, kept>>
        /\ known' = [known EXCEPT ![w] = <<i, birth'[i]>>]
        /\ mixed' = [mixed EXCEPT ![w] = FALSE]
  BY DEF InsertDuplicate, Knows
<1>2. i \in Present /\ i \in Ids BY DEF Hits, Present
<1>3. /\ object' \in [Holders -> [id : 0..MaxId, val : Row]]
      /\ object'[w].id = i /\ \A v \in Holders \ {w} : object'[v] = object[v]
  BY <1>1, <1>2, Named
<1>4. i \in Nat \ {0} /\ i \in 0..MaxId BY <1>2, MappingAssumption DEF Ids
<1>5. /\ known' \in [Holders -> (0..MaxId) \X Nat] /\ known'[w] = <<i, birth[i]>>
      /\ \A v \in Holders \ {w} : known'[v] = known[v]
  BY <1>1, <1>2, <1>4 DEF MappingInv
<1>6. MappingTypes'
  <2>1. rows' \in [Ids -> Row \cup {NoRow}] BY <1>1, <1>2 DEF MappingInv
  <2>2. mixed' \in [Holders -> BOOLEAN] BY <1>1 DEF MappingInv
  <2> QED BY <1>1, <1>3, <1>5, <2>1, <2>2 DEF MappingInv
<1>7. KeysBelowNext'
  <2>1. Present' \subseteq Present BY <1>1, <1>2 DEF Present, MappingInv
  <2> QED BY <1>1, <1>2, <1>5, <2>1 DEF MappingInv, KeysBelowNext
<1>8. KnowsOwn'
  <2> SUFFICES ASSUME NEW v \in Holders, ~mixed'[v], object'[v].id # 0
               PROVE  /\ known'[v][1] = object'[v].id
                      /\ object'[v].id \notin kept => known'[v][2] = birth[object'[v].id]
    BY <1>1 DEF KnowsOwn
  <2>1. CASE v = w BY <1>3, <1>5, <2>1
  <2>2. CASE v # w
    <3>1. ~mixed[v] /\ object'[v] = object[v] /\ known'[v] = known[v]
      BY <1>1, <1>3, <1>5, <2>2 DEF MappingInv
    <3> QED BY <3>1 DEF MappingInv, KnowsOwn
  <2> QED BY <2>1, <2>2
<1> QED BY <1>6, <1>7, <1>8 DEF MappingInv

(* A row is read, or some columns of it, with what a join puts over it.    *)
LEMMA SyncKeeps ==
  ASSUME MappingInv, NEW w \in Holders, NEW select, NEW join \in Joins, SyncSQL(w, select, join)
  PROVE  MappingInv'
<1> USE DEF MappingTypes
<1> DEFINE Over == Overwritten(join)
           KeyIs(i) == IF "id" \in Over THEN Ids ELSE IF "id" \in select THEN {i} ELSE {object[w].id}
           Field(i, other, f) ==
             IF f \in Over THEN other[f] ELSE IF f \in select THEN rows[i][f] ELSE object[w].val[f]
<1>1. PICK i \in Present :
        \E j \in KeyIs(i),
           other \in IF Over \cap Fields = {} THEN {rows[i]} ELSE Row :
          /\ object' = [object EXCEPT ![w] =
               [id  |-> j, val |-> [f \in Fields |-> Field(i, other, f)]]]
          /\ known' = [known EXCEPT ![w] = <<i, birth[i]>>]
          /\ mixed' = [mixed EXCEPT ![w] = Over # {} \/ "id" \notin select]
          /\ UNCHANGED <<rows, next, birth, kept>>
  BY DEF SyncSQL, MappingInv
<1> HIDE DEF Over
<1>2. PICK j \in KeyIs(i),
           other \in IF Over \cap Fields = {} THEN {rows[i]} ELSE Row :
          /\ object' = [object EXCEPT ![w] =
               [id  |-> j, val |-> [f \in Fields |-> Field(i, other, f)]]]
          /\ known' = [known EXCEPT ![w] = <<i, birth[i]>>]
          /\ mixed' = [mixed EXCEPT ![w] = Over # {} \/ "id" \notin select]
          /\ UNCHANGED <<rows, next, birth, kept>>
  BY <1>1
<1>3. i \in Ids /\ rows[i] \in Row /\ i \in Nat \ {0} /\ i \in 0..MaxId
  BY MappingAssumption DEF Present, MappingInv, Ids
<1>3a. object[w].id \in 0..MaxId /\ object[w].val \in Row BY DEF MappingInv
<1>4. j \in 0..MaxId /\ other \in Row BY <1>3, <1>3a, MappingAssumption DEF Ids
<1>5. [f \in Fields |-> Field(i, other, f)] \in Row
  BY <1>3, <1>4, <1>3a DEF Row
<1>6. /\ object' \in [Holders -> [id : 0..MaxId, val : Row]] /\ object'[w].id = j
      /\ \A v \in Holders \ {w} : object'[v] = object[v]
  BY <1>2, <1>4, <1>5 DEF MappingInv
<1>7. /\ known' \in [Holders -> (0..MaxId) \X Nat] /\ known'[w] = <<i, birth[i]>>
      /\ \A v \in Holders \ {w} : known'[v] = known[v]
  BY <1>2, <1>3 DEF MappingInv
<1>8. MappingTypes' BY <1>2, <1>6, <1>7 DEF MappingInv
<1>9. KeysBelowNext'
  <2>1. Present' = Present BY <1>2 DEF Present
  <2> QED BY <1>2, <1>3, <1>7, <2>1 DEF MappingInv, KeysBelowNext
<1>10. KnowsOwn'
  <2> SUFFICES ASSUME NEW v \in Holders, ~mixed'[v], object'[v].id # 0
               PROVE  /\ known'[v][1] = object'[v].id
                      /\ object'[v].id \notin kept => known'[v][2] = birth[object'[v].id]
    BY <1>2 DEF KnowsOwn
  <2>1. CASE v = w
    <3>1. Over = {} /\ "id" \in select BY <1>2, <2>1 DEF MappingInv
    <3>2. j = i BY <3>1
    <3> QED BY <1>6, <1>7, <2>1, <3>2
  <2>2. CASE v # w
    <3>1. ~mixed[v] /\ object'[v] = object[v] /\ known'[v] = known[v]
      BY <1>2, <1>6, <1>7, <2>2 DEF MappingInv
    <3> QED BY <3>1 DEF MappingInv, KnowsOwn
  <2> QED BY <2>1, <2>2
<1> QED BY <1>8, <1>9, <1>10 DEF MappingInv

(* Nothing is known anew: rows may change or go, and fields of objects.    *)
LEMMA OtherObjectsKeep ==
  ASSUME MappingInv, UNCHANGED <<next, history>>,
         rows' \in [Ids -> Row \cup {NoRow}], Present' \subseteq Present,
         object' \in [Holders -> [id : 0..MaxId, val : Row]],
         \A v \in Holders : object'[v].id \in {0, object[v].id}
  PROVE  MappingInv'
<1>1. MappingTypes' BY DEF MappingInv, MappingTypes, history
<1>2. KeysBelowNext' BY DEF MappingInv, KeysBelowNext, history
<1>3. KnowsOwn' BY DEF MappingInv, KnowsOwn, history
<1> QED BY <1>1, <1>2, <1>3 DEF MappingInv

(* Every action keeps the invariant. *)
LEMMA MappingStep == MappingInv /\ [MappingNext]_mapping => MappingInv'
<1> SUFFICES ASSUME MappingInv, [MappingNext]_mapping PROVE MappingInv' OBVIOUS
<1> USE DEF MappingTypes
<1>1. ASSUME NEW w \in Holders, NEW f \in Fields, NEW v \in Values[f], SetProperty(w, f, v) PROVE MappingInv'
  <2>1. object[w] \in [id : 0..MaxId, val : Row] BY DEF MappingInv
  <2>2. [object[w].val EXCEPT ![f] = v] \in Row BY <2>1 DEF Row
  <2>3. object' = [object EXCEPT ![w] = [id |-> object[w].id, val |-> [object[w].val EXCEPT ![f] = v]]]
    <3>1. [object[w] EXCEPT !.val[f] = v]
            = [id |-> object[w].id, val |-> [object[w].val EXCEPT ![f] = v]]
      BY <2>1
    <3>2. object' = [object EXCEPT ![w] = [object[w] EXCEPT !.val[f] = v]] BY <1>1 DEF SetProperty
    <3> QED BY <3>1, <3>2
  <2>4. /\ object' \in [Holders -> [id : 0..MaxId, val : Row]]
        /\ \A u \in Holders : object'[u].id = object[u].id
    BY <2>1, <2>2, <2>3 DEF MappingInv
  <2>5. UNCHANGED <<rows, next, history>> BY <1>1 DEF SetProperty
  <2> QED BY <2>4, <2>5, OtherObjectsKeep DEF MappingInv, Present
<1>2. ASSUME NEW w \in Holders, NEW p \in Props, NEW ignore \in SUBSET Fields, UpdateSQL(w, p, ignore)
      PROVE  MappingInv'
  <2>1. /\ rows' = [i \in Ids |-> IF i \in Where(object[w], p)
                     THEN [f \in Fields |-> IF f \in ignore THEN rows[i][f] ELSE object[w].val[f]]
                     ELSE rows[i]]
        /\ UNCHANGED <<next, object, history>>
    BY <1>2 DEF UpdateSQL
  <2>2. Where(object[w], p) \subseteq Present /\ Present \subseteq Ids BY DEF Where, Present
  <2>3. \A i \in Present : rows[i] \in Row BY DEF Present, MappingInv
  <2>4. object[w].val \in Row BY DEF MappingInv
  <2>5. rows' \in [Ids -> Row \cup {NoRow}]
    <3>1. \A i \in Where(object[w], p) :
            [f \in Fields |-> IF f \in ignore THEN rows[i][f] ELSE object[w].val[f]] \in Row
      BY <2>2, <2>3, <2>4 DEF Row
    <3> QED BY <2>1, <3>1 DEF MappingInv
  <2>6. Present' \subseteq Present BY <2>1, <2>2 DEF Present
  <2> QED BY <2>1, <2>5, <2>6, OtherObjectsKeep DEF MappingInv
<1>3. ASSUME NEW w \in Holders, NEW p \in Props, RemoveSQL(w, p) PROVE MappingInv'
  <2>1. /\ rows' = [i \in Ids |-> IF i \in Where(object[w], p) THEN NoRow ELSE rows[i]]
        /\ object' = [object EXCEPT ![w] =
             [id  |-> IF "id" \in Resettable THEN 0 ELSE object[w].id,
              val |-> [f \in Fields |-> IF f \in Resettable THEN Default ELSE object[w].val[f]]]]
        /\ UNCHANGED <<next, history>>
    BY <1>3 DEF RemoveSQL
  <2>2. object[w] \in [id : 0..MaxId, val : Row] BY DEF MappingInv
  <2>3. [f \in Fields |-> IF f \in Resettable THEN Default ELSE object[w].val[f]] \in Row
    BY <2>2, MappingAssumption DEF Row
  <2>4. 0 \in 0..MaxId BY MappingAssumption
  <2>5. /\ object' \in [Holders -> [id : 0..MaxId, val : Row]]
        /\ \A u \in Holders : object'[u].id \in {0, object[u].id}
    BY <2>1, <2>2, <2>3, <2>4 DEF MappingInv
  <2>6. rows' \in [Ids -> Row \cup {NoRow}] /\ Present' \subseteq Present
    BY <2>1 DEF MappingInv, Present
  <2> QED BY <2>1, <2>5, <2>6, OtherObjectsKeep
<1>4. CASE UNCHANGED mapping BY <1>4, OtherObjectsKeep DEF mapping, history, MappingInv, Present
<1> QED BY <1>1, <1>2, <1>3, <1>4, InsertNewKeeps, InsertDuplicateKeeps, SyncKeeps DEF MappingNext

(* Whatever other workers insert, change, replace and remove, the key of   *)
(* an object leads to the row it was inserted as or read from, or to none  *)
(* (sql/sqlizable.cpp).                                                    *)
THEOREM KeysStayOwn == MappingSpec => []KeyNamesOwnRow
<1>1. MappingInv => KeyNamesOwnRow
  <2> SUFFICES ASSUME MappingInv, NEW w \in Holders, object[w].id \in Present,
                      object[w].id \notin kept, ~mixed[w]
               PROVE  <<object[w].id, birth[object[w].id]>> = known[w]
    BY DEF KeyNamesOwnRow
  <2>1. object[w].id # 0 BY DEF Present, Ids
  <2>2. known[w] \in (0..MaxId) \X Nat BY DEF MappingInv, MappingTypes
  <2> QED BY <2>1, <2>2 DEF MappingInv, KnowsOwn
<1> QED BY <1>1, MappingStart, MappingStep, PTL DEF MappingSpec

-----------------------------------------------------------------------------
(* For any number of versions, runs and uploads, two toolchains never      *)
(* meet.  The property is not inductive: the package may be replaced only  *)
(* because by then everything that came from the old one is gone, and it   *)
(* goes in an order: first what is unpacked, then the build directory.     *)

Unpacked == [Files -> Versions \cup {Part, Absent}]

(* The package and what it is compared with. *)
Known ==
  /\ package \in Versions \cup {Part, Absent}
  /\ want \in Versions \cup {Part, Absent}
  /\ arriving \in Versions \cup {Absent}
  /\ dropbox \in [{"package", "md5"} -> Versions]
  /\ package_dir \in Unpacked
  /\ build \in [tools : SUBSET Versions, program : Versions \cup {Absent}]

(* What is gone before the next package is fetched. *)
OldOnesGone ==
  /\ stage \in {"remove build", "download", "package arriving"} =>
       \A f \in Files : package_dir[f] = Absent
  /\ stage \in {"download", "package arriving"} => build = NoBuild
  /\ stage = "package arriving" => arriving \in Versions

ToolkitInv == Known /\ OldOnesGone /\ OneToolchain

LEMMA ToolkitStart == ToolkitInit => ToolkitInv
<1> SUFFICES ASSUME ToolkitInit PROVE ToolkitInv OBVIOUS
<1>1. Known BY DEF ToolkitInit, Known, Unpacked, NoBuild
<1>2. OldOnesGone /\ OneToolchain BY DEF ToolkitInit, OldOnesGone, OneToolchain, NoBuild, Files
<1> QED BY <1>1, <1>2 DEF ToolkitInv

(* A build directory without its program. *)
LEMMA ProgramGone ==
  ASSUME NEW S, NEW T, NEW b \in [tools : S, program : T], NEW x
  PROVE  [b EXCEPT !.program = x] = [tools |-> b.tools, program |-> x]
OBVIOUS

(* The tools that run are those of the package, like all that ran before. *)
LEMMA ToolsOfPackage ==
  ASSUME ToolkitInv, Runnable
  PROVE  /\ Tools = package /\ Tools \in Versions
         /\ build.tools \cup {Tools} \in SUBSET Versions
         /\ build.tools \cup {Tools} \subseteq {package}
<1>1. Tools = package /\ Tools \in Versions
  BY ToolkitAssumption DEF ToolkitInv, OneToolchain, Runnable, Tools, Files
<1>2. build.tools \subseteq {package} BY DEF ToolkitInv, OneToolchain
<1> QED BY <1>1, <1>2

(* What the tools leave in the build directory. *)
LEMMA Traces ==
  ASSUME ToolkitInv
  PROVE  /\ Used = [tools |-> build.tools \cup {Tools}, program |-> build.program]
         /\ [Used EXCEPT !.program = Tools] = [tools |-> build.tools \cup {Tools}, program |-> Tools]
<1>1. build \in [tools : SUBSET Versions, program : Versions \cup {Absent}] BY DEF ToolkitInv, Known
<1>2. Used = [tools |-> build.tools \cup {Tools}, program |-> build.program] BY <1>1 DEF Used
<1> HIDE DEF Used
<1>3. [Used EXCEPT !.program = Tools] = [tools |-> build.tools \cup {Tools}, program |-> Tools]
  BY <1>2
<1> QED BY <1>2, <1>3

LEMMA ToolkitStep == ToolkitInv /\ [ToolkitNext]_toolkit => ToolkitInv'
<1> SUFFICES ASSUME ToolkitInv, [ToolkitNext]_toolkit PROVE ToolkitInv' OBVIOUS
<1> USE ToolkitAssumption DEF ToolkitInv, Known, OldOnesGone, OneToolchain, disk, online, Unpacked
<1>1. CASE Launch BY <1>1 DEF Launch
<1>2. CASE Abort BY <1>2 DEF Abort
<1>3. CASE DownloadArchiver BY <1>3 DEF DownloadArchiver
<1>4. CASE ArchiverArrives BY <1>4 DEF ArchiverArrives
<1>5. CASE DownloadMd5
  <2>1. dropbox.md5 \in Versions OBVIOUS
  <2> QED BY <1>5, <2>1 DEF DownloadMd5
<1>6. CASE CheckPackage BY <1>6 DEF CheckPackage, Checked
<1>7. CASE RemovePackageDir
  <2>1. PICK gone \in SUBSET Files :
          /\ package_dir' = [f \in Files |-> IF f \in gone THEN Absent ELSE package_dir[f]]
          /\ stage' = IF gone = Files THEN "remove build" ELSE "off"
    BY <1>7 DEF RemovePackageDir
  <2>2. UNCHANGED <<package, build, want, arriving, dropbox>> BY <1>7 DEF RemovePackageDir
  <2>3. package_dir' \in Unpacked /\ \A f \in Files : package_dir'[f] \in {package, Part, Absent}
    BY <2>1
  <2>4. stage' = "remove build" => \A f \in Files : package_dir'[f] = Absent BY <2>1
  <2> QED BY <2>1, <2>2, <2>3, <2>4
<1>8. CASE RemoveBuildDir
  <2>1. UNCHANGED <<package, package_dir, want, arriving, dropbox>> /\ stage = "remove build"
    BY <1>8 DEF RemoveBuildDir
  <2>2. CASE build' = NoBuild /\ stage' = "download" BY <2>1, <2>2 DEF NoBuild
  <2>3. CASE build' = build /\ stage' = "off" BY <2>1, <2>3
  <2>4. CASE build' = [build EXCEPT !.program = Absent] /\ stage' = "off"
    <3>1. build' = [tools |-> build.tools, program |-> Absent] BY <2>4, ProgramGone
    <3> QED BY <2>1, <2>4, <3>1
  <2> QED BY <1>8, <2>2, <2>3, <2>4 DEF RemoveBuildDir
<1>9. CASE DownloadPackage
  <2>1. dropbox.package \in Versions OBVIOUS
  <2>2. stage = "download" /\ build = NoBuild /\ \A f \in Files : package_dir[f] = Absent
    BY <1>9 DEF DownloadPackage
  <2> QED BY <1>9, <2>1, <2>2 DEF DownloadPackage, NoBuild
<1>10. CASE PackageArrives
  <2>1. build = NoBuild /\ \A f \in Files : package_dir[f] = Absent
    BY <1>10 DEF PackageArrives
  <2>2. arriving \in Versions BY <1>10 DEF PackageArrives
  <2> QED BY <1>10, <2>1, <2>2 DEF PackageArrives, NoBuild
<1>11. CASE Unpack BY <1>11 DEF Unpack
<1>12. ASSUME NEW f \in Files, UnpackFile(f) PROVE ToolkitInv' BY <1>12 DEF UnpackFile
<1>13. CASE UnpackingEnds BY <1>13 DEF UnpackingEnds
<1>14. CASE Configure BY <1>14, ToolsOfPackage, Traces DEF Configure, Runnable
<1>15. CASE Make
  <2>1. /\ UNCHANGED <<package, package_dir, want, arriving, dropbox>>
        /\ stage = "make" /\ stage' = "test"
    BY <1>15 DEF Make
  <2>2. CASE UNCHANGED build BY <2>1, <2>2
  <2>3. CASE Runnable /\ build' = Used BY <2>1, <2>3, ToolsOfPackage, Traces DEF Runnable
  <2>4. CASE Runnable /\ build' = [Used EXCEPT !.program = Tools]
    <3>1. build' = [tools |-> build.tools \cup {Tools}, program |-> Tools] BY <2>4, Traces
    <3>2. Runnable BY <2>4
    <3> QED BY <2>1, <3>1, <3>2, ToolsOfPackage
  <2> QED BY <1>15, <2>2, <2>3, <2>4 DEF Make
<1>16. CASE Test BY <1>16 DEF Test
<1>17. CASE Install
  <2>1. /\ UNCHANGED <<package, package_dir, want, arriving, dropbox>>
        /\ stage = "install" /\ stage' = "copy"
    BY <1>17 DEF Install
  <2>2. CASE UNCHANGED build BY <2>1, <2>2
  <2>3. CASE Runnable /\ build' = [Used EXCEPT !.program = Tools]
    <3>1. build' = [tools |-> build.tools \cup {Tools}, program |-> Tools] BY <2>3, Traces
    <3>2. Runnable BY <2>3
    <3> QED BY <2>1, <3>1, <3>2, ToolsOfPackage
  <2> QED BY <1>17, <2>2, <2>3 DEF Install
<1>18. CASE CopyLibraries BY <1>18 DEF CopyLibraries
<1>19. ASSUME NEW file \in {"package", "md5"}, NEW v \in Versions, Upload(file, v) PROVE ToolkitInv'
  BY <1>19 DEF Upload
<1>20. CASE UNCHANGED toolkit BY <1>20 DEF toolkit
<1> QED
  BY <1>1, <1>2, <1>3, <1>4, <1>5, <1>6, <1>7, <1>8, <1>9, <1>10, <1>11, <1>12, <1>13,
     <1>14, <1>15, <1>16, <1>17, <1>18, <1>19, <1>20 DEF ToolkitNext

(* Whatever is interrupted, fails or changes on the server, and however    *)
(* often the tool is started: what is unpacked and what the build          *)
(* directory was written with is of the version of package.7z.             *)
THEOREM ToolchainsApart == ToolkitSpec => []OneToolchain
<1>1. ToolkitInv => OneToolchain BY DEF ToolkitInv
<1> QED BY <1>1, ToolkitStart, ToolkitStep, PTL DEF ToolkitSpec

-----------------------------------------------------------------------------
(* For any number of pages, phrases, makers and restarts, nothing that     *)
(* save() has put in the file is forgotten.  The property is not           *)
(* inductive: between the reading of the file and its emptying, what was   *)
(* read is what the file holds, and while the file is empty the notes hold *)
(* it all, since pages never remove a note.                                *)

(* A phrase is in a collection, or what can be read back of it is. *)
Remembered(p, collection) == {p, Reread[p]} \cap DOMAIN collection # {}

PhrasesOnly ==
  /\ DOMAIN translations \subseteq Phrases
  /\ DOMAIN diskfile \subseteq Phrases
  /\ promised \subseteq Phrases

(* save() has read what is in the file. *)
ReadWhole == saving = "reading" => current = diskfile

(* While the file is empty, the notes remember. *)
NotesComplete ==
  saving = "writing" /\ ~torn => \A p \in promised : Remembered(p, translations)

TranslationsInv == PhrasesOnly /\ ReadWhole /\ NotesComplete /\ NothingForgotten

LEMMA TranslationsStart == TranslationsInit => TranslationsInv
BY DEF TranslationsInit, TranslationsInv, PhrasesOnly, ReadWhole, NotesComplete, NothingForgotten

(* A note does not remove another. *)
LEMMA NotesGrow ==
  ASSUME NEW p, NEW dis
  PROVE  DOMAIN Noted(p, dis) = DOMAIN translations \cup {p}
BY DEF Noted

(* What the file remembers, the notes do after they were joined with it. *)
LEMMA JoinRemembers ==
  ASSUME TranslationsInv, saving = "reading", ~torn, NEW p \in promised
  PROVE  Remembered(p, Joined)
<1>1. /\ DOMAIN Joined = DOMAIN translations \cup Found
      /\ Found = {Reread[q] : q \in DOMAIN diskfile}
  BY DEF Joined, Found, TranslationsInv, ReadWhole
<1>2. {p, Reread[p]} \cap DOMAIN diskfile # {} BY DEF TranslationsInv, NothingForgotten
<1>3. Reread[Reread[p]] = Reread[p] BY TranslationsAssumption DEF TranslationsInv, PhrasesOnly
<1>4. Reread[p] \in Found BY <1>1, <1>2, <1>3
<1> QED BY <1>1, <1>4 DEF Remembered

(* Every action keeps the invariant. *)
LEMMA TranslationsStep == TranslationsInv /\ [TranslationsNext]_translating => TranslationsInv'
<1> SUFFICES ASSUME TranslationsInv, [TranslationsNext]_translating PROVE TranslationsInv' OBVIOUS
<1> USE DEF TranslationsInv
<1>1. ASSUME UNCHANGED notes PROVE TranslationsInv'
  BY <1>1 DEF notes, PhrasesOnly, ReadWhole, NotesComplete, NothingForgotten, Remembered
<1>2. ASSUME NEW w \in Makers, NEW p \in Phrases, Translate(w, p) PROVE TranslationsInv'
  <2>1. UNCHANGED <<diskfile, saving, current, promised, torn>> BY <1>2 DEF Translate
  <2>2. CASE making[w].known
    <3>1. saving # "writing" BY <1>2, <2>2 DEF Translate
    <3>2. PICK dis : translations' = Noted(p, dis) BY <1>2, <2>2 DEF Translate
    <3>3. DOMAIN translations' = DOMAIN translations \cup {p} BY <3>2, NotesGrow
    <3> QED BY <2>1, <3>1, <3>3 DEF PhrasesOnly, ReadWhole, NotesComplete, NothingForgotten
  <2>3. CASE ~making[w].known
    BY <1>1, <1>2, <2>1, <2>3 DEF Translate, notes
  <2> QED BY <2>2, <2>3
<1>3. CASE OpenAndRead
  BY <1>3 DEF OpenAndRead, PhrasesOnly, ReadWhole, NotesComplete, NothingForgotten
<1>4. CASE Join
  <2>1. /\ saving = "reading" /\ saving' = "writing"
        /\ translations' = Joined /\ diskfile' = << >>
        /\ UNCHANGED <<promised, torn>>
    BY <1>4 DEF Join
  <2>2. DOMAIN Joined \subseteq Phrases
    <3>1. Found = {Reread[q] : q \in DOMAIN diskfile} BY <2>1 DEF Found, ReadWhole
    <3> QED BY <3>1, TranslationsAssumption DEF Joined, PhrasesOnly
  <2>3. NotesComplete' BY <2>1, JoinRemembers DEF NotesComplete, Remembered
  <2>4. DOMAIN diskfile' = {} BY <2>1
  <2> QED BY <2>1, <2>2, <2>3, <2>4 DEF PhrasesOnly, ReadWhole, NothingForgotten
<1>5. CASE WriteAndClose
  <2>1. /\ saving = "writing" /\ saving' = "no" /\ diskfile' = translations
        /\ promised' = promised \cup DOMAIN translations
        /\ UNCHANGED <<translations, torn>>
    BY <1>5 DEF WriteAndClose
  <2>2. NothingForgotten' BY <2>1 DEF NothingForgotten, NotesComplete, Remembered
  <2> QED BY <2>1, <2>2 DEF PhrasesOnly, ReadWhole, NotesComplete
<1>5a. CASE WriteFails
  <2>1. /\ saving' = "no" /\ DOMAIN diskfile' \subseteq DOMAIN translations
        /\ torn' /\ UNCHANGED <<translations, promised>>
    BY <1>5a DEF WriteFails
  <2> QED BY <2>1 DEF PhrasesOnly, ReadWhole, NotesComplete, NothingForgotten
<1>6. CASE Restart
  <2>1. /\ saving' = "no" /\ translations' = << >> /\ UNCHANGED <<diskfile, promised>>
        /\ torn' = (torn \/ saving = "writing")
    BY <1>6 DEF Restart
  <2>2. DOMAIN translations' = {} BY <2>1
  <2> QED BY <2>1, <2>2 DEF PhrasesOnly, ReadWhole, NotesComplete, NothingForgotten
<1>7. ASSUME NEW w \in Makers, Generate(w) \/ GenerateLogined(w) \/ Fill(w) \/ FillLogined(w) \/ PageDone(w)
      PROVE  UNCHANGED notes
  BY <1>7 DEF Generate, GenerateLogined, LoadTemplate, Fill, FillLogined, Replace, PageDone, notes
<1>8. CASE Deploy BY <1>1, <1>8 DEF Deploy, notes
<1>9. CASE UNCHANGED translating BY <1>1, <1>9 DEF translating, notes
<1> QED BY <1>1, <1>2, <1>3, <1>4, <1>5, <1>5a, <1>6, <1>7, <1>8, <1>9 DEF TranslationsNext

(* However often phrases are collected, saved and the server restarted,    *)
(* what TranslatorHelper::save() has once put in the file stays in it,     *)
(* unless the process ends while it writes, or the write fails             *)
(* (translatorhelper.cpp).                                                 *)
THEOREM CollectionGrows == TranslationsSpec => []NothingForgotten
<1>1. TranslationsInv => NothingForgotten BY DEF TranslationsInv
<1> QED BY <1>1, TranslationsStart, TranslationsStep, PTL DEF TranslationsSpec

-----------------------------------------------------------------------------
(* What patch() sends, and where it leads.  First what FlattenSeq makes of *)
(* a list of lists, by the least number of lists for which it would be     *)
(* something else.                                                         *)

(* Some number is the least of a set of numbers. *)
LEMMA LeastNumber ==
  ASSUME NEW S, S \subseteq Nat, S # {}
  PROVE  \E x \in S : \A y \in S : x <= y
<1>1. IsWellFoundedOn(OpToRel(<, Nat), Nat) BY NatLessThanWellFounded
<1>2. PICK x \in S : \A y \in S : ~(<<y, x>> \in OpToRel(<, Nat)) BY <1>1, WFMin
<1>3. \A y \in Nat : y < x => <<y, x>> \in OpToRel(<, Nat) BY <1>2 DEF OpToRel
<1>4. ASSUME NEW y \in S PROVE x <= y
  <2>1. x \in Nat /\ y \in Nat /\ ~(y < x) BY <1>2, <1>3
  <2> QED BY ONLY <2>1
<1> QED BY <1>4

(* Running joins of the first k of some sequences. *)
PrefixJoins(f, seqs, k) ==
  f = [i \in 1..k |-> IF i = 1 THEN seqs[i] ELSE f[i-1] \o seqs[i]]

(* What such joins hold. *)
Holds(s, seqs, k, S) ==
  /\ s \in Seq(S)
  /\ \A e : e \in ToSet(s) <=> \E i \in 1..k : e \in ToSet(seqs[i])

LEMMA JoinsTo ==
  ASSUME NEW n \in Nat, NEW seqs PROVE \E f : PrefixJoins(f, seqs, n)
<1> DEFINE Unjoined == {k \in 0..n : ~\E f : PrefixJoins(f, seqs, k)}
<1>1. SUFFICES ASSUME Unjoined # {} PROVE FALSE
  <2>1. n \in 0..n OBVIOUS
  <2> QED BY <2>1
<1>2. PICK k \in Unjoined : \A y \in Unjoined : k <= y
  <2>1. Unjoined \subseteq Nat OBVIOUS
  <2> QED BY <1>1, <2>1, LeastNumber
<1>3. CASE k = 0
  <2>1. PrefixJoins([i \in 1..k |-> <<>>], seqs, k) BY <1>3 DEF PrefixJoins
  <2> QED BY <2>1
<1>4. CASE k # 0
  <2>1. k \in Nat /\ k - 1 \in 0..n /\ ~(k <= k - 1) BY <1>4
  <2>2. k - 1 \notin Unjoined BY <1>2, <2>1
  <2>3. PICK f : PrefixJoins(f, seqs, k - 1) BY <2>1, <2>2
  <2> DEFINE g == [i \in 1..k |-> IF i = 1 THEN seqs[i] ELSE f[i-1] \o seqs[i]]
  <2>4. \A i \in 1..(k-1) : g[i] = f[i]
    <3>1. \A i \in 1..(k-1) : f[i] = IF i = 1 THEN seqs[i] ELSE f[i-1] \o seqs[i]
      BY <2>3 DEF PrefixJoins
    <3>2. \A i \in 1..(k-1) : i \in 1..k BY <2>1
    <3> QED BY <3>1, <3>2
  <2>5. PrefixJoins(g, seqs, k)
    <3>1. \A i \in 1..k : i # 1 => i - 1 \in 1..(k-1) BY <2>1
    <3>2. g = [i \in 1..k |-> IF i = 1 THEN seqs[i] ELSE g[i-1] \o seqs[i]] BY <2>4, <3>1
    <3> HIDE DEF g
    <3> QED BY <3>2 DEF PrefixJoins
  <2> QED BY <2>5
<1> QED BY <1>3, <1>4

LEMMA JoinedSet ==
  ASSUME NEW S, NEW p \in Seq(S), NEW q \in Seq(S)
  PROVE  ToSet(p \o q) = ToSet(p) \cup ToSet(q)
<1>1. /\ Len(p) \in Nat /\ Len(q) \in Nat /\ Len(p \o q) = Len(p) + Len(q)
      /\ \A i \in 1..(Len(p) + Len(q)) : (p \o q)[i] = IF i <= Len(p) THEN p[i] ELSE q[i - Len(p)]
  BY ConcatProperties, LenProperties
<1>2. \A i \in 1..Len(q) :
        i + Len(p) \in 1..(Len(p) + Len(q)) /\ ~(i + Len(p) <= Len(p)) /\ (i + Len(p)) - Len(p) = i
  BY <1>1
<1>3. \A i \in 1..(Len(p)+Len(q)) : i <= Len(p) \/ i - Len(p) \in 1..Len(q) BY <1>1
<1>4. DOMAIN p = 1..Len(p) /\ DOMAIN q = 1..Len(q) /\ DOMAIN (p \o q) = 1..(Len(p) + Len(q)) BY <1>1
<1>5. ASSUME NEW i \in 1..(Len(p) + Len(q)) PROVE (p \o q)[i] \in ToSet(p) \cup ToSet(q)
  <2>1. CASE i <= Len(p)
    <3>1. i \in DOMAIN p /\ (p \o q)[i] = p[i] BY <1>1, <1>4, <2>1
    <3> QED BY <3>1 DEF ToSet
  <2>2. CASE ~(i <= Len(p))
    <3>1. i - Len(p) \in DOMAIN q /\ (p \o q)[i] = q[i - Len(p)] BY <1>1, <1>3, <1>4, <2>2
    <3> QED BY <3>1 DEF ToSet
  <2> QED BY <2>1, <2>2
<1>6. ASSUME NEW i \in 1..Len(p) PROVE p[i] \in ToSet(p \o q)
  <2>1. i \in DOMAIN (p \o q) /\ (p \o q)[i] = p[i] BY <1>1, <1>4
  <2> QED BY <2>1 DEF ToSet
<1>7. ASSUME NEW i \in 1..Len(q) PROVE q[i] \in ToSet(p \o q)
  <2>1. i + Len(p) \in DOMAIN (p \o q) /\ (p \o q)[i + Len(p)] = q[i] BY <1>1, <1>2, <1>4
  <2> QED BY <2>1 DEF ToSet
<1>8. ToSet(p \o q) \subseteq ToSet(p) \cup ToSet(q)
  <2>1. ToSet(p \o q) = {(p \o q)[i] : i \in 1..(Len(p) + Len(q))} BY <1>4 DEF ToSet
  <2> QED BY <1>5, <2>1
<1>9. ToSet(p) \subseteq ToSet(p \o q) /\ ToSet(q) \subseteq ToSet(p \o q)
  <2>1. ToSet(p) = {p[i] : i \in 1..Len(p)} /\ ToSet(q) = {q[i] : i \in 1..Len(q)} BY <1>4 DEF ToSet
  <2> QED BY <1>6, <1>7, <2>1
<1> QED BY <1>8, <1>9

LEMMA JoinsHold ==
  ASSUME NEW n \in Nat \ {0}, NEW S, NEW seqs, \A i \in 1..n : seqs[i] \in Seq(S),
         NEW f, PrefixJoins(f, seqs, n)
  PROVE  Holds(f[n], seqs, n, S)
<1> DEFINE Bad == {k \in 1..n : ~Holds(f[k], seqs, k, S)}
<1>1. SUFFICES ASSUME Bad # {} PROVE FALSE
  <2>1. n \in 1..n OBVIOUS
  <2> QED BY <2>1
<1>2. PICK k \in Bad : \A y \in Bad : k <= y
  <2>1. Bad \subseteq Nat OBVIOUS
  <2> QED BY <1>1, <2>1, LeastNumber
<1>0. f[k] = IF k = 1 THEN seqs[k] ELSE f[k-1] \o seqs[k] BY <1>2 DEF PrefixJoins
<1>3. CASE k = 1
  <2>1. f[k] = seqs[1] /\ seqs[1] \in Seq(S) BY <1>0, <1>3
  <2>2. 1..k = {1} BY <1>3
  <2>3. Holds(f[k], seqs, k, S) BY <2>1, <2>2 DEF Holds
  <2> QED BY <2>3, <1>2
<1>4. CASE k # 1
  <2>1. k \in Nat /\ k - 1 \in 1..n /\ k \in 1..n /\ ~(k <= k - 1) BY <1>4
  <2>2. Holds(f[k-1], seqs, k-1, S) BY <1>2, <2>1
  <2> DEFINE p == f[k-1]
             q == seqs[k]
  <2>3. p \in Seq(S) /\ q \in Seq(S) /\ f[k] = p \o q BY <1>0, <1>4, <2>1, <2>2 DEF Holds
  <2>4. \A e : e \in ToSet(p) <=> \E i \in 1..(k-1) : e \in ToSet(seqs[i]) BY <2>2 DEF Holds
  <2>5. 1..k = (1..(k-1)) \cup {k} BY <2>1
  <2>6. p \o q \in Seq(S) /\ ToSet(p \o q) = ToSet(p) \cup ToSet(q)
    <3> HIDE DEF p, q
    <3> QED BY <2>3, ConcatProperties, JoinedSet
  <2>7. Holds(f[k], seqs, k, S)
    <3> HIDE DEF p
    <3>1. \A e : e \in ToSet(f[k]) <=> \E i \in 1..k : e \in ToSet(seqs[i])
      BY <2>3, <2>4, <2>5, <2>6
    <3> QED BY <3>1, <2>3, <2>6 DEF Holds
  <2> QED BY <2>7, <1>2
<1> QED BY <1>3, <1>4

LEMMA FlattenHolds ==
  ASSUME NEW n \in Nat, NEW S, NEW seqs \in [1..n -> Seq(S)]
  PROVE  Holds(FlattenSeq(seqs), seqs, n, S)
<1>1. seqs \in Seq(Seq(S)) /\ Len(seqs) = n BY LenProperties
<1>2. CASE n = 0
  <2>1. FlattenSeq(seqs) = <<>> BY <1>1, <1>2 DEF FlattenSeq
  <2>2. ToSet(<<>>) = {} BY DEF ToSet
  <2> QED BY <1>2, <2>1, <2>2 DEF Holds
<1>3. CASE n # 0
  <2> DEFINE g == CHOOSE f : PrefixJoins(f, seqs, n)
  <2>1. PrefixJoins(g, seqs, n) BY JoinsTo
  <2>2. FlattenSeq(seqs) = g[n] BY <1>1, <1>3 DEF FlattenSeq, PrefixJoins
  <2>3. Holds(g[n], seqs, n, S)
    <3> HIDE DEF g
    <3> QED BY <1>3, <2>1, JoinsHold
  <2> QED BY <2>2, <2>3
<1> QED BY <1>2, <1>3

(* The first of several joined sequences comes first.                      *)
LEMMA FlattenHead ==
  ASSUME NEW n \in Nat \ {0}, NEW S, NEW seqs \in [1..n -> Seq(S)], seqs[1] # <<>>
  PROVE  FlattenSeq(seqs) # <<>> /\ FlattenSeq(seqs)[1] = seqs[1][1]
<1>1. seqs \in Seq(Seq(S)) /\ Len(seqs) = n BY LenProperties
<1> DEFINE f == CHOOSE g : PrefixJoins(g, seqs, n)
<1>2. PrefixJoins(f, seqs, n) BY JoinsTo
<1>3. FlattenSeq(seqs) = f[n] BY <1>1 DEF FlattenSeq, PrefixJoins
<1> HIDE DEF f
<1> DEFINE Bad == {k \in 1..n : ~(f[k] \in Seq(S) /\ Len(f[k]) > 0 /\ f[k][1] = seqs[1][1])}
<1>4. SUFFICES ASSUME Bad # {} PROVE FALSE
  <2>1. n \in 1..n OBVIOUS
  <2>2. f[n] \in Seq(S) /\ Len(f[n]) > 0 /\ f[n][1] = seqs[1][1] BY <1>4, <2>1
  <2> QED BY <1>3, <2>2
<1>5. PICK k \in Bad : \A y \in Bad : k <= y
  <2>1. Bad \subseteq Nat OBVIOUS
  <2> QED BY <1>4, <2>1, LeastNumber
<1>6. f[k] = IF k = 1 THEN seqs[k] ELSE f[k-1] \o seqs[k] BY <1>2, <1>5 DEF PrefixJoins
<1>7. CASE k = 1
  <2>1. f[k] = seqs[1] /\ seqs[1] \in Seq(S) /\ seqs[1] # <<>> BY <1>6, <1>7
  <2>2. Len(seqs[1]) > 0 BY <2>1
  <2> QED BY <1>5, <2>1, <2>2
<1>8. CASE k # 1
  <2>1. k \in Nat /\ k - 1 \in 1..n /\ k \in 1..n /\ ~(k <= k - 1) BY <1>8
  <2>2. k - 1 \notin Bad BY <1>5, <2>1
  <2> DEFINE p == f[k-1]
             q == seqs[k]
  <2>3. p \in Seq(S) /\ Len(p) > 0 /\ p[1] = seqs[1][1] /\ q \in Seq(S) /\ f[k] = p \o q
    BY <1>6, <1>8, <2>1, <2>2
  <2> HIDE DEF p, q
  <2>4. p \o q \in Seq(S) /\ Len(p \o q) > 0 /\ (p \o q)[1] = p[1] BY <2>3
  <2> QED BY <1>5, <2>3, <2>4
<1> QED BY <1>7, <1>8

-----------------------------------------------------------------------------
(* The statements there are, and the order of what they are for. *)
Creation == [op |-> "create"]
ColumnOps == {"add", "drop", "modify", "dropPrimary", "addPrimary", "dropKey", "addKey"}
Statements ==
  {Creation} \cup [op : ColumnOps, name : Columns]
             \cup [op : {"addUnique", "dropUnique"}, name : UniqueKeys]
Stmt(op, x) == [op |-> op, name |-> x]

Phase(s) ==
  IF s.op = "add" THEN 1 ELSE IF s.op = "drop" THEN 2
  ELSE IF s.op = "addUnique" THEN 4 ELSE IF s.op = "dropUnique" THEN 5 ELSE 3

(* A list of statements that are all different and go from phase to phase. *)
Before(r, s) == r # s /\ Phase(r) <= Phase(s)
Neat(q) ==
  /\ q \in Seq(Statements)
  /\ \A i, j \in 1..Len(q) : i < j => Before(q[i], q[j])

LEMMA NeatConcat ==
  ASSUME NEW p, NEW q, Neat(p), Neat(q),
         \A r \in ToSet(p), s \in ToSet(q) : Before(r, s)
  PROVE  Neat(p \o q)
<1>1. /\ p \in Seq(Statements) /\ q \in Seq(Statements)
      /\ Len(p) \in Nat /\ Len(q) \in Nat /\ Len(p \o q) = Len(p) + Len(q)
      /\ \A i \in 1..(Len(p) + Len(q)) : (p \o q)[i] = IF i <= Len(p) THEN p[i] ELSE q[i - Len(p)]
  BY ConcatProperties, LenProperties DEF Neat
<1>2. p \o q \in Seq(Statements) BY <1>1, ConcatProperties
<1>3. ASSUME NEW i \in 1..(Len(p) + Len(q)), NEW j \in 1..(Len(p) + Len(q)), i < j
      PROVE  Before((p \o q)[i], (p \o q)[j])
  <2>1. CASE j <= Len(p)
    <3>1. i \in 1..Len(p) /\ j \in 1..Len(p) /\ i <= Len(p) BY ONLY <1>1, <1>3, <2>1
    <3>2. (p \o q)[i] = p[i] /\ (p \o q)[j] = p[j] BY <1>1, <2>1, <3>1
    <3> QED BY <1>3, <3>1, <3>2 DEF Neat
  <2>2. CASE i > Len(p)
    <3>1. i - Len(p) \in 1..Len(q) /\ j - Len(p) \in 1..Len(q) /\ i - Len(p) < j - Len(p)
          /\ ~(i <= Len(p)) /\ ~(j <= Len(p))
      BY ONLY <1>1, <1>3, <2>2
    <3>2. (p \o q)[i] = q[i - Len(p)] /\ (p \o q)[j] = q[j - Len(p)] BY <1>1, <3>1
    <3> QED BY <3>1, <3>2 DEF Neat
  <2>3. CASE i <= Len(p) /\ ~(j <= Len(p))
    <3>1. i \in 1..Len(p) /\ j - Len(p) \in 1..Len(q) BY ONLY <1>1, <1>3, <2>3
    <3>2. (p \o q)[i] = p[i] /\ (p \o q)[j] = q[j - Len(p)] BY <1>1, <2>3
    <3>3. p[i] \in ToSet(p) /\ q[j - Len(p)] \in ToSet(q) BY <1>1, <3>1 DEF ToSet
    <3> QED BY <3>2, <3>3
  <2>4. (j <= Len(p)) \/ (i > Len(p)) \/ (i <= Len(p) /\ ~(j <= Len(p))) BY ONLY <1>1, <1>3
  <2> QED BY <2>1, <2>2, <2>3, <2>4
<1> QED BY <1>1, <1>2, <1>3 DEF Neat

(* What a neat list leaves after its head. *)
LEMMA NeatTail ==
  ASSUME NEW q, Neat(q), q # <<>>
  PROVE  /\ Neat(Tail(q)) /\ Head(q) \in Statements
         /\ ToSet(q) = {Head(q)} \cup ToSet(Tail(q))
         /\ \A s \in ToSet(Tail(q)) : Before(Head(q), s)
<1>1. /\ q \in Seq(Statements) /\ Len(q) \in Nat /\ Len(q) >= 1 /\ Head(q) = q[1]
      /\ Tail(q) \in Seq(Statements) /\ Len(Tail(q)) = Len(q) - 1
      /\ \A i \in 1..(Len(q) - 1) : Tail(q)[i] = q[i + 1]
  BY HeadTailProperties, EmptySeq DEF Neat
<1>2. \A i \in 1..(Len(q) - 1) : i + 1 \in 1..Len(q) /\ 1 < i + 1 BY ONLY <1>1
<1>3. 1 \in 1..Len(q) BY ONLY <1>1
<1>4. \A i \in 1..Len(q) : i = 1 \/ (i - 1 \in 1..(Len(q) - 1) /\ (i - 1) + 1 = i) BY ONLY <1>1
<1>5. Neat(Tail(q))
  <2>1. ASSUME NEW i \in 1..(Len(q) - 1), NEW j \in 1..(Len(q) - 1), i < j
        PROVE  Before(Tail(q)[i], Tail(q)[j])
    <3>1. i + 1 < j + 1 BY ONLY <1>1, <2>1
    <3> QED BY <1>1, <1>2, <3>1 DEF Neat
  <2> QED BY <1>1, <2>1 DEF Neat
<1>6. /\ DOMAIN q = 1..Len(q) /\ DOMAIN Tail(q) = 1..(Len(q) - 1) BY <1>1
<1>9. /\ ToSet(q) = {q[i] : i \in 1..Len(q)}
      /\ ToSet(Tail(q)) = {Tail(q)[i] : i \in 1..(Len(q) - 1)}
  BY Zenon, <1>6 DEF ToSet
<1>7. ToSet(q) = {Head(q)} \cup ToSet(Tail(q))
  <2>1. ASSUME NEW i \in 1..Len(q) PROVE q[i] = Head(q) \/ q[i] \in ToSet(Tail(q))
    BY <1>1, <1>4, <1>9
  <2>2. ASSUME NEW i \in 1..(Len(q) - 1) PROVE Tail(q)[i] \in ToSet(q) BY <1>1, <1>2, <1>9
  <2> QED BY <1>1, <1>3, <1>9, <2>1, <2>2
<1>8. ASSUME NEW i \in 1..(Len(q) - 1) PROVE Before(Head(q), Tail(q)[i])
  BY <1>1, <1>2, <1>3 DEF Neat
<1>10. \A s \in ToSet(Tail(q)) : Before(Head(q), s) BY <1>8, <1>9
<1>11. Head(q) \in Statements BY <1>1, <1>3
<1> QED BY <1>5, <1>7, <1>10, <1>11

(* Neat lists for names, one after the other. *)
LEMMA FlattenNeat ==
  ASSUME NEW n \in Nat, NEW seqs \in [1..n -> Seq(Statements)], \A i \in 1..n : Neat(seqs[i]),
         \A i, j \in 1..n : i < j => \A r \in ToSet(seqs[i]), s \in ToSet(seqs[j]) : Before(r, s)
  PROVE  Neat(FlattenSeq(seqs))
<1>1. seqs \in Seq(Seq(Statements)) /\ Len(seqs) = n BY LenProperties
<1>2. CASE n = 0
  <2>1. FlattenSeq(seqs) = <<>> BY <1>1, <1>2 DEF FlattenSeq
  <2> QED BY <2>1 DEF Neat
<1>3. CASE n # 0
  <2> DEFINE f == CHOOSE g : PrefixJoins(g, seqs, n)
  <2>1. PrefixJoins(f, seqs, n) BY JoinsTo
  <2>2. FlattenSeq(seqs) = f[n] BY <1>1, <1>3 DEF FlattenSeq, PrefixJoins
  <2> HIDE DEF f
  <2> DEFINE Bad == {k \in 1..n : ~Neat(f[k])}
  <2>3. SUFFICES ASSUME Bad # {} PROVE FALSE
    <3>1. n \in 1..n BY <1>3
    <3> QED BY <2>2, <3>1
  <2>4. PICK k \in Bad : \A y \in Bad : k <= y
    <3>1. Bad \subseteq Nat OBVIOUS
    <3> QED BY <2>3, <3>1, LeastNumber
  <2>5. f[k] = IF k = 1 THEN seqs[k] ELSE f[k-1] \o seqs[k] BY <2>1, <2>4 DEF PrefixJoins
  <2>6. k # 1 BY <2>4, <2>5
  <2>7. k \in Nat /\ k - 1 \in 1..n /\ k \in 1..n /\ ~(k <= k - 1) BY <2>6
  <2>8. Neat(f[k-1]) /\ Neat(seqs[k]) BY <2>4, <2>7
  <2>9. Holds(f[k-1], seqs, k-1, Statements)
    <3> DEFINE m == k - 1
    <3>1. m \in Nat \ {0} /\ 1..m \subseteq 1..n BY <2>7
    <3>2. \A i \in 1..m : seqs[i] \in Seq(Statements) BY <3>1
    <3> DEFINE g == [i \in 1..m |-> f[i]]
    <3>3. \A i \in 1..m : g[i] = IF i = 1 THEN seqs[i] ELSE g[i-1] \o seqs[i]
      <4>1. \A i \in 1..m : i # 1 => i - 1 \in 1..m BY <3>1
      <4>2. \A i \in 1..m : f[i] = IF i = 1 THEN seqs[i] ELSE f[i-1] \o seqs[i]
        BY <2>1, <3>1 DEF PrefixJoins
      <4> QED BY <4>1, <4>2
    <3>4. PrefixJoins(g, seqs, m)
      <4>1. g = [i \in 1..m |-> IF i = 1 THEN seqs[i] ELSE g[i-1] \o seqs[i]] BY <3>3
      <4> HIDE DEF g
      <4> QED BY <4>1 DEF PrefixJoins
    <3>5. g[m] = f[m] BY <3>1
    <3> HIDE DEF g, m
    <3>6. Holds(g[m], seqs, m, Statements) BY <3>1, <3>2, <3>4, JoinsHold
    <3> QED BY <3>5, <3>6 DEF m
  <2>10. ASSUME NEW r \in ToSet(f[k-1]), NEW s \in ToSet(seqs[k]) PROVE Before(r, s)
    <3>1. PICK i \in 1..(k-1) : r \in ToSet(seqs[i]) BY <2>9 DEF Holds
    <3>2. i \in 1..n /\ i < k BY <2>7
    <3> QED BY <2>7, <3>1, <3>2
  <2>11. Neat(f[k-1] \o seqs[k]) BY <2>8, <2>10, NeatConcat
  <2> QED BY <2>4, <2>5, <2>6, <2>11
<1> QED BY <1>2, <1>3
-----------------------------------------------------------------------------
(* What each statement makes of a table.                                   *)

(* A table's parts are of its own columns. *)
Parts(t) ==
  /\ t = [type |-> t.type, pk |-> t.pk, keys |-> t.keys, uniq |-> t.uniq]
  /\ ColumnsOf(t) \subseteq Columns /\ ColumnsOf(t) # {} /\ t.type \in [ColumnsOf(t) -> Types]
  /\ t.pk \subseteq ColumnsOf(t) /\ t.keys \subseteq [name : KeyNames, column : ColumnsOf(t)]
  /\ DOMAIN t.uniq \subseteq UniqueKeys
  /\ t.uniq \in [DOMAIN t.uniq -> Seq(ColumnsOf(t)) \ {<<>>}]

LEMMA ShapedParts == \A t : Shaped(t) <=> Parts(t)
<1>1. ASSUME NEW t, Shaped(t) PROVE Parts(t)
  <2>1. PICK C \in SUBSET Columns, K \in SUBSET UniqueKeys :
          C # {} /\ t \in [type : [C -> Types], pk : SUBSET C,
                           keys : SUBSET [name : KeyNames, column : C],
                           uniq : [K -> Seq(C) \ {<<>>}]]
    BY <1>1 DEF Shaped
  <2>2. /\ t.type \in [C -> Types] /\ t.pk \in SUBSET C
        /\ t.keys \in SUBSET [name : KeyNames, column : C]
        /\ t.uniq \in [K -> Seq(C) \ {<<>>}]
        /\ t = [type |-> t.type, pk |-> t.pk, keys |-> t.keys, uniq |-> t.uniq]
    BY <2>1
  <2>3. DOMAIN t.type = C /\ DOMAIN t.uniq = K BY <2>2
  <2> QED BY <2>1, <2>2, <2>3 DEF Parts, ColumnsOf
<1>2. ASSUME NEW t, Parts(t) PROVE Shaped(t)
  <2> DEFINE C == ColumnsOf(t)
             K == DOMAIN t.uniq
  <2>1. C \in SUBSET Columns /\ K \in SUBSET UniqueKeys /\ C # {} BY <1>2 DEF Parts
  <2>2. t \in [type : [C -> Types], pk : SUBSET C, keys : SUBSET [name : KeyNames, column : C],
              uniq : [K -> Seq(C) \ {<<>>}]]
    BY <1>2 DEF Parts
  <2> HIDE DEF C, K
  <2> QED BY <2>1, <2>2 DEF Shaped
<1> QED BY <1>1, <1>2

LEMMA WithoutHolds ==
  ASSUME NEW C, NEW key \in Seq(C), NEW x
  PROVE  /\ Without(key, x) \in Seq(C \ {x})
         /\ key # <<>> /\ key[1] # x => Without(key, x) # <<>> /\ Without(key, x)[1] = key[1]
<1> DEFINE n == Len(key)
           seqs == [i \in 1..n |-> IF key[i] = x THEN <<>> ELSE <<key[i]>>]
<1>1. n \in Nat /\ DOMAIN key = 1..n /\ \A i \in 1..n : key[i] \in C BY LenProperties
<1>2. Without(key, x) = FlattenSeq(seqs) BY <1>1 DEF Without
<1>3. seqs \in [1..n -> Seq(C \ {x})]
  <2>1. ASSUME NEW i \in 1..n PROVE seqs[i] \in Seq(C \ {x})
    <3>1. CASE key[i] = x BY <3>1
    <3>2. CASE key[i] # x
      <4> DEFINE k == key[i]
      <4>1. k \in C \ {x} /\ seqs[i] = <<k>> BY <1>1, <3>2
      <4> HIDE DEF k, seqs
      <4> QED BY <4>1
    <3> QED BY <3>1, <3>2
  <2> QED BY <2>1
<1>4. key # <<>> /\ key[1] # x => n # 0 /\ seqs[1] = <<key[1]>> BY <1>1, EmptySeq
<1>5. FlattenSeq(seqs) \in Seq(C \ {x})
  <2> HIDE DEF n, seqs
  <2> QED BY <1>1, <1>3, FlattenHolds DEF Holds
<1>6. ASSUME key # <<>>, key[1] # x
      PROVE  FlattenSeq(seqs) # <<>> /\ FlattenSeq(seqs)[1] = key[1]
  <2>1. n \in Nat \ {0} /\ seqs[1] # <<>> /\ seqs[1][1] = key[1] BY <1>1, <1>4, <1>6
  <2> HIDE DEF n, seqs
  <2> QED BY <1>3, <2>1, FlattenHead
<1> HIDE DEF seqs
<1> QED BY <1>2, <1>5, <1>6

(* Nothing is left to pin where the primary key has no null column. *)
LEMMA PinnedTypes ==
  ASSUME NEW t, Parts(t)
  PROVE  Pinned(t) = t <=> \A f \in t.pk : t.type[f] # "null"
<1> DEFINE p == [f \in DOMAIN t.type |->
                   IF f \in t.pk /\ t.type[f] = "null" THEN "notnull" ELSE t.type[f]]
<1>1. Pinned(t) = [t EXCEPT !.type = p] BY DEF Pinned
<1>2. t = [type |-> t.type, pk |-> t.pk, keys |-> t.keys, uniq |-> t.uniq] BY DEF Parts
<1>3. Pinned(t) = [type |-> p, pk |-> t.pk, keys |-> t.keys, uniq |-> t.uniq]
  <2> HIDE DEF p
  <2> QED BY <1>1, <1>2
<1>4. Pinned(t) = t <=> p = t.type
  <2> HIDE DEF p
  <2> QED BY <1>2, <1>3
<1>5. t.pk \subseteq DOMAIN t.type /\ t.type = [f \in DOMAIN t.type |-> t.type[f]]
  BY DEF Parts, ColumnsOf
<1>6. (p = t.type) <=> \A f \in t.pk : t.type[f] # "null" BY <1>5
<1> QED BY <1>4, <1>6

(* Names that are apart stay so when keys go. *)
LEMMA FewerNames ==
  ASSUME NEW t, NEW a, NamesApart(t), a.keys \subseteq t.keys, DOMAIN a.uniq \subseteq DOMAIN t.uniq
  PROVE  NamesApart(a)
BY DEF NamesApart

(* d is t without column f. *)
IsWithout(d, t, f) ==
  /\ Parts(d) /\ ColumnsOf(d) = ColumnsOf(t) \ {f}
  /\ \A g \in ColumnsOf(d) : d.type[g] = t.type[g]
  /\ d.pk = t.pk \ {f} /\ d.keys = {k \in t.keys : k.column # f}
  /\ NamesApart(t) => NamesApart(d)
  /\ DOMAIN d.uniq \subseteq DOMAIN t.uniq
  /\ Pinned(t) = t => Pinned(d) = d
  /\ Legal(t) => Legal(d)

LEMMA Dropped ==
  ASSUME NEW t, Parts(t), NEW f, ColumnsOf(t) # {f}
  PROVE  IsWithout(DropColumn(t, f), t, f)
<1> DEFINE d == DropColumn(t, f)
           C == ColumnsOf(t)
           rest == [u \in DOMAIN t.uniq |-> Without(t.uniq[u], f)]
           K == {v \in DOMAIN rest : rest[v] # <<>>}
<1>1. d = [type |-> [g \in C \ {f} |-> t.type[g]], pk |-> t.pk \ {f}, keys |-> {k \in t.keys : k.column # f},
           uniq |-> [u \in K |-> rest[u]]]
  BY DEF DropColumn
<1>2. \A u \in DOMAIN t.uniq : t.uniq[u] \in Seq(C) /\ t.uniq[u] # <<>> BY DEF Parts
<1>3. \A u \in DOMAIN t.uniq : rest[u] \in Seq(C \ {f}) BY <1>2, WithoutHolds
<1>4. ColumnsOf(d) = C \ {f} /\ DOMAIN d.uniq = K /\ K \subseteq DOMAIN t.uniq BY <1>1 DEF ColumnsOf
<1>5. C \ {f} # {}
  <2>1. C # {} /\ C # {f} BY DEF Parts
  <2> QED BY <2>1
<1>6. Parts(d)
  <2>1. d.type \in [C \ {f} -> Types] BY <1>1 DEF Parts
  <2>2. d.uniq \in [K -> Seq(C \ {f}) \ {<<>>}]
    <3>1. d.uniq = [u \in K |-> rest[u]] BY <1>1
    <3>2. \A u \in K : rest[u] \in Seq(C \ {f}) \ {<<>>} BY <1>3, <1>4
    <3> HIDE DEF rest, K
    <3> QED BY <3>1, <3>2
  <2>3. d = [type |-> d.type, pk |-> d.pk, keys |-> d.keys, uniq |-> d.uniq] BY <1>1
  <2>4. d.pk \subseteq C \ {f} BY <1>1 DEF Parts
  <2>6. d.keys \subseteq [name : KeyNames, column : C \ {f}]
    <3>1. t.keys \subseteq [name : KeyNames, column : C] BY DEF Parts
    <3>2. d.keys = {k \in t.keys : k.column # f} BY <1>1
    <3> HIDE DEF C, d
    <3> QED BY <3>1, <3>2
  <2>5. C \ {f} \subseteq Columns /\ C \ {f} # {} /\ K \subseteq UniqueKeys BY <1>4, <1>5 DEF Parts
  <2> HIDE DEF C, K, d
  <2> QED BY <1>4, <2>1, <2>2, <2>3, <2>4, <2>5, <2>6 DEF Parts
<1>7. \A g \in ColumnsOf(d) : d.type[g] = t.type[g]
  <2>1. d.type = [g \in C \ {f} |-> t.type[g]] BY <1>1
  <2> QED BY <1>4, <2>1
<1>8. ASSUME Pinned(t) = t PROVE Pinned(d) = d
  <2>1. \A g \in t.pk : t.type[g] # "null" BY <1>8, PinnedTypes
  <2>2. \A g \in d.pk : d.type[g] # "null" BY <1>1, <1>6, <1>7, <2>1 DEF Parts
  <2> HIDE DEF d
  <2> QED BY <1>6, <2>2, PinnedTypes
<1>9. ASSUME Legal(t) PROVE Legal(d)
  <2>1. SUFFICES ASSUME NEW g \in ColumnsOf(d), d.type[g] = "auto"
                 PROVE  /\ g \in d.pk \cup KeyedColumns(d) \/ \E u \in DOMAIN d.uniq : Head(d.uniq[u]) = g
                        /\ \A h \in ColumnsOf(d) : d.type[h] = "auto" => h = g
    BY DEF Legal
  <2>2. g \in ColumnsOf(t) /\ g # f /\ t.type[g] = "auto" BY <1>4, <1>7, <2>1
  <2>3. \A h \in ColumnsOf(d) : d.type[h] = "auto" => h = g
    BY <1>4, <1>7, <1>9, <2>2 DEF Legal
  <2>0. d.pk = t.pk \ {f} /\ KeyedColumns(d) = KeyedColumns(t) \ {f} BY <1>1 DEF KeyedColumns
  <2>4. CASE g \in t.pk \cup KeyedColumns(t)
    <3>1. g \in d.pk \cup KeyedColumns(d) BY <2>0, <2>2, <2>4
    <3> QED BY <2>3, <3>1
  <2>5. CASE \E u \in DOMAIN t.uniq : Head(t.uniq[u]) = g
    <3>1. PICK u \in DOMAIN t.uniq : Head(t.uniq[u]) = g BY <2>5
    <3> DEFINE key == t.uniq[u]
    <3>2. key \in Seq(C) /\ key # <<>> /\ key[1] = g BY <1>2, <3>1
    <3>3. rest[u] # <<>> /\ rest[u][1] = g
      <4>1. rest[u] = Without(key, f) OBVIOUS
      <4> HIDE DEF key, C, rest
      <4> QED BY <2>2, <3>2, <4>1, WithoutHolds
    <3>4. u \in K /\ d.uniq[u] = rest[u] BY <1>1, <3>3
    <3>5. Head(d.uniq[u]) = g BY <3>3, <3>4
    <3> QED BY <1>4, <2>3, <3>4, <3>5
  <2> QED BY <1>9, <2>2, <2>4, <2>5 DEF Legal
<1>10. d.pk = t.pk \ {f} /\ d.keys = {k \in t.keys : k.column # f} BY <1>1
<1>11. ColumnsOf(d) = ColumnsOf(t) \ {f} /\ DOMAIN d.uniq \subseteq DOMAIN t.uniq BY <1>4
<1> HIDE DEF d
<1>13. NamesApart(t) => NamesApart(d) BY <1>10, <1>11, FewerNames
<1>12. IsWithout(d, t, f) BY <1>6, <1>7, <1>8, <1>9, <1>10, <1>11, <1>13 DEF IsWithout
<1> QED BY <1>12 DEF d
(* What is wanted, as it was read from a table of the other database. *)
Wanted(w) ==
  /\ DOMAIN w.type \subseteq Columns /\ DOMAIN w.type # {}
  /\ w.type \in [DOMAIN w.type -> Types]
  /\ DOMAIN w.key = DOMAIN w.type
  /\ DOMAIN w.uniq \subseteq UniqueKeys
  /\ w.uniq \in [DOMAIN w.uniq -> Seq(DOMAIN w.type) \ {<<>>}]
  /\ \A f \in DOMAIN w.type : w.key[f] = "PRI" => w.type[f] # "null"
  /\ \A f \in DOMAIN w.type : f \notin UniColumns(w) => w.key[f] \in {"PRI", "MUL", ""}

(* A key column that no unique key has. *)
LEMMA OwnKey ==
  ASSUME NEW t, Parts(t), NEW f, f \notin UniColumns(t)
  PROVE  /\ ColumnKey(t, f) = IF f \in t.pk THEN "PRI"
                              ELSE IF f \in KeyedColumns(t) THEN "MUL" ELSE ""
         /\ f \notin Promoted(t)
<1>1. \A u \in DOMAIN t.uniq : f \notin ToSet(t.uniq[u]) BY DEF UniColumns
<1>2. f \notin Promoted(t)
  <2> DEFINE able == {u \in DOMAIN t.uniq : \A g \in ToSet(t.uniq[u]) : NotNull(t, g)}
             chosen == CHOOSE u \in able : TRUE
  <2>1. Promoted(t) = IF t.pk # {} \/ able = {} THEN {} ELSE ToSet(t.uniq[chosen]) BY DEF Promoted
  <2>2. able # {} => chosen \in DOMAIN t.uniq OBVIOUS
  <2> HIDE DEF able, chosen
  <2> QED BY <1>1, <2>1, <2>2
<1>3. \A u \in DOMAIN t.uniq : Head(t.uniq[u]) # f /\ t.uniq[u] # <<f>>
  <2> SUFFICES ASSUME NEW u \in DOMAIN t.uniq PROVE Head(t.uniq[u]) # f /\ t.uniq[u] # <<f>>
    OBVIOUS
  <2> DEFINE key == t.uniq[u]
  <2>1. key \in Seq(ColumnsOf(t)) /\ key # <<>> BY DEF Parts
  <2>2. f \notin ToSet(key) BY <1>1
  <2> HIDE DEF key
  <2>3. 1 \in DOMAIN key /\ Head(key) = key[1] BY <2>1
  <2>4. key[1] \in ToSet(key) BY <2>3 DEF ToSet
  <2>5. Head(<<f>>) = f OBVIOUS
  <2>6. Head(key) # f /\ key # <<f>> BY <2>2, <2>3, <2>4, <2>5
  <2> QED BY <2>6 DEF key
<1>4. {t.uniq[u] : u \in {v \in DOMAIN t.uniq : Head(t.uniq[v]) = f}} = {} BY <1>3
<1> QED BY <1>2, <1>4 DEF ColumnKey

LEMMA ReadWanted == ASSUME NEW t, Sound(t) PROVE Wanted(Read(t))
<1> DEFINE w == Read(t)
<1>1. Parts(t) BY ShapedParts DEF Sound
<1>2. w.type = t.type /\ w.uniq = t.uniq /\ w.key = [f \in ColumnsOf(t) |-> ColumnKey(t, f)]
  BY DEF Read
<1>3. DOMAIN w.type = ColumnsOf(t) /\ DOMAIN w.key = ColumnsOf(t) BY <1>2 DEF ColumnsOf
<1>4. UniColumns(w) = UniColumns(t) BY <1>2 DEF UniColumns
<1>5. ASSUME NEW f \in ColumnsOf(t), w.key[f] = "PRI" PROVE w.type[f] # "null"
  <2>1. ColumnKey(t, f) = "PRI" BY <1>2, <1>5
  <2>2. f \in t.pk \cup Promoted(t) BY <2>1 DEF ColumnKey
  <2>3. CASE f \in t.pk BY <1>1, <1>2, <2>3, PinnedTypes DEF Sound
  <2>4. CASE f \in Promoted(t)
    <3> DEFINE able == {u \in DOMAIN t.uniq : \A g \in ToSet(t.uniq[u]) : NotNull(t, g)}
               chosen == CHOOSE u \in able : TRUE
    <3>1. Promoted(t) = IF t.pk # {} \/ able = {} THEN {} ELSE ToSet(t.uniq[chosen]) BY DEF Promoted
    <3>2. able # {} => chosen \in able OBVIOUS
    <3>3. f \in ToSet(t.uniq[chosen]) /\ chosen \in able
      <4> HIDE DEF able, chosen
      <4> QED BY <2>4, <3>1, <3>2
    <3>4. \A g \in ToSet(t.uniq[chosen]) : NotNull(t, g) BY <3>3
    <3> QED BY <1>2, <3>3, <3>4 DEF NotNull
  <2> QED BY <2>2, <2>3, <2>4
<1>6. ASSUME NEW f \in ColumnsOf(t), f \notin UniColumns(w) PROVE w.key[f] \in {"PRI", "MUL", ""}
  <2>1. w.key[f] = ColumnKey(t, f) BY <1>2
  <2>2. f \notin UniColumns(t) BY <1>4, <1>6
  <2> HIDE DEF w
  <2> QED BY <1>1, <2>1, <2>2, OwnKey
<1>7. w.type \in [ColumnsOf(t) -> Types] /\ w.uniq \in [DOMAIN w.uniq -> Seq(ColumnsOf(t)) \ {<<>>}]
      /\ ColumnsOf(t) \subseteq Columns /\ ColumnsOf(t) # {} /\ DOMAIN w.uniq \subseteq UniqueKeys
  BY <1>1, <1>2 DEF Parts
<1> HIDE DEF w
<1>8. Wanted(w) BY <1>3, <1>5, <1>6, <1>7 DEF Wanted
<1> QED BY <1>8 DEF w

(* A pinned table.                                                         *)
LEMMA PinnedParts ==
  ASSUME NEW t, Parts(t)
  PROVE  /\ Parts(Pinned(t)) /\ ColumnsOf(Pinned(t)) = ColumnsOf(t)
         /\ Pinned(t).pk = t.pk /\ Pinned(t).keys = t.keys /\ Pinned(t).uniq = t.uniq
         /\ \A f \in ColumnsOf(t) :
              Pinned(t).type[f] = IF f \in t.pk /\ t.type[f] = "null" THEN "notnull" ELSE t.type[f]
         /\ Pinned(Pinned(t)) = Pinned(t)
<1> DEFINE p == [f \in DOMAIN t.type |->
                   IF f \in t.pk /\ t.type[f] = "null" THEN "notnull" ELSE t.type[f]]
           a == [type |-> p, pk |-> t.pk, keys |-> t.keys, uniq |-> t.uniq]
<1>1. Pinned(t) = [t EXCEPT !.type = p] BY DEF Pinned
<1>2. t = [type |-> t.type, pk |-> t.pk, keys |-> t.keys, uniq |-> t.uniq] BY DEF Parts
<1>3. Pinned(t) = a
  <2> HIDE DEF p
  <2> QED BY <1>1, <1>2
<1>4. p \in [ColumnsOf(t) -> Types] BY DEF Parts, ColumnsOf, Types
<1>5. ColumnsOf(a) = ColumnsOf(t) BY DEF ColumnsOf
<1>6. \A f \in ColumnsOf(t) : p[f] = IF f \in t.pk /\ t.type[f] = "null" THEN "notnull" ELSE t.type[f]
  BY DEF ColumnsOf
<1>7. a.type = p /\ a.pk = t.pk /\ a.keys = t.keys /\ a.uniq = t.uniq
      /\ a = [type |-> a.type, pk |-> a.pk, keys |-> a.keys, uniq |-> a.uniq]
  BY DEF a
<1> HIDE DEF a, p
<1>8. Parts(a) BY <1>4, <1>5, <1>7 DEF Parts
<1>9. \A f \in a.pk : a.type[f] # "null" BY <1>5, <1>6, <1>7, <1>8 DEF Parts
<1>10. Pinned(a) = a BY <1>8, <1>9, PinnedTypes
<1> QED BY <1>3, <1>5, <1>6, <1>7, <1>8, <1>10

-----------------------------------------------------------------------------
(* What statement s makes of table t: a. *)
Effect(a, t, s) ==
  /\ Parts(a) /\ Pinned(a) = a /\ NamesApart(a)
  /\ ColumnsOf(a) = IF s.op = "add" THEN ColumnsOf(t) \cup {s.name}
                    ELSE IF s.op = "drop" THEN ColumnsOf(t) \ {s.name} ELSE ColumnsOf(t)
  /\ \A f \in ColumnsOf(a) \ {s.name} : a.type[f] = t.type[f]
  /\ s.op \notin {"add", "drop", "modify", "addPrimary"} => a.type = t.type
  /\ s.op = "add" => a.type[s.name] = wanted.type[s.name]
  /\ s.op = "modify" =>
       a.type[s.name] = IF s.name \in t.pk /\ wanted.type[s.name] = "null" THEN "notnull"
                        ELSE wanted.type[s.name]
  /\ s.op = "addPrimary" =>
       a.type[s.name] = IF t.type[s.name] = "null" THEN "notnull" ELSE t.type[s.name]
  /\ a.pk = IF s.op = "dropPrimary" THEN {} ELSE IF s.op = "addPrimary" THEN {s.name}
            ELSE IF s.op = "drop" THEN t.pk \ {s.name} ELSE t.pk
  /\ s.op = "addKey" => \E n \in KeyNames : a.keys = t.keys \cup {PlainKey(n, s.name)}
  /\ s.op = "drop" => a.keys = {k \in t.keys : k.column # s.name}
  /\ s.op \in {"dropKey", "dropUnique"} =>
       a.keys = {k \in t.keys : k.name # s.name} /\ s.name \notin DOMAIN a.uniq
  /\ s.op \notin {"addKey", "drop", "dropKey", "dropUnique"} => a.keys = t.keys
  /\ DOMAIN t.uniq \ {s.name} = DOMAIN a.uniq \ {s.name} \/ s.op = "drop"
  /\ s.op = "drop" => DOMAIN a.uniq \subseteq DOMAIN t.uniq
  /\ s.op = "addUnique" => s.name \in DOMAIN a.uniq
  /\ s.op \notin {"addUnique", "dropUnique", "drop", "dropKey"} => a.uniq = t.uniq
  /\ s.op = "dropKey" /\ s.name \notin DOMAIN t.uniq => a.uniq = t.uniq
  /\ s.op \notin {"drop", "dropUnique", "dropKey"} => UniColumns(t) \subseteq UniColumns(a)

(* Statements about a column are about one that is there, except to add it. *)
Fits(t, s) ==
  /\ s \in Statements \ {Creation}
  /\ s.op = "add" => s.name \in DOMAIN wanted.type /\ s.name \notin ColumnsOf(t)
  /\ s.op = "modify" => s.name \in DOMAIN wanted.type
  /\ s.op \in {"modify", "dropPrimary", "addPrimary", "dropKey", "addKey"} => s.name \in ColumnsOf(t)
  /\ s.op = "addUnique" => s.name \in DOMAIN wanted.uniq

LEMMA AlteredEffect ==
  ASSUME NEW t, Parts(t), Pinned(t) = t, NamesApart(t), NEW s, Fits(t, s), Wanted(wanted),
         ~Refused(t, s), NEW n, s.op = "addKey" => n \in NewNames(t, s.name)
  PROVE  Effect(Altered(t, s, n), t, s)
<1> DEFINE a == Altered(t, s, n)
           C == ColumnsOf(t)
           x == s.name
<1>0. /\ t = [type |-> t.type, pk |-> t.pk, keys |-> t.keys, uniq |-> t.uniq]
      /\ C \subseteq Columns /\ C # {} /\ t.type \in [C -> Types]
      /\ t.pk \subseteq C /\ t.keys \subseteq [name : KeyNames, column : C]
      /\ DOMAIN t.uniq \subseteq UniqueKeys
      /\ t.uniq \in [DOMAIN t.uniq -> Seq(C) \ {<<>>}] /\ C = DOMAIN t.type
  BY DEF Parts, ColumnsOf
<1>00. \A f \in t.pk : t.type[f] # "null" BY PinnedTypes
<1>1. /\ s.op \in ColumnOps => x \in Columns
      /\ s.op \in {"addUnique", "dropUnique"} => x \in UniqueKeys
      /\ s.op \in ColumnOps \cup {"addUnique", "dropUnique"}
  BY DEF Fits, Statements, Creation, ColumnOps
<1>2. CASE s.op = "add"
  <2> DEFINE T == Put(t.type, x, wanted.type[x])
             r == [type |-> T, pk |-> t.pk, keys |-> t.keys, uniq |-> t.uniq]
  <2>1. a = r
    <3>1. a = [t EXCEPT !.type = T] BY <1>2 DEF Altered
    <3> HIDE DEF T, a
    <3> QED BY <1>0, <3>1
  <2>2. /\ x \in DOMAIN wanted.type /\ x \notin C /\ x \in Columns
        /\ wanted.type[x] \in Types
    BY <1>1, <1>2 DEF Fits, Wanted, ColumnOps
  <2>3. T \in [C \cup {x} -> Types] /\ T[x] = wanted.type[x] /\ \A f \in C : T[f] = t.type[f]
    BY <1>0, <2>2 DEF Put
  <2> HIDE DEF T
  <2>4. r.type = T /\ r.pk = t.pk /\ r.keys = t.keys /\ r.uniq = t.uniq OBVIOUS
  <2>5. ColumnsOf(r) = C \cup {x} BY <2>3, <2>4 DEF ColumnsOf
  <2>6. Parts(r)
    <3>1. t.uniq \in [DOMAIN t.uniq -> Seq(C \cup {x}) \ {<<>>}] BY <1>0
    <3>2. t.keys \subseteq [name : KeyNames, column : C \cup {x}] BY <1>0
    <3> HIDE DEF r, C, x
    <3> QED BY <1>0, <2>1, <2>2, <2>3, <2>4, <2>5, <3>1, <3>2 DEF Parts, r
  <2>7. \A f \in r.pk : r.type[f] # "null" BY <1>0, <1>00, <2>2, <2>3, <2>4
  <2>8. UniColumns(r) = UniColumns(t) BY <2>4 DEF UniColumns
  <2> HIDE DEF r, a, C
  <2>9. Pinned(r) = r BY <2>6, <2>7, PinnedTypes
  <2>10. NamesApart(r) BY <2>4, FewerNames
  <2> QED BY <1>2, <2>1, <2>2, <2>3, <2>4, <2>5, <2>6, <2>8, <2>9, <2>10 DEF Effect, a, C
<1>3. CASE s.op = "drop"
  <2>1. a = DropColumn(t, x) BY <1>3 DEF Altered
  <2>2. C # {x} BY <1>3 DEF Refused
  <2>3. IsWithout(a, t, x) BY <2>1, <2>2, Dropped
  <2> HIDE DEF a
  <2>20. Effect(a, t, s) BY <1>3, <2>3 DEF IsWithout, Effect
  <2> QED BY <2>20 DEF a
<1>4. CASE s.op = "modify"
  <2> DEFINE T == [t.type EXCEPT ![x] = wanted.type[x]]
             r == [type |-> T, pk |-> t.pk, keys |-> t.keys, uniq |-> t.uniq]
  <2>1. a = Pinned(r)
    <3>1. a = Pinned([t EXCEPT !.type[x] = wanted.type[x]]) BY <1>4 DEF Altered
    <3>2. [t EXCEPT !.type[x] = wanted.type[x]] = [t EXCEPT !.type = T] BY <1>0
    <3>3. [t EXCEPT !.type = T] = r
      <4> HIDE DEF T
      <4> QED BY <1>0
    <3> HIDE DEF a, r
    <3> QED BY <3>1, <3>2, <3>3
  <2>2. x \in DOMAIN wanted.type /\ x \in C /\ wanted.type[x] \in Types
    BY <1>4 DEF Fits, Wanted
  <2>3. T \in [C -> Types] /\ T[x] = wanted.type[x] /\ \A f \in C \ {x} : T[f] = t.type[f]
    BY <1>0, <2>2
  <2> HIDE DEF T
  <2>4. r.type = T /\ r.pk = t.pk /\ r.keys = t.keys /\ r.uniq = t.uniq OBVIOUS
  <2>5. ColumnsOf(r) = C BY <2>3, <2>4 DEF ColumnsOf
  <2>6. Parts(r)
    <3> HIDE DEF r, C, x
    <3> QED BY <1>0, <2>3, <2>4, <2>5 DEF Parts, r
  <2> HIDE DEF r, a, C
  <2>7. /\ Parts(a) /\ ColumnsOf(a) = C /\ a.pk = t.pk /\ a.keys = t.keys /\ a.uniq = t.uniq
        /\ \A f \in C : a.type[f] = IF f \in t.pk /\ T[f] = "null" THEN "notnull" ELSE T[f]
        /\ Pinned(a) = a
    BY <2>1, <2>4, <2>5, <2>6, PinnedParts
  <2>8. UniColumns(a) = UniColumns(t) BY <2>7 DEF UniColumns
  <2>9. \A f \in C \ {x} : a.type[f] = t.type[f] BY <1>00, <2>3, <2>7
  <2>10. NamesApart(a) BY <2>7, FewerNames
  <2>20. Effect(a, t, s) BY <1>4, <2>2, <2>3, <2>7, <2>8, <2>9, <2>10 DEF Effect, C
  <2> QED BY <2>20 DEF a
<1>5. CASE s.op = "addPrimary"
  <2> DEFINE P == {x}
             r == [type |-> t.type, pk |-> P, keys |-> t.keys, uniq |-> t.uniq]
  <2>1. a = Pinned(r)
    <3>1. a = Pinned([t EXCEPT !.pk = P]) BY <1>5 DEF Altered
    <3>2. [t EXCEPT !.pk = P] = [type |-> t.type, pk |-> P, keys |-> t.keys, uniq |-> t.uniq]
      <4> HIDE DEF P
      <4> QED BY <1>0
    <3> HIDE DEF a
    <3> QED BY <3>1, <3>2
  <2>2. x \in C BY <1>5 DEF Fits
  <2>4. r.type = t.type /\ r.pk = {x} /\ r.keys = t.keys /\ r.uniq = t.uniq OBVIOUS
  <2>5. ColumnsOf(r) = C BY <2>4 DEF ColumnsOf
  <2>6. Parts(r)
    <3> HIDE DEF r, C, x
    <3> QED BY <1>0, <2>2, <2>4, <2>5 DEF Parts, r
  <2> HIDE DEF r, a, C
  <2>7. /\ Parts(a) /\ ColumnsOf(a) = C /\ a.pk = {x} /\ a.keys = t.keys /\ a.uniq = t.uniq
        /\ \A f \in C : a.type[f] = IF f \in {x} /\ t.type[f] = "null" THEN "notnull" ELSE t.type[f]
        /\ Pinned(a) = a
    BY <2>1, <2>4, <2>5, <2>6, PinnedParts
  <2>8. UniColumns(a) = UniColumns(t) BY <2>7 DEF UniColumns
  <2>10. NamesApart(a) BY <2>7, FewerNames
  <2>20. Effect(a, t, s) BY <1>5, <2>2, <2>7, <2>8, <2>10 DEF Effect, C
  <2> QED BY <2>20 DEF a
<1>6. CASE s.op \in {"dropPrimary", "addKey"}
  <2> DEFINE P == IF s.op = "dropPrimary" THEN {} ELSE t.pk
             K == IF s.op = "addKey" THEN t.keys \cup {PlainKey(n, x)} ELSE t.keys
             r == [type |-> t.type, pk |-> P, keys |-> K, uniq |-> t.uniq]
  <2>2. x \in C BY <1>6 DEF Fits
  <2>1. a = r
    <3>1. CASE s.op = "dropPrimary"
      <4>1. a = [t EXCEPT !.pk = {}] BY <3>1 DEF Altered
      <4> QED BY <1>0, <3>1, <4>1
    <3>3. CASE s.op = "addKey"
      <4>1. a = [t EXCEPT !.keys = @ \cup {PlainKey(n, x)}] BY <3>3 DEF Altered
      <4> QED BY <1>0, <3>3, <4>1
    <3> QED BY <1>6, <3>1, <3>3
  <2>11. s.op = "addKey" =>
           /\ n \in KeyNames /\ n \notin DOMAIN t.uniq
           /\ n = MadeUp \/ \A k \in t.keys : k.name # n
    <3>1. SUFFICES ASSUME s.op = "addKey"
                   PROVE  /\ n \in KeyNames /\ n \notin DOMAIN t.uniq
                          /\ n = MadeUp \/ n \notin Taken(t)
      BY DEF Taken
    <3>2. n \in NewNames(t, x) BY <3>1
    <3>3. x \in Columns BY <1>1, <3>1 DEF ColumnOps
    <3>4. MadeUp \notin DOMAIN t.uniq BY <1>0, SchemaAssumption
    <3>5. CASE x \notin Taken(t) BY <3>2, <3>3, <3>5 DEF NewNames, KeyNames, Taken
    <3>6. CASE x \in Taken(t) BY <3>2, <3>4, <3>6 DEF NewNames, Taken
    <3> QED BY <3>5, <3>6
  <2>3. P \subseteq t.pk /\ K \subseteq [name : KeyNames, column : C]
    BY <1>0, <2>2, <2>11 DEF PlainKey
  <2>4. r.type = t.type /\ r.pk = P /\ r.keys = K /\ r.uniq = t.uniq OBVIOUS
  <2>5. ColumnsOf(r) = C BY <2>4 DEF ColumnsOf
  <2>6. Parts(r)
    <3> HIDE DEF r, C, x, P, K
    <3> QED BY <1>0, <2>3, <2>4, <2>5 DEF Parts, r
  <2>7. \A f \in r.pk : r.type[f] # "null" BY <1>00, <2>3, <2>4
  <2>8. UniColumns(r) = UniColumns(t) BY <2>4 DEF UniColumns
  <2>9. Pinned(r) = r
    <3> HIDE DEF r
    <3> QED BY <2>6, <2>7, PinnedTypes
  <2>10. NamesApart(r)
    <3>1. CASE s.op # "addKey"
      <4>1. K = t.keys BY <3>1
      <4> HIDE DEF r
      <4> QED BY <2>4, <4>1, FewerNames
    <3>2. CASE s.op = "addKey"
      <4> DEFINE p == PlainKey(n, x)
      <4>1. K = t.keys \cup {p} /\ p.name = n BY <3>2 DEF PlainKey
      <4>2. n \notin DOMAIN t.uniq /\ (n = MadeUp \/ \A k \in t.keys : k.name # n) BY <2>11, <3>2
      <4> HIDE DEF r, K, p
      <4> QED BY <2>4, <4>1, <4>2 DEF NamesApart
    <3> QED BY <3>1, <3>2
  <2>12. s.op = "addKey" => \E m \in KeyNames : r.keys = t.keys \cup {PlainKey(m, x)}
    BY <2>4, <2>11
  <2> HIDE DEF r, a, C
  <2>20. Effect(a, t, s) BY <1>6, <2>1, <2>2, <2>4, <2>5, <2>6, <2>8, <2>9, <2>10, <2>12 DEF Effect, C
  <2> QED BY <2>20 DEF a
<1>8. CASE s.op \in {"dropKey", "dropUnique"}
  <2> DEFINE K == {k \in t.keys : k.name # x}
             U == [u \in DOMAIN t.uniq \ {x} |-> t.uniq[u]]
             r == [type |-> t.type, pk |-> t.pk, keys |-> K, uniq |-> U]
  <2>1. a = r
    <3>1. a = DropKey(t, x) BY <1>8 DEF Altered
    <3>2. DropKey(t, x) = [t EXCEPT !.keys = K, !.uniq = U] BY <1>0 DEF DropKey
    <3> HIDE DEF K, U, a
    <3> QED BY <1>0, <3>1, <3>2
  <2>2. DOMAIN U = DOMAIN t.uniq \ {x} /\ U \in [DOMAIN U -> Seq(C) \ {<<>>}]
    <3> HIDE DEF C
    <3> QED BY <1>0
  <2>3. x \notin DOMAIN t.uniq => U = t.uniq
    <3>1. SUFFICES ASSUME x \notin DOMAIN t.uniq PROVE U = t.uniq OBVIOUS
    <3>2. DOMAIN t.uniq \ {x} = DOMAIN t.uniq BY <3>1
    <3> QED BY <1>0, <3>2
  <2>4. K \subseteq t.keys OBVIOUS
  <2>5. K = {k \in t.keys : k.name # x} OBVIOUS
  <2> HIDE DEF K, U
  <2>6. r.type = t.type /\ r.pk = t.pk /\ r.keys = K /\ r.uniq = U OBVIOUS
  <2>7. ColumnsOf(r) = C BY <2>6 DEF ColumnsOf
  <2>8. Parts(r)
    <3> HIDE DEF r, C, x
    <3> QED BY <1>0, <2>2, <2>4, <2>6, <2>7 DEF Parts, r
  <2>9. \A f \in r.pk : r.type[f] # "null" BY <1>00, <2>6
  <2>10. Pinned(r) = r
    <3> HIDE DEF r
    <3> QED BY <2>8, <2>9, PinnedTypes
  <2> HIDE DEF r, a, C
  <2>11. NamesApart(r) BY <2>2, <2>4, <2>6, FewerNames
  <2>20. Effect(a, t, s)
    BY <1>8, <2>1, <2>2, <2>3, <2>5, <2>6, <2>7, <2>8, <2>10, <2>11 DEF Effect, C
  <2> QED BY <2>20 DEF a
<1>7. CASE s.op = "addUnique"
  <2> DEFINE U == Put(t.uniq, x, wanted.uniq[x])
             r == [type |-> t.type, pk |-> t.pk, keys |-> t.keys, uniq |-> U]
  <2>1. a = r
    <3>1. a = [t EXCEPT !.uniq = U] BY <1>7 DEF Altered
    <3> HIDE DEF U, a
    <3> QED BY <1>0, <3>1
  <2>2. x \in UniqueKeys /\ DOMAIN U \subseteq UniqueKeys BY <1>0, <1>1, <1>7 DEF Put
  <2>3. U \in [DOMAIN U -> Seq(C) \ {<<>>}]
    <3> DEFINE key == wanted.uniq[x]
               D == DOMAIN wanted.type
    <3>1. key \in Seq(D) /\ key # <<>> BY <1>7 DEF Fits, Wanted
    <3>2. ToSet(key) \subseteq C BY <1>7 DEF Refused
    <3> HIDE DEF key, D
    <3>3. \A i \in 1..Len(key) : key[i] \in ToSet(key) BY <3>1 DEF ToSet
    <3>4. key \in Seq(C) BY <3>1, <3>2, <3>3
    <3>5. U = Put(t.uniq, x, key) BY DEF key
    <3>6. DOMAIN U = DOMAIN t.uniq \cup {x} BY <3>5 DEF Put
    <3>7. \A u \in DOMAIN U : U[u] = IF u = x THEN key ELSE t.uniq[u] BY <3>5 DEF Put
    <3>8. U = [u \in DOMAIN U |-> U[u]] BY <3>5 DEF Put
    <3> HIDE DEF U, C
    <3>9. \A u \in DOMAIN U : U[u] \in Seq(C) \ {<<>>} BY <1>0, <3>1, <3>4, <3>6, <3>7
    <3> QED BY <3>8, <3>9
  <2>4. /\ DOMAIN U = DOMAIN t.uniq \cup {x} /\ x \notin Taken(t)
        /\ x \notin DOMAIN t.uniq /\ \A u \in DOMAIN t.uniq : U[u] = t.uniq[u]
    BY <1>7 DEF Put, Refused, Taken
  <2> HIDE DEF U
  <2>5. r.type = t.type /\ r.pk = t.pk /\ r.keys = t.keys /\ r.uniq = U OBVIOUS
  <2>6. ColumnsOf(r) = C BY <2>5 DEF ColumnsOf
  <2>7. Parts(r)
    <3> HIDE DEF r, C, x
    <3> QED BY <1>0, <2>2, <2>3, <2>5, <2>6 DEF Parts, r
  <2>8. \A f \in r.pk : r.type[f] # "null" BY <1>00, <2>5
  <2>9. Pinned(r) = r
    <3> HIDE DEF r
    <3> QED BY <2>7, <2>8, PinnedTypes
  <2>11. NamesApart(r)
    <3> HIDE DEF r
    <3> QED BY <2>4, <2>5 DEF NamesApart, Taken
  <2>10. UniColumns(t) \subseteq UniColumns(r) BY <2>4, <2>5 DEF UniColumns
  <2> HIDE DEF r, a, C
  <2>20. Effect(a, t, s) BY <1>7, <2>1, <2>4, <2>5, <2>6, <2>7, <2>9, <2>10, <2>11 DEF Effect, C
  <2> QED BY <2>20 DEF a
<1> QED BY <1>1, <1>2, <1>3, <1>4, <1>5, <1>6, <1>7, <1>8 DEF ColumnOps

-----------------------------------------------------------------------------
(* The statements that Table::modify() comes to.                           *)

LEMMA IfHolds ==
  ASSUME NEW c \in BOOLEAN, NEW op, NEW x, c => Stmt(op, x) \in Statements
  PROVE  /\ Neat(If(c, op, x))
         /\ \A s : s \in ToSet(If(c, op, x)) <=> c /\ s = Stmt(op, x)
<1>1. CASE c
  <2> DEFINE r == Stmt(op, x)
  <2>1. If(c, op, x) = <<r>> BY <1>1 DEF If, Stmt
  <2>2. r \in Statements BY <1>1
  <2> HIDE DEF r
  <2>3. <<r>> \in Seq(Statements) /\ Len(<<r>>) = 1 /\ DOMAIN <<r>> = {1} /\ <<r>>[1] = r BY <2>2
  <2>4. ToSet(<<r>>) = {r} BY <2>3 DEF ToSet
  <2>5. Neat(<<r>>)
    <3>1. \A i, j \in 1..1 : ~(i < j) OBVIOUS
    <3> QED BY <2>3, <3>1 DEF Neat
  <2>6. \A s : s \in ToSet(<<r>>) <=> s = r BY <2>4
  <2> QED BY <1>1, <2>1, <2>5, <2>6 DEF r
<1>2. CASE ~c
  <2>1. If(c, op, x) = <<>> BY <1>2 DEF If
  <2>2. ToSet(<<>>) = {} BY DEF ToSet
  <2>3. Neat(<<>>) BY DEF Neat
  <2> QED BY <1>2, <2>1, <2>2, <2>3
<1> QED BY <1>1, <1>2

(* A list for each name makes a list for all of them. *)
EachFor(names, seqs, k) ==
  \A i \in DOMAIN names : Neat(seqs[i]) /\ \A s \in ToSet(seqs[i]) : s.name = names[i] /\ Phase(s) = k

AllOf(q, names, seqs) ==
  Neat(q) /\ \A s : s \in ToSet(q) <=> \E i \in DOMAIN names : s \in ToSet(seqs[i])

LEMMA NamesInOrder ==
  ASSUME NEW names \in Orders
  PROVE  \E n \in Nat : /\ names \in [1..n -> Columns \cup UniqueKeys]
                        /\ \A i, j \in 1..n : names[i] = names[j] => i = j
                        /\ \A x \in Columns \cup UniqueKeys : \E i \in 1..n : names[i] = x
<1> DEFINE N == Columns \cup UniqueKeys
           n == Cardinality(N)
<1>1. n \in Nat
  <2>1. IsFiniteSet(N) BY SchemaAssumption, FS_Union
  <2> QED BY <2>1, FS_CardinalityType
<1>2. names \in [1..n -> N] /\ IsInjective(names) /\ ToSet(names) = N BY DEF Orders
<1>3. DOMAIN names = 1..n BY <1>2
<1>4. \A i, j \in 1..n : names[i] = names[j] => i = j BY <1>2, <1>3 DEF IsInjective
<1>5. \A x \in N : \E i \in 1..n : names[i] = x BY <1>2, <1>3 DEF ToSet
<1> HIDE DEF n
<1> QED BY <1>1, <1>2, <1>4, <1>5

LEMMA EachNeat ==
  ASSUME NEW names \in Orders, NEW k \in Nat, NEW seqs, DOMAIN seqs = DOMAIN names,
         seqs = [i \in DOMAIN seqs |-> seqs[i]], EachFor(names, seqs, k)
  PROVE  AllOf(FlattenSeq(seqs), names, seqs)
<1>1. PICK n \in Nat : names \in [1..n -> Columns \cup UniqueKeys]
                       /\ \A i, j \in 1..n : names[i] = names[j] => i = j
  BY NamesInOrder
<1>2. DOMAIN names = 1..n BY <1>1
<1>3. \A i \in 1..n : Neat(seqs[i]) BY <1>2 DEF EachFor
<1>4. seqs \in [1..n -> Seq(Statements)] BY <1>2, <1>3 DEF Neat
<1>5. ASSUME NEW i \in 1..n, NEW j \in 1..n, i < j, NEW r \in ToSet(seqs[i]), NEW s \in ToSet(seqs[j])
      PROVE  Before(r, s)
  <2>1. r.name = names[i] /\ s.name = names[j] /\ Phase(r) = k /\ Phase(s) = k
    BY <1>2 DEF EachFor
  <2>2. i # j BY <1>5
  <2>3. r # s BY <1>1, <2>1, <2>2
  <2>4. k <= k OBVIOUS
  <2> QED BY <2>1, <2>3, <2>4 DEF Before
<1>6. Neat(FlattenSeq(seqs)) BY <1>3, <1>4, <1>5, FlattenNeat
<1>7. Holds(FlattenSeq(seqs), seqs, n, Statements) BY <1>4, FlattenHolds
<1> QED BY <1>2, <1>6, <1>7 DEF Holds, AllOf

(* One statement for each name in T. *)
LEMMA EachIf ==
  ASSUME NEW names \in Orders, NEW op, NEW T, T \subseteq Columns \cup UniqueKeys,
         \A x \in T : Stmt(op, x) \in Statements
  PROVE  LET q == FlattenSeq([i \in DOMAIN names |-> If(names[i] \in T, op, names[i])])
         IN Neat(q) /\ \A s : s \in ToSet(q) <=> \E x \in T : s = Stmt(op, x)
<1> DEFINE seqs == [i \in DOMAIN names |-> If(names[i] \in T, op, names[i])]
           k == Phase(Stmt(op, op))
           q == FlattenSeq(seqs)
<1>1. \A x : Phase(Stmt(op, x)) = k BY DEF Phase, Stmt
<1>2. k \in Nat BY DEF Phase
<1>3. ASSUME NEW i \in DOMAIN names
      PROVE  /\ Neat(seqs[i])
             /\ \A s : s \in ToSet(seqs[i]) <=> names[i] \in T /\ s = Stmt(op, names[i])
  <2> DEFINE c == names[i] \in T
  <2>1. c \in BOOLEAN /\ (c => Stmt(op, names[i]) \in Statements) OBVIOUS
  <2>2. seqs[i] = If(c, op, names[i]) OBVIOUS
  <2> HIDE DEF c, seqs
  <2>3. Neat(seqs[i]) /\ \A s : s \in ToSet(seqs[i]) <=> c /\ s = Stmt(op, names[i])
    BY <2>1, <2>2, IfHolds
  <2> QED BY <2>3 DEF c
<1>4. EachFor(names, seqs, k)
  <2>1. \A x : Stmt(op, x).name = x BY DEF Stmt
  <2> HIDE DEF seqs, k
  <2> QED BY <1>1, <1>3, <2>1 DEF EachFor
<1>5. AllOf(q, names, seqs)
  <2>1. DOMAIN seqs = DOMAIN names /\ seqs = [i \in DOMAIN seqs |-> seqs[i]] OBVIOUS
  <2> HIDE DEF seqs, k
  <2> QED BY <1>2, <1>4, <2>1, EachNeat
<1>6. \A x \in T : \E i \in DOMAIN names : names[i] = x
  <2>1. \A x \in Columns \cup UniqueKeys : \E i \in DOMAIN names : names[i] = x BY NamesInOrder
  <2> QED BY <2>1
<1>7. Neat(q) BY <1>5 DEF AllOf
<1>8. ASSUME NEW s PROVE s \in ToSet(q) <=> \E x \in T : s = Stmt(op, x)
  <2>1. s \in ToSet(q) <=> \E i \in DOMAIN names : s \in ToSet(seqs[i]) BY <1>5 DEF AllOf
  <2> HIDE DEF q, seqs
  <2> QED BY <1>3, <1>6, <2>1
<1> HIDE DEF q, seqs
<1>9. Neat(q) /\ \A s : s \in ToSet(q) <=> \E x \in T : s = Stmt(op, x) BY <1>7, <1>8
<1> QED BY <1>9 DEF q, seqs

(* The statements for a column on both sides. *)
Retyped(old, f)     == wanted.type[f] # old.type[f]
Changed(old, f)     == wanted.key[f] # old.key[f]
LosesPrimary(old, f) == Changed(old, f) /\ DropsKey(old, f) /\ old.key[f] = "PRI"
LosesKey(old, f)    == Changed(old, f) /\ DropsKey(old, f) /\ old.key[f] # "PRI"
GainsPrimary(old, f) == Changed(old, f) /\ wanted.key[f] = "PRI"
GainsKey(old, f)    == Changed(old, f) /\ AddsKey(f) /\ wanted.key[f] # "PRI"

ForColumn(s, old, f) ==
  \/ s = Stmt("modify", f) /\ Retyped(old, f)
  \/ s = Stmt("dropPrimary", f) /\ LosesPrimary(old, f)
  \/ s = Stmt("dropKey", f) /\ LosesKey(old, f)
  \/ s = Stmt("addPrimary", f) /\ GainsPrimary(old, f)
  \/ s = Stmt("addKey", f) /\ GainsKey(old, f)

LEMMA ColumnNeat ==
  ASSUME NEW old, NEW f \in Columns
  PROVE  /\ Neat(ModifyColumn(old, f))
         /\ \A s : s \in ToSet(ModifyColumn(old, f)) <=> ForColumn(s, old, f)
         /\ \A s \in ToSet(ModifyColumn(old, f)) : s.name = f /\ Phase(s) = 3
<1> DEFINE changed == wanted.key[f] # old.key[f]
           drop == IF old.key[f] = "PRI" THEN "dropPrimary" ELSE "dropKey"
           add  == IF wanted.key[f] = "PRI" THEN "addPrimary" ELSE "addKey"
           c1 == wanted.type[f] # old.type[f]
           c2 == changed /\ DropsKey(old, f)
           c3 == changed /\ AddsKey(f)
           p == If(c1, "modify", f)
           q == If(c2, drop, f)
           r == If(c3, add, f)
<1>1. ModifyColumn(old, f) = (p \o q) \o r BY DEF ModifyColumn
<1>2. /\ Stmt("modify", f) \in Statements /\ Stmt(drop, f) \in Statements /\ Stmt(add, f) \in Statements
      /\ Phase(Stmt("modify", f)) = 3 /\ Phase(Stmt(drop, f)) = 3 /\ Phase(Stmt(add, f)) = 3
      /\ Stmt("modify", f) # Stmt(drop, f) /\ Stmt("modify", f) # Stmt(add, f) /\ Stmt(drop, f) # Stmt(add, f)
      /\ Stmt("modify", f).name = f /\ Stmt(drop, f).name = f /\ Stmt(add, f).name = f
  BY DEF Statements, Stmt, Phase, ColumnOps
<1>3. c1 \in BOOLEAN /\ c2 \in BOOLEAN /\ c3 \in BOOLEAN BY DEF DropsKey, AddsKey
<1>4. ASSUME NEW s
      PROVE  ForColumn(s, old, f) <=>
               (c1 /\ s = Stmt("modify", f)) \/ (c2 /\ s = Stmt(drop, f)) \/ (c3 /\ s = Stmt(add, f))
  <2>1. (s = Stmt("modify", f) /\ Retyped(old, f)) <=> (c1 /\ s = Stmt("modify", f)) BY DEF Retyped
  <2>2. (\/ s = Stmt("dropPrimary", f) /\ LosesPrimary(old, f)
         \/ s = Stmt("dropKey", f) /\ LosesKey(old, f)) <=> (c2 /\ s = Stmt(drop, f))
    <3>1. CASE old.key[f] = "PRI"
      <4>1. drop = "dropPrimary" BY <3>1
      <4> QED BY <3>1, <4>1 DEF LosesPrimary, LosesKey, Changed
    <3>2. CASE old.key[f] # "PRI"
      <4>1. drop = "dropKey" BY <3>2
      <4> QED BY <3>2, <4>1 DEF LosesPrimary, LosesKey, Changed
    <3> QED BY <3>1, <3>2
  <2>3. (\/ s = Stmt("addPrimary", f) /\ GainsPrimary(old, f)
         \/ s = Stmt("addKey", f) /\ GainsKey(old, f)) <=> (c3 /\ s = Stmt(add, f))
    <3>0. wanted.key[f] = "PRI" => AddsKey(f) BY DEF AddsKey
    <3>1. CASE wanted.key[f] = "PRI"
      <4>1. add = "addPrimary" BY <3>1
      <4> QED BY <3>0, <3>1, <4>1 DEF GainsPrimary, GainsKey, Changed
    <3>2. CASE wanted.key[f] # "PRI"
      <4>1. add = "addKey" BY <3>2
      <4> QED BY <3>2, <4>1 DEF GainsPrimary, GainsKey, Changed
    <3> QED BY <3>1, <3>2
  <2> HIDE DEF c1, c2, c3, drop, add
  <2> QED BY <2>1, <2>2, <2>3 DEF ForColumn
<1>5. /\ Neat(p) /\ \A s : s \in ToSet(p) <=> c1 /\ s = Stmt("modify", f)
      /\ Neat(q) /\ \A s : s \in ToSet(q) <=> c2 /\ s = Stmt(drop, f)
      /\ Neat(r) /\ \A s : s \in ToSet(r) <=> c3 /\ s = Stmt(add, f)
  <2> HIDE DEF c1, c2, c3, drop, add
  <2> QED BY <1>2, <1>3, IfHolds
<1> HIDE DEF p, q, r, c1, c2, c3, drop, add
<1>6. /\ p \in Seq(Statements) /\ q \in Seq(Statements) /\ r \in Seq(Statements) BY <1>5 DEF Neat
<1>7. p \o q \in Seq(Statements) /\ ToSet(p \o q) = ToSet(p) \cup ToSet(q)
  BY <1>6, ConcatProperties, JoinedSet
<1>8. ToSet((p \o q) \o r) = ToSet(p) \cup ToSet(q) \cup ToSet(r)
  <2> DEFINE pq == p \o q
  <2>1. pq \in Seq(Statements) /\ ToSet(pq) = ToSet(p) \cup ToSet(q) BY <1>7
  <2> HIDE DEF pq
  <2>2. ToSet(pq \o r) = ToSet(pq) \cup ToSet(r) BY <1>6, <2>1, JoinedSet
  <2>3. ToSet(pq \o r) = ToSet(p) \cup ToSet(q) \cup ToSet(r) BY <2>1, <2>2
  <2> QED BY <2>3 DEF pq
<1>9. 3 <= 3 OBVIOUS
<1>10. Neat(p \o q)
  <2>1. \A u \in ToSet(p), v \in ToSet(q) : Before(u, v) BY <1>2, <1>5, <1>9 DEF Before
  <2> QED BY <1>5, <2>1, NeatConcat
<1>11. Neat((p \o q) \o r)
  <2>1. \A u \in ToSet(p \o q), v \in ToSet(r) : Before(u, v) BY <1>2, <1>5, <1>7, <1>9 DEF Before
  <2> QED BY <1>5, <1>10, <2>1, NeatConcat
<1>12. ASSUME NEW s PROVE s \in ToSet((p \o q) \o r) <=> ForColumn(s, old, f)
  <2>1. s \in ToSet((p \o q) \o r) <=> s \in ToSet(p) \/ s \in ToSet(q) \/ s \in ToSet(r) BY <1>8
  <2>2. /\ s \in ToSet(p) <=> c1 /\ s = Stmt("modify", f)
        /\ s \in ToSet(q) <=> c2 /\ s = Stmt(drop, f)
        /\ s \in ToSet(r) <=> c3 /\ s = Stmt(add, f)
    BY <1>5
  <2> QED BY <1>4, <2>1, <2>2
<1>13. \A s \in ToSet((p \o q) \o r) : s.name = f /\ Phase(s) = 3 BY <1>2, <1>5, <1>8
<1> QED BY <1>1, <1>11, <1>12, <1>13

(* The list for a structure that was read as old. *)
Listed(s, old) ==
  \/ \E f \in DOMAIN wanted.type \ DOMAIN old.type : s = Stmt("add", f)
  \/ \E f \in DOMAIN old.type \ DOMAIN wanted.type : s = Stmt("drop", f)
  \/ \E f \in DOMAIN old.type \cap DOMAIN wanted.type : ForColumn(s, old, f)
  \/ \E u \in NewUnique(old) : s = Stmt("addUnique", u)
  \/ \E u \in DOMAIN old.uniq \ DOMAIN wanted.uniq : s = Stmt("dropUnique", u)

LEMMA EachColumn ==
  ASSUME NEW names \in Orders, NEW old, NEW T, T \subseteq Columns
  PROVE  LET q == FlattenSeq([i \in DOMAIN names |->
                                IF names[i] \in T THEN ModifyColumn(old, names[i]) ELSE <<>>])
         IN Neat(q) /\ \A s : s \in ToSet(q) <=> \E f \in T : ForColumn(s, old, f)
<1> DEFINE seqs == [i \in DOMAIN names |->
                      IF names[i] \in T THEN ModifyColumn(old, names[i]) ELSE <<>>]
           q == FlattenSeq(seqs)
<1>1. ASSUME NEW i \in DOMAIN names
      PROVE  /\ Neat(seqs[i]) /\ \A s \in ToSet(seqs[i]) : s.name = names[i] /\ Phase(s) = 3
             /\ \A s : s \in ToSet(seqs[i]) <=> names[i] \in T /\ ForColumn(s, old, names[i])
  <2>1. CASE names[i] \in T
    <3>1. names[i] \in Columns /\ seqs[i] = ModifyColumn(old, names[i]) BY <2>1
    <3> HIDE DEF seqs
    <3> QED BY <2>1, <3>1, ColumnNeat
  <2>2. CASE names[i] \notin T
    <3>1. seqs[i] = <<>> BY <2>2
    <3>2. ToSet(<<>>) = {} BY DEF ToSet
    <3>3. Neat(<<>>) BY DEF Neat
    <3> HIDE DEF seqs
    <3> QED BY <2>2, <3>1, <3>2, <3>3
  <2> QED BY <2>1, <2>2
<1>2. EachFor(names, seqs, 3)
  <2> HIDE DEF seqs
  <2> QED BY <1>1 DEF EachFor
<1>3. AllOf(q, names, seqs)
  <2>1. DOMAIN seqs = DOMAIN names /\ seqs = [i \in DOMAIN seqs |-> seqs[i]] OBVIOUS
  <2> HIDE DEF seqs
  <2> QED BY <1>2, <2>1, EachNeat
<1>4. \A x \in T : \E i \in DOMAIN names : names[i] = x
  <2>1. \A x \in Columns \cup UniqueKeys : \E i \in DOMAIN names : names[i] = x BY NamesInOrder
  <2> QED BY <2>1
<1>5. Neat(q) BY <1>3 DEF AllOf
<1>6. ASSUME NEW s PROVE s \in ToSet(q) <=> \E f \in T : ForColumn(s, old, f)
  <2>1. s \in ToSet(q) <=> \E i \in DOMAIN names : s \in ToSet(seqs[i]) BY <1>3 DEF AllOf
  <2> HIDE DEF q, seqs
  <2> QED BY <1>1, <1>4, <2>1
<1> HIDE DEF q, seqs
<1>7. Neat(q) /\ \A s : s \in ToSet(q) <=> \E f \in T : ForColumn(s, old, f) BY <1>5, <1>6
<1> QED BY <1>7 DEF q, seqs

(* Lists of phases one after the other. *)
LEMMA PhaseConcat ==
  ASSUME NEW p, NEW q, Neat(p), Neat(q),
         \A r \in ToSet(p), s \in ToSet(q) : Phase(r) < Phase(s)
  PROVE  Neat(p \o q) /\ ToSet(p \o q) = ToSet(p) \cup ToSet(q)
<1>1. p \in Seq(Statements) /\ q \in Seq(Statements) BY DEF Neat
<1>2. \A s : Phase(s) \in Nat BY DEF Phase
<1>3. ASSUME NEW r \in ToSet(p), NEW s \in ToSet(q) PROVE Before(r, s)
  <2>1. Phase(r) < Phase(s) /\ Phase(r) \in Nat /\ Phase(s) \in Nat BY <1>2
  <2>2. Phase(r) <= Phase(s) /\ Phase(r) # Phase(s) BY ONLY <2>1
  <2>3. r # s BY <2>2
  <2> QED BY <2>2, <2>3 DEF Before
<1> QED BY <1>1, <1>3, NeatConcat, JoinedSet

LEMMA ModifyLists ==
  ASSUME NEW names \in Orders, NEW old, Wanted(wanted),
         DOMAIN old.type \subseteq Columns, DOMAIN old.uniq \subseteq UniqueKeys
  PROVE  Neat(Modify(old, names)) /\ \A s : s \in ToSet(Modify(old, names)) <=> Listed(s, old)
<1> DEFINE new == DOMAIN wanted.type \ DOMAIN old.type
           gone == DOMAIN old.type \ DOMAIN wanted.type
           common == DOMAIN old.type \cap DOMAIN wanted.type
           newU == NewUnique(old)
           goneU == DOMAIN old.uniq \ DOMAIN wanted.uniq
           q1 == FlattenSeq([i \in DOMAIN names |-> If(names[i] \in new, "add", names[i])])
           q2 == FlattenSeq([i \in DOMAIN names |-> If(names[i] \in gone, "drop", names[i])])
           q3 == FlattenSeq([i \in DOMAIN names |->
                               IF names[i] \in common THEN ModifyColumn(old, names[i]) ELSE <<>>])
           q4 == FlattenSeq([i \in DOMAIN names |-> If(names[i] \in newU, "addUnique", names[i])])
           q5 == FlattenSeq([i \in DOMAIN names |-> If(names[i] \in goneU, "dropUnique", names[i])])
<1>1. Modify(old, names) = q1 \o q2 \o q3 \o q4 \o q5 BY DEF Modify, Each
<1>2. /\ new \subseteq Columns /\ gone \subseteq Columns /\ common \subseteq Columns
      /\ newU \subseteq UniqueKeys /\ goneU \subseteq UniqueKeys
  BY DEF Wanted, NewUnique
<1>3. /\ \A x \in Columns : Stmt("add", x) \in Statements /\ Stmt("drop", x) \in Statements
      /\ \A x \in UniqueKeys : Stmt("addUnique", x) \in Statements /\ Stmt("dropUnique", x) \in Statements
  BY DEF Stmt, Statements, ColumnOps
<1> HIDE DEF new, gone, common, newU, goneU
<1>4. /\ Neat(q1) /\ \A s : s \in ToSet(q1) <=> \E x \in new : s = Stmt("add", x)
      /\ Neat(q2) /\ \A s : s \in ToSet(q2) <=> \E x \in gone : s = Stmt("drop", x)
      /\ Neat(q4) /\ \A s : s \in ToSet(q4) <=> \E x \in newU : s = Stmt("addUnique", x)
      /\ Neat(q5) /\ \A s : s \in ToSet(q5) <=> \E x \in goneU : s = Stmt("dropUnique", x)
  <2>1. /\ \A x \in new : Stmt("add", x) \in Statements
        /\ \A x \in gone : Stmt("drop", x) \in Statements
        /\ \A x \in newU : Stmt("addUnique", x) \in Statements
        /\ \A x \in goneU : Stmt("dropUnique", x) \in Statements
        /\ new \subseteq Columns \cup UniqueKeys /\ gone \subseteq Columns \cup UniqueKeys
        /\ newU \subseteq Columns \cup UniqueKeys /\ goneU \subseteq Columns \cup UniqueKeys
    BY <1>2, <1>3
  <2>2. Neat(q1) /\ \A s : s \in ToSet(q1) <=> \E x \in new : s = Stmt("add", x) BY <2>1, EachIf
  <2>3. Neat(q2) /\ \A s : s \in ToSet(q2) <=> \E x \in gone : s = Stmt("drop", x) BY <2>1, EachIf
  <2>4. Neat(q4) /\ \A s : s \in ToSet(q4) <=> \E x \in newU : s = Stmt("addUnique", x) BY <2>1, EachIf
  <2>5. Neat(q5) /\ \A s : s \in ToSet(q5) <=> \E x \in goneU : s = Stmt("dropUnique", x) BY <2>1, EachIf
  <2> QED BY <2>2, <2>3, <2>4, <2>5
<1>5. Neat(q3) /\ \A s : s \in ToSet(q3) <=> \E f \in common : ForColumn(s, old, f)
  BY <1>2, EachColumn
<1> HIDE DEF q1, q2, q3, q4, q5
<1>6. /\ \A x : Phase(Stmt("add", x)) = 1 /\ Phase(Stmt("drop", x)) = 2
      /\ \A x : Phase(Stmt("addUnique", x)) = 4 /\ Phase(Stmt("dropUnique", x)) = 5
      /\ \A s, f : ForColumn(s, old, f) => Phase(s) = 3
  BY DEF Phase, Stmt, ForColumn
<1>7. /\ \A s \in ToSet(q1) : Phase(s) = 1
      /\ \A s \in ToSet(q2) : Phase(s) = 2
      /\ \A s \in ToSet(q3) : Phase(s) = 3
      /\ \A s \in ToSet(q4) : Phase(s) = 4
      /\ \A s \in ToSet(q5) : Phase(s) = 5
  BY <1>4, <1>5, <1>6
<1> DEFINE p2 == q1 \o q2
           p3 == p2 \o q3
           p4 == p3 \o q4
           p5 == p4 \o q5
<1>8. Neat(p2) /\ ToSet(p2) = ToSet(q1) \cup ToSet(q2)
  <2>1. \A r \in ToSet(q1), s \in ToSet(q2) : Phase(r) < Phase(s) BY <1>7
  <2> QED BY <1>4, <2>1, PhaseConcat
<1> HIDE DEF p2
<1>9. Neat(p3) /\ ToSet(p3) = ToSet(p2) \cup ToSet(q3)
  <2>1. \A r \in ToSet(p2), s \in ToSet(q3) : Phase(r) < Phase(s) BY <1>7, <1>8
  <2> QED BY <1>5, <1>8, <2>1, PhaseConcat
<1> HIDE DEF p3
<1>10. Neat(p4) /\ ToSet(p4) = ToSet(p3) \cup ToSet(q4)
  <2>1. \A r \in ToSet(p3), s \in ToSet(q4) : Phase(r) < Phase(s) BY <1>7, <1>8, <1>9
  <2> QED BY <1>4, <1>9, <2>1, PhaseConcat
<1> HIDE DEF p4
<1>11. Neat(p5) /\ ToSet(p5) = ToSet(p4) \cup ToSet(q5)
  <2>1. \A r \in ToSet(p4), s \in ToSet(q5) : Phase(r) < Phase(s) BY <1>7, <1>8, <1>9, <1>10
  <2> QED BY <1>4, <1>10, <2>1, PhaseConcat
<1> HIDE DEF p5
<1>12. ASSUME NEW s PROVE s \in ToSet(p5) <=> Listed(s, old)
  <2>1. s \in ToSet(p5) <=> s \in ToSet(q1) \/ s \in ToSet(q2) \/ s \in ToSet(q3)
                             \/ s \in ToSet(q4) \/ s \in ToSet(q5)
    BY <1>8, <1>9, <1>10, <1>11
  <2>2. /\ s \in ToSet(q1) <=> \E x \in new : s = Stmt("add", x)
        /\ s \in ToSet(q2) <=> \E x \in gone : s = Stmt("drop", x)
        /\ s \in ToSet(q3) <=> \E f \in common : ForColumn(s, old, f)
        /\ s \in ToSet(q4) <=> \E x \in newU : s = Stmt("addUnique", x)
        /\ s \in ToSet(q5) <=> \E x \in goneU : s = Stmt("dropUnique", x)
    BY <1>4, <1>5
  <2> QED BY <2>1, <2>2 DEF Listed, new, gone, common, newU, goneU
<1> QED BY <1>1, <1>11, <1>12 DEF p2, p3, p4, p5

(* A table that is as wanted gives no list.                                *)
LEMMA NothingToDo ==
  ASSUME NEW names \in Orders, Wanted(wanted) PROVE Modify(wanted, names) = <<>>
<1>1. DOMAIN wanted.type \subseteq Columns /\ DOMAIN wanted.uniq \subseteq UniqueKeys BY DEF Wanted
<1>2. \A s : ~Listed(s, wanted)
  BY DEF Listed, ForColumn, Retyped, LosesPrimary, LosesKey, GainsPrimary, GainsKey, Changed, NewUnique
<1> DEFINE q == Modify(wanted, names)
<1>3. Neat(q) /\ \A s : s \notin ToSet(q) BY <1>1, <1>2, ModifyLists
<1> HIDE DEF q
<1>4. q = <<>>
  <2>1. q \in Seq(Statements) BY <1>3 DEF Neat
  <2>2. SUFFICES ASSUME q # <<>> PROVE FALSE OBVIOUS
  <2>3. 1 \in DOMAIN q BY <2>1, <2>2
  <2>4. q[1] \in ToSet(q) BY <2>3 DEF ToSet
  <2> QED BY <1>3, <2>4
<1> QED BY <1>4 DEF q

-----------------------------------------------------------------------------
(* The invariant.                                                          *)
Due(op, x) == Stmt(op, x) \in ToSet(todo)
None(ops) == \A s \in ToSet(todo) : s.op \notin ops

(* A statement fits the table and what is wanted. *)
Apt(s) ==
  /\ Fits(table, s)
  /\ s.op = "drop" => s.name \notin DOMAIN wanted.type
  /\ s.op \in {"modify", "dropPrimary", "addPrimary", "dropKey", "addKey"} => s.name \in DOMAIN wanted.type
  /\ s.op = "addPrimary" => wanted.key[s.name] = "PRI"
  /\ s.op = "addKey" => wanted.key[s.name] = "MUL"
  /\ s.op = "dropKey" => wanted.key[s.name] # "MUL"
  /\ s.op = "addUnique" => s.name \notin DOMAIN table.uniq
  /\ s.op = "dropUnique" => s.name \notin DOMAIN wanted.uniq

Agenda ==
  /\ Neat(todo)
  /\ \/ table = NoTable /\ todo \in {<<>>, <<Creation>>}
     \/ Sound(table) /\ \A s \in ToSet(todo) : Apt(s)

(* The first successful run: columns and unique keys that are not wanted. *)
InPlace ==
  /\ table # NoTable
  /\ ColumnsOf(table) = DOMAIN wanted.type
  /\ DOMAIN table.uniq \subseteq DOMAIN wanted.uniq

Due1 ==
  \/ table = NoTable /\ todo = <<Creation>>
  \/ /\ table # NoTable
     /\ \A f \in DOMAIN wanted.type : f \in ColumnsOf(table) \/ Due("add", f)
     /\ \A f \in ColumnsOf(table) : f \in DOMAIN wanted.type \/ Due("drop", f)
     /\ \A u \in DOMAIN table.uniq : u \in DOMAIN wanted.uniq \/ Due("dropUnique", u)

Stage1 == InPlace /\ None({"add", "drop", "dropUnique"})

(* Names.  A plain key stays over a run unless the run drops a key of its  *)
(* name.  A stray is a key that stays on a column without a plain key in   *)
(* what is wanted, when no key of such a column bears the column's name;   *)
(* while there is none, a DROP KEY finds a key that has to go.             *)
Stays(k) == ~Due("dropKey", k.name)
Stray ==
  \E k \in table.keys :
    /\ Unwanted(k.column) /\ Stays(k)
    /\ \A l \in table.keys : Unwanted(l.column) /\ Stays(l) => l.name # k.column

OnTarget ==
  \A x : Due("dropKey", x) => \E k \in table.keys : k.name = x /\ Unwanted(k.column)

(* The second: a primary key that is not wanted, missing unique keys. *)
Held == \A f \in table.pk : wanted.key[f] = "PRI" \/ f \in UniColumns(table)

DuePrimary ==
  \A f \in table.pk :
    wanted.key[f] = "PRI" \/ f \in UniColumns(table) \/ Due("dropPrimary", f)
DueUnique == \A u \in DOMAIN wanted.uniq : u \in DOMAIN table.uniq \/ Due("addUnique", u)

StagePrimary == Held /\ None({"dropPrimary"})
StageUnique == DOMAIN table.uniq = DOMAIN wanted.uniq /\ None({"addUnique"})

(* The third: types and keys of columns that are in no unique key. *)
Own(f) == f \notin UniColumns(table) /\ f \notin UniColumns(wanted)

Due3 ==
  /\ \A f \in ColumnsOf(table) :
       \/ table.type[f] = wanted.type[f] \/ Due("modify", f)
       \/ f \in table.pk /\ wanted.key[f] # "PRI"
  /\ \A f \in ColumnsOf(table) : Own(f) =>
       /\ wanted.key[f] = "PRI" => f \in table.pk \/ Due("addPrimary", f)
       /\ wanted.key[f] = "MUL" => f \in KeyedColumns(table) \/ Due("addKey", f)
       /\ wanted.key[f] = "" => \A k \in table.keys : k.column = f => Due("dropKey", k.name)

SuccessInv ==
  /\ good = 0 /\ running /\ status => Due1
  /\ good # 0 => Stage1
  /\ good = 1 /\ running /\ status => Stray \/ (OnTarget /\ DuePrimary /\ DueUnique)
  /\ good \in {2, 3} /\ (running => status) => Stray \/ (StagePrimary /\ StageUnique)
  /\ good \in {2, 3} /\ running /\ status => Stray \/ (OnTarget /\ Due3)
  /\ good = 3 /\ ~running => Stray \/ Matches \/ LeftAlone

(* Runs without a failure by chance, where nothing speaks against them. *)
Barred ==
  table = NoTable /\ \E n \in DOMAIN wanted.uniq : n \in DOMAIN wanted.key /\ wanted.key[n] = "MUL"
Plain == ~WidePrimary /\ ~Counting /\ ~Barred
Countless == \A f \in ColumnsOf(table) : table.type[f] # "auto"
Uncounted ==
  \A f \in ColumnsOf(table) : table.type[f] # "auto" \/ Due("drop", f) \/ Due("modify", f)
Keyed == \A f \in table.pk : ~Due("addPrimary", f)
Blocked == (\E k \in table.keys : k.name \in DOMAIN wanted.uniq) /\ None({"dropKey"})

RefusalInv ==
  Plain =>
    /\ clean = 1 /\ running => Due1 /\ Uncounted
    /\ clean \in {2, 3} \/ (clean = 1 /\ ~running) => Stage1 /\ Countless
    /\ clean = 2 /\ running => Stray \/ (OnTarget /\ DuePrimary)
    /\ clean = 3 \/ (clean = 2 /\ ~running) => Stray \/ StagePrimary
    /\ clean = 3 /\ running => Stray \/ (OnTarget /\ Keyed)
    /\ clean = 3 /\ ~status => PrimaryHeld \/ Stray \/ Blocked

SchemaInv == TypeOK /\ Agenda /\ SuccessInv /\ RefusalInv

-----------------------------------------------------------------------------
(* The next statement leaves the list.                                     *)
Popped(h) ==
  /\ h \in Statements /\ Neat(todo') /\ h \in ToSet(todo)
  /\ ToSet(todo) = {h} \cup ToSet(todo') /\ h \notin ToSet(todo')
  /\ h.op = "drop" => \A s \in ToSet(todo') : s.op # "add"
  /\ h.op = "dropUnique" => \A s \in ToSet(todo') : s.op \notin {"add", "drop", "modify"}
  /\ h.op = "addUnique" => None({"dropKey"})'
  /\ h # Creation => h = Stmt(h.op, h.name)
  /\ \A op, x : Due(op, x) => Due(op, x)' \/ (h = Stmt(op, x) /\ h.op = op /\ h.name = x)
  /\ \A op, x : Due(op, x)' => Due(op, x) /\ h # Stmt(op, x)

LEMMA Pops ==
  ASSUME Neat(todo), todo # <<>>, todo' = Tail(todo)
  PROVE  Popped(Head(todo))
<1> DEFINE h == Head(todo)
<1>1. /\ Neat(todo') /\ h \in Statements /\ ToSet(todo) = {h} \cup ToSet(todo')
      /\ \A s \in ToSet(todo') : Before(h, s)
  BY NeatTail
<1> HIDE DEF h
<1>2. h \notin ToSet(todo') BY <1>1 DEF Before
<1>3. ASSUME h.op = "drop", NEW s \in ToSet(todo') PROVE s.op # "add"
  <2>1. Phase(h) <= Phase(s) BY <1>1 DEF Before
  <2>2. Phase(h) = 2 BY <1>3 DEF Phase
  <2>3. s.op = "add" => Phase(s) = 1 BY DEF Phase
  <2>4. ~(2 <= 1) OBVIOUS
  <2> QED BY <2>1, <2>2, <2>3, <2>4
<1>4. ASSUME h.op = "dropUnique", NEW s \in ToSet(todo')
      PROVE  s.op \notin {"add", "drop", "modify"}
  <2>1. Phase(h) <= Phase(s) BY <1>1 DEF Before
  <2>2. Phase(h) = 5 BY <1>4 DEF Phase
  <2>3. s.op \in {"add", "drop", "modify"} => Phase(s) \in {1, 2, 3} BY DEF Phase
  <2>4. \A n \in {1, 2, 3} : ~(5 <= n) OBVIOUS
  <2> QED BY <2>1, <2>2, <2>3, <2>4
<1>10. h.op = "addUnique" => None({"dropKey"})'
  <2>1. SUFFICES ASSUME h.op = "addUnique", NEW s \in ToSet(todo') PROVE s.op # "dropKey"
    BY DEF None
  <2>2. Phase(h) <= Phase(s) BY <1>1, <2>1 DEF Before
  <2>3. Phase(h) = 4 BY <2>1 DEF Phase
  <2>4. s.op = "dropKey" => Phase(s) = 3 BY DEF Phase
  <2>5. ~(4 <= 3) OBVIOUS
  <2> QED BY <2>2, <2>3, <2>4, <2>5
<1>5. h # Creation => h = Stmt(h.op, h.name) BY <1>1 DEF Statements, Stmt
<1>6. \A op, x : Stmt(op, x).op = op /\ Stmt(op, x).name = x BY DEF Stmt
<1>7. \A op, x : Due(op, x) => Due(op, x)' \/ (h = Stmt(op, x) /\ h.op = op /\ h.name = x)
  BY <1>1, <1>6 DEF Due
<1>8. \A op, x : Due(op, x)' => Due(op, x) /\ h # Stmt(op, x) BY <1>1, <1>2 DEF Due
<1>9. Popped(h) BY <1>1, <1>2, <1>3, <1>4, <1>5, <1>7, <1>8, <1>10 DEF Popped
<1> QED BY <1>9 DEF h

(* What is not on the list does not get there.                             *)
LEMMA NoneStays ==
  ASSUME NEW h, Popped(h), NEW ops, None(ops) PROVE None(ops)' /\ h.op \notin ops
BY DEF Popped, None

(* A statement that is left out changes nothing else.                      *)
LEMMA SkipKeeps ==
  ASSUME NEW h, Popped(h), Agenda, UNCHANGED <<table, wanted>>
  PROVE  /\ table # NoTable => Agenda'
         /\ Stage1 => Stage1'
         /\ StagePrimary => StagePrimary'
         /\ OnTarget => OnTarget'
         /\ Countless => Countless'
         /\ Keyed => Keyed'
         /\ PrimaryHeld => PrimaryHeld'
         /\ Blocked => Blocked'
<1>1. table # NoTable => Agenda'
  <2>1. \A s : Apt(s)' <=> Apt(s) BY DEF Apt, Fits
  <2> QED BY <2>1 DEF Agenda, Popped
<1>2. Stage1 => Stage1' BY NoneStays DEF Stage1, InPlace
<1>3. StagePrimary => StagePrimary' BY NoneStays DEF StagePrimary, Held
<1>4. Countless => Countless' BY DEF Countless
<1>5. Keyed => Keyed' BY DEF Keyed, Popped
<1>6. PrimaryHeld => PrimaryHeld' BY DEF PrimaryHeld
<1>7. OnTarget => OnTarget' BY DEF OnTarget, Popped, Unwanted
<1>8. Blocked => Blocked' BY NoneStays DEF Blocked
<1> QED BY <1>1, <1>2, <1>3, <1>4, <1>5, <1>6, <1>7, <1>8

(* A statement that is carried out.                                        *)
Carried(h) ==
  /\ Popped(h) /\ Apt(h) /\ Effect(table', table, h) /\ ~Refused(table, h)
  /\ table # NoTable /\ table' # NoTable /\ Sound(table) /\ Sound(table')
  /\ \A s \in ToSet(todo) : Apt(s)
  /\ Wanted(wanted) /\ UNCHANGED wanted

LEMMA DoneApt == ASSUME NEW h, Carried(h) PROVE Agenda'
<1>1. SUFFICES ASSUME NEW s \in ToSet(todo') PROVE Apt(s)'
  BY DEF Agenda, Carried, Popped
<1>2. Apt(s) /\ Apt(h) /\ s # h /\ wanted' = wanted BY DEF Carried, Popped
<1>3. ColumnsOf(table') = IF h.op = "add" THEN ColumnsOf(table) \cup {h.name}
                          ELSE IF h.op = "drop" THEN ColumnsOf(table) \ {h.name} ELSE ColumnsOf(table)
  BY DEF Carried, Effect
<1>4. s \in Statements \ {Creation} /\ h \in Statements \ {Creation} BY <1>2 DEF Apt, Fits
<1>7. s = Stmt(s.op, s.name) /\ h = Stmt(h.op, h.name) BY <1>4 DEF Statements, Stmt
<1>5. s.op = "add" => s.name \notin ColumnsOf(table')
  <2>1. SUFFICES ASSUME s.op = "add" PROVE s.name \notin ColumnsOf(table') OBVIOUS
  <2>2. s.name \notin ColumnsOf(table) BY <1>2, <2>1 DEF Apt, Fits
  <2>3. h.op = "add" => s.name # h.name BY <1>2, <1>7, <2>1
  <2> QED BY <1>3, <2>2, <2>3
<1>6. s.op \in {"modify", "dropPrimary", "addPrimary", "dropKey", "addKey"} => s.name \in ColumnsOf(table')
  BY <1>2, <1>3 DEF Apt, Fits
<1>8. s.op = "addUnique" => s.name \notin DOMAIN table'.uniq
  <2>1. SUFFICES ASSUME s.op = "addUnique" PROVE s.name \notin DOMAIN table'.uniq OBVIOUS
  <2>2. s.name \notin DOMAIN table.uniq BY <1>2, <2>1 DEF Apt
  <2>3. /\ DOMAIN table.uniq \ {h.name} = DOMAIN table'.uniq \ {h.name} \/ h.op = "drop"
        /\ h.op = "drop" => DOMAIN table'.uniq \subseteq DOMAIN table.uniq
        /\ h.op \in {"dropKey", "dropUnique"} => h.name \notin DOMAIN table'.uniq
        /\ h.op \notin {"addUnique", "dropUnique", "drop", "dropKey"} => table'.uniq = table.uniq
    BY DEF Carried, Effect
  <2>4. h.op = "addUnique" => s.name # h.name BY <1>2, <1>7, <2>1
  <2> QED BY <2>2, <2>3, <2>4
<1> QED BY <1>2, <1>5, <1>6, <1>8 DEF Apt, Fits

LEMMA DoneDue1 == ASSUME NEW h, Carried(h), Due1 PROVE Due1'
<1>1. /\ table # NoTable /\ table' # NoTable
      /\ \A f \in DOMAIN wanted.type : f \in ColumnsOf(table) \/ Due("add", f)
      /\ \A f \in ColumnsOf(table) : f \in DOMAIN wanted.type \/ Due("drop", f)
      /\ \A u \in DOMAIN table.uniq : u \in DOMAIN wanted.uniq \/ Due("dropUnique", u)
      /\ UNCHANGED wanted
  BY DEF Carried, Due1
<1>2. /\ ColumnsOf(table') = IF h.op = "add" THEN ColumnsOf(table) \cup {h.name}
                          ELSE IF h.op = "drop" THEN ColumnsOf(table) \ {h.name} ELSE ColumnsOf(table)
      /\ DOMAIN table.uniq \ {h.name} = DOMAIN table'.uniq \ {h.name} \/ h.op = "drop"
      /\ h.op = "drop" => DOMAIN table'.uniq \subseteq DOMAIN table.uniq
      /\ h.op \in {"dropKey", "dropUnique"} => h.name \notin DOMAIN table'.uniq
      /\ h.op \notin {"addUnique", "dropUnique", "drop", "dropKey"} => table'.uniq = table.uniq
  BY DEF Carried, Effect
<1>3. \A op, x : Due(op, x) => Due(op, x)' \/ (h.op = op /\ h.name = x)
  BY DEF Carried, Popped
<1>4. /\ h.op = "add" => h.name \in DOMAIN wanted.type
      /\ h.op = "drop" => h.name \notin DOMAIN wanted.type
      /\ h.op = "addUnique" => h.name \in DOMAIN wanted.uniq
  BY DEF Carried, Apt, Fits
<1>5. \A f \in DOMAIN wanted.type : f \in ColumnsOf(table') \/ Due("add", f)'
  BY <1>1, <1>2, <1>3, <1>4
<1>6. \A f \in ColumnsOf(table') : f \in DOMAIN wanted.type \/ Due("drop", f)'
  BY <1>1, <1>2, <1>3, <1>4
<1>7. \A u \in DOMAIN table'.uniq : u \in DOMAIN wanted.uniq \/ Due("dropUnique", u)'
  <2>1. SUFFICES ASSUME NEW u \in DOMAIN table'.uniq
                 PROVE  u \in DOMAIN wanted.uniq \/ Due("dropUnique", u)'
    OBVIOUS
  <2>2. u \in DOMAIN table.uniq \/ (h.op = "addUnique" /\ u = h.name) BY <1>2, <2>1
  <2>3. h.op = "dropUnique" => u # h.name BY <1>2, <2>1
  <2> QED BY <1>1, <1>3, <1>4, <2>2, <2>3
<1> QED BY <1>1, <1>5, <1>6, <1>7 DEF Due1

LEMMA DoneStage1 == ASSUME NEW h, Carried(h), Stage1 PROVE Stage1'
<1>1. None({"add", "drop", "dropUnique"})' /\ h.op \notin {"add", "drop", "dropUnique"}
  BY NoneStays DEF Stage1, Carried
<1>2. ColumnsOf(table') = ColumnsOf(table) BY <1>1 DEF Carried, Effect
<1>3. DOMAIN table'.uniq \subseteq DOMAIN wanted.uniq
  <2>1. DOMAIN table'.uniq \subseteq DOMAIN table.uniq \cup {h.name} BY <1>1 DEF Carried, Effect
  <2>2. h.op = "addUnique" => h.name \in DOMAIN wanted.uniq BY DEF Carried, Apt, Fits
  <2>3. h.op \notin {"addUnique", "dropKey"} => table'.uniq = table.uniq
    BY <1>1 DEF Carried, Effect
  <2>4. h.op = "dropKey" => h.name \notin DOMAIN table'.uniq BY DEF Carried, Effect
  <2> QED BY <2>1, <2>2, <2>3, <2>4 DEF Stage1, InPlace
<1> QED BY <1>1, <1>2, <1>3 DEF Stage1, InPlace, Carried

(* What a statement does to keys once columns and unique keys are in place.*)
LEMMA KeysThen ==
  ASSUME NEW h, Carried(h), Stage1
  PROVE  /\ h.op \in {"modify", "dropPrimary", "addPrimary", "dropKey", "addKey", "addUnique"}
         /\ h.op = "addKey" => \E n \in KeyNames : table'.keys = table.keys \cup {PlainKey(n, h.name)}
         /\ h.op = "dropKey" => table'.keys = {k \in table.keys : k.name # h.name}
         /\ h.op \notin {"addKey", "dropKey"} => table'.keys = table.keys
         /\ \A op, x : Due(op, x) => Due(op, x)' \/ (h.op = op /\ h.name = x)
         /\ \A op, x : Due(op, x)' => Due(op, x) /\ ~(h.op = op /\ h.name = x)
<1>1. h.op \notin {"add", "drop", "dropUnique"} BY NoneStays DEF Stage1, Carried
<1>2. h \in Statements \ {Creation} BY DEF Carried, Apt, Fits
<1>3. h.op \in {"modify", "dropPrimary", "addPrimary", "dropKey", "addKey", "addUnique"}
  BY <1>1, <1>2 DEF Statements, ColumnOps, Creation
<1>4. h = Stmt(h.op, h.name) BY <1>2 DEF Statements, Stmt
<1>5. \A op, x : Due(op, x)' => Due(op, x) /\ ~(h.op = op /\ h.name = x)
  BY <1>4 DEF Carried, Popped
<1>6. \A op, x : Due(op, x) => Due(op, x)' \/ (h.op = op /\ h.name = x) BY DEF Carried, Popped
<1> QED BY <1>1, <1>3, <1>5, <1>6 DEF Carried, Effect

(* While there is no stray, a DROP KEY takes a plain key only.             *)
LEMMA DropsPlain ==
  ASSUME Sound(table), OnTarget, NEW x, Due("dropKey", x)
  PROVE  x \in Taken(table) /\ x \notin DOMAIN table.uniq
<1>1. PICK k \in table.keys : k.name = x BY DEF OnTarget
<1>2. NamesApart(table) BY DEF Sound
<1> QED BY <1>1, <1>2 DEF Taken, NamesApart

LEMMA UniqueThen ==
  ASSUME NEW h, Carried(h), Stage1, OnTarget
  PROVE  /\ h.op # "addUnique" => table'.uniq = table.uniq
         /\ h.op = "addUnique" => DOMAIN table'.uniq = DOMAIN table.uniq \cup {h.name}
         /\ UniColumns(table) \subseteq UniColumns(table')
<1>1. h.op \in {"modify", "dropPrimary", "addPrimary", "dropKey", "addKey", "addUnique"}
  BY KeysThen
<1>2. h.op = "dropKey" => h.name \notin DOMAIN table.uniq
  <2>1. SUFFICES ASSUME h.op = "dropKey" PROVE h.name \notin DOMAIN table.uniq OBVIOUS
  <2>2. h = Stmt(h.op, h.name) BY DEF Carried, Apt, Fits, Statements, Stmt
  <2>3. Due("dropKey", h.name) BY <2>1, <2>2 DEF Carried, Popped, Due
  <2> QED BY <2>3, DropsPlain DEF Carried
<1>3. h.op # "addUnique" => table'.uniq = table.uniq BY <1>1, <1>2 DEF Carried, Effect
<1>4. h.op = "addUnique" => DOMAIN table'.uniq = DOMAIN table.uniq \cup {h.name}
  BY DEF Carried, Effect
<1>5. UniColumns(table) \subseteq UniColumns(table')
  <2>1. CASE h.op = "addUnique" BY <2>1 DEF Carried, Effect
  <2>2. CASE h.op # "addUnique" BY <1>3, <2>2 DEF UniColumns
  <2> QED BY <2>1, <2>2
<1> QED BY <1>3, <1>4, <1>5

(* A stray stays, and nothing else becomes one.                            *)
LEMMA DoneStray == ASSUME NEW h, Carried(h), Stage1, Stray PROVE Stray'
<1>1. PICK k \in table.keys :
        /\ Unwanted(k.column) /\ Stays(k)
        /\ \A l \in table.keys : Unwanted(l.column) /\ Stays(l) => l.name # k.column
  BY DEF Stray
<1>2. \A f : Unwanted(f)' <=> Unwanted(f) BY DEF Unwanted, Carried
<1>3. /\ h.op = "addKey" => \E n \in KeyNames : table'.keys = table.keys \cup {PlainKey(n, h.name)}
      /\ h.op = "dropKey" => table'.keys = {l \in table.keys : l.name # h.name}
      /\ h.op \notin {"addKey", "dropKey"} => table'.keys = table.keys
      /\ \A op, x : Due(op, x) => Due(op, x)' \/ (h.op = op /\ h.name = x)
      /\ \A op, x : Due(op, x)' => Due(op, x) /\ ~(h.op = op /\ h.name = x)
  BY KeysThen
<1>4. h.op = "dropKey" => Due("dropKey", h.name)
  <2>1. h = Stmt(h.op, h.name) BY DEF Carried, Apt, Fits, Statements, Stmt
  <2> QED BY <2>1 DEF Carried, Popped, Due
<1>5. k \in table'.keys BY <1>1, <1>3, <1>4 DEF Stays
<1>6. Stays(k)' BY <1>1, <1>3 DEF Stays
<1>7. ASSUME NEW l \in table'.keys, Unwanted(l.column), Stays(l)' PROVE l.name # k.column
  <2>1. l \in table.keys
    <3>1. h.op = "addKey" => wanted.key[h.name] = "MUL" BY DEF Carried, Apt
    <3>2. h.op # "addKey" => l \in table.keys BY <1>3, <1>7
    <3>3. CASE h.op = "addKey"
      <4>1. PICK n \in KeyNames : table'.keys = table.keys \cup {PlainKey(n, h.name)} BY <1>3, <3>3
      <4>2. PlainKey(n, h.name).column = h.name BY DEF PlainKey
      <4>3. l # PlainKey(n, h.name) BY <1>7, <3>1, <3>3, <4>2 DEF Unwanted
      <4> QED BY <1>7, <4>1, <4>3
    <3> QED BY <3>2, <3>3
  <2>2. Stays(l)
    <3>1. SUFFICES ASSUME Due("dropKey", l.name) PROVE FALSE BY DEF Stays
    <3>2. h.op = "dropKey" /\ h.name = l.name BY <1>3, <1>7, <3>1 DEF Stays
    <3> QED BY <1>3, <1>7, <3>2
  <2> QED BY <1>1, <1>7, <2>1, <2>2
<1> QED BY <1>1, <1>2, <1>5, <1>6, <1>7 DEF Stray

LEMMA DoneOnTarget == ASSUME NEW h, Carried(h), Stage1, OnTarget PROVE OnTarget'
<1>1. SUFFICES ASSUME NEW x, Due("dropKey", x)'
               PROVE  \E k \in table'.keys : k.name = x /\ Unwanted(k.column)
  BY DEF OnTarget, Unwanted, Carried
<1>2. Due("dropKey", x) /\ ~(h.op = "dropKey" /\ h.name = x) BY <1>1, KeysThen
<1>3. PICK k \in table.keys : k.name = x /\ Unwanted(k.column) BY <1>2 DEF OnTarget
<1>4. k \in table'.keys
  <2>1. /\ h.op = "addKey" => \E n \in KeyNames : table'.keys = table.keys \cup {PlainKey(n, h.name)}
        /\ h.op = "dropKey" => table'.keys = {l \in table.keys : l.name # h.name}
        /\ h.op \notin {"addKey", "dropKey"} => table'.keys = table.keys
    BY KeysThen
  <2> QED BY <1>2, <1>3, <2>1
<1> QED BY <1>3, <1>4

LEMMA DoneDuePrimary ==
  ASSUME NEW h, Carried(h), Stage1, OnTarget, DuePrimary PROVE DuePrimary'
<1>1. h.op # "drop" BY KeysThen
<1>2. \A op, x : Due(op, x) => Due(op, x)' \/ (h.op = op /\ h.name = x) BY KeysThen
<1>3. UniColumns(table) \subseteq UniColumns(table') BY UniqueThen
<1>6. table'.pk = IF h.op = "dropPrimary" THEN {} ELSE IF h.op = "addPrimary" THEN {h.name} ELSE table.pk
  BY <1>1 DEF Carried, Effect
<1>7. h.op = "addPrimary" => wanted.key[h.name] = "PRI" BY DEF Carried, Apt
<1>8. wanted' = wanted BY DEF Carried
<1>10. \A f \in table'.pk : wanted.key[f] = "PRI" \/ f \in UniColumns(table') \/ Due("dropPrimary", f)'
  BY <1>2, <1>3, <1>6, <1>7 DEF DuePrimary
<1> QED BY <1>8, <1>10 DEF DuePrimary

LEMMA DoneDueUnique ==
  ASSUME NEW h, Carried(h), Stage1, OnTarget, DueUnique PROVE DueUnique'
<1>1. \A op, x : Due(op, x) => Due(op, x)' \/ (h.op = op /\ h.name = x) BY KeysThen
<1>2. /\ h.op # "addUnique" => table'.uniq = table.uniq
      /\ h.op = "addUnique" => DOMAIN table'.uniq = DOMAIN table.uniq \cup {h.name}
  BY UniqueThen
<1>3. wanted' = wanted BY DEF Carried
<1> QED BY <1>1, <1>2, <1>3 DEF DueUnique

LEMMA DoneStagePrimary ==
  ASSUME NEW h, Carried(h), Stage1, OnTarget, StagePrimary PROVE StagePrimary'
<1>1. h.op \notin {"drop", "dropPrimary"} /\ None({"dropPrimary"})'
  BY KeysThen, NoneStays DEF StagePrimary, Carried
<1>3. UniColumns(table) \subseteq UniColumns(table') BY UniqueThen
<1>4. table'.pk = IF h.op = "addPrimary" THEN {h.name} ELSE table.pk
  BY <1>1 DEF Carried, Effect
<1>5. h.op = "addPrimary" => wanted.key[h.name] = "PRI" BY DEF Carried, Apt
<1> QED BY <1>1, <1>3, <1>4, <1>5 DEF StagePrimary, Held, Carried

LEMMA DoneStageUnique ==
  ASSUME NEW h, Carried(h), Stage1, OnTarget, StageUnique PROVE StageUnique' /\ table'.uniq = table.uniq
<1>1. h.op # "addUnique" /\ None({"addUnique"})' BY NoneStays DEF StageUnique, Carried
<1>2. table'.uniq = table.uniq BY <1>1, UniqueThen
<1> QED BY <1>1, <1>2 DEF StageUnique, Carried

LEMMA DoneDue3 ==
  ASSUME NEW h, Carried(h), Stage1, OnTarget, StagePrimary, StageUnique, Due3 PROVE Due3'
<1>1. h.op \notin {"add", "drop", "dropUnique", "dropPrimary", "addUnique"}
  BY NoneStays DEF Stage1, StagePrimary, StageUnique, Carried
<1>2. h.op \in {"modify", "addPrimary", "dropKey", "addKey"} /\ h # Creation
  BY <1>1 DEF Carried, Apt, Fits, Statements, ColumnOps, Creation
<1>3. /\ ColumnsOf(table') = ColumnsOf(table)
      /\ \A f \in ColumnsOf(table) \ {h.name} : table'.type[f] = table.type[f]
      /\ h.op \in {"dropKey", "addKey"} => table'.type[h.name] = table.type[h.name]
      /\ table'.pk = IF h.op = "addPrimary" THEN {h.name} ELSE table.pk
  BY <1>1 DEF Carried, Effect
<1>12. table'.uniq = table.uniq BY DoneStageUnique
<1>13. /\ h.op = "addKey" => \E n \in KeyNames : table'.keys = table.keys \cup {PlainKey(n, h.name)}
       /\ h.op = "dropKey" => table'.keys = {k \in table.keys : k.name # h.name}
       /\ h.op \notin {"addKey", "dropKey"} => table'.keys = table.keys
  BY KeysThen
<1>4. h.op = "modify" =>
        table'.type[h.name] = wanted.type[h.name]
        \/ (h.name \in table.pk /\ wanted.type[h.name] = "null")
  BY DEF Carried, Effect
<1>5. h.op = "addPrimary" =>
        /\ table'.type[h.name] = IF table.type[h.name] = "null" THEN "notnull" ELSE table.type[h.name]
        /\ table.pk = {} /\ wanted.key[h.name] = "PRI"
  BY DEF Carried, Effect, Refused, Apt
<1>6. /\ h.op = "addKey" => wanted.key[h.name] = "MUL"
      /\ h.name \in DOMAIN wanted.type
      /\ DOMAIN wanted.type = ColumnsOf(table)
      /\ \A f \in DOMAIN wanted.type : wanted.key[f] = "PRI" => wanted.type[f] # "null"
  BY <1>2 DEF Carried, Apt, Wanted, Stage1, InPlace
<1>7. /\ \A op, x : Due(op, x) => Due(op, x)' \/ (h.op = op /\ h.name = x)
      /\ \A op, x : Due(op, x)' => Due(op, x) /\ ~(h.op = op /\ h.name = x)
  BY KeysThen
<1>8. wanted' = wanted BY DEF Carried
<1>9. ASSUME NEW f \in ColumnsOf(table)
      PROVE  \/ table'.type[f] = wanted.type[f] \/ Due("modify", f)'
             \/ f \in table'.pk /\ wanted.key[f] # "PRI"
  <2>1. CASE table.type[f] = wanted.type[f]
    <3>1. CASE h.op = "addPrimary" BY <1>3, <1>5, <1>6, <2>1, <3>1
    <3>2. CASE h.op = "modify" BY <1>3, <1>4, <1>6, <2>1, <3>2
    <3>3. CASE h.op \in {"dropKey", "addKey"} BY <1>3, <2>1, <3>3
    <3> QED BY <1>2, <3>1, <3>2, <3>3
  <2>2. CASE Due("modify", f)
    <3>1. CASE h.op = "modify" /\ h.name = f BY <1>3, <1>4, <1>6, <3>1
    <3>2. CASE ~(h.op = "modify" /\ h.name = f) BY <1>7, <2>2, <3>2
    <3> QED BY <3>1, <3>2
  <2>3. CASE f \in table.pk /\ wanted.key[f] # "PRI"
    <3>1. h.op # "addPrimary" BY <1>5, <2>3
    <3> QED BY <1>3, <2>3, <3>1
  <2> QED BY <2>1, <2>2, <2>3 DEF Due3
<1>10. ASSUME NEW f \in ColumnsOf(table), Own(f)
      PROVE  /\ wanted.key[f] = "PRI" => f \in table'.pk \/ Due("addPrimary", f)'
             /\ wanted.key[f] = "MUL" => f \in KeyedColumns(table') \/ Due("addKey", f)'
             /\ wanted.key[f] = "" => \A k \in table'.keys : k.column = f => Due("dropKey", k.name)'
  <2>1. wanted.key[f] = "PRI" => f \in table'.pk \/ Due("addPrimary", f)'
    <3>1. SUFFICES ASSUME wanted.key[f] = "PRI" PROVE f \in table'.pk \/ Due("addPrimary", f)' OBVIOUS
    <3>2. f \in table.pk \/ Due("addPrimary", f) BY <1>10, <3>1 DEF Due3
    <3> QED BY <1>3, <1>5, <1>7, <3>2
  <2>2. wanted.key[f] = "MUL" => f \in KeyedColumns(table') \/ Due("addKey", f)'
    <3>1. SUFFICES ASSUME wanted.key[f] = "MUL"
                   PROVE  f \in KeyedColumns(table') \/ Due("addKey", f)'
      OBVIOUS
    <3>2. f \in KeyedColumns(table) \/ Due("addKey", f) BY <1>10, <3>1 DEF Due3
    <3>3. CASE h.op = "addKey"
      <4>1. PICK n \in KeyNames : table'.keys = table.keys \cup {PlainKey(n, h.name)} BY <1>13, <3>3
      <4>2. KeyedColumns(table') = KeyedColumns(table) \cup {h.name}
        <5>1. PlainKey(n, h.name).column = h.name BY DEF PlainKey
        <5> QED BY <4>1, <5>1 DEF KeyedColumns
      <4> QED BY <1>7, <3>2, <4>2
    <3>4. CASE h.op = "dropKey"
      <4>1. Due("dropKey", h.name)
        <5>1. h = Stmt(h.op, h.name) BY DEF Carried, Apt, Fits, Statements, Stmt
        <5> QED BY <3>4, <5>1 DEF Carried, Popped, Due
      <4>2. PICK k \in table.keys : k.name = h.name /\ Unwanted(k.column) BY <4>1 DEF OnTarget
      <4>3. \A l \in table.keys : l.name = h.name => l = k
        <5>1. h.name \in Columns
          BY <3>4 DEF Carried, Apt, Fits, Statements, ColumnOps, Creation
        <5>2. k.name # MadeUp BY <4>2, <5>1, SchemaAssumption
        <5> QED BY <4>2, <5>2 DEF Carried, Sound, NamesApart
      <4>4. k.column # f BY <3>1, <4>2 DEF Unwanted
      <4>5. f \in KeyedColumns(table) => f \in KeyedColumns(table')
        <5>1. SUFFICES ASSUME NEW l \in table.keys, l.column = f PROVE f \in KeyedColumns(table')
          BY DEF KeyedColumns
        <5>2. l \in table'.keys BY <1>13, <3>4, <4>3, <4>4, <5>1
        <5> QED BY <5>1, <5>2 DEF KeyedColumns
      <4> QED BY <1>7, <3>2, <3>4, <4>5
    <3>5. CASE h.op \notin {"addKey", "dropKey"}
      <4>1. table'.keys = table.keys BY <1>13, <3>5
      <4>2. KeyedColumns(table') = KeyedColumns(table) BY <4>1 DEF KeyedColumns
      <4> QED BY <1>7, <3>2, <3>5, <4>2
    <3> QED BY <3>3, <3>4, <3>5
  <2>3. wanted.key[f] = "" => \A k \in table'.keys : k.column = f => Due("dropKey", k.name)'
    <3>1. SUFFICES ASSUME wanted.key[f] = "", NEW k \in table'.keys, k.column = f
                   PROVE  Due("dropKey", k.name)'
      OBVIOUS
    <3>2. k \in table.keys
      <4>1. CASE h.op = "addKey"
        <5>1. PICK n \in KeyNames : table'.keys = table.keys \cup {PlainKey(n, h.name)} BY <1>13, <4>1
        <5>2. PlainKey(n, h.name).column = h.name BY DEF PlainKey
        <5>3. h.name # f BY <1>6, <3>1, <4>1
        <5> QED BY <3>1, <5>1, <5>2, <5>3
      <4>2. CASE h.op # "addKey" BY <1>13, <3>1, <4>2
      <4> QED BY <4>1, <4>2
    <3>3. Due("dropKey", k.name) BY <1>10, <3>1, <3>2 DEF Due3
    <3>4. ~(h.op = "dropKey" /\ h.name = k.name) BY <1>13, <3>1
    <3> QED BY <1>7, <3>3, <3>4
  <2> QED BY <2>1, <2>2, <2>3
<1>11. \A f : Own(f)' <=> Own(f) BY <1>8, <1>12 DEF Own, UniColumns
<1> QED BY <1>3, <1>8, <1>9, <1>10, <1>11 DEF Due3

LEMMA DoneBlocked ==
  ASSUME NEW h, Carried(h), Stage1, Blocked PROVE Blocked'
<1>1. h.op # "dropKey" /\ None({"dropKey"})' BY NoneStays DEF Blocked, Carried
<1>2. table.keys \subseteq table'.keys
  <2>1. /\ h.op = "addKey" => \E n \in KeyNames : table'.keys = table.keys \cup {PlainKey(n, h.name)}
        /\ h.op \notin {"addKey", "dropKey"} => table'.keys = table.keys
    BY KeysThen
  <2> QED BY <1>1, <2>1
<1> QED BY <1>1, <1>2 DEF Blocked, Carried

(* Nothing wanted counts, and only one column has the primary key.         *)
LEMMA OnePrimary ==
  ASSUME Wanted(wanted), ~WidePrimary, NEW f \in DOMAIN wanted.type, NEW g \in DOMAIN wanted.type,
         wanted.key[f] = "PRI", wanted.key[g] = "PRI"
  PROVE  f = g
<1> DEFINE P == {x \in DOMAIN wanted.key : wanted.key[x] = "PRI"}
<1>1. P \subseteq Columns /\ f \in P /\ g \in P BY DEF Wanted
<1>2. IsFiniteSet(P) BY <1>1, SchemaAssumption, FS_Subset
<1>3. Cardinality(P) \in Nat /\ ~(Cardinality(P) > 1) BY <1>2, FS_CardinalityType DEF WidePrimary
<1>4. SUFFICES ASSUME f # g PROVE FALSE OBVIOUS
<1>5. IsFiniteSet(P \ {f}) /\ Cardinality(P \ {f}) = Cardinality(P) - 1
  BY <1>1, <1>2, FS_RemoveElement
<1>6. Cardinality(P \ {f}) \in Nat BY <1>5, FS_CardinalityType
<1>7. Cardinality(P \ {f}) = 0 \/ Cardinality(P) > 1 BY ONLY <1>3, <1>5, <1>6
<1>8. P \ {f} = {} BY <1>3, <1>5, <1>7, FS_EmptySet
<1> QED BY <1>1, <1>4, <1>8

(* A table without auto_increment is legal.                                *)
LEMMA CountlessLegal ==
  ASSUME NEW t, \A f \in ColumnsOf(t) : t.type[f] # "auto" PROVE Legal(t)
BY DEF Legal

(* A statement is carried out or refused.  A new key has one of its names. *)
NamesFor(h) == IF h.op = "addKey" THEN NewNames(table, h.name) ELSE {MadeUp}

Tried(h) ==
  /\ Popped(h) /\ Apt(h) /\ table # NoTable /\ Sound(table)
  /\ \A s \in ToSet(todo) : Apt(s)
  /\ Wanted(wanted) /\ UNCHANGED wanted

LEMMA TriedAlters ==
  ASSUME NEW h, Tried(h), ~Refused(table, h), NEW n \in NamesFor(h)
  PROVE  Effect(Altered(table, h, n), table, h)
<1>1. Parts(table) /\ Pinned(table) = table /\ NamesApart(table) BY ShapedParts DEF Tried, Sound
<1>2. Fits(table, h) /\ Wanted(wanted) BY DEF Tried, Apt
<1>3. h.op = "addKey" => n \in NewNames(table, h.name) BY DEF NamesFor
<1> QED BY <1>1, <1>2, <1>3, AlteredEffect

LEMMA Carries ==
  ASSUME NEW h, Tried(h), ~Refused(table, h), NEW n \in NamesFor(h), Legal(Altered(table, h, n)),
         table' = Altered(table, h, n)
  PROVE  Carried(h)
<1>1. Effect(table', table, h) BY TriedAlters
<1>2. Sound(table') BY <1>1, ShapedParts DEF Effect, Sound
<1>3. table' # NoTable
  <2>1. ColumnsOf(table') # {} BY <1>1 DEF Effect, Parts
  <2>2. ColumnsOf(NoTable) = {} BY DEF ColumnsOf, NoTable
  <2> QED BY <2>1, <2>2
<1> QED BY <1>1, <1>2, <1>3 DEF Carried, Tried

(* The types that a statement brings.                                      *)
LEMMA NewTypes ==
  ASSUME NEW h, Tried(h), ~Counting, NEW a, Effect(a, table, h), NEW f \in ColumnsOf(a),
         a.type[f] = "auto"
  PROVE  /\ f \in ColumnsOf(table) /\ table.type[f] = "auto"
         /\ h.op \in {"add", "drop", "modify"} => f # h.name
<1>1. CASE f # h.name
  <2>1. a.type[f] = table.type[f] BY <1>1 DEF Effect
  <2>2. f \in ColumnsOf(table) BY <1>1 DEF Effect
  <2> QED BY <1>1, <2>1, <2>2
<1>2. CASE f = h.name
  <2>1. h.op \in {"add", "modify"} => h.name \in DOMAIN wanted.type BY DEF Tried, Apt, Fits
  <2>2. h.op \in {"add", "modify"} => wanted.type[h.name] # "auto" BY <2>1 DEF Counting
  <2>3. h.op \notin {"add", "modify"} BY <1>2, <2>2 DEF Effect
  <2>4. h.op # "drop" BY <1>2 DEF Effect
  <2>5. f \in ColumnsOf(table) BY <2>3, <2>4 DEF Effect
  <2>6. h.op # "addPrimary" => a.type = table.type BY <2>3, <2>4 DEF Effect
  <2>7. h.op = "addPrimary" => table.type[h.name] = "auto" BY <1>2 DEF Effect
  <2> QED BY <1>2, <2>3, <2>4, <2>5, <2>6, <2>7
<1> QED BY <1>1, <1>2

LEMMA DoneCountless ==
  ASSUME NEW h, Tried(h), Carried(h), ~Counting, Countless PROVE Countless'
BY NewTypes DEF Carried, Countless

LEMMA DoneUncounted ==
  ASSUME NEW h, Tried(h), Carried(h), ~Counting, Uncounted PROVE Uncounted'
<1>1. SUFFICES ASSUME NEW f \in ColumnsOf(table'), table'.type[f] = "auto"
               PROVE  Due("drop", f)' \/ Due("modify", f)'
  BY DEF Uncounted
<1>2. /\ f \in ColumnsOf(table) /\ table.type[f] = "auto"
      /\ h.op \in {"add", "drop", "modify"} => f # h.name
  BY <1>1, NewTypes DEF Carried
<1>3. Due("drop", f) \/ Due("modify", f) BY <1>2 DEF Uncounted
<1>4. \A op, x : Due(op, x) => Due(op, x)' \/ (h.op = op /\ h.name = x) BY DEF Carried, Popped
<1> QED BY <1>2, <1>3, <1>4

LEMMA DoneKeyed ==
  ASSUME NEW h, Carried(h), Keyed PROVE Keyed'
<1>1. \A f \in table'.pk : f \in table.pk \/ (h.op = "addPrimary" /\ f = h.name)
  BY DEF Carried, Effect
<1>2. \A op, x : Due(op, x)' => Due(op, x) /\ h # Stmt(op, x) BY DEF Carried, Popped
<1>3. h = Stmt(h.op, h.name) BY DEF Carried, Apt, Fits, Statements, Stmt
<1> QED BY <1>1, <1>2, <1>3 DEF Keyed

LEMMA DoneHeld ==
  ASSUME NEW h, Carried(h), Stage1, OnTarget, StagePrimary, PrimaryHeld PROVE PrimaryHeld'
<1>1. h.op \notin {"drop", "dropPrimary"} BY KeysThen, NoneStays DEF StagePrimary, Carried
<1>2. table.pk # {} BY DEF PrimaryHeld
<1>3. h.op # "addPrimary" BY <1>2 DEF Carried, Refused
<1>4. table'.pk = table.pk BY <1>1, <1>3 DEF Carried, Effect
<1>5. UniColumns(table) \subseteq UniColumns(table') BY UniqueThen
<1> QED BY <1>4, <1>5 DEF PrimaryHeld, Carried

-----------------------------------------------------------------------------
(* Statements that MySQL refuses.                                          *)
Turned(h) ==
  /\ Tried(h)
  /\ Refused(table, h) \/ \E n \in NamesFor(h) : ~Legal(Altered(table, h, n))
  /\ UNCHANGED table

(* An add, a wanted drop, a change of type are never refused.              *)
LEMMA NeverTurned ==
  ASSUME NEW h, Tried(h), ~Counting, Due1, NEW n \in NamesFor(h)
  PROVE  /\ h.op \in {"add", "drop", "modify"} => ~Refused(table, h) /\ Legal(Altered(table, h, n))
         /\ h.op = "dropUnique" /\ Uncounted /\ ~Refused(table, h) => Legal(Altered(table, h, n))
<1>0. Parts(table) /\ Pinned(table) = table /\ Legal(table) BY ShapedParts DEF Tried, Sound
<1>1. h.op \in {"add", "modify"} => ~Refused(table, h) /\ Legal(Altered(table, h, n))
  <2>1. SUFFICES ASSUME h.op \in {"add", "modify"}
                 PROVE  ~Refused(table, h) /\ Legal(Altered(table, h, n))
    OBVIOUS
  <2>2. ~Refused(table, h) BY <2>1 DEF Refused
  <2> DEFINE a == Altered(table, h, n)
  <2>3. Effect(a, table, h) BY <2>2, TriedAlters
  <2> HIDE DEF a
  <2>4. a.pk = table.pk /\ a.keys = table.keys /\ a.uniq = table.uniq
    BY <2>1, <2>3 DEF Effect
  <2>7. KeyedColumns(a) = KeyedColumns(table) BY <2>4 DEF KeyedColumns
  <2>5. \A f \in ColumnsOf(a) : a.type[f] = "auto" => f \in ColumnsOf(table) /\ table.type[f] = "auto"
    BY <2>3, NewTypes
  <2>6. Legal(a) BY <1>0, <2>4, <2>5, <2>7 DEF Legal
  <2> QED BY <2>2, <2>6 DEF a
<1>2. h.op = "drop" => ~Refused(table, h) /\ Legal(Altered(table, h, n))
  <2>1. SUFFICES ASSUME h.op = "drop" PROVE ~Refused(table, h) /\ Legal(Altered(table, h, n)) OBVIOUS
  <2>2. PICK g : g \in DOMAIN wanted.type BY DEF Tried, Wanted
  <2>3. ~Due("add", g)
    <3>1. \A s \in ToSet(todo') : s.op # "add" BY <2>1 DEF Tried, Popped
    <3>2. Stmt("add", g).op = "add" BY DEF Stmt
    <3> QED BY <2>1, <3>1, <3>2 DEF Tried, Popped, Due
  <2>4. g \in ColumnsOf(table) BY <2>2, <2>3 DEF Due1, Tried
  <2>5. h.name \notin DOMAIN wanted.type BY <2>1 DEF Tried, Apt
  <2>6. ColumnsOf(table) # {h.name} BY <2>2, <2>4, <2>5
  <2>7. ~Refused(table, h) BY <2>1, <2>6 DEF Refused
  <2>8. Altered(table, h, n) = DropColumn(table, h.name) BY <2>1 DEF Altered
  <2>9. Legal(DropColumn(table, h.name)) BY <1>0, <2>6, Dropped DEF IsWithout
  <2> QED BY <2>7, <2>8, <2>9
<1>3. h.op = "dropUnique" /\ Uncounted /\ ~Refused(table, h) => Legal(Altered(table, h, n))
  <2>1. SUFFICES ASSUME h.op = "dropUnique", Uncounted, ~Refused(table, h)
                 PROVE  Legal(Altered(table, h, n))
    OBVIOUS
  <2>2. \A x : ~Due("drop", x) /\ ~Due("modify", x)
    <3>1. \A s \in ToSet(todo') : s.op \notin {"add", "drop", "modify"} BY <2>1 DEF Tried, Popped
    <3>2. \A x : Stmt("drop", x).op = "drop" /\ Stmt("modify", x).op = "modify" BY DEF Stmt
    <3> QED BY <2>1, <3>1, <3>2 DEF Tried, Popped, Due
  <2>3. \A f \in ColumnsOf(table) : table.type[f] # "auto" BY <2>1, <2>2 DEF Uncounted
  <2>4. Effect(Altered(table, h, n), table, h) BY <2>1, TriedAlters
  <2> QED BY <2>3, <2>4, NewTypes, CountlessLegal
<1> QED BY <1>1, <1>2, <1>3

LEMMA TurnedDue1 ==
  ASSUME NEW h, Turned(h), ~Counting, Due1, Uncounted PROVE Due1' /\ Uncounted'
<1>0. Tried(h) /\ (Refused(table, h) \/ \E n \in NamesFor(h) : ~Legal(Altered(table, h, n)))
  BY DEF Turned
<1>7. h.op # "addKey" => MadeUp \in NamesFor(h) BY DEF NamesFor
<1>1. h.op \notin {"add", "drop", "modify"} BY <1>0, <1>7, NeverTurned
<1>2. h.op = "dropUnique" => h.name \notin DOMAIN table.uniq
  BY <1>0, NeverTurned DEF Refused, Taken
<1>3. \A op, x : Due(op, x) => Due(op, x)' \/ (h.op = op /\ h.name = x) BY DEF Turned, Tried, Popped
<1>4. table' = table /\ wanted' = wanted /\ table # NoTable BY DEF Turned, Tried
<1>5. Due1' BY <1>1, <1>2, <1>3, <1>4 DEF Due1
<1>6. Uncounted' BY <1>1, <1>3, <1>4 DEF Uncounted
<1> QED BY <1>5, <1>6

LEMMA TurnedLegally ==
  ASSUME NEW h, Turned(h), ~Counting, Countless PROVE Refused(table, h)
<1>1. SUFFICES ASSUME ~Refused(table, h) PROVE FALSE OBVIOUS
<1>2. PICK n \in NamesFor(h) : ~Legal(Altered(table, h, n)) BY <1>1 DEF Turned
<1>3. Tried(h) BY DEF Turned
<1>4. Effect(Altered(table, h, n), table, h) BY <1>1, <1>3, TriedAlters
<1>5. Legal(Altered(table, h, n)) BY <1>3, <1>4, NewTypes, CountlessLegal DEF Countless
<1> QED BY <1>2, <1>5

LEMMA TurnedDuePrimary ==
  ASSUME NEW h, Turned(h), ~Counting, Countless, DuePrimary PROVE DuePrimary'
<1>1. Refused(table, h) BY TurnedLegally
<1>3. h.op = "dropPrimary" => table.pk = {} BY <1>1 DEF Refused
<1>4. \A op, x : Due(op, x) => Due(op, x)' \/ (h.op = op /\ h.name = x) BY DEF Turned, Tried, Popped
<1>5. table' = table /\ wanted' = wanted BY DEF Turned, Tried
<1> QED BY <1>3, <1>4, <1>5 DEF DuePrimary

(* A key that is not found is no stray: nothing has its name.              *)
LEMMA TurnedStray ==
  ASSUME NEW h, Turned(h), ~Counting, Countless, Stray PROVE Stray'
<1>1. Refused(table, h) BY TurnedLegally
<1>2. h.op = "dropKey" => \A k \in table.keys : k.name # h.name BY <1>1 DEF Refused, Taken
<1>3. /\ \A op, x : Due(op, x) => Due(op, x)' \/ (h.op = op /\ h.name = x)
      /\ \A op, x : Due(op, x)' => Due(op, x)
  BY DEF Turned, Tried, Popped
<1>4. table' = table /\ wanted' = wanted BY DEF Turned, Tried
<1>5. \A k \in table.keys : Stays(k)' <=> Stays(k) BY <1>2, <1>3 DEF Stays
<1> QED BY <1>4, <1>5 DEF Stray, Unwanted

LEMMA TurnedHeld ==
  ASSUME NEW h, Turned(h), ~WidePrimary, ~Counting, Stage1, Countless, OnTarget, StagePrimary, Keyed
  PROVE  PrimaryHeld' \/ Blocked'
<1>0. Tried(h) /\ Popped(h) /\ Apt(h) /\ Sound(table) /\ Parts(table) /\ Wanted(wanted) /\ table # NoTable
      /\ table' = table /\ wanted' = wanted
  BY ShapedParts DEF Turned, Tried, Sound
<1>1. Refused(table, h) BY TurnedLegally
<1>2. h.op \notin {"add", "drop", "dropUnique", "dropPrimary"}
  BY <1>0, NoneStays DEF Stage1, StagePrimary
<1>3. h \in ToSet(todo) /\ h \in Statements \ {Creation} /\ h = Stmt(h.op, h.name)
  BY <1>0 DEF Apt, Fits, Popped
<1>4. h.op # "dropKey"
  <2>1. SUFFICES ASSUME h.op = "dropKey" PROVE FALSE OBVIOUS
  <2>2. Due("dropKey", h.name) BY <1>3, <2>1 DEF Due
  <2>3. h.name \in Taken(table) BY <1>0, <2>2, DropsPlain
  <2> QED BY <1>1, <2>1, <2>3 DEF Refused
<1>5. (h.op = "addPrimary" /\ table.pk # {}) \/ h.op = "addUnique" BY <1>1, <1>2, <1>4 DEF Refused
<1>6. CASE h.op = "addPrimary" /\ table.pk # {}
  <2>1. h.name \notin table.pk BY <1>3, <1>6 DEF Keyed, Due
  <2>2. PICK g : g \in table.pk BY <1>6
  <2>3. g \in ColumnsOf(table) /\ g \in DOMAIN wanted.type BY <1>0, <2>2 DEF Parts, Stage1, InPlace
  <2>4. wanted.key[h.name] = "PRI" /\ h.name \in DOMAIN wanted.type BY <1>0, <1>6 DEF Apt
  <2>5. wanted.key[g] # "PRI" BY <1>0, <2>1, <2>2, <2>3, <2>4, OnePrimary
  <2>6. g \in UniColumns(table) BY <2>2, <2>5 DEF StagePrimary, Held
  <2> QED BY <1>0, <2>2, <2>5, <2>6 DEF PrimaryHeld
<1>7. CASE h.op = "addUnique"
  <2>1. h.name \in DOMAIN wanted.uniq /\ h.name \notin DOMAIN table.uniq BY <1>0, <1>7 DEF Apt, Fits
  <2>2. wanted.uniq[h.name] \in Seq(DOMAIN wanted.type) BY <1>0, <2>1 DEF Wanted
  <2>3. ToSet(wanted.uniq[h.name]) \subseteq ColumnsOf(table)
    <3> DEFINE q == wanted.uniq[h.name]
    <3> HIDE DEF q
    <3>1. \A i \in DOMAIN q : q[i] \in DOMAIN wanted.type
      <4>1. q \in Seq(DOMAIN wanted.type) BY <2>2 DEF q
      <4> QED BY <4>1
    <3>2. ToSet(q) \subseteq DOMAIN wanted.type BY <3>1 DEF ToSet
    <3> QED BY <3>2 DEF q, Stage1, InPlace
  <2>4. h.name \in Taken(table) BY <1>1, <1>7, <2>3 DEF Refused
  <2>5. \E k \in table.keys : k.name = h.name BY <2>1, <2>4 DEF Taken
  <2>6. None({"dropKey"})' BY <1>0, <1>7 DEF Popped
  <2> QED BY <1>0, <2>1, <2>5, <2>6 DEF Blocked
<1> QED BY <1>5, <1>6, <1>7

-----------------------------------------------------------------------------
(* The actions.                                                            *)
LEMMA WantedRead ==
  ASSUME TypeOK
  PROVE  Wanted(wanted) /\ wanted = [type |-> wanted.type, key |-> wanted.key, uniq |-> wanted.uniq]
BY ReadWanted, SchemaAssumption DEF TypeOK, Read

LEMMA AlterTries ==
  ASSUME SchemaInv, Alter
  PROVE  /\ Tried(Head(todo))
         /\ ((Carried(Head(todo)) /\ status' = status) \/ (Turned(Head(todo)) /\ status' = FALSE))
<1> DEFINE h == Head(todo)
<1>1. todo # <<>> /\ todo' = Tail(todo) /\ h.op # "create" /\ UNCHANGED wanted BY DEF Alter
<1>2. Popped(h) BY <1>1, Pops DEF SchemaInv, Agenda
<1>3. table # NoTable /\ Sound(table) /\ \A s \in ToSet(todo) : Apt(s)
  <2>1. todo # <<Creation>>
    <3>1. SUFFICES ASSUME todo = <<Creation>> PROVE FALSE OBVIOUS
    <3>2. h = Creation BY <3>1
    <3> QED BY <1>1, <3>2 DEF Creation
  <2>2. Sound(table) /\ \A s \in ToSet(todo) : Apt(s) BY <1>1, <2>1 DEF SchemaInv, Agenda
  <2>3. ~Sound(NoTable)
    <3>1. ColumnsOf(NoTable) = {} BY DEF ColumnsOf, NoTable
    <3> QED BY <3>1, ShapedParts DEF Sound, Parts
  <2> QED BY <2>2, <2>3
<1>4. Tried(h) BY <1>1, <1>2, <1>3, WantedRead DEF Tried, Popped, SchemaInv
<1>5. \E n \in NamesFor(h) :
        \/ (Refused(table, h) \/ ~Legal(Altered(table, h, n))) /\ status' = FALSE /\ UNCHANGED table
        \/ /\ ~Refused(table, h) /\ Legal(Altered(table, h, n))
           /\ table' = Altered(table, h, n) /\ UNCHANGED status
  BY DEF Alter, NamesFor
<1> HIDE DEF h
<1>6. (Carried(h) /\ status' = status) \/ (Turned(h) /\ status' = FALSE)
  <2>0. PICK n \in NamesFor(h) :
          \/ (Refused(table, h) \/ ~Legal(Altered(table, h, n))) /\ status' = FALSE /\ UNCHANGED table
          \/ /\ ~Refused(table, h) /\ Legal(Altered(table, h, n))
             /\ table' = Altered(table, h, n) /\ UNCHANGED status
    BY <1>5
  <2>1. CASE (Refused(table, h) \/ ~Legal(Altered(table, h, n))) /\ status' = FALSE /\ UNCHANGED table
    BY <1>4, <2>1 DEF Turned
  <2>2. CASE /\ ~Refused(table, h) /\ Legal(Altered(table, h, n))
             /\ table' = Altered(table, h, n) /\ UNCHANGED status
    BY <1>4, <2>2, Carries
  <2> QED BY <2>0, <2>1, <2>2
<1> QED BY <1>4, <1>6 DEF h

LEMMA TurnedKeeps ==
  ASSUME NEW h, Turned(h), Agenda
  PROVE  /\ Agenda' /\ table # NoTable
         /\ Stage1 => Stage1'
         /\ StagePrimary => StagePrimary'
         /\ OnTarget => OnTarget'
         /\ Countless => Countless'
         /\ Keyed => Keyed'
         /\ PrimaryHeld => PrimaryHeld'
         /\ Blocked => Blocked'
BY SkipKeeps DEF Turned, Tried

(* Nothing new speaks against a run.                                       *)
LEMMA PlainStays ==
  ASSUME wanted' = wanted, table = NoTable => table' = NoTable, Plain' PROVE Plain
BY DEF Plain, WidePrimary, Counting, Barred

LEMMA AlterKeeps == ASSUME SchemaInv, Alter PROVE SchemaInv'
<1> DEFINE h == Head(todo)
<1>1. Tried(h) /\ ((Carried(h) /\ status' = status) \/ (Turned(h) /\ status' = FALSE)) BY AlterTries
<1>2. UNCHANGED <<wanted, running, clean, good, failures>> /\ running
  BY DEF Alter, SchemaInv, TypeOK
<1> HIDE DEF h
<1>3. TypeOK'
  <2>1. table' = NoTable \/ Sound(table') BY <1>1 DEF Carried, Turned, Tried
  <2>2. status' \in BOOLEAN BY <1>1 DEF SchemaInv, TypeOK
  <2> QED BY <1>2, <2>1, <2>2 DEF SchemaInv, TypeOK
<1>4. Agenda' BY <1>1, DoneApt, TurnedKeeps DEF SchemaInv
<1>5. SuccessInv'
  <2>0. good \in 0..3 BY DEF SchemaInv, TypeOK, Enough
  <2>1. CASE Carried(h) /\ status' = status
    <3>1. /\ good = 0 /\ status => Due1
          /\ good # 0 => Stage1
          /\ good = 1 /\ status => Stray \/ (OnTarget /\ DuePrimary /\ DueUnique)
          /\ good \in {2, 3} /\ status =>
               Stray \/ (OnTarget /\ StagePrimary /\ StageUnique /\ Due3)
      BY <1>2 DEF SchemaInv, SuccessInv
    <3>2. /\ Due1 => Due1'
          /\ Stage1 => Stage1'
          /\ Stage1 /\ Stray => Stray'
          /\ Stage1 /\ OnTarget => OnTarget'
          /\ Stage1 /\ OnTarget /\ DuePrimary => DuePrimary'
          /\ Stage1 /\ OnTarget /\ DueUnique => DueUnique'
          /\ Stage1 /\ OnTarget /\ StagePrimary => StagePrimary'
          /\ Stage1 /\ OnTarget /\ StageUnique => StageUnique'
          /\ Stage1 /\ OnTarget /\ StagePrimary /\ StageUnique /\ Due3 => Due3'
      BY <2>1, DoneDue1, DoneStage1, DoneStray, DoneOnTarget, DoneDuePrimary, DoneDueUnique,
         DoneStagePrimary, DoneStageUnique, DoneDue3
    <3> QED BY <1>2, <2>0, <2>1, <3>1, <3>2 DEF SuccessInv
  <2>2. CASE Turned(h) /\ status' = FALSE
    <3>1. Stage1 => Stage1' BY <2>2, TurnedKeeps DEF SchemaInv
    <3> QED BY <1>2, <2>0, <2>2, <3>1 DEF SchemaInv, SuccessInv
  <2> QED BY <1>1, <2>1, <2>2
<1>6. RefusalInv'
  <2>0. Plain' => Plain BY <1>1, <1>2, PlainStays DEF Tried
  <2>1. SUFFICES ASSUME Plain PROVE RefusalInv' BY <2>0 DEF RefusalInv
  <2>2. ~Counting /\ ~WidePrimary BY <2>1 DEF Plain
  <2>3. /\ clean = 1 => Due1 /\ Uncounted
        /\ clean \in {2, 3} => Stage1 /\ Countless
        /\ clean = 2 => Stray \/ (OnTarget /\ DuePrimary)
        /\ clean = 3 => Stray \/ (OnTarget /\ StagePrimary /\ Keyed)
        /\ clean = 3 /\ ~status => PrimaryHeld \/ Stray \/ Blocked
    BY <1>2, <2>1 DEF SchemaInv, RefusalInv
  <2>4. clean \in 0..3 BY DEF SchemaInv, TypeOK, Enough
  <2>5. CASE Carried(h) /\ status' = status
    <3>1. /\ Due1 => Due1'
          /\ Uncounted => Uncounted'
          /\ Stage1 => Stage1'
          /\ Countless => Countless'
          /\ Stage1 /\ Stray => Stray'
          /\ Stage1 /\ OnTarget => OnTarget'
          /\ Stage1 /\ OnTarget /\ DuePrimary => DuePrimary'
          /\ Stage1 /\ OnTarget /\ StagePrimary => StagePrimary'
          /\ Keyed => Keyed'
          /\ Stage1 /\ OnTarget /\ StagePrimary /\ PrimaryHeld => PrimaryHeld'
          /\ Stage1 /\ Blocked => Blocked'
      BY <1>1, <2>2, <2>5, DoneDue1, DoneUncounted, DoneStage1, DoneCountless, DoneStray, DoneOnTarget,
         DoneDuePrimary, DoneStagePrimary, DoneKeyed, DoneHeld, DoneBlocked
    <3> QED BY <1>2, <2>3, <2>4, <2>5, <3>1 DEF RefusalInv
  <2>6. CASE Turned(h) /\ status' = FALSE
    <3>1. /\ Stage1 => Stage1'
          /\ StagePrimary => StagePrimary'
          /\ OnTarget => OnTarget'
          /\ Countless => Countless'
          /\ Keyed => Keyed'
      BY <2>6, TurnedKeeps DEF SchemaInv
    <3>2. /\ Due1 /\ Uncounted => Due1' /\ Uncounted'
          /\ Countless /\ Stray => Stray'
          /\ Countless /\ DuePrimary => DuePrimary'
          /\ Stage1 /\ Countless /\ OnTarget /\ StagePrimary /\ Keyed => PrimaryHeld' \/ Blocked'
      BY <2>2, <2>6, TurnedDue1, TurnedStray, TurnedDuePrimary, TurnedHeld
    <3> QED BY <1>2, <2>3, <2>4, <2>6, <3>1, <3>2 DEF RefusalInv
  <2> QED BY <1>1, <2>5, <2>6
<1> QED BY <1>3, <1>4, <1>5, <1>6 DEF SchemaInv

(* A failure by chance.                                                    *)
LEMMA FailKeeps == ASSUME SchemaInv, Fail PROVE SchemaInv'
<1> DEFINE h == Head(todo)
<1>1. /\ todo # <<>> /\ todo' = Tail(todo) /\ UNCHANGED <<table, wanted, running, good>>
      /\ ~status' /\ status' = FALSE /\ clean' = 0 /\ failures' = failures + 1 /\ failures < MaxFailures
  BY DEF Fail
<1>2. Popped(h) BY <1>1, Pops DEF SchemaInv, Agenda
<1>3. table = NoTable => todo' = <<>>
  <2>1. SUFFICES ASSUME table = NoTable PROVE todo' = <<>> OBVIOUS
  <2>2. ~Sound(NoTable)
    <3>1. ColumnsOf(NoTable) = {} BY DEF ColumnsOf, NoTable
    <3> QED BY <3>1, ShapedParts DEF Sound, Parts
  <2>3. todo = <<Creation>> BY <1>1, <2>1, <2>2 DEF SchemaInv, Agenda
  <2> QED BY <1>1, <2>3
<1> HIDE DEF h
<1>4. TypeOK'
  <2>1. failures' \in 0..MaxFailures
    <3>1. failures \in 0..MaxFailures /\ MaxFailures \in Nat
      BY SchemaAssumption DEF SchemaInv, TypeOK
    <3> QED BY ONLY <1>1, <3>1
  <2>2. clean' \in 0..Enough BY <1>1 DEF Enough
  <2>3. running BY <1>1 DEF SchemaInv, TypeOK
  <2> QED BY <1>1, <2>1, <2>2, <2>3 DEF SchemaInv, TypeOK
<1>5. Agenda'
  <2>1. CASE table # NoTable BY <1>1, <1>2, <2>1, SkipKeeps DEF SchemaInv
  <2>2. CASE table = NoTable BY <1>1, <1>2, <1>3, <2>2 DEF Agenda, Popped
  <2> QED BY <2>1, <2>2
<1>6. Stage1 => Stage1' BY <1>1, <1>2, SkipKeeps DEF SchemaInv
<1>7. SuccessInv'
  <2>1. good # 0 => Stage1 BY DEF SchemaInv, SuccessInv
  <2>2. running BY <1>1 DEF SchemaInv, TypeOK
  <2> QED BY <1>1, <1>6, <2>1, <2>2 DEF SuccessInv
<1>8. RefusalInv' BY <1>1 DEF RefusalInv
<1> QED BY <1>4, <1>5, <1>7, <1>8 DEF SchemaInv

(* Nothing is on the list of a run that is over.                           *)
LEMMA NothingDue ==
  ASSUME todo = <<>> PROVE ToSet(todo) = {} /\ (\A op, x : ~Due(op, x)) /\ \A ops : None(ops)
<1>1. ToSet(todo) = {} BY DEF ToSet
<1> QED BY <1>1 DEF Due, None

LEMMA CrashKeeps == ASSUME SchemaInv, Crash PROVE SchemaInv'
<1>1. /\ todo' = <<>> /\ ~running' /\ running' = FALSE /\ status' = FALSE /\ clean' = 0 /\ good' = 0
      /\ UNCHANGED <<table, wanted>> /\ failures' = failures + 1 /\ failures < MaxFailures
  BY DEF Crash
<1>2. failures' \in 0..MaxFailures
  <2>1. failures \in 0..MaxFailures /\ MaxFailures \in Nat
    BY SchemaAssumption DEF SchemaInv, TypeOK
  <2> QED BY ONLY <1>1, <2>1
<1>3. TypeOK'
  <2>1. 0 \in 0..Enough BY DEF Enough
  <2> QED BY <1>1, <1>2, <2>1 DEF SchemaInv, TypeOK
<1>4. Agenda'
  <2>1. Neat(<<>>) BY EmptySeq DEF Neat
  <2>2. ToSet(<<>>) = {} BY DEF ToSet
  <2> QED BY <1>1, <2>1, <2>2 DEF SchemaInv, TypeOK, Agenda
<1>5. SuccessInv' BY <1>1 DEF SuccessInv
<1>6. RefusalInv' BY <1>1 DEF RefusalInv
<1> QED BY <1>3, <1>4, <1>5, <1>6 DEF SchemaInv

(* All three stages passed, a table is where it should be.                 *)
LEMMA Arrives ==
  ASSUME SchemaInv, todo = <<>>, Stage1, StagePrimary, StageUnique, Due3 PROVE Matches \/ LeftAlone
<1>1. SUFFICES ASSUME ~LeftAlone PROVE Matches OBVIOUS
<1>2. table # NoTable /\ Sound(table) /\ Parts(table) /\ Wanted(wanted)
  BY ShapedParts, WantedRead DEF Stage1, InPlace, SchemaInv, TypeOK, Sound
<1>3. ColumnsOf(table) = DOMAIN wanted.type /\ DOMAIN table.uniq = DOMAIN wanted.uniq
  BY DEF Stage1, StageUnique, InPlace
<1>4. table.uniq = wanted.uniq
  <2> DEFINE U == DOMAIN table.uniq
  <2>1. table.uniq \in [U -> Seq(ColumnsOf(table)) \ {<<>>}] BY <1>2 DEF Parts
  <2>2. wanted.uniq \in [U -> Seq(DOMAIN wanted.type) \ {<<>>}] BY <1>2, <1>3 DEF Wanted
  <2>3. \A u \in U : table.uniq[u] = wanted.uniq[u] BY <1>1, <1>2, <1>3 DEF LeftAlone, OtherColumns
  <2> HIDE DEF U
  <2> QED BY <2>1, <2>2, <2>3
<1>5. ASSUME NEW f \in ColumnsOf(table) PROVE ColumnKey(table, f) = wanted.key[f]
  <2>1. f \in DOMAIN wanted.type /\ f \in DOMAIN wanted.key BY <1>2, <1>3, <1>5 DEF Wanted
  <2>2. CASE ~Own(f)
    <3>1. f \in UniColumns(table) \cup UniColumns(wanted) BY <2>2 DEF Own
    <3> QED BY <1>1, <1>2, <1>5, <2>1, <3>1 DEF LeftAlone, Covered
  <2>3. CASE Own(f)
    <3>1. ColumnKey(table, f) = IF f \in table.pk THEN "PRI"
                                ELSE IF f \in KeyedColumns(table) THEN "MUL" ELSE ""
      BY <1>2, <2>3, OwnKey DEF Own
    <3>2. wanted.key[f] \in {"PRI", "MUL", ""} BY <1>2, <2>1, <2>3 DEF Own, Wanted
    <3>3. f \in table.pk => wanted.key[f] = "PRI" BY <2>3 DEF StagePrimary, Held, Own
    <3>4. /\ wanted.key[f] = "PRI" => f \in table.pk
          /\ wanted.key[f] = "MUL" => f \in KeyedColumns(table)
          /\ wanted.key[f] = "" => f \notin KeyedColumns(table)
      BY <1>5, <2>3, NothingDue DEF Due3, KeyedColumns
    <3>5. CASE wanted.key[f] = "PRI" BY <3>1, <3>4, <3>5
    <3>6. CASE wanted.key[f] = "MUL" BY <3>1, <3>3, <3>4, <3>6
    <3>7. CASE wanted.key[f] = "" BY <3>1, <3>3, <3>4, <3>7
    <3> QED BY <3>2, <3>5, <3>6, <3>7
  <2> QED BY <2>2, <2>3
<1>6. ASSUME NEW f \in ColumnsOf(table) PROVE table.type[f] = wanted.type[f]
  <2>1. SUFFICES ASSUME f \in table.pk, wanted.key[f] # "PRI" PROVE FALSE
    BY <1>6, NothingDue DEF Due3
  <2>2. ColumnKey(table, f) = "PRI" BY <2>1 DEF ColumnKey
  <2> QED BY <1>5, <1>6, <2>1, <2>2
<1>7. table.type = wanted.type
  <2>1. table.type \in [DOMAIN wanted.type -> Types] /\ wanted.type \in [DOMAIN wanted.type -> Types]
    BY <1>2, <1>3 DEF Parts, Wanted
  <2>2. \A f \in DOMAIN wanted.type : table.type[f] = wanted.type[f] BY <1>3, <1>6
  <2> QED BY <2>1, <2>2
<1>8. wanted.key = [f \in ColumnsOf(table) |-> ColumnKey(table, f)]
  <2>1. PICK t : wanted = Read(t) BY DEF SchemaInv, TypeOK
  <2>2. wanted.key = [f \in ColumnsOf(t) |-> ColumnKey(t, f)] /\ wanted.type = t.type BY <2>1 DEF Read
  <2>3. ColumnsOf(t) = ColumnsOf(table) BY <1>7, <2>2 DEF ColumnsOf
  <2>4. \A f \in ColumnsOf(table) : wanted.key[f] = ColumnKey(t, f) BY <2>2, <2>3
  <2> QED BY <1>5, <2>2, <2>3, <2>4
<1> QED BY <1>2, <1>4, <1>7, <1>8, WantedRead DEF Matches, Read, SchemaInv

LEMMA ReturnKeeps == ASSUME SchemaInv, Return PROVE SchemaInv'
<1>1. /\ running /\ todo = <<>> /\ ~running' /\ running' = FALSE
      /\ UNCHANGED <<table, wanted, todo, status, clean, failures>>
  BY DEF Return
<1>2. good \in 0..3 BY DEF SchemaInv, TypeOK, Enough
<1>3. /\ ~status => good' = 0
      /\ status /\ good = 0 => good' = 1
      /\ status /\ good = 1 => good' = 2
      /\ status /\ good \in {2, 3} => good' = 3
  BY <1>2 DEF Return, Enough
<1>4. TypeOK'
  <2>1. good' \in 0..3 BY <1>2, <1>3
  <2> QED BY <1>1, <2>1 DEF SchemaInv, TypeOK, Enough
<1>5. Agenda' BY <1>1 DEF SchemaInv, Agenda, Apt, Fits
<1>6. ToSet(todo) = {} /\ (\A op, x : ~Due(op, x)) /\ \A ops : None(ops) BY <1>1, NothingDue
<1>7. /\ Due1 => Stage1
      /\ DuePrimary => StagePrimary
      /\ Stage1 /\ DueUnique => StageUnique
  <2>1. Due1 => Stage1 BY <1>1, <1>6 DEF Due1, Stage1, InPlace
  <2>2. DuePrimary => StagePrimary BY <1>6 DEF DuePrimary, StagePrimary, Held
  <2>3. Stage1 /\ DueUnique => StageUnique BY <1>6 DEF DueUnique, Stage1, InPlace, StageUnique
  <2> QED BY <2>1, <2>2, <2>3
<1>8. /\ Stage1' <=> Stage1
      /\ StagePrimary' <=> StagePrimary
      /\ StageUnique' <=> StageUnique
      /\ Stray' <=> Stray
      /\ Blocked' <=> Blocked
      /\ Countless' <=> Countless
      /\ PrimaryHeld' <=> PrimaryHeld
      /\ (Matches \/ LeftAlone)' <=> (Matches \/ LeftAlone)
  <2>1. /\ Stage1' <=> Stage1
        /\ StagePrimary' <=> StagePrimary
        /\ StageUnique' <=> StageUnique
        /\ Countless' <=> Countless
        /\ PrimaryHeld' <=> PrimaryHeld
    BY <1>1 DEF Stage1, InPlace, None, StagePrimary, StageUnique, Held, Countless, PrimaryHeld
  <2>2. Stray' <=> Stray BY <1>1 DEF Stray, Stays, Unwanted, Due
  <2>3. Blocked' <=> Blocked BY <1>1 DEF Blocked, None
  <2>4. (Matches \/ LeftAlone)' <=> (Matches \/ LeftAlone)
    BY <1>1 DEF Matches, LeftAlone, OtherColumns, Covered
  <2> QED BY <2>1, <2>2, <2>3, <2>4
<1>9. SuccessInv'
  <2>1. /\ good = 0 /\ status => Due1
        /\ good # 0 => Stage1
        /\ good = 1 /\ status => Stray \/ (OnTarget /\ DuePrimary /\ DueUnique)
        /\ good \in {2, 3} /\ status => Stray \/ (OnTarget /\ StagePrimary /\ StageUnique /\ Due3)
    BY <1>1 DEF SchemaInv, SuccessInv
  <2>2. Stage1 /\ StagePrimary /\ StageUnique /\ Due3 => Matches \/ LeftAlone BY <1>1, Arrives
  <2> QED BY <1>1, <1>2, <1>3, <1>7, <1>8, <2>1, <2>2 DEF SuccessInv
<1>10. RefusalInv'
  <2>0. Plain' => Plain BY <1>1, PlainStays
  <2>1. SUFFICES ASSUME Plain PROVE RefusalInv' BY <2>0 DEF RefusalInv
  <2>2. /\ clean = 1 => Due1 /\ Uncounted
        /\ clean \in {2, 3} => Stage1 /\ Countless
        /\ clean = 2 => Stray \/ (OnTarget /\ DuePrimary)
        /\ clean = 3 => Stray \/ StagePrimary
        /\ clean = 3 /\ ~status => PrimaryHeld \/ Stray \/ Blocked
    BY <1>1, <2>1 DEF SchemaInv, RefusalInv
  <2>3. Uncounted => Countless BY <1>6 DEF Uncounted, Countless
  <2> QED BY <1>1, <1>7, <1>8, <2>2, <2>3 DEF RefusalInv
<1> QED BY <1>4, <1>5, <1>9, <1>10 DEF SchemaInv

(* Table::create().                                                        *)
LEMMA CreatedSound ==
  ASSUME Wanted(wanted)
  PROVE  /\ Parts(Created) /\ Pinned(Created) = Created
         /\ ColumnsOf(Created) = DOMAIN wanted.type /\ Created.uniq = wanted.uniq
         /\ Created.pk = {f \in DOMAIN wanted.key : wanted.key[f] = "PRI"}
         /\ NamesApart(Created) <=>
              \A n \in DOMAIN wanted.uniq : ~(n \in DOMAIN wanted.key /\ wanted.key[n] = "MUL")
         /\ \A f \in ColumnsOf(Created) : Created.type[f] = "auto" => wanted.type[f] = "auto"
<1> DEFINE P == {f \in DOMAIN wanted.key : wanted.key[f] = "PRI"}
           M == {f \in DOMAIN wanted.key : wanted.key[f] = "MUL"}
           K == {PlainKey(f, f) : f \in M}
           a == [type |-> wanted.type, pk |-> P, keys |-> K, uniq |-> wanted.uniq]
<1>1. P \subseteq DOMAIN wanted.type /\ M \subseteq DOMAIN wanted.type /\ M \subseteq Columns BY DEF Wanted
<1>2. Created = Pinned(a) BY DEF Created
<1>7. \A f \in M : f \in DOMAIN wanted.key /\ wanted.key[f] = "MUL" OBVIOUS
<1>8. \A f \in DOMAIN wanted.key : wanted.key[f] = "MUL" => f \in M OBVIOUS
<1> HIDE DEF P, M
<1>9. \A f \in M : PlainKey(f, f) \in K /\ PlainKey(f, f).name = f /\ PlainKey(f, f).column = f
  BY DEF PlainKey
<1>10. \A k \in K : k.name \in M /\ k = PlainKey(k.name, k.name) BY <1>9
<1>11. K \subseteq [name : KeyNames, column : DOMAIN wanted.type] BY <1>1 DEF PlainKey, KeyNames
<1> HIDE DEF K
<1>3. /\ a = [type |-> a.type, pk |-> a.pk, keys |-> a.keys, uniq |-> a.uniq]
      /\ a.type = wanted.type /\ a.pk = P /\ a.keys = K /\ a.uniq = wanted.uniq
  OBVIOUS
<1> HIDE DEF a
<1>4. ColumnsOf(a) = DOMAIN wanted.type BY <1>3 DEF ColumnsOf
<1>5. Parts(a) BY <1>1, <1>3, <1>4, <1>11 DEF Parts, Wanted
<1>6. /\ Parts(Created) /\ ColumnsOf(Created) = DOMAIN wanted.type
      /\ Created.pk = P /\ Created.uniq = wanted.uniq /\ Created.keys = K
      /\ Pinned(Created) = Created
      /\ \A f \in DOMAIN wanted.type : Created.type[f] =
           IF f \in P /\ wanted.type[f] = "null" THEN "notnull" ELSE wanted.type[f]
  BY <1>2, <1>3, <1>4, <1>5, PinnedParts
<1>12. NamesApart(Created) <=>
         \A n \in DOMAIN wanted.uniq : ~(n \in DOMAIN wanted.key /\ wanted.key[n] = "MUL")
  BY <1>6, <1>7, <1>8, <1>9, <1>10 DEF NamesApart
<1> QED BY <1>6, <1>12 DEF P

LEMMA CreateKeeps == ASSUME SchemaInv, Create PROVE SchemaInv'
<1>1. /\ todo # <<>> /\ Head(todo).op = "create" /\ todo' = Tail(todo)
      /\ UNCHANGED <<wanted, running, clean, good, failures>>
  BY DEF Create
<1>2. table = NoTable /\ todo = <<Creation>>
  <2>1. SUFFICES ASSUME \A s \in ToSet(todo) : Apt(s) PROVE FALSE
    BY <1>1 DEF SchemaInv, Agenda
  <2>2. Popped(Head(todo)) BY <1>1, Pops DEF SchemaInv, Agenda
  <2>3. Apt(Head(todo)) BY <2>1, <2>2 DEF Popped
  <2> QED BY <1>1, <2>3 DEF Apt, Fits, Statements, ColumnOps, Creation
<1>3. todo' = <<>> BY <1>1, <1>2
<1>4. Wanted(wanted) BY WantedRead DEF SchemaInv
<1>5. running /\ good = 0
  <2>1. ~Stage1 BY <1>2 DEF Stage1, InPlace
  <2> QED BY <1>1, <2>1 DEF SchemaInv, TypeOK, SuccessInv
<1>6. (table' = Created /\ status' = status /\ Sound(Created)) \/ (table' = NoTable /\ status' = FALSE)
  <2>1. CASE CreateRefused BY <1>2, <2>1 DEF Create
  <2>2. CASE ~CreateRefused
    <3>1. Legal(Created) BY <2>2 DEF CreateRefused
    <3>3. NamesApart(Created) BY <2>2 DEF CreateRefused
    <3>2. Sound(Created) BY <1>4, <3>1, <3>3, CreatedSound, ShapedParts DEF Sound
    <3> QED BY <2>2, <3>2 DEF Create
  <2> QED BY <2>1, <2>2
<1>7. TypeOK' BY <1>1, <1>5, <1>6 DEF SchemaInv, TypeOK
<1>8. Agenda'
  <2>1. Neat(<<>>) BY EmptySeq DEF Neat
  <2>2. ToSet(<<>>) = {} BY DEF ToSet
  <2> QED BY <1>3, <1>6, <2>1, <2>2 DEF Agenda
<1>9. table' = Created => Due1'
  <2>1. SUFFICES ASSUME table' = Created PROVE Due1' OBVIOUS
  <2>2. /\ ColumnsOf(table') = DOMAIN wanted.type /\ table'.uniq = wanted.uniq /\ Parts(table')
    BY <1>4, <2>1, CreatedSound
  <2>3. table' # NoTable
    <3>1. ColumnsOf(NoTable) = {} BY DEF ColumnsOf, NoTable
    <3> QED BY <2>2, <3>1 DEF Parts
  <2> QED BY <1>1, <2>2, <2>3 DEF Due1
<1>10. SuccessInv' BY <1>1, <1>5, <1>6, <1>9 DEF SuccessInv
<1>11. RefusalInv'
  <2>0. Plain' => Plain
    <3>1. CASE table' = NoTable BY <1>1, <3>1, PlainStays
    <3>2. CASE table' # NoTable
      <4>1. ~CreateRefused BY <1>2, <3>2 DEF Create
      <4>2. ~Barred BY <1>4, <4>1, CreatedSound DEF CreateRefused, Barred
      <4> QED BY <1>1, <4>2 DEF Plain, WidePrimary, Counting
    <3> QED BY <3>1, <3>2
  <2>1. SUFFICES ASSUME Plain PROVE RefusalInv' BY <2>0 DEF RefusalInv
  <2>2. clean \notin {2, 3}
    <3>1. ~Stage1 BY <1>2 DEF Stage1, InPlace
    <3> QED BY <2>1, <3>1 DEF SchemaInv, RefusalInv
  <2>3. \A f \in ColumnsOf(Created) : Created.type[f] # "auto"
    BY <1>4, <2>1, CreatedSound DEF Plain, Counting
  <2>4. ~CreateRefused
    <3>1. Legal(Created) BY <2>3, CountlessLegal
    <3>2. ~(Cardinality(Created.pk) > 1) BY <1>4, <2>1, CreatedSound DEF Plain, WidePrimary
    <3>3. NamesApart(Created) BY <1>2, <1>4, <2>1, CreatedSound DEF Plain, Barred
    <3> QED BY <3>1, <3>2, <3>3 DEF CreateRefused
  <2>5. table' = Created BY <2>4 DEF Create
  <2>6. Uncounted' BY <2>3, <2>5 DEF Uncounted
  <2> QED BY <1>1, <1>5, <1>9, <2>2, <2>5, <2>6 DEF RefusalInv
<1> QED BY <1>7, <1>8, <1>10, <1>11 DEF SchemaInv

-----------------------------------------------------------------------------
(* patch() compares.                                                       *)
Compared(old) ==
  /\ table # NoTable /\ Sound(table) /\ Parts(table) /\ old = Read(table) /\ Wanted(wanted)
  /\ old.type = table.type /\ DOMAIN old.type = ColumnsOf(table) /\ old.uniq = table.uniq
  /\ UniColumns(old) = UniColumns(table)
  /\ \A f \in ColumnsOf(table) : old.key[f] = ColumnKey(table, f)
  /\ UNCHANGED <<table, wanted>> /\ Neat(todo') /\ \A s : s \in ToSet(todo') <=> Listed(s, old)

LEMMA PatchCompares ==
  ASSUME TypeOK, Patch, table # NoTable PROVE Compared(Read(table))
<1>1. PICK names \in Orders : todo' = Modify(Read(table), names) BY DEF Patch
<1> DEFINE old == Read(table)
<1>2. Sound(table) /\ Parts(table) /\ Wanted(wanted) BY ShapedParts, WantedRead DEF TypeOK, Sound
<1>3. /\ old.type = table.type /\ DOMAIN old.type = ColumnsOf(table) /\ old.uniq = table.uniq
      /\ \A f \in ColumnsOf(table) : old.key[f] = ColumnKey(table, f)
  BY DEF Read, ColumnsOf
<1>4. UniColumns(old) = UniColumns(table) BY <1>3 DEF UniColumns
<1>5. DOMAIN old.type \subseteq Columns /\ DOMAIN old.uniq \subseteq UniqueKeys BY <1>2, <1>3 DEF Parts
<1> HIDE DEF old
<1>6. Neat(Modify(old, names)) /\ \A s : s \in ToSet(Modify(old, names)) <=> Listed(s, old)
  BY <1>2, <1>5, ModifyLists
<1>7. UNCHANGED <<table, wanted>> /\ todo' = Modify(old, names) BY <1>1 DEF Patch, old
<1>8. old = Read(table) BY DEF old
<1>9. Compared(old) BY <1>2, <1>3, <1>4, <1>6, <1>7, <1>8 DEF Compared
<1> QED BY <1>9 DEF old

(* What is on the list, name by name.                                      *)
Compares(old) ==
  /\ \A s \in ToSet(todo') : s = Stmt(s.op, s.name)
  /\ \A f : Due("add", f)' <=> f \in DOMAIN wanted.type \ DOMAIN old.type
  /\ \A f : Due("drop", f)' <=> f \in DOMAIN old.type \ DOMAIN wanted.type
  /\ \A f : Due("modify", f)' <=> f \in DOMAIN old.type \cap DOMAIN wanted.type /\ Retyped(old, f)
  /\ \A f : Due("dropPrimary", f)' <=> f \in DOMAIN old.type \cap DOMAIN wanted.type /\ LosesPrimary(old, f)
  /\ \A f : Due("addPrimary", f)' <=> f \in DOMAIN old.type \cap DOMAIN wanted.type /\ GainsPrimary(old, f)
  /\ \A f : Due("dropKey", f)' <=> f \in DOMAIN old.type \cap DOMAIN wanted.type /\ LosesKey(old, f)
  /\ \A f : Due("addKey", f)' <=> f \in DOMAIN old.type \cap DOMAIN wanted.type /\ GainsKey(old, f)
  /\ \A u : Due("addUnique", u)' <=> u \in NewUnique(old)
  /\ \A u : Due("dropUnique", u)' <=> u \in DOMAIN old.uniq \ DOMAIN wanted.uniq

LEMMA ListedNames == ASSUME NEW old, Compared(old) PROVE Compares(old)
<1>1. \A o, x, p, y : Stmt(o, x) = Stmt(p, y) <=> o = p /\ x = y
  <2>1. ASSUME NEW o, NEW x, NEW p, NEW y, Stmt(o, x) = Stmt(p, y) PROVE o = p /\ x = y
    <3>1. Stmt(o, x).op = o /\ Stmt(o, x).name = x /\ Stmt(p, y).op = p /\ Stmt(p, y).name = y BY DEF Stmt
    <3> QED BY <2>1, <3>1
  <2> QED BY <2>1
<1>2. \A s : s \in ToSet(todo') <=> Listed(s, old) BY DEF Compared
<1>3. \A o, x : Due(o, x)' <=> Listed(Stmt(o, x), old) BY <1>2 DEF Due
<1>4. \A s \in ToSet(todo') : s = Stmt(s.op, s.name) BY <1>2 DEF Listed, ForColumn, Stmt
<1>5. \A x : /\ Due("add", x)' <=> x \in DOMAIN wanted.type \ DOMAIN old.type
             /\ Due("drop", x)' <=> x \in DOMAIN old.type \ DOMAIN wanted.type
             /\ Due("addUnique", x)' <=> x \in NewUnique(old)
             /\ Due("dropUnique", x)' <=> x \in DOMAIN old.uniq \ DOMAIN wanted.uniq
  BY <1>1, <1>3 DEF Listed, ForColumn
<1>6. \A o, x : o \in {"modify", "dropPrimary", "addPrimary", "dropKey", "addKey"} =>
        (Listed(Stmt(o, x), old) <=>
           \E f \in DOMAIN old.type \cap DOMAIN wanted.type : ForColumn(Stmt(o, x), old, f))
  BY <1>1 DEF Listed
<1>7. \A x, f : /\ ForColumn(Stmt("modify", x), old, f) <=> x = f /\ Retyped(old, f)
                /\ ForColumn(Stmt("dropPrimary", x), old, f) <=> x = f /\ LosesPrimary(old, f)
                /\ ForColumn(Stmt("dropKey", x), old, f) <=> x = f /\ LosesKey(old, f)
                /\ ForColumn(Stmt("addPrimary", x), old, f) <=> x = f /\ GainsPrimary(old, f)
                /\ ForColumn(Stmt("addKey", x), old, f) <=> x = f /\ GainsKey(old, f)
  BY <1>1 DEF ForColumn
<1>8. \A x : /\ Due("modify", x)' <=> x \in DOMAIN old.type \cap DOMAIN wanted.type /\ Retyped(old, x)
             /\ Due("dropPrimary", x)' <=> x \in DOMAIN old.type \cap DOMAIN wanted.type /\ LosesPrimary(old, x)
             /\ Due("dropKey", x)' <=> x \in DOMAIN old.type \cap DOMAIN wanted.type /\ LosesKey(old, x)
             /\ Due("addPrimary", x)' <=> x \in DOMAIN old.type \cap DOMAIN wanted.type /\ GainsPrimary(old, x)
             /\ Due("addKey", x)' <=> x \in DOMAIN old.type \cap DOMAIN wanted.type /\ GainsKey(old, x)
  BY <1>3, <1>6, <1>7
<1> QED BY <1>4, <1>5, <1>8 DEF Compares

(* The keys of columns that no unique key has, as they were read.          *)
LEMMA OwnRead ==
  ASSUME NEW old, Compared(old), NEW f \in ColumnsOf(table), f \notin UniColumns(old)
  PROVE  /\ old.key[f] = IF f \in table.pk THEN "PRI"
                          ELSE IF f \in KeyedColumns(table) THEN "MUL" ELSE ""
         /\ old.key[f] \in {"PRI", "MUL", ""}
<1>1. f \notin UniColumns(table) /\ Parts(table) /\ old.key[f] = ColumnKey(table, f) BY DEF Compared
<1>2. ColumnKey(table, f) = IF f \in table.pk THEN "PRI"
                            ELSE IF f \in KeyedColumns(table) THEN "MUL" ELSE ""
  BY <1>1, OwnKey
<1> QED BY <1>1, <1>2

LEMMA PrimaryRead ==
  ASSUME NEW old, Compared(old), NEW f \in table.pk
  PROVE  f \in ColumnsOf(table) /\ old.key[f] = "PRI"
<1>1. f \in ColumnsOf(table) BY DEF Compared, Parts
<1> QED BY <1>1 DEF Compared, ColumnKey

LEMMA ComparedAgenda == ASSUME NEW old, Compared(old) PROVE Agenda'
<1>1. Compares(old) BY ListedNames
<1>2. SUFFICES ASSUME NEW s \in ToSet(todo') PROVE Apt(s)'
  BY DEF Compared, Agenda
<1>3. /\ \A r \in ToSet(todo') : r = Stmt(r.op, r.name) /\ r \in Statements
      /\ DOMAIN old.type = ColumnsOf(table) /\ table' = table /\ wanted' = wanted
      /\ old.uniq = table.uniq
  <2>1. \A r \in ToSet(todo') : r \in Statements
    <3>1. todo' \in Seq(Statements) BY DEF Compared, Neat
    <3>2. \A i \in DOMAIN todo' : todo'[i] \in Statements BY <3>1
    <3> QED BY <3>2 DEF ToSet
  <2> QED BY <1>1, <2>1 DEF Compared, Compares
<1>4. s = Stmt(s.op, s.name) /\ s \in Statements /\ Due(s.op, s.name)' BY <1>2, <1>3 DEF Due
<1>5. s # Creation
  <2>1. Listed(s, old) BY <1>2 DEF Compared
  <2> QED BY <2>1 DEF Listed, ForColumn, Stmt, Creation
<1> DEFINE x == s.name
<1>6. s.op = "add" => x \in DOMAIN wanted.type \ ColumnsOf(table) BY <1>1, <1>3, <1>4 DEF Compares
<1>7. s.op = "drop" => x \notin DOMAIN wanted.type BY <1>1, <1>4 DEF Compares
<1>8. s.op \in {"modify", "dropPrimary", "addPrimary", "dropKey", "addKey"} =>
        x \in ColumnsOf(table) /\ x \in DOMAIN wanted.type
  BY <1>1, <1>3, <1>4 DEF Compares
<1>9. s.op = "addPrimary" => wanted.key[x] = "PRI" BY <1>1, <1>4 DEF Compares, GainsPrimary
<1>10. s.op = "addKey" => wanted.key[x] = "MUL" BY <1>1, <1>4 DEF Compares, GainsKey, AddsKey
<1>11. s.op = "dropKey" => wanted.key[x] # "MUL"
  <2>1. SUFFICES ASSUME s.op = "dropKey" PROVE wanted.key[x] # "MUL" OBVIOUS
  <2>2. LosesKey(old, x) BY <1>1, <1>4, <2>1 DEF Compares
  <2>3. old.key[x] \in {"PRI", "MUL", ""} BY <1>8, <2>1, <2>2, OwnRead DEF LosesKey, DropsKey
  <2> QED BY <2>2, <2>3 DEF LosesKey, DropsKey, Changed
<1>12. s.op = "dropUnique" => x \notin DOMAIN wanted.uniq BY <1>1, <1>4 DEF Compares
<1>13. s.op = "addUnique" => x \in DOMAIN wanted.uniq /\ x \notin DOMAIN table.uniq
  BY <1>1, <1>3, <1>4 DEF Compares, NewUnique
<1> HIDE DEF x
<1>14. Fits(table, s) BY <1>4, <1>5, <1>6, <1>8, <1>13 DEF Fits, x
<1> QED BY <1>3, <1>7, <1>8, <1>9, <1>10, <1>11, <1>12, <1>13, <1>14 DEF Apt, Fits, x

(* The first run: what is missing and what is too much is on the list.     *)
LEMMA ComparedDue1 ==
  ASSUME NEW old, Compared(old)
  PROVE  /\ Due1'
         /\ ~Counting => Uncounted'
<1>1. Compares(old) BY ListedNames
<1>2. /\ table' = table /\ wanted' = wanted /\ table # NoTable
      /\ DOMAIN old.type = ColumnsOf(table) /\ old.type = table.type /\ old.uniq = table.uniq
  BY DEF Compared
<1>3. Due1' BY <1>1, <1>2 DEF Compares, Due1
<1>4. ASSUME ~Counting PROVE Uncounted'
  <2>1. SUFFICES ASSUME NEW f \in ColumnsOf(table), table.type[f] = "auto"
                 PROVE  Due("drop", f)' \/ Due("modify", f)'
    BY <1>2 DEF Uncounted
  <2>2. CASE f \notin DOMAIN wanted.type BY <1>1, <1>2, <2>2 DEF Compares
  <2>3. CASE f \in DOMAIN wanted.type
    <3>1. Retyped(old, f) BY <1>2, <1>4, <2>1, <2>3 DEF Counting, Retyped
    <3> QED BY <1>1, <1>2, <2>3, <3>1 DEF Compares
  <2> QED BY <2>2, <2>3
<1> QED BY <1>3, <1>4

(* Plain keys that should go, and the names by which they are dropped: P.  *)
(* If none of those that stay is a stray, as many keys go as there are     *)
(* names, each of them a column of one that goes; none of another name     *)
(* loses its key, and no column of theirs is without a key of its name.    *)
LEMMA NamesCount ==
  ASSUME NEW K, IsFiniteSet(K), NEW P, P \subseteq {k.column : k \in K},
         \A k \in K : k.name \in P => \A l \in K : l.name = k.name => l = k,
         \A k \in K : k.name \notin P => \E l \in K : l.name \notin P /\ l.name = k.column
  PROVE  /\ \A x \in P : \E k \in K : k.name = x
         /\ \A k \in K : k.column \in P => k.name \in P
         /\ \A k \in K : \E l \in K : l.name = k.column
<1> DEFINE G == {k \in K : k.name \in P}
           names == [k \in G |-> k.name]
           columns == [k \in {l \in G : l.column \in P} |-> k.column]
           D == {l \in G : l.column \in P}
<1>1. IsFiniteSet(G) BY FS_Subset
<1>2. \A k \in K : k.column \in P => k \in G OBVIOUS
<1>3. D \in SUBSET G OBVIOUS
<1>4. IsFiniteSet(D) /\ Cardinality(D) <= Cardinality(G) /\ (Cardinality(G) = Cardinality(D) => G = D)
  BY <1>1, <1>3, FS_Subset
<1>5. columns \in Surjection(D, P)
  <2>1. columns \in [D -> P] OBVIOUS
  <2>2. ASSUME NEW x \in P PROVE \E k \in D : columns[k] = x
    <3>1. PICK k \in K : k.column = x BY <2>2
    <3>2. k \in D BY <1>2, <3>1
    <3> QED BY <3>1, <3>2
  <2> QED BY <2>1, <2>2 DEF Surjection
<1>6. IsFiniteSet(P) /\ Cardinality(P) <= Cardinality(D) BY <1>4, <1>5, FS_Surjection
<1>7. names \in Injection(G, P)
  <2>1. names \in [G -> P] OBVIOUS
  <2>2. ASSUME NEW k \in G, NEW l \in G, names[k] = names[l] PROVE k = l BY <2>2
  <2> QED BY <2>1, <2>2 DEF Injection, IsInjective
<1>8. Cardinality(G) <= Cardinality(P) /\ (Cardinality(G) = Cardinality(P) <=> names \in Surjection(G, P))
  BY <1>6, <1>7, FS_Injection
<1>9. Cardinality(G) \in Nat /\ Cardinality(P) \in Nat /\ Cardinality(D) \in Nat
  BY <1>1, <1>4, <1>6, FS_CardinalityType
<1>10. Cardinality(G) = Cardinality(P) /\ Cardinality(G) = Cardinality(D)
  BY ONLY <1>4, <1>6, <1>8, <1>9
<1>11. \A x \in P : \E k \in G : k.name = x
  <2>1. names \in Surjection(G, P) BY <1>8, <1>10
  <2>2. \A x \in P : \E k \in G : names[k] = x BY <2>1 DEF Surjection
  <2> QED BY <2>2
<1>12. G = D BY <1>4, <1>10
<1>13. ASSUME NEW k \in K PROVE \E l \in K : l.name = k.column
  <2>1. CASE k \in G BY <1>11, <1>12, <2>1
  <2>2. CASE k \notin G BY <2>2
  <2> QED BY <2>1, <2>2
<1> QED BY <1>2, <1>11, <1>13

(* A table has finitely many keys.                                         *)
LEMMA KeysFinite == ASSUME NEW t, Parts(t) PROVE IsFiniteSet(t.keys)
<1> DEFINE R == [name : KeyNames, column : Columns]
           make == [p \in KeyNames \X Columns |-> PlainKey(p[1], p[2])]
<1>1. IsFiniteSet(KeyNames \X Columns)
  <2>1. IsFiniteSet(Columns \cup UniqueKeys) BY SchemaAssumption, FS_Union
  <2>2. IsFiniteSet(KeyNames) BY <2>1, FS_AddElement DEF KeyNames
  <2> QED BY <2>2, SchemaAssumption, FS_Product
<1>2. make \in Surjection(KeyNames \X Columns, R)
  <2>1. \A n \in KeyNames, f \in Columns :
          PlainKey(n, f) \in R /\ <<n, f>> \in KeyNames \X Columns /\ make[<<n, f>>] = PlainKey(n, f)
    BY DEF PlainKey
  <2>2. make \in [KeyNames \X Columns -> R]
    <3>1. ASSUME NEW p \in KeyNames \X Columns PROVE PlainKey(p[1], p[2]) \in R BY DEF PlainKey
    <3> QED BY <3>1
  <2>3. ASSUME NEW k \in R PROVE \E p \in KeyNames \X Columns : make[p] = k
    <3>1. k.name \in KeyNames /\ k.column \in Columns /\ k = PlainKey(k.name, k.column) BY DEF PlainKey
    <3> HIDE DEF make, R
    <3> QED BY <2>1, <3>1
  <2> HIDE DEF make, R
  <2> QED BY <2>2, <2>3 DEF Surjection
<1>3. IsFiniteSet(R)
  <2> HIDE DEF make, R
  <2> QED BY <1>1, <1>2, FS_Surjection
<1>4. t.keys \in SUBSET R BY DEF Parts
<1> HIDE DEF R
<1> QED BY <1>3, <1>4, FS_Subset

(* Where no stray stays over the run, the run drops what it should.        *)
LEMMA ComparedTargets ==
  ASSUME NEW old, Compared(old), Stage1, ~Stray'
  PROVE  /\ OnTarget'
         /\ \A k \in table.keys :
              Unwanted(k.column) /\ Due("dropKey", k.column)' => Due("dropKey", k.name)'
         /\ todo = <<>> => ~Stray
<1>1. Compares(old) BY ListedNames
<1>2. /\ table' = table /\ wanted' = wanted /\ Wanted(wanted) /\ Parts(table) /\ NamesApart(table)
      /\ DOMAIN old.type = ColumnsOf(table) /\ ColumnsOf(table) \subseteq Columns
  BY DEF Compared, Sound, Parts
<1> DEFINE K == {k \in table.keys : Unwanted(k.column)}
           P == {f \in Columns : Due("dropKey", f)'}
<1>3. IsFiniteSet(K)
  <2>1. IsFiniteSet(table.keys) BY <1>2, KeysFinite
  <2> QED BY <2>1, FS_Subset
<1>4. ASSUME NEW x, Due("dropKey", x)' PROVE x \in P /\ \E k \in K : k.column = x
  <2>1. x \in ColumnsOf(table) /\ x \in DOMAIN wanted.type /\ LosesKey(old, x)
    BY <1>1, <1>2, <1>4 DEF Compares
  <2>2. x \notin UniColumns(old) /\ old.key[x] # "" /\ old.key[x] # "PRI" /\ wanted.key[x] # old.key[x]
    BY <2>1 DEF LosesKey, DropsKey, Changed
  <2>3. x \in KeyedColumns(table) /\ old.key[x] = "MUL" BY <2>1, <2>2, OwnRead
  <2>4. Unwanted(x) BY <1>2, <2>1, <2>2, <2>3 DEF Unwanted, Wanted
  <2> QED BY <1>2, <1>4, <2>1, <2>3, <2>4 DEF KeyedColumns
<1>5. \A x : Due("dropKey", x)' <=> x \in P BY <1>4
<1>6. P \subseteq {k.column : k \in K} BY <1>4
<1>7. \A k \in K : k.name \in P => \A l \in K : l.name = k.name => l = k
  BY <1>2, SchemaAssumption DEF NamesApart
<1>8. \A k \in table.keys : Stays(k)' <=> k.name \notin P BY <1>5 DEF Stays
<1>9. ASSUME NEW k \in K, k.name \notin P PROVE \E l \in K : l.name \notin P /\ l.name = k.column
  <2>1. k \in table.keys /\ Unwanted(k.column) /\ Stays(k)' BY <1>8, <1>9
  <2>2. \A f : Unwanted(f)' <=> Unwanted(f) BY <1>2 DEF Unwanted
  <2>3. PICK l \in table.keys : Unwanted(l.column) /\ Stays(l)' /\ l.name = k.column
    BY <1>2, <2>1, <2>2 DEF Stray
  <2> QED BY <1>8, <2>3
<1> HIDE DEF P
<1>10. /\ \A x \in P : \E k \in K : k.name = x
       /\ \A k \in K : k.column \in P => k.name \in P
       /\ \A k \in K : \E l \in K : l.name = k.column
  <2> HIDE DEF K
  <2> QED BY <1>3, <1>6, <1>7, <1>9, NamesCount
<1>11. OnTarget' BY <1>2, <1>5, <1>10 DEF OnTarget, Unwanted
<1>12. \A k \in table.keys : Unwanted(k.column) /\ Due("dropKey", k.column)' => Due("dropKey", k.name)'
  BY <1>5, <1>10
<1>13. ASSUME todo = <<>> PROVE ~Stray
  <2>1. \A k : Stays(k) BY <1>13, NothingDue DEF Stays
  <2> QED BY <1>10, <2>1 DEF Stray
<1> QED BY <1>11, <1>12, <1>13

(* The second.                                                             *)
LEMMA ComparedNone ==
  ASSUME NEW old, Compared(old), NEW ops, \A op \in ops : \A x : ~Due(op, x)' PROVE None(ops)'
<1>1. SUFFICES ASSUME NEW s \in ToSet(todo'), s.op \in ops PROVE FALSE BY DEF None
<1>2. s = Stmt(s.op, s.name) BY ListedNames DEF Compares
<1> QED BY <1>1, <1>2 DEF Due

LEMMA ComparedDue2 ==
  ASSUME NEW old, Compared(old), Stage1 PROVE Stage1' /\ DuePrimary' /\ DueUnique'
<1>1. Compares(old) BY ListedNames
<1>2. /\ table' = table /\ wanted' = wanted
      /\ DOMAIN old.type = ColumnsOf(table) /\ old.uniq = table.uniq
      /\ UniColumns(old) = UniColumns(table)
  BY DEF Compared
<1>3. ColumnsOf(table) = DOMAIN wanted.type /\ DOMAIN table.uniq \subseteq DOMAIN wanted.uniq
  BY DEF Stage1, InPlace
<1>4. Stage1'
  <2>1. \A op \in {"add", "drop", "dropUnique"} : \A x : ~Due(op, x)' BY <1>1, <1>2, <1>3 DEF Compares
  <2>2. None({"add", "drop", "dropUnique"})' BY <2>1, ComparedNone
  <2> QED BY <1>2, <2>2 DEF Stage1, InPlace
<1>5. \A u \in DOMAIN wanted.uniq : u \in DOMAIN table.uniq \/ Due("addUnique", u)'
  BY <1>1, <1>2 DEF Compares, NewUnique
<1>6. ASSUME NEW f \in table.pk, wanted.key[f] # "PRI", f \notin UniColumns(table)
      PROVE  Due("dropPrimary", f)'
  <2>1. f \in ColumnsOf(table) /\ old.key[f] = "PRI" BY PrimaryRead
  <2>2. LosesPrimary(old, f) BY <1>2, <1>6, <2>1 DEF LosesPrimary, Changed, DropsKey
  <2> QED BY <1>1, <1>2, <1>3, <2>1, <2>2 DEF Compares
<1> QED BY <1>2, <1>4, <1>5, <1>6 DEF DuePrimary, DueUnique

(* The third.                                                              *)
LEMMA ComparedKeyed == ASSUME NEW old, Compared(old) PROVE Keyed'
<1>1. Compares(old) /\ table' = table /\ wanted' = wanted BY ListedNames DEF Compared
<1>2. ASSUME NEW f \in table.pk PROVE ~Due("addPrimary", f)'
  <2>1. old.key[f] = "PRI" BY PrimaryRead
  <2> QED BY <1>1, <2>1 DEF Compares, GainsPrimary, Changed
<1> QED BY <1>1, <1>2 DEF Keyed

LEMMA ComparedStage2 ==
  ASSUME NEW old, Compared(old)
  PROVE  /\ StagePrimary => StagePrimary'
         /\ StageUnique => StageUnique'
<1>1. Compares(old) BY ListedNames
<1>2. /\ table' = table /\ wanted' = wanted /\ DOMAIN old.type = ColumnsOf(table)
      /\ old.uniq = table.uniq /\ UniColumns(old) = UniColumns(table)
  BY DEF Compared
<1>3. ASSUME StagePrimary PROVE StagePrimary'
  <2>1. ASSUME NEW f, Due("dropPrimary", f)' PROVE FALSE
    <3>1. LosesPrimary(old, f) /\ f \in ColumnsOf(table) BY <1>1, <1>2, <2>1 DEF Compares
    <3>2. f \notin UniColumns(old) /\ old.key[f] = "PRI" /\ wanted.key[f] # "PRI"
      BY <3>1 DEF LosesPrimary, DropsKey, Changed
    <3>3. f \in table.pk BY <3>1, <3>2, OwnRead
    <3> QED BY <1>2, <1>3, <3>2, <3>3 DEF StagePrimary, Held
  <2>2. None({"dropPrimary"})' BY <2>1, ComparedNone
  <2> QED BY <1>2, <1>3, <2>2 DEF StagePrimary, Held
<1>4. ASSUME StageUnique PROVE StageUnique'
  <2>1. \A u : ~Due("addUnique", u)' BY <1>1, <1>2, <1>4 DEF Compares, NewUnique, StageUnique
  <2>2. None({"addUnique"})' BY <2>1, ComparedNone
  <2> QED BY <1>2, <1>4, <2>2 DEF StageUnique
<1> QED BY <1>3, <1>4

LEMMA ComparedDue3 ==
  ASSUME NEW old, Compared(old), Stage1, StagePrimary, StageUnique, ~Stray' PROVE Due3'
<1>1. Compares(old) BY ListedNames
<1>2. /\ table' = table /\ wanted' = wanted /\ Wanted(wanted)
      /\ DOMAIN old.type = ColumnsOf(table) /\ old.type = table.type /\ old.uniq = table.uniq
      /\ UniColumns(old) = UniColumns(table)
  BY DEF Compared
<1>3. ColumnsOf(table) = DOMAIN wanted.type /\ DOMAIN table.uniq = DOMAIN wanted.uniq /\ Held
  BY DEF Stage1, StagePrimary, StageUnique, InPlace
<1>5. \A f \in ColumnsOf(table) : table.type[f] = wanted.type[f] \/ Due("modify", f)'
  BY <1>1, <1>2, <1>3 DEF Compares, Retyped
<1>6. ASSUME NEW f \in ColumnsOf(table), Own(f)
      PROVE  /\ wanted.key[f] = "PRI" => f \in table.pk \/ Due("addPrimary", f)'
             /\ wanted.key[f] = "MUL" => f \in KeyedColumns(table) \/ Due("addKey", f)'
             /\ wanted.key[f] = "" => \A k \in table.keys : k.column = f => Due("dropKey", k.name)'
  <2>1. f \notin UniColumns(old) /\ f \notin UniColumns(wanted) /\ f \notin UniColumns(table)
    BY <1>2, <1>6 DEF Own
  <2>2. old.key[f] = IF f \in table.pk THEN "PRI" ELSE IF f \in KeyedColumns(table) THEN "MUL" ELSE ""
    BY <2>1, OwnRead
  <2>3. ASSUME wanted.key[f] = "PRI", f \notin table.pk PROVE Due("addPrimary", f)'
    <3>1. old.key[f] # "PRI" BY <2>2, <2>3
    <3>2. GainsPrimary(old, f) BY <2>3, <3>1 DEF GainsPrimary, Changed
    <3> QED BY <1>1, <1>2, <1>3, <3>2 DEF Compares
  <2>4. ASSUME wanted.key[f] = "MUL", f \notin KeyedColumns(table) PROVE Due("addKey", f)'
    <3>1. old.key[f] # "MUL" BY <2>2, <2>4
    <3>2. GainsKey(old, f) BY <2>1, <2>4, <3>1 DEF GainsKey, Changed, AddsKey
    <3> QED BY <1>1, <1>2, <1>3, <3>2 DEF Compares
  <2>5. ASSUME wanted.key[f] = "", NEW k \in table.keys, k.column = f PROVE Due("dropKey", k.name)'
    <3>1. f \notin table.pk BY <1>3, <2>1, <2>5 DEF Held
    <3>2. old.key[f] = "MUL" BY <2>2, <2>5, <3>1 DEF KeyedColumns
    <3>3. LosesKey(old, f) BY <2>1, <2>5, <3>2 DEF LosesKey, Changed, DropsKey
    <3>4. Due("dropKey", f)' BY <1>1, <1>2, <1>3, <3>3 DEF Compares
    <3>5. Unwanted(f) BY <1>2, <1>3, <2>5 DEF Unwanted, Wanted
    <3> QED BY <2>5, <3>4, <3>5, ComparedTargets
  <2> QED BY <2>3, <2>4, <2>5
<1>7. \A f : Own(f)' <=> Own(f) BY <1>2 DEF Own
<1> QED BY <1>2, <1>5, <1>6, <1>7 DEF Due3

LEMMA PatchKeeps == ASSUME SchemaInv, Patch PROVE SchemaInv'
<1>1. /\ ~running /\ running' /\ running' = TRUE /\ status' = TRUE /\ status'
      /\ UNCHANGED <<table, wanted, good, failures>>
  BY DEF Patch
<1>2. clean \in 0..3 /\ good \in 0..3 BY DEF SchemaInv, TypeOK, Enough
<1>3. /\ clean = 0 => clean' = 1
      /\ clean = 1 => clean' = 2
      /\ clean \in {2, 3} => clean' = 3
  BY <1>2 DEF Patch, Enough
<1>4. TypeOK'
  <2>1. clean' \in 0..3 BY <1>2, <1>3
  <2> QED BY <1>1, <2>1 DEF SchemaInv, TypeOK, Enough
<1>5. /\ good # 0 => Stage1
      /\ good \in {2, 3} => Stray \/ (StagePrimary /\ StageUnique)
  BY <1>1 DEF SchemaInv, SuccessInv
<1>8. todo = <<>> BY <1>1 DEF SchemaInv, TypeOK
<1>9. Plain' => Plain BY <1>1, PlainStays
<1>6. CASE table = NoTable
  <2>1. todo' = <<Creation>> BY <1>6 DEF Patch, Creation
  <2>2. ~Stage1 BY <1>6 DEF Stage1, InPlace
  <2>3. Agenda'
    <3> DEFINE q == <<Creation>>
    <3>1. q \in Seq(Statements) /\ Len(q) = 1 BY DEF Statements
    <3>2. \A i, j \in 1..1 : ~(i < j) OBVIOUS
    <3>3. Neat(q) BY <3>1, <3>2 DEF Neat
    <3> QED BY <1>1, <1>6, <2>1, <3>3 DEF Agenda
  <2>4. Due1' BY <1>1, <1>6, <2>1 DEF Due1
  <2>5. Uncounted' BY <1>1, <1>6 DEF Uncounted, ColumnsOf, NoTable
  <2>6. SuccessInv' BY <1>1, <1>2, <1>5, <2>2, <2>4 DEF SuccessInv
  <2>7. RefusalInv'
    <3>1. SUFFICES ASSUME Plain PROVE RefusalInv' BY <1>9 DEF RefusalInv
    <3>2. clean = 0 BY <1>1, <1>2, <2>2, <3>1 DEF SchemaInv, RefusalInv
    <3> QED BY <1>1, <1>3, <2>4, <2>5, <3>2 DEF RefusalInv
  <2> QED BY <1>4, <2>3, <2>6, <2>7 DEF SchemaInv
<1>7. CASE table # NoTable
  <2> DEFINE old == Read(table)
  <2>1. Compared(old) BY <1>7, PatchCompares DEF SchemaInv
  <2> HIDE DEF old
  <2>2. Agenda' BY <2>1, ComparedAgenda
  <2>3. /\ Due1'
        /\ ~Counting => Uncounted'
        /\ Stage1 => Stage1' /\ DuePrimary' /\ DueUnique'
        /\ Keyed'
        /\ StagePrimary => StagePrimary'
        /\ StageUnique => StageUnique'
        /\ Stage1 => Stray' \/ (OnTarget' /\ ~Stray)
        /\ Stage1 /\ StagePrimary /\ StageUnique => Stray' \/ Due3'
    BY <1>8, <2>1, ComparedDue1, ComparedDue2, ComparedKeyed, ComparedStage2, ComparedTargets, ComparedDue3
  <2>4. SuccessInv' BY <1>1, <1>2, <1>5, <2>3 DEF SuccessInv
  <2>5. RefusalInv'
    <3>1. SUFFICES ASSUME Plain PROVE RefusalInv' BY <1>9 DEF RefusalInv
    <3>2. /\ clean \in {1, 2, 3} => Stage1 /\ Countless
          /\ clean \in {2, 3} => Stray \/ StagePrimary
      BY <1>1, <3>1 DEF SchemaInv, RefusalInv
    <3>3. ~Counting BY <3>1 DEF Plain
    <3>4. Countless => Countless' BY <1>1 DEF Countless
    <3> QED BY <1>1, <1>2, <1>3, <2>3, <3>2, <3>3, <3>4 DEF RefusalInv
  <2> QED BY <1>4, <2>2, <2>4, <2>5 DEF SchemaInv
<1> QED BY <1>6, <1>7

LEMMA SchemaStarts == ASSUME Init PROVE SchemaInv
<1>1. /\ table = NoTable \/ Sound(table)
      /\ todo = <<>> /\ ~running /\ running = FALSE /\ status = TRUE /\ clean = 0 /\ good = 0 /\ failures = 0
  BY SchemaAssumption DEF Init
<1>2. TypeOK
  <2>1. 0 \in 0..Enough /\ 0 \in 0..MaxFailures BY SchemaAssumption DEF Enough
  <2> QED BY <1>1, <2>1 DEF Init, TypeOK
<1>3. Agenda
  <2>1. Neat(<<>>) BY EmptySeq DEF Neat
  <2>2. ToSet(<<>>) = {} BY DEF ToSet
  <2> QED BY <1>1, <2>1, <2>2 DEF Agenda
<1> QED BY <1>1, <1>2, <1>3 DEF SchemaInv, SuccessInv, RefusalInv

LEMMA SchemaSteps == ASSUME SchemaInv, [Next]_vars PROVE SchemaInv'
<1>1. CASE Patch BY <1>1, PatchKeeps
<1>2. CASE Create BY <1>2, CreateKeeps
<1>3. CASE Alter BY <1>3, AlterKeeps
<1>4. CASE Fail BY <1>4, FailKeeps
<1>5. CASE Return BY <1>5, ReturnKeeps
<1>6. CASE Crash BY <1>6, CrashKeeps
<1>7. CASE UNCHANGED vars
  <2>1. TypeOK' BY <1>7 DEF SchemaInv, TypeOK, vars
  <2>2. Agenda' BY <1>7 DEF SchemaInv, Agenda, Apt, Fits, vars
  <2>3. /\ Due1' <=> Due1
        /\ Stage1' <=> Stage1
        /\ OnTarget' <=> OnTarget
        /\ Stray' <=> Stray
        /\ DuePrimary' <=> DuePrimary
        /\ DueUnique' <=> DueUnique
        /\ StagePrimary' <=> StagePrimary
        /\ StageUnique' <=> StageUnique
    BY <1>7 DEF vars, Due1, Due, Stage1, InPlace, None, OnTarget, Stray, Stays, Unwanted, DuePrimary, DueUnique,
                StagePrimary, Held, StageUnique
  <2>6. /\ Due3' <=> Due3
        /\ Countless' <=> Countless
        /\ Uncounted' <=> Uncounted
        /\ Keyed' <=> Keyed
        /\ Blocked' <=> Blocked
        /\ PrimaryHeld' <=> PrimaryHeld
        /\ Plain' <=> Plain
        /\ (Matches \/ LeftAlone)' <=> (Matches \/ LeftAlone)
    BY <1>7 DEF vars, Due3, Due, None, Countless, Uncounted, Keyed, Blocked, PrimaryHeld, Plain, WidePrimary,
                Counting, Barred, Matches, LeftAlone, OtherColumns, Covered, Own
  <2>4. SuccessInv' BY <1>7, <2>3, <2>6 DEF SchemaInv, SuccessInv, vars
  <2>5. RefusalInv' BY <1>7, <2>3, <2>6 DEF SchemaInv, RefusalInv, vars
  <2> QED BY <2>1, <2>2, <2>4, <2>5 DEF SchemaInv
<1> QED BY <1>1, <1>2, <1>3, <1>4, <1>5, <1>6, <1>7 DEF Next

(* Every state satisfies the invariant.                                    *)
THEOREM SchemaHolds == Spec => []SchemaInv
<1>1. Init => SchemaInv BY SchemaStarts
<1>2. SchemaInv /\ [Next]_vars => SchemaInv' BY SchemaSteps
<1> QED BY <1>1, <1>2, PTL DEF Spec

(* What DBPatcher::patch() returns is what became of the table, for any    *)
(* tables with plain keys of one column, whatever their keys are called    *)
(* and whatever fails: three successes in a row settle it or leave a key   *)
(* that goes by another name, it fails for a reason only, two of which are *)
(* names, and a success means that the columns are right.                  *)
THEOREM SchemaOutcome == Spec => []OutcomeIsTrue
<1>1. ASSUME SchemaInv PROVE OutcomeIsTrue
  <2>0. Stray => Misnamed BY DEF Stray, Misnamed
  <2>1. Settles BY <1>1, <2>0 DEF SchemaInv, SuccessInv, Settles, Enough
  <2>2. Refuses
    <3>1. SUFFICES ASSUME ~running, clean = 3, ~status
                   PROVE  WidePrimary \/ Counting \/ PrimaryHeld \/ Misnamed \/ NameTaken
      BY DEF Refuses, Enough
    <3>2. Barred => NameTaken BY DEF Barred, NameTaken
    <3>3. Blocked => NameTaken BY DEF Blocked, NameTaken, NoTable
    <3>4. Plain => PrimaryHeld \/ Stray \/ Blocked BY <1>1, <3>1 DEF SchemaInv, RefusalInv
    <3> QED BY <2>0, <3>2, <3>3, <3>4 DEF Plain
  <2>3. ReportedTrue
    <3>1. good > 0 => good # 0 BY <1>1 DEF SchemaInv, TypeOK
    <3> QED BY <1>1, <3>1 DEF SchemaInv, SuccessInv, ReportedTrue, Stage1, InPlace
  <2> QED BY <2>1, <2>2, <2>3 DEF OutcomeIsTrue
<1> QED BY <1>1, SchemaHolds, PTL

(* patch() finds nothing to do for a table that is as wanted.              *)
THEOREM SchemaStaysRight == Spec => StaysRight
<1>1. ASSUME SchemaInv, SchemaInv', [Next]_vars PROVE [~running /\ Matches => todo' = <<>>]_vars
  <2>1. SUFFICES ASSUME ~running, Matches, ~(UNCHANGED vars) PROVE todo' = <<>> OBVIOUS
  <2>2. todo = <<>> BY <1>1, <2>1 DEF SchemaInv, TypeOK
  <2>3. Patch BY <1>1, <2>1, <2>2 DEF Next, Create, Alter, Fail, Return, Crash
  <2>4. PICK names \in Orders : todo' = Modify(wanted, names) BY <2>1, <2>3 DEF Patch, Matches
  <2> QED BY <1>1, <2>4, NothingToDo, WantedRead DEF SchemaInv
<1> QED BY <1>1, SchemaHolds, PTL DEF Spec, StaysRight
=============================================================================
