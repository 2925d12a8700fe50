------------------------------ MODULE NestedSet ------------------------------
(***************************************************************************)
(* The nested set of sql/nestedset.cpp: a tree in a table, each row with   *)
(* the interval leftkey..rightkey that encloses those of its descendants.  *)
(*                                                                         *)
(* insert(), remove() and move() are sequences of SQL statements without a *)
(* transaction.  Each statement is a step here: it is atomic for the       *)
(* database, but anything may come between two of them, a statement of     *)
(* another client, an error or the end of the process.                     *)
(*                                                                         *)
(* The rows are those of one tree: m_where_coincidence is the same for all *)
(* operations.  A tree that was spoiled (see below) is not followed on.    *)
(***************************************************************************)
EXTENDS Integers, FiniteSets, FiniteSetsExt

CONSTANTS
  Clients,     \* threads that work on the tree
  MaxId,       \* bound: rows ever inserted
  NoRow,       \* no row with this id
  MaxFailures  \* bound: operations cut short and statements that fail

ASSUME TreeAssumption ==
  /\ MaxId \in Nat
  /\ MaxFailures \in Nat
  /\ NoRow \notin [left : Int, right : Int, parent : 0..MaxId]

Ids == 1..MaxId

VARIABLES
  table,     \* id -> row
  lastId,    \* AUTO_INCREMENT
  pc,        \* the next statement of each client
  job,       \* the arguments and the keys each client has read
  failures,  \* operations cut short so far
  spoiled,   \* history: the tree was left in pieces, or a client overtaken
  settled    \* history: the table when last no operation had begun to change it

vars == <<table, lastId, pc, job, failures, spoiled, settled>>

Row == [left : Int, right : Int, parent : 0..MaxId]
Job == [id : 0..MaxId, parent : 0..MaxId, left : Int, right : Int, parentRight : Int]

Updates == {"disableTree", "restrictLeft", "restrictRight", "addLeft", "addRight",
            "backNode", "updateID"}

TypeOK ==
  /\ table \in [Ids -> Row \cup {NoRow}]
  /\ settled \in [Ids -> Row \cup {NoRow}]
  /\ lastId \in 0..MaxId
  /\ pc \in [Clients -> Updates \cup {"idle", "makeRoom", "insertRow", "deleteTree",
                                      "closeGap", "findParent"}]
  /\ job \in [Clients -> Job]
  /\ failures \in Nat
  /\ spoiled \in BOOLEAN

NoJob == [id |-> 0, parent |-> 0, left |-> 0, right |-> 0, parentRight |-> 0]

Init ==
  /\ table = [i \in Ids |-> NoRow]
  /\ lastId = 0
  /\ pc = [c \in Clients |-> "idle"]
  /\ job = [c \in Clients |-> NoJob]
  /\ failures = 0
  /\ spoiled = FALSE
  /\ settled = table

Present == {i \in Ids : table[i] # NoRow}
Quiet == \A c \in Clients : pc[c] = "idle"

(* No operation is between two of its statements that change rows.         *)
Untouched ==
  \A c \in Clients : pc[c] \in {"idle", "makeRoom", "deleteTree", "findParent", "disableTree"}

-----------------------------------------------------------------------------
Goto(c, label) ==
  IF label = "idle"
  THEN pc' = [pc EXCEPT ![c] = label] /\ job' = [job EXCEPT ![c] = NoJob]
  ELSE pc' = [pc EXCEPT ![c] = label] /\ UNCHANGED job

Begin(c) == pc[c] = "idle" /\ ~spoiled

(* The SELECT an operation starts with: nothing but locals change.         *)
Read(c, label, j) ==
  /\ pc' = [pc EXCEPT ![c] = label]
  /\ job' = [job EXCEPT ![c] = j]
  /\ UNCHANGED <<table, lastId, failures, spoiled, settled>>

(* UPDATE table SET Set WHERE Where.                                       *)
Update(Where(_), Set(_)) ==
  table' = [i \in Ids |->
    IF i \in Present /\ Where(table[i]) THEN Set(table[i]) ELSE table[i]]

(* Statement `from` of client c has succeeded and `to` is next.            *)
Statement(c, from, to) ==
  /\ pc[c] = from
  /\ Goto(c, to)
  /\ spoiled' = (spoiled \/ \E d \in Clients \ {c} : pc[d] # "idle")
  /\ settled' = IF Untouched' /\ ~spoiled' THEN table' ELSE settled
  /\ UNCHANGED failures

-----------------------------------------------------------------------------
(* insert(id, values): the new row is the last child of id, or the last    *)
(* tree of the table when id is 0.                                         *)
InsertFind(c, p) ==
  /\ Begin(c) /\ lastId < MaxId
  /\ p \in Present \cup {0}
  /\ LET key == IF p # 0 THEN table[p].right
                ELSE IF Present = {} THEN 1
                ELSE Max({table[i].right : i \in Present}) + 1
     IN Read(c, "makeRoom", [NoJob EXCEPT !.parent = p, !.right = key])

(* Mutant: > for >=, the parent itself does not grow.                      *)
BehindKey(r, key) == r.right > key
FromKey(r, key) == r.right >= key

MakeRoom(c) ==
  /\ LET key == job[c].right
         Where(r) == FromKey(r, key)
         Set(r) == [r EXCEPT !.left = IF @ > key THEN @ + 2 ELSE @, !.right = @ + 2]
     IN Update(Where, Set)
  /\ Statement(c, "makeRoom", "insertRow")
  /\ UNCHANGED lastId

(* The UPDATE fails: its status is kept, and the INSERT is made all the    *)
(* same.                                                                   *)
MakeRoomFails(c) ==
  /\ pc[c] = "makeRoom"
  /\ failures < MaxFailures /\ failures' = failures + 1
  /\ spoiled' = TRUE
  /\ Goto(c, "insertRow")
  /\ UNCHANGED <<table, lastId, settled>>

NewRow(j) == [left |-> j.right, right |-> j.right + 1, parent |-> j.parent]

InsertRow(c) ==
  /\ lastId < MaxId /\ lastId' = lastId + 1
  /\ table' = [table EXCEPT ![lastId + 1] = NewRow(job[c])]
  /\ Statement(c, "insertRow", "idle")

(* Keys of the subtree read.                                               *)
Size(c) == job[c].right - job[c].left + 1

(* remove(id): the whole subtree goes, then the gap it leaves is closed.   *)
RemoveFind(c, i) ==
  /\ Begin(c)
  /\ i \in Present
  /\ Read(c, "deleteTree", [NoJob EXCEPT !.left = table[i].left, !.right = table[i].right])

DeleteTree(c) ==
  /\ table' = [i \in Ids |->
       IF i \in Present /\ table[i].left >= job[c].left /\ table[i].right <= job[c].right
       THEN NoRow ELSE table[i]]
  /\ Statement(c, "deleteTree", "closeGap")
  /\ UNCHANGED lastId

CloseGap(c) ==
  /\ LET size == Size(c)
         Where(r) == r.right > job[c].right
         Set(r) == [r EXCEPT !.left = IF @ > job[c].left THEN @ - size ELSE @, !.right = @ - size]
     IN Update(Where, Set)
  /\ Statement(c, "closeGap", "idle")
  /\ UNCHANGED lastId

-----------------------------------------------------------------------------
(* move(id, parent_id): negate the keys of the subtree, close its gap, make*)
(* room at the end of the new parent, and set the keys for the new place.  *)
MoveFind(c, i, p) ==
  /\ Begin(c)
  /\ i \in Present
  /\ Read(c, "findParent",
          [NoJob EXCEPT !.id = i, !.parent = p, !.left = table[i].left, !.right = table[i].right])

(* The second SELECT; without a row for the new parent move() gives up.    *)
ParentFind(c) ==
  /\ pc[c] = "findParent"
  /\ LET p == job[c].parent
     IN IF p \in Present
        THEN /\ pc' = [pc EXCEPT ![c] = "disableTree"]
             /\ job' = [job EXCEPT ![c].parentRight = table[p].right]
        ELSE Goto(c, "idle")
  /\ UNCHANGED <<table, lastId, failures, spoiled, settled>>

(* Where the new parent ends once the gap is closed, and the distance from *)
(* the old place of the subtree to the new one.  Mutant: the gap forgotten.*)
TargetUnshifted(c) == job[c].parentRight
Target(c) ==
  IF job[c].parentRight > job[c].right THEN job[c].parentRight - Size(c) ELSE job[c].parentRight
Shift(c) ==
  IF job[c].parentRight > job[c].right THEN job[c].parentRight - job[c].right - 1
  ELSE job[c].parentRight - job[c].right - 1 + Size(c)

(* Nothing in move() refuses a new parent inside the subtree it moves.     *)
Inside(c) == job[c].left <= job[c].parentRight /\ job[c].parentRight <= job[c].right

DisableTree(c) ==
  /\ LET Where(r) == r.left >= job[c].left /\ r.right <= job[c].right
         Set(r) == [r EXCEPT !.left = -@, !.right = -@]
     IN Update(Where, Set)
  /\ Statement(c, "disableTree", "restrictLeft")
  /\ UNCHANGED lastId

RestrictFullTree(c) ==
  /\ \/ /\ LET Where(r) == r.left > job[c].right
               Set(r) == [r EXCEPT !.left = @ - Size(c)]
           IN Update(Where, Set)
        /\ Statement(c, "restrictLeft", "restrictRight")
     \/ /\ LET Where(r) == r.right > job[c].right
               Set(r) == [r EXCEPT !.right = @ - Size(c)]
           IN Update(Where, Set)
        /\ Statement(c, "restrictRight", "addLeft")
  /\ UNCHANGED lastId

AddFullTree(c) ==
  /\ \/ /\ LET Where(r) == r.left >= Target(c)
               Set(r) == [r EXCEPT !.left = @ + Size(c)]
           IN Update(Where, Set)
        /\ Statement(c, "addLeft", "addRight")
     \/ /\ LET Where(r) == r.right >= Target(c)
               Set(r) == [r EXCEPT !.right = @ + Size(c)]
           IN Update(Where, Set)
        /\ Statement(c, "addRight", "backNode")
  /\ UNCHANGED lastId

BackNode(c) ==
  /\ LET Where(r) == r.left <= -job[c].left /\ r.right >= -job[c].right
         Set(r) == [r EXCEPT !.left = Shift(c) - @, !.right = Shift(c) - @]
     IN Update(Where, Set)
  /\ Statement(c, "backNode", "updateID")
  /\ UNCHANGED lastId

(* Mutant: the row keeps its parent.                                       *)
WithOldParent(r, p) == r
WithParent(r, p) == [r EXCEPT !.parent = p]

(* The last statement, which is where a subtree moved into itself shows.   *)
UpdateID(c) ==
  /\ table' = [i \in Ids |->
       IF i \in Present /\ i = job[c].id THEN WithParent(table[i], job[c].parent) ELSE table[i]]
  /\ pc[c] = "updateID"
  /\ Goto(c, "idle")
  /\ spoiled' = (spoiled \/ Inside(c) \/ \E d \in Clients \ {c} : pc[d] # "idle")
  /\ settled' = IF Untouched' /\ ~spoiled' THEN table' ELSE settled
  /\ UNCHANGED <<lastId, failures>>

-----------------------------------------------------------------------------
(* An operation goes no further: its next statement fails and it returns   *)
(* false (-1 for the INSERT), or its process dies.                         *)
CutShort(c) ==
  /\ pc[c] # "idle"
  /\ failures < MaxFailures /\ failures' = failures + 1
  /\ spoiled' = (spoiled \/ pc[c] \in Updates \ {"disableTree"})
  /\ Goto(c, "idle")
  /\ settled' = IF Untouched' /\ ~spoiled' THEN table ELSE settled
  /\ UNCHANGED <<table, lastId>>

Next ==
  \E c \in Clients :
    \/ \E p \in 0..MaxId : InsertFind(c, p)
    \/ MakeRoom(c) \/ MakeRoomFails(c) \/ InsertRow(c)
    \/ \E i \in Ids : RemoveFind(c, i)
    \/ DeleteTree(c) \/ CloseGap(c)
    \/ \E i \in Ids, p \in 0..MaxId : MoveFind(c, i, p)
    \/ ParentFind(c) \/ DisableTree(c) \/ RestrictFullTree(c) \/ AddFullTree(c)
    \/ BackNode(c) \/ UpdateID(c)
    \/ CutShort(c)

Spec == Init /\ [][Next]_vars

-----------------------------------------------------------------------------
(* The queries, one SELECT each once the keys of their node are known.     *)
Subtree(i) ==
  {j \in Present : table[j].left >= table[i].left /\ table[j].right <= table[i].right}
ParentTree(i) ==
  {j \in Present : table[j].left <= table[i].left /\ table[j].right >= table[i].right}
ContaisTree(i) ==
  {j \in Present : table[j].right > table[i].left /\ table[j].left < table[i].right}
Leefs == {i \in Present : table[i].right - table[i].left = 1}

Children(i) == {j \in Present : table[j].parent = i}
Settled == Quiet /\ ~spoiled

(* Between operations the intervals nest exactly as the parent column says:*)
(* a child lies strictly inside its parent, siblings are disjoint.  This   *)
(* survives an insert() or remove() cut short anywhere between two of its  *)
(* statements; only a move() cut short, a failed first UPDATE of insert(), *)
(* a move into the own subtree or an interleaved client can break it.      *)
NestingMatchesParents ==
  Settled =>
    /\ \A i \in Present :
         /\ table[i].left < table[i].right
         /\ table[i].parent # 0 =>
              /\ table[i].parent \in Present
              /\ table[table[i].parent].left < table[i].left
              /\ table[i].right < table[table[i].parent].right
    /\ \A i, j \in Present :
         i # j /\ table[i].parent = table[j].parent =>
           table[i].right < table[j].left \/ table[j].right < table[i].left

(* When no operation was cut short the keys in use are exactly 1..2n.      *)
KeysTight ==
  Settled /\ failures = 0 =>
    {table[i].left : i \in Present} \cup {table[i].right : i \in Present}
      = 1..(2 * Cardinality(Present))

(* The queries, which look at the keys only, give what the parent column   *)
(* says: subtree() the node and its descendants, contaisTree() these and   *)
(* its ancestors, leefs() only nodes without children, and all of them as  *)
(* long as no operation was cut short.                                     *)
QueriesAgree ==
  Settled =>
    /\ \A i, j \in Present :
         j \in Subtree(i) <=> j = i \/ table[j].parent \in Subtree(i)
    /\ \A i \in Present : ContaisTree(i) = Subtree(i) \cup ParentTree(i)
    /\ \A i \in Leefs : Children(i) = {}
    /\ failures = 0 => \A i \in Present : Children(i) = {} => i \in Leefs

(* Keys and parents describe one tree, whichever of them is asked.         *)
KeysMatchParents == NestingMatchesParents /\ QueriesAgree
=============================================================================
