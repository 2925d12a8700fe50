--------------------------- MODULE ObjectMapping ---------------------------
(***************************************************************************)
(* Objects that are rows of a table (sql/sqlizable.cpp).  Every worker has *)
(* an object of one class; each method is one SQL statement, and between   *)
(* two of them other workers make theirs.  An object remembers its row by  *)
(* the value of its property `id`, an auto_increment key, and by nothing   *)
(* else.                                                                   *)
(*                                                                         *)
(* A statement that fails changes neither the table nor the object, which  *)
(* is what it means here that no action is enabled for it.  MySQL is       *)
(* modelled as far as the statements need it.                              *)
(***************************************************************************)
EXTENDS Naturals, Sequences, FiniteSetsExt

CONSTANTS
  Holders,      \* workers, each with an object
  Fields,       \* the properties that are columns, besides id
  Uniques,      \* those with a unique key
  Values,       \* what each of them may hold
  MaxId,        \* bound: keys
  MaxBirths,    \* bound: times a key is inserted
  Joins,        \* columns that join_query adds, as sequences of names
  IdLast,       \* id is the last property that is declared
  Resettable,   \* properties with a RESET function
  Default,      \* what that sets a field to
  NoRow

Ids   == 1..MaxId
Props == Fields \cup {"id"}
Row   == {val \in [Fields -> UNION {Values[f] : f \in Fields}] :
            \A f \in Fields : val[f] \in Values[f]}

ASSUME MappingAssumption ==
  /\ MaxId \in Nat /\ MaxBirths \in Nat /\ IdLast \in BOOLEAN
  /\ Uniques \subseteq Fields /\ "id" \notin Fields
  /\ Resettable \subseteq Props /\ \A f \in Fields : Default \in Values[f]
  /\ NoRow \notin Row

VARIABLES
  rows,     \* the table
  next,     \* its auto_increment counter
  object,   \* the object of each worker
  birth,    \* history: how often a key has been inserted
  known,    \* history: the key and birth of the row an object was last equal to
  kept,     \* history: keys inserted with a value of the program's own
  mixed     \* history: objects read without the key, or with other columns of their names

mapping == <<rows, next, object, birth, known, kept, mixed>>
history == <<birth, known, kept, mixed>>

-----------------------------------------------------------------------------
Present == {i \in Ids : rows[i] # NoRow}
Column(i, p) == IF p = "id" THEN i ELSE rows[i][p]
Value(o, p) == IF p = "id" THEN o.id ELSE o.val[p]

(* The rows of WHERE p = ?.                                                *)
Where(o, p) == {i \in Present : Column(i, p) = Value(o, p)}

NoDuplicates(table) ==
  \A i, j \in Ids : i # j /\ table[i] # NoRow /\ table[j] # NoRow =>
    \A u \in Uniques : table[i][u] # table[j][u]

MappingInit ==
  /\ rows = [i \in Ids |-> NoRow] /\ next = 1
  /\ object \in [Holders -> [id : {0}, val : {[f \in Fields |-> Default]}]]
  /\ birth = [i \in Ids |-> 0] /\ known = [w \in Holders |-> <<0, 0>>]
  /\ kept = {} /\ mixed = [w \in Holders |-> FALSE]

(* The program sets a property.                                            *)
SetProperty(w, f, v) ==
  /\ object[w].val[f] # v
  /\ object' = [object EXCEPT ![w].val[f] = v]
  /\ UNCHANGED <<rows, next, history>>

-----------------------------------------------------------------------------
(* insertSQL() names the key when it is told to and there is one.  Mutant: *)
(* whenever there is one.                                                  *)
WithIdAlways(o, keep) == o.id > 0
WithId(o, keep) == keep /\ o.id > 0

(* Rows with the same key, or the same value in a unique column.           *)
Hits(o, keep) ==
  {i \in Present : (WithId(o, keep) /\ i = o.id) \/ \E u \in Uniques : rows[i][u] = o.val[u]}

(* The ON DUPLICATE clause ends in a comma if the key is left out as the   *)
(* last one.                                                               *)
WellFormed(o, update, keep) == ~(IdLast /\ update /\ WithId(o, keep))

(* The property id becomes lastInsertId().                                 *)
Name(w, i) == object' = [object EXCEPT ![w].id = i]

Knows(w, i) ==
  /\ known' = [known EXCEPT ![w] = <<i, birth'[i]>>]
  /\ mixed' = [mixed EXCEPT ![w] = FALSE]

InsertNew(w, keep) ==
  LET o == object[w]
      i == IF WithId(o, keep) THEN o.id ELSE next
  IN /\ \E update \in BOOLEAN : WellFormed(o, update, keep)
     /\ Hits(o, keep) = {}
     /\ i \in Ids /\ birth[i] < MaxBirths
     /\ rows' = [rows EXCEPT ![i] = o.val]
     /\ next' = Max({next, i + 1})
     /\ Name(w, i)
     /\ birth' = [birth EXCEPT ![i] = @ + 1]
     /\ kept' = IF keep /\ o.id > 0 THEN kept \cup {i} ELSE kept
     /\ Knows(w, i)

(* ON DUPLICATE KEY UPDATE: the primary key is looked at first.            *)
InsertDuplicate(w, keep) ==
  LET o == object[w]
  IN /\ WellFormed(o, TRUE, keep)
     /\ \E i \in Hits(o, keep) :
          /\ WithId(o, keep) /\ o.id \in Present => i = o.id
          /\ rows' = [rows EXCEPT ![i] = o.val] /\ NoDuplicates(rows')
          /\ Name(w, i)
          /\ UNCHANGED <<next, birth, kept>>
          /\ Knows(w, i)

-----------------------------------------------------------------------------
(* syncSQL(): the first of the rows that match, whichever was asked for.   *)
(* syncRecord() goes through the columns up to one named splitter; of two  *)
(* with the same name the later one counts.  The columns of the table come *)
(* first, all or those that select_query names, and then those of the      *)
(* join, with any values.  Properties without a column stay as they are.   *)
UpTo(join) ==
  {n \in 1..Len(join) : \A m \in 1..n : join[m] # "splitter"}
Overwritten(join) == {join[n] : n \in UpTo(join)} \cap Props

SyncSQL(w, select, join) ==
  \E i \in Present :
  \E j \in IF "id" \in Overwritten(join) THEN Ids
           ELSE IF "id" \in select THEN {i} ELSE {object[w].id},
     other \in IF Overwritten(join) \cap Fields = {} THEN {rows[i]} ELSE Row :
    /\ object' = [object EXCEPT ![w] =
         [id  |-> j,
          val |-> [f \in Fields |-> IF f \in Overwritten(join) THEN other[f]
                                    ELSE IF f \in select THEN rows[i][f] ELSE @.val[f]]]]
    /\ known' = [known EXCEPT ![w] = <<i, birth[i]>>]
    /\ mixed' = [mixed EXCEPT ![w] = Overwritten(join) # {} \/ "id" \notin select]
    /\ UNCHANGED <<rows, next, birth, kept>>

(* updateSQL(): set all fields but those ignored, in every row that        *)
(* matches; refused if two rows would have the same unique value.  With    *)
(* all of them ignored the statement loses its WHERE and sets the basis in *)
(* all rows, which is left out here.                                       *)
UpdateSQL(w, p, ignore) ==
  LET o == object[w]
      hit == Where(o, p)
  IN /\ Fields \ ignore # {}
     /\ rows' = [i \in Ids |-> IF i \in hit
                               THEN [f \in Fields |-> IF f \in ignore THEN rows[i][f] ELSE o.val[f]]
                               ELSE rows[i]]
     /\ NoDuplicates(rows')
     /\ UNCHANGED <<next, object, history>>

(* removeSQL(): delete every row that matches and reset what can be.       *)
RemoveSQL(w, p) ==
  /\ rows' = [i \in Ids |-> IF i \in Where(object[w], p) THEN NoRow ELSE rows[i]]
  /\ object' = [object EXCEPT ![w] =
       [id  |-> IF "id" \in Resettable THEN 0 ELSE @.id,
        val |-> [f \in Fields |-> IF f \in Resettable THEN Default ELSE @.val[f]]]]
  /\ UNCHANGED <<next, history>>

MappingNext ==
  \E w \in Holders :
    \/ \E f \in Fields : \E v \in Values[f] : SetProperty(w, f, v)
    \/ \E keep \in BOOLEAN : InsertNew(w, keep)
    \/ \E keep \in BOOLEAN : InsertDuplicate(w, keep)
    \/ \E select \in SUBSET Props, join \in Joins : SyncSQL(w, select, join)
    \/ \E p \in Props, ignore \in SUBSET Fields : UpdateSQL(w, p, ignore)
    \/ \E p \in Props : RemoveSQL(w, p)

MappingSpec == MappingInit /\ [][MappingNext]_mapping

-----------------------------------------------------------------------------
(* The key of an object names the row it was inserted as or read from, or  *)
(* a row that is gone, never another one: whatever is done by that key is  *)
(* done to the right row, although others insert, replace and remove in    *)
(* the meantime and insertSQL() may change a row instead of adding one.    *)
(* Three ways of use are excepted: rows inserted with keys of the          *)
(* program's choice (not_ignore_id), objects read from joins whose columns *)
(* have names of theirs, and objects read without the key (select_query).  *)
KeyNamesOwnRow ==
  \A w \in Holders :
    LET i == object[w].id
    IN i \in Present /\ i \notin kept /\ ~mixed[w] => <<i, birth[i]>> = known[w]
=============================================================================
