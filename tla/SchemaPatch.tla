----------------------------- MODULE SchemaPatch -----------------------------
(***************************************************************************)
(* DBPatcher (sql/dbpatcher.cpp): bring a table of the database to the     *)
(* structure that was dumped from another database.  patch() reads what is *)
(* there, compares, and issues one ALTER TABLE after another; none of them *)
(* is undone when a later one fails, and all that a caller can do then is  *)
(* to run patch() again.                                                   *)
(*                                                                         *)
(* One table is followed: tables do not influence each other.  A column    *)
(* type stands for type, nullability, default and extra together.  Keys,   *)
(* plain and unique ones, are known by name: the catalog tells the name of *)
(* a unique key only, and the patcher takes it that a plain key has the    *)
(* name of its column, which it need not have.                             *)
(***************************************************************************)
EXTENDS Naturals, Sequences, FiniteSets, SequencesExt

CONSTANTS
  Columns,      \* column names
  UniqueKeys,   \* names of unique keys; a column may have such a name
  MadeUp,       \* every name of a key that neither a column nor a unique key has
  Tables,       \* the tables there may be, in either database
  MaxFailures   \* bound: statements that fail by chance, and crashes

(* "null" and "notnull" columns, "auto" for a not null one with            *)
(* auto_increment.                                                         *)
Types == {"null", "notnull", "auto"}

(* Bound: runs that are counted.                                           *)
Enough == 3

VARIABLES
  table,      \* the table in the database
  wanted,     \* m_database: what was read from the other database
  todo,       \* the statements patch() still has to issue
  running,    \* patch() is running
  status,     \* what it will return, or has returned
  clean,      \* history: runs begun since the last failure by chance, up to Enough
  good,       \* history: runs in a row that returned true, up to Enough
  failures    \* failures by chance so far (bound)

vars == <<table, wanted, todo, running, status, clean, good, failures>>

-----------------------------------------------------------------------------
(* MySQL.  A table has typed columns, a primary key, plain keys, each of   *)
(* one column, and unique keys.  None is without columns: that stands for a*)
(* table that does not exist.                                              *)
NoTable == [type |-> <<>>, pk |-> {}, keys |-> {}, uniq |-> <<>>]

KeyNames == Columns \cup UniqueKeys \cup {MadeUp}
PlainKey(n, f) == [name |-> n, column |-> f]

ColumnsOf(t) == DOMAIN t.type
NotNull(t, f) == t.type[f] # "null"
KeyedColumns(t) == {k.column : k \in t.keys}
Taken(t) == {k.name : k \in t.keys} \cup DOMAIN t.uniq

(* No two keys have the same name (MadeUp stands for many).                *)
NamesApart(t) ==
  \A k \in t.keys :
    /\ k.name \notin DOMAIN t.uniq
    /\ k.name # MadeUp => \A l \in t.keys : l.name = k.name => l = k

(* ADD KEY(`f`): the key is called f, or what MySQL makes of f if there is *)
(* such a key: f_2, f_3, which may be the name of a column too.            *)
NewNames(t, f) == IF f \notin Taken(t) THEN {f} ELSE KeyNames \ (Taken(t) \ {MadeUp})

(* COLUMN_KEY.  Where there is no primary key, a unique key of not null    *)
(* columns passes for it; ahead of others are the keys that a column leads.*)
Promoted(t) ==
  LET able == {u \in DOMAIN t.uniq : \A f \in ToSet(t.uniq[u]) : NotNull(t, f)}
  IN IF t.pk # {} \/ able = {} THEN {} ELSE ToSet(t.uniq[CHOOSE u \in able : TRUE])

ColumnKey(t, f) ==
  LET led == {t.uniq[u] : u \in {v \in DOMAIN t.uniq : Head(t.uniq[v]) = f}}
  IN IF f \in t.pk \cup Promoted(t) THEN "PRI"
     ELSE IF <<f>> \in led THEN "UNI"
     ELSE IF f \in KeyedColumns(t) \/ led # {} THEN "MUL" ELSE ""

(* An auto_increment column is the only one and leads some key.            *)
Legal(t) ==
  \A f \in ColumnsOf(t) : t.type[f] = "auto" =>
    /\ f \in t.pk \cup KeyedColumns(t) \/ \E u \in DOMAIN t.uniq : Head(t.uniq[u]) = f
    /\ \A g \in ColumnsOf(t) : t.type[g] = "auto" => g = f

(* Columns of a primary key are not null.                                  *)
Pinned(t) ==
  [t EXCEPT !.type = [f \in DOMAIN t.type |->
     IF f \in t.pk /\ t.type[f] = "null" THEN "notnull" ELSE t.type[f]]]

(* What a table can be: it has columns, and its keys are of them.          *)
Shaped(t) ==
  \E C \in SUBSET Columns, K \in SUBSET UniqueKeys :
    /\ C # {}
    /\ t \in [type : [C -> Types], pk : SUBSET C,
              keys : SUBSET [name : KeyNames, column : C],
              uniq : [K -> Seq(C) \ {<<>>}]]

Sound(t) == Shaped(t) /\ NamesApart(t) /\ Pinned(t) = t /\ Legal(t)

ASSUME SchemaAssumption ==
  /\ IsFiniteSet(Columns) /\ IsFiniteSet(UniqueKeys)
  /\ MadeUp \notin Columns \cup UniqueKeys
  /\ \A t \in Tables : Sound(t)
  /\ MaxFailures \in Nat

(* A dropped column leaves all its keys.                                   *)
Without(key, f) ==
  FlattenSeq([i \in DOMAIN key |-> IF key[i] = f THEN <<>> ELSE <<key[i]>>])

DropColumn(t, f) ==
  LET rest == [u \in DOMAIN t.uniq |-> Without(t.uniq[u], f)]
  IN [type |-> [g \in ColumnsOf(t) \ {f} |-> t.type[g]],
      pk   |-> t.pk \ {f},
      keys |-> {k \in t.keys : k.column # f},
      uniq |-> [u \in {v \in DOMAIN rest : rest[v] # <<>>} |-> rest[u]]]

(* DROP KEY `n`: the key of that name goes, whatever key it is.            *)
DropKey(t, n) ==
  [t EXCEPT !.keys = {k \in @ : k.name # n},
            !.uniq = [u \in DOMAIN @ \ {n} |-> @[u]]]

Put(f, k, x) == [i \in DOMAIN f \cup {k} |-> IF i = k THEN x ELSE f[i]]

(* What statement s makes of t (a new plain key gets the name n), and      *)
(* whether MySQL refuses it at once.                                       *)
Altered(t, s, n) ==
  CASE s.op = "add"         -> [t EXCEPT !.type = Put(t.type, s.name, wanted.type[s.name])]
    [] s.op = "drop"        -> DropColumn(t, s.name)
    [] s.op = "modify"      -> Pinned([t EXCEPT !.type[s.name] = wanted.type[s.name]])
    [] s.op = "dropPrimary" -> [t EXCEPT !.pk = {}]
    [] s.op = "addPrimary"  -> Pinned([t EXCEPT !.pk = {s.name}])
    [] s.op = "addKey"      -> [t EXCEPT !.keys = @ \cup {PlainKey(n, s.name)}]
    [] s.op = "addUnique"   -> [t EXCEPT !.uniq = Put(t.uniq, s.name, wanted.uniq[s.name])]
    [] s.op \in {"dropKey", "dropUnique"} -> DropKey(t, s.name)

Refused(t, s) ==
  \/ s.op = "drop" /\ ColumnsOf(t) = {s.name}
  \/ s.op = "dropPrimary" /\ t.pk = {}
  \/ s.op = "addPrimary" /\ t.pk # {}
  \/ s.op = "addUnique" /\ s.name \in Taken(t)
  \/ s.op = "addUnique" /\ ~(ToSet(wanted.uniq[s.name]) \subseteq ColumnsOf(t))
  \/ s.op \in {"dropKey", "dropUnique"} /\ s.name \notin Taken(t)

-----------------------------------------------------------------------------
(* columnListDB(): what the catalog tells of a table.                      *)
Read(t) == [type |-> t.type, key |-> [f \in ColumnsOf(t) |-> ColumnKey(t, f)], uniq |-> t.uniq]

UniColumns(s) == UNION {ToSet(s.uniq[u]) : u \in DOMAIN s.uniq}

(* Table::create(): one statement, with a PRIMARY KEY clause for every     *)
(* column that is part of it, and the plain keys before the unique ones.   *)
Created ==
  Pinned([type |-> wanted.type,
          pk   |-> {f \in DOMAIN wanted.key : wanted.key[f] = "PRI"},
          keys |-> {PlainKey(f, f) : f \in {g \in DOMAIN wanted.key : wanted.key[g] = "MUL"}},
          uniq |-> wanted.uniq])

CreateRefused == Cardinality(Created.pk) > 1 \/ ~NamesApart(Created) \/ ~Legal(Created)

If(cond, op, name) == IF cond THEN <<[op |-> op, name |-> name]>> ELSE <<>>
Each(names, Statements(_)) == FlattenSeq([i \in DOMAIN names |-> Statements(names[i])])

(* Table::modify() for a column on both sides: its type, then its key.     *)
\* Mutant: a key is dropped only when another one takes its place.
DropsKeyNew(old, f) == old.key[f] # "" /\ wanted.key[f] # "" /\ f \notin UniColumns(old)
DropsKey(old, f) == old.key[f] # "" /\ f \notin UniColumns(old)
AddsKey(f) == wanted.key[f] = "PRI" \/ (wanted.key[f] = "MUL" /\ f \notin UniColumns(wanted))

\* Mutant: a key is created without asking whether it is there.
ModifyColumnAgain(old, f) ==
  If(wanted.type[f] # old.type[f], "modify", f)
    \o If(wanted.key[f] = "PRI", "addPrimary", f)
ModifyColumn(old, f) ==
  LET changed == wanted.key[f] # old.key[f]
      drop == IF old.key[f] = "PRI" THEN "dropPrimary" ELSE "dropKey"
      add  == IF wanted.key[f] = "PRI" THEN "addPrimary" ELSE "addKey"
  IN If(wanted.type[f] # old.type[f], "modify", f)
       \o If(changed /\ DropsKey(old, f), drop, f)
       \o If(changed /\ AddsKey(f), add, f)

(* The unique keys to create.                                              *)
NewUnique(old) == DOMAIN wanted.uniq \ DOMAIN old.uniq

(* Table::modify(): the statements for the structure read as old, with the *)
(* elements of its sets visited in the order of names.                     *)
Modify(old, names) ==
  LET new(f)    == f \in DOMAIN wanted.type \ DOMAIN old.type
      gone(f)   == f \in DOMAIN old.type \ DOMAIN wanted.type
      common(f) == f \in DOMAIN old.type \cap DOMAIN wanted.type
      add(f)    == If(new(f), "add", f)
      drop(f)   == If(gone(f), "drop", f)
      both(f)   == IF common(f) THEN ModifyColumn(old, f) ELSE <<>>
      addU(u)   == If(u \in NewUnique(old), "addUnique", u)
      dropU(u)  == If(u \in DOMAIN old.uniq \ DOMAIN wanted.uniq, "dropUnique", u)
  IN Each(names, add) \o Each(names, drop) \o Each(names, both)
       \o Each(names, addU) \o Each(names, dropU)

-----------------------------------------------------------------------------
Init ==
  /\ table \in Tables \cup {NoTable}
  /\ \E t \in Tables : wanted = Read(t)
  /\ todo = <<>> /\ running = FALSE
  /\ status = TRUE
  /\ clean = 0 /\ good = 0 /\ failures = 0

Orders ==
  LET Names == Columns \cup UniqueKeys
  IN {s \in [1..Cardinality(Names) -> Names] : IsInjective(s) /\ ToSet(s) = Names}

(* patch() reads the database and compares.                                *)
Patch ==
  /\ ~running /\ running' = TRUE
  /\ status' = TRUE
  /\ clean' = IF clean < Enough THEN clean + 1 ELSE clean
  /\ \E names \in Orders :
       todo' = IF table = NoTable THEN <<[op |-> "create"]>>
               ELSE Modify(Read(table), names)
  /\ UNCHANGED <<table, wanted, good, failures>>

Create ==
  /\ todo # <<>> /\ Head(todo).op = "create"
  /\ todo' = Tail(todo)
  /\ IF CreateRefused THEN status' = FALSE /\ UNCHANGED table
     ELSE table' = Created /\ UNCHANGED status
  /\ UNCHANGED <<wanted, running, clean, good, failures>>

(* One ALTER TABLE; the result is remembered.                              *)
Alter ==
  /\ todo # <<>> /\ Head(todo).op # "create"
  /\ todo' = Tail(todo)
  /\ LET s == Head(todo)
     IN \E n \in IF s.op = "addKey" THEN NewNames(table, s.name) ELSE {MadeUp} :
          IF Refused(table, s) \/ ~Legal(Altered(table, s, n))
          THEN status' = FALSE /\ UNCHANGED table
          ELSE table' = Altered(table, s, n) /\ UNCHANGED status
  /\ UNCHANGED <<wanted, running, clean, good, failures>>

(* A statement fails for a reason outside of the structure: data that      *)
(* violate the new key, a lost connection.                                 *)
Fail ==
  /\ todo # <<>> /\ todo' = Tail(todo)
  /\ failures < MaxFailures /\ failures' = failures + 1
  /\ status' = FALSE /\ clean' = 0
  /\ UNCHANGED <<table, wanted, running, good>>

(* patch() ends.                                                           *)
Return ==
  /\ running /\ todo = <<>>
  /\ running' = FALSE
  /\ good' = IF ~status THEN 0 ELSE IF good < Enough THEN good + 1 ELSE good
  /\ UNCHANGED <<table, wanted, todo, status, clean, failures>>

(* The process dies in the middle.                                         *)
Crash ==
  /\ running /\ running' = FALSE /\ todo' = <<>>
  /\ failures < MaxFailures /\ failures' = failures + 1
  /\ status' = FALSE /\ clean' = 0 /\ good' = 0
  /\ UNCHANGED <<table, wanted>>

Next == Patch \/ Create \/ Alter \/ Fail \/ Return \/ Crash

Spec == Init /\ [][Next]_vars

-----------------------------------------------------------------------------
Matches == table # NoTable /\ Read(table) = wanted

(* What the patcher leaves alone: a unique key under its old name, and the *)
(* own key of a column that is in a unique key on either side.             *)
OtherColumns ==
  \E k \in DOMAIN table.uniq \cap DOMAIN wanted.uniq : table.uniq[k] # wanted.uniq[k]
Covered ==
  \E f \in ColumnsOf(table) \cap DOMAIN wanted.key :
    /\ f \in UniColumns(table) \cup UniColumns(wanted)
    /\ ColumnKey(table, f) # wanted.key[f]
LeftAlone == table # NoTable /\ (OtherColumns \/ Covered)

(* What MySQL may never accept from it: several PRIMARY KEY clauses, an    *)
(* auto_increment column that comes before its key, and a second primary   *)
(* key next to one that is left alone.                                     *)
WidePrimary == Cardinality({f \in DOMAIN wanted.key : wanted.key[f] = "PRI"}) > 1
Counting == \E f \in DOMAIN wanted.type : wanted.type[f] = "auto"
PrimaryHeld ==
  table # NoTable /\ \E f \in table.pk : f \in UniColumns(table) /\ wanted.key[f] # "PRI"

(* And what comes of names: a plain key that should go and is not called   *)
(* after its column is not found, or another key is taken for it; and no   *)
(* unique key can be made where a plain one has its name.                  *)
Unwanted(f) == f \in DOMAIN wanted.key /\ wanted.key[f] # "MUL"
Misnamed == \E k \in table.keys : Unwanted(k.column) /\ k.name # k.column
NameTaken ==
  \E n \in DOMAIN wanted.uniq :
    IF table = NoTable THEN n \in DOMAIN wanted.key /\ wanted.key[n] = "MUL"
    ELSE \E k \in table.keys : k.name = n

TypeOK ==
  /\ table = NoTable \/ Sound(table)
  /\ \E t \in Tables : wanted = Read(t)
  /\ todo # <<>> => running
  /\ running \in BOOLEAN /\ status \in BOOLEAN
  /\ clean \in 0..Enough /\ good \in 0..Enough /\ failures \in 0..MaxFailures

(* After patch() has returned true three times in a row, a table is where  *)
(* it should be, or what is left alone differs, or a key that should go is *)
(* there under another name, whatever failed or crashed before.  One       *)
(* success is not enough: a new column gets its key in the next run, a     *)
(* column can become null only after its primary key has gone, and that    *)
(* goes only after the unique key on its column.                           *)
Settles == ~running /\ good = Enough => Matches \/ LeftAlone \/ Misnamed

(* After two runs without a failure by chance, patch() fails only for the  *)
(* reasons listed above.                                                   *)
Refuses ==
  ~running /\ clean = Enough /\ ~status =>
    WidePrimary \/ Counting \/ PrimaryHeld \/ Misnamed \/ NameTaken

(* When patch() returns true, every wanted column is there, no other one   *)
(* is, and no unique key is left that should have gone, even if earlier    *)
(* runs stopped half way.  (A unique key may be missing: dropping its last *)
(* column takes it along after it was found to be there.)                  *)
ReportedTrue ==
  ~running /\ good > 0 =>
    /\ table # NoTable
    /\ ColumnsOf(table) = DOMAIN wanted.type
    /\ DOMAIN table.uniq \subseteq DOMAIN wanted.uniq

(* What patch() returns is what became of the table: it settles where it   *)
(* should, refuses for a reason only, and a success is one.                *)
OutcomeIsTrue == Settles /\ Refuses /\ ReportedTrue

(* A table that has the wanted structure is not touched again.             *)
StaysRight == [][~running /\ Matches => todo' = <<>>]_vars
=============================================================================
