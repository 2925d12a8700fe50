-------------------------- MODULE NestedSetRefines ---------------------------
(***************************************************************************)
(* NestedSet implements OrderedForest: seen only when no operation has     *)
(* begun to change rows, the table changes by one operation on the forest  *)
(* at a time.                                                              *)
(***************************************************************************)
EXTENDS NestedSet

Kept == {i \in Ids : settled[i] # NoRow}
KeptOrder == {e \in Kept \X Kept : settled[e[1]].left < settled[e[2]].left}
KeptParents == [i \in Ids |-> IF i \in Kept THEN settled[i].parent ELSE 0]

Forest == INSTANCE OrderedForest
            WITH nodes <- Kept, before <- KeptOrder, parent <- KeptParents

(* Each operation has its one effect on the forest, or none when it was    *)
(* cut short before its rows changed: insert() and move() make their node  *)
(* the last child of the new parent and keep every other order, remove()   *)
(* takes out exactly the node and its descendants.                         *)
RefinesOrderedForest == Forest!Spec
=============================================================================
