---------------------------- MODULE OrderedForest ----------------------------
(***************************************************************************)
(* What the nested set stands for: trees whose nodes have ordered children.*)
(* Every operation is one step.  tree() lists the nodes top down, a node   *)
(* before its children and siblings in order; `before` is that order.      *)
(***************************************************************************)
EXTENDS Naturals

CONSTANT MaxId

VARIABLES nodes,   \* the ids in the forest
          before,  \* the pairs of nodes of which tree() lists the first before the second
          parent   \* the parent of every id, 0 for none

Ids == 1..MaxId

(* i and its descendants: a set that holds i and the children of its       *)
(* members, and no more than that.                                         *)
Family(i) ==
  CHOOSE S \in SUBSET nodes :
    \A j \in nodes : j \in S <=> j = i \/ parent[j] \in S

(* The order of the nodes of S.                                            *)
Among(S) == before \cap (S \X S)

(* What tree() lists after p and all its descendants.                      *)
Behind(p) == IF p = 0 THEN {} ELSE {j \in nodes \ Family(p) : <<p, j>> \in before}

(* The order in which the nodes of S have become the last below p, those   *)
(* of rest staying where they are.                                         *)
Under(p, rest, S) ==
  LET back == rest \cap Behind(p)
  IN Among(rest) \cup Among(S) \cup ((rest \ back) \X S) \cup (S \X back)

Init == nodes = {} /\ before = {} /\ parent = [i \in Ids |-> 0]

Insert(i, p) ==
  /\ i \notin nodes /\ p \in nodes \cup {0}
  /\ nodes' = nodes \cup {i}
  /\ before' = Under(p, nodes, {i})
  /\ parent' = [parent EXCEPT ![i] = p]

Drop(i) ==
  /\ nodes' = nodes \ Family(i)
  /\ before' = Among(nodes \ Family(i))
  /\ parent' = [j \in Ids |-> IF j \in Family(i) THEN 0 ELSE parent[j]]

Move(i, p) ==
  /\ p \in nodes \ Family(i)
  /\ UNCHANGED nodes
  /\ before' = Under(p, nodes \ Family(i), Family(i))
  /\ parent' = [parent EXCEPT ![i] = p]

Next ==
  \/ \E i \in Ids, p \in 0..MaxId : Insert(i, p)
  \/ \E i \in nodes : Drop(i) \/ \E p \in nodes : Move(i, p)

Spec == Init /\ [][Next]_<<nodes, before, parent>>
=============================================================================
