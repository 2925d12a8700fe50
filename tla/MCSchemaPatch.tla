---------------------------- MODULE MCSchemaPatch ----------------------------
(* Instances of SchemaPatch: two columns, and names that keys share with   *)
(* columns and with each other.                                            *)
EXTENDS SchemaPatch

CONSTANTS a, b, u

(* a may count, and either may be in keys of all kinds.  Plain keys have   *)
(* the name of their column, of the other one, of a unique key or one that *)
(* is made up.                                                             *)
MCColumns == {a, b}
MCUniqueKeys == {u, b}
TypesOfA == [{a} -> Types]
TypesOfB == [{b} -> Types \ {"auto"}]
TypeMaps == TypesOfA \cup TypesOfB \cup {f @@ g : f \in TypesOfA, g \in TypesOfB}
UniqueMaps == {<<>>} \cup UNION {[{k} -> {<<a>>, <<b>>, <<a, b>>}] : k \in MCUniqueKeys}
PlainKeys == {PlainKey(n, b) : n \in {a, b, u, MadeUp}} \cup {PlainKey(b, a)}

PlainKeySets == {{}, {PlainKey(a, b), PlainKey(b, a)}} \cup {{k} : k \in PlainKeys}

MCTables ==
  {t \in [type : TypeMaps, pk : SUBSET {a, b}, keys : PlainKeySets, uniq : UniqueMaps] :
     /\ t.pk \cup KeyedColumns(t) \subseteq ColumnsOf(t)
     /\ UNION {ToSet(t.uniq[k]) : k \in DOMAIN t.uniq} \subseteq ColumnsOf(t)
     /\ NamesApart(t) /\ Pinned(t) = t /\ Legal(t)}
=============================================================================
