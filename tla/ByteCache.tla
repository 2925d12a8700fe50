------------------------------ MODULE ByteCache ------------------------------
(***************************************************************************)
(* LRUCache<std::string, WebDataContainer> (lrucache.hpp) with the byte    *)
(* accounting ByteCache adds to it (bytecache.hpp), used by the worker     *)
(* threads of the web server.                                              *)
(*                                                                         *)
(* Every method locks _mutex for its whole body, but the loop that evicts  *)
(* entries is taken here one entry at a time: get() hands out a reference  *)
(* into a list node, the caller copies through it after the lock is gone,  *)
(* and so it can see every step of an eviction made by another thread.     *)
(***************************************************************************)
EXTENDS Naturals, FiniteSets, Sequences, SequencesExt

CONSTANTS
  Threads,    \* worker threads
  Keys,       \* cache keys (file path plus language postfix)
  Values,     \* WebDataContainer values
  ValSize,    \* WebDataContainer::size() of each value
  Nodes,      \* the list nodes the allocator may return
  NoNode,     \* _cache_items_map.end()
  NoThread,   \* nobody owns _mutex
  MaxItems,   \* _max_size of the LRUCache base; ByteCache passes 0, no limit
  InitBytes,  \* the size the constructor is given
  ByteLimits  \* the sizes setMaxSize() is called with

ASSUME CacheAssumption ==
  /\ ValSize \in [Values -> Nat]
  /\ Keys # {} /\ Values # {}
  /\ NoNode \notin Nodes
  /\ NoThread \notin Threads
  /\ MaxItems \in Nat
  /\ InitBytes \in Nat
  /\ ByteLimits \subseteq Nat

VARIABLES
  list,         \* _cache_items_list: nodes, most recently used first
  map,          \* _cache_items_map: key -> node
  heap,         \* what each node holds (freed nodes keep their last content)
  maxBytes,     \* maxBytes
  currentSize,  \* m_currentSize
  mutex,        \* the owner of _mutex between two steps
  ref,          \* the node whose value a thread still has to copy after get()
  dangling,     \* history: threads whose referenced node was freed
  touched       \* history: keys used by others since the thread's get()

vars == <<list, map, heap, maxBytes, currentSize, mutex, ref, dangling, touched>>

Entry == [key : Keys, val : Values]

TypeOK ==
  /\ list \in Seq(Nodes)
  /\ map \in [Keys -> Nodes \cup {NoNode}]
  /\ heap \in [Nodes -> Entry]
  /\ maxBytes \in Nat
  /\ currentSize \in Nat
  /\ mutex \in Threads \cup {NoThread}
  /\ ref \in [Threads -> Nodes \cup {NoNode}]
  /\ dangling \in SUBSET Threads
  /\ touched \in [Threads -> SUBSET Keys]

Cached == {k \in Keys : map[k] # NoNode}
SizeAt(n) == ValSize[heap[n].val]

(* The bytes stored for the cached keys of K, as pairs <<key, position>>:  *)
(* counting pairs sums the sizes of the values.                            *)
BytesOf(K) == UNION {{k} \X (1..SizeAt(map[k])) : k \in K \cap Cached}

Live == {list[i] : i \in 1..Len(list)}
IndexOf(n) == CHOOSE i \in 1..Len(list) : list[i] = n

Init ==
  /\ list = <<>>
  /\ map = [k \in Keys |-> NoNode]
  /\ heap \in {[n \in Nodes |-> e] : e \in Entry}
  /\ maxBytes = InitBytes
  /\ currentSize = 0
  /\ mutex = NoThread
  /\ ref = [t \in Threads |-> NoNode]
  /\ dangling = {}
  /\ touched = [t \in Threads |-> {}]

(* A thread may enter a method: the lock is free and it has finished       *)
(* copying the result of its previous get().                               *)
Enter(t) == mutex = NoThread /\ ref[t] = NoNode

(* ByteCache::needCleanup().  Mutant: >= for >.                            *)
NeedCleanupEarly ==
  \/ MaxItems > 0 /\ Cardinality(Cached) > MaxItems
  \/ maxBytes > 0 /\ currentSize >= maxBytes
NeedCleanup ==
  \/ MaxItems > 0 /\ Cardinality(Cached) > MaxItems
  \/ maxBytes > 0 /\ currentSize > maxBytes

(* History: key k was used while the threads in ref still hold references. *)
Touch(k) ==
  touched' = [r \in Threads |-> IF ref[r] = NoNode THEN {} ELSE touched[r] \cup {k}]

(* Node n goes back to the allocator.                                      *)
Free(n) == dangling' = dangling \cup {r \in Threads : ref[r] = n}

(* The accounting hooks.  Mutant: the old size is not subtracted.          *)
onInsertValue(v) == currentSize' = currentSize + ValSize[v]
ChangeAdds(n, v) == currentSize' = currentSize + ValSize[v]
onChangeValue(n, v) == currentSize' = (currentSize - SizeAt(n)) + ValSize[v]
onDeleteValue(n) == currentSize' = currentSize - SizeAt(n)

(* _cache_items_map.erase().  Mutant: forgotten.                           *)
KeepKey(k) == UNCHANGED map
EraseKey(k) == map' = [map EXCEPT ![k] = NoNode]

(* put() of an absent key, up to the cleanup loop.                         *)
PutNew(t, k, v) ==
  /\ Enter(t)
  /\ map[k] = NoNode
  /\ \E n \in Nodes \ Live :
       /\ list' = Cons(n, list)
       /\ map' = [map EXCEPT ![k] = n]
       /\ heap' = [heap EXCEPT ![n] = [key |-> k, val |-> v]]
  /\ onInsertValue(v)
  /\ mutex' = t
  /\ Touch(k)
  /\ UNCHANGED <<maxBytes, ref, dangling>>

(* put() of a present key: the old node is erased, so the allocator may    *)
(* hand the same memory out again for the new one.                         *)
PutChange(t, k, v) ==
  /\ Enter(t)
  /\ map[k] # NoNode
  /\ LET old  == map[k]
         rest == RemoveAt(list, IndexOf(old))
     IN /\ \E n \in (Nodes \ Live) \cup {old} :
             /\ list' = Cons(n, rest)
             /\ map' = [map EXCEPT ![k] = n]
             /\ heap' = [heap EXCEPT ![n] = [key |-> k, val |-> v]]
        /\ onChangeValue(old, v)
        /\ Free(old)
  /\ mutex' = t
  /\ Touch(k)
  /\ UNCHANGED <<maxBytes, ref>>

(* The splice() that makes a node the most recent.  Mutant: forgotten.     *)
StayPut(n) == UNCHANGED list
MoveToFront(n) == list' = Cons(n, RemoveAt(list, IndexOf(n)))

(* get() of a present key (an absent one throws and changes nothing).      *)
Get(t, k) ==
  /\ Enter(t)
  /\ map[k] # NoNode
  /\ MoveToFront(map[k])
  /\ ref' = [ref EXCEPT ![t] = map[k]]
  /\ Touch(k)
  /\ UNCHANGED <<map, heap, maxBytes, currentSize, mutex, dangling>>

(* The caller's copy of what get() returned, made without the lock.        *)
Copy(t) ==
  /\ ref[t] # NoNode
  /\ ref' = [ref EXCEPT ![t] = NoNode]
  /\ dangling' = dangling \ {t}
  /\ touched' = [touched EXCEPT ![t] = {}]
  /\ UNCHANGED <<list, map, heap, maxBytes, currentSize, mutex>>

(* remove() of a present key.                                              *)
RemoveKey(t, k) ==
  /\ Enter(t)
  /\ map[k] # NoNode
  /\ onDeleteValue(map[k])
  /\ list' = RemoveAt(list, IndexOf(map[k]))
  /\ EraseKey(k)
  /\ Free(map[k])
  /\ UNCHANGED <<heap, maxBytes, mutex, ref, touched>>

(* setMaxSize(), up to its cleanup loop.  Mutant: without that loop.       *)
SetMaxSizeLater(t, bytes) ==
  /\ Enter(t)
  /\ maxBytes' = bytes
  /\ UNCHANGED <<list, map, heap, currentSize, mutex, ref, dangling, touched>>
SetMaxSize(t, bytes) ==
  /\ Enter(t)
  /\ maxBytes' = bytes
  /\ mutex' = t
  /\ UNCHANGED <<list, map, heap, currentSize, ref, dangling, touched>>

(* One turn of while (needCleanup()) cleanup().                            *)
Cleanup(t) ==
  /\ mutex = t
  /\ NeedCleanup
  /\ LET last == Last(list)
     IN /\ onDeleteValue(last)
        /\ EraseKey(heap[last].key)
        /\ Free(last)
  /\ list' = RemoveAt(list, Len(list))
  /\ UNCHANGED <<heap, maxBytes, mutex, ref, touched>>

(* The loop ends and the lock_guard goes out of scope.                     *)
Unlock(t) ==
  /\ mutex = t
  /\ ~NeedCleanup
  /\ mutex' = NoThread
  /\ UNCHANGED <<list, map, heap, maxBytes, currentSize, ref, dangling, touched>>

Next ==
  \E t \in Threads :
    \/ \E k \in Keys, v \in Values : PutNew(t, k, v) \/ PutChange(t, k, v)
    \/ \E k \in Keys : Get(t, k) \/ RemoveKey(t, k)
    \/ \E bytes \in ByteLimits : SetMaxSize(t, bytes)
    \/ Copy(t) \/ Cleanup(t) \/ Unlock(t)

Spec == Init /\ [][Next]_vars

-----------------------------------------------------------------------------
(* The index and the list describe the same entries: each node is listed   *)
(* once and found under its own key, and no key leads to a node outside    *)
(* the list, at every step of an eviction.                                 *)
IndexMatchesList ==
  /\ \A i, j \in 1..Len(list) : list[i] = list[j] => i = j
  /\ \A i \in 1..Len(list) : map[heap[list[i]].key] = list[i]
  /\ \A k \in Cached : map[k] \in Live /\ heap[map[k]].key = k

(* m_currentSize is exactly the number of bytes cached, whatever sequence  *)
(* of insertions, replacements, removals and evictions led here.           *)
AccountExact ==
  IsFiniteSet(BytesOf(Keys)) /\ currentSize = Cardinality(BytesOf(Keys))

(* ByteCache::needCleanup() does not ask whether the list is empty, and    *)
(* cleanup() decrements end(): the accounting alone must keep the loop     *)
(* from running on an empty list.  ByteCacheProofs derives it from         *)
(* AccountExact.                                                           *)
NeverEvictFromEmpty == NeedCleanup => list # <<>>

(* Outside the lock the cache is within both its limits.                   *)
WithinLimits ==
  mutex = NoThread =>
    /\ maxBytes > 0 => Cardinality(BytesOf(Keys)) <= maxBytes
    /\ MaxItems > 0 => Cardinality(Cached) <= MaxItems

(* A thread that has not copied yet references a live node unless the node *)
(* was freed under it, and only entries used since its get() are more      *)
(* recent than its own.                                                    *)
RecentOnlyTouched ==
  \A r \in Threads : ref[r] # NoNode /\ r \notin dangling =>
    /\ ref[r] \in Live
    /\ \A i, j \in 1..Len(list) :
         list[j] = ref[r] /\ i < j => heap[list[i]].key \in touched[r]

(* An eviction frees a value that is still being copied only when that     *)
(* value and the entries used since it was looked up do not fit together:  *)
(* a reader that is not starved for that long is safe from evictions.      *)
LruProtects ==
  [][mutex # NoThread =>
       \A r \in dangling' \ dangling :
         LET K == touched[r] \cup {heap[ref[r]].key}
         IN \/ maxBytes > 0 /\ Cardinality(BytesOf(K)) > maxBytes
            \/ MaxItems > 0 /\ Cardinality(K \cap Cached) > MaxItems]_vars
=============================================================================
