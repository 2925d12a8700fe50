-------------------------- MODULE ByteCacheRefines --------------------------
(***************************************************************************)
(* ByteCache implements BoundedRecency.  While a thread is in the eviction *)
(* loop it owns _mutex and nobody can look anything up, so the entries the *)
(* loop is about to evict count as gone from the moment it starts: the     *)
(* mapping drops from the tail of the list what no longer fits.            *)
(***************************************************************************)
EXTENDS ByteCache

Listed == [i \in 1..Len(list) |-> heap[list[i]]]

Trimming == INSTANCE BoundedRecency WITH recent <- <<>>, limit <- 0, busy <- FALSE

Abstract == INSTANCE BoundedRecency
              WITH recent <- IF mutex = NoThread THEN Listed
                             ELSE Trimming!Trim(Listed, maxBytes),
                   limit <- maxBytes, busy <- mutex # NoThread

(* Each method of the cache has the effect BoundedRecency gives it, in one *)
(* step: put() keeps the longest recent stretch that fits (nothing at all  *)
(* when the new value alone is too big), get() only reorders, setMaxSize() *)
(* trims at once.                                                          *)
RefinesBoundedRecency == Abstract!Spec
=============================================================================
