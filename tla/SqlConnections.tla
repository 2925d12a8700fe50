--------------------------- MODULE SqlConnections ---------------------------
(***************************************************************************)
(* Database connections (sql/sqldatabase.cpp, sql/sqlquery.cpp): QtSql     *)
(* keeps named connections for the whole process, and lets only the thread *)
(* that opened one use it.  SqlDatabase::open() names a connection by the  *)
(* handle of the calling thread, and every SqlQuery uses the one of the    *)
(* thread it is made in.  close() removes it under the queries that still  *)
(* use it.  Workers come and go: the system gives the handle of a thread   *)
(* that has ended to a later one.                                          *)
(***************************************************************************)
EXTENDS Naturals, Sequences, FiniteSets

CONSTANTS
  Handles,     \* thread handles
  Queries,     \* SqlQuery objects
  MaxThreads,  \* bound: threads started
  MaxOpened    \* bound: connections opened

ASSUME ConnectionsAssumption == MaxThreads \in Nat /\ MaxOpened \in Nat

VARIABLES
  thread,    \* what runs under each handle: a thread's number, or 0
  threads,   \* threads started so far (bound)
  database,  \* QtSql's dictionary: a connection's number, or 0
  opener,    \* the thread that opened each connection
  query      \* each query: its thread, its connection, whether the connection
             \* is still there, and whether that thread has closed it since

connections == <<thread, threads, database, opener, query>>

Unmade == [by |-> 0]

DatabaseInit ==
  /\ thread = [h \in Handles |-> 0] /\ threads = 0
  /\ database = [h \in Handles |-> 0] /\ opener = <<>>
  /\ query = [q \in Queries |-> Unmade]

Runs(h) == thread[h] # 0

StartThread(h) ==
  /\ ~Runs(h) /\ threads < MaxThreads
  /\ threads' = threads + 1
  /\ thread' = [thread EXCEPT ![h] = threads + 1]
  /\ UNCHANGED <<database, opener, query>>

(* The name of a connection. *)
OneName(h) == CHOOSE n \in Handles : TRUE

Id(h) == h

(* The connection of a thread, opened when there is none of its name. *)
Open(h) ==
  LET id == Id(h)
  IN IF database[id] # 0 THEN UNCHANGED <<database, opener>>
     ELSE /\ Len(opener) < MaxOpened
          /\ opener' = Append(opener, thread[h])
          /\ database' = [database EXCEPT ![id] = Len(opener) + 1]

SqlQuery(h, q) ==
  /\ Runs(h) /\ query[q] = Unmade
  /\ Open(h)
  /\ query' = [query EXCEPT ![q] =
       [by |-> thread[h], conn |-> database'[Id(h)], there |-> TRUE, closed |-> FALSE]]
  /\ UNCHANGED <<thread, threads>>

DestroyQuery(q) ==
  /\ query[q] # Unmade
  /\ query' = [query EXCEPT ![q] = Unmade]
  /\ UNCHANGED <<thread, threads, database, opener>>

(* removeDatabase(): the queries lose their driver. *)
Removed(h, q) ==
  IF query[q] = Unmade THEN Unmade
  ELSE [query[q] EXCEPT !.there = @ /\ query[q].conn # database[Id(h)],
                        !.closed = @ \/ query[q].by = thread[h]]

(* close(), as Cron's functions call it before they return to a handler    *)
(* that may have a query of its own.                                       *)
CloseDatabase(h) ==
  /\ Runs(h)
  /\ database' = [database EXCEPT ![Id(h)] = 0]
  /\ query' = [q \in Queries |-> Removed(h, q)]
  /\ UNCHANGED <<thread, threads, opener>>

(* A worker is done with a connection (webprocess.cpp): its queries are    *)
(* gone, it closes and takes the next one, or the thread ends.             *)
Done(h) ==
  /\ Runs(h) /\ \A q \in Queries : query[q].by # thread[h]
  /\ thread' \in {thread, [thread EXCEPT ![h] = 0]}
  /\ UNCHANGED <<threads, opener, query>>

FinishOpen(h) == Done(h) /\ UNCHANGED database

Finish(h) == Done(h) /\ database' = [database EXCEPT ![Id(h)] = 0]

DatabaseNext ==
  \/ \E h \in Handles :
       \/ StartThread(h)
       \/ \E q \in Queries : SqlQuery(h, q)
       \/ CloseDatabase(h)
       \/ Finish(h)
  \/ \E q \in Queries : DestroyQuery(q)

DatabaseSpec == DatabaseInit /\ [][DatabaseNext]_connections

----------------------------------------------------------------------------
(* A query works on a connection that its own thread has opened, and loses  *)
(* it only to a close() of that thread: neither another worker nor an      *)
(* earlier thread of the same handle gets in between.                      *)
OwnConnection ==
  \A q \in Queries :
    query[q] # Unmade /\ ~query[q].closed =>
      query[q].there /\ opener[query[q].conn] = query[q].by
=============================================================================
