----------------------------- MODULE CronProofs -----------------------------
(***************************************************************************)
(* What the scheduler of cron.cpp guarantees for any number of threads,    *)
(* tasks and timers.  The first inductive invariant, IInv, says what one   *)
(* look at the state cannot show: which calls a thread may still be        *)
(* inside, whose timer every timer is, and that the events of a task whose *)
(* calls did not overlap name the timer m_tasks has for it, with nothing   *)
(* behind a stop.  The second, RInv, rests on it and holds for tasks whose *)
(* calls do overlap too: it follows a stop from the event that is posted   *)
(* to the row it deletes and the timer it destroys.                        *)
(***************************************************************************)
EXTENDS Cron, TLAPS

(* The tasks whose calls have not overlapped in this process.              *)
Orderly == Ids \ (Was("overlapped") \cup Was("resumed"))

(* Which parts of a call which thread may be in, and for which task.       *)
Placed ==
  /\ \A th \in Threads : at[th].pc \notin {"idle", "resume"} => at[th].id \in issued
  /\ \A th \in Threads : at[th].pc = "new" => at[th].row \in Row
  /\ \A th \in Callers : at[th].pc \notin {"remove", "called", "self", "returned"}
  /\ at[CronThread].pc \notin {"new", "resume", "found"}

(* Rows, timers, events and resumes are of ids startTask() has given out.  *)
Issued ==
  /\ \A i \in Ids : rows[i] # NoRow \/ tasks[i] # Absent => i \in issued
  /\ \A n \in 1..Len(queue) : queue[n].id \in issued
  /\ \A th \in Threads : at[th].pc = "resume" => \A x \in at[th].todo : x[1] \in issued

(* The two mutexes belong to the threads between lock and unlock.          *)
Locked ==
  /\ \A th \in Threads : at[th].pc \in {"new", "resume"} => funcMutex = th
  /\ \A th \in Threads : at[th].pc \in {"delete", "self"} => taksMutex = th

(* m_tasks and the QTimers name each other; only a living timer is armed.  *)
TimersOwned ==
  /\ \A t \in Timers : timer[t].life = "alive" => timer[t].id \in Ids /\ tasks[timer[t].id] = t
  /\ \A t \in Timers : timer[t].armed # "no" => timer[t].life = "alive"
  /\ \A i \in Ids : tasks[i] \in Timers => timer[tasks[i]].life = "alive" /\ timer[tasks[i]].id = i

(* Events of an orderly task are about its timer, and none is behind its   *)
(* stop, in the queue or already being carried out.                        *)
EventsInOrder ==
  \A i \in Orderly :
    /\ \A n \in 1..Len(queue) : queue[n].id = i => queue[n].timer = tasks[i] /\ tasks[i] \in Timers
    /\ \A n, m \in 1..Len(queue) :
         n < m /\ queue[n].op = "stop" /\ queue[n].id = i => queue[m].id # i
    /\ at[CronThread].pc = "remove" /\ at[CronThread].id = i =>
         tasks[i] \in Timers /\ \A n \in 1..Len(queue) : queue[n].id # i

(* A task about to get a timer has none yet, but for one resumed again, and*)
(* will get one only.                                                      *)
Timerless ==
  \A th \in Threads :
    /\ at[th].pc = "new" => at[th].id \in Was("resumed") \/ tasks[at[th].id] \notin Timers
    /\ at[th].pc = "resume" =>
         /\ \A x \in at[th].todo : x[1] \in Was("resumed") \/ tasks[x[1]] \notin Timers
         /\ \A x, y \in at[th].todo : x[1] = y[1] => x = y

(* Whoever is about to stop a task has noted why.                          *)
Accounted ==
  \A th \in Threads : at[th].pc \in {"delete", "self", "returned"} =>
    at[th].id \in Was("returned") \cup Was("dropped")

IInv == TypeOK /\ Placed /\ Issued /\ Locked /\ TimersOwned /\ EventsInOrder /\ Timerless
         /\ Accounted /\ FaultOnlyIfOverlapped

-----------------------------------------------------------------------------
LEMMA RestTyped ==
  /\ Rest \in Locals
  /\ \A label \in {"found", "remove", "returned"}, i \in Ids : [Rest EXCEPT !.pc = label, !.id = i] \in Locals
  /\ \A i \in Ids, r \in Row : [Rest EXCEPT !.pc = "new", !.id = i, !.row = r] \in Locals
  /\ \A S \in SUBSET (Ids \X Row) : [Rest EXCEPT !.pc = "resume", !.todo = S] \in Locals
  /\ \A i \in Ids \cup {Absent}, last \in BOOLEAN :
       [Rest EXCEPT !.pc = "called", !.id = i, !.last = last] \in Locals
<1> USE DEF Rest, Locals
<1>1. Rest \in Locals OBVIOUS
<1>2. \A label \in {"found", "remove", "returned"}, i \in Ids : [Rest EXCEPT !.pc = label, !.id = i] \in Locals OBVIOUS
<1>3. \A i \in Ids, r \in Row : [Rest EXCEPT !.pc = "new", !.id = i, !.row = r] \in Locals OBVIOUS
<1>4. \A S \in SUBSET (Ids \X Row) : [Rest EXCEPT !.pc = "resume", !.todo = S] \in Locals OBVIOUS
<1>5. \A i \in Ids \cup {Absent}, last \in BOOLEAN :
       [Rest EXCEPT !.pc = "called", !.id = i, !.last = last] \in Locals OBVIOUS
<1> QED BY <1>1, <1>2, <1>3, <1>4, <1>5

LEMMA AtTyped ==
  ASSUME at \in [Threads -> Locals], NEW th \in Threads
  PROVE  /\ \A l \in Locals : [at EXCEPT ![th] = l] \in [Threads -> Locals]
         /\ \A label \in {"delete", "self", "called"}, i \in Ids :
              [at EXCEPT ![th].pc = label, ![th].id = i] \in [Threads -> Locals]
         /\ [at EXCEPT ![th].pc = "called"] \in [Threads -> Locals]
         /\ \A x : [at EXCEPT ![th].todo = at[th].todo \ {x}] \in [Threads -> Locals]
<1>1. \A l \in Locals : [at EXCEPT ![th] = l] \in [Threads -> Locals] OBVIOUS
<1>a. at[th] \in Locals OBVIOUS
<1>2. ASSUME NEW label \in {"delete", "self", "called"}, NEW i \in Ids
      PROVE [at EXCEPT ![th].pc = label, ![th].id = i] \in [Threads -> Locals]
  <2>1. [at[th] EXCEPT !.pc = label, !.id = i] \in Locals BY <1>a DEF Locals
  <2>2. [at EXCEPT ![th].pc = label, ![th].id = i] = [at EXCEPT ![th] = [at[th] EXCEPT !.pc = label, !.id = i]]
     OBVIOUS
  <2> QED BY <2>1, <2>2, <1>1
<1>3. [at EXCEPT ![th].pc = "called"] \in [Threads -> Locals]
  <2>1. [at[th] EXCEPT !.pc = "called"] \in Locals BY <1>a DEF Locals
  <2> QED BY <2>1
<1>4. ASSUME NEW x PROVE [at EXCEPT ![th].todo = at[th].todo \ {x}] \in [Threads -> Locals]
  <2>1. [at[th] EXCEPT !.todo = at[th].todo \ {x}] \in Locals BY <1>a DEF Locals
  <2> QED BY <2>1
<1> QED BY <1>1, <1>2, <1>3, <1>4

LEMMA TimerTyped ==
  ASSUME timer \in [Timers -> Timer], NEW t \in Timers
  PROVE  /\ \A on \in {"no", "yes", "mute"} : [timer EXCEPT ![t].armed = on] \in [Timers -> Timer]
         /\ \A u : Without(u) \in [Timers -> Timer]
<1>1. ASSUME NEW on \in {"no", "yes", "mute"} PROVE [timer EXCEPT ![t].armed = on] \in [Timers -> Timer]
  <2>1. [timer[t] EXCEPT !.armed = on] \in Timer BY DEF Timer
  <2> QED BY <2>1
<1>2. ASSUME NEW u PROVE Without(u) \in [Timers -> Timer]
  <2>1. \A v \in Timers : [timer[v] EXCEPT !.life = "deleted", !.armed = "no"] \in Timer
    BY DEF Timer
  <2> QED BY <2>1 DEF Without
<1> QED BY <1>1, <1>2

-----------------------------------------------------------------------------
LEMMA InitEstablishes == Init => IInv
<1> SUFFICES ASSUME Init PROVE IInv OBVIOUS
<1> USE CronAssumption DEF Init, Fresh
<1>1. TypeOK
  <2>1. Unborn \in Timer BY DEF Unborn, Timer
  <2>2. timer \in [Timers -> Timer] BY <2>1
  <2>3. at \in [Threads -> Locals] BY RestTyped
  <2>4. queue \in Seq(Event) OBVIOUS
  <2> QED BY <2>2, <2>3, <2>4 DEF TypeOK
<1> USE DEF Rest, Unborn
<1>2. Placed /\ Issued /\ Locked BY DEF Placed, Issued, Locked, Threads
<1>3. TimersOwned BY DEF TimersOwned
<1>4. EventsInOrder /\ Timerless /\ Accounted
  BY DEF EventsInOrder, Timerless, Accounted, Orderly, Threads
<1>5. FaultOnlyIfOverlapped BY DEF FaultOnlyIfOverlapped
<1> QED BY <1>1, <1>2, <1>3, <1>4, <1>5 DEF IInv

LEMMA AddTimerTyped ==
  ASSUME TypeOK, NEW i \in Ids, NEW r \in Row, AddTimer(i, r)
  PROVE  /\ timer' \in [Timers -> Timer] /\ tasks' \in [Ids -> Timers \cup {Absent, Null}]
         /\ queue' \in Seq(Event)
<1>1. PICK t \in Timers :
        /\ timer' = [Without(tasks[i]) EXCEPT ![t] =
             [life |-> "alive", id |-> i, single |-> r.single, ends |-> r.ends, armed |-> "no"]]
        /\ tasks' = [tasks EXCEPT ![i] = t]
        /\ Post("start", t, i, FALSE)
  BY DEF AddTimer
<1>2. [life |-> "alive", id |-> i, single |-> r.single, ends |-> r.ends, armed |-> "no"] \in Timer
  BY DEF Row, Timer
<1>3. Without(tasks[i]) \in [Timers -> Timer] BY TimerTyped DEF TypeOK
<1>4. [op |-> "start", timer |-> t, id |-> i, past |-> FALSE] \in Event BY DEF Event
<1>5. queue' \in Seq(Event) BY <1>1, <1>4 DEF Post, TypeOK
<1>6. tasks' \in [Ids -> Timers \cup {Absent, Null}] BY <1>1 DEF TypeOK
<1> QED BY <1>1, <1>2, <1>3, <1>5, <1>6

LEMMA PostStopTyped ==
  ASSUME TypeOK, NEW th \in Threads, NEW i \in Ids, NEW label \in {"delete", "self"},
         NEW kinds \in SUBSET Kinds, PostStop(th, i, label, kinds), calls' \in Nat
  PROVE  TypeOK'
<1>1. Found(i) \in Timers \cup {Null} BY DEF Found, TypeOK
<1>2. at' \in [Threads -> Locals] BY AtTyped DEF PostStop, TypeOK
<1>3. log' \in SUBSET (Kinds \X Ids) BY DEF PostStop, Note, If, Kinds, TypeOK
<1>4. [op |-> "stop", timer |-> Found(i), id |-> i, past |-> FALSE] \in Event BY <1>1 DEF Event
<1>5. queue' \in Seq(Event) BY <1>4 DEF PostStop, Post, TypeOK
<1> QED BY <1>1, <1>2, <1>3, <1>5 DEF PostStop, Lock, TypeOK, table

LEMMA TypesKept == TypeOK /\ Placed /\ TimersOwned /\ [Next]_vars => TypeOK'
<1> SUFFICES ASSUME TypeOK, Placed, TimersOwned, [Next]_vars PROVE TypeOK' OBVIOUS
<1> USE DEF TypeOK
<1>a. CronThread \in Threads /\ Callers \subseteq Threads BY DEF Threads
<1>1. ASSUME NEW th \in Threads, NEW n \in Names, AddFunc(th, n) PROVE TypeOK'
  BY <1>1 DEF AddFunc, Call, table, loop, locks
<1>2. ASSUME NEW th \in Threads, NEW r \in Row, StartTask(th, r) PROVE TypeOK'
  <2>1. PICK i \in Ids \ issued :
       /\ rows' = [rows EXCEPT ![i] = r]
       /\ issued' = issued \cup {i}
       /\ at' = [at EXCEPT ![th] = [Rest EXCEPT !.pc = "new", !.id = i, !.row = r]]
    BY <1>2 DEF StartTask
  <2>2. at' \in [Threads -> Locals] BY <2>1, RestTyped, AtTyped
  <2>3. r.name \in Names BY DEF Row
  <2> QED BY <1>2, <2>1, <2>2, <2>3 DEF StartTask, Call, loop
<1>4. ASSUME NEW th \in Threads, NewTask(th) PROVE TypeOK'
  <2>1. at[th].id \in Ids /\ at[th].row \in Row BY <1>4 DEF NewTask, At, Placed
  <2>3. at' \in [Threads -> Locals] BY <1>4, AtTyped, RestTyped DEF NewTask, Return
  <2> QED BY AddTimerTyped, <1>4, <2>1, <2>3 DEF NewTask, table, bounds
<1>6. ASSUME NEW th \in Threads, NEW i \in Ids, StopTask(th, i) PROVE TypeOK'
  <2>1. PostStop(th, i, "delete", {"dropped"}) /\ calls' \in Nat BY <1>6 DEF StopTask, Call
  <2>2. {"dropped"} \in SUBSET Kinds BY DEF Kinds
  <2> HIDE DEF TypeOK
  <2> QED BY PostStopTyped, <2>1, <2>2
<1>7. ASSUME NEW th \in Threads, NEW n \in Names, FindByName(th, n) PROVE TypeOK'
  <2>0. PICK i \in Ids : at' = [at EXCEPT ![th] = [Rest EXCEPT !.pc = "found", !.id = i]]
    BY <1>7 DEF FindByName, Goto
  <2>1. at' \in [Threads -> Locals] BY <2>0, AtTyped, RestTyped
  <2> QED BY <1>7, <2>1 DEF FindByName, Call, table, objects, loop, locks
<1>8. ASSUME NEW th \in Threads, StopFound(th) PROVE TypeOK'
  <2>1. at[th].id \in Ids /\ PostStop(th, at[th].id, "delete", {"dropped"}) /\ calls' \in Nat
    BY <1>8 DEF StopFound, At, Placed
  <2>2. {"dropped"} \in SUBSET Kinds BY DEF Kinds
  <2> HIDE DEF TypeOK
  <2> QED BY PostStopTyped, <2>1, <2>2
<1>9. ASSUME NEW th \in Threads, DeleteRow(th) PROVE TypeOK'
  <2>0. at' = [at EXCEPT ![th].pc = "called"] \/ at' = [at EXCEPT ![th] = Rest]
    BY <1>9 DEF DeleteRow, Return
  <2>a. /\ [at EXCEPT ![th].pc = "called"] \in [Threads -> Locals]
        /\ [at EXCEPT ![th] = Rest] \in [Threads -> Locals]
    BY AtTyped, RestTyped
  <2>1. at' \in [Threads -> Locals] BY <2>0, <2>a
  <2> QED BY <1>9, <2>1 DEF DeleteRow, Delete, Unlock, objects, loop, bounds
<1>10. ASSUME NEW th \in Threads, NEW i \in Ids, NEW past \in BOOLEAN, SetTaskTime(th, i, past) PROVE TypeOK'
  <2>1. log' \in SUBSET (Kinds \X Ids) BY <1>10 DEF SetTaskTime, If, Kinds
  <2>2. queue' \in Seq(Event)
    <3>1. CASE UNCHANGED queue BY <3>1
    <3>2. CASE tasks[i] \in Timers /\ Post("change", tasks[i], i, past)
      <4>1. [op |-> "change", timer |-> tasks[i], id |-> i, past |-> past] \in Event
        BY <3>2 DEF Event
      <4> QED BY <3>2, <4>1 DEF Post
    <3> QED BY <1>10, <3>1, <3>2 DEF SetTaskTime
  <2>3. fault' \in Ids \cup {Absent}
    <3>1. fault' = i \/ fault' = fault BY <1>10 DEF SetTaskTime
    <3> QED BY <3>1
  <2>4. calls' \in Nat BY <1>10 DEF SetTaskTime, Call
  <2> QED BY <1>10, <2>1, <2>2, <2>3, <2>4 DEF SetTaskTime, table, objects, locks
<1>11. ASSUME NEW th \in Threads, ResumeTasks(th) PROVE TypeOK'
  <2>0. {<<i, rows[i]>> : i \in {i \in Ids : rows[i] # NoRow}} \in SUBSET (Ids \X Row) OBVIOUS
  <2>1. at' \in [Threads -> Locals] BY <1>11, <2>0, AtTyped, RestTyped DEF ResumeTasks
  <2>2. log' \in SUBSET (Kinds \X Ids) BY <1>11 DEF ResumeTasks, Kinds
  <2> QED BY <1>11, <2>1, <2>2 DEF ResumeTasks, Call, table, objects, loop
<1>12. ASSUME NEW th \in Threads, ResumeRow(th) PROVE TypeOK'
  <2>1. PICK x \in at[th].todo :
          /\ at' = [at EXCEPT ![th].todo = at[th].todo \ {x}]
          /\ \/ UNCHANGED <<rows, tasks, timer, queue, log>>
             \/ Delete(x[1]) /\ Note({"dropped"}, x[1]) /\ UNCHANGED <<tasks, timer, queue>>
             \/ AddTimer(x[1], x[2]) /\ UNCHANGED <<rows, log>>
    BY <1>12 DEF ResumeRow
  <2>2. x[1] \in Ids /\ x[2] \in Row BY <2>1 DEF Locals
  <2>3. at' \in [Threads -> Locals] BY <2>1, AtTyped
  <2>4. log' \in SUBSET (Kinds \X Ids) /\ rows' \in [Ids -> Row \cup {NoRow}]
    BY <2>1, <2>2 DEF Note, Delete, Kinds
  <2>5. /\ timer' \in [Timers -> Timer] /\ tasks' \in [Ids -> Timers \cup {Absent, Null}]
        /\ queue' \in Seq(Event)
    BY AddTimerTyped, <2>1, <2>2
  <2> QED BY <1>12, <2>3, <2>4, <2>5 DEF ResumeRow, locks, bounds
<1>13. ASSUME NEW th \in Threads, ResumeEnd(th) PROVE TypeOK'
  <2>1. at' \in [Threads -> Locals] BY <1>13, AtTyped, RestTyped DEF ResumeEnd, Return
  <2> QED BY <1>13, <2>1 DEF ResumeEnd, table, objects, loop, bounds
<1>14. ASSUME NEW op, NextEvent(op)
       PROVE  /\ queue' \in Seq(Event) /\ due' \in SUBSET Timers
              /\ Head(queue).id \in Ids /\ Head(queue).past \in BOOLEAN
  <2>1. queue # <<>> /\ queue' = Tail(queue) /\ due' = due BY <1>14 DEF NextEvent
  <2>2. Head(queue) \in Event BY <2>1
  <2> QED BY <2>1, <2>2 DEF Event
<1>15. CASE DanglingEvent
  BY <1>14, <1>15 DEF DanglingEvent, table, objects, locks
<1>16. ASSUME NEW t \in Timers, NEW on \in {"no", "yes", "mute"}, Arm(t, on) PROVE timer' \in [Timers -> Timer]
  BY <1>16, TimerTyped DEF Arm
<1>17. CASE StartTaskTimer
  BY <1>14, <1>16, <1>17 DEF StartTaskTimer, Alive, table, locks, bounds
<1>18. CASE StopTaskTimer
  <2>1. at' \in [Threads -> Locals] BY <1>14, <1>18, <1>a, AtTyped, RestTyped DEF StopTaskTimer, Goto
  <2> QED BY <1>14, <1>16, <1>18, <2>1 DEF StopTaskTimer, Alive, table, locks, bounds
<1>19. CASE ChangeTaskTimer
  <2>1. RunsOn(Head(queue).timer, Head(queue).past) \in {"no", "yes", "mute"} BY DEF RunsOn
  <2> QED BY <1>14, <1>16, <1>19, <2>1 DEF ChangeTaskTimer, Alive, table, locks, bounds
<1>20. CASE RemoveTask
  <2>1. timer' \in [Timers -> Timer]
    <3>1. CASE Timers = {} BY <1>20, <3>1 DEF RemoveTask, Without
    <3>2. CASE Timers # {} BY <1>20, <3>2, TimerTyped DEF RemoveTask
    <3> QED BY <3>1, <3>2
  <2>2. at' \in [Threads -> Locals] BY <1>20, <1>a, AtTyped, RestTyped DEF RemoveTask, Return
  <2> QED BY <1>20, <2>1, <2>2 DEF RemoveTask, table, loop, locks, bounds
<1>21. CASE FuncReturns
  <2>1. at[CronThread].id \in Ids BY <1>21, <1>a DEF FuncReturns, At, Placed
  <2>2. log' \in SUBSET (Kinds \X Ids) BY <1>21, <2>1 DEF FuncReturns, Note, Kinds
  <2>3. at' \in [Threads -> Locals]
    <3>1. \/ at' = [at EXCEPT ![CronThread] = Rest]
          \/ at' = [at EXCEPT ![CronThread] =
                     [Rest EXCEPT !.pc = "returned", !.id = at[CronThread].id]]
      BY <1>21 DEF FuncReturns, Goto, Return
    <3>2. Rest \in Locals /\ [Rest EXCEPT !.pc = "returned", !.id = at[CronThread].id] \in Locals
      BY <2>1, RestTyped
    <3>3. \A l \in Locals : [at EXCEPT ![CronThread] = l] \in [Threads -> Locals] BY <1>a, AtTyped
    <3> QED BY <3>1, <3>2, <3>3
  <2> QED BY <1>21, <2>2, <2>3 DEF FuncReturns, table, objects, loop, locks, bounds
<1>22. CASE StopAfterLastCall
  <2>1. /\ at[CronThread].id \in Ids /\ PostStop(CronThread, at[CronThread].id, "delete", {})
        /\ calls' \in Nat
    BY <1>22, <1>a DEF StopAfterLastCall, At, Placed
  <2> HIDE DEF TypeOK
  <2> QED BY PostStopTyped, <1>a, <2>1
<1>23. CASE ActivateTimers
  BY <1>23 DEF ActivateTimers, table, objects, locks, bounds
<1>24. ASSUME NEW t \in Timers, Timeout(t) PROVE TypeOK'
  <2>1. timer[t].single \in BOOLEAN /\ timer[t].ends \in BOOLEAN /\ timer[t].id \in Ids \cup {Absent}
    BY DEF Timer
  <2>2. timer' \in [Timers -> Timer] BY <1>16, <1>24, <2>1 DEF Timeout
  <2>3. (timer[t].single \/ (timer[t].ends /\ timer[t].id \in ended)) \in BOOLEAN OBVIOUS
  <2>4. at' \in [Threads -> Locals] BY <1>24, <1>a, <2>1, <2>3, AtTyped, RestTyped DEF Timeout
  <2> QED BY <1>24, <2>2, <2>4 DEF Timeout, table, locks, bounds
<1>25. ASSUME NEW t \in Timers, TimerGone(t) PROVE TypeOK'
  BY <1>25 DEF TimerGone, table, objects, locks, bounds
<1>26. CASE SelfStop
  <2>1. /\ at[CronThread].id \in Ids
        /\ PostStop(CronThread, at[CronThread].id, "self", {"dropped"}) /\ calls' \in Nat
    BY <1>26, <1>a DEF SelfStop, At, Placed
  <2>2. {"dropped"} \in SUBSET Kinds BY DEF Kinds
  <2> HIDE DEF TypeOK
  <2> QED BY PostStopTyped, <1>a, <2>1, <2>2
<1>27. ASSUME NEW i \in Ids, Elapse(i) PROVE TypeOK'
  BY <1>27 DEF Elapse, objects, loop, locks, bounds
<1>28. CASE Crash
  <2>1. Unborn \in Timer BY DEF Unborn, Timer
  <2>2. timer' \in [Timers -> Timer] BY <1>28, <2>1 DEF Crash, Fresh
  <2>3. at' \in [Threads -> Locals] BY <1>28, RestTyped DEF Crash, Fresh
  <2>4. tasks' \in [Ids -> Timers \cup {Absent, Null}] BY <1>28 DEF Crash, Fresh
  <2>5. queue' \in Seq(Event) /\ due' = {} /\ fault' = Absent /\ crashes' \in Nat
        /\ log' \in SUBSET (Kinds \X Ids)
    BY <1>28 DEF Crash
  <2>6. funcs' \in SUBSET Names BY <1>28 DEF Crash, Fresh
  <2> QED BY <1>28, <2>2, <2>3, <2>4, <2>5, <2>6 DEF Crash, table
<1>29. CASE UNCHANGED vars
  BY <1>29 DEF vars, table, objects, loop, locks, bounds
<1> QED
  BY <1>1, <1>2, <1>4, <1>6, <1>7, <1>8, <1>9, <1>10, <1>11, <1>12, <1>13, <1>15, <1>17, <1>18,
     <1>19, <1>20, <1>21, <1>22, <1>23, <1>24, <1>25, <1>26, <1>27, <1>28, <1>29
  DEF Next, Enter, Continue, CronStep

-----------------------------------------------------------------------------
(* What the steps do to the queue, to the log and to Stopping.             *)
LEMMA Appended ==
  ASSUME queue \in Seq(Event), NEW e, queue' = Append(queue, e)
  PROVE  /\ Len(queue) \in Nat /\ Len(queue') = Len(queue) + 1
         /\ \A n \in 1..Len(queue) : queue'[n] = queue[n]
         /\ queue'[Len(queue) + 1] = e
OBVIOUS

LEMMA Delivered ==
  ASSUME queue \in Seq(Event), queue # <<>>, queue' = Tail(queue)
  PROVE  /\ Len(queue) \in Nat /\ Len(queue) > 0 /\ Len(queue') = Len(queue) - 1
         /\ \A n \in 1..Len(queue') : queue'[n] = queue[n + 1]
         /\ Head(queue) = queue[1]
OBVIOUS

LEMMA StoppingByIndex ==
  ASSUME queue \in Seq(Event), queue' \in Seq(Event)
  PROVE  \A i :
    /\ Stopping(i) <=> \/ \E n \in 1..Len(queue) : queue[n].op = "stop" /\ queue[n].id = i
                       \/ at[CronThread].pc = "remove" /\ at[CronThread].id = i
    /\ Stopping(i)' <=> \/ \E n \in 1..Len(queue') : queue'[n].op = "stop" /\ queue'[n].id = i
                        \/ at'[CronThread].pc = "remove" /\ at'[CronThread].id = i
<1>1. DOMAIN queue = 1..Len(queue) /\ DOMAIN queue' = 1..Len(queue') OBVIOUS
<1> QED BY <1>1 DEF Stopping, ToSet

LEMMA StillStopping ==
  ASSUME queue \in Seq(Event), queue' \in Seq(Event),
         \/ UNCHANGED queue
         \/ \E e : queue' = Append(queue, e)
         \/ queue # <<>> /\ queue' = Tail(queue) /\ Head(queue).op # "stop",
         at[CronThread].pc = "remove" => at'[CronThread].pc = "remove" /\ at'[CronThread].id = at[CronThread].id
  PROVE  \A i : Stopping(i) => Stopping(i)'
<1> SUFFICES ASSUME NEW i, NEW n \in 1..Len(queue), queue[n].op = "stop", queue[n].id = i
             PROVE \E m \in 1..Len(queue') : queue'[m].op = "stop" /\ queue'[m].id = i
  BY StoppingByIndex
<1>1. CASE UNCHANGED queue BY <1>1
<1>2. ASSUME NEW e, queue' = Append(queue, e) PROVE \E m \in 1..Len(queue') : queue'[m].op = "stop" /\ queue'[m].id = i
  <2>1. n \in 1..Len(queue') /\ queue'[n] = queue[n] BY <1>2, Appended
  <2> QED BY <2>1
<1>3. CASE queue # <<>> /\ queue' = Tail(queue) /\ Head(queue).op # "stop"
  <2>1. n # 1 BY <1>3, Delivered
  <2>2. PICK m \in 1..Len(queue') : n = m + 1
    <3>1. Len(queue) \in Nat /\ Len(queue') = Len(queue) - 1 BY <1>3, Delivered
    <3>2. n \in Nat /\ n > 1 /\ n <= Len(queue) BY <2>1, <3>1
    <3>3. n - 1 \in 1..Len(queue') /\ n = (n - 1) + 1 BY <3>1, <3>2
    <3> QED BY <3>3
  <2>3. queue'[m] = queue[n] BY <1>3, <2>2, Delivered
  <2> QED BY <2>3
<1> QED BY <1>1, <1>2, <1>3

LEMMA LogGrows ==
  ASSUME log \subseteq log'
  PROVE  /\ \A kind : Was(kind) \subseteq Was(kind)'
         /\ \A i : i \in Orderly' => i \in Orderly
BY DEF Was, Orderly

(* What stopTask() does until it holds the lock and has posted the stop.   *)
LEMMA PostStopKeeps ==
  ASSUME IInv, TypeOK', NEW th \in Threads, NEW i \in issued, NEW label \in {"delete", "self"},
         NEW kinds \in SUBSET Kinds, PostStop(th, i, label, kinds), fault = Absent,
         label = "self" => th = CronThread,
         at[th].pc # "remove",
         "dropped" \in kinds \/ i \in Was("returned") \cup Was("dropped")
  PROVE  IInv'
<1> USE DEF IInv, TypeOK
<1>1. /\ taksMutex = Nobody /\ taksMutex' = th
      /\ tasks' = [tasks EXCEPT ![i] = Found(i)]
      /\ queue' = Append(queue, [op |-> "stop", timer |-> Found(i), id |-> i, past |-> FALSE])
      /\ log' = log \cup ((kinds \cup If("overlapped", Overlaps(i))) \X {i})
      /\ at' = [at EXCEPT ![th].pc = label, ![th].id = i]
      /\ UNCHANGED <<rows, issued, timer, funcMutex, fault>>
  BY DEF PostStop, Lock, Post, Note, table
<1>2. /\ at'[th].pc = label /\ at'[th].id = i
      /\ \A o \in Threads \ {th} : at'[o] = at[o]
  <2> QED BY <1>1
<1>3. log \subseteq log' BY <1>1
<1>4. /\ \A j \in Orderly' : j \in Orderly
      /\ i \in Orderly' => tasks[i] \in Timers /\ ~Stopping(i)
  <2>1. ASSUME i \in Orderly' PROVE ~Overlaps(i)
    <3>1. <<"overlapped", i>> \notin log' BY <2>1 DEF Orderly, Was
    <3> QED BY <1>1, <3>1 DEF If
  <2> QED BY <1>3, <2>1, LogGrows DEF Overlaps
<1>5. /\ \A j \in Ids : tasks'[j] # tasks[j] => j = i /\ tasks[i] = Absent /\ tasks'[i] = Null
      /\ tasks'[i] = Found(i) /\ tasks'[i] # Absent
  BY <1>1, CronAssumption DEF Found
<1>6. CronThread \in Threads /\ Callers \subseteq Threads /\ Nobody \notin Threads
  BY CronAssumption DEF Threads
<1>7. (\A j : Stopping(j) => Stopping(j)') /\ Stopping(i)'
  <2>1. \A j : Stopping(j) => Stopping(j)' BY <1>1, <1>2, <1>6, StillStopping
  <2>2. Len(queue) + 1 \in 1..Len(queue') /\ queue'[Len(queue) + 1].op = "stop" /\ queue'[Len(queue) + 1].id = i
    BY <1>1, Appended
  <2>3. Stopping(i)' BY <2>2, StoppingByIndex
  <2> QED BY <2>1, <2>3
<1>8. \A o \in Threads : at[o].pc \notin {"delete", "self"} BY <1>1, <1>6 DEF Locked
<1>9. Placed' BY <1>1, <1>2, <1>6, CronAssumption DEF Placed
<1>10. Issued'
  <2>1. \A n \in 1..Len(queue') : queue'[n].id \in issued BY <1>1, Appended DEF Issued
  <2> QED BY <1>1, <1>2, <1>5, <2>1 DEF Issued
<1>11. Locked' BY <1>1, <1>2, <1>8 DEF Locked
<1>12. TimersOwned' BY <1>1, <1>5, CronAssumption DEF TimersOwned
<1>13. EventsInOrder'
  <2> SUFFICES ASSUME NEW j \in Orderly'
               PROVE  /\ \A n \in 1..Len(queue') : queue'[n].id = j => queue'[n].timer = tasks'[j] /\ tasks'[j] \in Timers
                      /\ \A n, m \in 1..Len(queue') :
                           n < m /\ queue'[n].op = "stop" /\ queue'[n].id = j => queue'[m].id # j
                      /\ at'[CronThread].pc = "remove" /\ at'[CronThread].id = j =>
                           tasks'[j] \in Timers /\ \A n \in 1..Len(queue') : queue'[n].id # j
    BY DEF EventsInOrder
  <2>1. j \in Orderly /\ j \in Ids /\ (j = i => tasks[i] \in Timers /\ ~Stopping(i)) BY <1>4 DEF Orderly
  <2>2. tasks'[j] = tasks[j] BY <2>1, <1>5, CronAssumption
  <2>3. \A n \in 1..Len(queue') :
          \/ n \in 1..Len(queue) /\ queue'[n] = queue[n]
          \/ /\ n = Len(queue) + 1 /\ queue'[n].op = "stop"
             /\ queue'[n].timer = tasks'[i] /\ queue'[n].id = i
    <3>1. \A n \in 1..Len(queue') :
            (n \in 1..Len(queue) /\ queue'[n] = queue[n]) \/ n = Len(queue) + 1
      BY <1>1, Appended
    <3>2. queue'[Len(queue) + 1] = [op |-> "stop", timer |-> Found(i), id |-> i, past |-> FALSE]
      BY <1>1, Appended
    <3>3. /\ queue'[Len(queue) + 1].op = "stop"
          /\ queue'[Len(queue) + 1].timer = tasks'[i] /\ queue'[Len(queue) + 1].id = i
      BY <1>5, <3>2
    <3> HIDE DEF IInv, TypeOK
    <3> QED BY <3>1, <3>3
  <2>4. \A n \in 1..Len(queue') : queue'[n].id = j => queue'[n].timer = tasks'[j] /\ tasks'[j] \in Timers
    BY <2>1, <2>2, <2>3 DEF EventsInOrder
  <2>5. ~Stopping(i) => \A n \in 1..Len(queue) : ~(queue[n].op = "stop" /\ queue[n].id = i)
    BY StoppingByIndex
  <2>6. Len(queue) \in Nat OBVIOUS
  <2>7. \A n, m \in 1..Len(queue') :
                           n < m /\ queue'[n].op = "stop" /\ queue'[n].id = j => queue'[m].id # j
    <3> SUFFICES ASSUME NEW n \in 1..Len(queue'), NEW m \in 1..Len(queue'),
                        n < m, queue'[n].op = "stop", queue'[n].id = j, queue'[m].id = j
                 PROVE FALSE
      OBVIOUS
    <3>1. n \in 1..Len(queue) /\ queue'[n] = queue[n]
      <4>1. Len(queue') = Len(queue) + 1 BY <1>1, Appended
      <4> QED BY <2>3, <2>6, <4>1
    <3>2. CASE m \in 1..Len(queue) /\ queue'[m] = queue[m] BY <2>1, <3>1, <3>2 DEF EventsInOrder
    <3>3. CASE m = Len(queue) + 1 /\ queue'[m].id = i BY <2>1, <2>5, <3>1, <3>3
    <3> QED BY <2>3, <3>2, <3>3
  <2>8. at'[CronThread].pc = "remove" /\ at'[CronThread].id = j =>
                           tasks'[j] \in Timers /\ \A n \in 1..Len(queue') : queue'[n].id # j
    <3> SUFFICES ASSUME at'[CronThread].pc = "remove" /\ at'[CronThread].id = j
                 PROVE tasks'[j] \in Timers /\ \A n \in 1..Len(queue') : queue'[n].id # j
      OBVIOUS
    <3>1. at[CronThread].pc = "remove" /\ at[CronThread].id = j BY <1>2, <1>6
    <3>2. j # i BY <2>1, <3>1 DEF Stopping
    <3> QED BY <2>1, <2>2, <2>3, <3>1, <3>2 DEF EventsInOrder
  <2> QED BY <2>4, <2>7, <2>8
<1>14. Timerless'
  <2>1. \A j \in Ids : tasks[j] \notin Timers => tasks'[j] \notin Timers BY <1>5, CronAssumption
  <2>2. Was("resumed") \subseteq Was("resumed")' BY <1>3, LogGrows
  <2>3. \A o \in Threads : at'[o].pc \in {"new", "resume"} => at'[o] = at[o] BY <1>2
  <2>4. \A o \in Threads : at[o].pc = "new" => at[o].id \in Ids BY DEF Placed
  <2>5. \A o \in Threads : \A x \in at[o].todo : x[1] \in Ids
    <3>1. \A o \in Threads : at[o].todo \in SUBSET (Ids \X Row) BY DEF Locals
    <3> QED BY <3>1
  <2> QED BY <2>1, <2>2, <2>3, <2>4, <2>5 DEF Timerless
<1>15. Accounted'
  <2>1. i \in (Was("returned") \cup Was("dropped"))'
    <3>1. CASE "dropped" \in kinds BY <1>1, <3>1 DEF Was, Issued
    <3>2. CASE i \in Was("returned") \cup Was("dropped") BY <1>3, <3>2, LogGrows
    <3> QED BY <3>1, <3>2
  <2>2. \A k : k \in Was("returned") \cup Was("dropped") => k \in (Was("returned") \cup Was("dropped"))'
    BY <1>3, LogGrows
  <2> QED BY <1>2, <2>1, <2>2 DEF Accounted
<1>16. FaultOnlyIfOverlapped' BY <1>1 DEF FaultOnlyIfOverlapped
<1> QED BY <1>9, <1>10, <1>11, <1>12, <1>13, <1>14, <1>15, <1>16

(* What newTask() does, called by startTask() or by resumeTasks().         *)
LEMMA AddTimerKeeps ==
  ASSUME IInv, TypeOK', NEW i \in issued, NEW r \in Row, AddTimer(i, r), log \subseteq log',
         i \in Orderly' => tasks[i] \notin Timers,
         UNCHANGED <<rows, issued, fault>>, at'[CronThread] = at[CronThread]
  PROVE  /\ TimersOwned' /\ EventsInOrder'
         /\ \A n \in 1..Len(queue') : queue'[n].id \in issued
         /\ \A j \in Ids : tasks'[j] # Absent => j \in issued
         /\ \A j \in Ids \ {i} : tasks'[j] = tasks[j]
         /\ \A j : Stopping(j) => Stopping(j)'
<1> USE DEF IInv, TypeOK
<1>1. PICK t \in Timers :
        /\ timer[t].life = "unused"
        /\ timer' = [Without(tasks[i]) EXCEPT ![t] =
             [life |-> "alive", id |-> i, single |-> r.single, ends |-> r.ends, armed |-> "no"]]
        /\ tasks' = [tasks EXCEPT ![i] = t]
        /\ queue' = Append(queue, [op |-> "start", timer |-> t, id |-> i, past |-> FALSE])
  BY DEF AddTimer, Post
<1>2. /\ timer'[t].life = "alive" /\ timer'[t].id = i /\ timer'[t].armed = "no"
      /\ \A v \in Timers \ {t} : v # tasks[i] => timer'[v] = timer[v]
      /\ \A v \in Timers \ {t} : v = tasks[i] => timer'[v].life = "deleted" /\ timer'[v].armed = "no"
  <2>1. \A v \in Timers \ {t} : timer'[v] = Without(tasks[i])[v] BY <1>1 DEF Without
  <2>2. timer'[t] = [life |-> "alive", id |-> i, single |-> r.single, ends |-> r.ends, armed |-> "no"]
    BY <1>1 DEF Without
  <2>3. \A v \in Timers \ {t} : v # tasks[i] => timer'[v] = timer[v] BY <2>1 DEF Without
  <2>4. ASSUME NEW v \in Timers \ {t}, v = tasks[i]
        PROVE timer'[v].life = "deleted" /\ timer'[v].armed = "no"
    <3>1. timer'[v] = [timer[v] EXCEPT !.life = "deleted", !.armed = "no"] BY <2>1, <2>4 DEF Without
    <3>2. timer[v] \in Timer OBVIOUS
    <3> QED BY <3>1, <3>2 DEF Timer
  <2> HIDE DEF IInv, TypeOK
  <2>5. timer'[t].life = "alive" /\ timer'[t].id = i /\ timer'[t].armed = "no" BY <2>2
  <2> QED BY <2>3, <2>4, <2>5
<1>3. /\ tasks'[i] = t /\ t # Absent
      /\ \A j \in Ids \ {i} : tasks'[j] = tasks[j]
  BY <1>1, CronAssumption
<1>4. \A j \in Ids : tasks[j] # t BY <1>1 DEF TimersOwned
<1>5. /\ \A n \in 1..Len(queue') :
           \/ n \in 1..Len(queue) /\ queue'[n] = queue[n]
           \/ n = Len(queue) + 1 /\ queue'[n].id = i /\ queue'[n].timer = t
      /\ Len(queue) \in Nat /\ Len(queue') = Len(queue) + 1
  <2>1. /\ \A n \in 1..Len(queue') : (n \in 1..Len(queue) /\ queue'[n] = queue[n]) \/ n = Len(queue) + 1
        /\ queue'[Len(queue) + 1] = [op |-> "start", timer |-> t, id |-> i, past |-> FALSE]
        /\ Len(queue) \in Nat /\ Len(queue') = Len(queue) + 1
    BY <1>1, Appended
  <2>2. queue'[Len(queue) + 1].id = i /\ queue'[Len(queue) + 1].timer = t BY <2>1
  <2> HIDE DEF IInv, TypeOK
  <2> QED BY <2>1, <2>2
<1>6. \A j \in Orderly' : j \in Orderly BY LogGrows
<1>7. \A j : Stopping(j) => Stopping(j)' BY <1>1, StillStopping
<1>8. TimersOwned'
  <2>1. \A v \in Timers : timer'[v].life = "alive" => timer'[v].id \in Ids /\ tasks'[timer'[v].id] = v
    BY <1>2, <1>3 DEF TimersOwned
  <2>2. \A v \in Timers : timer'[v].armed # "no" => timer'[v].life = "alive"
    BY <1>2 DEF TimersOwned
  <2>3. \A j \in Ids : tasks'[j] \in Timers => timer'[tasks'[j]].life = "alive" /\ timer'[tasks'[j]].id = j
    BY <1>2, <1>3, <1>4 DEF TimersOwned
  <2> QED BY <2>1, <2>2, <2>3 DEF TimersOwned
<1>9. EventsInOrder'
  <2> SUFFICES ASSUME NEW j \in Orderly'
               PROVE  /\ \A n \in 1..Len(queue') : queue'[n].id = j => queue'[n].timer = tasks'[j] /\ tasks'[j] \in Timers
                      /\ \A n, m \in 1..Len(queue') :
                           n < m /\ queue'[n].op = "stop" /\ queue'[n].id = j => queue'[m].id # j
                      /\ at'[CronThread].pc = "remove" /\ at'[CronThread].id = j =>
                           tasks'[j] \in Timers /\ \A n \in 1..Len(queue') : queue'[n].id # j
    BY DEF EventsInOrder
  <2>1. j \in Orderly /\ j \in Ids BY <1>6 DEF Orderly
  <2>2. CASE j = i
    <3>1. tasks[i] \notin Timers BY <2>2
    <3>2. \A n \in 1..Len(queue) : queue[n].id # i BY <2>1, <2>2, <3>1 DEF EventsInOrder
    <3>3. ~(at[CronThread].pc = "remove" /\ at[CronThread].id = i) BY <2>1, <2>2, <3>1 DEF EventsInOrder
    <3>4. \A n \in 1..Len(queue') : queue'[n].id = i => n = Len(queue) + 1 /\ queue'[n].timer = t
      BY <1>5, <3>2
    <3> QED BY <1>3, <1>5, <2>2, <3>3, <3>4
  <2>3. CASE j # i
    <3>1. \A n \in 1..Len(queue') : queue'[n].id = j => n \in 1..Len(queue) /\ queue'[n] = queue[n]
      BY <1>5, <2>3
    <3>2. tasks'[j] = tasks[j] BY <1>3, <2>1, <2>3
    <3>3. /\ \A n \in 1..Len(queue) : queue[n].id = j => queue[n].timer = tasks[j] /\ tasks[j] \in Timers
          /\ \A n, m \in 1..Len(queue) : n < m /\ queue[n].op = "stop" /\ queue[n].id = j => queue[m].id # j
          /\ at[CronThread].pc = "remove" /\ at[CronThread].id = j =>
               tasks[j] \in Timers /\ \A n \in 1..Len(queue) : queue[n].id # j
      BY <2>1 DEF EventsInOrder
    <3> HIDE DEF IInv, TypeOK
    <3> QED BY <3>1, <3>2, <3>3
  <2> QED BY <2>2, <2>3
<1>11. \A n \in 1..Len(queue') : queue'[n].id \in issued BY <1>5 DEF Issued
<1>12. \A j \in Ids : tasks'[j] # Absent => j \in issued BY <1>3 DEF Issued
<1> QED BY <1>3, <1>7, <1>8, <1>9, <1>11, <1>12

LEMMA NewTaskKeeps == ASSUME IInv, TypeOK', NEW th \in Threads, NewTask(th) PROVE IInv'
<1> USE DEF IInv, TypeOK
<1> DEFINE i == at[th].id
<1>1. /\ at[th].pc = "new" /\ fault = Absent
      /\ AddTimer(i, at[th].row)
      /\ funcMutex' = Nobody
      /\ at' = [at EXCEPT ![th] = Rest]
      /\ UNCHANGED <<rows, issued, taksMutex, fault, log>>
  BY DEF NewTask, At, Return, table, bounds
<1>2. i \in issued /\ at[th].row \in Row BY <1>1 DEF Placed
<1>3. i \in Orderly' => tasks[i] \notin Timers BY <1>1, <1>2 DEF Timerless, Orderly, Was
<1>4. th \in Callers /\ CronThread \in Threads /\ th # CronThread
  BY <1>1, CronAssumption DEF Placed, Threads
<1>5. at'[th] = Rest /\ \A o \in Threads \ {th} : at'[o] = at[o] BY <1>1
<1>6. /\ TimersOwned' /\ EventsInOrder'
      /\ \A n \in 1..Len(queue') : queue'[n].id \in issued
      /\ \A j \in Ids : tasks'[j] # Absent => j \in issued
      /\ \A j \in Ids \ {i} : tasks'[j] = tasks[j]
      /\ \A j : Stopping(j) => Stopping(j)'
  <2>1. log \subseteq log' BY <1>1
  <2> QED BY <1>1, <1>2, <1>3, <1>4, <1>5, <2>1, AddTimerKeeps
<1>7. Placed' BY <1>1, <1>4, <1>5 DEF Placed, Rest
<1>8. Issued' BY <1>1, <1>5, <1>6 DEF Issued, Rest
<1>9. \A o \in Threads \ {th} : at[o].pc \notin {"new", "resume"} BY <1>1 DEF Locked
<1>10. Locked' BY <1>1, <1>5, <1>9 DEF Locked, Rest
<1>11. Timerless'
  <2>1. \A o \in Threads : at'[o].pc \notin {"new", "resume"} BY <1>5, <1>9 DEF Rest
  <2> QED BY <2>1 DEF Timerless
<1>12. Accounted' BY <1>1, <1>5, LogGrows DEF Accounted, Rest
<1>13. FaultOnlyIfOverlapped' BY <1>1 DEF FaultOnlyIfOverlapped
<1> QED BY <1>6, <1>7, <1>8, <1>10, <1>11, <1>12, <1>13

LEMMA ResumeRowKeeps == ASSUME IInv, TypeOK', NEW th \in Threads, ResumeRow(th) PROVE IInv'
<1> USE DEF IInv, TypeOK
<1>1. PICK x \in at[th].todo :
          /\ at' = [at EXCEPT ![th].todo = at[th].todo \ {x}]
          /\ \/ UNCHANGED <<rows, tasks, timer, queue, log>>
             \/ Delete(x[1]) /\ Note({"dropped"}, x[1]) /\ UNCHANGED <<tasks, timer, queue>>
             \/ AddTimer(x[1], x[2]) /\ UNCHANGED <<rows, log>>
  BY DEF ResumeRow
<1>2. at[th].pc = "resume" /\ fault = Absent /\ UNCHANGED <<issued, taksMutex, funcMutex, fault>>
  BY DEF ResumeRow, At, locks, bounds
<1> DEFINE i == x[1]
           r == x[2]
<1>3. at[th] \in Locals OBVIOUS
<1>4. i \in issued /\ r \in Row /\ i \in Ids /\ x = <<i, r>> BY <1>1, <1>2, <1>3 DEF Issued, Locals
<1>5. /\ at'[th].pc = "resume" /\ at'[th].todo = at[th].todo \ {x} /\ at'[th].id = at[th].id
      /\ at'[th].row = at[th].row
      /\ \A o \in Threads \ {th} : at'[o] = at[o]
  BY <1>1, <1>2, <1>3 DEF Locals
<1>6. th \in Callers /\ CronThread \in Threads /\ th # CronThread /\ at'[CronThread] = at[CronThread]
  BY <1>2, <1>5, CronAssumption DEF Placed, Threads
<1>7. \A o \in Threads \ {th} : at[o].pc \notin {"new", "resume"} BY <1>2 DEF Locked
<1>8. log \subseteq log' BY <1>1 DEF Note
<1>9. \A j \in Orderly' : j \in Orderly BY <1>8, LogGrows
<1>10. i \in Orderly' => tasks[i] \notin Timers BY <1>1, <1>2, <1>9 DEF Timerless, Orderly
<1>11. \A y \in at'[th].todo : y \in at[th].todo /\ y[1] # i BY <1>1, <1>2, <1>5 DEF Timerless
<1>12. /\ \A j \in Ids \ {i} : rows'[j] = rows[j] /\ tasks'[j] = tasks[j]
       /\ \A j \in Ids : rows'[j] # NoRow => rows[j] # NoRow
       /\ \A j : Stopping(j) => Stopping(j)'
       /\ \A n \in 1..Len(queue') : queue'[n].id \in issued
       /\ \A j \in Ids : tasks'[j] # Absent => j \in issued
       /\ TimersOwned' /\ EventsInOrder'
  <2>1. CASE UNCHANGED <<tasks, timer, queue>> /\ (rows' = rows \/ Delete(i))
    <3>1. \A j : Stopping(j) => Stopping(j)' BY <1>6, <2>1, StillStopping
    <3>2. TimersOwned' BY <2>1 DEF TimersOwned
    <3>3. EventsInOrder' BY <1>6, <1>9, <2>1 DEF EventsInOrder
    <3>4. /\ \A j \in Ids \ {i} : rows'[j] = rows[j]
          /\ \A j \in Ids : rows'[j] # NoRow => rows[j] # NoRow
      BY <2>1 DEF Delete
    <3> QED BY <2>1, <3>1, <3>2, <3>3, <3>4 DEF Issued
  <2>2. CASE AddTimer(i, r) /\ UNCHANGED <<rows, log>>
    <3> QED BY <1>2, <1>4, <1>6, <1>8, <1>10, <2>2, AddTimerKeeps
  <2> QED BY <1>1, <2>1, <2>2
<1>13. Placed' BY <1>2, <1>5, <1>6, <1>1 DEF Placed
<1>14. Issued' BY <1>2, <1>5, <1>12 DEF Issued
<1>15. Locked' BY <1>2, <1>5 DEF Locked
<1>16. Timerless'
  <2>1. Was("resumed") \subseteq Was("resumed")' BY <1>8, LogGrows
  <2>2. \A y \in at[th].todo : y[1] \in Ids BY <1>3 DEF Locals
  <2> QED BY <1>2, <1>5, <1>7, <1>11, <1>12, <2>1, <2>2 DEF Timerless
<1>17. Accounted' BY <1>5, <1>8, LogGrows DEF Accounted
<1>18. FaultOnlyIfOverlapped' BY <1>2 DEF FaultOnlyIfOverlapped
<1> QED BY <1>12, <1>13, <1>14, <1>15, <1>16, <1>17, <1>18

LEMMA UntouchedKeeps ==
  ASSUME IInv, TypeOK',
         UNCHANGED <<rows, issued, tasks, timer, queue, taksMutex, funcMutex, at, fault, log>>
  PROVE  IInv'
<1> USE DEF IInv
<1>1. Placed' /\ Issued' /\ Locked' /\ TimersOwned' BY DEF Placed, Issued, Locked, TimersOwned
<1>2. EventsInOrder' BY DEF EventsInOrder, Orderly, Was
<1>3. (\A i : Stopping(i)' <=> Stopping(i)) BY DEF Stopping
<1>4. Timerless' BY DEF Timerless, Was
<1>5. Accounted' /\ FaultOnlyIfOverlapped' BY DEF Accounted, FaultOnlyIfOverlapped, Was
<1> QED BY <1>1, <1>2, <1>4, <1>5

(* A caller starts, or ends, a part of a call that has nothing to do with  *)
(* m_tasks, the queue and the log.                                         *)
LEMMA CallerKeeps ==
  ASSUME IInv, TypeOK', NEW th \in Callers, NEW l, at' = [at EXCEPT ![th] = l],
         l.pc \in {"idle", "found"}, l.pc = "found" => l.id \in issued,
         at[th].pc \notin {"delete", "self"},
         \A o \in Threads : o # th /\ at[o].pc \in {"new", "resume"} => funcMutex' = o,
         UNCHANGED <<rows, issued, tasks, timer, queue, taksMutex, fault, log>>
  PROVE  IInv'
<1> USE DEF IInv, TypeOK
<1>1. th \in Threads /\ CronThread \in Threads /\ th # CronThread BY CronAssumption DEF Threads
<1>2. at'[th] = l /\ \A o \in Threads \ {th} : at'[o] = at[o] BY <1>1
<1>3. Placed' BY <1>1, <1>2 DEF Placed
<1>4. Issued' BY <1>1, <1>2 DEF Issued
<1>5. Locked' BY <1>1, <1>2 DEF Locked
<1>6. TimersOwned' BY DEF TimersOwned
<1>7. EventsInOrder' BY <1>1, <1>2 DEF EventsInOrder, Orderly, Was
<1>8. (\A i : Stopping(i)' <=> Stopping(i)) BY <1>1, <1>2 DEF Stopping
<1>9. Timerless' BY <1>2 DEF Timerless, Was
<1>10. Accounted' /\ FaultOnlyIfOverlapped' BY <1>2 DEF Accounted, FaultOnlyIfOverlapped, Was
<1> QED BY <1>3, <1>4, <1>5, <1>6, <1>7, <1>9, <1>10

LEMMA StartTaskKeeps == ASSUME IInv, TypeOK', NEW th \in Threads, NEW r \in Row, StartTask(th, r) PROVE IInv'
<1> USE DEF IInv, TypeOK
<1>1. PICK i \in Ids \ issued :
       /\ rows' = [rows EXCEPT ![i] = r]
       /\ issued' = issued \cup {i}
       /\ at' = [at EXCEPT ![th] = [Rest EXCEPT !.pc = "new", !.id = i, !.row = r]]
  BY DEF StartTask
<1>2. /\ th \in Callers /\ at[th].pc = "idle" /\ fault = Absent /\ funcMutex = Nobody /\ funcMutex' = th
      /\ UNCHANGED <<tasks, timer, queue, taksMutex, fault, log>>
  BY DEF StartTask, Call, At, loop
<1>3. th \in Threads /\ CronThread \in Threads /\ th # CronThread /\ Nobody \notin Threads
  BY <1>2, CronAssumption DEF Threads
<1>4. /\ at'[th].pc = "new" /\ at'[th].id = i /\ at'[th].row = r
      /\ \A o \in Threads \ {th} : at'[o] = at[o]
  BY <1>1 DEF Rest
<1>5. \A o \in Threads : at[o].pc \notin {"new", "resume"} BY <1>2, <1>3 DEF Locked
<1>6. Placed' BY <1>1, <1>2, <1>3, <1>4 DEF Placed
<1>7. Issued' BY <1>1, <1>2, <1>4, <1>5 DEF Issued
<1>8. Locked' BY <1>2, <1>4, <1>5 DEF Locked
<1>9. TimersOwned' BY <1>2 DEF TimersOwned
<1>10. EventsInOrder' BY <1>2, <1>3, <1>4 DEF EventsInOrder, Orderly, Was
<1>11. (\A j : Stopping(j)' <=> Stopping(j)) BY <1>2, <1>3, <1>4 DEF Stopping
<1>12. /\ tasks[i] = Absent /\ rows'[i] = r /\ r # NoRow
       /\ \A j \in Ids \ {i} : rows'[j] = rows[j]
  BY <1>1, CronAssumption DEF Issued, Row
<1>13. Timerless' BY <1>2, <1>4, <1>5, <1>12, CronAssumption DEF Timerless, Was
<1>14. Accounted' /\ FaultOnlyIfOverlapped' BY <1>2, <1>4 DEF Accounted, FaultOnlyIfOverlapped, Was
<1> QED BY <1>6, <1>7, <1>8, <1>9, <1>10, <1>13, <1>14

LEMMA FindByNameKeeps == ASSUME IInv, TypeOK', NEW th \in Threads, NEW n \in Names, FindByName(th, n) PROVE IInv'
<1> USE DEF IInv, TypeOK
<1>1. PICK i \in Ids : rows[i] # NoRow /\ at' = [at EXCEPT ![th] = [Rest EXCEPT !.pc = "found", !.id = i]]
  BY DEF FindByName, Goto
<1> DEFINE l == [Rest EXCEPT !.pc = "found", !.id = i]
<1>2. l.pc = "found" /\ l.id = i /\ i \in issued BY <1>1 DEF Issued, Rest
<1>3. /\ th \in Callers /\ at[th].pc = "idle"
      /\ UNCHANGED <<rows, issued, tasks, timer, queue, taksMutex, funcMutex, fault, log>>
  BY DEF FindByName, Call, At, table, objects, loop, locks
<1>4. \A o \in Threads : o # th /\ at[o].pc \in {"new", "resume"} => funcMutex' = o BY <1>3 DEF Locked
<1> HIDE DEF l, IInv, TypeOK
<1> QED BY <1>1, <1>2, <1>3, <1>4, CallerKeeps DEF l

LEMMA ResumeEndKeeps == ASSUME IInv, TypeOK', NEW th \in Threads, ResumeEnd(th) PROVE IInv'
<1> USE DEF IInv, TypeOK
<1>1. /\ at[th].pc = "resume" /\ at' = [at EXCEPT ![th] = Rest]
      /\ UNCHANGED <<rows, issued, tasks, timer, queue, taksMutex, fault, log>>
  BY DEF ResumeEnd, At, Return, table, objects, loop, bounds
<1>2. th \in Callers BY <1>1 DEF Placed, Threads
<1>3. \A o \in Threads : o # th /\ at[o].pc \in {"new", "resume"} => funcMutex' = o
  BY <1>1 DEF Locked
<1>4. Rest.pc = "idle" BY DEF Rest
<1> HIDE DEF IInv, TypeOK
<1> QED BY <1>1, <1>2, <1>3, <1>4, CallerKeeps

LEMMA ResumeTasksKeeps == ASSUME IInv, TypeOK', NEW th \in Threads, ResumeTasks(th) PROVE IInv'
<1> USE DEF IInv, TypeOK
<1> DEFINE found == {i \in Ids : rows[i] # NoRow}
<1>1. /\ th \in Callers /\ at[th].pc = "idle" /\ funcMutex = Nobody /\ funcMutex' = th
      /\ at' = [at EXCEPT ![th] = [Rest EXCEPT !.pc = "resume", !.todo = {<<i, rows[i]>> : i \in found}]]
      /\ log' = log \cup ({"resumed"} \X {i \in found : tasks[i] # Absent})
      /\ UNCHANGED <<rows, issued, tasks, timer, queue, taksMutex, fault>>
  BY DEF ResumeTasks, Call, At, table, objects, loop
<1>2. th \in Threads /\ CronThread \in Threads /\ th # CronThread /\ Nobody \notin Threads
  BY <1>1, CronAssumption DEF Threads
<1>3. /\ at'[th].pc = "resume" /\ at'[th].todo = {<<i, rows[i]>> : i \in found}
      /\ \A o \in Threads \ {th} : at'[o] = at[o]
  BY <1>1 DEF Rest
<1>4. \A o \in Threads : at[o].pc \notin {"new", "resume"} BY <1>1, <1>2 DEF Locked
<1>5. \A j \in Orderly' : j \in Orderly BY <1>1, LogGrows
<1>6. (\A i : Stopping(i)' <=> Stopping(i)) BY <1>1, <1>2, <1>3 DEF Stopping
<1>7. Placed' BY <1>1, <1>2, <1>3 DEF Placed
<1>8. Issued' BY <1>1, <1>3, <1>4 DEF Issued
<1>9. Locked' BY <1>1, <1>3, <1>4 DEF Locked
<1>10. TimersOwned' BY <1>1 DEF TimersOwned
<1>11. EventsInOrder' BY <1>1, <1>2, <1>3, <1>5 DEF EventsInOrder
<1>12. Timerless'
  <2>1. \A x \in at'[th].todo : x[1] \in Was("resumed")' \/ tasks[x[1]] \notin Timers
    <3> SUFFICES ASSUME NEW j \in found, tasks[j] # Absent PROVE j \in Was("resumed")'
      BY <1>3, CronAssumption
    <3> QED BY <1>1 DEF Was
  <2>2. \A x, y \in at'[th].todo : x[1] = y[1] => x = y BY <1>3
  <2> QED BY <1>1, <1>3, <1>4, <2>1, <2>2 DEF Timerless
<1>13. Accounted' BY <1>1, <1>3, LogGrows DEF Accounted
<1>14. FaultOnlyIfOverlapped'
  <2>1. log \subseteq log' BY <1>1
  <2> QED BY <1>1, <2>1, LogGrows DEF FaultOnlyIfOverlapped
<1> QED BY <1>7, <1>8, <1>9, <1>10, <1>11, <1>12, <1>13, <1>14

LEMMA DeleteRowKeeps == ASSUME IInv, TypeOK', NEW th \in Threads, DeleteRow(th) PROVE IInv'
<1> USE DEF IInv, TypeOK
<1> DEFINE i == at[th].id
<1>1. /\ at[th].pc \in {"delete", "self"} /\ fault = Absent
      /\ rows' = [rows EXCEPT ![i] = NoRow]
      /\ taksMutex' = Nobody
      /\ \/ at[th].pc = "self" /\ at' = [at EXCEPT ![th].pc = "called"]
         \/ at' = [at EXCEPT ![th] = Rest]
      /\ UNCHANGED <<issued, tasks, timer, queue, funcMutex, fault, log>>
  BY DEF DeleteRow, At, Delete, Unlock, Return, objects, loop, bounds
<1>2. i \in issued BY <1>1 DEF Placed
<1>3. CronThread \in Threads /\ Nobody \notin Threads BY CronAssumption DEF Threads
<1>4. /\ \A o \in Threads \ {th} : at'[o] = at[o]
      /\ \/ at[th].pc = "self" /\ at'[th].pc = "called" /\ at'[th].id = i
         \/ at'[th].pc = "idle"
  <2>1. CASE at[th].pc = "self" /\ at' = [at EXCEPT ![th].pc = "called"]
    <3>1. at'[th] = [at[th] EXCEPT !.pc = "called"] /\ at[th] \in Locals BY <2>1
    <3>2. at'[th].pc = "called" /\ at'[th].id = i BY <3>1 DEF Locals
    <3> QED BY <2>1, <3>2
  <2>2. CASE at' = [at EXCEPT ![th] = Rest] BY <2>2 DEF Rest
  <2> QED BY <1>1, <2>1, <2>2
<1>5. \A o \in Threads \ {th} : at[o].pc \notin {"delete", "self"} BY <1>1 DEF Locked
<1>6. (\A j : Stopping(j)' <=> Stopping(j)) BY <1>1, <1>3, <1>4 DEF Stopping
<1>8. Placed' BY <1>1, <1>2, <1>3, <1>4 DEF Placed, Threads
<1>9. Issued' BY <1>1, <1>4 DEF Issued
<1>10. Locked' BY <1>1, <1>4, <1>5 DEF Locked
<1>11. TimersOwned' BY <1>1 DEF TimersOwned
<1>12. EventsInOrder' BY <1>1, <1>3, <1>4 DEF EventsInOrder, Orderly, Was
<1>13. Timerless' BY <1>1, <1>4 DEF Timerless, Was
<1>14. Accounted' BY <1>1, <1>4, <1>5 DEF Accounted, Was
<1>15. FaultOnlyIfOverlapped' BY <1>1 DEF FaultOnlyIfOverlapped
<1> QED BY <1>8, <1>9, <1>10, <1>11, <1>12, <1>13, <1>14, <1>15

LEMMA SetTaskTimeKeeps ==
  ASSUME IInv, TypeOK', NEW th \in Threads, NEW i \in Ids, NEW past \in BOOLEAN, SetTaskTime(th, i, past)
  PROVE  IInv'
<1> USE DEF IInv, TypeOK
<1>1. /\ fault = Absent
      /\ \/ tasks[i] = Null /\ UNCHANGED queue
         \/ /\ tasks[i] \in Timers /\ UNCHANGED fault
            /\ queue' = Append(queue, [op |-> "change", timer |-> tasks[i], id |-> i, past |-> past])
      /\ (tasks[i] = Null /\ fault' = i) \/ UNCHANGED fault
      /\ log' = (log \ {<<"lapsed", i>>})
                   \cup ((If("lapsed", past) \cup If("overlapped", Overlaps(i))) \X {i})
      /\ UNCHANGED <<rows, issued, tasks, timer, taksMutex, funcMutex, at>>
  BY DEF SetTaskTime, Call, At, Post, table, objects, locks
<1>2. CronThread \in Threads BY DEF Threads
<1>3. \A kind \in Kinds \ {"lapsed"} : Was(kind) \subseteq Was(kind)' BY <1>1 DEF Was
<1>4. /\ \A j \in Orderly' : j \in Orderly
      /\ Overlaps(i) => i \in Was("overlapped")'
      /\ ~Overlaps(i) => tasks[i] \in Timers /\ ~Stopping(i)
  <2>1. Overlaps(i) => <<"overlapped", i>> \in log' BY <1>1 DEF If
  <2>2. \A j \in Orderly' : j \in Orderly BY <1>3 DEF Orderly, Kinds
  <2> QED BY <2>1, <2>2 DEF Overlaps, Was
<1>5. \A j : Stopping(j) => Stopping(j)' BY <1>1, StillStopping
<1>6. /\ Len(queue) \in Nat
      /\ \A n \in 1..Len(queue') :
           \/ n \in 1..Len(queue) /\ queue'[n] = queue[n]
           \/ n = Len(queue) + 1 /\ queue'[n].id = i /\ queue'[n].timer = tasks[i] /\ tasks[i] \in Timers
      /\ Len(queue') <= Len(queue) + 1
  <2>1. CASE UNCHANGED queue BY <2>1
  <2>2. CASE /\ tasks[i] \in Timers
             /\ queue' = Append(queue, [op |-> "change", timer |-> tasks[i], id |-> i, past |-> past])
    <3>1. /\ \A n \in 1..Len(queue') : (n \in 1..Len(queue) /\ queue'[n] = queue[n]) \/ n = Len(queue) + 1
          /\ queue'[Len(queue) + 1] = [op |-> "change", timer |-> tasks[i], id |-> i, past |-> past]
          /\ Len(queue) \in Nat /\ Len(queue') = Len(queue) + 1
      BY <2>2, Appended
    <3>2. queue'[Len(queue) + 1].id = i /\ queue'[Len(queue) + 1].timer = tasks[i] BY <3>1
    <3> HIDE DEF IInv, TypeOK
    <3> QED BY <2>2, <3>1, <3>2
  <2> QED BY <1>1, <2>1, <2>2
<1>7. Placed' BY <1>1 DEF Placed
<1>8. Issued'
  <2>1. tasks[i] # Absent => i \in issued BY DEF Issued
  <2>2. \A n \in 1..Len(queue') : queue'[n].id \in issued BY <1>6, <2>1, CronAssumption DEF Issued
  <2> QED BY <1>1, <2>2 DEF Issued
<1>9. Locked' /\ TimersOwned' BY <1>1 DEF Locked, TimersOwned
<1>10. EventsInOrder'
  <2> SUFFICES ASSUME NEW j \in Orderly'
               PROVE  /\ \A n \in 1..Len(queue') : queue'[n].id = j => queue'[n].timer = tasks[j] /\ tasks[j] \in Timers
                      /\ \A n, m \in 1..Len(queue') :
                           n < m /\ queue'[n].op = "stop" /\ queue'[n].id = j => queue'[m].id # j
                      /\ at[CronThread].pc = "remove" /\ at[CronThread].id = j =>
                           tasks[j] \in Timers /\ \A n \in 1..Len(queue') : queue'[n].id # j
    BY <1>1 DEF EventsInOrder
  <2>1. j \in Orderly /\ j \in Ids BY <1>4 DEF Orderly
  <2>2. /\ \A n \in 1..Len(queue) : queue[n].id = j => queue[n].timer = tasks[j] /\ tasks[j] \in Timers
        /\ \A n, m \in 1..Len(queue) : n < m /\ queue[n].op = "stop" /\ queue[n].id = j => queue[m].id # j
        /\ at[CronThread].pc = "remove" /\ at[CronThread].id = j =>
             tasks[j] \in Timers /\ \A n \in 1..Len(queue) : queue[n].id # j
    BY <2>1 DEF EventsInOrder
  <2>3. j = i => ~Stopping(i) BY <1>4 DEF Orderly
  <2>4. /\ \A n \in 1..Len(queue) : j = i /\ queue[n].id = j => queue[n].op # "stop"
        /\ ~(j = i /\ at[CronThread].pc = "remove" /\ at[CronThread].id = j)
    BY <2>3, StoppingByIndex
  <2> HIDE DEF IInv, TypeOK
  <2>5. ASSUME NEW n \in 1..Len(queue'), NEW m \in 1..Len(queue'),
               n < m, queue'[n].op = "stop", queue'[n].id = j, queue'[m].id = j
        PROVE FALSE
    <3>1. n \in 1..Len(queue) /\ queue'[n] = queue[n] BY <1>6, <2>5
    <3> QED BY <1>6, <2>2, <2>4, <2>5, <3>1
  <2>6. \A n \in 1..Len(queue') : queue'[n].id = j => queue'[n].timer = tasks[j] /\ tasks[j] \in Timers
    BY <1>6, <2>2
  <2>7. at[CronThread].pc = "remove" /\ at[CronThread].id = j =>
             tasks[j] \in Timers /\ \A n \in 1..Len(queue') : queue'[n].id # j
    BY <1>6, <2>2, <2>4
  <2> QED BY <2>5, <2>6, <2>7
<1>11. Timerless' BY <1>1, <1>3 DEF Timerless, Kinds
<1>12. Accounted' BY <1>1, <1>3 DEF Accounted, Kinds
<1>13. FaultOnlyIfOverlapped' BY <1>1, <1>4, CronAssumption DEF FaultOnlyIfOverlapped
<1> QED BY <1>7, <1>8, <1>9, <1>10, <1>11, <1>12, <1>13

(* The cron thread takes an event from its queue.                          *)
LEMMA EventTaken ==
  ASSUME IInv, TypeOK', NEW op, NextEvent(op), UNCHANGED <<tasks, log>>
  PROVE  /\ fault = Absent /\ at[CronThread].pc = "idle" /\ Head(queue).op = op
         /\ Head(queue).id \in issued
         /\ Head(queue).id \in Orderly =>
              Head(queue).timer = tasks[Head(queue).id] /\ Alive(Head(queue).timer)
         /\ \A n \in 1..Len(queue') : queue'[n].id \in issued
         /\ at'[CronThread].pc # "remove" => EventsInOrder'
         /\ op = "stop" /\ at'[CronThread].pc = "remove" /\ at'[CronThread].id = Head(queue).id => EventsInOrder'
         /\ at'[CronThread].pc # "remove" /\ op # "stop" => \A j : Stopping(j) => Stopping(j)'
         /\ op = "stop" /\ at'[CronThread].pc = "remove" /\ at'[CronThread].id = Head(queue).id =>
              \A j : Stopping(j) => Stopping(j)'
<1> USE DEF IInv, TypeOK
<1>1. /\ fault = Absent /\ at[CronThread].pc = "idle" /\ Head(queue).op = op
      /\ queue # <<>> /\ queue' = Tail(queue)
  BY DEF NextEvent, Idle, At
<1>2. /\ Len(queue) \in Nat /\ Len(queue) > 0 /\ Len(queue') = Len(queue) - 1
      /\ \A n \in 1..Len(queue') : queue'[n] = queue[n + 1]
      /\ Head(queue) = queue[1]
  BY <1>1, Delivered
<1> DEFINE h == Head(queue).id
<1>3. h \in issued BY <1>2 DEF Issued
<1>4. h \in Orderly => Head(queue).timer = tasks[h] /\ Alive(Head(queue).timer)
  BY <1>2 DEF EventsInOrder, TimersOwned, Alive, Orderly
<1>5. \A n \in 1..Len(queue') : n + 1 \in 1..Len(queue) /\ queue'[n] = queue[n + 1] BY <1>2
<1>6. \A n \in 1..Len(queue') : queue'[n].id \in issued BY <1>5 DEF Issued
<1>7. ASSUME NEW j \in Orderly'
      PROVE  /\ \A n \in 1..Len(queue') : queue'[n].id = j => queue'[n].timer = tasks[j] /\ tasks[j] \in Timers
             /\ \A n, m \in 1..Len(queue') :
                  n < m /\ queue'[n].op = "stop" /\ queue'[n].id = j => queue'[m].id # j
             /\ op = "stop" /\ h = j => tasks[j] \in Timers /\ \A n \in 1..Len(queue') : queue'[n].id # j
  <2>1. j \in Orderly BY DEF Orderly, Was
  <2>2. /\ \A n \in 1..Len(queue) : queue[n].id = j => queue[n].timer = tasks[j] /\ tasks[j] \in Timers
        /\ \A n, m \in 1..Len(queue) : n < m /\ queue[n].op = "stop" /\ queue[n].id = j => queue[m].id # j
    BY <2>1 DEF EventsInOrder
  <2> HIDE DEF IInv, TypeOK
  <2>3. \A n \in 1..Len(queue') : queue'[n].id = j => queue'[n].timer = tasks[j] /\ tasks[j] \in Timers
    BY <1>5, <2>2
  <2>4. \A n, m \in 1..Len(queue') :
                  n < m /\ queue'[n].op = "stop" /\ queue'[n].id = j => queue'[m].id # j
    <3> SUFFICES ASSUME NEW n \in 1..Len(queue'), NEW m \in 1..Len(queue'), n < m,
                        queue'[n].op = "stop", queue'[n].id = j
                 PROVE queue'[m].id # j
      OBVIOUS
    <3>1. n + 1 < m + 1 /\ n + 1 \in 1..Len(queue) /\ m + 1 \in 1..Len(queue) BY <1>2
    <3> QED BY <1>5, <2>2, <3>1
  <2>5. op = "stop" /\ h = j => tasks[j] \in Timers /\ \A n \in 1..Len(queue') : queue'[n].id # j
    <3> SUFFICES ASSUME op = "stop", h = j
                 PROVE tasks[j] \in Timers /\ \A n \in 1..Len(queue') : queue'[n].id # j
      OBVIOUS
    <3>1. 1 \in 1..Len(queue) /\ queue[1].op = "stop" /\ queue[1].id = j BY <1>1, <1>2
    <3>2. \A n \in 1..Len(queue') : 1 < n + 1 BY <1>2
    <3> QED BY <1>5, <2>2, <3>1, <3>2
  <2> QED BY <2>3, <2>4, <2>5
<1>8. at'[CronThread].pc # "remove" => EventsInOrder' BY <1>7 DEF EventsInOrder
<1>9. op = "stop" /\ at'[CronThread].pc = "remove" /\ at'[CronThread].id = h => EventsInOrder'
  BY <1>7 DEF EventsInOrder
<1>10. at'[CronThread].pc # "remove" /\ op # "stop" => \A j : Stopping(j) => Stopping(j)'
  BY <1>1, StillStopping
<1>11. op = "stop" /\ at'[CronThread].pc = "remove" /\ at'[CronThread].id = h =>
              \A j : Stopping(j) => Stopping(j)'
  <2> SUFFICES ASSUME op = "stop", at'[CronThread].pc = "remove", at'[CronThread].id = h,
                      NEW j, Stopping(j), j # h
               PROVE  Stopping(j)'
    BY DEF Stopping
  <2>1. PICK n \in 1..Len(queue) : queue[n].op = "stop" /\ queue[n].id = j BY <1>1, StoppingByIndex
  <2>2. n # 1 BY <1>2, <2>1
  <2>3. n - 1 \in 1..Len(queue') /\ (n - 1) + 1 = n BY <1>2, <2>2
  <2>4. queue'[n - 1] = queue[n] BY <1>2, <2>3
  <2> QED BY <2>1, <2>3, <2>4, StoppingByIndex
<1> QED BY <1>1, <1>3, <1>4, <1>6, <1>8, <1>9, <1>10, <1>11

(* What a step of the cron thread has left to show once its queue is seen  *)
(* to be in order.                                                         *)
LEMMA CronThreadKeeps ==
  ASSUME IInv, TypeOK', UNCHANGED <<rows, issued, taksMutex, funcMutex, fault>>, log \subseteq log',
         \A o \in Callers : at'[o] = at[o],
         at'[CronThread].pc \in {"idle", "remove", "called", "returned"},
         at'[CronThread].pc # "idle" => at'[CronThread].id \in issued,
         at'[CronThread].pc = "returned" => at'[CronThread].id \in Was("returned")',
         \A n \in 1..Len(queue') : queue'[n].id \in issued,
         \A j \in Ids : tasks'[j] = tasks[j] \/ tasks'[j] = Absent,
         \A j \in Ids : Stopping(j) => tasks'[j] = Absent \/ Stopping(j)',
         \A j \in Ids, o \in Callers :
           at[o].pc \in {"delete", "self"} /\ at[o].id = j /\ Stopping(j) => Stopping(j)',
         TimersOwned', EventsInOrder'
  PROVE  IInv'
<1> USE DEF IInv, TypeOK
<1>1. Threads = Callers \cup {CronThread} BY DEF Threads
<1>2. \A j \in Orderly' : j \in Orderly BY LogGrows
<1>3. Placed' BY <1>1 DEF Placed
<1>4. Issued' BY <1>1 DEF Issued
<1>5. Locked' BY <1>1 DEF Locked
<1>6. Timerless'
  <2>1. Was("resumed") \subseteq Was("resumed")' BY LogGrows
  <2>2. \A j \in Ids : tasks[j] \notin Timers => tasks'[j] \notin Timers BY CronAssumption
  <2>3. \A o \in Threads : at'[o].pc \in {"new", "resume"} => at'[o] = at[o] BY <1>1
  <2>4. \A o \in Threads : at[o].pc = "new" => at[o].id \in Ids BY DEF Placed
  <2>5. \A o \in Threads : \A x \in at[o].todo : x[1] \in Ids
    <3>1. \A o \in Threads : at[o].todo \in SUBSET (Ids \X Row) BY <1>1 DEF Locals
    <3> QED BY <3>1
  <2> QED BY <2>1, <2>2, <2>3, <2>4, <2>5 DEF Timerless
<1>7. Accounted' BY <1>1, LogGrows DEF Accounted
<1>8. FaultOnlyIfOverlapped' BY LogGrows DEF FaultOnlyIfOverlapped
<1> QED BY <1>3, <1>4, <1>5, <1>6, <1>7, <1>8

LEMMA ArmKeeps ==
  ASSUME IInv, NEW t \in Timers, NEW on \in {"no", "yes", "mute"}, Arm(t, on), UNCHANGED tasks,
         timer[t].life = "alive"
  PROVE  TimersOwned'
<1> USE DEF IInv, TypeOK
<1>1. /\ \A u \in Timers : timer'[u].life = timer[u].life /\ timer'[u].id = timer[u].id
      /\ \A u \in Timers \ {t} : timer'[u] = timer[u]
  <2>1. timer'[t] = [timer[t] EXCEPT !.armed = on] /\ timer[t] \in Timer BY DEF Arm
  <2>2. timer'[t].life = timer[t].life /\ timer'[t].id = timer[t].id BY <2>1 DEF Timer
  <2>3. \A u \in Timers \ {t} : timer'[u] = timer[u] BY DEF Arm
  <2> QED BY <2>2, <2>3
<1> QED BY <1>1 DEF TimersOwned

LEMMA DanglingEventKeeps == ASSUME IInv, TypeOK', DanglingEvent PROVE IInv'
<1> USE DEF IInv, TypeOK
<1>1. PICK op \in {"start", "stop", "change"} : NextEvent(op) BY DEF DanglingEvent
<1>2. /\ ~Alive(Head(queue).timer)
      /\ fault' = Head(queue).id
      /\ UNCHANGED <<rows, issued, tasks, timer, taksMutex, funcMutex, at, log>>
  BY DEF DanglingEvent, table, objects, locks
<1>3. /\ at[CronThread].pc = "idle" /\ Head(queue).id \in issued /\ Head(queue).id \notin Orderly
      /\ EventsInOrder' /\ \A n \in 1..Len(queue') : queue'[n].id \in issued
  BY <1>1, <1>2, EventTaken
<1>4. Placed' /\ Locked' /\ TimersOwned' BY <1>2 DEF Placed, Locked, TimersOwned
<1>5. Issued' BY <1>2, <1>3 DEF Issued
<1>6. Timerless' BY <1>2 DEF Timerless, Was
<1>7. Accounted' BY <1>2 DEF Accounted, Was
<1>8. FaultOnlyIfOverlapped' BY <1>2, <1>3 DEF FaultOnlyIfOverlapped, Orderly, Was
<1> QED BY <1>3, <1>4, <1>5, <1>6, <1>7, <1>8

LEMMA EventKeeps == ASSUME IInv, TypeOK', StartTaskTimer \/ ChangeTaskTimer PROVE IInv'
<1> USE DEF IInv, TypeOK
<1> DEFINE t == Head(queue).timer
<1>1. PICK op \in {"start", "change"}, on \in {"no", "yes", "mute"} : NextEvent(op) /\ Alive(t) /\ Arm(t, on)
  <2>1. CASE StartTaskTimer BY <2>1 DEF StartTaskTimer
  <2>2. CASE ChangeTaskTimer BY <2>2 DEF ChangeTaskTimer, RunsOn
  <2> QED BY <2>1, <2>2
<1>2. UNCHANGED <<rows, issued, tasks, taksMutex, funcMutex, at, fault, log>>
  BY DEF StartTaskTimer, ChangeTaskTimer, table, locks, bounds
<1>3. /\ at[CronThread].pc = "idle" /\ EventsInOrder'
      /\ \A n \in 1..Len(queue') : queue'[n].id \in issued
      /\ \A j : Stopping(j) => Stopping(j)'
  BY <1>1, <1>2, EventTaken
<1>4. TimersOwned' BY <1>1, <1>2, ArmKeeps DEF Alive
<1> QED BY <1>2, <1>3, <1>4, CronThreadKeeps

LEMMA StopTaskTimerKeeps == ASSUME IInv, TypeOK', StopTaskTimer PROVE IInv'
<1> USE DEF IInv, TypeOK
<1> DEFINE t == Head(queue).timer
           i == Head(queue).id
<1>1. NextEvent("stop") /\ Alive(t) /\ Arm(t, "no") BY DEF StopTaskTimer
<1>2. /\ at' = [at EXCEPT ![CronThread] = [Rest EXCEPT !.pc = "remove", !.id = i]]
      /\ UNCHANGED <<rows, issued, tasks, taksMutex, funcMutex, fault, log>>
  BY DEF StopTaskTimer, Goto, table, locks, bounds
<1>3. CronThread \in Threads /\ CronThread \notin Callers /\ Callers \subseteq Threads
  BY CronAssumption DEF Threads
<1>4. /\ at'[CronThread].pc = "remove" /\ at'[CronThread].id = i
      /\ \A o \in Callers : at'[o] = at[o]
  BY <1>2, <1>3 DEF Rest
<1>5. /\ i \in issued /\ EventsInOrder'
      /\ \A n \in 1..Len(queue') : queue'[n].id \in issued
      /\ \A j : Stopping(j) => Stopping(j)'
  BY <1>1, <1>2, <1>4, EventTaken
<1>6. TimersOwned' BY <1>1, <1>2, ArmKeeps DEF Alive
<1> QED BY <1>2, <1>4, <1>5, <1>6, CronThreadKeeps

LEMMA RemoveTaskKeeps == ASSUME IInv, TypeOK', RemoveTask PROVE IInv'
<1> USE DEF IInv, TypeOK
<1> DEFINE i == at[CronThread].id
<1>1. /\ at[CronThread].pc = "remove" /\ taksMutex = Nobody
      /\ tasks' = [tasks EXCEPT ![i] = Absent]
      /\ timer' = Without(tasks[i])
      /\ at' = [at EXCEPT ![CronThread] = Rest]
      /\ UNCHANGED <<rows, issued, queue, taksMutex, funcMutex, fault, log>>
  BY DEF RemoveTask, At, Return, table, loop, locks, bounds
<1>2. CronThread \in Threads /\ CronThread \notin Callers /\ Callers \subseteq Threads /\ Nobody \notin Threads
  BY CronAssumption DEF Threads
<1>3. at'[CronThread].pc = "idle" /\ \A o \in Callers : at'[o] = at[o]
  BY <1>1, <1>2 DEF Rest
<1>4. i \in issued BY <1>1, <1>2 DEF Placed
<1>5. tasks'[i] = Absent /\ \A j \in Ids \ {i} : tasks'[j] = tasks[j] BY <1>1, <1>4
<1>6. \A j : j # i /\ Stopping(j) => Stopping(j)' BY <1>1, <1>3 DEF Stopping
<1>7. \A o \in Callers : at[o].pc \notin {"delete", "self"} BY <1>1, <1>2 DEF Locked
<1>8. TimersOwned'
  <2>1. \A u \in Timers : u # tasks[i] => timer'[u] = timer[u] BY <1>1 DEF Without
  <2>2. ASSUME NEW u \in Timers, u = tasks[i] PROVE timer'[u].life = "deleted" /\ timer'[u].armed = "no"
    <3>1. timer'[u] = [timer[u] EXCEPT !.life = "deleted", !.armed = "no"] /\ timer[u] \in Timer
      BY <1>1, <2>2 DEF Without
    <3> QED BY <3>1 DEF Timer
  <2>3. \A u \in Timers : timer'[u].life = "alive" => timer'[u].id \in Ids /\ tasks'[timer'[u].id] = u
    <3> SUFFICES ASSUME NEW u \in Timers, timer'[u].life = "alive"
                 PROVE  timer'[u].id \in Ids /\ tasks'[timer'[u].id] = u
      OBVIOUS
    <3>1. u # tasks[i] /\ timer'[u] = timer[u] BY <2>1, <2>2
    <3>2. timer[u].id \in Ids /\ tasks[timer[u].id] = u BY <3>1 DEF TimersOwned
    <3> QED BY <1>5, <3>1, <3>2
  <2>4. \A u \in Timers : timer'[u].armed # "no" => timer'[u].life = "alive"
    BY <2>1, <2>2 DEF TimersOwned
  <2>5. \A j \in Ids : tasks'[j] \in Timers => timer'[tasks'[j]].life = "alive" /\ timer'[tasks'[j]].id = j
    <3> SUFFICES ASSUME NEW j \in Ids, tasks'[j] \in Timers
                 PROVE timer'[tasks'[j]].life = "alive" /\ timer'[tasks'[j]].id = j
      OBVIOUS
    <3>1. j # i /\ tasks'[j] = tasks[j] BY <1>5, CronAssumption
    <3>2. tasks[j] # tasks[i] BY <1>4, <3>1 DEF TimersOwned
    <3> QED BY <2>1, <3>1, <3>2 DEF TimersOwned
  <2> QED BY <2>3, <2>4, <2>5 DEF TimersOwned
<1>9. EventsInOrder'
  <2> SUFFICES ASSUME NEW j \in Orderly'
               PROVE  /\ \A n \in 1..Len(queue) : queue[n].id = j => queue[n].timer = tasks'[j] /\ tasks'[j] \in Timers
                      /\ \A n, m \in 1..Len(queue) :
                           n < m /\ queue[n].op = "stop" /\ queue[n].id = j => queue[m].id # j
    BY <1>1, <1>3 DEF EventsInOrder
  <2>1. j \in Orderly /\ j \in Ids BY <1>1 DEF Orderly, Was
  <2>2. j = i => \A n \in 1..Len(queue) : queue[n].id # j BY <1>1, <2>1 DEF EventsInOrder
  <2> QED BY <1>5, <2>1, <2>2 DEF EventsInOrder
<1>10. \A n \in 1..Len(queue') : queue'[n].id \in issued BY <1>1 DEF Issued
<1> QED BY <1>1, <1>3, <1>5, <1>6, <1>7, <1>8, <1>9, <1>10, CronThreadKeeps

LEMMA CallbackKeeps ==
  ASSUME IInv, TypeOK', NEW l, at' = [at EXCEPT ![CronThread] = l],
         at[CronThread].pc # "remove", l.pc \in {"idle", "called", "returned"},
         l.pc # "idle" => l.id \in issued,
         l.pc = "returned" => l.id \in Was("returned")',
         UNCHANGED <<rows, issued, tasks, queue, taksMutex, funcMutex, fault>>, log \subseteq log',
         TimersOwned'
  PROVE  IInv'
<1> USE DEF IInv, TypeOK
<1>1. CronThread \in Threads /\ CronThread \notin Callers /\ Callers \subseteq Threads
  BY CronAssumption DEF Threads
<1>2. at'[CronThread] = l /\ \A o \in Callers : at'[o] = at[o] BY <1>1
<1>3. \A j : Stopping(j) => Stopping(j)' BY DEF Stopping
<1>4. EventsInOrder' BY <1>2, LogGrows DEF EventsInOrder
<1>5. \A n \in 1..Len(queue') : queue'[n].id \in issued BY DEF Issued
<1> QED BY <1>2, <1>3, <1>4, <1>5, CronThreadKeeps

LEMMA TimeoutKeeps == ASSUME IInv, TypeOK', NEW t \in Timers, Timeout(t) PROVE IInv'
<1> USE DEF IInv, TypeOK
<1> DEFINE l == [Rest EXCEPT !.pc = "called", !.id = timer[t].id,
                   !.last = timer[t].single \/ (timer[t].ends /\ timer[t].id \in ended)]
<1>1. /\ at[CronThread].pc = "idle" /\ timer[t].armed = "yes" /\ Arm(t, IF timer[t].single THEN "no" ELSE "yes")
      /\ at' = [at EXCEPT ![CronThread] = l]
      /\ UNCHANGED <<rows, issued, tasks, queue, taksMutex, funcMutex, fault, log>>
  BY DEF Timeout, Idle, At, table, locks, bounds
<1>2. l.pc = "called" /\ l.id = timer[t].id BY DEF Rest
<1>3. timer[t].life = "alive" /\ timer[t].id \in issued
  BY <1>1, CronAssumption DEF TimersOwned, Issued
<1>4. (IF timer[t].single THEN "no" ELSE "yes") \in {"no", "yes", "mute"} OBVIOUS
<1>5. TimersOwned' BY <1>1, <1>3, <1>4, ArmKeeps
<1> HIDE DEF l, IInv, TypeOK
<1> QED BY <1>1, <1>2, <1>3, <1>5, CallbackKeeps

LEMMA FuncReturnsKeeps == ASSUME IInv, TypeOK', FuncReturns PROVE IInv'
<1> USE DEF IInv, TypeOK
<1> DEFINE i == at[CronThread].id
           l == [Rest EXCEPT !.pc = "returned", !.id = i]
<1>1. /\ at[CronThread].pc = "called"
      /\ log' = log \cup ({"returned"} \X {i})
      /\ at' = [at EXCEPT ![CronThread] = l] \/ at' = [at EXCEPT ![CronThread] = Rest]
      /\ UNCHANGED <<rows, issued, tasks, timer, queue, taksMutex, funcMutex, fault>>
  BY DEF FuncReturns, At, Note, Goto, Return, table, objects, loop, locks, bounds
<1>2. i \in issued
  <2>1. CronThread \in Threads BY DEF Threads
  <2> QED BY <1>1, <2>1 DEF Placed
<1>3. i \in Was("returned")' BY <1>1, <1>2 DEF Was
<1>4. Rest.pc = "idle" /\ l.pc = "returned" /\ l.id = i BY DEF Rest
<1>5. TimersOwned' BY <1>1 DEF TimersOwned
<1>6. log \subseteq log' BY <1>1
<1>7. CASE at' = [at EXCEPT ![CronThread] = l]
  <2> HIDE DEF l, IInv, TypeOK
  <2> QED BY <1>1, <1>2, <1>3, <1>4, <1>5, <1>6, <1>7, CallbackKeeps
<1>8. CASE at' = [at EXCEPT ![CronThread] = Rest]
  <2> HIDE DEF l, IInv, TypeOK
  <2> QED BY <1>1, <1>4, <1>5, <1>6, <1>8, CallbackKeeps
<1> QED BY <1>1, <1>7, <1>8

LEMMA CrashKeeps == ASSUME IInv, TypeOK', Crash PROVE IInv'
<1> USE CronAssumption DEF IInv, TypeOK
<1>1. /\ tasks' = [i \in Ids |-> Absent] /\ timer' = [t \in Timers |-> Unborn]
      /\ at' = [th \in Threads |-> Rest] /\ queue' = <<>> /\ fault' = Absent
      /\ UNCHANGED <<rows, issued>>
  BY DEF Crash, Fresh, table
<1>2. /\ \A th \in Threads : at'[th].pc = "idle" /\ at'[th].todo = {}
      /\ CronThread \in Threads /\ Callers \subseteq Threads
      /\ Len(queue') = 0
  BY <1>1 DEF Rest, Threads
<1>3. Placed' /\ Locked' /\ Accounted' BY <1>2 DEF Placed, Locked, Accounted
<1>4. Issued' BY <1>1, <1>2 DEF Issued
<1>5. TimersOwned' BY <1>1 DEF TimersOwned, Unborn
<1>6. EventsInOrder' BY <1>2 DEF EventsInOrder
<1>7. Timerless' BY <1>2 DEF Timerless
<1>8. FaultOnlyIfOverlapped' BY <1>1 DEF FaultOnlyIfOverlapped
<1> QED BY <1>3, <1>4, <1>5, <1>6, <1>7, <1>8

LEMMA StepKeeps == IInv /\ [Next]_vars => IInv'
<1> SUFFICES ASSUME IInv, [Next]_vars PROVE IInv' OBVIOUS
<1>1. TypeOK' BY TypesKept DEF IInv
<1>2. CronThread \in Threads /\ CronThread \notin Callers BY CronAssumption DEF Threads
<1>3. CASE UNCHANGED vars
  BY <1>1, <1>3, UntouchedKeeps DEF vars, table, objects, loop, locks, bounds
<1>4. ASSUME NEW th \in Threads, NEW n \in Names, AddFunc(th, n) PROVE IInv'
  BY <1>1, <1>4, UntouchedKeeps DEF AddFunc, table, loop, locks
<1>5. ASSUME NEW th \in Threads, NEW i \in Ids, StopTask(th, i) PROVE IInv'
  <2>1. /\ PostStop(th, i, "delete", {"dropped"}) /\ i \in issued /\ fault = Absent /\ at[th].pc # "remove"
        /\ {"dropped"} \in SUBSET Kinds
    BY <1>5 DEF StopTask, Call, At, Kinds
  <2> QED BY <1>1, <2>1, PostStopKeeps
<1>6. ASSUME NEW th \in Threads, StopFound(th) PROVE IInv'
  <2>1. /\ PostStop(th, at[th].id, "delete", {"dropped"}) /\ at[th].id \in issued /\ fault = Absent
        /\ at[th].pc # "remove" /\ {"dropped"} \in SUBSET Kinds
    BY <1>6 DEF StopFound, At, Kinds, IInv, Placed
  <2> QED BY <1>1, <2>1, PostStopKeeps
<1>7. CASE StopAfterLastCall
  <2>1. /\ PostStop(CronThread, at[CronThread].id, "delete", {}) /\ at[CronThread].id \in issued /\ fault = Absent
        /\ at[CronThread].pc # "remove" /\ {} \in SUBSET Kinds
        /\ at[CronThread].id \in Was("returned") \cup Was("dropped")
    BY <1>2, <1>7 DEF StopAfterLastCall, At, IInv, Placed, Accounted
  <2> QED BY <1>1, <1>2, <2>1, PostStopKeeps
<1>8. CASE SelfStop
  <2>1. /\ PostStop(CronThread, at[CronThread].id, "self", {"dropped"}) /\ at[CronThread].id \in issued
        /\ fault = Absent /\ at[CronThread].pc # "remove" /\ {"dropped"} \in SUBSET Kinds
    BY <1>2, <1>8 DEF SelfStop, At, Kinds, IInv, Placed
  <2> QED BY <1>1, <1>2, <2>1, PostStopKeeps
<1>9. CASE ActivateTimers
  BY <1>1, <1>9, UntouchedKeeps DEF ActivateTimers, table, objects, locks, bounds
<1>10. ASSUME NEW t \in Timers, TimerGone(t) PROVE IInv'
  BY <1>1, <1>10, UntouchedKeeps DEF TimerGone, table, objects, locks, bounds
<1>11. ASSUME NEW i \in Ids, Elapse(i) PROVE IInv'
  BY <1>1, <1>11, UntouchedKeeps DEF Elapse, objects, loop, locks, bounds
<1> QED
  BY <1>1, <1>3, <1>4, <1>5, <1>6, <1>7, <1>8, <1>9, <1>10, <1>11,
     StartTaskKeeps, NewTaskKeeps, FindByNameKeeps, DeleteRowKeeps, SetTaskTimeKeeps, ResumeTasksKeeps,
     ResumeRowKeeps, ResumeEndKeeps, DanglingEventKeeps, EventKeeps, StopTaskTimerKeeps, RemoveTaskKeeps,
     TimeoutKeeps, FuncReturnsKeeps, CrashKeeps
  DEF Next, Enter, Continue, CronStep

(* Every value of the scheduler's state has its shape, after any history.  *)
THEOREM CronTypes == Spec => []TypeOK
<1>1. IInv => TypeOK BY DEF IInv
<1> QED BY InitEstablishes, StepKeeps, <1>1, PTL DEF Spec

(* setTaskTime() and the slots of the cron thread use a destroyed or a     *)
(* null timer only for a task whose own calls overlapped, or which was     *)
(* resumed while m_tasks had it, in this very process.                     *)
THEOREM OnlyOverlapsFault == Spec => []FaultOnlyIfOverlapped
<1>1. IInv => FaultOnlyIfOverlapped BY DEF IInv
<1> QED BY InitEstablishes, StepKeeps, <1>1, PTL DEF Spec

LEMMA RowDropped ==
  ASSUME IInv, [Next]_vars, NEW i \in Ids, rows[i] # NoRow, rows'[i] = NoRow
  PROVE  i \in Was("returned") \cup Was("dropped")'
<1> USE DEF IInv, TypeOK
<1>1. ASSUME NEW th \in Threads, DeleteRow(th) PROVE i \in Was("returned") \cup Was("dropped")'
  <2>1. i = at[th].id /\ at[th].pc \in {"delete", "self"} /\ log' = log
    BY <1>1 DEF DeleteRow, Delete, At
  <2> QED BY <2>1 DEF Accounted, Was
<1>2. ASSUME NEW th \in Threads, ResumeRow(th) PROVE i \in Was("returned") \cup Was("dropped")'
  <2>1. PICK x \in at[th].todo : Delete(x[1]) /\ Note({"dropped"}, x[1])
    BY <1>2 DEF ResumeRow
  <2>2. i = x[1] BY <2>1 DEF Delete
  <2> QED BY <2>1, <2>2 DEF Note, Was
<1>3. ASSUME NEW th \in Threads, NEW r \in Row, StartTask(th, r) PROVE FALSE
  BY <1>3, CronAssumption DEF StartTask, Row
<1>4. (\A th \in Threads : ~DeleteRow(th) /\ ~ResumeRow(th) /\ \A r \in Row : ~StartTask(th, r))
        => rows' = rows
  BY DEF Next, Enter, Continue, CronStep, vars, table, objects, AddFunc, NewTask, StopTask, FindByName,
     StopFound, PostStop, SetTaskTime, ResumeTasks, ResumeEnd, ActivateTimers, DanglingEvent, StartTaskTimer,
     StopTaskTimer, RemoveTask, ChangeTaskTimer, Timeout, TimerGone, SelfStop, FuncReturns, StopAfterLastCall,
     Elapse, Crash
<1> QED BY <1>1, <1>2, <1>3, <1>4

(* Whatever crashes in between, the row of a single shot goes only after   *)
(* its function has run to its end, or because somebody stopped the task   *)
(* or its end time had passed when it was resumed.                         *)
THEOREM ShotsNotLost == Spec => NoShotLost
<1>1. IInv /\ [Next]_vars =>
        [\A i \in Ids : rows[i] # NoRow /\ rows'[i] = NoRow /\ rows[i].single =>
           i \in Was("returned") \cup Was("dropped")']_vars
  BY RowDropped
<1> QED BY InitEstablishes, StepKeeps, <1>1, PTL DEF Spec, NoShotLost

-----------------------------------------------------------------------------
(* The second half of the invariant: why no timer is left without a row,   *)
(* also when stops and new times of a task overlap.                        *)

(* Events name the task their timer was made for, and the cron thread only *)
(* removes a task that has a timer.                                        *)
EventsNamed ==
  /\ \A n \in 1..Len(queue) : queue[n].timer \in Timers =>
       timer[queue[n].timer].life # "unused" /\ timer[queue[n].timer].id = queue[n].id
  /\ at[CronThread].pc = "remove" => tasks[at[CronThread].id] \in Timers

Deleting(th, i) == at[th].pc \in {"delete", "self"} /\ at[th].id = i

(* Whoever posts a stop also deletes the row before it lets go of the lock;*)
(* so a task that has its row and no entry in m_tasks is in no event.      *)
StopsDelete ==
  \A i \in Ids :
    /\ Stopping(i) => rows[i] = NoRow \/ \E th \in Threads : Deleting(th, i)
    /\ \A th \in Threads : Deleting(th, i) => fault # Absent \/ Stopping(i)
    /\ tasks[i] = Absent => rows[i] = NoRow \/ \A n \in 1..Len(queue) : queue[n].id # i

(* Thread th is going to make a timer for task i.                          *)
Awaited(th, i) ==
  \/ at[th].pc = "new" /\ at[th].id = i
  \/ at[th].pc = "resume" /\ \E x \in at[th].todo : x[1] = i

(* A task that awaits its timer has its row, or has been stopped too early:*)
(* then the stop carries a null pointer and is never carried out.          *)
Unmade ==
  \A i \in Ids \ Was("resumed"), th \in Threads : Awaited(th, i) =>
    /\ rows[i] # NoRow \/ Stopping(i) \/ fault # Absent
    /\ \A n \in 1..Len(queue) : queue[n].id = i => queue[n].timer = Null

RInv == EventsNamed /\ StopsDelete /\ Unmade /\ TimerHasRow

LEMMA RowsUntouched ==
  ASSUME RInv, UNCHANGED <<rows, tasks, queue, fault>>,
         \A u \in Timers : timer'[u].life = timer[u].life /\ timer'[u].id = timer[u].id,
         Was("resumed") \subseteq Was("resumed")',
         \A th \in Threads, i \in Ids : (Awaited(th, i)' => Awaited(th, i)) /\ (Deleting(th, i)' <=> Deleting(th, i)),
         at'[CronThread].pc = "remove" <=> at[CronThread].pc = "remove",
         at[CronThread].pc = "remove" => at'[CronThread].id = at[CronThread].id
  PROVE  RInv'
<1> USE DEF RInv
<1>1. \A i : Stopping(i)' <=> Stopping(i) BY DEF Stopping
<1>2. EventsNamed' BY DEF EventsNamed
<1>3. StopsDelete' BY <1>1 DEF StopsDelete
<1>4. Unmade' BY <1>1 DEF Unmade
<1>5. TimerHasRow' BY <1>1 DEF TimerHasRow
<1> QED BY <1>2, <1>3, <1>4, <1>5

LEMMA StopsBack ==
  ASSUME TypeOK, TypeOK', NEW S,
         \A n \in 1..Len(queue') : queue'[n].op = "stop" =>
           queue'[n].id \in S \/ \E m \in 1..Len(queue) : queue'[n] = queue[m],
         at'[CronThread].pc = "remove" =>
           at'[CronThread].id \in S \/ (at[CronThread].pc = "remove" /\ at'[CronThread].id = at[CronThread].id)
  PROVE  \A j : Stopping(j)' => Stopping(j) \/ j \in S
<1>1. queue \in Seq(Event) /\ queue' \in Seq(Event) BY DEF TypeOK
<1>2. \A j : /\ Stopping(j) <=> \/ \E n \in 1..Len(queue) : queue[n].op = "stop" /\ queue[n].id = j
                                \/ at[CronThread].pc = "remove" /\ at[CronThread].id = j
             /\ Stopping(j)' <=> \/ \E n \in 1..Len(queue') : queue'[n].op = "stop" /\ queue'[n].id = j
                                 \/ at'[CronThread].pc = "remove" /\ at'[CronThread].id = j
  BY <1>1, StoppingByIndex
<1> QED BY <1>2

(* No event and no removal by the cron thread that asks for a stop is new.   *)
LEMMA NoNewStops ==
  ASSUME TypeOK, TypeOK',
         \A n \in 1..Len(queue') : queue'[n].op = "stop" => \E m \in 1..Len(queue) : queue'[n] = queue[m],
         at'[CronThread].pc = "remove" => at[CronThread].pc = "remove" /\ at'[CronThread].id = at[CronThread].id
  PROVE  \A j : Stopping(j)' => Stopping(j)
<1>1. queue \in Seq(Event) /\ queue' \in Seq(Event) BY DEF TypeOK
<1>2. \A j : /\ Stopping(j) <=> \/ \E n \in 1..Len(queue) : queue[n].op = "stop" /\ queue[n].id = j
                                \/ at[CronThread].pc = "remove" /\ at[CronThread].id = j
             /\ Stopping(j)' <=> \/ \E n \in 1..Len(queue') : queue'[n].op = "stop" /\ queue'[n].id = j
                                 \/ at'[CronThread].pc = "remove" /\ at'[CronThread].id = j
  BY <1>1, StoppingByIndex
<1> QED BY <1>2

LEMMA RowsPosted ==
  ASSUME IInv, IInv', RInv, NEW th \in Threads, NEW i \in issued, NEW label \in {"delete", "self"},
         NEW kinds, PostStop(th, i, label, kinds), at[th].pc # "remove"
  PROVE  RInv'
<1> USE DEF IInv, TypeOK, RInv
<1>1. /\ taksMutex = Nobody
      /\ tasks' = [tasks EXCEPT ![i] = Found(i)]
      /\ queue' = Append(queue, [op |-> "stop", timer |-> Found(i), id |-> i, past |-> FALSE])
      /\ log \subseteq log'
      /\ at' = [at EXCEPT ![th].pc = label, ![th].id = i]
      /\ UNCHANGED <<rows, timer, fault>>
  BY DEF PostStop, Lock, Post, Note, table
<1>2. /\ at'[th].pc = label /\ at'[th].id = i
      /\ \A o \in Threads \ {th} : at'[o] = at[o]
      /\ CronThread \in Threads /\ Nobody \notin Threads
  BY <1>1, CronAssumption DEF Threads
<1>3. \A o \in Threads : at[o].pc \notin {"delete", "self"} BY <1>1, <1>2 DEF Locked
<1>4. /\ \A j \in Ids \ {i} : tasks'[j] = tasks[j]
      /\ tasks'[i] = Found(i) /\ Found(i) # Absent
      /\ Found(i) \in Timers => Found(i) = tasks[i]
      /\ tasks[i] \notin Timers => Found(i) = Null
  BY <1>1, CronAssumption DEF Found
<1>5. \A n \in 1..Len(queue') :
        \/ n \in 1..Len(queue) /\ queue'[n] = queue[n]
        \/ queue'[n].op = "stop" /\ queue'[n].timer = Found(i) /\ queue'[n].id = i
  <2>1. /\ \A n \in 1..Len(queue') : (n \in 1..Len(queue) /\ queue'[n] = queue[n]) \/ n = Len(queue) + 1
        /\ queue'[Len(queue) + 1] = [op |-> "stop", timer |-> Found(i), id |-> i, past |-> FALSE]
    BY <1>1, Appended
  <2>2. /\ queue'[Len(queue) + 1].op = "stop"
        /\ queue'[Len(queue) + 1].timer = Found(i) /\ queue'[Len(queue) + 1].id = i
    BY <2>1
  <2> HIDE DEF IInv, TypeOK
  <2> QED BY <2>1, <2>2
<1>6. /\ \A j : Stopping(j) => Stopping(j)'
      /\ \A j : Stopping(j)' => Stopping(j) \/ j = i
      /\ Stopping(i)'
  <2>1. at[CronThread].pc = "remove" => th # CronThread OBVIOUS
  <2>2. \A j : Stopping(j) => Stopping(j)' BY <1>1, <1>2, <2>1, StillStopping
  <2>3. at'[CronThread].pc = "remove" => at'[CronThread] = at[CronThread] BY <1>2
  <2>4. \A j : Stopping(j)' => Stopping(j) \/ j \in {i} BY <1>5, <2>3, StopsBack
  <2>5. /\ Len(queue) + 1 \in 1..Len(queue') /\ queue'[Len(queue) + 1].op = "stop"
        /\ queue'[Len(queue) + 1].id = i
    BY <1>1, Appended
  <2>6. Stopping(i)' BY <2>5, StoppingByIndex
  <2> QED BY <2>2, <2>4, <2>6
<1>7. EventsNamed'
  <2>1. tasks[i] \in Timers => timer[tasks[i]].life = "alive" /\ timer[tasks[i]].id = i BY DEF TimersOwned
  <2>2. at'[CronThread].pc = "remove" => at'[CronThread] = at[CronThread] BY <1>2
  <2>3. \A j \in Ids : tasks[j] \in Timers => tasks'[j] \in Timers BY <1>4, CronAssumption DEF Found
  <2>4. at[CronThread].pc = "remove" => at[CronThread].id \in Ids BY <1>2 DEF Placed
  <2> QED BY <1>1, <1>4, <1>5, <2>1, <2>2, <2>3, <2>4 DEF EventsNamed
<1>8. StopsDelete'
  <2> SUFFICES ASSUME NEW j \in Ids
               PROVE  /\ Stopping(j)' => rows[j] = NoRow \/ \E o \in Threads : Deleting(o, j)'
                      /\ \A o \in Threads : Deleting(o, j)' => Stopping(j)'
                      /\ tasks'[j] = Absent => rows[j] = NoRow \/ \A n \in 1..Len(queue') : queue'[n].id # j
    BY <1>1 DEF StopsDelete
  <2>1. Deleting(th, i)' BY <1>2 DEF Deleting
  <2>2. \A o \in Threads : ~Deleting(o, j) BY <1>3 DEF Deleting
  <2>3. Stopping(j)' => rows[j] = NoRow \/ \E o \in Threads : Deleting(o, j)'
    BY <1>6, <2>1, <2>2 DEF StopsDelete
  <2>4. \A o \in Threads : Deleting(o, j)' => j = i BY <1>2, <1>3 DEF Deleting
  <2>5. tasks'[j] = Absent => rows[j] = NoRow \/ \A n \in 1..Len(queue') : queue'[n].id # j
    BY <1>4, <1>5 DEF StopsDelete
  <2> QED BY <1>6, <2>3, <2>4, <2>5
<1>9. Was("resumed") \subseteq Was("resumed")' BY <1>1, LogGrows
<1>10. Unmade'
  <2> SUFFICES ASSUME NEW j \in Ids \ Was("resumed"), NEW o \in Threads, Awaited(o, j)'
               PROVE  /\ rows[j] # NoRow \/ Stopping(j)' \/ fault # Absent
                      /\ \A n \in 1..Len(queue') : queue'[n].id = j => queue'[n].timer = Null
    BY <1>1, <1>9 DEF Unmade
  <2>1. at'[o] = at[o] /\ Awaited(o, j) BY <1>2 DEF Awaited
  <2>2. j = i => Found(i) = Null BY <1>4, <2>1 DEF Awaited, Timerless
  <2>3. /\ rows[j] # NoRow \/ Stopping(j) \/ fault # Absent
        /\ \A n \in 1..Len(queue) : queue[n].id = j => queue[n].timer = Null
    BY <2>1 DEF Unmade
  <2> HIDE DEF IInv, TypeOK, RInv
  <2> QED BY <1>5, <1>6, <2>2, <2>3
<1>11. TimerHasRow' BY <1>1, <1>4, <1>6, <1>9 DEF TimerHasRow
<1> QED BY <1>7, <1>8, <1>10, <1>11

LEMMA RowsTimerAdded ==
  ASSUME IInv, IInv', RInv, NEW i \in Ids, NEW r \in Row, AddTimer(i, r),
         UNCHANGED <<rows, fault, log>>, at'[CronThread] = at[CronThread],
         i \in Was("resumed") \/ rows[i] # NoRow \/ Stopping(i) \/ fault # Absent,
         \A th \in Threads, j \in Ids : (Awaited(th, j)' => Awaited(th, j) /\ j # i) /\ (Deleting(th, j)' <=> Deleting(th, j))
  PROVE  RInv'
<1> USE DEF IInv, TypeOK, RInv
<1>1. PICK t \in Timers :
        /\ timer[t].life = "unused"
        /\ timer' = [Without(tasks[i]) EXCEPT ![t] =
             [life |-> "alive", id |-> i, single |-> r.single, ends |-> r.ends, armed |-> "no"]]
        /\ tasks' = [tasks EXCEPT ![i] = t]
        /\ queue' = Append(queue, [op |-> "start", timer |-> t, id |-> i, past |-> FALSE])
  BY DEF AddTimer, Post
<1>2. /\ timer'[t].life = "alive" /\ timer'[t].id = i
      /\ \A v \in Timers \ {t} : timer'[v].id = timer[v].id /\ timer'[v].life \in {timer[v].life, "deleted"}
  <2>1. ASSUME NEW v \in Timers \ {t}
        PROVE timer'[v].id = timer[v].id /\ timer'[v].life \in {timer[v].life, "deleted"}
    <3>1. timer'[v] = timer[v] \/ timer'[v] = [timer[v] EXCEPT !.life = "deleted", !.armed = "no"]
      BY <1>1 DEF Without
    <3>2. timer[v] \in Timer OBVIOUS
    <3> QED BY <3>1, <3>2 DEF Timer
  <2>2. timer'[t] = [life |-> "alive", id |-> i, single |-> r.single, ends |-> r.ends, armed |-> "no"]
    BY <1>1 DEF Without
  <2> HIDE DEF IInv, TypeOK, RInv
  <2> QED BY <2>1, <2>2
<1>3. /\ tasks'[i] = t /\ t # Absent
      /\ \A j \in Ids \ {i} : tasks'[j] = tasks[j]
  BY <1>1, CronAssumption
<1>4. \A n \in 1..Len(queue') :
        \/ n \in 1..Len(queue) /\ queue'[n] = queue[n]
        \/ queue'[n].op = "start" /\ queue'[n].timer = t /\ queue'[n].id = i
  <2>1. /\ \A n \in 1..Len(queue') : (n \in 1..Len(queue) /\ queue'[n] = queue[n]) \/ n = Len(queue) + 1
        /\ queue'[Len(queue) + 1] = [op |-> "start", timer |-> t, id |-> i, past |-> FALSE]
    BY <1>1, Appended
  <2>2. /\ queue'[Len(queue) + 1].op = "start"
        /\ queue'[Len(queue) + 1].timer = t /\ queue'[Len(queue) + 1].id = i
    BY <2>1
  <2> HIDE DEF IInv, TypeOK, RInv
  <2> QED BY <2>1, <2>2
<1>5. \A j : Stopping(j)' <=> Stopping(j)
  <2>1. \A j : Stopping(j) => Stopping(j)' BY <1>1, StillStopping
  <2>2. at'[CronThread].pc = "remove" => at[CronThread].pc = "remove" /\ at'[CronThread].id = at[CronThread].id
    BY <1>1
  <2>3. \A n \in 1..Len(queue') : queue'[n].op = "stop" => \E m \in 1..Len(queue) : queue'[n] = queue[m]
    BY <1>4
  <2>4. \A j : Stopping(j)' => Stopping(j) BY <2>2, <2>3, NoNewStops
  <2> QED BY <2>1, <2>4
<1>6. EventsNamed'
  <2>1. \A n \in 1..Len(queue) : queue[n].timer \in Timers => queue[n].timer # t BY <1>1 DEF EventsNamed
  <2>2. at[CronThread].pc = "remove" => at[CronThread].id \in Ids
    BY DEF Placed, Threads
  <2>3. ASSUME NEW n \in 1..Len(queue'), queue'[n].timer \in Timers
        PROVE  timer'[queue'[n].timer].life # "unused" /\ timer'[queue'[n].timer].id = queue'[n].id
    <3>1. CASE n \in 1..Len(queue) /\ queue'[n] = queue[n]
      <4>1. /\ queue[n].timer \in Timers \ {t}
            /\ timer[queue[n].timer].life # "unused" /\ timer[queue[n].timer].id = queue[n].id
        BY <2>1, <2>3, <3>1 DEF EventsNamed
      <4> HIDE DEF IInv, TypeOK, RInv
      <4> QED BY <1>2, <3>1, <4>1
    <3>2. CASE queue'[n].timer = t /\ queue'[n].id = i BY <1>2, <3>2
    <3> QED BY <1>4, <3>1, <3>2
  <2>4. at[CronThread].pc = "remove" => tasks'[at[CronThread].id] \in Timers
    BY <1>3, <2>2 DEF EventsNamed
  <2> QED BY <2>3, <2>4 DEF EventsNamed
<1>7. StopsDelete'
  <2> SUFFICES ASSUME NEW j \in Ids
               PROVE  /\ Stopping(j) => rows[j] = NoRow \/ \E o \in Threads : Deleting(o, j)
                      /\ \A o \in Threads : Deleting(o, j) => fault # Absent \/ Stopping(j)
                      /\ tasks'[j] = Absent => rows[j] = NoRow \/ \A n \in 1..Len(queue') : queue'[n].id # j
    BY <1>5 DEF StopsDelete
  <2>1. tasks'[j] = Absent => j # i /\ tasks[j] = Absent BY <1>3
  <2>2. tasks[j] = Absent => rows[j] = NoRow \/ \A n \in 1..Len(queue) : queue[n].id # j BY DEF StopsDelete
  <2>3. tasks'[j] = Absent => rows[j] = NoRow \/ \A n \in 1..Len(queue') : queue'[n].id # j
    BY <1>4, <2>1, <2>2
  <2> QED BY <2>3 DEF StopsDelete
<1>8. Unmade' BY <1>4, <1>5 DEF Unmade, Was
<1>9. TimerHasRow' BY <1>3, <1>5 DEF TimerHasRow, Was
<1> QED BY <1>6, <1>7, <1>8, <1>9

LEMMA RowsStarted ==
  ASSUME IInv, IInv', RInv, NEW th \in Threads, NEW r \in Row, StartTask(th, r) PROVE RInv'
<1> USE DEF IInv, TypeOK, RInv
<1>1. PICK i \in Ids \ issued :
       /\ rows' = [rows EXCEPT ![i] = r]
       /\ at' = [at EXCEPT ![th] = [Rest EXCEPT !.pc = "new", !.id = i, !.row = r]]
  BY DEF StartTask
<1>2. /\ th \in Callers /\ at[th].pc = "idle" /\ UNCHANGED <<tasks, timer, queue, fault, log>>
      /\ th # CronThread /\ CronThread \in Threads
  BY CronAssumption DEF StartTask, Call, At, loop, Threads
<1>3. /\ at'[th].pc = "new" /\ at'[th].id = i
      /\ \A o \in Threads \ {th} : at'[o] = at[o]
  BY <1>1 DEF Rest
<1>4. \A j : Stopping(j)' <=> Stopping(j) BY <1>2, <1>3 DEF Stopping
<1>5. /\ \A n \in 1..Len(queue) : queue[n].id # i
      /\ ~Stopping(i) /\ tasks[i] = Absent
      /\ rows'[i] # NoRow /\ \A j \in Ids \ {i} : rows'[j] = rows[j]
  <2>1. \A n \in 1..Len(queue) : queue[n].id # i BY DEF Issued
  <2>2. at[CronThread].pc = "remove" => at[CronThread].id # i BY <1>2 DEF Placed
  <2>3. r # NoRow BY CronAssumption DEF Row
  <2> QED BY <1>1, <2>1, <2>2, <2>3, StoppingByIndex DEF Issued
<1>6. \A o \in Threads, j \in Ids : Deleting(o, j)' <=> Deleting(o, j) BY <1>2, <1>3 DEF Deleting
<1>7. \A o \in Threads, j \in Ids : Awaited(o, j)' => j = i \/ Awaited(o, j) BY <1>3 DEF Awaited
<1>8. EventsNamed' BY <1>2, <1>3 DEF EventsNamed
<1>9. StopsDelete' BY <1>2, <1>4, <1>5, <1>6 DEF StopsDelete
<1>10. Unmade' BY <1>2, <1>4, <1>5, <1>7 DEF Unmade, Was
<1>11. TimerHasRow' BY <1>2, <1>4, <1>5, CronAssumption DEF TimerHasRow, Was
<1> QED BY <1>8, <1>9, <1>10, <1>11

LEMMA RowsResumed ==
  ASSUME IInv, IInv', RInv, NEW th \in Threads, ResumeTasks(th) PROVE RInv'
<1> USE DEF IInv, TypeOK, RInv
<1> DEFINE found == {i \in Ids : rows[i] # NoRow}
<1>1. /\ th \in Callers /\ at[th].pc = "idle"
      /\ at' = [at EXCEPT ![th] = [Rest EXCEPT !.pc = "resume", !.todo = {<<i, rows[i]>> : i \in found}]]
      /\ log' = log \cup ({"resumed"} \X {i \in found : tasks[i] # Absent})
      /\ UNCHANGED <<rows, tasks, timer, queue, fault>>
  BY DEF ResumeTasks, Call, At, table, objects, loop
<1>2. /\ at'[th].pc = "resume" /\ at'[th].todo = {<<i, rows[i]>> : i \in found}
      /\ \A o \in Threads \ {th} : at'[o] = at[o]
      /\ th # CronThread /\ CronThread \in Threads
  BY <1>1, CronAssumption DEF Rest, Threads
<1>3. \A j : Stopping(j)' <=> Stopping(j) BY <1>1, <1>2 DEF Stopping
<1>4. \A o \in Threads, j \in Ids : Deleting(o, j)' <=> Deleting(o, j) BY <1>1, <1>2 DEF Deleting
<1>5. Was("resumed") \subseteq Was("resumed")' BY <1>1, LogGrows
<1>6. EventsNamed' BY <1>1, <1>2 DEF EventsNamed
<1>7. StopsDelete' BY <1>1, <1>3, <1>4 DEF StopsDelete
<1>8. Unmade'
  <2> SUFFICES ASSUME NEW j \in Ids, j \notin Was("resumed")', NEW o \in Threads, Awaited(o, j)'
               PROVE  /\ rows[j] # NoRow \/ Stopping(j) \/ fault # Absent
                      /\ \A n \in 1..Len(queue) : queue[n].id = j => queue[n].timer = Null
    BY <1>1, <1>3 DEF Unmade
  <2>1. CASE o # th
    <3>1. Awaited(o, j) /\ j \notin Was("resumed") BY <1>2, <1>5, <2>1 DEF Awaited
    <3> QED BY <3>1 DEF Unmade
  <2>2. CASE o = th
    <3>1. j \in found BY <1>2, <2>2 DEF Awaited
    <3>2. tasks[j] = Absent BY <1>1, <3>1 DEF Was
    <3> QED BY <3>1, <3>2 DEF StopsDelete
  <2> QED BY <2>1, <2>2
<1>9. TimerHasRow' BY <1>1, <1>3, <1>5 DEF TimerHasRow
<1> QED BY <1>6, <1>7, <1>8, <1>9

LEMMA RowsResumeRow ==
  ASSUME IInv, IInv', RInv, NEW th \in Threads, ResumeRow(th) PROVE RInv'
<1> USE DEF IInv, TypeOK, RInv
<1>1. PICK x \in at[th].todo :
          /\ at' = [at EXCEPT ![th].todo = at[th].todo \ {x}]
          /\ \/ UNCHANGED <<rows, tasks, timer, queue, log>>
             \/ Delete(x[1]) /\ log \subseteq log' /\ UNCHANGED <<tasks, timer, queue>>
                /\ Was("resumed") \subseteq Was("resumed")'
             \/ AddTimer(x[1], x[2]) /\ UNCHANGED <<rows, log>>
  BY DEF ResumeRow, Note, Was
<1>2. at[th].pc = "resume" /\ UNCHANGED fault BY DEF ResumeRow, At, bounds
<1> DEFINE i == x[1]
<1>3. at[th] \in Locals OBVIOUS
<1>4. i \in Ids /\ x[2] \in Row BY <1>1, <1>3 DEF Locals
<1>5. /\ at'[th].pc = "resume" /\ at'[th].todo = at[th].todo \ {x} /\ at'[th].id = at[th].id
      /\ \A o \in Threads \ {th} : at'[o] = at[o]
  BY <1>1, <1>2, <1>3 DEF Locals
<1>6. th \in Callers /\ CronThread \in Threads /\ at'[CronThread] = at[CronThread]
  BY <1>2, <1>5, CronAssumption DEF Placed, Threads
<1>7. \A o \in Threads \ {th} : at[o].pc \notin {"new", "resume"} BY <1>2 DEF Locked
<1>8. \A o \in Threads, j \in Ids : (Awaited(o, j)' => Awaited(o, j) /\ j # i) /\ (Deleting(o, j)' <=> Deleting(o, j))
  <2>1. \A y \in at'[th].todo : y \in at[th].todo /\ y[1] # i BY <1>1, <1>2, <1>5 DEF Timerless
  <2>2. \A o \in Threads, j \in Ids : Awaited(o, j)' => Awaited(o, j) /\ j # i
    BY <1>2, <1>5, <1>7, <2>1 DEF Awaited
  <2>3. \A o \in Threads, j \in Ids : Deleting(o, j)' <=> Deleting(o, j) BY <1>2, <1>5 DEF Deleting
  <2> QED BY <2>2, <2>3
<1>9. Awaited(th, i) BY <1>1, <1>2 DEF Awaited
<1>10. CASE UNCHANGED <<rows, tasks, timer, queue, log>>
  <2> HIDE DEF RInv, IInv, TypeOK
  <2>1. Was("resumed") \subseteq Was("resumed")' BY <1>10 DEF Was
  <2> QED BY <1>2, <1>6, <1>8, <1>10, <2>1, RowsUntouched
<1>11. CASE Delete(i) /\ UNCHANGED <<tasks, timer, queue>> /\ Was("resumed") \subseteq Was("resumed")'
  <2>1. rows'[i] = NoRow /\ \A j \in Ids \ {i} : rows'[j] = rows[j] BY <1>4, <1>11 DEF Delete
  <2>2. \A j : Stopping(j)' <=> Stopping(j) BY <1>6, <1>11 DEF Stopping
  <2>3. EventsNamed' BY <1>6, <1>11 DEF EventsNamed
  <2>4. StopsDelete' BY <1>2, <1>8, <1>11, <2>1, <2>2 DEF StopsDelete
  <2>5. Unmade' BY <1>2, <1>8, <1>11, <2>1, <2>2 DEF Unmade
  <2>6. i \in Was("resumed") \/ tasks[i] \notin Timers BY <1>1, <1>2 DEF Timerless
  <2>7. TimerHasRow' BY <1>2, <1>11, <2>1, <2>2, <2>6 DEF TimerHasRow
  <2> QED BY <2>3, <2>4, <2>5, <2>7
<1>12. CASE AddTimer(i, x[2]) /\ UNCHANGED <<rows, log>>
  <2>1. i \in Was("resumed") \/ rows[i] # NoRow \/ Stopping(i) \/ fault # Absent
    BY <1>4, <1>9 DEF Unmade
  <2> HIDE DEF RInv, IInv, TypeOK
  <2> QED BY <1>2, <1>4, <1>6, <1>8, <1>12, <2>1, RowsTimerAdded
<1> QED BY <1>1, <1>10, <1>11, <1>12

LEMMA RowsNewTask ==
  ASSUME IInv, IInv', RInv, NEW th \in Threads, NewTask(th) PROVE RInv'
<1> USE DEF IInv, TypeOK, RInv
<1> DEFINE i == at[th].id
<1>1. /\ at[th].pc = "new" /\ AddTimer(i, at[th].row)
      /\ at' = [at EXCEPT ![th] = Rest]
      /\ UNCHANGED <<rows, fault, log>>
  BY DEF NewTask, At, Return, table, bounds
<1>2. i \in Ids /\ at[th].row \in Row BY <1>1 DEF Placed
<1>3. th \in Callers /\ CronThread \in Threads /\ th # CronThread
  BY <1>1, CronAssumption DEF Placed, Threads
<1>4. at'[th].pc = "idle" /\ \A o \in Threads \ {th} : at'[o] = at[o] BY <1>1 DEF Rest
<1>5. \A o \in Threads \ {th} : at[o].pc \notin {"new", "resume"} BY <1>1 DEF Locked
<1>6. \A o \in Threads, j \in Ids : (Awaited(o, j)' => Awaited(o, j) /\ j # i) /\ (Deleting(o, j)' <=> Deleting(o, j))
  BY <1>1, <1>4, <1>5 DEF Awaited, Deleting
<1>7. Awaited(th, i) BY <1>1 DEF Awaited
<1>8. i \in Was("resumed") \/ rows[i] # NoRow \/ Stopping(i) \/ fault # Absent
  BY <1>2, <1>7 DEF Unmade
<1> HIDE DEF RInv, IInv, TypeOK
<1> QED BY <1>1, <1>2, <1>3, <1>4, <1>6, <1>8, RowsTimerAdded

LEMMA RowsDeleted ==
  ASSUME IInv, IInv', RInv, NEW th \in Threads, DeleteRow(th) PROVE RInv'
<1> USE DEF IInv, TypeOK, RInv
<1> DEFINE i == at[th].id
<1>1. /\ at[th].pc \in {"delete", "self"} /\ fault = Absent
      /\ rows' = [rows EXCEPT ![i] = NoRow]
      /\ at' = [at EXCEPT ![th].pc = "called"] \/ at' = [at EXCEPT ![th] = Rest]
      /\ UNCHANGED <<tasks, timer, queue, fault, log>>
  BY DEF DeleteRow, At, Delete, Return, objects, loop, bounds
<1>2. i \in Ids /\ CronThread \in Threads BY <1>1 DEF Placed, Threads
<1>3. at'[th].pc \in {"idle", "called"} /\ \A o \in Threads \ {th} : at'[o] = at[o]
  <2>1. CASE at' = [at EXCEPT ![th].pc = "called"]
    <3>1. at'[th] = [at[th] EXCEPT !.pc = "called"] /\ at[th] \in Locals BY <2>1
    <3> QED BY <2>1, <3>1 DEF Locals
  <2>2. CASE at' = [at EXCEPT ![th] = Rest] BY <2>2 DEF Rest
  <2> QED BY <1>1, <2>1, <2>2
<1>4. \A o \in Threads \ {th} : at[o].pc \notin {"delete", "self"} BY <1>1 DEF Locked
<1>5. \A j : Stopping(j)' <=> Stopping(j) BY <1>1, <1>2, <1>3 DEF Stopping
<1>6. Stopping(i)
  <2>1. Deleting(th, i) BY <1>1 DEF Deleting
  <2> QED BY <1>1, <1>2, <2>1 DEF StopsDelete
<1>7. rows'[i] = NoRow /\ \A j \in Ids \ {i} : rows'[j] = rows[j] BY <1>1, <1>2
<1>8. \A o \in Threads, j \in Ids :
        /\ ~Deleting(o, j)'
        /\ Deleting(o, j) => j = i
        /\ Awaited(o, j)' => Awaited(o, j)
  BY <1>3, <1>4 DEF Deleting, Awaited
<1>9. EventsNamed' BY <1>1, <1>2, <1>3 DEF EventsNamed
<1>10. StopsDelete' BY <1>1, <1>5, <1>7, <1>8 DEF StopsDelete
<1>11. Unmade' BY <1>1, <1>5, <1>6, <1>7, <1>8 DEF Unmade, Was
<1>12. TimerHasRow' BY <1>1, <1>5, <1>6, <1>7 DEF TimerHasRow, Was
<1> QED BY <1>9, <1>10, <1>11, <1>12

LEMMA RowsRetimed ==
  ASSUME IInv, IInv', RInv, NEW th \in Threads, NEW i \in Ids, NEW past \in BOOLEAN, SetTaskTime(th, i, past)
  PROVE  RInv'
<1> USE DEF IInv, TypeOK, RInv
<1>1. /\ \/ tasks[i] = Null /\ fault' = i /\ UNCHANGED queue
         \/ /\ tasks[i] \in Timers /\ UNCHANGED fault
            /\ queue' = Append(queue, [op |-> "change", timer |-> tasks[i], id |-> i, past |-> past])
      /\ Was("resumed") \subseteq Was("resumed")'
      /\ UNCHANGED <<rows, tasks, timer, at>>
  BY DEF SetTaskTime, Post, table, objects, locks, Was
<1>2. CronThread \in Threads BY DEF Threads
<1>3. \A o \in Threads, j \in Ids : (Awaited(o, j)' <=> Awaited(o, j)) /\ (Deleting(o, j)' <=> Deleting(o, j))
  BY <1>1 DEF Awaited, Deleting
<1>4. CASE tasks[i] = Null /\ fault' = i /\ UNCHANGED queue
  <2>1. \A j : Stopping(j)' <=> Stopping(j) BY <1>1, <1>4 DEF Stopping
  <2>2. fault' # Absent BY <1>4, CronAssumption
  <2>3. EventsNamed' BY <1>1, <1>4 DEF EventsNamed
  <2>4. StopsDelete' BY <1>1, <1>3, <1>4, <2>1, <2>2 DEF StopsDelete
  <2>5. Unmade' BY <1>1, <1>3, <1>4, <2>2 DEF Unmade
  <2>6. TimerHasRow' BY <2>2 DEF TimerHasRow
  <2> QED BY <2>3, <2>4, <2>5, <2>6
<1>5. CASE /\ tasks[i] \in Timers /\ UNCHANGED fault
           /\ queue' = Append(queue, [op |-> "change", timer |-> tasks[i], id |-> i, past |-> past])
  <2>1. \A n \in 1..Len(queue') :
          \/ n \in 1..Len(queue) /\ queue'[n] = queue[n]
          \/ queue'[n].op = "change" /\ queue'[n].timer = tasks[i] /\ queue'[n].id = i
    <3>1. /\ \A n \in 1..Len(queue') : (n \in 1..Len(queue) /\ queue'[n] = queue[n]) \/ n = Len(queue) + 1
          /\ queue'[Len(queue) + 1] = [op |-> "change", timer |-> tasks[i], id |-> i, past |-> past]
      BY <1>5, Appended
    <3>2. /\ queue'[Len(queue) + 1].op = "change"
          /\ queue'[Len(queue) + 1].timer = tasks[i] /\ queue'[Len(queue) + 1].id = i
      BY <3>1
    <3> HIDE DEF IInv, TypeOK, RInv
    <3> QED BY <3>1, <3>2
  <2>2. \A j : Stopping(j)' <=> Stopping(j)
    <3>1. \A j : Stopping(j) => Stopping(j)' BY <1>1, <1>5, StillStopping
    <3>2. at'[CronThread].pc = "remove" => at[CronThread].pc = "remove" /\ at'[CronThread].id = at[CronThread].id
      BY <1>1
    <3>3. \A n \in 1..Len(queue') : queue'[n].op = "stop" => \E m \in 1..Len(queue) : queue'[n] = queue[m]
      BY <2>1
    <3>4. \A j : Stopping(j)' => Stopping(j) BY <3>2, <3>3, NoNewStops
    <3> QED BY <3>1, <3>4
  <2>3. EventsNamed' BY <1>1, <1>5, <2>1 DEF EventsNamed, TimersOwned
  <2>4. StopsDelete' BY <1>1, <1>3, <1>5, <2>1, <2>2, CronAssumption DEF StopsDelete
  <2>5. \A o \in Threads : Awaited(o, i) => i \in Was("resumed") BY <1>5 DEF Awaited, Timerless
  <2>6. Unmade' BY <1>1, <1>3, <1>5, <2>1, <2>2, <2>5 DEF Unmade
  <2>7. TimerHasRow' BY <1>1, <1>5, <2>2 DEF TimerHasRow
  <2> QED BY <2>3, <2>4, <2>6, <2>7
<1> QED BY <1>1, <1>4, <1>5

(* What is left of the queue after its first event.                        *)
LEMMA RestOfQueue ==
  ASSUME TypeOK, TypeOK', NEW op, NextEvent(op)
  PROVE  /\ \A n \in 1..Len(queue') : \E m \in 1..Len(queue) : queue'[n] = queue[m]
         /\ 1 \in 1..Len(queue) /\ Head(queue) = queue[1] /\ Head(queue).op = op
         /\ at[CronThread].pc = "idle" /\ fault = Absent
<1> USE DEF TypeOK
<1>1. queue # <<>> /\ queue' = Tail(queue) /\ Head(queue).op = op /\ at[CronThread].pc = "idle" /\ fault = Absent
  BY DEF NextEvent, Idle, At
<1>2. /\ Len(queue) \in Nat /\ Len(queue) > 0 /\ Len(queue') = Len(queue) - 1
      /\ \A n \in 1..Len(queue') : queue'[n] = queue[n + 1]
      /\ Head(queue) = queue[1]
  BY <1>1, Delivered
<1>3. \A n \in 1..Len(queue') : n + 1 \in 1..Len(queue) BY <1>2
<1> QED BY <1>1, <1>2, <1>3

LEMMA RowsDangling == ASSUME IInv, IInv', RInv, DanglingEvent PROVE RInv'
<1> USE DEF IInv, TypeOK, RInv
<1>1. PICK op \in {"start", "stop", "change"} : NextEvent(op) BY DEF DanglingEvent
<1>2. /\ fault' = Head(queue).id /\ UNCHANGED <<rows, tasks, timer, at, log>>
  BY DEF DanglingEvent, table, objects
<1>3. /\ \A n \in 1..Len(queue') : \E m \in 1..Len(queue) : queue'[n] = queue[m]
      /\ 1 \in 1..Len(queue) /\ Head(queue) = queue[1]
  BY <1>1, RestOfQueue
<1>4. fault' # Absent BY <1>2, <1>3, CronAssumption DEF Issued
<1>5. \A j : Stopping(j)' => Stopping(j)
  <2>1. \A n \in 1..Len(queue') : queue'[n].op = "stop" => \E m \in 1..Len(queue) : queue'[n] = queue[m]
    BY <1>3
  <2>2. at'[CronThread].pc = "remove" => at[CronThread].pc = "remove" /\ at'[CronThread].id = at[CronThread].id
    BY <1>2
  <2> QED BY <2>1, <2>2, NoNewStops
<1>6. \A o \in Threads, j \in Ids : (Awaited(o, j)' <=> Awaited(o, j)) /\ (Deleting(o, j)' <=> Deleting(o, j))
  BY <1>2 DEF Awaited, Deleting
<1>7. EventsNamed' BY <1>2, <1>3 DEF EventsNamed
<1>8. StopsDelete' BY <1>2, <1>3, <1>4, <1>5, <1>6 DEF StopsDelete
<1>9. Unmade' BY <1>2, <1>3, <1>4, <1>6 DEF Unmade, Was
<1>10. TimerHasRow' BY <1>4 DEF TimerHasRow
<1> QED BY <1>7, <1>8, <1>9, <1>10

LEMMA RowsEvent == ASSUME IInv, IInv', RInv, StartTaskTimer \/ ChangeTaskTimer \/ StopTaskTimer PROVE RInv'
<1> USE DEF IInv, TypeOK, RInv
<1> DEFINE t == Head(queue).timer
           i == Head(queue).id
<1>1. PICK op \in {"start", "change", "stop"} :
        /\ NextEvent(op) /\ Alive(t) /\ \E how : Arm(t, how)
        /\ \/ op # "stop" /\ UNCHANGED at
           \/ op = "stop" /\ at' = [at EXCEPT ![CronThread] = [Rest EXCEPT !.pc = "remove", !.id = i]]
  BY DEF StartTaskTimer, ChangeTaskTimer, StopTaskTimer, Goto
<1>2. UNCHANGED <<rows, tasks, fault, log>>
  BY DEF StartTaskTimer, ChangeTaskTimer, StopTaskTimer, table, bounds
<1>3. /\ \A n \in 1..Len(queue') : \E m \in 1..Len(queue) : queue'[n] = queue[m]
      /\ 1 \in 1..Len(queue) /\ Head(queue) = queue[1] /\ Head(queue).op = op
      /\ at[CronThread].pc = "idle"
  BY <1>1, RestOfQueue
<1>4. /\ CronThread \in Threads
      /\ \A o \in Threads \ {CronThread} : at'[o] = at[o]
      /\ op # "stop" => at' = at
      /\ op = "stop" => at'[CronThread].pc = "remove" /\ at'[CronThread].id = i
  <2>1. CronThread \in Threads BY DEF Threads
  <2>2. CASE op # "stop" /\ at' = at BY <2>1, <2>2
  <2>3. CASE op = "stop" /\ at' = [at EXCEPT ![CronThread] = [Rest EXCEPT !.pc = "remove", !.id = i]]
    BY <2>1, <2>3 DEF Rest
  <2> QED BY <1>1, <2>1, <2>2, <2>3
<1>5. \A u \in Timers : timer'[u].life = timer[u].life /\ timer'[u].id = timer[u].id
  <2>1. PICK how : timer' = [timer EXCEPT ![t].armed = how] BY <1>1 DEF Arm
  <2>2. \A u \in Timers : timer'[u] = timer[u] \/ timer'[u] = [timer[u] EXCEPT !.armed = how] BY <2>1
  <2>3. \A u \in Timers : timer[u] \in Timer OBVIOUS
  <2> QED BY <2>2, <2>3 DEF Timer
<1>6. \A j : Stopping(j)' <=> Stopping(j)
  <2>1. \A j : Stopping(j) => Stopping(j)'
    <3>1. at'[CronThread].pc # "remove" /\ op # "stop" => \A j : Stopping(j) => Stopping(j)'
      BY <1>1, <1>2, EventTaken
    <3>2. op = "stop" /\ at'[CronThread].pc = "remove" /\ at'[CronThread].id = i =>
            \A j : Stopping(j) => Stopping(j)'
      BY <1>1, <1>2, EventTaken
    <3> QED BY <1>3, <1>4, <3>1, <3>2
  <2>2. \A j : Stopping(j)' => Stopping(j) \/ j \in IF op = "stop" THEN {i} ELSE {}
    BY <1>3, <1>4, StopsBack
  <2>3. op = "stop" => Stopping(i) BY <1>3, StoppingByIndex
  <2> QED BY <2>1, <2>2, <2>3
<1>7. \A o \in Threads, j \in Ids : (Awaited(o, j)' => Awaited(o, j)) /\ (Deleting(o, j)' <=> Deleting(o, j))
  BY <1>3, <1>4 DEF Awaited, Deleting
<1>8. EventsNamed'
  <2>1. t \in Timers /\ timer[t].life = "alive" BY <1>1 DEF Alive
  <2>2. timer[t].id = i BY <1>3, <2>1 DEF EventsNamed
  <2>3. tasks[i] = t BY <2>1, <2>2 DEF TimersOwned
  <2>4. ASSUME NEW n \in 1..Len(queue'), queue'[n].timer \in Timers
        PROVE  timer'[queue'[n].timer].life # "unused" /\ timer'[queue'[n].timer].id = queue'[n].id
    <3>1. PICK m \in 1..Len(queue) : queue'[n] = queue[m] BY <1>3
    <3>2. timer[queue[m].timer].life # "unused" /\ timer[queue[m].timer].id = queue[m].id
      BY <2>4, <3>1 DEF EventsNamed
    <3> QED BY <1>5, <2>4, <3>1, <3>2
  <2>5. at'[CronThread].pc = "remove" => tasks[at'[CronThread].id] \in Timers BY <1>3, <1>4, <2>1, <2>3
  <2> QED BY <1>2, <2>4, <2>5 DEF EventsNamed
<1>9. StopsDelete' BY <1>2, <1>3, <1>6, <1>7 DEF StopsDelete
<1>10. Unmade' BY <1>2, <1>3, <1>6, <1>7 DEF Unmade, Was
<1>11. TimerHasRow' BY <1>2, <1>6 DEF TimerHasRow, Was
<1> QED BY <1>8, <1>9, <1>10, <1>11

LEMMA RowsRemoved == ASSUME IInv, IInv', RInv, RemoveTask PROVE RInv'
<1> USE DEF IInv, TypeOK, RInv
<1> DEFINE i == at[CronThread].id
<1>1. /\ at[CronThread].pc = "remove" /\ taksMutex = Nobody
      /\ tasks' = [tasks EXCEPT ![i] = Absent]
      /\ timer' = Without(tasks[i])
      /\ at' = [at EXCEPT ![CronThread] = Rest]
      /\ UNCHANGED <<rows, queue, fault, log>>
  BY DEF RemoveTask, At, Return, table, loop, bounds
<1>2. CronThread \in Threads /\ Nobody \notin Threads BY CronAssumption DEF Threads
<1>3. at'[CronThread].pc = "idle" /\ \A o \in Threads \ {CronThread} : at'[o] = at[o] BY <1>1, <1>2 DEF Rest
<1>4. i \in Ids BY <1>1, <1>2 DEF Placed
<1>5. tasks'[i] = Absent /\ \A j \in Ids \ {i} : tasks'[j] = tasks[j] BY <1>1, <1>4
<1>6. \A o \in Threads : at[o].pc \notin {"delete", "self"} BY <1>1, <1>2 DEF Locked
<1>7. /\ \A j : Stopping(j)' => Stopping(j)
      /\ \A j : j # i /\ Stopping(j) => Stopping(j)'
      /\ Stopping(i)
  BY <1>1, <1>3 DEF Stopping
<1>8. \A o \in Threads, j \in Ids : (Awaited(o, j)' => Awaited(o, j)) /\ ~Deleting(o, j)' /\ ~Deleting(o, j)
  BY <1>3, <1>6 DEF Awaited, Deleting
<1>9. EventsNamed'
  <2>1. ASSUME NEW v \in Timers PROVE timer'[v].id = timer[v].id /\ timer'[v].life \in {timer[v].life, "deleted"}
    <3>1. timer'[v] = timer[v] \/ timer'[v] = [timer[v] EXCEPT !.life = "deleted", !.armed = "no"]
      BY <1>1 DEF Without
    <3>2. timer[v] \in Timer OBVIOUS
    <3> QED BY <3>1, <3>2 DEF Timer
  <2>2. ASSUME NEW n \in 1..Len(queue'), queue'[n].timer \in Timers
        PROVE  timer'[queue'[n].timer].life # "unused" /\ timer'[queue'[n].timer].id = queue'[n].id
    <3>1. n \in 1..Len(queue) /\ queue'[n] = queue[n] BY <1>1, <2>2
    <3>2. timer[queue[n].timer].life # "unused" /\ timer[queue[n].timer].id = queue[n].id
      BY <2>2, <3>1 DEF EventsNamed
    <3> QED BY <2>1, <2>2, <3>1, <3>2
  <2> QED BY <1>3, <2>2 DEF EventsNamed
<1>10. StopsDelete' BY <1>1, <1>4, <1>5, <1>7, <1>8 DEF StopsDelete
<1>11. \A o \in Threads : Awaited(o, i) => i \in Was("resumed")
  BY <1>1 DEF Awaited, Timerless, EventsNamed
<1>12. Unmade' BY <1>1, <1>7, <1>8, <1>11 DEF Unmade, Was
<1>13. TimerHasRow' BY <1>1, <1>5, <1>7, CronAssumption DEF TimerHasRow, Was
<1> QED BY <1>9, <1>10, <1>12, <1>13

LEMMA RowsCrashed == ASSUME IInv, RInv, Crash PROVE RInv'
<1>1. /\ tasks' = [j \in Ids |-> Absent] /\ at' = [th \in Threads |-> Rest] /\ queue' = <<>>
  BY DEF Crash, Fresh
<1>2. /\ \A th \in Threads : at'[th].pc = "idle"
      /\ CronThread \in Threads /\ Len(queue') = 0 /\ DOMAIN queue' = {}
      /\ \A j \in Ids : tasks'[j] = Absent
  BY <1>1 DEF Rest, Threads
<1>3. \A j : ~Stopping(j)' BY <1>2 DEF Stopping, ToSet
<1>4. EventsNamed' BY <1>2 DEF EventsNamed
<1>5. StopsDelete' BY <1>2, <1>3 DEF StopsDelete, Deleting
<1>6. Unmade' BY <1>2 DEF Unmade, Awaited
<1>7. TimerHasRow' BY <1>2, CronAssumption DEF TimerHasRow
<1> QED BY <1>4, <1>5, <1>6, <1>7 DEF RInv

LEMMA RowsInit == Init => RInv
<1> SUFFICES ASSUME Init PROVE RInv OBVIOUS
<1>1. /\ \A th \in Threads : at[th].pc = "idle"
      /\ CronThread \in Threads /\ Len(queue) = 0 /\ DOMAIN queue = {}
      /\ \A j \in Ids : tasks[j] = Absent
  BY DEF Init, Fresh, Rest, Threads
<1>2. \A j : ~Stopping(j) BY <1>1 DEF Stopping, ToSet
<1>3. EventsNamed BY <1>1 DEF EventsNamed
<1>4. StopsDelete BY <1>1, <1>2 DEF StopsDelete, Deleting
<1>5. Unmade BY <1>1 DEF Unmade, Awaited
<1>6. TimerHasRow BY <1>1, CronAssumption DEF TimerHasRow
<1> QED BY <1>3, <1>4, <1>5, <1>6 DEF RInv

(* The steps that leave rows, tasks and events alone.                      *)
LEMMA RowsOtherwise ==
  ASSUME IInv, IInv', RInv,
         \/ UNCHANGED vars
         \/ \E th \in Threads, n \in Names : AddFunc(th, n) \/ FindByName(th, n)
         \/ \E th \in Threads : ResumeEnd(th)
         \/ \E t \in Timers : Timeout(t) \/ TimerGone(t)
         \/ FuncReturns \/ ActivateTimers
         \/ \E i \in Ids : Elapse(i)
  PROVE  RInv'
<1>1. TypeOK BY DEF IInv
<1>2. CronThread \in Threads BY DEF Threads
<1>3. ASSUME UNCHANGED <<rows, tasks, timer, queue, fault, at, log>> PROVE RInv'
  <2>1. \A th \in Threads, i \in Ids : (Awaited(th, i)' => Awaited(th, i)) /\ (Deleting(th, i)' <=> Deleting(th, i))
    BY <1>3 DEF Awaited, Deleting
  <2>2. Was("resumed") \subseteq Was("resumed")' BY <1>3 DEF Was
  <2> QED BY <1>3, <2>1, <2>2, RowsUntouched
<1>4. ASSUME NEW th \in Threads, NEW l, at' = [at EXCEPT ![th] = l],
             l.pc \notin {"new", "resume", "delete", "self", "remove"},
             at[th].pc \notin {"delete", "self", "remove"},
             UNCHANGED <<rows, tasks, queue, fault>>, log \subseteq log',
             \A u \in Timers : timer'[u].life = timer[u].life /\ timer'[u].id = timer[u].id
      PROVE  RInv'
  <2>1. at'[th] = l /\ \A o \in Threads \ {th} : at'[o] = at[o] BY <1>1, <1>4 DEF TypeOK
  <2>2. \A o \in Threads, i \in Ids : (Awaited(o, i)' => Awaited(o, i)) /\ (Deleting(o, i)' <=> Deleting(o, i))
    BY <1>4, <2>1 DEF Awaited, Deleting
  <2>3. Was("resumed") \subseteq Was("resumed")' BY <1>4, LogGrows
  <2>4. /\ at'[CronThread].pc = "remove" <=> at[CronThread].pc = "remove"
        /\ at[CronThread].pc = "remove" => at'[CronThread].id = at[CronThread].id
    BY <1>2, <1>4, <2>1
  <2> QED BY <1>4, <2>2, <2>3, <2>4, RowsUntouched
<1>5. CASE UNCHANGED vars BY <1>3, <1>5 DEF vars, table, objects, loop, bounds
<1>6. ASSUME NEW th \in Threads, NEW n \in Names, AddFunc(th, n) PROVE RInv'
  BY <1>3, <1>6 DEF AddFunc, table, loop
<1>7. ASSUME NEW th \in Threads, NEW n \in Names, FindByName(th, n) PROVE RInv'
  <2>1. PICK i \in Ids : at' = [at EXCEPT ![th] = [Rest EXCEPT !.pc = "found", !.id = i]]
    BY <1>7 DEF FindByName, Goto
  <2>2. [Rest EXCEPT !.pc = "found", !.id = i].pc = "found" BY DEF Rest
  <2> QED BY <1>4, <1>7, <2>1, <2>2 DEF FindByName, Call, At, table, objects, loop
<1>8. ASSUME NEW th \in Threads, ResumeEnd(th) PROVE RInv'
  <2>1. Rest.pc = "idle" BY DEF Rest
  <2> QED BY <1>4, <1>8, <2>1 DEF ResumeEnd, Return, At, table, objects, loop, bounds
<1>9. ASSUME NEW t \in Timers, Timeout(t) PROVE RInv'
  <2> DEFINE l == [Rest EXCEPT !.pc = "called", !.id = timer[t].id,
                     !.last = timer[t].single \/ (timer[t].ends /\ timer[t].id \in ended)]
  <2>1. l.pc = "called" BY DEF Rest
  <2>2. \A u \in Timers : timer'[u].life = timer[u].life /\ timer'[u].id = timer[u].id
    <3>1. PICK how : timer' = [timer EXCEPT ![t].armed = how] BY <1>9 DEF Timeout, Arm
    <3>2. \A u \in Timers : timer'[u] = timer[u] \/ timer'[u] = [timer[u] EXCEPT !.armed = how]
      BY <1>1, <3>1 DEF TypeOK
    <3>3. \A u \in Timers : timer[u] \in Timer BY <1>1 DEF TypeOK
    <3> QED BY <3>2, <3>3 DEF Timer
  <2>3. /\ at' = [at EXCEPT ![CronThread] = l] /\ at[CronThread].pc = "idle"
        /\ UNCHANGED <<rows, tasks, queue, fault, log>>
    BY <1>9 DEF Timeout, Idle, At, table, bounds
  <2> HIDE DEF l
  <2> QED BY <1>2, <1>4, <2>1, <2>2, <2>3
<1>10. ASSUME NEW t \in Timers, TimerGone(t) PROVE RInv'
  BY <1>3, <1>10 DEF TimerGone, table, objects, bounds
<1>11. CASE FuncReturns
  <2> DEFINE l == [Rest EXCEPT !.pc = "returned", !.id = at[CronThread].id]
  <2>1. /\ at' = [at EXCEPT ![CronThread] = l] \/ at' = [at EXCEPT ![CronThread] = Rest]
        /\ at[CronThread].pc = "called" /\ log \subseteq log'
        /\ UNCHANGED <<rows, tasks, timer, queue, fault>>
    BY <1>11 DEF FuncReturns, Goto, Return, At, Note, table, objects, loop, bounds
  <2>2. l.pc = "returned" /\ Rest.pc = "idle" BY DEF Rest
  <2> HIDE DEF l
  <2> QED BY <1>2, <1>4, <2>1, <2>2
<1>12. CASE ActivateTimers BY <1>3, <1>12 DEF ActivateTimers, table, objects, bounds
<1>13. ASSUME NEW i \in Ids, Elapse(i) PROVE RInv'
  BY <1>3, <1>13 DEF Elapse, objects, loop, bounds
<1> QED BY <1>5, <1>6, <1>7, <1>8, <1>9, <1>10, <1>11, <1>12, <1>13

LEMMA RowsStep == IInv /\ IInv' /\ RInv /\ [Next]_vars => RInv'
<1> SUFFICES ASSUME IInv, IInv', RInv, [Next]_vars PROVE RInv' OBVIOUS
<1>1. CronThread \in Threads BY DEF Threads
<1>2. ASSUME NEW th \in Threads, NEW i \in Ids, StopTask(th, i) PROVE RInv'
  <2>1. PostStop(th, i, "delete", {"dropped"}) /\ i \in issued /\ at[th].pc # "remove"
    BY <1>2 DEF StopTask, Call, At
  <2> QED BY <2>1, RowsPosted
<1>3. ASSUME NEW th \in Threads, StopFound(th) PROVE RInv'
  <2>1. PostStop(th, at[th].id, "delete", {"dropped"}) /\ at[th].id \in issued /\ at[th].pc # "remove"
    BY <1>3 DEF StopFound, At, IInv, Placed
  <2> QED BY <2>1, RowsPosted
<1>4. CASE StopAfterLastCall
  <2>1. /\ PostStop(CronThread, at[CronThread].id, "delete", {}) /\ at[CronThread].id \in issued
        /\ at[CronThread].pc # "remove"
    BY <1>1, <1>4 DEF StopAfterLastCall, At, IInv, Placed
  <2> QED BY <1>1, <2>1, RowsPosted
<1>5. CASE SelfStop
  <2>1. /\ PostStop(CronThread, at[CronThread].id, "self", {"dropped"}) /\ at[CronThread].id \in issued
        /\ at[CronThread].pc # "remove"
    BY <1>1, <1>5 DEF SelfStop, At, IInv, Placed
  <2> QED BY <1>1, <2>1, RowsPosted
<1>6. CASE UNCHANGED vars BY <1>6, RowsOtherwise
<1> QED
  BY <1>2, <1>3, <1>4, <1>5, <1>6, RowsOtherwise, RowsStarted, RowsNewTask, RowsDeleted, RowsRetimed, RowsResumed,
     RowsResumeRow, RowsDangling, RowsEvent, RowsRemoved, RowsCrashed
  DEF Next, Enter, Continue, CronStep

(* A task of m_tasks has its row in the table, or the stopTaskTimer() that *)
(* will remove it is already posted, however stopTask() and setTaskTime()  *)
(* overlap; only resumeTasks() over a task that m_tasks has may break it.  *)
THEOREM TimersHaveRows == Spec => []TimerHasRow
<1>1. RInv => TimerHasRow BY DEF RInv
<1> QED BY InitEstablishes, StepKeeps, RowsInit, RowsStep, <1>1, PTL DEF Spec

LEMMA CallWanted ==
  ASSUME IInv, RInv, [Next]_vars, NEW i \in Ids \ Was("resumed"), Idle,
         at'[CronThread].pc = "called", at'[CronThread].id = i
  PROVE  rows[i] # NoRow \/ Stopping(i)
<1> USE DEF IInv, TypeOK, RInv
<1>1. CronThread \in Threads /\ CronThread \notin Callers /\ Callers \subseteq Threads
  BY CronAssumption DEF Threads
<1>2. at[CronThread].pc = "idle" /\ fault = Absent BY DEF Idle, At
<1>3. ASSUME NEW t \in Timers, Timeout(t) PROVE rows[i] # NoRow \/ Stopping(i)
  <2>1. timer[t].armed = "yes" /\ timer[t].id = i
    BY <1>1, <1>3 DEF Timeout, Rest
  <2>2. tasks[i] = t BY <2>1 DEF TimersOwned
  <2> QED BY <1>2, <2>2 DEF TimerHasRow
<1>4. ASSUME NEW th \in Threads, Enter(th) \/ Continue(th) PROVE FALSE
  <2>1. CASE th = CronThread
    BY <1>1, <1>2, <1>4, <2>1 DEF Enter, Continue, AddFunc, FindByName, StartTask, StopTask, SetTaskTime, ResumeTasks,
       Call, NewTask, StopFound, DeleteRow, ResumeRow, ResumeEnd, At
  <2>2. CASE th # CronThread
    <3>1. at'[CronThread] = at[CronThread]
      BY <1>1, <1>4, <2>2 DEF Enter, Continue, AddFunc, FindByName, StartTask, StopTask, SetTaskTime, ResumeTasks,
         NewTask, StopFound, DeleteRow, ResumeRow, ResumeEnd, PostStop, Goto, Return
    <3> QED BY <1>2, <3>1
  <2> QED BY <2>1, <2>2
<1>5. CASE CronStep \/ SelfStop
  <2>1. CASE DanglingEvent \/ StartTaskTimer \/ ChangeTaskTimer \/ ActivateTimers
    BY <1>2, <2>1 DEF DanglingEvent, StartTaskTimer, ChangeTaskTimer, ActivateTimers
  <2>2. CASE StopTaskTimer BY <1>1, <2>2 DEF StopTaskTimer, Goto, Rest
  <2>3. CASE RemoveTask \/ FuncReturns \/ StopAfterLastCall \/ SelfStop
    BY <1>2, <2>3 DEF RemoveTask, FuncReturns, StopAfterLastCall, SelfStop, At
  <2> QED BY <1>5, <2>1, <2>2, <2>3 DEF CronStep
<1>6. CASE Crash BY <1>1, <1>6 DEF Crash, Fresh, Rest
<1>7. ASSUME NEW t \in Timers, TimerGone(t) PROVE FALSE BY <1>2, <1>7 DEF TimerGone
<1>8. ASSUME NEW j \in Ids, Elapse(j) PROVE FALSE BY <1>2, <1>8 DEF Elapse
<1>9. CASE UNCHANGED vars BY <1>2, <1>9 DEF vars
<1> QED BY <1>3, <1>4, <1>5, <1>6, <1>7, <1>8, <1>9 DEF Next

(* Once the cron thread has carried out a stop, it does not call the       *)
(* function any more: the timer that times out has a row, or its stop is   *)
(* still in the queue.                                                     *)
THEOREM CallsAreWanted == Spec => CalledWhileWanted
<1>1. IInv /\ RInv /\ [Next]_vars =>
        [\A i \in Ids \ Was("resumed") :
           Idle /\ at'[CronThread].pc = "called" /\ at'[CronThread].id = i
             => rows[i] # NoRow \/ Stopping(i)]_vars
  BY CallWanted
<1> QED BY InitEstablishes, StepKeeps, RowsInit, RowsStep, <1>1, PTL DEF Spec, CalledWhileWanted

=============================================================================
