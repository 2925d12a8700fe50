-------------------------------- MODULE Cron --------------------------------
(***************************************************************************)
(* The scheduler of cron.cpp: threads that call its API, the cron thread   *)
(* with its event queue and its QTimers, and the table `cron`, which       *)
(* outlives the process.                                                   *)
(*                                                                         *)
(* Time is abstract: an armed timer may time out at any moment, the end    *)
(* time of a task may pass at any moment, and setTaskTime() is given       *)
(* either a later time or one already past.                                *)
(*                                                                         *)
(* Using a destroyed timer, or the null timer m_tasks[id] makes for an     *)
(* unknown id, is undefined: the model stops at that point, "fault" names  *)
(* the task it was done for, and only a restart of the process leads on.   *)
(***************************************************************************)
EXTENDS Naturals, Sequences, FiniteSets, SequencesExt

CONSTANTS
  Callers,     \* threads that call the API
  CronThread,  \* the thread that runs Cron::run()
  Ids,         \* task ids AUTO_INCREMENT may give out
  Names,       \* function names
  Timers,      \* QTimer objects one process may create
  Absent,      \* no entry in m_tasks
  Null,        \* the entry operator[] makes: a null shared pointer
  Nobody,      \* a mutex nobody owns
  NoRow,       \* no row in table cron
  MaxCalls,    \* bound: API calls in one behaviour
  MaxCrashes   \* bound: restarts in one behaviour

Threads == Callers \cup {CronThread}

ASSUME CronAssumption ==
  /\ CronThread \notin Callers
  /\ Nobody \notin Threads
  /\ Absent \notin Timers /\ Null \notin Timers /\ Absent # Null
  /\ Absent \notin Ids
  /\ NoRow \notin [name : Names, single : BOOLEAN, ends : BOOLEAN]
  /\ MaxCalls \in Nat /\ MaxCrashes \in Nat

VARIABLES
  rows,       \* table cron: id -> row or NoRow
  issued,     \* the ids AUTO_INCREMENT has given out
  ended,      \* ids whose end time has passed
  funcs,      \* m_tasks_func: the registered names
  tasks,      \* m_tasks: id -> timer, Absent or Null
  timer,      \* the QTimer objects
  queue,      \* events posted to the cron thread
  due,        \* timers the current turn of the event loop still activates
  taksMutex,  \* owner of m_taks_mutex
  funcMutex,  \* owner of m_func_mutex
  at,         \* where each thread is, with its locals
  fault,      \* the task undefined behaviour has happened for, or Absent
  calls,      \* API calls so far (bound)
  crashes,    \* restarts so far (bound)
  log         \* history: what happened to which task

table   == <<rows, issued, ended>>
objects == <<funcs, tasks, timer>>
loop    == <<queue, due>>
locks   == <<taksMutex, funcMutex>>
bounds  == <<fault, calls, crashes>>
vars    == <<table, objects, loop, locks, at, bounds, log>>

Row    == [name : Names, single : BOOLEAN, ends : BOOLEAN]
Timer  == [life : {"unused", "alive", "deleted"}, id : Ids \cup {Absent},
           single : BOOLEAN, ends : BOOLEAN, armed : {"no", "yes", "mute"}]
Event  == [op : {"start", "stop", "change"}, timer : Timers \cup {Null},
           id : Ids, past : BOOLEAN]
Locals == [pc : {"idle", "new", "resume", "found", "delete", "remove", "called", "self",
                 "returned"},
           id : Ids \cup {Absent}, row : Row \cup {NoRow}, todo : SUBSET (Ids \X Row),
           last : BOOLEAN]
Kinds  == {"returned", "dropped", "lapsed", "overlapped", "resumed"}

TypeOK ==
  /\ rows \in [Ids -> Row \cup {NoRow}]
  /\ issued \in SUBSET Ids /\ ended \in SUBSET Ids /\ funcs \in SUBSET Names
  /\ tasks \in [Ids -> Timers \cup {Absent, Null}]
  /\ timer \in [Timers -> Timer]
  /\ queue \in Seq(Event) /\ due \in SUBSET Timers
  /\ taksMutex \in Threads \cup {Nobody} /\ funcMutex \in Threads \cup {Nobody}
  /\ at \in [Threads -> Locals]
  /\ fault \in Ids \cup {Absent} /\ calls \in Nat /\ crashes \in Nat
  /\ log \in SUBSET (Kinds \X Ids)

Rest == [pc |-> "idle", id |-> Absent, row |-> NoRow, todo |-> {}, last |-> FALSE]
Unborn == [life |-> "unused", id |-> Absent, single |-> FALSE, ends |-> FALSE, armed |-> "no"]

(* What a process starts with.                                             *)
Fresh ==
  [funcs |-> {}, tasks |-> [i \in Ids |-> Absent], timer |-> [t \in Timers |-> Unborn],
   at |-> [th \in Threads |-> Rest]]

Init ==
  /\ rows = [i \in Ids |-> NoRow] /\ issued = {} /\ ended = {}
  /\ funcs = Fresh.funcs /\ tasks = Fresh.tasks /\ timer = Fresh.timer /\ at = Fresh.at
  /\ queue = <<>> /\ due = {}
  /\ taksMutex = Nobody /\ funcMutex = Nobody
  /\ fault = Absent /\ calls = 0 /\ crashes = 0 /\ log = {}

-----------------------------------------------------------------------------
Alive(t) == t \in Timers /\ timer[t].life = "alive"
Was(kind) == {i \in Ids : <<kind, i>> \in log}
Note(kinds, i) == log' = log \cup (kinds \X {i})
If(kind, happened) == IF happened THEN {kind} ELSE {}

(* A stopTaskTimer() call for task i is queued or half done.               *)
Stopping(i) ==
  \/ \E e \in ToSet(queue) : e.op = "stop" /\ e.id = i
  \/ at[CronThread].pc = "remove" /\ at[CronThread].id = i

(* A call about task i overlaps another: m_tasks does not hold its timer   *)
(* yet or any more, or a stop that will destroy that timer is on its way,  *)
(* which may be the one the cron thread itself posts after the last call.  *)
Overlaps(i) == tasks[i] \notin Timers \/ Stopping(i)

At(th, label) == at[th].pc = label /\ fault = Absent
Goto(th, label, i) == at' = [at EXCEPT ![th] = [Rest EXCEPT !.pc = label, !.id = i]]
Return(th) == at' = [at EXCEPT ![th] = Rest]

(* A caller enters the API.                                                *)
Call(th) == th \in Callers /\ At(th, "idle") /\ calls < MaxCalls /\ calls' = calls + 1

Post(op, t, i, past) ==
  queue' = Append(queue, [op |-> op, timer |-> t, id |-> i, past |-> past])

(* The timers when t, if it is one, has lost its last owner.               *)
Without(t) ==
  [u \in Timers |-> IF u = t THEN [timer[u] EXCEPT !.life = "deleted", !.armed = "no"]
                    ELSE timer[u]]

(* newTask(): create the timer, enter it in m_tasks (which destroys the    *)
(* one that was there) and post its start.                                 *)
AddTimer(i, r) ==
  \E t \in {u \in Timers : timer[u].life = "unused"} :
    /\ timer' = [Without(tasks[i]) EXCEPT ![t] =
         [life |-> "alive", id |-> i, single |-> r.single, ends |-> r.ends, armed |-> "no"]]
    /\ tasks' = [tasks EXCEPT ![i] = t]
    /\ Post("start", t, i, FALSE)

(* The statement DELETE FROM cron WHERE taskid = i.                        *)
Delete(i) == rows' = [rows EXCEPT ![i] = NoRow]

(* m_tasks[i], which makes an entry when there is none.                    *)
Found(i) == IF tasks[i] = Absent THEN Null ELSE tasks[i]

(* The locker of stopTask() lasts to the end of its scope.  Mutant: a lock *)
(* that is never released.                                                 *)
Lock(th) == taksMutex' = th
NoUnlock(th) == UNCHANGED taksMutex
Unlock(th) == taksMutex' = Nobody

(* The part of stopTask() before its DELETE, by thread th, for task i.     *)
PostStop(th, i, label, kinds) ==
  /\ taksMutex = Nobody /\ Lock(th)
  /\ tasks' = [tasks EXCEPT ![i] = Found(i)]
  /\ Post("stop", Found(i), i, FALSE)
  /\ Note(kinds \cup If("overlapped", Overlaps(i)), i)
  /\ at' = [at EXCEPT ![th].pc = label, ![th].id = i]
  /\ UNCHANGED <<table, funcs, timer, due, funcMutex, fault, crashes>>

-----------------------------------------------------------------------------
(* The API, called by any thread.                                          *)

AddFunc(th, n) ==
  /\ Call(th) /\ funcMutex = Nobody
  /\ funcs' = funcs \cup {n}
  /\ UNCHANGED <<table, tasks, timer, loop, locks, at, fault, crashes, log>>

(* startTask() up to its call of newTask(): the INSERT commits first.      *)
StartTask(th, r) ==
  /\ Call(th) /\ funcMutex = Nobody /\ funcMutex' = th
  /\ \E i \in Ids \ issued :
       /\ rows' = [rows EXCEPT ![i] = r]
       /\ issued' = issued \cup {i}
       /\ at' = [at EXCEPT ![th] = [Rest EXCEPT !.pc = "new", !.id = i, !.row = r]]
  /\ funcs' = funcs \cup {r.name}
  /\ UNCHANGED <<ended, tasks, timer, loop, taksMutex, fault, crashes, log>>

NewTask(th) ==
  LET i == at[th].id
  IN /\ At(th, "new") /\ taksMutex = Nobody
     /\ AddTimer(i, at[th].row)
     /\ funcMutex' = Nobody /\ Return(th)
     /\ UNCHANGED <<table, funcs, due, taksMutex, bounds, log>>

(* stopTask(id), with an id startTask() has returned.                      *)
StopTask(th, i) ==
  /\ Call(th)
  /\ i \in issued /\ \A o \in Threads : ~(at[o].pc = "new" /\ at[o].id = i)
  /\ PostStop(th, i, "delete", {"dropped"})

(* stopTask(name): SELECT one task of that name without any lock, then     *)
(* stop the task found.                                                    *)
FindByName(th, n) ==
  /\ Call(th)
  /\ \E i \in Ids : rows[i] # NoRow /\ rows[i].name = n /\ Goto(th, "found", i)
  /\ UNCHANGED <<table, objects, loop, locks, fault, crashes, log>>

StopFound(th) ==
  /\ At(th, "found")
  /\ PostStop(th, at[th].id, "delete", {"dropped"})
  /\ UNCHANGED calls

(* The end of stopTask(), which the callback of a task may have called.    *)
DeleteRow(th) ==
  /\ At(th, "delete") \/ At(th, "self")
  /\ Delete(at[th].id)
  /\ Unlock(th)
  /\ IF At(th, "self") THEN at' = [at EXCEPT ![th].pc = "called"] ELSE Return(th)
  /\ UNCHANGED <<issued, ended, objects, loop, funcMutex, bounds, log>>

(* setTaskTime() of a task in m_tasks.  Only single shots are retimed; the *)
(* new start time also goes to the row, which times are not kept in here.  *)
SetTaskTime(th, i, past) ==
  /\ Call(th) /\ taksMutex = Nobody
  /\ \/ tasks[i] = Null /\ fault' = i /\ UNCHANGED queue
     \/ /\ tasks[i] \in Timers /\ timer[tasks[i]].single
        /\ Post("change", tasks[i], i, past)
        /\ UNCHANGED fault
  /\ log' = (log \ {<<"lapsed", i>>})
               \cup ((If("lapsed", past) \cup If("overlapped", Overlaps(i))) \X {i})
  /\ UNCHANGED <<table, objects, due, locks, at, crashes>>

(* resumeTasks(): fetch all rows, then deal with one after another.        *)
ResumeTasks(th) ==
  LET found == {i \in Ids : rows[i] # NoRow}
  IN /\ Call(th) /\ funcMutex = Nobody /\ funcMutex' = th
     /\ at' = [at EXCEPT ![th] =
          [Rest EXCEPT !.pc = "resume", !.todo = {<<i, rows[i]>> : i \in found}]]
     /\ log' = log \cup ({"resumed"} \X {i \in found : tasks[i] # Absent})
     /\ UNCHANGED <<table, objects, loop, taksMutex, fault, crashes>>

ResumeRow(th) ==
  /\ At(th, "resume")
  /\ \E x \in at[th].todo :
       LET i == x[1]
           r == x[2]
           expired == r.ends /\ i \in ended
       IN /\ at' = [at EXCEPT ![th].todo = @ \ {x}]
          /\ \/ r.name \notin funcs /\ UNCHANGED <<rows, tasks, timer, queue, log>>
             \/ /\ r.name \in funcs /\ expired
                /\ Delete(i) /\ Note({"dropped"}, i)
                /\ UNCHANGED <<tasks, timer, queue>>
             \/ /\ r.name \in funcs /\ ~expired /\ taksMutex = Nobody
                /\ AddTimer(i, r)
                /\ UNCHANGED <<rows, log>>
  /\ UNCHANGED <<issued, ended, funcs, due, locks, bounds>>

ResumeEnd(th) ==
  /\ At(th, "resume") /\ at[th].todo = {}
  /\ funcMutex' = Nobody /\ Return(th)
  /\ UNCHANGED <<table, objects, loop, taksMutex, bounds, log>>

-----------------------------------------------------------------------------
(* The cron thread.  A turn of its event loop first delivers every posted  *)
(* event, then activates each timer that is due at most once.              *)
Idle == At(CronThread, "idle")

NextEvent(op) ==
  /\ Idle /\ due = {}
  /\ queue # <<>> /\ Head(queue).op = op
  /\ queue' = Tail(queue) /\ UNCHANGED due

ActivateTimers ==
  /\ Idle /\ due = {} /\ queue = <<>>
  /\ due' \in SUBSET {t \in Timers : timer[t].armed = "yes"} \ {{}}
  /\ UNCHANGED <<table, objects, queue, locks, at, bounds, log>>

Arm(t, how) == timer' = [timer EXCEPT ![t].armed = how]

(* Any slot of the cron thread that is handed a timer no longer there.     *)
(* Mutant: slots that return when they are handed one.                     *)
DanglingIgnored ==
  /\ \E op \in {"start", "stop", "change"} : NextEvent(op)
  /\ ~Alive(Head(queue).timer)
  /\ UNCHANGED <<table, objects, locks, at, bounds, log>>
DanglingEvent ==
  /\ \E op \in {"start", "stop", "change"} : NextEvent(op)
  /\ ~Alive(Head(queue).timer)
  /\ fault' = Head(queue).id
  /\ UNCHANGED <<table, objects, locks, at, calls, crashes, log>>

StartTaskTimer ==
  /\ NextEvent("start") /\ Alive(Head(queue).timer)
  /\ Arm(Head(queue).timer, "yes")
  /\ UNCHANGED <<table, funcs, tasks, locks, at, bounds, log>>

(* Mutants of StopTaskTimer: it deletes the timer and leaves the task in   *)
(* m_tasks; it does nothing.                                               *)
StopTaskTimerDeletes ==
  /\ NextEvent("stop") /\ timer' = Without(Head(queue).timer)
  /\ UNCHANGED <<table, funcs, tasks, locks, at, bounds, log>>
StopTaskTimerIdle ==
  NextEvent("stop") /\ UNCHANGED <<table, objects, locks, at, bounds, log>>

(* stopTaskTimer() stops the timer before it asks for the lock ...         *)
StopTaskTimer ==
  /\ NextEvent("stop") /\ Alive(Head(queue).timer)
  /\ Arm(Head(queue).timer, "no")
  /\ Goto(CronThread, "remove", Head(queue).id)
  /\ UNCHANGED <<table, funcs, tasks, locks, bounds, log>>

(* ... and takes the task out of m_tasks, which destroys its timer.        *)
RemoveTask ==
  LET i == at[CronThread].id
  IN /\ At(CronThread, "remove") /\ taksMutex = Nobody
     /\ tasks' = [tasks EXCEPT ![i] = Absent]
     /\ timer' = Without(tasks[i])
     /\ Return(CronThread)
     /\ UNCHANGED <<table, funcs, loop, locks, bounds, log>>

(* setInterval(): a running QTimer starts again.  It refuses a negative    *)
(* interval and is mute then, but still counts as running: the next        *)
(* setInterval() arms it again.  Mutant: stop() and start() in its place.  *)
StopsWhenPast(t, past) == IF timer[t].armed = "no" \/ past THEN "no" ELSE "yes"
RunsOn(t, past) ==
  CASE timer[t].armed = "no" -> "no"
    [] timer[t].armed # "no" /\ past -> "mute"
    [] OTHER -> "yes"

ChangeTaskTimer ==
  /\ NextEvent("change") /\ Alive(Head(queue).timer)
  /\ Arm(Head(queue).timer, RunsOn(Head(queue).timer, Head(queue).past))
  /\ UNCHANGED <<table, funcs, tasks, locks, at, bounds, log>>

(* QTimer::timeout: a single shot disarms itself first, then the lambda of *)
(* newTask() decides on last_call and calls the function.                  *)
Timeout(t) ==
  /\ Idle /\ t \in due /\ due' = due \ {t}
  /\ timer[t].armed = "yes"
  /\ Arm(t, IF timer[t].single THEN "no" ELSE "yes")
  /\ at' = [at EXCEPT ![CronThread] =
       [Rest EXCEPT !.pc = "called", !.id = timer[t].id,
          !.last = timer[t].single \/ (timer[t].ends /\ timer[t].id \in ended)]]
  /\ UNCHANGED <<table, funcs, tasks, queue, locks, bounds, log>>

(* A due timer that another thread's newTask() has replaced meanwhile.     *)
TimerGone(t) ==
  /\ Idle /\ t \in due /\ due' = due \ {t}
  /\ timer[t].armed # "yes"
  /\ UNCHANGED <<table, objects, queue, locks, at, bounds, log>>

(* The function may stop its own task, which the API does not forbid.      *)
SelfStop ==
  /\ At(CronThread, "called")
  /\ calls < MaxCalls /\ calls' = calls + 1
  /\ PostStop(CronThread, at[CronThread].id, "self", {"dropped"})

FuncReturns ==
  /\ At(CronThread, "called")
  /\ Note({"returned"}, at[CronThread].id)
  /\ IF at[CronThread].last THEN Goto(CronThread, "returned", at[CronThread].id)
     ELSE Return(CronThread)
  /\ UNCHANGED <<table, objects, loop, locks, bounds>>

(* After the last call the cron thread stops the task itself.  Mutant:     *)
(* before it.                                                              *)
StopBeforeLastCall ==
  /\ At(CronThread, "called") /\ at[CronThread].last
  /\ PostStop(CronThread, at[CronThread].id, "self", {})
  /\ UNCHANGED calls
StopAfterLastCall ==
  /\ At(CronThread, "returned")
  /\ PostStop(CronThread, at[CronThread].id, "delete", {})
  /\ UNCHANGED calls

-----------------------------------------------------------------------------
(* The end time of a task passes.                                          *)
Elapse(i) ==
  /\ fault = Absent
  /\ rows[i] # NoRow /\ rows[i].ends /\ i \notin ended
  /\ ended' = ended \cup {i}
  /\ UNCHANGED <<rows, issued, objects, loop, locks, at, bounds, log>>

(* The process dies, at any point, and another one starts with nothing but *)
(* the table; what overlapped in the old process is over.                  *)
Crash ==
  /\ crashes < MaxCrashes /\ crashes' = crashes + 1
  /\ funcs' = Fresh.funcs /\ tasks' = Fresh.tasks /\ timer' = Fresh.timer /\ at' = Fresh.at
  /\ queue' = <<>> /\ due' = {}
  /\ taksMutex' = Nobody /\ funcMutex' = Nobody
  /\ fault' = Absent
  /\ log' = {e \in log : e[1] \in {"returned", "dropped"}}
  /\ UNCHANGED <<table, calls>>

CronStep ==
  \/ DanglingEvent \/ StartTaskTimer \/ StopTaskTimer \/ ChangeTaskTimer
  \/ RemoveTask \/ FuncReturns \/ StopAfterLastCall \/ ActivateTimers

Continue(th) ==
  NewTask(th) \/ StopFound(th) \/ DeleteRow(th) \/ ResumeRow(th) \/ ResumeEnd(th)

Enter(th) ==
  \/ \E n \in Names : AddFunc(th, n) \/ FindByName(th, n)
  \/ \E r \in Row : StartTask(th, r)
  \/ \E i \in Ids : StopTask(th, i) \/ \E past \in BOOLEAN : SetTaskTime(th, i, past)
  \/ ResumeTasks(th)

Next ==
  \/ \E th \in Threads : Enter(th) \/ Continue(th)
  \/ CronStep
  \/ \E t \in Timers : Timeout(t) \/ TimerGone(t)
  \/ SelfStop
  \/ \E i \in Ids : Elapse(i)
  \/ Crash

Spec == Init /\ [][Next]_vars

(* What the scheduling justifies.  A thread inside an API call goes on, and*)
(* gets a lock that stays free; nothing is assumed of how a QMutex that is *)
(* taken again and again chooses among its waiters.  The event loop of the *)
(* cron thread keeps turning, and wall-clock time goes by: a timer that    *)
(* stays armed, or is armed again and again, is due in some later turn.    *)
Fairness ==
  /\ \A th \in Threads : WF_vars(Continue(th))
  /\ WF_vars(CronStep \/ \E t \in Timers : Timeout(t) \/ TimerGone(t))
  /\ \A t \in Timers : SF_vars(ActivateTimers /\ t \in due')

FairSpec == Spec /\ Fairness

-----------------------------------------------------------------------------
(* A destroyed or null timer is only used for a task whose own calls       *)
(* overlapped in this process: it was stopped or retimed before m_tasks    *)
(* had its timer or while a stop of it was still to be carried out, or it  *)
(* was resumed while m_tasks had it.  The first stop may be the one of the *)
(* cron thread after the last call, so a single stopTask() of a task that  *)
(* is just ending is enough.  Whatever is done to other tasks cannot       *)
(* destroy the timer of this one.                                          *)
FaultOnlyIfOverlapped == fault # Absent => fault \in Was("overlapped") \cup Was("resumed")

(* A task in m_tasks has its row or is being stopped, also when its stops  *)
(* and new times overlap: no timer goes on without a row to account for    *)
(* it.  Only a task that resumeTasks() finds both in the table and in      *)
(* m_tasks may be given a timer again after its row has gone.              *)
TimerHasRow ==
  \A i \in Ids \ Was("resumed") :
    fault = Absent /\ tasks[i] \in Timers => rows[i] # NoRow \/ Stopping(i)

(* A single shot loses its row only when its function has run to the end,  *)
(* or somebody stopped it, or its end time had passed at a resume: no      *)
(* crash in between loses a shot.                                          *)
NoShotLost ==
  [][\A i \in Ids : rows[i] # NoRow /\ rows'[i] = NoRow /\ rows[i].single =>
       i \in Was("returned") \cup Was("dropped")']_vars

(* A function is called only for a task that has its row or whose stop is  *)
(* still queued: nothing runs once the cron thread has carried out a stop. *)
CalledWhileWanted ==
  [][\A i \in Ids \ Was("resumed") :
       Idle /\ at'[CronThread].pc = "called" /\ at'[CronThread].id = i
         => rows[i] # NoRow \/ Stopping(i)]_vars

(* Every call returns: the two mutexes, taken in the order m_func_mutex,   *)
(* m_taks_mutex, and the cron thread that takes the second alone, never    *)
(* wait for each other.                                                    *)
ApiReturns ==
  \A th \in Callers : at[th].pc # "idle" ~> at[th].pc = "idle" \/ fault # Absent

(* In a process that does not crash a single shot runs, unless it is       *)
(* stopped or its last setTaskTime() named a moment already past.          *)
ShotDelivered ==
  \A i \in Ids :
    rows[i] # NoRow /\ rows[i].single
      ~> fault # Absent \/ i \in Was("returned") \cup Was("dropped") \cup Was("lapsed")

(* A posted stop is carried out: the task leaves m_tasks.                  *)
StopCarriedOut == \A i \in Ids : Stopping(i) ~> fault # Absent \/ tasks[i] = Absent

(* What was asked for happens: a shot is fired, a stop is carried out.     *)
OrdersCarriedOut == ShotDelivered /\ StopCarriedOut
=============================================================================
