----------------------------- MODULE ThreadPool -----------------------------
(***************************************************************************)
(* include/threadpool.hpp: a queue of tasks, a mutex, one condition        *)
(* variable and detached worker threads.  Every worker runs the loop of    *)
(* the constructor's lambda; AddTask pushes under the mutex and notifies   *)
(* after releasing it; the destructor clears the status flag and wakes     *)
(* everybody without joining the workers.                                  *)
(***************************************************************************)
EXTENDS Naturals, Sequences, FiniteSets

CONSTANTS Workers,    \* numThreads detached threads
          Callers,    \* threads that call AddTask (main, in WebServer)
          Task,       \* the tasks a run submits, each at most once
          Throwing,   \* the tasks whose call leaves through an exception
          NoTask, NoOne

ASSUME PoolAssumption ==
    /\ Workers # {} /\ IsFiniteSet(Workers)     \* assert(numThreads > 0)
    /\ IsFiniteSet(Callers)
    /\ Workers \cap Callers = {}
    /\ NoOne \notin Workers \cup Callers
    /\ NoTask \notin Task
    /\ Throwing \subseteq Task

VARIABLES mtx,         \* Pool::mtx: the thread that holds it
          status,      \* Pool::status
          tasks,       \* Pool::tasks
          wpc,         \* where each worker is in the loop
          task,        \* the worker's local variable task
          apc,         \* where each caller is in AddTask
          arg,         \* the argument of the caller's AddTask
          terminated,  \* std::terminate has ended the process
          added,       \* history: tasks in the order they were pushed
          started,     \* history: tasks in the order they were popped
          finished     \* history: tasks that returned

vars == <<mtx, status, tasks, wpc, task, apc, arg, terminated,
          added, started, finished>>

Init ==
    /\ mtx = NoOne
    /\ status = TRUE
    /\ tasks = <<>>
    /\ wpc = [w \in Workers |-> "lock"]
    /\ task = [w \in Workers |-> NoTask]
    /\ apc = [c \in Callers |-> "idle"]
    /\ arg = [c \in Callers |-> NoTask]
    /\ terminated = FALSE
    /\ added = <<>>
    /\ started = <<>>
    /\ finished = {}

Goto(w, from, to) == wpc[w] = from /\ wpc' = [wpc EXCEPT ![w] = to]

-----------------------------------------------------------------------------
(* The worker loop.                                                        *)

\* unique_lock's constructor, lock.lock() after a task, and the relock that
\* ends cv.wait.
AcquireLock(w) ==
    /\ Goto(w, "lock", "top")
    /\ mtx = NoOne
    /\ mtx' = w
    /\ UNCHANGED <<status, tasks, task, apc, arg, terminated,
                   added, started, finished>>

\* Take t, keep rest, release the mutex.
Pop(w, t, rest) ==
    /\ Goto(w, "top", "run")
    /\ tasks # <<>>
    /\ task' = [task EXCEPT ![w] = t]
    /\ tasks' = rest
    /\ started' = Append(started, t)
    /\ mtx' = NoOne
    /\ UNCHANGED <<status, apc, arg, terminated, added, finished>>

\* Faults: front() without pop(); the newest task is taken, as from a stack.
FaultPopKeepsTask(w) == Pop(w, Head(tasks), tasks)
FaultPopNewest(w) == Pop(w, tasks[Len(tasks)], SubSeq(tasks, 1, Len(tasks) - 1))

\* A task is queued: pop it, release the mutex and call it.
PopTask(w) == Pop(w, Head(tasks), Tail(tasks))

Leave(w, to) ==
    /\ Goto(w, "top", to)
    /\ mtx' = NoOne
    /\ UNCHANGED <<status, tasks, task, apc, arg, terminated,
                   added, started, finished>>

\* Fault: the status flag is tested before the queue.
FaultExitLeavesTasks(w) == ~status /\ Leave(w, "exited")

\* No task and the pool is closed: leave the loop, the lock is released.
ExitLoop(w) == tasks = <<>> /\ ~status /\ Leave(w, "exited")

\* No task and the pool is open: cv.wait releases the mutex and sleeps.
CvWait(w) == tasks = <<>> /\ status /\ Leave(w, "wait")

\* task() returns and the closure is destroyed; next is lock.lock().
TaskReturns(w) ==
    /\ Goto(w, "run", "lock")
    /\ task[w] \notin Throwing
    /\ finished' = finished \cup {task[w]}
    /\ task' = [task EXCEPT ![w] = NoTask]
    /\ UNCHANGED <<mtx, status, tasks, apc, arg, terminated, added, started>>

\* task() throws: nothing in the thread function catches it.
TaskThrows(w) ==
    /\ wpc[w] = "run"
    /\ task[w] \in Throwing
    /\ terminated' = TRUE
    /\ UNCHANGED <<mtx, status, tasks, wpc, task, apc, arg,
                   added, started, finished>>

\* condition_variable::wait may return without a notification.
SpuriousWakeup(w) ==
    /\ Goto(w, "wait", "lock")
    /\ UNCHANGED <<mtx, status, tasks, task, apc, arg, terminated,
                   added, started, finished>>

-----------------------------------------------------------------------------
(* AddTask and the destructor.                                             *)

Fresh(t) == \A i \in 1..Len(added) : added[i] # t

\* lock_guard and LOG_INFO, which runs with the mutex held.  status is part of
\* the guard because nobody may call a member of a destroyed pool.
AddTaskLock(c, t) ==
    /\ apc[c] = "idle"
    /\ status
    /\ mtx = NoOne
    /\ Fresh(t)
    /\ mtx' = c
    /\ apc' = [apc EXCEPT ![c] = "locked"]
    /\ arg' = [arg EXCEPT ![c] = t]
    /\ UNCHANGED <<status, tasks, wpc, task, terminated,
                   added, started, finished>>

Push(c, ts) ==
    /\ apc[c] = "locked"
    /\ tasks' = ts
    /\ added' = Append(added, arg[c])
    /\ arg' = [arg EXCEPT ![c] = NoTask]
    /\ mtx' = NoOne
    /\ apc' = [apc EXCEPT ![c] = "notify"]
    /\ UNCHANGED <<status, wpc, task, terminated, started, finished>>

\* Faults: the task is queued in front of the older ones; it is moved from before
\* it is queued.
FaultPushFront(c) == Push(c, <<arg[c]>> \o tasks)
FaultPushMovedFrom(c) == Push(c, Append(tasks, NoTask))

\* tasks.emplace, then the end of the lock_guard's block.
AddTaskPush(c) == Push(c, Append(tasks, arg[c]))

Sleeping == {w \in Workers : wpc[w] = "wait"}

NotifyOne ==
    \/ Sleeping = {} /\ UNCHANGED wpc
    \/ \E w \in Sleeping : wpc' = [wpc EXCEPT ![w] = "lock"]

AddTaskEnds(c) ==
    /\ apc[c] = "notify"
    /\ apc' = [apc EXCEPT ![c] = "idle"]
    /\ UNCHANGED <<mtx, status, tasks, task, arg, terminated,
                   added, started, finished>>

\* Fault: notify_one is forgotten.
FaultNoNotify(c) == AddTaskEnds(c) /\ UNCHANGED wpc

\* cv.notify_one, outside the mutex: one sleeper, if there is any.
AddTaskNotify(c) == AddTaskEnds(c) /\ NotifyOne

\* No call of AddTask is under way, the flag is cleared under the mutex.
Close ==
    /\ status
    /\ \A c \in Callers : apc[c] = "idle"
    /\ mtx = NoOne
    /\ status' = FALSE
    /\ UNCHANGED <<mtx, tasks, task, apc, arg, terminated,
                   added, started, finished>>

\* Fault: notify_one where notify_all is needed.
FaultDestroyNotifiesOne == Close /\ NotifyOne

\* ~ThreadPool: notify_all under the mutex, nobody is joined.
Destroy ==
    /\ Close
    /\ wpc' = [w \in Workers |-> IF wpc[w] = "wait" THEN "lock" ELSE wpc[w]]

-----------------------------------------------------------------------------
LoopStep(w) ==
    \/ AcquireLock(w) \/ PopTask(w) \/ ExitLoop(w) \/ CvWait(w)
    \/ TaskReturns(w) \/ TaskThrows(w)

FinishAddTask(c) == AddTaskPush(c) \/ AddTaskNotify(c)

Next ==
    /\ ~terminated
    /\ \/ \E w \in Workers : LoopStep(w) \/ SpuriousWakeup(w)
       \/ \E c \in Callers : (\E t \in Task : AddTaskLock(c, t)) \/ FinishAddTask(c)
       \/ Destroy

\* Threads that can run do run, and a call of AddTask that has begun is
\* completed; nobody is obliged to call AddTask or to destroy the pool, and
\* the mutex is not assumed to be fair.
Fairness ==
    /\ \A w \in Workers : WF_vars(~terminated /\ LoopStep(w))
    /\ \A c \in Callers : WF_vars(~terminated /\ FinishAddTask(c))

SafeSpec == Init /\ [][Next]_vars
Spec == SafeSpec /\ Fairness

-----------------------------------------------------------------------------
(* Properties.                                                             *)

\* Every variable has the type of the member or local it models.
TypeOK ==
    /\ mtx \in Workers \cup Callers \cup {NoOne}
    /\ status \in BOOLEAN
    /\ tasks \in Seq(Task)
    /\ wpc \in [Workers -> {"lock", "top", "wait", "run", "exited"}]
    /\ task \in [Workers -> Task \cup {NoTask}]
    /\ apc \in [Callers -> {"idle", "locked", "notify"}]
    /\ arg \in [Callers -> Task \cup {NoTask}]
    /\ terminated \in BOOLEAN
    /\ added \in Seq(Task)
    /\ started \in Seq(Task)
    /\ finished \in SUBSET Task

\* The pool starts tasks in exactly the order in which AddTask pushed them and
\* loses none: what was added is what was started followed by what is queued.
FifoOrder == added = started \o tasks

\* No task is executed by two workers at once, nor started again after it
\* returned, however pops, wake-ups and relocks interleave.
RunsOnce ==
    /\ \A v, w \in Workers : task[v] = task[w] /\ task[w] # NoTask => v = w
    /\ \A w \in Workers : task[w] \notin finished

\* Workers on their way to the test of the queue, and callers between their
\* push and their notify_one.
Heading == {w \in Workers : wpc[w] \in {"lock", "top"}}
Notifying == {c \in Callers : apc[c] = "notify"}

\* No lost wake-up: while a worker sleeps in cv.wait, every queued task has a
\* worker already heading for the queue or a notify_one still to come, although
\* AddTask notifies outside the mutex.
WorkConserving ==
    Sleeping # {} => Len(tasks) <= Cardinality(Heading) + Cardinality(Notifying)

\* The destructor abandons no task: a worker leaves its loop only when the pool
\* is closed and everything queued before has been started.
DrainedOnExit ==
    (\E w \in Workers : wpc[w] = "exited") => ~status /\ tasks = <<>>

\* The invariant that carries the properties above through every step: the mutex
\* is held by the thread that is between lock and unlock, a caller inside AddTask
\* keeps the pool open and pushes a task nobody pushed before, local variables
\* hold a task exactly while it runs, and a task that runs or returned was popped.
MutexHeld ==
    /\ \A w \in Workers : wpc[w] = "top" => mtx = w
    /\ \A c \in Callers : apc[c] = "locked" => mtx = c

CallerInv ==
    /\ \A c \in Callers : apc[c] # "idle" => status
    /\ \A c \in Callers : apc[c] = "locked" => arg[c] \in Task /\ Fresh(arg[c])

LocalInv == \A w \in Workers : task[w] # NoTask <=> wpc[w] = "run"

HistoryInv ==
    /\ \A i, j \in 1..Len(added) : added[i] = added[j] => i = j
    /\ \A w \in Workers :
         wpc[w] = "run" => \E i \in 1..Len(started) : started[i] = task[w]
    /\ \A t \in finished : \E i \in 1..Len(started) : started[i] = t

PoolInv ==
    /\ TypeOK /\ MutexHeld /\ CallerInv /\ LocalInv /\ HistoryInv
    /\ FifoOrder /\ RunsOnce /\ WorkConserving /\ DrainedOnExit

\* Every task that AddTask accepted is executed to its end (or an exception of
\* some task has ended the process).
TaskEventuallyDone ==
    \A t \in Task : ~Fresh(t) ~> (t \in finished \/ terminated)

\* After the destructor every detached worker leaves its loop.
ShutdownCompletes ==
    ~status ~> (terminated \/ \A w \in Workers : wpc[w] = "exited")

\* The pool implements TaskPool: the queue is the queue, a worker runs what its
\* local variable holds.
Abs == INSTANCE TaskPool WITH queue <- tasks, running <- task

\* Safety part of the refinement: every step of a thread is a step of TaskPool
\* or changes nothing TaskPool sees.
ImplementsPoolSafety == Abs!PoolSafeSpec

\* The refinement with liveness: while no task throws, a queued task does not wait
\* for ever when a worker is idle.
ImplementsPool == []~terminated => Abs!PoolFairness
=============================================================================
