------------------------------ MODULE TaskPool ------------------------------
(***************************************************************************)
(* What include/threadpool.hpp promises to its users, free of mutexes and  *)
(* condition variables: tasks start in the order in which AddTask queued   *)
(* them, each on one worker, and a queued task is started as long as some  *)
(* worker is idle.  ThreadPool implements this specification; WebServer    *)
(* uses its actions.                                                       *)
(***************************************************************************)
EXTENDS Sequences

CONSTANTS Workers,   \* the threads the constructor detaches
          Task,      \* what AddTask may be given
          NoTask     \* the value of running[w] while w is idle

VARIABLES queue,     \* tasks added and not yet started
          running    \* the task each worker executes

poolVars == <<queue, running>>

PoolTypeOK ==
    /\ queue \in Seq(Task)
    /\ running \in [Workers -> Task \cup {NoTask}]

PoolInit ==
    /\ queue = <<>>
    /\ running = [w \in Workers |-> NoTask]

\* AddTask: the task goes to the back of the queue.
Submit(t) ==
    /\ queue' = Append(queue, t)
    /\ UNCHANGED running

\* An idle worker takes the oldest task.
StartTask(w) ==
    /\ running[w] = NoTask
    /\ queue # <<>>
    /\ queue' = Tail(queue)
    /\ running' = [running EXCEPT ![w] = Head(queue)]

\* The task returns; the worker is idle again.
FinishTask(w) ==
    /\ running[w] # NoTask
    /\ running' = [running EXCEPT ![w] = NoTask]
    /\ UNCHANGED queue

PoolNext ==
    \/ \E t \in Task : Submit(t)
    \/ \E w \in Workers : StartTask(w) \/ FinishTask(w)

PoolSafeSpec == PoolInit /\ [][PoolNext]_poolVars

\* While a worker is idle and a task is queued, some worker starts a task.
PoolFairness == WF_poolVars(\E w \in Workers : StartTask(w))

PoolSpec == PoolSafeSpec /\ PoolFairness
=============================================================================
