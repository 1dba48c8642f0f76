-------------------------- MODULE ThreadPool_proofs --------------------------
(***************************************************************************)
(* Proofs about ThreadPool for any number of workers, callers and tasks.   *)
(* PoolInv is shown inductive one conjunct at a time, each lemma with one  *)
(* step per action; the safety properties and the refinement of TaskPool   *)
(* follow from it.                                                         *)
(***************************************************************************)
EXTENDS ThreadPool, SequenceLemmas, FiniteSetTheorems, TLAPS

\* What every step of the pool is, one disjunct per action.
LEMMA StepCases ==
  ASSUME [Next]_vars
  PROVE  \/ \E w \in Workers :
              \/ AcquireLock(w) \/ PopTask(w) \/ ExitLoop(w) \/ CvWait(w)
              \/ TaskReturns(w) \/ TaskThrows(w) \/ SpuriousWakeup(w)
         \/ \E c \in Callers :
              \/ \E t \in Task : AddTaskLock(c, t)
              \/ AddTaskPush(c) \/ AddTaskNotify(c)
         \/ Destroy
         \/ UNCHANGED vars
  BY DEF Next, LoopStep, FinishAddTask

\* Init establishes every conjunct of the invariant.
LEMMA InvInit == Init => PoolInv
  <1> SUFFICES ASSUME Init PROVE PoolInv
    OBVIOUS
  <1>1. TypeOK
    <2>1. status \in BOOLEAN /\ terminated \in BOOLEAN
      BY Zenon DEF Init
    <2> QED
      BY <2>1 DEF Init, TypeOK
  <1>2. MutexHeld /\ CallerInv /\ LocalInv /\ HistoryInv
    BY PoolAssumption DEF Init, MutexHeld, CallerInv, LocalInv, HistoryInv
  <1>3. FifoOrder
    BY DEF Init, FifoOrder
  <1>4. RunsOnce /\ DrainedOnExit
    BY DEF Init, RunsOnce, DrainedOnExit
  <1>5. WorkConserving
    BY DEF Init, WorkConserving, Sleeping
  <1> QED
    BY <1>1, <1>2, <1>3, <1>4, <1>5 DEF PoolInv

\* Every action keeps every variable in its type.
LEMMA TypeNext ==
  ASSUME TypeOK, CallerInv, LocalInv, [Next]_vars
  PROVE  TypeOK'
  <1> USE DEF TypeOK, Goto
  <1>1. ASSUME NEW w \in Workers, AcquireLock(w) PROVE TypeOK'
    BY <1>1 DEF AcquireLock
  <1>2. ASSUME NEW w \in Workers, PopTask(w) PROVE TypeOK'
    BY <1>2 DEF PopTask, Pop
  <1>3. ASSUME NEW w \in Workers, ExitLoop(w) PROVE TypeOK'
    BY <1>3 DEF ExitLoop, Leave
  <1>4. ASSUME NEW w \in Workers, CvWait(w) PROVE TypeOK'
    BY <1>4 DEF CvWait, Leave
  <1>5. ASSUME NEW w \in Workers, TaskReturns(w) PROVE TypeOK'
    <2>1. finished' \in SUBSET Task
      BY <1>5 DEF TaskReturns, LocalInv
    <2> QED
      BY <1>5, <2>1 DEF TaskReturns
  <1>6. ASSUME NEW w \in Workers, TaskThrows(w) PROVE TypeOK'
    BY <1>6 DEF TaskThrows
  <1>7. ASSUME NEW w \in Workers, SpuriousWakeup(w) PROVE TypeOK'
    BY <1>7 DEF SpuriousWakeup
  <1>8. ASSUME NEW c \in Callers, NEW t \in Task, AddTaskLock(c, t) PROVE TypeOK'
    BY <1>8 DEF AddTaskLock
  <1>9. ASSUME NEW c \in Callers, AddTaskPush(c) PROVE TypeOK'
    BY <1>9 DEF AddTaskPush, Push, CallerInv
  <1>10. ASSUME NEW c \in Callers, AddTaskNotify(c) PROVE TypeOK'
    BY <1>10 DEF AddTaskNotify, AddTaskEnds, NotifyOne, Sleeping
  <1>11. CASE Destroy
    BY <1>11 DEF Destroy, Close
  <1>12. CASE UNCHANGED vars
    BY <1>12 DEF vars
  <1> QED
    BY <1>1, <1>2, <1>3, <1>4, <1>5, <1>6, <1>7, <1>8, <1>9, <1>10, <1>11,
       <1>12, StepCases

\* The mutex, the callers' and the workers' local variables stay consistent.
LEMMA LockNext ==
  ASSUME TypeOK, MutexHeld, CallerInv, LocalInv, [Next]_vars
  PROVE  MutexHeld' /\ CallerInv' /\ LocalInv'
  <1> DEFINE LInv == MutexHeld /\ CallerInv /\ LocalInv
  <1> USE PoolAssumption DEF TypeOK, Goto, MutexHeld, CallerInv, LocalInv, Fresh
  <1>1. ASSUME NEW w \in Workers, AcquireLock(w) PROVE LInv'
    BY <1>1 DEF AcquireLock
  <1>2. ASSUME NEW w \in Workers, PopTask(w) PROVE LInv'
    BY <1>2 DEF PopTask, Pop
  <1>3. ASSUME NEW w \in Workers, ExitLoop(w) PROVE LInv'
    BY <1>3 DEF ExitLoop, Leave
  <1>4. ASSUME NEW w \in Workers, CvWait(w) PROVE LInv'
    BY <1>4 DEF CvWait, Leave
  <1>5. ASSUME NEW w \in Workers, TaskReturns(w) PROVE LInv'
    BY <1>5 DEF TaskReturns
  <1>6. ASSUME NEW w \in Workers, TaskThrows(w) PROVE LInv'
    BY <1>6 DEF TaskThrows
  <1>7. ASSUME NEW w \in Workers, SpuriousWakeup(w) PROVE LInv'
    BY <1>7 DEF SpuriousWakeup
  <1>8. ASSUME NEW c \in Callers, NEW t \in Task, AddTaskLock(c, t) PROVE LInv'
    BY <1>8 DEF AddTaskLock
  <1>9. ASSUME NEW c \in Callers, AddTaskPush(c) PROVE LInv'
    BY <1>9 DEF AddTaskPush, Push
  <1>10. ASSUME NEW c \in Callers, AddTaskNotify(c) PROVE LInv'
    BY <1>10 DEF AddTaskNotify, AddTaskEnds, NotifyOne, Sleeping
  <1>11. CASE Destroy
    BY <1>11 DEF Destroy, Close
  <1>12. CASE UNCHANGED vars
    BY <1>12 DEF vars
  <1> QED
    BY <1>1, <1>2, <1>3, <1>4, <1>5, <1>6, <1>7, <1>8, <1>9, <1>10, <1>11,
       <1>12, StepCases

\* Only PopTask and AddTaskPush touch the queue and its histories.
LEMMA QueueUnchanged ==
  ASSUME TypeOK, [Next]_vars,
         ~ \E w \in Workers : PopTask(w),
         ~ \E c \in Callers : AddTaskPush(c)
  PROVE  UNCHANGED <<tasks, added, started>>
  BY StepCases DEF AcquireLock, ExitLoop, CvWait, Leave, TaskReturns, TaskThrows,
     SpuriousWakeup, AddTaskLock, AddTaskNotify, AddTaskEnds, NotifyOne,
     Destroy, Close, vars

\* FifoOrder: a pop moves the head from the queue to the end of started, a push
\* appends to both sides.
LEMMA FifoNext ==
  ASSUME TypeOK, CallerInv, FifoOrder, [Next]_vars
  PROVE  FifoOrder'
  <1>1. ASSUME NEW w \in Workers, PopTask(w) PROVE FifoOrder'
    <2>1. /\ tasks \in Seq(Task) /\ started \in Seq(Task) /\ tasks # <<>>
          /\ added' = added
          /\ started' = Append(started, Head(tasks))
          /\ tasks' = Tail(tasks)
      BY <1>1 DEF PopTask, Pop, TypeOK
    <2>2. Append(started, Head(tasks)) \o Tail(tasks) = started \o tasks
      BY <2>1, MoveHead
    <2> QED
      BY <2>1, <2>2 DEF FifoOrder
  <1>2. ASSUME NEW c \in Callers, AddTaskPush(c) PROVE FifoOrder'
    <2>1. /\ tasks \in Seq(Task) /\ started \in Seq(Task) /\ arg[c] \in Task
          /\ added' = Append(added, arg[c])
          /\ tasks' = Append(tasks, arg[c])
          /\ started' = started
      BY <1>2 DEF AddTaskPush, Push, TypeOK, CallerInv
    <2>2. Append(started \o tasks, arg[c]) = started \o Append(tasks, arg[c])
      <3>1. started \o tasks \in Seq(Task) /\ <<arg[c]>> \in Seq(Task)
        BY <2>1, ConcatProperties
      <3>2. Append(started \o tasks, arg[c]) = (started \o tasks) \o <<arg[c]>>
        BY <2>1, <3>1, AppendIsConcat
      <3>3. Append(tasks, arg[c]) = tasks \o <<arg[c]>>
        BY <2>1, AppendIsConcat
      <3> QED
        BY <2>1, <3>1, <3>2, <3>3, ConcatAssociative
    <2> QED
      BY <2>1, <2>2 DEF FifoOrder
  <1> QED
    BY <1>1, <1>2, QueueUnchanged DEF FifoOrder

\* DrainedOnExit: nobody pushes into a closed pool.
LEMMA DrainedNext ==
  ASSUME TypeOK, CallerInv, DrainedOnExit, [Next]_vars
  PROVE  DrainedOnExit'
  <1> USE DEF TypeOK, Goto, CallerInv, DrainedOnExit
  <1>1. ASSUME NEW w \in Workers, AcquireLock(w) PROVE DrainedOnExit'
    BY <1>1 DEF AcquireLock
  <1>2. ASSUME NEW w \in Workers, PopTask(w) PROVE DrainedOnExit'
    BY <1>2 DEF PopTask, Pop
  <1>3. ASSUME NEW w \in Workers, ExitLoop(w) PROVE DrainedOnExit'
    BY <1>3 DEF ExitLoop, Leave
  <1>4. ASSUME NEW w \in Workers, CvWait(w) PROVE DrainedOnExit'
    BY <1>4 DEF CvWait, Leave
  <1>5. ASSUME NEW w \in Workers, TaskReturns(w) PROVE DrainedOnExit'
    BY <1>5 DEF TaskReturns
  <1>6. ASSUME NEW w \in Workers, TaskThrows(w) PROVE DrainedOnExit'
    BY <1>6 DEF TaskThrows
  <1>7. ASSUME NEW w \in Workers, SpuriousWakeup(w) PROVE DrainedOnExit'
    BY <1>7 DEF SpuriousWakeup
  <1>8. ASSUME NEW c \in Callers, NEW t \in Task, AddTaskLock(c, t)
        PROVE  DrainedOnExit'
    BY <1>8 DEF AddTaskLock
  <1>9. ASSUME NEW c \in Callers, AddTaskPush(c) PROVE DrainedOnExit'
    BY <1>9 DEF AddTaskPush, Push
  <1>10. ASSUME NEW c \in Callers, AddTaskNotify(c) PROVE DrainedOnExit'
    BY <1>10 DEF AddTaskNotify, AddTaskEnds, NotifyOne, Sleeping
  <1>11. CASE Destroy
    BY <1>11 DEF Destroy, Close
  <1>12. CASE UNCHANGED vars
    BY <1>12 DEF vars
  <1> QED
    BY <1>1, <1>2, <1>3, <1>4, <1>5, <1>6, <1>7, <1>8, <1>9, <1>10, <1>11,
       <1>12, StepCases

\* HistoryInv and RunsOnce: tasks are pushed once, so the head of the queue is
\* neither running nor finished.
LEMMA OnceNext ==
  ASSUME TypeOK, CallerInv, LocalInv, FifoOrder, HistoryInv, RunsOnce, [Next]_vars
  PROVE  HistoryInv' /\ RunsOnce'
  <1>0. /\ started \in Seq(Task) /\ tasks \in Seq(Task) /\ added \in Seq(Task)
        /\ Len(added) = Len(started) + Len(tasks)
        /\ \A i \in 1..Len(started) : added[i] = started[i]
        /\ \A i \in 1..Len(tasks) : added[Len(started) + i] = tasks[i]
    BY ConcatProperties, LenProperties DEF TypeOK, FifoOrder
  <1>1. ASSUME NEW w \in Workers, PopTask(w) PROVE HistoryInv' /\ RunsOnce'
    <2> DEFINE h == Head(tasks)
    <2>1. /\ tasks # <<>> /\ Len(tasks) \in Nat \ {0} /\ h = tasks[1] /\ h \in Task
          /\ added' = added /\ finished' = finished
          /\ started' = Append(started, h)
          /\ task' = [task EXCEPT ![w] = h]
          /\ wpc' = [wpc EXCEPT ![w] = "run"] /\ wpc[w] = "top"
      BY <1>0, <1>1, EmptySeq, HeadTailProperties DEF PopTask, Pop, Goto
    <2>2. \A i \in 1..Len(started) : started[i] # h
      <3> SUFFICES ASSUME NEW i \in 1..Len(started), started[i] = h PROVE FALSE
        OBVIOUS
      <3>1. added[i] = added[Len(started) + 1] /\ Len(started) + 1 \in 1..Len(added)
            /\ i \in 1..Len(added) /\ i # Len(started) + 1
        BY <1>0, <2>1, LenProperties
      <3> QED
        BY <3>1 DEF HistoryInv
    <2>3. h \notin finished /\ \A v \in Workers : task[v] # h
      BY <2>1, <2>2, PoolAssumption DEF HistoryInv, LocalInv
    <2>4. /\ Len(started') = Len(started) + 1 /\ Len(started) \in Nat
          /\ started'[Len(started) + 1] = h
          /\ \A i \in 1..Len(started) : started'[i] = started[i]
      BY <1>0, <2>1, AppendProperties, LenProperties
    <2>5. \A t : (\E i \in 1..Len(started) : started[i] = t)
                   => (\E i \in 1..Len(started') : started'[i] = t)
      BY <2>4
    <2>6. \E i \in 1..Len(started') : started'[i] = h
      BY <2>4
    <2>7. HistoryInv'
      BY <2>1, <2>5, <2>6, ZenonT(60) DEF HistoryInv, TypeOK
    <2> HIDE DEF h
    <2>8. RunsOnce'
      BY <2>1, <2>3 DEF RunsOnce, TypeOK
    <2> QED
      BY <2>7, <2>8
  <1>2. ASSUME NEW c \in Callers, AddTaskPush(c) PROVE HistoryInv' /\ RunsOnce'
    <2>1. /\ arg[c] \in Task /\ \A i \in 1..Len(added) : added[i] # arg[c]
          /\ added' = Append(added, arg[c])
          /\ UNCHANGED <<started, finished, wpc, task>>
      BY <1>2 DEF AddTaskPush, Push, CallerInv, Fresh
    <2>2. /\ Len(added') = Len(added) + 1 /\ Len(added) \in Nat
          /\ added'[Len(added) + 1] = arg[c]
          /\ \A i \in 1..Len(added) : added'[i] = added[i]
      BY <1>0, <2>1, AppendProperties, LenProperties
    <2>3. \A i, j \in 1..Len(added') : added'[i] = added'[j] => i = j
      BY <2>1, <2>2 DEF HistoryInv
    <2> QED
      BY <2>1, <2>3 DEF HistoryInv, RunsOnce
  <1>3. ASSUME NEW w \in Workers, TaskReturns(w) PROVE HistoryInv' /\ RunsOnce'
    <2>1. /\ wpc[w] = "run" /\ wpc' = [wpc EXCEPT ![w] = "lock"]
          /\ task' = [task EXCEPT ![w] = NoTask]
          /\ finished' = finished \cup {task[w]}
          /\ UNCHANGED <<added, started>>
      BY <1>3 DEF TaskReturns, Goto
    <2>2. \E i \in 1..Len(started) : started[i] = task[w]
      BY <2>1 DEF HistoryInv
    <2>3. task[w] # NoTask /\ NoTask \notin finished
      BY <2>1, PoolAssumption DEF LocalInv, TypeOK
    <2> QED
      BY <2>1, <2>2, <2>3 DEF HistoryInv, RunsOnce, TypeOK
  <1>4. ASSUME ~ \E w \in Workers : PopTask(w) \/ TaskReturns(w),
               ~ \E c \in Callers : AddTaskPush(c)
        PROVE  HistoryInv' /\ RunsOnce'
    <2>1. UNCHANGED <<added, started, finished, task>>
      BY <1>4, StepCases DEF AcquireLock, ExitLoop, CvWait, Leave, TaskThrows,
         SpuriousWakeup, AddTaskLock, AddTaskNotify, AddTaskEnds, NotifyOne,
         Destroy, Close, vars
    <2>2. \A w \in Workers : wpc'[w] = "run" => wpc[w] = "run"
      BY <1>4, StepCases DEF AcquireLock, ExitLoop, CvWait, Leave, TaskThrows, Goto,
         SpuriousWakeup, AddTaskLock, AddTaskNotify, AddTaskEnds, NotifyOne,
         Sleeping, Destroy, Close, vars, TypeOK
    <2> QED
      BY <2>1, <2>2 DEF HistoryInv, RunsOnce
  <1> QED
    BY <1>1, <1>2, <1>3, <1>4

\* The sets that WorkConserving counts are finite.
LEMMA Counting ==
  /\ IsFiniteSet(Heading) /\ Cardinality(Heading) \in Nat
  /\ IsFiniteSet(Notifying) /\ Cardinality(Notifying) \in Nat
  BY PoolAssumption, FS_Subset, FS_CardinalityType DEF Heading, Notifying

\* WorkConserving: a push is matched by the notification that must follow it, a
\* notification by the worker it wakes, and a worker goes to sleep only on an
\* empty queue.
LEMMA WakeupNext ==
  ASSUME TypeOK, CallerInv, WorkConserving, [Next]_vars
  PROVE  WorkConserving'
  <1> USE Counting DEF TypeOK, Goto
  <1>1. ASSUME NEW w \in Workers, AcquireLock(w) PROVE WorkConserving'
    <2>1. Sleeping' = Sleeping /\ Heading' = Heading /\ Notifying' = Notifying
      BY <1>1 DEF AcquireLock, Sleeping, Heading, Notifying
    <2> QED
      BY <1>1, <2>1 DEF AcquireLock, WorkConserving
  <1>2. ASSUME NEW w \in Workers, PopTask(w) PROVE WorkConserving'
    <2>1. /\ Sleeping' = Sleeping /\ Notifying' = Notifying
          /\ Heading' = Heading \ {w} /\ w \in Heading
      BY <1>2 DEF PopTask, Pop, Sleeping, Heading, Notifying
    <2>2. Cardinality(Heading') = Cardinality(Heading) - 1
      BY <2>1, FS_RemoveElement
    <2>3. Len(tasks') = Len(tasks) - 1
      BY <1>2, HeadTailProperties DEF PopTask, Pop
    <2> QED
      BY <2>1, <2>2, <2>3, LenProperties DEF WorkConserving
  <1>0. Cardinality(Heading)' \in Nat /\ Cardinality(Notifying)' \in Nat
    BY PoolAssumption, FS_Subset, FS_CardinalityType DEF Heading, Notifying
  <1>3. ASSUME NEW w \in Workers, ExitLoop(w) PROVE WorkConserving'
    <2>1. Len(tasks') = 0
      BY <1>3 DEF ExitLoop, Leave
    <2> QED
      BY <1>0, <2>1 DEF WorkConserving
  <1>4. ASSUME NEW w \in Workers, CvWait(w) PROVE WorkConserving'
    <2>1. Len(tasks') = 0
      BY <1>4 DEF CvWait, Leave
    <2> QED
      BY <1>0, <2>1 DEF WorkConserving
  <1>5. ASSUME NEW w \in Workers, TaskReturns(w) PROVE WorkConserving'
    <2>1. /\ Sleeping' = Sleeping /\ Notifying' = Notifying /\ tasks' = tasks
          /\ Heading' = Heading \cup {w} /\ w \notin Heading
      BY <1>5 DEF TaskReturns, Sleeping, Heading, Notifying
    <2>2. Cardinality(Heading') = Cardinality(Heading) + 1
      BY <2>1, FS_AddElement
    <2> QED
      BY <2>1, <2>2, LenProperties DEF WorkConserving
  <1>6. ASSUME NEW w \in Workers, TaskThrows(w) PROVE WorkConserving'
    BY <1>6 DEF TaskThrows, WorkConserving, Sleeping, Heading, Notifying
  <1>7. ASSUME NEW w \in Workers, SpuriousWakeup(w) PROVE WorkConserving'
    <2>1. /\ Sleeping' \subseteq Sleeping /\ Notifying' = Notifying /\ tasks' = tasks
          /\ Heading' = Heading \cup {w} /\ w \notin Heading
      BY <1>7 DEF SpuriousWakeup, Sleeping, Heading, Notifying
    <2>2. Cardinality(Heading') = Cardinality(Heading) + 1
      BY <2>1, FS_AddElement
    <2> QED
      BY <2>1, <2>2, LenProperties DEF WorkConserving
  <1>8. ASSUME NEW c \in Callers, NEW t \in Task, AddTaskLock(c, t)
        PROVE  WorkConserving'
    <2>1. Sleeping' = Sleeping /\ Heading' = Heading /\ Notifying' = Notifying
      BY <1>8 DEF AddTaskLock, Sleeping, Heading, Notifying
    <2> QED
      BY <1>8, <2>1 DEF AddTaskLock, WorkConserving
  <1>9. ASSUME NEW c \in Callers, AddTaskPush(c) PROVE WorkConserving'
    <2>1. /\ Sleeping' = Sleeping /\ Heading' = Heading
          /\ Notifying' = Notifying \cup {c} /\ c \notin Notifying
      BY <1>9 DEF AddTaskPush, Push, Sleeping, Heading, Notifying
    <2>2. Cardinality(Notifying') = Cardinality(Notifying) + 1
      BY <2>1, FS_AddElement
    <2>3. Len(tasks') = Len(tasks) + 1
      BY <1>9, AppendProperties DEF AddTaskPush, Push, CallerInv
    <2> QED
      BY <2>1, <2>2, <2>3, LenProperties DEF WorkConserving
  <1>10. ASSUME NEW c \in Callers, AddTaskNotify(c) PROVE WorkConserving'
    <2>1. /\ tasks' = tasks
          /\ Notifying' = Notifying \ {c} /\ c \in Notifying
      BY <1>10 DEF AddTaskNotify, AddTaskEnds, NotifyOne, Notifying
    <2>2. Cardinality(Notifying') = Cardinality(Notifying) - 1
      BY <2>1, FS_RemoveElement
    <2>3. CASE Sleeping = {} /\ UNCHANGED wpc
      BY <2>3 DEF WorkConserving, Sleeping
    <2>4. ASSUME NEW w \in Sleeping, wpc' = [wpc EXCEPT ![w] = "lock"]
          PROVE  WorkConserving'
      <3>1. /\ Heading' = Heading \cup {w} /\ w \notin Heading
            /\ Sleeping # {}
        BY <2>4 DEF Sleeping, Heading
      <3>2. Cardinality(Heading') = Cardinality(Heading) + 1
        BY <3>1, FS_AddElement
      <3> QED
        BY <2>1, <2>2, <3>1, <3>2, LenProperties DEF WorkConserving
    <2> QED
      BY <1>10, <2>3, <2>4 DEF AddTaskNotify, AddTaskEnds, NotifyOne
  <1>11. CASE Destroy
    <2>1. Sleeping' = {}
      BY <1>11 DEF Destroy, Close, Sleeping
    <2> QED
      BY <2>1 DEF WorkConserving
  <1>12. CASE UNCHANGED vars
    BY <1>12 DEF vars, WorkConserving, Sleeping, Heading, Notifying
  <1> QED
    BY <1>1, <1>2, <1>3, <1>4, <1>5, <1>6, <1>7, <1>8, <1>9, <1>10, <1>11,
       <1>12, StepCases

\* PoolInv is an invariant of the pool, whatever the fairness.
THEOREM PoolInvariant == SafeSpec => []PoolInv
  <1>1. PoolInv /\ [Next]_vars => PoolInv'
    BY TypeNext, LockNext, FifoNext, OnceNext, WakeupNext, DrainedNext DEF PoolInv
  <1> QED
    BY InvInit, <1>1, PTL DEF SafeSpec

\* Type correctness of include/threadpool.hpp's state.
THEOREM TypeCorrect == SafeSpec => []TypeOK
  <1>1. PoolInv => TypeOK
    BY DEF PoolInv
  <1> QED
    BY PoolInvariant, <1>1, PTL

\* Tasks start in the order of AddTask and none is lost, for any number of
\* workers and callers.
THEOREM FifoTheorem == SafeSpec => []FifoOrder
  <1>1. PoolInv => FifoOrder
    BY DEF PoolInv
  <1> QED
    BY PoolInvariant, <1>1, PTL

\* No task runs twice, at once or in succession.
THEOREM RunsOnceTheorem == SafeSpec => []RunsOnce
  <1>1. PoolInv => RunsOnce
    BY DEF PoolInv
  <1> QED
    BY PoolInvariant, <1>1, PTL

\* AddTask's notify_one outside the mutex loses no wake-up.
THEOREM NoLostWakeup == SafeSpec => []WorkConserving
  <1>1. PoolInv => WorkConserving
    BY DEF PoolInv
  <1> QED
    BY PoolInvariant, <1>1, PTL

\* The destructor leaves no queued task behind.
THEOREM NoTaskAbandoned == SafeSpec => []DrainedOnExit
  <1>1. PoolInv => DrainedOnExit
    BY DEF PoolInv
  <1> QED
    BY PoolInvariant, <1>1, PTL

\* ThreadPool implements the safety part of TaskPool: a push is Submit, a pop is
\* StartTask, a return is FinishTask, everything else stutters.
THEOREM Refinement == SafeSpec => ImplementsPoolSafety
  <1>1. Init => Abs!PoolInit
    BY DEF Init, Abs!PoolInit
  <1>2. PoolInv /\ [Next]_vars => [Abs!PoolNext]_(Abs!poolVars)
    <2> SUFFICES ASSUME PoolInv, [Next]_vars
                 PROVE  [Abs!PoolNext]_(Abs!poolVars)
      OBVIOUS
    <2> USE DEF PoolInv, TypeOK, Goto
    <2>1. ASSUME NEW w \in Workers, PopTask(w) PROVE Abs!StartTask(w)
      BY <2>1 DEF PopTask, Pop, LocalInv, Abs!StartTask
    <2>2. ASSUME NEW w \in Workers, TaskReturns(w) PROVE Abs!FinishTask(w)
      BY <2>2 DEF TaskReturns, LocalInv, Abs!FinishTask
    <2>3. ASSUME NEW c \in Callers, AddTaskPush(c) PROVE \E t \in Task : Abs!Submit(t)
      BY <2>3 DEF AddTaskPush, Push, CallerInv, Abs!Submit
    <2>4. ASSUME ~ \E w \in Workers : PopTask(w) \/ TaskReturns(w),
                 ~ \E c \in Callers : AddTaskPush(c)
          PROVE  UNCHANGED Abs!poolVars
      BY <2>4, StepCases DEF AcquireLock, ExitLoop, CvWait, Leave, TaskThrows,
         SpuriousWakeup, AddTaskLock, AddTaskNotify, AddTaskEnds, NotifyOne,
         Destroy, Close, vars, Abs!poolVars
    <2> QED
      BY <2>1, <2>2, <2>3, <2>4 DEF Abs!PoolNext
  <1> QED
    BY PoolInvariant, <1>1, <1>2, PTL
       DEF SafeSpec, ImplementsPoolSafety, Abs!PoolSafeSpec
=============================================================================
