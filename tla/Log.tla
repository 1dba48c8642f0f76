-------------------------------- MODULE Log --------------------------------
(***************************************************************************)
(* The logger: the bounded BlockDeque of log/blockqueue.hpp, the threads   *)
(* that log through the LOG_BASE macro (OpenCheck, Write, Flush), the      *)
(* detached LogThread that prints, and ~Log.  A critical section of        *)
(* BlockDeque is one action: it runs with _mtx held and gives it up only   *)
(* to wait, as its last step.  notify_one is inside it, the notify_all     *)
(* calls of Close are not.                                                 *)
(***************************************************************************)
EXTENDS Naturals, Sequences, FiniteSets

CONSTANTS Writers,    \* threads that log
          Cap,        \* _capability
          MaxLines    \* bound: lines each thread writes

ASSUME LogAssumption ==
    /\ IsFiniteSet(Writers)
    /\ Cap \in Nat \ {0} /\ MaxLines \in Nat

VARIABLES dq,       \* BlockDeque::_dq
          open,     \* BlockDeque::_status = dq_open
          statue,   \* Log::_statue = log_open
          pc,       \* where each writer is in LOG_BASE
          line,     \* how many lines each writer has begun
          cpc,      \* where LogThread is
          str,      \* the local str of LogThread: the line it has popped
          zpc,      \* how far ~Log, and ~BlockDeque after it, have come
          closes,   \* calls of Close that are over
          pushed,   \* history: lines in the order of push_back
          printed   \* history: lines in the order of std::cout

vars == <<dq, open, statue, pc, line, cpc, str, zpc, closes, pushed, printed>>
exitVars == <<zpc, closes>>
consumerVars == <<cpc, str, printed>>

Line == Writers \X (1..MaxLines)

Init ==
    /\ dq = <<>> /\ open = TRUE /\ statue = TRUE
    /\ pc = [t \in Writers |-> "idle"]
    /\ line = [t \in Writers |-> 0]
    /\ cpc = "check" /\ str = <<>>
    /\ zpc = "alive" /\ closes = 0
    /\ pushed = <<>> /\ printed = <<>>

-----------------------------------------------------------------------------
(* LOG_BASE.                                                               *)

Goto(t, from, to) == pc[t] = from /\ pc' = [pc EXCEPT ![t] = to]

\* OpenCheck; nothing is written to a closed log.
LogBase(t) ==
    /\ statue /\ line[t] < MaxLines
    /\ Goto(t, "idle", "push")
    /\ line' = [line EXCEPT ![t] = @ + 1]
    /\ UNCHANGED <<dq, open, statue, consumerVars, exitVars, pushed>>

\* Fault: the capacity is tested with > instead of >=.
FaultFullOffByOne == Len(dq) > Cap

Full == Len(dq) >= Cap

\* Fault: push_back does not notify.
FaultPushSilent == cpc' = cpc

\* consumer.notify_one: LogThread is the only consumer.
NotifyConsumer == cpc' = IF cpc = "wait" THEN "woken" ELSE cpc

\* Fault: an important line overtakes the others.
FaultPushFront(x) == dq' = <<x>> \o dq

PushLine(x) == dq' = Append(dq, x)

\* Flush, which follows, takes and releases _bqMutex and changes nothing here.
push_back(t) ==
    /\ Goto(t, "push", "idle")
    /\ ~Full
    /\ PushLine(<<t, line[t]>>)
    /\ pushed' = Append(pushed, <<t, line[t]>>)
    /\ NotifyConsumer
    /\ UNCHANGED <<open, statue, line, str, printed, exitVars>>

push_back_waits(t) ==
    /\ Goto(t, "push", "wait")
    /\ Full
    /\ UNCHANGED <<dq, open, statue, line, consumerVars, exitVars, pushed>>

-----------------------------------------------------------------------------
(* LogThread.                                                              *)

\* The test of _statue at the top of the loop, then the call of pop_front.
CheckStatue ==
    /\ cpc = "check"
    /\ cpc' = IF statue THEN "pop" ELSE "done"
    /\ UNCHANGED <<dq, open, statue, pc, line, str, exitVars, pushed, printed>>

Waiting == {t \in Writers : pc[t] = "wait"}

\* Fault: pop_front does not notify.
FaultPopSilent == UNCHANGED pc

\* producer.notify_one.
NotifyProducer ==
    \/ Waiting = {} /\ UNCHANGED pc
    \/ \E t \in Waiting : pc' = [pc EXCEPT ![t] = "push"]

\* Fault: pop_front does not look at _status.
FaultNeverClosed == FALSE

\* pop_front looks at _status only when it comes back from the wait.
Closed == cpc = "woken" /\ ~open

pop_front ==
    /\ cpc \in {"pop", "woken"} /\ ~Closed /\ dq # <<>>
    /\ str' = <<Head(dq)>>
    /\ dq' = Tail(dq)
    /\ cpc' = "print"
    /\ NotifyProducer
    /\ UNCHANGED <<open, statue, line, exitVars, pushed, printed>>

pop_front_waits ==
    /\ cpc \in {"pop", "woken"} /\ ~Closed /\ dq = <<>>
    /\ cpc' = "wait"
    /\ UNCHANGED <<dq, open, statue, pc, line, str, exitVars, pushed, printed>>

pop_front_fails ==
    /\ Closed
    /\ cpc' = "check"
    /\ UNCHANGED <<dq, open, statue, pc, line, str, exitVars, pushed, printed>>

PrintLine ==
    /\ cpc = "print"
    /\ printed' = printed \o str
    /\ str' = <<>>
    /\ cpc' = "check"
    /\ UNCHANGED <<dq, open, statue, pc, line, exitVars, pushed>>

\* condition_variable::wait may return without a notification.
SpuriousWakeup ==
    /\ \/ /\ cpc = "wait" /\ cpc' = "woken" /\ UNCHANGED pc
       \/ /\ \E t \in Waiting : pc' = [pc EXCEPT ![t] = "push"]
          /\ UNCHANGED cpc
    /\ UNCHANGED <<dq, open, statue, line, str, exitVars, pushed, printed>>

-----------------------------------------------------------------------------
(* The end of the process: ~Log, and then the destructor of the static     *)
(* _bq, which calls Close again.  Threads still run.                       *)

DestroyLog ==
    /\ zpc = "alive" /\ zpc' = "close"
    /\ statue' = FALSE
    /\ UNCHANGED <<closes, dq, open, pc, line, consumerVars, pushed>>

\* BlockDeque::Close: clear and _status under the mutex,
CloseDeque ==
    /\ zpc = "close" /\ zpc' = "wakeConsumers"
    /\ dq' = <<>> /\ open' = FALSE
    /\ UNCHANGED <<closes, statue, pc, line, consumerVars, pushed>>

\* then consumer.notify_all,
WakeConsumers ==
    /\ zpc = "wakeConsumers" /\ zpc' = "wakeProducers"
    /\ NotifyConsumer
    /\ UNCHANGED <<closes, dq, open, statue, pc, line, str, pushed, printed>>

NotifyAllProducers ==
    pc' = [t \in Writers |-> IF pc[t] = "wait" THEN "push" ELSE pc[t]]

\* then producer.notify_all.
WakeProducers ==
    /\ zpc = "wakeProducers"
    /\ closes' = closes + 1
    /\ zpc' = IF closes = 0 THEN "close" ELSE "gone"
    /\ NotifyAllProducers
    /\ UNCHANGED <<dq, open, statue, line, consumerVars, pushed>>

-----------------------------------------------------------------------------
WriterStep(t) == push_back(t) \/ push_back_waits(t)

ConsumerStep ==
    CheckStatue \/ pop_front \/ pop_front_waits \/ pop_front_fails \/ PrintLine

CloseStep == CloseDeque \/ WakeConsumers \/ WakeProducers

Next ==
    \/ \E t \in Writers : LogBase(t) \/ WriterStep(t)
    \/ ConsumerStep \/ SpuriousWakeup
    \/ DestroyLog \/ CloseStep

\* LogThread and a thread inside LOG_BASE keep running, the destructors are not left
\* half-way.
Fairness ==
    /\ \A t \in Writers : WF_vars(WriterStep(t))
    /\ WF_vars(ConsumerStep)
    /\ WF_vars(CloseStep)

SafeSpec == Init /\ [][Next]_vars
Spec == SafeSpec /\ Fairness

-----------------------------------------------------------------------------
(* Properties.                                                             *)

\* Every variable has its type, and the deque never exceeds its capacity.
TypeOK ==
    /\ dq \in Seq(Line) /\ Len(dq) <= Cap
    /\ open \in BOOLEAN /\ statue \in BOOLEAN
    /\ pc \in [Writers -> {"idle", "push", "wait"}]
    /\ line \in [Writers -> 0..MaxLines]
    /\ cpc \in {"check", "pop", "wait", "woken", "print", "done"}
    /\ str \in Seq(Line)
    /\ zpc \in {"alive", "close", "wakeConsumers", "wakeProducers", "gone"}
    /\ closes \in 0..2
    /\ pushed \in Seq(Line) /\ printed \in Seq(Line)

\* Until ~Log clears the deque, lines are printed in the order in which push_back
\* took them, and what is not printed yet is in LogThread's hands or queued.
PrintsInOrder == open => pushed = printed \o str \o dq

\* LogThread does not sleep while lines wait: every push_back reaches it.
ConsumerAwake == cpc = "wait" => dq = <<>>

\* While a writer sleeps, every free slot of the deque has another writer on its
\* way to it.  The clear() of Close breaks this until its producer.notify_all.
ProducersAwake ==
    Waiting # {} /\ zpc \notin {"wakeConsumers", "wakeProducers"} =>
        Cap - Len(dq) <= Cardinality({t \in Writers : pc[t] = "push"})

\* While the log is open every line is printed in the end and no thread is held
\* in push_back for ever, even by a full deque.  The second half rests on MaxLines:
\* neither the mutex nor notify_one is fair, and threads that never stop logging may
\* overtake one writer again and again.
LinesPrinted ==
    /\ \A x \in Line : (\E i \in DOMAIN pushed : pushed[i] = x)
         ~> (~statue \/ \E i \in DOMAIN printed : printed[i] = x)
    /\ \A t \in Writers : pc[t] # "idle" ~> (~statue \/ pc[t] = "idle")

\* LogThread is told to end whatever it is doing when Close begins, even if it has
\* popped a line, sleeps, or was woken and has not looked at _status yet.  Not so
\* between its test of _statue and pop_front, which waits without testing _status.
LogThreadEnds == (zpc = "close" /\ cpc # "pop") ~> cpc = "done"
=============================================================================
