----------------------------- MODULE Log_proofs -----------------------------
(***************************************************************************)
(* Proofs about Log for any number of writers, lines and any capacity.     *)
(* LogInv adds to the checked properties that a writer in push_back has    *)
(* begun a line, that str is empty except between pop_front and printing,  *)
(* and how many calls of Close are over.                                   *)
(***************************************************************************)
EXTENDS Log, SequenceLemmas, FiniteSetTheorems, TLAPS

\* The local variables of the threads.
LocalInv ==
    /\ \A t \in Writers : pc[t] # "idle" => line[t] # 0
    /\ cpc # "print" => str = <<>>
    /\ zpc = "alive" => closes = 0
    /\ zpc # "gone" => closes <= 1

LogInv ==
    /\ TypeOK /\ LocalInv
    /\ PrintsInOrder /\ ConsumerAwake /\ ProducersAwake

\* The writers that ProducersAwake counts.
Pushing == {t \in Writers : pc[t] = "push"}

-----------------------------------------------------------------------------
\* What every step of the logger is, one disjunct per action.
LEMMA StepCases ==
  ASSUME [Next]_vars
  PROVE  \/ \E t \in Writers : LogBase(t) \/ push_back(t) \/ push_back_waits(t)
         \/ CheckStatue \/ pop_front \/ pop_front_waits \/ pop_front_fails \/ PrintLine
         \/ SpuriousWakeup
         \/ DestroyLog \/ CloseDeque \/ WakeConsumers \/ WakeProducers
         \/ UNCHANGED vars
  BY DEF Next, WriterStep, ConsumerStep, CloseStep

\* The empty, open log of Init satisfies every part of the invariant.
LEMMA InvInit == Init => LogInv
  <1> SUFFICES ASSUME Init PROVE LogInv
    OBVIOUS
  <1>1. TypeOK
    BY LogAssumption DEF Init, TypeOK
  <1>2. LocalInv /\ ConsumerAwake
    BY DEF Init, LocalInv, ConsumerAwake
  <1>3. PrintsInOrder
    BY DEF Init, PrintsInOrder
  <1>4. ProducersAwake
    BY DEF Init, ProducersAwake, Waiting
  <1> QED
    BY <1>1, <1>2, <1>3, <1>4 DEF LogInv

\* A line that push_back takes has been begun.
LEMMA LineBegun ==
  ASSUME TypeOK, LocalInv, NEW t \in Writers, pc[t] = "push"
  PROVE  <<t, line[t]>> \in Line
  <1>1. line[t] \in 1..MaxLines
    BY LogAssumption DEF TypeOK, LocalInv
  <1> QED
    BY <1>1 DEF Line

\* Every action keeps every variable in its type; push_back is the only one that
\* adds to the deque, and it finds room.
LEMMA TypeNext ==
  ASSUME TypeOK, LocalInv, [Next]_vars
  PROVE  TypeOK' /\ LocalInv'
  <1> USE LogAssumption DEF TypeOK, LocalInv, Goto, exitVars, consumerVars
  <1>1. ASSUME NEW t \in Writers, LogBase(t) PROVE TypeOK' /\ LocalInv'
    BY <1>1 DEF LogBase
  <1>2. ASSUME NEW t \in Writers, push_back(t) PROVE TypeOK' /\ LocalInv'
    <2>1. <<t, line[t]>> \in Line
      BY <1>2, LineBegun DEF push_back
    <2>2. /\ dq' \in Seq(Line) /\ Len(dq') = Len(dq) + 1 /\ Len(dq') <= Cap
          /\ pushed' \in Seq(Line)
      BY <1>2, <2>1, AppendProperties, LenProperties DEF push_back, PushLine, Full
    <2> QED
      BY <1>2, <2>2 DEF push_back, NotifyConsumer
  <1>3. ASSUME NEW t \in Writers, push_back_waits(t) PROVE TypeOK' /\ LocalInv'
    BY <1>3 DEF push_back_waits
  <1>4. CASE CheckStatue
    BY <1>4 DEF CheckStatue
  <1>5. CASE pop_front
    <2>1. /\ str' \in Seq(Line) /\ dq' \in Seq(Line) /\ Len(dq') <= Cap
      BY <1>5, HeadTailProperties, LenProperties DEF pop_front
    <2> QED
      BY <1>5, <2>1 DEF pop_front, NotifyProducer, Waiting
  <1>6. CASE pop_front_waits
    BY <1>6 DEF pop_front_waits
  <1>7. CASE pop_front_fails
    BY <1>7 DEF pop_front_fails, Closed
  <1>8. CASE PrintLine
    <2>1. printed' \in Seq(Line)
      BY <1>8, ConcatProperties DEF PrintLine
    <2> QED
      BY <1>8, <2>1 DEF PrintLine
  <1>9. CASE SpuriousWakeup
    BY <1>9 DEF SpuriousWakeup, Waiting
  <1>10. CASE DestroyLog
    <2>1. statue' \in BOOLEAN
      BY <1>10, Zenon DEF DestroyLog
    <2> QED
      BY <1>10, <2>1 DEF DestroyLog
  <1>11. CASE CloseDeque
    <2>1. open' \in BOOLEAN
      BY <1>11, Zenon DEF CloseDeque
    <2> QED
      BY <1>11, <2>1 DEF CloseDeque
  <1>12. CASE WakeConsumers
    BY <1>12 DEF WakeConsumers, NotifyConsumer
  <1>13. CASE WakeProducers
    BY <1>13 DEF WakeProducers, NotifyAllProducers
  <1>14. CASE UNCHANGED vars
    BY <1>14 DEF vars
  <1> QED
    BY <1>1, <1>2, <1>3, <1>4, <1>5, <1>6, <1>7, <1>8, <1>9, <1>10, <1>11,
       <1>12, <1>13, <1>14, StepCases

\* PrintsInOrder: push_back appends on both sides, pop_front moves the head of the
\* deque to LogThread and printing moves it on.  Close empties the deque, but then
\* the log is not open any more.
LEMMA OrderNext ==
  ASSUME TypeOK, LocalInv, PrintsInOrder, [Next]_vars
  PROVE  PrintsInOrder'
  <1> DEFINE done == printed \o str
  <1>0. /\ dq \in Seq(Line) /\ str \in Seq(Line) /\ printed \in Seq(Line)
        /\ done \in Seq(Line) /\ printed \o <<>> = printed
        /\ open => pushed = done \o dq
    BY ConcatProperties, ConcatEmptySeq DEF TypeOK, PrintsInOrder
  <1>1. ASSUME NEW t \in Writers, push_back(t) PROVE PrintsInOrder'
    <2> DEFINE x == <<t, line[t]>>
    <2>1. /\ x \in Line /\ dq' = Append(dq, x) /\ pushed' = Append(pushed, x)
          /\ done' = done /\ open' = open
      BY <1>1, LineBegun DEF push_back, PushLine, Goto
    <2> HIDE DEF x, done
    <2>2. Append(done \o dq, x) = done \o Append(dq, x)
      <3>1. done \o dq \in Seq(Line) /\ <<x>> \in Seq(Line)
        BY <1>0, <2>1, ConcatProperties
      <3>2. Append(done \o dq, x) = (done \o dq) \o <<x>>
        BY <2>1, <3>1, AppendIsConcat
      <3>3. Append(dq, x) = dq \o <<x>>
        BY <1>0, <2>1, AppendIsConcat
      <3> QED
        BY <1>0, <3>1, <3>2, <3>3, ConcatAssociative, SMTT(60)
    <2>3. open' => pushed' = done' \o dq'
      BY <1>0, <2>1, <2>2
    <2> QED
      BY <2>3 DEF PrintsInOrder, done
  <1>2. CASE pop_front
    <2>1. /\ dq # <<>> /\ dq' = Tail(dq) /\ str' = <<Head(dq)>> /\ str = <<>>
          /\ UNCHANGED <<open, pushed, printed>>
      BY <1>2 DEF pop_front, LocalInv
    <2>2. Head(dq) \in Line /\ done = printed
      BY <1>0, <2>1, HeadTailProperties
    <2>3. Append(printed, Head(dq)) \o Tail(dq) = printed \o dq
      BY <1>0, <2>1, MoveHead
    <2>4. Append(printed, Head(dq)) = printed \o <<Head(dq)>>
      BY <1>0, <2>2, AppendIsConcat
    <2> QED
      BY <1>0, <2>1, <2>2, <2>3, <2>4 DEF PrintsInOrder
  <1>3. CASE PrintLine
    <2>1. /\ printed' = done /\ str' = <<>> /\ UNCHANGED <<dq, open, pushed>>
      BY <1>3 DEF PrintLine
    <2>2. printed' \o str' = done
      BY <1>0, <2>1, ConcatEmptySeq
    <2> QED
      BY <1>0, <2>1, <2>2 DEF PrintsInOrder
  <1>4. CASE CloseDeque
    BY <1>4 DEF CloseDeque, PrintsInOrder
  <1>5. ASSUME ~ \E t \in Writers : push_back(t),
               ~pop_front, ~PrintLine, ~CloseDeque
        PROVE  UNCHANGED <<dq, open, str, pushed, printed>>
    BY <1>5, StepCases DEF LogBase, push_back_waits, CheckStatue, pop_front_waits,
       pop_front_fails, SpuriousWakeup, DestroyLog, WakeConsumers, WakeProducers,
       consumerVars, vars
  <1> QED
    BY <1>1, <1>2, <1>3, <1>4, <1>5 DEF PrintsInOrder

\* ConsumerAwake: push_back wakes LogThread, and nothing else adds to the deque.
LEMMA ConsumerNext ==
  ASSUME TypeOK, ConsumerAwake, [Next]_vars
  PROVE  ConsumerAwake'
  BY StepCases DEF TypeOK, ConsumerAwake, LogBase, push_back, push_back_waits,
     NotifyConsumer, CheckStatue, pop_front, pop_front_waits, pop_front_fails, PrintLine,
     SpuriousWakeup, DestroyLog, CloseDeque, WakeConsumers, WakeProducers,
     consumerVars, vars

\* The writers that ProducersAwake counts are finitely many.
LEMMA Counting ==
  /\ IsFiniteSet(Pushing) /\ Cardinality(Pushing) \in Nat
  /\ Cardinality(Pushing)' \in Nat
  <1>1. IsFiniteSet(Pushing) /\ IsFiniteSet(Pushing')
    BY LogAssumption, FS_Subset DEF Pushing
  <1> QED
    BY <1>1, FS_CardinalityType

\* ProducersAwake: a slot is freed by pop_front, which wakes a writer for it, and
\* taken by a writer that was on its way; a writer goes to sleep only on a full
\* deque.
LEMMA ProducersNext ==
  ASSUME TypeOK, LocalInv, ProducersAwake, [Next]_vars
  PROVE  ProducersAwake'
  <1> DEFINE quiet == zpc \notin {"wakeConsumers", "wakeProducers"}
  <1> USE LogAssumption, Counting
  <1>0. /\ dq \in Seq(Line) /\ Len(dq) \in Nat /\ Len(dq) <= Cap /\ Cap \in Nat
        /\ pc \in [Writers -> {"idle", "push", "wait"}]
    BY LenProperties DEF TypeOK
  <1>1. ASSUME NEW t \in Writers, LogBase(t) PROVE ProducersAwake'
    <2>1. /\ Waiting' = Waiting /\ Pushing' = Pushing \cup {t} /\ t \notin Pushing
          /\ UNCHANGED <<dq, zpc>>
      BY <1>0, <1>1 DEF LogBase, Goto, Waiting, Pushing, exitVars
    <2>2. Cardinality(Pushing') = Cardinality(Pushing) + 1
      BY <2>1, FS_AddElement
    <2> QED
      BY <1>0, <2>1, <2>2 DEF ProducersAwake, Pushing
  <1>2. ASSUME NEW t \in Writers, push_back(t) PROVE ProducersAwake'
    <2>1. /\ Waiting' = Waiting /\ Pushing' = Pushing \ {t} /\ t \in Pushing
          /\ dq' = Append(dq, <<t, line[t]>>) /\ zpc' = zpc
      BY <1>0, <1>2 DEF push_back, PushLine, Goto, Waiting, Pushing, exitVars
    <2>2. Cardinality(Pushing') = Cardinality(Pushing) - 1
      BY <2>1, FS_RemoveElement
    <2>3. Len(dq') = Len(dq) + 1
      <3>1. <<t, line[t]>> \in Line
        BY <2>1, LineBegun DEF Pushing
      <3> QED
        BY <1>0, <2>1, <3>1, AppendProperties
    <2> QED
      BY <1>0, <2>1, <2>2, <2>3 DEF ProducersAwake, Pushing
  <1>3. ASSUME NEW t \in Writers, push_back_waits(t) PROVE ProducersAwake'
    BY <1>0, <1>3 DEF push_back_waits, Full, ProducersAwake, Pushing
  <1>4. CASE pop_front
    <2>1. dq # <<>> /\ dq' = Tail(dq) /\ zpc' = zpc
      BY <1>4 DEF pop_front, exitVars
    <2>2. Len(dq') = Len(dq) - 1
      BY <1>0, <2>1, HeadTailProperties
    <2>3. CASE Waiting = {} /\ UNCHANGED pc
      BY <2>3 DEF ProducersAwake, Waiting
    <2>4. ASSUME NEW t \in Waiting, pc' = [pc EXCEPT ![t] = "push"]
          PROVE  ProducersAwake'
      <3>1. Pushing' = Pushing \cup {t} /\ t \notin Pushing
        BY <1>0, <2>4 DEF Waiting, Pushing
      <3>2. Cardinality(Pushing') = Cardinality(Pushing) + 1
        BY <3>1, FS_AddElement
      <3> QED
        BY <1>0, <2>1, <2>2, <2>4, <3>2 DEF ProducersAwake, Pushing
    <2> QED
      BY <1>4, <2>3, <2>4 DEF pop_front, NotifyProducer
  <1>5. CASE SpuriousWakeup
    <2>1. CASE UNCHANGED pc
      BY <1>5, <2>1 DEF SpuriousWakeup, ProducersAwake, Waiting, exitVars
    <2>2. ASSUME NEW t \in Waiting, pc' = [pc EXCEPT ![t] = "push"]
          PROVE  ProducersAwake'
      <3>1. /\ Pushing' = Pushing \cup {t} /\ t \notin Pushing
            /\ UNCHANGED <<dq, zpc>>
        BY <1>0, <1>5, <2>2 DEF Waiting, Pushing, SpuriousWakeup, exitVars
      <3>2. Cardinality(Pushing') = Cardinality(Pushing) + 1
        BY <3>1, FS_AddElement
      <3> QED
        BY <1>0, <2>2, <3>1, <3>2 DEF ProducersAwake, Pushing
    <2> QED
      BY <1>5, <2>1, <2>2 DEF SpuriousWakeup
  <1>6. CASE WakeProducers
    <2>1. Waiting' = {}
      BY <1>0, <1>6 DEF WakeProducers, NotifyAllProducers, Waiting
    <2> QED
      BY <2>1 DEF ProducersAwake
  <1>7. CASE CloseDeque \/ WakeConsumers
    BY <1>7 DEF CloseDeque, WakeConsumers, ProducersAwake
  <1>8. CASE CheckStatue \/ pop_front_waits \/ pop_front_fails \/ PrintLine
             \/ DestroyLog \/ UNCHANGED vars
    <2>1. UNCHANGED <<dq, pc>> /\ (zpc' = zpc \/ quiet)
      BY <1>8 DEF CheckStatue, pop_front_waits, pop_front_fails, PrintLine,
         DestroyLog, exitVars, vars
    <2> QED
      BY <2>1 DEF ProducersAwake, Waiting
  <1> QED
    BY <1>1, <1>2, <1>3, <1>4, <1>5, <1>6, <1>7, <1>8, StepCases

-----------------------------------------------------------------------------
\* LogInv is an invariant of the logger, whatever the fairness.
THEOREM LogInvariant == SafeSpec => []LogInv
  <1>1. LogInv /\ [Next]_vars => LogInv'
    BY TypeNext, OrderNext, ConsumerNext, ProducersNext DEF LogInv
  <1> QED
    BY InvInit, <1>1, PTL DEF SafeSpec

\* Type correctness of the logger; the deque never exceeds its capacity.
THEOREM TypeCorrect == SafeSpec => []TypeOK
  <1>1. LogInv => TypeOK
    BY DEF LogInv
  <1> QED
    BY LogInvariant, <1>1, PTL

\* Lines are printed in the order of push_back and none is lost while the log is
\* open.
THEOREM PrintsInOrderTheorem == SafeSpec => []PrintsInOrder
  <1>1. LogInv => PrintsInOrder
    BY DEF LogInv
  <1> QED
    BY LogInvariant, <1>1, PTL

\* LogThread never sleeps on a deque that holds lines.
THEOREM ConsumerAwakeTheorem == SafeSpec => []ConsumerAwake
  <1>1. LogInv => ConsumerAwake
    BY DEF LogInv
  <1> QED
    BY LogInvariant, <1>1, PTL

\* pop_front's notify_one is enough: while a writer sleeps, every free slot has a
\* writer on its way to it, except inside Close.
THEOREM ProducersAwakeTheorem == SafeSpec => []ProducersAwake
  <1>1. LogInv => ProducersAwake
    BY DEF LogInv
  <1> QED
    BY LogInvariant, <1>1, PTL
=============================================================================
