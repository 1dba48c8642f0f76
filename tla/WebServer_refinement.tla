------------------------ MODULE WebServer_refinement ------------------------
(***************************************************************************)
(* WebServer implements Connections, proved step by step from the          *)
(* invariant of WebServer_proofs.  The phase of a connection is read off   *)
(* three facts: whether it is in use, which task is under way for it       *)
(* (HasTask), and whether a reply waits (NoReply).                         *)
(***************************************************************************)
EXTENDS WebServer_proofs

\* A task of this kind waits in the queue for the connection or works on it.
HasTask(fd, k) ==
    \/ \E i \in 1..Len(queue) : queue[i] = [kind |-> k, fd |-> fd]
    \/ \E w \in Workers : Works(w, fd) /\ running[w] = [kind |-> k, fd |-> fd]

\* The holder of a connection decides which task is under way for it.
TaskFacts ==
    \A fd \in Fds :
        /\ ~status[fd] \/ Armed(fd) \/ Reported(fd) => \A k : ~HasTask(fd, k)
        /\ \A i \in 1..Len(queue) : queue[i].fd = fd =>
             \A k : HasTask(fd, k) <=> k = queue[i].kind
        /\ \A w \in Workers : Works(w, fd) =>
             \A k : HasTask(fd, k) <=> k = running[w].kind

\* This follows from HolderInv: no connection has two holders.
LEMMA TaskIs == ServerInv => TaskFacts
  <1> SUFFICES ASSUME ServerInv, NEW fd \in Fds
               PROVE  /\ ~status[fd] \/ Armed(fd) \/ Reported(fd) =>
                           \A k : ~HasTask(fd, k)
                      /\ \A i \in 1..Len(queue) : queue[i].fd = fd =>
                           \A k : HasTask(fd, k) <=> k = queue[i].kind
                      /\ \A w \in Workers : Works(w, fd) =>
                           \A k : HasTask(fd, k) <=> k = running[w].kind
    BY DEF TaskFacts
  <1> USE DEF ServerInv
  <1>1. ASSUME NEW k, HasTask(fd, k)
        PROVE  /\ Queued(fd) \/ Worked(fd)
               /\ \A i \in 1..Len(queue) : queue[i].fd = fd => k = queue[i].kind
               /\ \A w \in Workers : Works(w, fd) => k = running[w].kind
    <2>1. ASSUME NEW i \in 1..Len(queue), queue[i] = [kind |-> k, fd |-> fd]
          PROVE  Queued(fd) /\ \A j \in 1..Len(queue) : queue[j].fd = fd => j = i
      BY <2>1 DEF HolderInv, Queued
    <2>2. ASSUME NEW w \in Workers, Works(w, fd), running[w] = [kind |-> k, fd |-> fd]
          PROVE  Worked(fd) /\ \A v \in Workers : Works(v, fd) => v = w
      BY <2>2 DEF HolderInv, Worked
    <2>3. CASE \E i \in 1..Len(queue) : queue[i] = [kind |-> k, fd |-> fd]
      <3>1. ~Worked(fd)
        BY <2>1, <2>3 DEF HolderInv
      <3> QED
        BY <2>1, <2>3, <3>1 DEF Worked
    <2>4. CASE \E w \in Workers : Works(w, fd) /\ running[w] = [kind |-> k, fd |-> fd]
      <3>1. ~Queued(fd)
        BY <2>2, <2>4 DEF HolderInv
      <3> QED
        BY <2>2, <2>4, <3>1 DEF Queued
    <2> QED
      BY <1>1, <2>3, <2>4 DEF HasTask
  <1>2. ASSUME NEW i \in 1..Len(queue), queue[i].fd = fd
        PROVE  HasTask(fd, queue[i].kind)
    <2>1. queue[i] = [kind |-> queue[i].kind, fd |-> fd]
      BY <1>2, QueuedTask DEF Task
    <2> QED
      BY <2>1 DEF HasTask
  <1>3. ASSUME NEW w \in Workers, Works(w, fd)
        PROVE  HasTask(fd, running[w].kind)
    <2>1. running[w] = [kind |-> running[w].kind, fd |-> fd]
      BY <1>3, TaskFd DEF Task, Works
    <2> QED
      BY <1>3, <2>1 DEF HasTask
  <1>4. ~status[fd] \/ Armed(fd) \/ Reported(fd) => ~Queued(fd) /\ ~Worked(fd)
    BY DEF HolderInv
  <1> QED
    BY <1>1, <1>2, <1>3, <1>4

\* The phase, in terms of these facts.
PhaseFacts ==
    \A fd \in Fds :
        /\ ~status[fd] => PhaseOf(fd) = "free"
        /\ status[fd] /\ HasTask(fd, "read") => PhaseOf(fd) = "reading"
        /\ status[fd] /\ HasTask(fd, "write") => PhaseOf(fd) = "writing"
        /\ status[fd] /\ (\A k : ~HasTask(fd, k)) =>
             PhaseOf(fd) = IF NoReply(fd) THEN "idle" ELSE "pending"

\* The guards of PhaseOf exclude each other, so that its CASE has one value.
LEMMA PhaseIs == ServerInv => PhaseFacts
  <1> SUFFICES ASSUME ServerInv, NEW fd \in Fds
               PROVE  /\ ~status[fd] => PhaseOf(fd) = "free"
                      /\ status[fd] /\ HasTask(fd, "read") => PhaseOf(fd) = "reading"
                      /\ status[fd] /\ HasTask(fd, "write") => PhaseOf(fd) = "writing"
                      /\ status[fd] /\ (\A k : ~HasTask(fd, k)) =>
                           PhaseOf(fd) = IF NoReply(fd) THEN "idle" ELSE "pending"
    BY DEF PhaseFacts
  <1> DEFINE tasks == {queue[i] : i \in DOMAIN queue}
                        \cup {running[w] : w \in {w \in Workers : Works(w, fd)}}
             T(k) == [kind |-> k, fd |-> fd]
  <1>1. DOMAIN queue = 1..Len(queue)
    BY LenProperties DEF ServerInv, TypeOK, Pool!PoolTypeOK
  <1>2. ASSUME NEW k PROVE T(k) \in tasks <=> HasTask(fd, k)
    BY <1>1, Zenon DEF HasTask
  <1>3. WriteableSize(fd) > 0 <=> ~NoReply(fd)
    <2>1. /\ iov[fd][1] \in Nat /\ iov[fd][2] \in Nat
          /\ iov[fd] = <<iov[fd][1], iov[fd][2]>>
      BY DEF ServerInv, TypeOK
    <2>2. NoReply(fd) <=> iov[fd][1] = 0 /\ iov[fd][2] = 0
      BY <2>1 DEF NoReply
    <2> QED
      BY <2>1, <2>2 DEF WriteableSize
  <1>4. /\ ~status[fd] => ~HasTask(fd, "read") /\ ~HasTask(fd, "write")
        /\ ~(HasTask(fd, "read") /\ HasTask(fd, "write"))
    <2>1. TaskFacts
      BY TaskIs
    <2>2. ASSUME HasTask(fd, "read"), HasTask(fd, "write") PROVE FALSE
      <3>1. Queued(fd) \/ Worked(fd)
        BY <2>2 DEF HasTask, Queued, Worked
      <3> QED
        BY <2>1, <2>2, <3>1 DEF TaskFacts, Queued, Worked
    <2> QED
      BY <2>1, <2>2 DEF TaskFacts
  <1>5. PhaseOf(fd) = CASE ~status[fd] -> "free"
                        [] T("read") \in tasks -> "reading"
                        [] T("write") \in tasks -> "writing"
                        [] OTHER -> IF WriteableSize(fd) > 0 THEN "pending" ELSE "idle"
    BY Zenon DEF PhaseOf
  <1> HIDE DEF tasks, T
  <1> QED
    BY <1>2, <1>3, <1>4, <1>5

\* The same of the next state.
LEMMA FactsNext == ServerInv' => TaskFacts' /\ PhaseFacts'
  BY TaskIs, PhaseIs, PTL

-----------------------------------------------------------------------------
(* Steps, seen through PhaseOf.                                            *)

\* A task under way is a read or a write.
LEMMA TaskKinds ==
  ASSUME ServerInv, NEW f \in Fds, NEW k, HasTask(f, k)
  PROVE  k \in {"read", "write"}
  <1>1. CASE \E i \in 1..Len(queue) : queue[i] = [kind |-> k, fd |-> f]
    BY <1>1, QueuedTask DEF ServerInv
  <1>2. CASE \E w \in Workers : Works(w, f) /\ running[w] = [kind |-> k, fd |-> f]
    BY <1>2, TaskFd DEF ServerInv, Works
  <1> QED
    BY <1>1, <1>2 DEF HasTask

\* A connection keeps its phase when nothing that decides it changes; _iov may,
\* while a task is under way.
LEMMA PhaseKept ==
  ASSUME ServerInv, ServerInv', NEW f \in Fds,
         status'[f] = status[f],
         \A k : HasTask(f, k)' <=> HasTask(f, k),
         (NoReply(f)' <=> NoReply(f)) \/ \E k : HasTask(f, k)
  PROVE  PhaseOf(f)' = PhaseOf(f)
  <1>1. PhaseFacts /\ PhaseFacts'
    BY PhaseIs, FactsNext
  <1>2. CASE ~status[f]
    BY <1>1, <1>2 DEF PhaseFacts
  <1>3. CASE status[f] /\ \E k : HasTask(f, k)
    <2>1. HasTask(f, "read") \/ HasTask(f, "write")
      BY <1>3, TaskKinds
    <2>2. CASE HasTask(f, "read")
      <3>1. HasTask(f, "read")' /\ status[f] /\ status'[f]
        BY <1>3, <2>2, Zenon
      <3>2. PhaseOf(f) = "reading"
        BY <1>1, <2>2, <3>1 DEF PhaseFacts
      <3>3. PhaseOf(f)' = "reading"
        BY <1>1, <3>1 DEF PhaseFacts
      <3> QED
        BY <3>2, <3>3
    <2>3. CASE HasTask(f, "write")
      <3>1. HasTask(f, "write")' /\ status[f] /\ status'[f]
        BY <1>3, <2>3, Zenon
      <3>2. PhaseOf(f) = "writing"
        BY <1>1, <2>3, <3>1 DEF PhaseFacts
      <3>3. PhaseOf(f)' = "writing"
        BY <1>1, <3>1 DEF PhaseFacts
      <3> QED
        BY <3>2, <3>3
    <2> QED
      BY <2>1, <2>2, <2>3
  <1>4. CASE status[f] /\ \A k : ~HasTask(f, k)
    <2>1. PhaseOf(f) = IF NoReply(f) THEN "idle" ELSE "pending"
      BY <1>1, <1>4 DEF PhaseFacts
    <2>2. PhaseOf(f)' = IF NoReply(f)' THEN "idle" ELSE "pending"
      BY <1>1, <1>4 DEF PhaseFacts
    <2>3. NoReply(f)' <=> NoReply(f)
      BY <1>4
    <2> QED
      BY <2>1, <2>2, <2>3
  <1> QED
    BY <1>2, <1>3, <1>4

\* A step that changes neither the queue nor who works on a connection keeps its
\* task.
LEMMA TasksKept ==
  ASSUME NEW f, UNCHANGED queue,
         \A w \in Workers : /\ Works(w, f)' <=> Works(w, f)
                            /\ Works(w, f) => running'[w] = running[w]
  PROVE  \A k : HasTask(f, k)' <=> HasTask(f, k)
  BY DEF HasTask

\* One connection moves to another phase.
LEMMA Moved ==
  ASSUME NEW fd \in Fds, NEW from, NEW to,
         PhaseOf(fd) \in from, PhaseOf(fd)' = to,
         \A f \in Fds : f # fd => PhaseOf(f)' = PhaseOf(f)
  PROVE  Abs!Move(fd, from, to)
  BY DEF Abs!Move

\* accept: Open.
LEMMA AcceptClientStep ==
  ASSUME ServerInv, ServerInv', NEW fd \in Fds, AcceptClient(fd)
  PROVE  Abs!Open(fd)
  <1>1. /\ sock[fd] = "closed" /\ ~Full
        /\ status' = [status EXCEPT ![fd] = TRUE]
        /\ interest' = [interest EXCEPT ![fd] = "in"]
        /\ UNCHANGED <<iov, queue, running, at>>
    BY DEF AcceptClient, Accept, InitConnector, addFd, workerVars
  <1>2. PhaseFacts /\ PhaseFacts' /\ TaskFacts'
    BY PhaseIs, FactsNext
  <1>3. \A f \in Fds : f # fd => PhaseOf(f)' = PhaseOf(f)
    <2>1. \A f \in Fds : \A k : HasTask(f, k)' <=> HasTask(f, k)
      BY <1>1, TasksKept DEF Works
    <2>2. \A f \in Fds : f # fd => status'[f] = status[f] /\ (NoReply(f)' <=> NoReply(f))
      BY <1>1 DEF NoReply, ServerInv, TypeOK
    <2> QED
      BY <2>1, <2>2, PhaseKept
  <1>4. PhaseOf(fd) = "free"
    <2>1. ~status[fd]
      BY <1>1 DEF ServerInv, SocketInv
    <2> QED
      BY <1>2, <2>1 DEF PhaseFacts
  <1>5. PhaseOf(fd)' = "idle"
    <2>1. status'[fd] /\ interest'[fd] = "in"
      BY <1>1 DEF ServerInv, TypeOK
    <2>2. NoReply(fd)' /\ Armed(fd)'
      BY <2>1 DEF ServerInv, TurnInv, Armed
    <2> QED
      BY <1>2, <2>1, <2>2 DEF PhaseFacts, TaskFacts
  <1>6. Cardinality(Abs!Active) < MaxClients
    <2>1. Abs!Active = Clients
      <3>1. \A f \in Fds : PhaseOf(f) # "free" <=> status[f]
        <4>1. ASSUME NEW f \in Fds, status[f] PROVE PhaseOf(f) # "free"
          BY <1>2, <4>1, TaskKinds DEF PhaseFacts
        <4> QED
          BY <1>2, <4>1 DEF PhaseFacts
      <3> QED
        BY <3>1, Zenon DEF Abs!Active, Clients
    <2>2. user_cnt = Cardinality(Clients) /\ user_cnt \in 0..MaxClients
      BY ClientsCounted DEF ServerInv, TypeOK
    <2> QED
      BY <1>1, <2>1, <2>2, ServerAssumption DEF Full
  <1>7. Abs!Move(fd, {"free"}, "idle")
    BY <1>3, <1>4, <1>5, Moved
  <1>8. Abs!Cardinality(Abs!Active) = Cardinality(Abs!Active)
    BY DEF Abs!Cardinality, Cardinality
  <1> QED
    BY <1>6, <1>7, <1>8 DEF Abs!Open

\* A connection the main thread has in its batch waits for its next task.
LEMMA ReportedPhase ==
  ASSUME ServerInv, NEW fd \in Fds, Reported(fd)
  PROVE  PhaseOf(fd) = IF NoReply(fd) THEN "idle" ELSE "pending"
  <1>1. status[fd]
    BY DEF ServerInv, HolderInv
  <1>2. PhaseFacts /\ TaskFacts
    BY PhaseIs, TaskIs
  <1> QED
    BY <1>1, <1>2 DEF PhaseFacts, TaskFacts

\* EPOLLIN: BeginRead; EPOLLOUT: BeginWrite.
LEMMA HandleTaskStep ==
  ASSUME ServerInv, ServerInv', NEW fd \in Fds, HandleRead(fd) \/ HandleWrite(fd)
  PROVE  Abs!BeginRead(fd) \/ Abs!BeginWrite(fd)
  <1>1. PICK k \in {"read", "write"} :
          /\ queue' = Append(queue, [kind |-> k, fd |-> fd])
          /\ [fd |-> fd, ev |-> IF k = "read" THEN "in" ELSE "out"] \in batch
    BY DEF HandleRead, HandleWrite, Take, Pool!Submit
  <1>2. PICK t : t = [kind |-> k, fd |-> fd]
    OBVIOUS
  <1>3. UNCHANGED <<status, iov, running, at>>
    BY DEF HandleRead, HandleWrite, Pool!Submit, connectorVars
  <1>4. /\ Len(queue) \in Nat /\ Len(queue') = Len(queue) + 1
        /\ queue'[Len(queue) + 1] = t
        /\ \A i \in 1..Len(queue) : queue'[i] = queue[i]
    <2>1. t \in Task
      BY <1>2 DEF Task
    <2> QED
      BY <1>1, <1>2, <2>1, QueuedTask, AppendProperties DEF ServerInv
  <1>5. PhaseFacts' /\ TaskFacts'
    BY FactsNext
  <1>6. \A f \in Fds : f # fd => PhaseOf(f)' = PhaseOf(f)
    <2>1. ASSUME NEW f \in Fds, f # fd, NEW j
          PROVE  HasTask(f, j)' <=> HasTask(f, j)
      <3>1. (\E i \in 1..Len(queue') : queue'[i] = [kind |-> j, fd |-> f])
              <=> (\E i \in 1..Len(queue) : queue[i] = [kind |-> j, fd |-> f])
        <4>1. ASSUME NEW i \in 1..Len(queue'), queue'[i] = [kind |-> j, fd |-> f]
              PROVE  i \in 1..Len(queue)
          BY <1>2, <1>4, <2>1, <4>1
        <4>2. 1..Len(queue) \subseteq 1..Len(queue')
          BY <1>4
        <4> QED
          BY <1>4, <4>1, <4>2
      <3>2. \A w \in Workers : Works(w, f)' <=> Works(w, f)
        BY <1>3 DEF Works
      <3> QED
        BY <1>3, <3>1, <3>2 DEF HasTask
    <2>2. \A f \in Fds : status'[f] = status[f] /\ (NoReply(f)' <=> NoReply(f))
      BY <1>3 DEF NoReply
    <2> QED
      BY <2>1, <2>2, PhaseKept
  <1>7. NoReply(fd) <=> k = "read"
    BY <1>1 DEF ServerInv, TurnInv
  <1>8. Reported(fd)
    BY <1>1 DEF Reported
  <1>9. PhaseOf(fd) = IF k = "read" THEN "idle" ELSE "pending"
    BY <1>7, <1>8, ReportedPhase
  <1>10. PhaseOf(fd)' = IF k = "read" THEN "reading" ELSE "writing"
    <2>1. HasTask(fd, k)'
      BY <1>2, <1>4 DEF HasTask
    <2>2. status'[fd]
      BY <1>3, <1>8 DEF ServerInv, HolderInv
    <2>3. CASE k = "read"
      BY <1>5, <2>1, <2>2, <2>3 DEF PhaseFacts
    <2>4. CASE k = "write"
      BY <1>5, <2>1, <2>2, <2>4 DEF PhaseFacts
    <2> QED
      BY <2>3, <2>4
  <1>11. CASE k = "read"
    <2>1. Abs!Move(fd, {"idle"}, "reading")
      BY <1>6, <1>9, <1>10, <1>11, Moved
    <2> QED
      BY <2>1 DEF Abs!BeginRead
  <1>12. CASE k = "write"
    <2>1. Abs!Move(fd, {"pending"}, "writing")
      BY <1>6, <1>9, <1>10, <1>12, Moved
    <2> QED
      BY <2>1 DEF Abs!BeginWrite
  <1> QED
    BY <1>11, <1>12

\* EPOLLRDHUP: HangUp.
LEMMA HandleHupStep ==
  ASSUME ServerInv, ServerInv', NEW fd \in Fds, HandleHup(fd)
  PROVE  Abs!HangUp(fd)
  <1>1. /\ [fd |-> fd, ev |-> "hup"] \in batch
        /\ status' = [status EXCEPT ![fd] = FALSE]
        /\ iov' = [iov EXCEPT ![fd] = <<0, 0>>]
        /\ UNCHANGED <<queue, running, at>>
    BY HupStep DEF ServerInv
  <1>2. PhaseOf(fd) \in {"idle", "pending"}
    <2>1. Reported(fd)
      BY <1>1 DEF Reported
    <2> QED
      BY <2>1, ReportedPhase
  <1>3. PhaseOf(fd)' = "free"
    <2>1. ~status'[fd]
      BY <1>1 DEF ServerInv, TypeOK
    <2> QED
      BY <2>1, FactsNext DEF PhaseFacts
  <1>4. \A f \in Fds : f # fd => PhaseOf(f)' = PhaseOf(f)
    <2>1. \A f \in Fds : \A k : HasTask(f, k)' <=> HasTask(f, k)
      BY <1>1, TasksKept DEF Works
    <2>2. \A f \in Fds : f # fd => status'[f] = status[f] /\ (NoReply(f)' <=> NoReply(f))
      BY <1>1 DEF NoReply, ServerInv, TypeOK
    <2> QED
      BY <2>1, <2>2, PhaseKept
  <1>5. Abs!Move(fd, {"idle", "pending"}, "free")
    BY <1>2, <1>3, <1>4, Moved
  <1> QED
    BY <1>5 DEF Abs!HangUp

\* A connection a worker has is being read or written, as the task says.
LEMMA WorkedPhase ==
  ASSUME ServerInv, NEW w \in Workers, NEW fd \in Fds, Works(w, fd)
  PROVE  /\ running[w].kind \in {"read", "write"}
         /\ PhaseOf(fd) = IF running[w].kind = "read" THEN "reading" ELSE "writing"
  <1>1. running[w].kind \in {"read", "write"}
    BY TaskFd DEF ServerInv, Works
  <1>2. status[fd] /\ PhaseFacts /\ TaskFacts
    BY WorkerHolds, PhaseIs, TaskIs DEF ServerInv, ConnInv
  <1>3. HasTask(fd, running[w].kind)
    BY <1>2 DEF TaskFacts
  <1>4. CASE running[w].kind = "read"
    BY <1>2, <1>3, <1>4 DEF PhaseFacts
  <1>5. CASE running[w].kind = "write"
    BY <1>2, <1>3, <1>5 DEF PhaseFacts
  <1> QED
    BY <1>1, <1>4, <1>5

\* modFd ends a task: NoRequest or Replied without a reply, HaveReply with one.
LEMMA ProcessStep ==
  ASSUME ServerInv, ServerInv', NEW w \in Workers, ProcessNothing(w) \/ ProcessReply(w)
  PROVE  \E fd \in Fds : Abs!NoRequest(fd) \/ Abs!Replied(fd) \/ Abs!HaveReply(fd)
  <1>1. PICK fd : fd = running[w].fd
    OBVIOUS
  <1>2. fd \in Fds /\ at[w] = "process" /\ Works(w, fd)
    BY <1>1, TaskFd DEF ProcessNothing, ProcessReply, Step, Works, ServerInv
  <1>3. status[fd] /\ interest[fd] = "off"
    BY <1>2, WorkerHolds DEF ServerInv, ConnInv
  <1>4. /\ at' = [at EXCEPT ![w] = "tail"]
        /\ UNCHANGED <<status, queue, running>>
        /\ \A f \in Fds : f # fd => iov'[f] = iov[f]
    BY <1>1 DEF ProcessNothing, ProcessReply, Step, connectorVars, ServerInv, TypeOK
  <1>5. PhaseFacts' /\ TaskFacts'
    BY FactsNext
  <1>6. \A f \in Fds : f # fd => PhaseOf(f)' = PhaseOf(f)
    <2>1. ASSUME NEW f \in Fds, f # fd PROVE \A k : HasTask(f, k)' <=> HasTask(f, k)
      <3>1. \A v \in Workers : Works(v, f)' <=> Works(v, f)
        BY <1>1, <1>4, <2>1, SMTT(60) DEF Works, ServerInv, TypeOK
      <3> QED
        BY <1>4, <3>1, TasksKept
    <2>2. \A f \in Fds : f # fd => status'[f] = status[f] /\ (NoReply(f)' <=> NoReply(f))
      BY <1>4 DEF NoReply
    <2> QED
      BY <2>1, <2>2, PhaseKept
  <1>7. PhaseOf(fd) \in {"reading", "writing"}
    BY <1>2, WorkedPhase
  <1>8. ASSUME NEW to \in {"in", "out"}, interest' = [interest EXCEPT ![fd] = to]
        PROVE  PhaseOf(fd)' = IF to = "in" THEN "idle" ELSE "pending"
    <2>1. interest'[fd] = to
      BY <1>2, <1>8 DEF ServerInv, TypeOK
    <2>2. Armed(fd)' /\ (NoReply(fd)' <=> to = "in") /\ status'[fd]
      BY <1>2, <1>3, <1>4, <2>1 DEF ServerInv, TurnInv, Armed
    <2> QED
      BY <1>2, <1>5, <2>2 DEF PhaseFacts, TaskFacts
  <1>9. CASE ProcessNothing(w)
    <2>1. interest' = [interest EXCEPT ![fd] = "in"]
      BY <1>1, <1>2, <1>3, <1>9 DEF ProcessNothing, ArmRequest, modFd, ServerInv, TypeOK
    <2>2. PhaseOf(fd)' = "idle"
      BY <1>8, <2>1
    <2>3. Abs!Move(fd, {"reading"}, "idle") \/ Abs!Move(fd, {"writing"}, "idle")
      BY <1>2, <1>6, <1>7, <2>2, Moved
    <2> QED
      BY <1>2, <2>3 DEF Abs!NoRequest, Abs!Replied
  <1>10. CASE ProcessReply(w)
    <2>1. interest' = [interest EXCEPT ![fd] = "out"]
      BY <1>1, <1>2, <1>3, <1>10 DEF ProcessReply, ArmReply, modFd, ServerInv, TypeOK
    <2>2. PhaseOf(fd)' = "pending"
      BY <1>8, <2>1
    <2>3. running[w].kind = "read"
      <3>1. PICK v \in Workers : Works(v, fd) /\ running[v].kind = "read"
        BY <1>1, <1>2, <1>10 DEF ProcessReply, ServerInv, BufferInv
      <3> QED
        BY <1>2, <3>1 DEF ServerInv, HolderInv
    <2>4. PhaseOf(fd) = "reading"
      BY <1>2, <2>3, WorkedPhase
    <2>5. Abs!Move(fd, {"reading"}, "pending")
      BY <1>2, <1>6, <2>2, <2>4, Moved
    <2> QED
      BY <1>2, <2>5 DEF Abs!HaveReply
  <1> QED
    BY <1>9, <1>10

\* An assertion that fails or an exception nobody catches, in a task: Die.
LEMMA DeathStep ==
  ASSUME ServerInv, ServerInv', dead = "no", NEW w \in Workers,
         WriteFails(w) \/ ProcessDies(w)
  PROVE  Abs!Die
  <1>1. PICK fd : fd = running[w].fd
    OBVIOUS
  <1>2. fd \in Fds /\ Works(w, fd)
    BY <1>1, TaskFd DEF WriteFails, ProcessDies, Works, ServerInv
  <1>3. PhaseOf(fd) \in {"reading", "writing"}
    BY <1>2, WorkedPhase
  <1>4. dead' # "no" /\ UNCHANGED <<status, iov, queue, running, at>>
    BY DEF WriteFails, ProcessDies, Die, connectorVars, workerVars
  <1>5. \A f \in Fds : PhaseOf(f)' = PhaseOf(f)
    <2>1. \A f \in Fds : \A k : HasTask(f, k)' <=> HasTask(f, k)
      BY <1>4, TasksKept DEF Works
    <2>2. \A f \in Fds : status'[f] = status[f] /\ (NoReply(f)' <=> NoReply(f))
      BY <1>4 DEF NoReply
    <2> QED
      BY <2>1, <2>2, PhaseKept
  <1> QED
    BY <1>2, <1>3, <1>4, <1>5 DEF Abs!Die

\* A task that goes from the queue to a worker is under way before and after.
LEMMA StartTaskStep ==
  ASSUME ServerInv, ServerInv', NEW w \in Workers, StartTask(w)
  PROVE  \A f \in Fds : PhaseOf(f)' = PhaseOf(f)
  <1>1. /\ running[w] = NoTask /\ queue # <<>>
        /\ queue' = Tail(queue)
        /\ running' = [running EXCEPT ![w] = Head(queue)]
        /\ at' = [at EXCEPT ![w] = Head(queue).kind]
        /\ UNCHANGED <<status, iov>>
    BY DEF StartTask, Pool!StartTask, connectorVars
  <1>2. PICK t : t = queue[1]
    OBVIOUS
  <1>3. /\ Len(queue) \in Nat \ {0} /\ 1 \in 1..Len(queue) /\ Head(queue) = t
        /\ Len(queue') = Len(queue) - 1
        /\ \A i \in 1..Len(queue') : i + 1 \in 1..Len(queue) /\ queue'[i] = queue[i + 1]
    BY <1>1, <1>2, QueuedTask, HeadTailProperties, EmptySeq DEF ServerInv
  <1>4. t \in Task /\ t.kind \in {"read", "write"}
    BY <1>2, <1>3, QueuedTask DEF ServerInv
  <1>5. \A v \in Workers : /\ running'[v] = IF v = w THEN t ELSE running[v]
                           /\ at'[v] = IF v = w THEN t.kind ELSE at[v]
    BY <1>1, <1>3 DEF ServerInv, TypeOK, Pool!PoolTypeOK
  <1>6. at[w] = "idle"
    BY <1>1 DEF ServerInv, WorkerInv
  <1>7. ASSUME NEW f \in Fds, NEW k PROVE HasTask(f, k)' <=> HasTask(f, k)
    <2>1. PICK x : x = [kind |-> k, fd |-> f]
      OBVIOUS
    <2>2. (\E i \in 1..Len(queue) : queue[i] = x)
            <=> t = x \/ \E i \in 1..Len(queue') : queue'[i] = x
      <3>1. ASSUME NEW i \in 1..Len(queue), i # 1
            PROVE  i - 1 \in 1..Len(queue') /\ queue'[i - 1] = queue[i]
        BY <1>3, <3>1
      <3> QED
        BY <1>2, <1>3, <3>1
    <2>3. ASSUME NEW v \in Workers
          PROVE  Works(v, f)' /\ running'[v] = x <=>
                   (v = w /\ t = x) \/ (Works(v, f) /\ running[v] = x)
      <3>1. CASE v = w
        BY <1>4, <1>5, <1>6, <2>1, <3>1 DEF Works
      <3>2. CASE v # w
        BY <1>5, <3>2 DEF Works
      <3> QED
        BY <3>1, <3>2
    <2>4. (\E v \in Workers : Works(v, f)' /\ running'[v] = x)
            <=> t = x \/ \E v \in Workers : Works(v, f) /\ running[v] = x
      BY <2>3
    <2> QED
      BY <2>1, <2>2, <2>4 DEF HasTask
  <1>8. \A f \in Fds : status'[f] = status[f] /\ (NoReply(f)' <=> NoReply(f))
    BY <1>1 DEF NoReply
  <1> QED
    BY <1>7, <1>8, PhaseKept

\* Inside a task the phase does not change, whatever _iov does; when the task
\* returns the connection is with epoll already.
LEMMA InsideTask ==
  ASSUME ServerInv, ServerInv', NEW w \in Workers,
         ReadSome(w) \/ ReadEnds(w) \/ WriteSome(w) \/ TaskReturns(w)
  PROVE  dead' = dead /\ \A f \in Fds : PhaseOf(f)' = PhaseOf(f)
  <1> USE DEF ServerInv
  <1>1. CASE ReadSome(w)
    <2>1. UNCHANGED <<status, iov, queue, running, at, dead>>
      BY <1>1 DEF ReadSome, workerVars
    <2>2. \A f \in Fds : \A k : HasTask(f, k)' <=> HasTask(f, k)
      BY <2>1, TasksKept DEF Works
    <2>3. \A f \in Fds : status'[f] = status[f] /\ (NoReply(f)' <=> NoReply(f))
      BY <2>1 DEF NoReply
    <2> QED
      BY <2>1, <2>2, <2>3, PhaseKept
  <1>2. CASE ReadEnds(w)
    <2>1. /\ at[w] = "read" /\ at' = [at EXCEPT ![w] = "process"]
          /\ UNCHANGED <<status, iov, queue, running, dead>>
      BY <1>2, ReadEndsStep DEF connectorVars
    <2>2. \A v \in Workers, f \in Fds : Works(v, f)' <=> Works(v, f)
      BY <2>1 DEF Works, TypeOK
    <2>3. \A f \in Fds : \A k : HasTask(f, k)' <=> HasTask(f, k)
      BY <2>1, <2>2, TasksKept
    <2>4. \A f \in Fds : status'[f] = status[f] /\ (NoReply(f)' <=> NoReply(f))
      BY <2>1 DEF NoReply
    <2> QED
      BY <2>1, <2>3, <2>4, PhaseKept
  <1>3. CASE WriteSome(w)
    <2>1. PICK fd : fd = running[w].fd
      OBVIOUS
    <2>2. /\ fd \in Fds /\ at[w] = "write"
          /\ at' = [at EXCEPT ![w] = IF Left(fd) = <<0, 0>> THEN "process" ELSE "write"]
          /\ iov' = [iov EXCEPT ![fd] = Left(fd)]
          /\ UNCHANGED <<status, queue, running, dead>>
      BY <1>3, <2>1, WriteStep
    <2>3. \A v \in Workers, f \in Fds : Works(v, f)' <=> Works(v, f)
      BY <2>2, ZenonT(60) DEF Works, TypeOK
    <2>4. \A f \in Fds : \A k : HasTask(f, k)' <=> HasTask(f, k)
      BY <2>2, <2>3, TasksKept
    <2>5. HasTask(fd, running[w].kind)
      BY <2>1, <2>2, TaskIs DEF TaskFacts, Works
    <2>6. \A f \in Fds : f # fd => (NoReply(f)' <=> NoReply(f))
      BY <2>2 DEF NoReply, TypeOK
    <2>7. \A f \in Fds : status'[f] = status[f]
      BY <2>2
    <2> QED
      BY <2>2, <2>4, <2>5, <2>6, <2>7, PhaseKept
  <1>4. CASE TaskReturns(w)
    <2>1. /\ at[w] = "tail" /\ at' = [at EXCEPT ![w] = "idle"]
          /\ running' = [running EXCEPT ![w] = NoTask]
          /\ UNCHANGED <<status, iov, queue, dead>>
      BY <1>4 DEF TaskReturns, Step, Pool!FinishTask, connectorVars
    <2>2. \A v \in Workers, f \in Fds : /\ Works(v, f)' <=> Works(v, f)
                                        /\ Works(v, f) => running'[v] = running[v]
      BY <2>1, SMTT(60) DEF Works, TypeOK, Pool!PoolTypeOK
    <2>3. \A f \in Fds : \A k : HasTask(f, k)' <=> HasTask(f, k)
      BY <2>1, <2>2, TasksKept
    <2>4. \A f \in Fds : status'[f] = status[f] /\ (NoReply(f)' <=> NoReply(f))
      BY <2>1 DEF NoReply
    <2> QED
      BY <2>1, <2>3, <2>4, PhaseKept
  <1> QED
    BY <1>1, <1>2, <1>3, <1>4

\* epoll, the listening socket and the peers change no phase.
LEMMA OutsideTasks ==
  ASSUME ServerInv, ServerInv',
         UNCHANGED <<status, iov, queue, running, at, dead>>
  PROVE  dead' = dead /\ \A f \in Fds : PhaseOf(f)' = PhaseOf(f)
  <1>1. \A f \in Fds : \A k : HasTask(f, k)' <=> HasTask(f, k)
    BY TasksKept DEF Works
  <1>2. \A f \in Fds : status'[f] = status[f] /\ (NoReply(f)' <=> NoReply(f))
    BY DEF NoReply
  <1> QED
    BY <1>1, <1>2, PhaseKept

-----------------------------------------------------------------------------
\* Every step of the reactor is a step of Connections or changes no phase.
LEMMA StepImplements ==
  ASSUME ServerInv, ServerInv', [Next]_vars
  PROVE  [Abs!ConnNext]_(Abs!connVars)
  <1>1. ASSUME dead' = dead, \A f \in Fds : PhaseOf(f)' = PhaseOf(f)
        PROVE  UNCHANGED Abs!connVars
    BY <1>1 DEF Abs!connVars
  <1>2. CASE UNCHANGED <<status, iov, queue, running, at, dead>>
    BY <1>1, <1>2, OutsideTasks
  <1>3. CASE dead = "no"
    <2> USE DEF kernelVars, connectorVars, mainVars, workerVars
    <2>1. CASE InitListenSocket \/ EpollWait \/ HandleListen \/ AcceptFails \/ Connect
      BY <1>2, <2>1 DEF InitListenSocket, EpollWait, HandleListen, AcceptFails, Connect
    <2>2. ASSUME NEW fd \in Fds,
                 \/ AcceptFull(fd)
                 \/ \E k \in Kinds : PeerSends(fd, k)
                 \/ \E how \in {"fin", "rst"} : PeerLeaves(fd, how)
                 \/ PeerAcks(fd)
          PROVE  [Abs!ConnNext]_(Abs!connVars)
      BY <1>2, <2>2 DEF AcceptFull, Accept, PeerSends, PeerLeaves, PeerAcks
    <2>3. ASSUME NEW fd \in Fds, AcceptClient(fd) PROVE Abs!ConnNext
      <3>1. dead' = dead
        BY <2>3 DEF AcceptClient, Accept
      <3> QED
        BY <1>3, <2>3, <3>1, AcceptClientStep DEF Abs!ConnNext
    <2>4. ASSUME NEW fd \in Fds, HandleHup(fd) PROVE Abs!ConnNext
      <3>1. dead' = dead
        BY <2>4 DEF HandleHup
      <3> QED
        BY <1>3, <2>4, <3>1, HandleHupStep DEF Abs!ConnNext
    <2>5. ASSUME NEW fd \in Fds, HandleRead(fd) \/ HandleWrite(fd) PROVE Abs!ConnNext
      <3>1. dead' = dead
        BY <2>5 DEF HandleRead, HandleWrite
      <3> QED
        BY <1>3, <2>5, <3>1, HandleTaskStep DEF Abs!ConnNext
    <2>6. ASSUME NEW w \in Workers, StartTask(w) PROVE UNCHANGED Abs!connVars
      <3>1. dead' = dead
        BY <2>6 DEF StartTask
      <3> QED
        BY <1>1, <2>6, <3>1, StartTaskStep
    <2>7. ASSUME NEW w \in Workers, ProcessNothing(w) \/ ProcessReply(w) PROVE Abs!ConnNext
      <3>1. dead' = dead
        BY <2>7 DEF ProcessNothing, ProcessReply
      <3> QED
        BY <1>3, <2>7, <3>1, ProcessStep DEF Abs!ConnNext
    <2>8. ASSUME NEW w \in Workers, WriteFails(w) \/ ProcessDies(w) PROVE Abs!ConnNext
      BY <1>3, <2>8, DeathStep DEF Abs!ConnNext
    <2>9. ASSUME NEW w \in Workers,
                 ReadSome(w) \/ ReadEnds(w) \/ WriteSome(w) \/ TaskReturns(w)
          PROVE  UNCHANGED Abs!connVars
      BY <1>1, <2>9, InsideTask
    <2>10. CASE UNCHANGED vars
      BY <1>2, <2>10 DEF vars
    <2> QED
      BY <2>1, <2>2, <2>3, <2>4, <2>5, <2>6, <2>7, <2>8, <2>9, <2>10, StepCases
  <1>4. CASE dead # "no"
    <2>1. UNCHANGED vars
      BY <1>4 DEF Next
    <2> QED
      BY <1>2, <2>1 DEF vars, connectorVars, workerVars
  <1> QED
    BY <1>3, <1>4

\* Before anybody has connected every descriptor is free.
LEMMA InitImplements == Init => Abs!ConnInit
  <1> SUFFICES ASSUME Init PROVE Abs!ConnInit
    OBVIOUS
  <1>1. PhaseFacts
    BY InvInit, PhaseIs
  <1>2. \A fd \in Fds : PhaseOf(fd) = "free"
    BY <1>1 DEF Init, PhaseFacts
  <1>3. (dead # "no") = FALSE
    BY DEF Init
  <1> QED
    BY <1>2, <1>3 DEF Abs!ConnInit

\* The reactor implements Connections for any number of descriptors and workers:
\* per connection one task at a time, a reply only to a request, written before the
\* next read, _CloseConnection only between tasks, and at most MAX_CLIENTS
\* connections.
THEOREM Implements == SafeSpec => ImplementsConnections
  <1>1. ServerInv /\ ServerInv' /\ [Next]_vars => [Abs!ConnNext]_(Abs!connVars)
    BY StepImplements
  <1> QED
    BY InitImplements, ServerInvariant, <1>1, PTL
       DEF SafeSpec, ImplementsConnections, Abs!ConnSpec
=============================================================================
