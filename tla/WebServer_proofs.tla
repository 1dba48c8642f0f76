-------------------------- MODULE WebServer_proofs --------------------------
(***************************************************************************)
(* Proofs about WebServer for any number of descriptors and workers and    *)
(* any limits.  ServerInv is the inductive invariant: who holds a          *)
(* connection (HolderInv, the first-order form of SingleOwner), what the   *)
(* kernel and epoll know of it (SocketInv), what its holder is about to do *)
(* with it (TurnInv) and what its buffers hold (BufferInv).                *)
(***************************************************************************)
EXTENDS WebServer, SequenceLemmas, FiniteSetTheorems, TLAPS

\* The four kinds of holders of a connection.
Armed(fd) == interest[fd] \in {"in", "out"}
Reported(fd) == \E e \in batch : e.fd = fd
Queued(fd) == \E i \in 1..Len(queue) : queue[i].fd = fd
Worked(fd) == \E w \in Workers : Works(w, fd)

\* A connection in use has a holder, of one kind only, and no two of that kind.
HolderInv ==
    /\ \A fd \in Fds :
         status[fd] <=> Armed(fd) \/ Reported(fd) \/ Queued(fd) \/ Worked(fd)
    /\ \A fd \in Fds :
         /\ Armed(fd) => ~Reported(fd) /\ ~Queued(fd) /\ ~Worked(fd)
         /\ Reported(fd) => ~Queued(fd) /\ ~Worked(fd)
         /\ Queued(fd) => ~Worked(fd)
    /\ \A d, e \in batch : d.fd = e.fd => d = e
    /\ \A i, j \in 1..Len(queue) : queue[i].fd = queue[j].fd => i = j
    /\ \A v, w \in Workers : \A fd \in Fds : Works(v, fd) /\ Works(w, fd) => v = w

\* A connection in use has an open socket that epoll knows.
SocketInv ==
    \A fd \in Fds : IF status[fd] THEN sock[fd] = "open" /\ interest[fd] # "none"
                                  ELSE interest[fd] = "none"

\* A worker inside a task has one, of the kind it is executing.
WorkerInv ==
    \A w \in Workers :
        /\ at[w] = "idle" <=> running[w] = NoTask
        /\ at[w] = "read" => running[w].kind = "read"
        /\ at[w] = "write" => running[w].kind = "write"

\* Whoever is about to read holds a connection without a pending reply, whoever is
\* about to write one with a reply.
NoReply(fd) == iov[fd] = <<0, 0>>

TurnInv ==
    /\ \A fd \in Fds :
         /\ interest[fd] = "in" => NoReply(fd)
         /\ interest[fd] = "out" => ~NoReply(fd)
         /\ ~status[fd] => NoReply(fd)
    /\ \A e \in batch : e.fd \in Fds =>
         /\ e.ev = "in" => NoReply(e.fd)
         /\ e.ev = "out" => ~NoReply(e.fd)
    /\ \A i \in 1..Len(queue) : NoReply(queue[i].fd) <=> queue[i].kind = "read"
    /\ \A w \in Workers :
         /\ at[w] \in {"read", "process"} => NoReply(running[w].fd)
         /\ at[w] = "write" => ~NoReply(running[w].fd)

\* Only while a read task works on a connection its read buffer holds anything.
BufferInv ==
    \A fd \in Fds : rbuf[fd] # <<>> =>
        \E w \in Workers : /\ Works(w, fd) /\ at[w] \in {"read", "process"}
                           /\ running[w].kind = "read"

ServerInv ==
    /\ TypeOK /\ WorkerInv /\ SocketInv /\ HolderInv
    /\ UserCount /\ TurnInv /\ BufferInv /\ NoCrossTalk

-----------------------------------------------------------------------------
\* The connectors that UserCount counts.
Clients == {fd \in Fds : status[fd]}

\* They are finitely many, and UserCount is about their number.
LEMMA ClientsCounted ==
  /\ IsFiniteSet(Clients) /\ Cardinality(Clients) \in Nat
  /\ UserCount <=> user_cnt = Cardinality(Clients) /\ user_cnt <= MaxClients
  <1>1. IsFiniteSet(Clients)
    BY ServerAssumption, FS_Subset DEF Clients
  <1>2. Cardinality(Clients) \in Nat
    BY <1>1, FS_CardinalityType
  <1>3. UserCount <=> user_cnt = Cardinality(Clients) /\ user_cnt <= MaxClients
    BY Zenon DEF UserCount, Clients
  <1> QED
    BY <1>1, <1>2, <1>3

\* What every step of the server is, one disjunct per action.
LEMMA StepCases ==
  ASSUME [Next]_vars
  PROVE  \/ InitListenSocket \/ EpollWait \/ HandleListen \/ AcceptFails
         \/ \E fd \in Fds :
              \/ AcceptClient(fd) \/ AcceptFull(fd)
              \/ HandleHup(fd) \/ HandleRead(fd) \/ HandleWrite(fd)
         \/ \E w \in Workers :
              \/ StartTask(w) \/ ReadSome(w) \/ ReadEnds(w) \/ WriteSome(w)
              \/ WriteFails(w) \/ ProcessNothing(w) \/ ProcessReply(w)
              \/ ProcessDies(w) \/ TaskReturns(w)
         \/ Connect
         \/ \E fd \in Fds :
              \/ \E k \in Kinds : PeerSends(fd, k)
              \/ \E how \in {"fin", "rst"} : PeerLeaves(fd, how)
              \/ PeerAcks(fd)
         \/ UNCHANGED vars
  BY DEF Next, MainStep, WorkerStep, PeerStep

\* Read never reports a closed connection as such: ReadResult has no case with
\* ret = 0 and ~status, so the loop of Read always goes on to _Process.
LEMMA ReadEndsStep ==
  ASSUME TypeOK, WorkerInv, NEW w \in Workers, ReadEnds(w)
  PROVE  /\ at[w] = "read" /\ at' = [at EXCEPT ![w] = "process"]
         /\ rx[running[w].fd] = <<>>
         /\ UNCHANGED <<kernelVars, interest, connectorVars, mainVars, queue, running, dead>>
  <1> DEFINE fd == running[w].fd
  <1>1. fd \in Fds
    BY DEF ReadEnds, WorkerInv, TypeOK, Pool!PoolTypeOK, Task
  <1>2. ~(ReadResult(fd).ret = 0 /\ ~ReadResult(fd).status)
    BY <1>1 DEF ReadResult, TypeOK
  <1> QED
    BY <1>2 DEF ReadEnds, Step, kernelVars, connectorVars, mainVars

\* Where a worker is in a task, the task names a descriptor.
LEMMA TaskFd ==
  ASSUME TypeOK, WorkerInv, NEW w \in Workers, at[w] # "idle"
  PROVE  running[w] \in Task /\ running[w].fd \in Fds /\ running[w].kind \in {"read", "write"}
  BY DEF TypeOK, WorkerInv, Pool!PoolTypeOK, Task

\* Whatever is in the queue is a task.
LEMMA QueuedTask ==
  ASSUME TypeOK
  PROVE  /\ queue \in Seq(Task) /\ Len(queue) \in Nat
         /\ \A i \in 1..Len(queue) : /\ queue[i] \in Task /\ queue[i].fd \in Fds
                                     /\ queue[i].kind \in {"read", "write"}
  <1>1. queue \in Seq(Task) /\ Len(queue) \in Nat
    BY LenProperties DEF TypeOK, Pool!PoolTypeOK
  <1>2. ASSUME NEW i \in 1..Len(queue) PROVE queue[i] \in Task
    BY <1>1, <1>2, ElementOfSeq
  <1> QED
    BY <1>1, <1>2 DEF Task

\* The server in its constructor satisfies every part of the invariant.
LEMMA InvInit == Init => ServerInv
  <1> SUFFICES ASSUME Init PROVE ServerInv
    OBVIOUS
  <1> USE ServerAssumption, TaskAssumption
  <1>1. TypeOK
    <2>1. edge \in BOOLEAN /\ status \in [Fds -> BOOLEAN]
      BY Zenon DEF Init
    <2>2. Pool!PoolTypeOK
      BY DEF Init, Pool!PoolInit, Pool!PoolTypeOK
    <2>3. /\ interest \in [Fds \cup {ListenFd} -> {"none", "off", "in", "out"}]
          /\ batch \in SUBSET (Event \cup {ListenEvent})
          /\ rx \in [Fds -> Seq(Kinds)] /\ wbuf \in [Fds -> Seq({"own", "old"})]
      BY DEF Init
    <2>4. /\ rbuf \in [Fds -> Seq([of : {"own", "old"}, kind : Kinds])]
      BY EmptySeq DEF Init
    <2>5. iov \in [Fds -> Nat \X Nat] /\ space \in [Fds -> 0..SndBuf]
      BY DEF Init
    <2>6. /\ backlog \in 0..MaxBacklog /\ user_cnt \in 0..MaxClients
          /\ sock \in [Fds -> {"open", "closed"}] /\ peer \in [Fds -> {"up", "fin", "rst"}]
          /\ mpc \in {"boot", "events", "accept", "exit"}
          /\ at \in [Workers -> {"idle", "read", "write", "process", "tail"}]
          /\ dead \in {"no", "request", "eagain", "reset"}
      BY DEF Init
    <2> QED
      BY <2>1, <2>2, <2>3, <2>4, <2>5, <2>6 DEF TypeOK
  <1>2. WorkerInv /\ SocketInv
    BY DEF Init, Pool!PoolInit, WorkerInv, SocketInv
  <1>3. \A fd \in Fds : ~Armed(fd) /\ ~Reported(fd) /\ ~Queued(fd) /\ ~Worked(fd)
    BY DEF Init, Pool!PoolInit, Armed, Reported, Queued, Worked, Works
  <1>4. HolderInv
    BY <1>3 DEF Init, Pool!PoolInit, HolderInv, Works
  <1>5. UserCount
    <2>1. Clients = {}
      BY Zenon DEF Init, Clients
    <2>2. user_cnt = Cardinality(Clients) /\ user_cnt <= MaxClients
      BY <2>1, FS_EmptySet DEF Init
    <2> QED
      BY <2>2, ClientsCounted
  <1>6. TurnInv /\ BufferInv
    BY DEF Init, Pool!PoolInit, TurnInv, BufferInv, NoReply
  <1>7. NoCrossTalk
    BY DEF Init, NoCrossTalk
  <1> QED
    BY <1>1, <1>2, <1>4, <1>5, <1>6, <1>7 DEF ServerInv

-----------------------------------------------------------------------------
(* Types.                                                                  *)

\* A function with one value replaced by another one of its range.
LEMMA Updated ==
  ASSUME NEW S, NEW T, NEW f \in [S -> T], NEW x, NEW v \in T
  PROVE  [f EXCEPT ![x] = v] \in [S -> T]
  OBVIOUS

\* Close marks what the read buffer holds, segment by segment.
LEMMA MarkedRead ==
  ASSUME NEW s \in Seq([of : {"own", "old"}, kind : Kinds])
  PROVE  [i \in DOMAIN s |-> [s[i] EXCEPT !.of = "old"]]
           \in Seq([of : {"own", "old"}, kind : Kinds])
  <1> DEFINE R == [of : {"own", "old"}, kind : Kinds]
  <1>1. Len(s) \in Nat /\ DOMAIN s = 1..Len(s) /\ \A i \in 1..Len(s) : s[i] \in R
    BY LenProperties, ElementOfSeq
  <1>2. \A i \in 1..Len(s) : [s[i] EXCEPT !.of = "old"] \in R
    BY <1>1
  <1> QED
    BY <1>1, <1>2

\* Only a connection in use is reported, so that Close closes it.
LEMMA HupStep ==
  ASSUME HolderInv, NEW fd \in Fds, HandleHup(fd)
  PROVE  /\ status[fd]
         /\ [fd |-> fd, ev |-> "hup"] \in batch
         /\ batch' = batch \ {[fd |-> fd, ev |-> "hup"]}
         /\ status' = [status EXCEPT ![fd] = FALSE]
         /\ user_cnt' = user_cnt - 1
         /\ iov' = [iov EXCEPT ![fd] = <<0, 0>>]
         /\ Mark(fd)
         /\ sock' = [sock EXCEPT ![fd] = "closed"]
         /\ peer' = [peer EXCEPT ![fd] = "up"]
         /\ rx' = [rx EXCEPT ![fd] = <<>>]
         /\ space' = [space EXCEPT ![fd] = SndBuf]
         /\ interest' = [interest EXCEPT ![fd] = "none"]
         /\ UNCHANGED <<backlog, edge, mpc, queue, running, at, dead>>
  <1>1. [fd |-> fd, ev |-> "hup"] \in batch
    BY DEF HandleHup, Take
  <1>2. status[fd]
    BY <1>1 DEF HolderInv, Reported
  <1> QED
    BY <1>1, <1>2 DEF HandleHup, Take, CloseConnection, delFd, Close, CountDown, workerVars

\* The steps of the main thread keep every variable in its type.
LEMMA MainType ==
  ASSUME TypeOK, HolderInv, SocketInv, UserCount,
         \/ InitListenSocket \/ EpollWait \/ HandleListen \/ AcceptFails
         \/ \E fd \in Fds :
              \/ AcceptClient(fd) \/ AcceptFull(fd)
              \/ HandleHup(fd) \/ HandleRead(fd) \/ HandleWrite(fd)
  PROVE  TypeOK'
  <1> USE DEF kernelVars, connectorVars, mainVars, workerVars, Take
  <1>1. CASE InitListenSocket
    <2>1. /\ interest' \in [Fds \cup {ListenFd} -> {"none", "off", "in", "out"}]
          /\ mpc' \in {"events", "exit"}
      BY <1>1 DEF TypeOK, InitListenSocket, addFd
    <2> QED
      BY <1>1, <2>1 DEF TypeOK, InitListenSocket, Pool!PoolTypeOK
  <1>2. CASE EpollWait
    <2>1. PICK B \in SUBSET Deliverable :
             /\ batch' = B
             /\ edge' = (edge /\ ListenEvent \notin B)
             /\ Oneshot(B)
      BY <1>2 DEF EpollWait
    <2>2. Deliverable \subseteq Event \cup {ListenEvent}
      <3>1. ASSUME NEW fd \in Fds, Ready(fd) PROVE EventOf(fd) \in Event
        BY <3>1 DEF TypeOK, Ready, EventOf, Event
      <3> QED
        BY <3>1 DEF Deliverable
    <2>3. batch' \in SUBSET (Event \cup {ListenEvent})
      BY <2>1, <2>2
    <2>4. edge' \in BOOLEAN
      BY <2>1, Zenon
    <2>5. interest' \in [Fds \cup {ListenFd} -> {"none", "off", "in", "out"}]
      BY <2>1 DEF Oneshot, TypeOK
    <2> QED
      BY <1>2, <2>3, <2>4, <2>5 DEF EpollWait, TypeOK, Pool!PoolTypeOK
  <1>3. CASE HandleListen
    BY <1>3 DEF TypeOK, HandleListen, Pool!PoolTypeOK
  <1>4. CASE AcceptFails
    BY <1>4 DEF TypeOK, AcceptFails, Pool!PoolTypeOK
  <1>5. ASSUME NEW fd \in Fds, Accept(fd)
        PROVE  /\ backlog' \in 0..MaxBacklog /\ edge' \in BOOLEAN
               /\ sock' \in [Fds -> {"open", "closed"}]
    <2>1. edge' \in BOOLEAN
      BY <1>5, Zenon DEF Accept
    <2> QED
      BY <1>5, <2>1, ServerAssumption DEF Accept, TypeOK
  <1>6. ASSUME NEW fd \in Fds, AcceptClient(fd) PROVE TypeOK'
    <2>1. status' \in [Fds -> BOOLEAN]
      BY <1>6 DEF AcceptClient, InitConnector, TypeOK
    <2>2. user_cnt' \in 0..MaxClients
      BY <1>6, ServerAssumption DEF AcceptClient, InitConnector, Full, TypeOK
    <2>3. interest' \in [Fds \cup {ListenFd} -> {"none", "off", "in", "out"}]
      BY <1>6 DEF AcceptClient, addFd, TypeOK
    <2> QED
      BY <1>5, <1>6, <2>1, <2>2, <2>3
         DEF AcceptClient, Accept, InitConnector, TypeOK, Pool!PoolTypeOK
  <1>7. ASSUME NEW fd \in Fds, AcceptFull(fd) PROVE TypeOK'
    BY <1>5, <1>7 DEF AcceptFull, Accept, TypeOK, Pool!PoolTypeOK
  <1>8. ASSUME NEW fd \in Fds, HandleHup(fd) PROVE TypeOK'
    <2>1. status[fd]
      BY <1>8, HupStep
    <2>2. /\ status' = [status EXCEPT ![fd] = FALSE]
          /\ user_cnt' = user_cnt - 1
          /\ iov' = [iov EXCEPT ![fd] = <<0, 0>>]
          /\ Mark(fd)
          /\ sock' = [sock EXCEPT ![fd] = "closed"]
          /\ peer' = [peer EXCEPT ![fd] = "up"]
          /\ rx' = [rx EXCEPT ![fd] = <<>>]
          /\ space' = [space EXCEPT ![fd] = SndBuf]
          /\ interest' = [interest EXCEPT ![fd] = "none"]
          /\ batch' \subseteq batch
          /\ UNCHANGED <<backlog, edge, mpc, queue, running, at, dead>>
      BY <1>8, HupStep
    <2>3. rbuf' \in [Fds -> Seq([of : {"own", "old"}, kind : Kinds])]
      BY <2>2, MarkedRead DEF Mark, TypeOK
    <2>4. wbuf' \in [Fds -> Seq({"own", "old"})]
      BY <2>2, SMTT(60) DEF Mark, TypeOK
    <2>5. user_cnt' \in 0..MaxClients
      <3>1. fd \in Clients
        BY <2>1, Zenon DEF Clients
      <3>2. Cardinality(Clients) # 0
        BY <3>1, FS_EmptySet, ClientsCounted
      <3>3. user_cnt # 0 /\ user_cnt \in 0..MaxClients
        BY <3>2, ClientsCounted DEF TypeOK
      <3> QED
        BY <2>2, <3>3, ServerAssumption
    <2>6. status' \in [Fds -> BOOLEAN] /\ iov' \in [Fds -> Nat \X Nat]
      BY <2>2 DEF TypeOK
    <2>7. /\ sock' \in [Fds -> {"open", "closed"}] /\ peer' \in [Fds -> {"up", "fin", "rst"}]
          /\ rx' \in [Fds -> Seq(Kinds)] /\ space' \in [Fds -> 0..SndBuf]
          /\ interest' \in [Fds \cup {ListenFd} -> {"none", "off", "in", "out"}]
      BY <2>2, ServerAssumption, SMTT(60) DEF TypeOK
    <2> QED
      BY <2>2, <2>3, <2>4, <2>5, <2>6, <2>7 DEF TypeOK, Pool!PoolTypeOK
  <1>9. ASSUME NEW fd \in Fds, HandleRead(fd) \/ HandleWrite(fd) PROVE TypeOK'
    <2>1. PICK k \in {"read", "write"} : queue' = Append(queue, [kind |-> k, fd |-> fd])
      BY <1>9 DEF HandleRead, HandleWrite, Pool!Submit
    <2>2. [kind |-> k, fd |-> fd] \in Task
      BY DEF Task
    <2>3. queue' \in Seq(Task)
      BY <2>1, <2>2, AppendProperties DEF TypeOK, Pool!PoolTypeOK
    <2> QED
      BY <1>9, <2>3 DEF HandleRead, HandleWrite, Pool!Submit, TypeOK, Pool!PoolTypeOK
  <1> QED
    BY <1>1, <1>2, <1>3, <1>4, <1>6, <1>7, <1>8, <1>9

\* How far writev gets: n units, first of the header and then of the file.
Written(fd) == IF space[fd] < WriteableSize(fd) THEN space[fd] ELSE WriteableSize(fd)

Left(fd) ==
    IF Written(fd) > iov[fd][1] THEN <<0, iov[fd][2] - (Written(fd) - iov[fd][1])>>
                                ELSE <<iov[fd][1] - Written(fd), iov[fd][2]>>

\* A write takes at most what there is, and what is left is what was there without
\* it.
LEMMA WriteLeaves ==
  ASSUME TypeOK, NEW fd \in Fds
  PROVE  /\ Written(fd) \in 0..space[fd] /\ space[fd] \in 0..SndBuf
         /\ iov[fd][1] \in Nat /\ iov[fd][2] \in Nat
         /\ Left(fd) \in Nat \X Nat
         /\ Written(fd) > iov[fd][1] => Left(fd)[1] = 0
         /\ Written(fd) <= iov[fd][1] => Left(fd)[1] = iov[fd][1] - Written(fd)
  <1> DEFINE a == iov[fd][1]
             b == iov[fd][2]
             n == Written(fd)
  <1>1. /\ a \in Nat /\ b \in Nat /\ space[fd] \in 0..SndBuf /\ SndBuf \in Nat
    BY ServerAssumption DEF TypeOK
  <1>2. n \in 0..space[fd] /\ n <= a + b /\ n \in Nat
    BY <1>1 DEF Written, WriteableSize
  <1> HIDE DEF n
  <1>3. Left(fd) = IF n > a THEN <<0, b - (n - a)>> ELSE <<a - n, b>>
    BY DEF Left, n
  <1> HIDE DEF a, b
  <1>4. CASE n > a
    <2>1. b - (n - a) \in Nat
      BY <1>1, <1>2, <1>4
    <2>2. Left(fd) = <<0, b - (n - a)>>
      BY <1>3, <1>4
    <2> QED
      BY <1>1, <1>2, <1>4, <2>1, <2>2 DEF n, a, b
  <1>5. CASE n <= a
    <2>1. a - n \in Nat /\ ~(n > a)
      BY <1>1, <1>2, <1>5
    <2>2. Left(fd) = <<a - n, b>>
      BY <1>3, <2>1
    <2> QED
      BY <1>1, <1>2, <1>5, <2>1, <2>2 DEF n, a, b
  <1> QED
    BY <1>1, <1>2, <1>4, <1>5

\* WriteSome in these terms.
LEMMA WriteStep ==
  ASSUME TypeOK, WorkerInv, NEW w \in Workers, WriteSome(w), NEW fd, fd = running[w].fd
  PROVE  /\ fd \in Fds /\ at[w] = "write" /\ Written(fd) > 0
         /\ at' = [at EXCEPT ![w] = IF Left(fd) = <<0, 0>> THEN "process" ELSE "write"]
         /\ space' = [space EXCEPT ![fd] = space[fd] - Written(fd)]
         /\ iov' = [iov EXCEPT ![fd] = Left(fd)]
         /\ wbuf' = [wbuf EXCEPT ![fd] =
                       IF Written(fd) > iov[fd][1]
                       THEN IF iov[fd][1] > 0 THEN <<>> ELSE wbuf[fd]
                       ELSE SubSeq(wbuf[fd], Written(fd) + 1, Len(wbuf[fd]))]
         /\ UNCHANGED <<backlog, edge, sock, peer, rx, interest, status, rbuf, user_cnt,
                        mpc, batch, queue, running, dead>>
  <1>1. fd \in Fds /\ at[w] = "write"
    BY TaskFd DEF WriteSome, Step
  <1> QED
    BY <1>1 DEF WriteSome, Written, Left, Step, FunWrite, mainVars

\* The steps of the workers keep every variable in its type.
LEMMA WorkerType ==
  ASSUME TypeOK, WorkerInv, NEW w \in Workers,
         \/ StartTask(w) \/ ReadSome(w) \/ ReadEnds(w) \/ WriteSome(w)
         \/ WriteFails(w) \/ ProcessNothing(w) \/ ProcessReply(w)
         \/ ProcessDies(w) \/ TaskReturns(w)
  PROVE  TypeOK'
  <1> USE DEF kernelVars, connectorVars, mainVars, workerVars
  <1>1. CASE StartTask(w)
    <2>1. Head(queue) \in Task /\ Tail(queue) \in Seq(Task)
      BY <1>1, HeadTailProperties DEF StartTask, Pool!StartTask, TypeOK, Pool!PoolTypeOK
    <2>2. at' \in [Workers -> {"idle", "read", "write", "process", "tail"}]
      BY <1>1, <2>1 DEF StartTask, Task, TypeOK
    <2>3. Pool!PoolTypeOK'
      BY <1>1, <2>1 DEF StartTask, Pool!StartTask, TypeOK, Pool!PoolTypeOK
    <2> QED
      BY <1>1, <2>2, <2>3 DEF StartTask, TypeOK
  <1>2. CASE ReadSome(w)
    <2> DEFINE fd == running[w].fd
               R == [of : {"own", "old"}, kind : Kinds]
               new == [i \in DOMAIN rx[fd] |-> [of |-> "own", kind |-> rx[fd][i]]]
    <2>1. fd \in Fds
      BY <1>2, TaskFd DEF ReadSome
    <2>2. new \in Seq(R)
      <3>1. /\ Len(rx[fd]) \in Nat /\ DOMAIN rx[fd] = 1..Len(rx[fd])
            /\ \A i \in 1..Len(rx[fd]) : rx[fd][i] \in Kinds
        BY <2>1, LenProperties, ElementOfSeq DEF TypeOK
      <3>2. \A i \in 1..Len(rx[fd]) : [of |-> "own", kind |-> rx[fd][i]] \in R
        BY <3>1
      <3> QED
        BY <3>1, <3>2
    <2>3. rbuf[fd] \o new \in Seq(R)
      BY <2>1, <2>2, ConcatProperties DEF TypeOK
    <2>4. rbuf' = [rbuf EXCEPT ![fd] = rbuf[fd] \o new] /\ rx' = [rx EXCEPT ![fd] = <<>>]
      BY <1>2 DEF ReadSome
    <2>5. rbuf \in [Fds -> Seq(R)] /\ rx \in [Fds -> Seq(Kinds)]
      BY Zenon DEF TypeOK
    <2> HIDE DEF fd, new, R
    <2>6. rbuf' \in [Fds -> Seq(R)]
      <3>1. PICK b \in Seq(R) : b = rbuf[fd] \o new
        BY <2>3
      <3>2. rbuf' = [rbuf EXCEPT ![fd] = b]
        BY <2>4, <3>1
      <3> QED
        BY <2>5, <3>2, Updated
    <2>7. rx' \in [Fds -> Seq(Kinds)]
      BY <2>4, <2>5, EmptySeq, Updated
    <2> QED
      BY <1>2, <2>6, <2>7 DEF ReadSome, TypeOK, Pool!PoolTypeOK, R
  <1>3. CASE ReadEnds(w)
    BY <1>3, ReadEndsStep, ZenonT(60) DEF TypeOK, Pool!PoolTypeOK
  <1>4. CASE WriteSome(w)
    <2>1. PICK fd : fd = running[w].fd
      OBVIOUS
    <2>2. /\ fd \in Fds
          /\ at' = [at EXCEPT ![w] = IF Left(fd) = <<0, 0>> THEN "process" ELSE "write"]
          /\ space' = [space EXCEPT ![fd] = space[fd] - Written(fd)]
          /\ iov' = [iov EXCEPT ![fd] = Left(fd)]
          /\ wbuf' = [wbuf EXCEPT ![fd] =
                        IF Written(fd) > iov[fd][1]
                        THEN IF iov[fd][1] > 0 THEN <<>> ELSE wbuf[fd]
                        ELSE SubSeq(wbuf[fd], Written(fd) + 1, Len(wbuf[fd]))]
          /\ UNCHANGED <<backlog, edge, sock, peer, rx, interest, status, rbuf, user_cnt,
                         mpc, batch, queue, running, dead>>
      BY <1>4, <2>1, WriteStep
    <2>3. /\ Written(fd) \in 0..space[fd] /\ space[fd] \in 0..SndBuf
          /\ Left(fd) \in Nat \X Nat
      BY <2>2, WriteLeaves
    <2>4. space' \in [Fds -> 0..SndBuf]
      <3>1. space[fd] - Written(fd) \in 0..SndBuf
        BY <2>3, ServerAssumption
      <3> QED
        BY <2>2, <3>1 DEF TypeOK
    <2>5. iov' \in [Fds -> Nat \X Nat]
      BY <2>2, <2>3 DEF TypeOK
    <2>6. wbuf' \in [Fds -> Seq({"own", "old"})]
      <3>1. wbuf[fd] \in Seq({"own", "old"}) /\ Written(fd) \in Nat
        BY <2>2, <2>3, ServerAssumption DEF TypeOK
      <3>2. SubSeq(wbuf[fd], Written(fd) + 1, Len(wbuf[fd])) \in Seq({"own", "old"})
        BY <3>1, SubSeqProperties, LenProperties, ElementOfSeq
      <3>3. <<>> \in Seq({"own", "old"})
        OBVIOUS
      <3> QED
        BY <2>2, <3>1, <3>2, <3>3, Updated DEF TypeOK
    <2>7. at' \in [Workers -> {"idle", "read", "write", "process", "tail"}]
      BY <2>2 DEF TypeOK
    <2> QED
      BY <2>2, <2>4, <2>5, <2>6, <2>7 DEF TypeOK, Pool!PoolTypeOK
  <1>5. CASE WriteFails(w) \/ ProcessDies(w)
    BY <1>5 DEF WriteFails, ProcessDies, Die, TypeOK, Pool!PoolTypeOK
  <1>6. CASE ProcessNothing(w)
    <2>1. running[w].fd \in Fds
      BY <1>6, TaskFd DEF ProcessNothing, Step
    <2>2. interest' \in [Fds \cup {ListenFd} -> {"none", "off", "in", "out"}]
      BY <1>6, <2>1 DEF ProcessNothing, ArmRequest, modFd, TypeOK
    <2>3. at' \in [Workers -> {"idle", "read", "write", "process", "tail"}]
      BY <1>6 DEF ProcessNothing, Step, TypeOK
    <2> QED
      BY <1>6, <2>2, <2>3 DEF ProcessNothing, TypeOK, Pool!PoolTypeOK
  <1>7. CASE ProcessReply(w)
    <2> DEFINE fd == running[w].fd
    <2>1. fd \in Fds
      BY <1>7, TaskFd DEF ProcessReply, Step
    <2>2. interest' \in [Fds \cup {ListenFd} -> {"none", "off", "in", "out"}]
      BY <1>7, <2>1 DEF ProcessReply, ArmReply, modFd, TypeOK
    <2>3. at' \in [Workers -> {"idle", "read", "write", "process", "tail"}]
      BY <1>7 DEF ProcessReply, Step, TypeOK
    <2>4. Head(rbuf[fd]).of \in {"own", "old"}
      <3>1. Head(rbuf[fd]) \in [of : {"own", "old"}, kind : Kinds]
        BY <1>7, <2>1, HeadTailProperties DEF ProcessReply, TypeOK
      <3> QED
        BY <3>1
    <2>5. /\ wbuf' = [wbuf EXCEPT ![fd] = <<Head(rbuf[fd]).of>>]
          /\ iov' = [iov EXCEPT ![fd] = <<1, BodyLen>>]
          /\ rbuf' = [rbuf EXCEPT ![fd] = <<>>]
      BY <1>7 DEF ProcessReply, HeadWriteBuff
    <2>6. wbuf' \in [Fds -> Seq({"own", "old"})]
      <3>1. <<Head(rbuf[fd]).of>> \in Seq({"own", "old"})
        BY <2>4
      <3> QED
        BY <2>5, <3>1, Updated DEF TypeOK
    <2>7. iov' \in [Fds -> Nat \X Nat]
      BY <2>5, ServerAssumption DEF TypeOK
    <2>8. rbuf' \in [Fds -> Seq([of : {"own", "old"}, kind : Kinds])]
      BY <2>5, EmptySeq DEF TypeOK
    <2> QED
      BY <1>7, <2>2, <2>3, <2>6, <2>7, <2>8 DEF ProcessReply, TypeOK, Pool!PoolTypeOK
  <1>8. CASE TaskReturns(w)
    BY <1>8 DEF TaskReturns, Step, Pool!FinishTask, TypeOK, Pool!PoolTypeOK
  <1> QED
    BY <1>1, <1>2, <1>3, <1>4, <1>5, <1>6, <1>7, <1>8

\* The steps of the peers keep every variable in its type.
LEMMA PeerType ==
  ASSUME TypeOK,
         \/ Connect
         \/ \E fd \in Fds :
              \/ \E k \in Kinds : PeerSends(fd, k)
              \/ \E how \in {"fin", "rst"} : PeerLeaves(fd, how)
              \/ PeerAcks(fd)
  PROVE  TypeOK'
  <1> USE DEF connectorVars, mainVars, workerVars
  <1>1. CASE Connect
    <2>1. backlog' \in 0..MaxBacklog
      BY <1>1, ServerAssumption DEF Connect, TypeOK
    <2>2. edge' \in BOOLEAN
      BY <1>1, Zenon DEF Connect
    <2> QED
      BY <1>1, <2>1, <2>2 DEF Connect, TypeOK, Pool!PoolTypeOK
  <1>2. ASSUME NEW fd \in Fds, NEW k \in Kinds, PeerSends(fd, k) PROVE TypeOK'
    <2>1. rx' \in [Fds -> Seq(Kinds)]
      BY <1>2, AppendProperties DEF PeerSends, TypeOK
    <2> QED
      BY <1>2, <2>1 DEF PeerSends, TypeOK, Pool!PoolTypeOK
  <1>3. ASSUME NEW fd \in Fds, NEW how \in {"fin", "rst"}, PeerLeaves(fd, how)
        PROVE  TypeOK'
    BY <1>3 DEF PeerLeaves, TypeOK, Pool!PoolTypeOK
  <1>4. ASSUME NEW fd \in Fds, PeerAcks(fd) PROVE TypeOK'
    <2>1. space' \in [Fds -> 0..SndBuf]
      BY <1>4, ServerAssumption DEF PeerAcks, TypeOK
    <2> QED
      BY <1>4, <2>1 DEF PeerAcks, TypeOK, Pool!PoolTypeOK
  <1> QED
    BY <1>1, <1>2, <1>3, <1>4

\* Every step keeps every variable in its type.
LEMMA TypeNext ==
  ASSUME TypeOK, WorkerInv, HolderInv, SocketInv, UserCount, [Next]_vars
  PROVE  TypeOK'
  <1>1. CASE UNCHANGED vars
    BY <1>1 DEF vars, kernelVars, connectorVars, mainVars, workerVars, TypeOK,
       Pool!PoolTypeOK
  <1> QED
    BY <1>1, StepCases, MainType, WorkerType, PeerType

-----------------------------------------------------------------------------
(* Steps that leave every connection with its holder.                      *)

\* What the connections satisfy, apart from their types.
ConnInv ==
    /\ WorkerInv /\ SocketInv /\ HolderInv
    /\ UserCount /\ TurnInv /\ BufferInv /\ NoCrossTalk

\* A step that touches neither the connectors nor the workers, nor what epoll and
\* the batch have of the clients.
LEMMA Untouched ==
  ASSUME TypeOK, ConnInv,
         UNCHANGED <<status, rbuf, wbuf, iov, user_cnt, queue, running, at>>,
         \A fd \in Fds : /\ interest'[fd] = interest[fd]
                         /\ sock[fd] = "open" => sock'[fd] = "open",
         batch' = batch \/ batch' = batch \ {ListenEvent}
  PROVE  ConnInv'
  <1> USE DEF ConnInv
  <1>1. \A w \in Workers, fd \in Fds : Works(w, fd)' <=> Works(w, fd)
    BY DEF Works
  <1>2. \A fd \in Fds : /\ Armed(fd)' <=> Armed(fd)
                        /\ Reported(fd)' <=> Reported(fd)
                        /\ Queued(fd)' <=> Queued(fd)
                        /\ Worked(fd)' <=> Worked(fd)
    BY <1>1, ServerAssumption DEF Armed, Reported, Queued, Worked, ListenEvent
  <1>3. batch' \subseteq batch
    OBVIOUS
  <1>4. WorkerInv'
    BY DEF WorkerInv
  <1>5. SocketInv'
    BY DEF SocketInv
  <1>6. HolderInv'
    BY <1>1, <1>2, <1>3 DEF HolderInv
  <1>7. UserCount'
    BY DEF UserCount
  <1>8. TurnInv'
    BY <1>3 DEF TurnInv, NoReply
  <1>9. BufferInv'
    BY <1>1 DEF BufferInv
  <1>10. NoCrossTalk'
    BY DEF NoCrossTalk
  <1> QED
    BY <1>4, <1>5, <1>6, <1>7, <1>8, <1>9, <1>10

\* These are such steps.
LEMMA OtherSteps ==
  ASSUME TypeOK, ConnInv,
         \/ InitListenSocket \/ HandleListen \/ AcceptFails
         \/ \E fd \in Fds : AcceptFull(fd)
         \/ \E w \in Workers : WriteFails(w) \/ ProcessDies(w)
         \/ Connect
         \/ \E fd \in Fds :
              \/ \E k \in Kinds : PeerSends(fd, k)
              \/ \E how \in {"fin", "rst"} : PeerLeaves(fd, how)
              \/ PeerAcks(fd)
         \/ UNCHANGED vars
  PROVE  ConnInv'
  <1> USE DEF kernelVars, connectorVars, mainVars, workerVars
  <1>1. CASE InitListenSocket
    <2>1. \A fd \in Fds : interest'[fd] = interest[fd]
      BY <1>1, ServerAssumption DEF InitListenSocket, addFd, TypeOK
    <2> QED
      BY <1>1, <2>1, Untouched DEF InitListenSocket
  <1>2. CASE HandleListen
    BY <1>2, Untouched DEF HandleListen, Take
  <1>3. CASE AcceptFails
    BY <1>3, Untouched DEF AcceptFails
  <1>4. ASSUME NEW fd \in Fds, AcceptFull(fd) PROVE ConnInv'
    <2>1. \A f \in Fds : sock[f] = "open" => sock'[f] = "open"
      BY <1>4 DEF AcceptFull, Accept, TypeOK
    <2> QED
      BY <1>4, <2>1, Untouched DEF AcceptFull, Accept
  <1>5. ASSUME NEW w \in Workers, WriteFails(w) \/ ProcessDies(w) PROVE ConnInv'
    BY <1>5, Untouched DEF WriteFails, ProcessDies, Die
  <1>6. CASE Connect
    BY <1>6, Untouched DEF Connect
  <1>7. ASSUME NEW fd \in Fds, NEW k \in Kinds, PeerSends(fd, k) PROVE ConnInv'
    BY <1>7, Untouched DEF PeerSends
  <1>8. ASSUME NEW fd \in Fds, NEW how \in {"fin", "rst"}, PeerLeaves(fd, how)
        PROVE  ConnInv'
    BY <1>8, Untouched DEF PeerLeaves
  <1>9. ASSUME NEW fd \in Fds, PeerAcks(fd) PROVE ConnInv'
    BY <1>9, Untouched DEF PeerAcks
  <1>10. CASE UNCHANGED vars
    BY <1>10, Untouched DEF vars
  <1> QED
    BY <1>1, <1>2, <1>3, <1>4, <1>5, <1>6, <1>7, <1>8, <1>9, <1>10

\* A worker at work on a connection is its only holder.
LEMMA WorkerHolds ==
  ASSUME TypeOK, ConnInv, NEW w \in Workers, NEW fd \in Fds, Works(w, fd)
  PROVE  /\ status[fd] /\ interest[fd] = "off"
         /\ \A e \in batch : e.fd # fd
         /\ \A i \in 1..Len(queue) : queue[i].fd # fd
         /\ \A v \in Workers : Works(v, fd) => v = w
  <1>1. Worked(fd)
    BY DEF Worked
  <1>2. /\ status[fd] /\ ~Armed(fd) /\ ~Reported(fd) /\ ~Queued(fd)
    BY <1>1 DEF ConnInv, HolderInv
  <1>3. interest[fd] = "off"
    BY <1>2 DEF Armed, ConnInv, SocketInv, TypeOK
  <1> QED
    BY <1>2, <1>3 DEF Reported, Queued, ConnInv, HolderInv

\* Steps of a worker inside its task hand nothing over.
LEMMA SameHolders ==
  ASSUME TypeOK, ConnInv,
         UNCHANGED <<interest, status, batch, queue>>,
         \A w \in Workers, fd \in Fds : Works(w, fd)' <=> Works(w, fd)
  PROVE  HolderInv'
  <1>1. \A fd \in Fds : /\ Armed(fd)' <=> Armed(fd)
                        /\ Reported(fd)' <=> Reported(fd)
                        /\ Queued(fd)' <=> Queued(fd)
                        /\ Worked(fd)' <=> Worked(fd)
    BY DEF Armed, Reported, Queued, Worked
  <1> QED
    BY <1>1 DEF ConnInv, HolderInv

\* Read fills the read buffer of the worker's own connection.
LEMMA ReadSomeInv ==
  ASSUME TypeOK, ConnInv, NEW w \in Workers, ReadSome(w)
  PROVE  ConnInv'
  <1> USE DEF ConnInv
  <1>1. PICK fd : fd = running[w].fd
    OBVIOUS
  <1>2. fd \in Fds /\ at[w] = "read" /\ running[w].kind = "read" /\ Works(w, fd)
    BY <1>1, TaskFd DEF ReadSome, WorkerInv, Works
  <1>3. PICK new : new = [i \in DOMAIN rx[fd] |-> [of |-> "own", kind |-> rx[fd][i]]]
    OBVIOUS
  <1>4. /\ rbuf' = [rbuf EXCEPT ![fd] = rbuf[fd] \o new]
        /\ UNCHANGED <<sock, interest, status, wbuf, iov, user_cnt, batch, queue,
                       running, at>>
    BY <1>1, <1>3 DEF ReadSome, mainVars, workerVars
  <1>5. \A v \in Workers, f \in Fds : Works(v, f)' <=> Works(v, f)
    BY <1>4 DEF Works
  <1>6. WorkerInv' /\ SocketInv' /\ UserCount' /\ TurnInv'
    BY <1>4 DEF WorkerInv, SocketInv, UserCount, TurnInv, NoReply
  <1>7. HolderInv'
    BY <1>4, <1>5, SameHolders
  <1>8. BufferInv'
    BY <1>2, <1>4, <1>5 DEF BufferInv, TypeOK
  <1>9. NoCrossTalk'
    <2>1. /\ new \in Seq([of : {"own", "old"}, kind : Kinds])
          /\ \A i \in 1..Len(new) : new[i].of = "own"
      <3>1. /\ Len(rx[fd]) \in Nat /\ DOMAIN rx[fd] = 1..Len(rx[fd])
            /\ \A i \in 1..Len(rx[fd]) : rx[fd][i] \in Kinds
        BY <1>2, LenProperties, ElementOfSeq DEF TypeOK
      <3> QED
        BY <1>3, <3>1
    <2>2. rbuf[fd] \in Seq([of : {"own", "old"}, kind : Kinds])
      BY <1>2 DEF TypeOK
    <2>3. status[fd]
      BY <1>2, WorkerHolds
    <2>4. \A i \in 1..Len(rbuf[fd]) : rbuf[fd][i].of = "own"
      BY <1>2, <2>2, <2>3, LenProperties DEF NoCrossTalk
    <2>5. PICK both : both = rbuf[fd] \o new
      OBVIOUS
    <2>6. \A i \in DOMAIN both : both[i].of = "own"
      BY <2>1, <2>2, <2>4, <2>5, ConcatProperties, LenProperties
    <2>7. rbuf' = [rbuf EXCEPT ![fd] = both]
      BY <1>4, <2>5
    <2>8. \A f \in Fds : rbuf'[f] = IF f = fd THEN both ELSE rbuf[f]
      BY <2>7 DEF TypeOK
    <2>9. ASSUME NEW f \in Fds, status[f]
          PROVE  \A i \in DOMAIN rbuf'[f] : rbuf'[f][i].of = "own"
      <3>1. CASE f = fd
        <4>1. rbuf'[f] = both
          BY <2>8, <3>1
        <4> QED
          BY <2>6, <4>1
      <3>2. CASE f # fd
        <4>1. rbuf'[f] = rbuf[f]
          BY <2>8, <3>2
        <4> QED
          BY <2>9, <4>1 DEF NoCrossTalk
      <3> QED
        BY <3>1, <3>2
    <2> QED
      BY <1>4, <2>9 DEF NoCrossTalk
  <1> QED
    BY <1>6, <1>7, <1>8, <1>9

\* Read ends: the worker goes on to _Process with the same connection.
LEMMA ReadEndsInv ==
  ASSUME TypeOK, ConnInv, NEW w \in Workers, ReadEnds(w)
  PROVE  ConnInv'
  <1> USE DEF ConnInv
  <1>1. /\ at[w] = "read" /\ at' = [at EXCEPT ![w] = "process"]
        /\ UNCHANGED <<sock, interest, status, rbuf, wbuf, iov, user_cnt, batch, queue,
                       running>>
    BY ReadEndsStep DEF kernelVars, connectorVars, mainVars
  <1>2. \A v \in Workers, f \in Fds : Works(v, f)' <=> Works(v, f)
    BY <1>1 DEF Works, TypeOK
  <1>3. WorkerInv' /\ SocketInv' /\ UserCount' /\ NoCrossTalk'
    BY <1>1 DEF WorkerInv, SocketInv, UserCount, NoCrossTalk, TypeOK
  <1>4. HolderInv'
    BY <1>1, <1>2, SameHolders
  <1>5. TurnInv'
    BY <1>1 DEF TurnInv, NoReply, TypeOK
  <1>6. BufferInv'
    BY <1>1, <1>2 DEF BufferInv, TypeOK
  <1> QED
    BY <1>3, <1>4, <1>5, <1>6

\* A task that returns has re-armed its connection before.
LEMMA TaskReturnsInv ==
  ASSUME TypeOK, ConnInv, NEW w \in Workers, TaskReturns(w)
  PROVE  ConnInv'
  <1> USE DEF ConnInv
  <1>1. /\ at[w] = "tail" /\ at' = [at EXCEPT ![w] = "idle"]
        /\ running' = [running EXCEPT ![w] = NoTask]
        /\ UNCHANGED <<sock, interest, status, rbuf, wbuf, iov, user_cnt, batch, queue>>
    BY DEF TaskReturns, Step, Pool!FinishTask, kernelVars, connectorVars, mainVars
  <1>2. \A v \in Workers, f \in Fds : Works(v, f)' <=> Works(v, f)
    BY <1>1 DEF Works, TypeOK, Pool!PoolTypeOK
  <1>3. WorkerInv' /\ SocketInv' /\ UserCount' /\ NoCrossTalk'
    BY <1>1 DEF WorkerInv, SocketInv, UserCount, NoCrossTalk, TypeOK, Pool!PoolTypeOK
  <1>4. HolderInv'
    BY <1>1, <1>2, SameHolders
  <1>5. TurnInv'
    BY <1>1 DEF TurnInv, NoReply, TypeOK, Pool!PoolTypeOK
  <1>6. BufferInv'
    BY <1>1, <1>2 DEF BufferInv, TypeOK, Pool!PoolTypeOK
  <1> QED
    BY <1>3, <1>4, <1>5, <1>6

\* Write takes the header and the file from the worker's own connection; when
\* nothing is left the worker goes on to _Process, as TurnInv asks.
LEMMA WriteSomeInv ==
  ASSUME TypeOK, ConnInv, NEW w \in Workers, WriteSome(w)
  PROVE  ConnInv'
  <1> USE DEF ConnInv
  <1>1. PICK fd : fd = running[w].fd
    OBVIOUS
  <1>2. /\ fd \in Fds /\ at[w] = "write"
        /\ at' = [at EXCEPT ![w] = IF Left(fd) = <<0, 0>> THEN "process" ELSE "write"]
        /\ iov' = [iov EXCEPT ![fd] = Left(fd)]
        /\ wbuf' = [wbuf EXCEPT ![fd] =
                      IF Written(fd) > iov[fd][1]
                      THEN IF iov[fd][1] > 0 THEN <<>> ELSE wbuf[fd]
                      ELSE SubSeq(wbuf[fd], Written(fd) + 1, Len(wbuf[fd]))]
        /\ UNCHANGED <<sock, interest, status, rbuf, user_cnt, batch, queue, running>>
    BY <1>1, WriteStep
  <1>3. Works(w, fd)
    BY <1>1, <1>2 DEF Works
  <1>4. /\ status[fd] /\ interest[fd] = "off"
        /\ \A e \in batch : e.fd # fd
        /\ \A i \in 1..Len(queue) : queue[i].fd # fd
        /\ \A v \in Workers : Works(v, fd) => v = w
    BY <1>2, <1>3, WorkerHolds
  <1>5. \A v \in Workers, f \in Fds : Works(v, f)' <=> Works(v, f)
    BY <1>2 DEF Works, TypeOK
  <1>6. WorkerInv'
    BY <1>1, <1>2 DEF WorkerInv, TypeOK
  <1>7. SocketInv' /\ UserCount'
    BY <1>2 DEF SocketInv, UserCount
  <1>8. HolderInv'
    BY <1>2, <1>5, SameHolders
  <1>9. TurnInv'
    <2>1. \A f \in Fds : iov'[f] = IF f = fd THEN Left(fd) ELSE iov[f]
      BY <1>2 DEF TypeOK
    <2>2. \A f \in Fds : f # fd => (NoReply(f)' <=> NoReply(f))
      BY <2>1 DEF NoReply
    <2>3. \A i \in 1..Len(queue) : queue[i].fd \in Fds
      BY QueuedTask
    <2>4. ASSUME NEW v \in Workers, v # w, at[v] \in {"read", "write", "process"}
          PROVE  running[v].fd \in Fds /\ running[v].fd # fd
      BY <1>4, <2>4, TaskFd DEF Works
    <2>5. ASSUME NEW v \in Workers
          PROVE  /\ at'[v] \in {"read", "process"} => NoReply(running[v].fd)'
                 /\ at'[v] = "write" => ~NoReply(running[v].fd)'
      <3>1. CASE v = w
        BY <1>1, <1>2, <2>1, <3>1 DEF NoReply, TypeOK
      <3>2. CASE v # w
        <4>1. at'[v] = at[v]
          BY <1>2, <3>2 DEF TypeOK
        <4>2. at[v] \in {"read", "write", "process"} =>
                (NoReply(running[v].fd)' <=> NoReply(running[v].fd))
          BY <1>2, <2>1, <2>4, <3>2 DEF NoReply
        <4> QED
          BY <4>1, <4>2 DEF TurnInv
      <3> QED
        BY <3>1, <3>2
    <2>6. \A f \in Fds : /\ interest'[f] = "in" => NoReply(f)'
                         /\ interest'[f] = "out" => ~NoReply(f)'
                         /\ ~status'[f] => NoReply(f)'
      BY <1>2, <1>4, <2>2 DEF TurnInv
    <2>7. \A e \in batch' : e.fd \in Fds => /\ e.ev = "in" => NoReply(e.fd)'
                                            /\ e.ev = "out" => ~NoReply(e.fd)'
      BY <1>2, <1>4, <2>2 DEF TurnInv
    <2>8. \A i \in 1..Len(queue') : NoReply(queue[i].fd)' <=> queue'[i].kind = "read"
      <3>1. SUFFICES ASSUME NEW i \in 1..Len(queue)
                     PROVE  NoReply(queue[i].fd)' <=> queue[i].kind = "read"
        BY <1>2
      <3>2. queue[i].fd \in Fds /\ queue[i].fd # fd
        BY <1>4, <2>3
      <3>3. NoReply(queue[i].fd)' <=> NoReply(queue[i].fd)
        BY <1>2, <2>1, <3>2 DEF NoReply
      <3> QED
        BY <3>3 DEF TurnInv
    <2> QED
      BY <1>2, <2>5, <2>6, <2>7, <2>8 DEF TurnInv
  <1>10. BufferInv'
    BY <1>2, <1>5 DEF BufferInv, TypeOK
  <1>11. NoCrossTalk'
    <2>1. /\ Written(fd) \in Nat /\ iov[fd][1] \in Nat
          /\ Written(fd) > iov[fd][1] => Left(fd)[1] = 0
          /\ Written(fd) <= iov[fd][1] => Left(fd)[1] = iov[fd][1] - Written(fd)
      <3>1. /\ Written(fd) \in 0..space[fd] /\ space[fd] \in 0..SndBuf
            /\ iov[fd][1] \in Nat
            /\ Written(fd) > iov[fd][1] => Left(fd)[1] = 0
            /\ Written(fd) <= iov[fd][1] => Left(fd)[1] = iov[fd][1] - Written(fd)
        BY <1>2, WriteLeaves
      <3> QED
        BY <3>1, ServerAssumption
    <2>2. iov'[fd] = Left(fd)
      BY <1>2 DEF TypeOK
    <2>3. ASSUME iov'[fd][1] > 0
          PROVE  wbuf'[fd] = [i \in 1..iov'[fd][1] |-> "own"]
      <3>1. Written(fd) <= iov[fd][1] /\ Left(fd)[1] = iov[fd][1] - Written(fd)
        BY <2>1, <2>2, <2>3
      <3>2. PICK a, n \in Nat : a = iov[fd][1] /\ n = Written(fd)
        BY <2>1
      <3>3. n <= a /\ a > 0 /\ iov'[fd][1] = a - n
        BY <2>2, <2>3, <3>1, <3>2
      <3>4. wbuf[fd] = [i \in 1..a |-> "own"]
        BY <1>2, <1>4, <3>2, <3>3 DEF NoCrossTalk
      <3>5. wbuf'[fd] = SubSeq(wbuf[fd], n + 1, Len(wbuf[fd]))
        <4>1. ~(Written(fd) > iov[fd][1])
          BY <3>2, <3>3
        <4>2. wbuf' = [wbuf EXCEPT ![fd] = SubSeq(wbuf[fd], Written(fd) + 1, Len(wbuf[fd]))]
          BY <1>2, <4>1
        <4>3. wbuf'[fd] = SubSeq(wbuf[fd], Written(fd) + 1, Len(wbuf[fd]))
          BY <1>2, <4>2 DEF TypeOK
        <4> QED
          BY <3>2, <4>3
      <3>6. SubSeq(wbuf[fd], n + 1, Len(wbuf[fd])) = [i \in 1..(a - n) |-> "own"]
        BY <3>3, <3>4
      <3> QED
        BY <3>3, <3>5, <3>6
    <2>4. \A f \in Fds : f # fd => iov'[f] = iov[f] /\ wbuf'[f] = wbuf[f]
      BY <1>2 DEF TypeOK
    <2> QED
      BY <1>2, <2>3, <2>4 DEF NoCrossTalk
  <1> QED
    BY <1>6, <1>7, <1>8, <1>9, <1>10, <1>11

-----------------------------------------------------------------------------
(* Steps that hand a connection over.                                      *)

\* epoll hands every connection it reports to the main thread, disarmed.
LEMMA EpollWaitInv ==
  ASSUME TypeOK, ConnInv, EpollWait
  PROVE  ConnInv'
  <1> USE DEF ConnInv
  <1>1. PICK B \in SUBSET Deliverable :
           /\ batch' = B
           /\ interest' = [fd \in DOMAIN interest |->
                             IF fd \in Fds /\ \E e \in B : e.fd = fd THEN "off"
                                                             ELSE interest[fd]]
    BY DEF EpollWait, Oneshot
  <1>2. /\ batch = {}
        /\ UNCHANGED <<sock, status, rbuf, wbuf, iov, user_cnt, queue, running, at>>
    BY DEF EpollWait, connectorVars, workerVars
  <1>3. ASSUME NEW e \in B
        PROVE  \/ e = ListenEvent /\ e.fd \notin Fds
               \/ /\ e.fd \in Fds /\ e = EventOf(e.fd) /\ interest[e.fd] \in {"in", "out"}
                  /\ e.ev \in {"in", "out"} => e.ev = interest[e.fd]
    <2>1. CASE e = ListenEvent
      BY <2>1, ServerAssumption DEF ListenEvent
    <2>2. ASSUME NEW f \in Fds, Ready(f), e = EventOf(f)
          PROVE  /\ e.fd \in Fds /\ e = EventOf(e.fd) /\ interest[e.fd] \in {"in", "out"}
                 /\ e.ev \in {"in", "out"} => e.ev = interest[e.fd]
      BY <2>2 DEF Ready, EventOf
    <2> QED
      BY <2>1, <2>2 DEF Deliverable
  <1>4. \A f \in Fds : interest'[f] = IF Reported(f)' THEN "off" ELSE interest[f]
    BY <1>1 DEF Reported, TypeOK
  <1>5. \A f \in Fds : Reported(f)' => Armed(f)
    BY <1>1, <1>3 DEF Reported, Armed
  <1>6. \A f \in Fds : /\ ~Reported(f)
                       /\ Armed(f)' <=> Armed(f) /\ ~Reported(f)'
                       /\ Queued(f)' <=> Queued(f)
                       /\ Worked(f)' <=> Worked(f)
    BY <1>2, <1>4 DEF Armed, Reported, Queued, Worked, Works
  <1>7. WorkerInv' /\ UserCount' /\ NoCrossTalk'
    BY <1>2 DEF WorkerInv, UserCount, NoCrossTalk
  <1>8. SocketInv'
    BY <1>2, <1>4, <1>5 DEF SocketInv, Armed
  <1>9. HolderInv'
    <2>1. \A d, e \in batch' : d.fd = e.fd => d = e
      BY <1>1, <1>3
    <2>2. \A f \in Fds :
            status'[f] <=> Armed(f)' \/ Reported(f)' \/ Queued(f)' \/ Worked(f)'
      BY <1>2, <1>5, <1>6 DEF HolderInv
    <2>3. \A f \in Fds :
            /\ Armed(f)' => ~Reported(f)' /\ ~Queued(f)' /\ ~Worked(f)'
            /\ Reported(f)' => ~Queued(f)' /\ ~Worked(f)'
            /\ Queued(f)' => ~Worked(f)'
      BY <1>5, <1>6 DEF HolderInv
    <2> QED
      BY <1>2, <2>1, <2>2, <2>3 DEF HolderInv, Works
  <1>10. TurnInv'
    <2>1. \A f : NoReply(f)' <=> NoReply(f)
      BY <1>2 DEF NoReply
    <2>2. \A e \in batch' : e.fd \in Fds => /\ e.ev = "in" => NoReply(e.fd)
                                            /\ e.ev = "out" => ~NoReply(e.fd)
      BY <1>1, <1>3 DEF TurnInv
    <2>3. \A f \in Fds : interest'[f] \in {"in", "out"} => interest'[f] = interest[f]
      BY <1>4
    <2> QED
      BY <1>2, <2>1, <2>2, <2>3 DEF TurnInv
  <1>11. BufferInv'
    BY <1>2 DEF BufferInv, Works
  <1> QED
    BY <1>7, <1>8, <1>9, <1>10, <1>11

\* accept hands a descriptor nobody holds to epoll.  Its HttpConnector may have
\* been used before; its buffers and _iov are empty all the same.
LEMMA AcceptClientInv ==
  ASSUME TypeOK, ConnInv, NEW fd \in Fds, AcceptClient(fd)
  PROVE  ConnInv'
  <1> USE DEF ConnInv
  <1>1. /\ sock[fd] = "closed" /\ ~Full
        /\ sock' = [sock EXCEPT ![fd] = "open"]
        /\ user_cnt' = user_cnt + 1
        /\ status' = [status EXCEPT ![fd] = TRUE]
        /\ interest' = [interest EXCEPT ![fd] = "in"]
        /\ UNCHANGED <<rbuf, wbuf, iov, batch, queue, running, at>>
    BY DEF AcceptClient, Accept, InitConnector, addFd, workerVars
  <1>2. \A f \in Fds : /\ status'[f] = IF f = fd THEN TRUE ELSE status[f]
                       /\ interest'[f] = IF f = fd THEN "in" ELSE interest[f]
                       /\ sock'[f] = IF f = fd THEN "open" ELSE sock[f]
    BY <1>1 DEF TypeOK
  <1>3. ~status[fd] /\ NoReply(fd)
    BY <1>1 DEF SocketInv, TurnInv
  <1>4. ~Armed(fd) /\ ~Reported(fd) /\ ~Queued(fd) /\ ~Worked(fd)
    BY <1>3 DEF HolderInv
  <1>5. rbuf[fd] = <<>>
    BY <1>4 DEF BufferInv, Worked
  <1>6. \A f \in Fds : /\ Armed(f)' <=> Armed(f) \/ f = fd
                       /\ Reported(f)' <=> Reported(f)
                       /\ Queued(f)' <=> Queued(f)
                       /\ Worked(f)' <=> Worked(f)
    BY <1>1, <1>2 DEF Armed, Reported, Queued, Worked, Works
  <1>7. WorkerInv' /\ BufferInv'
    BY <1>1 DEF WorkerInv, BufferInv, Works
  <1>8. SocketInv'
    BY <1>2 DEF SocketInv
  <1>9. HolderInv'
    <2>1. \A f \in Fds :
            status'[f] <=> Armed(f)' \/ Reported(f)' \/ Queued(f)' \/ Worked(f)'
      BY <1>2, <1>6 DEF HolderInv
    <2>2. \A f \in Fds :
            /\ Armed(f)' => ~Reported(f)' /\ ~Queued(f)' /\ ~Worked(f)'
            /\ Reported(f)' => ~Queued(f)' /\ ~Worked(f)'
            /\ Queued(f)' => ~Worked(f)'
      BY <1>4, <1>6 DEF HolderInv
    <2> QED
      BY <1>1, <2>1, <2>2 DEF HolderInv, Works
  <1>10. UserCount'
    <2>1. Clients' = Clients \cup {fd} /\ fd \notin Clients
      BY <1>2, <1>3, Zenon DEF Clients
    <2>2. Cardinality(Clients') = Cardinality(Clients) + 1
      BY <2>1, ClientsCounted, FS_AddElement
    <2>3. user_cnt' = Cardinality(Clients') /\ user_cnt' <= MaxClients
      BY <1>1, <2>2, ClientsCounted, ServerAssumption DEF Full, TypeOK
    <2> QED
      BY <2>3, Zenon DEF UserCount, Clients
  <1>11. TurnInv'
    <2>1. \A f : NoReply(f)' <=> NoReply(f)
      BY <1>1 DEF NoReply
    <2> QED
      BY <1>1, <1>2, <1>3, <2>1 DEF TurnInv
  <1>12. NoCrossTalk'
    BY <1>1, <1>2, <1>3, <1>5 DEF NoCrossTalk, NoReply
  <1> QED
    BY <1>7, <1>8, <1>9, <1>10, <1>11, <1>12

\* The main thread takes a connection out of the batch: nobody else holds it.
LEMMA TakeHolds ==
  ASSUME TypeOK, ConnInv, NEW fd \in Fds, NEW e \in batch, e.fd = fd, batch' = batch \ {e}
  PROVE  /\ status[fd] /\ interest[fd] = "off"
         /\ ~Armed(fd) /\ ~Queued(fd) /\ ~Worked(fd)
         /\ \A f \in Fds : Reported(f)' <=> Reported(f) /\ f # fd
  <1>1. Reported(fd)
    BY DEF Reported
  <1>2. /\ status[fd] /\ ~Armed(fd) /\ ~Queued(fd) /\ ~Worked(fd)
    BY <1>1 DEF ConnInv, HolderInv
  <1>3. interest[fd] = "off"
    BY <1>2 DEF Armed, ConnInv, SocketInv, TypeOK
  <1>4. \A f \in Fds : Reported(f)' <=> Reported(f) /\ f # fd
    BY DEF Reported, ConnInv, HolderInv
  <1> QED
    BY <1>2, <1>3, <1>4

\* The main thread closes the connection it took from the batch.
LEMMA HandleHupInv ==
  ASSUME TypeOK, ConnInv, NEW fd \in Fds, HandleHup(fd)
  PROVE  ConnInv'
  <1> USE DEF ConnInv
  <1>1. /\ status[fd]
        /\ [fd |-> fd, ev |-> "hup"] \in batch
        /\ batch' = batch \ {[fd |-> fd, ev |-> "hup"]}
        /\ status' = [status EXCEPT ![fd] = FALSE]
        /\ user_cnt' = user_cnt - 1
        /\ iov' = [iov EXCEPT ![fd] = <<0, 0>>]
        /\ Mark(fd)
        /\ sock' = [sock EXCEPT ![fd] = "closed"]
        /\ interest' = [interest EXCEPT ![fd] = "none"]
        /\ UNCHANGED <<queue, running, at>>
    BY HupStep
  <1>2. \A f \in Fds : /\ status'[f] = IF f = fd THEN FALSE ELSE status[f]
                       /\ iov'[f] = IF f = fd THEN <<0, 0>> ELSE iov[f]
                       /\ interest'[f] = IF f = fd THEN "none" ELSE interest[f]
                       /\ sock'[f] = IF f = fd THEN "closed" ELSE sock[f]
    BY <1>1 DEF TypeOK
  <1>3. /\ ~Armed(fd) /\ ~Queued(fd) /\ ~Worked(fd)
        /\ \A f \in Fds : Reported(f)' <=> Reported(f) /\ f # fd
    BY <1>1, TakeHolds
  <1>4. \A f \in Fds : /\ Armed(f)' <=> Armed(f)
                       /\ Queued(f)' <=> Queued(f)
                       /\ Worked(f)' <=> Worked(f)
    BY <1>1, <1>2, <1>3 DEF Armed, Queued, Worked, Works
  <1>5. WorkerInv'
    BY <1>1 DEF WorkerInv
  <1>6. SocketInv'
    BY <1>2 DEF SocketInv
  <1>7. HolderInv'
    <2>1. \A f \in Fds :
            status'[f] <=> Armed(f)' \/ Reported(f)' \/ Queued(f)' \/ Worked(f)'
      BY <1>2, <1>3, <1>4 DEF HolderInv
    <2>2. \A f \in Fds :
            /\ Armed(f)' => ~Reported(f)' /\ ~Queued(f)' /\ ~Worked(f)'
            /\ Reported(f)' => ~Queued(f)' /\ ~Worked(f)'
            /\ Queued(f)' => ~Worked(f)'
      BY <1>3, <1>4 DEF HolderInv
    <2> QED
      BY <1>1, <2>1, <2>2 DEF HolderInv, Works
  <1>8. UserCount'
    <2>1. Clients' = Clients \ {fd} /\ fd \in Clients
      BY <1>1, <1>2, Zenon DEF Clients
    <2>2. Cardinality(Clients') = Cardinality(Clients) - 1
      BY <2>1, ClientsCounted, FS_RemoveElement
    <2>3. user_cnt' = Cardinality(Clients') /\ user_cnt' <= MaxClients
      BY <1>1, <2>2, ClientsCounted, ServerAssumption DEF TypeOK
    <2> QED
      BY <2>3, Zenon DEF UserCount, Clients
  <1>9. TurnInv'
    <2>1. \A f \in Fds : NoReply(f)' <=> NoReply(f) \/ f = fd
      BY <1>2 DEF NoReply
    <2>2. \A i \in 1..Len(queue) : queue[i].fd \in Fds /\ queue[i].fd # fd
      BY <1>3, QueuedTask DEF Queued
    <2>3. \A e \in batch' : e.fd # fd /\ e \in batch
      BY <1>1 DEF HolderInv
    <2>4. \A w \in Workers : at[w] \in {"read", "write", "process"} =>
                             running[w].fd \in Fds /\ running[w].fd # fd
      BY <1>3, TaskFd DEF Worked, Works
    <2>5. \A w \in Workers : /\ at'[w] \in {"read", "process"} => NoReply(running[w].fd)'
                             /\ at'[w] = "write" => ~NoReply(running[w].fd)'
      BY <1>1, <1>2, <2>4 DEF TurnInv, NoReply
    <2>6. ASSUME NEW i \in 1..Len(queue)
          PROVE  NoReply(queue[i].fd)' <=> queue'[i].kind = "read"
      <3>1. queue' = queue /\ iov'[queue[i].fd] = iov[queue[i].fd]
        BY <1>1, <1>2, <2>2
      <3> QED
        BY <3>1 DEF TurnInv, NoReply
    <2>7. \A f \in Fds : /\ interest'[f] = "in" => NoReply(f)'
                         /\ interest'[f] = "out" => ~NoReply(f)'
                         /\ ~status'[f] => NoReply(f)'
      BY <1>2, <2>1 DEF TurnInv
    <2>8. \A e \in batch' : e.fd \in Fds => /\ e.ev = "in" => NoReply(e.fd)'
                                            /\ e.ev = "out" => ~NoReply(e.fd)'
      BY <2>1, <2>3 DEF TurnInv
    <2>9. queue' = queue
      BY <1>1
    <2> QED
      BY <2>5, <2>6, <2>7, <2>8, <2>9 DEF TurnInv
  <1>10. rbuf[fd] = <<>> /\ \A f \in Fds : rbuf'[f] = rbuf[f]
    <2>1. rbuf[fd] = <<>>
      BY <1>3 DEF BufferInv, Worked
    <2>2. [i \in DOMAIN rbuf[fd] |-> [rbuf[fd][i] EXCEPT !.of = "old"]] = <<>>
      BY <2>1
    <2> QED
      BY <1>1, <2>1, <2>2 DEF Mark, TypeOK
  <1>11. BufferInv'
    BY <1>1, <1>10 DEF BufferInv, Works
  <1>12. NoCrossTalk'
    <2>1. \A f \in Fds : f # fd => wbuf'[f] = wbuf[f]
      BY <1>1 DEF Mark, TypeOK
    <2>2. ASSUME NEW f \in Fds, status'[f]
          PROVE  status[f] /\ rbuf'[f] = rbuf[f] /\ iov'[f] = iov[f] /\ wbuf'[f] = wbuf[f]
      BY <1>2, <1>10, <2>1, <2>2
    <2> QED
      BY <2>2 DEF NoCrossTalk
  <1> QED
    BY <1>5, <1>6, <1>7, <1>8, <1>9, <1>11, <1>12

\* The main thread hands the connection it took from the batch to the pool, with
\* the task that the state of its reply asks for.
LEMMA HandleTaskInv ==
  ASSUME TypeOK, ConnInv, NEW fd \in Fds, HandleRead(fd) \/ HandleWrite(fd)
  PROVE  ConnInv'
  <1> USE DEF ConnInv
  <1>1. PICK e \in batch, t \in Task :
          /\ e.fd = fd /\ t.fd = fd
          /\ \/ e.ev = "in" /\ t.kind = "read"
             \/ e.ev = "out" /\ t.kind = "write"
          /\ batch' = batch \ {e}
          /\ queue' = Append(queue, t)
    <2>1. CASE HandleRead(fd)
      <3>1. [kind |-> "read", fd |-> fd] \in Task
        BY DEF Task
      <3> QED
        BY <2>1, <3>1 DEF HandleRead, Take, Pool!Submit
    <2>2. CASE HandleWrite(fd)
      <3>1. [kind |-> "write", fd |-> fd] \in Task
        BY DEF Task
      <3> QED
        BY <2>2, <3>1 DEF HandleWrite, Take, Pool!Submit
    <2> QED
      BY <2>1, <2>2
  <1>2. UNCHANGED <<sock, interest, status, rbuf, wbuf, iov, user_cnt, running, at>>
    BY DEF HandleRead, HandleWrite, Pool!Submit, kernelVars, connectorVars
  <1>3. /\ ~Armed(fd) /\ ~Queued(fd) /\ ~Worked(fd)
        /\ \A f \in Fds : Reported(f)' <=> Reported(f) /\ f # fd
    BY <1>1, TakeHolds
  <1>4. /\ Len(queue) \in Nat /\ Len(queue') = Len(queue) + 1
        /\ queue'[Len(queue) + 1] = t
        /\ \A i \in 1..Len(queue) : queue'[i] = queue[i]
    BY <1>1, QueuedTask, AppendProperties
  <1>5. \A f \in Fds : Queued(f)' <=> Queued(f) \/ f = fd
    <2>1. ASSUME NEW f \in Fds, Queued(f) PROVE Queued(f)'
      BY <1>4, <2>1 DEF Queued
    <2>2. Queued(fd)'
      BY <1>1, <1>4 DEF Queued
    <2>3. ASSUME NEW f \in Fds, Queued(f)', f # fd PROVE Queued(f)
      BY <1>1, <1>4, <2>3 DEF Queued
    <2> QED
      BY <2>1, <2>2, <2>3
  <1>6. \A f \in Fds : (Armed(f)' <=> Armed(f)) /\ (Worked(f)' <=> Worked(f))
    BY <1>2 DEF Armed, Worked, Works
  <1>7. WorkerInv' /\ SocketInv' /\ UserCount' /\ BufferInv' /\ NoCrossTalk'
    BY <1>2 DEF WorkerInv, SocketInv, UserCount, BufferInv, NoCrossTalk, Works
  <1>8. HolderInv'
    <2>1. \A f \in Fds :
            status'[f] <=> Armed(f)' \/ Reported(f)' \/ Queued(f)' \/ Worked(f)'
      <3>1. Reported(fd)
        BY <1>1 DEF Reported
      <3> QED
        BY <1>2, <1>3, <1>5, <1>6, <3>1 DEF HolderInv
    <2>2. \A f \in Fds :
            /\ Armed(f)' => ~Reported(f)' /\ ~Queued(f)' /\ ~Worked(f)'
            /\ Reported(f)' => ~Queued(f)' /\ ~Worked(f)'
            /\ Queued(f)' => ~Worked(f)'
      BY <1>3, <1>5, <1>6 DEF HolderInv
    <2>3. \A d, c \in batch' : d.fd = c.fd => d = c
      BY <1>1 DEF HolderInv
    <2>4. ASSUME NEW i \in 1..Len(queue'), NEW j \in 1..Len(queue'),
                 queue'[i].fd = queue'[j].fd
          PROVE  i = j
      <3>1. \A k \in 1..Len(queue) : queue[k].fd # fd
        BY <1>3 DEF Queued
      <3>2. CASE i \in 1..Len(queue) /\ j \in 1..Len(queue)
        BY <1>4, <2>4, <3>2 DEF HolderInv
      <3>3. CASE ~(i \in 1..Len(queue) /\ j \in 1..Len(queue))
        BY <1>1, <1>4, <2>4, <3>1, <3>3
      <3> QED
        BY <3>2, <3>3
    <2>5. \A v, w \in Workers : \A f \in Fds : Works(v, f)' /\ Works(w, f)' => v = w
      BY <1>2 DEF HolderInv, Works
    <2> QED
      BY <2>1, <2>2, <2>3, <2>4, <2>5 DEF HolderInv
  <1>9. TurnInv'
    <2>1. \A f : NoReply(f)' <=> NoReply(f)
      BY <1>2 DEF NoReply
    <2>2. NoReply(fd) <=> t.kind = "read"
      BY <1>1 DEF TurnInv
    <2>3. ASSUME NEW i \in 1..Len(queue')
          PROVE  NoReply(queue[i].fd)' <=> queue'[i].kind = "read"
      <3>1. CASE i \in 1..Len(queue)
        BY <1>2, <1>4, <3>1 DEF TurnInv, NoReply
      <3>2. CASE i = Len(queue) + 1
        BY <1>1, <1>2, <1>4, <2>2, <3>2 DEF NoReply
      <3> QED
        BY <1>4, <3>1, <3>2
    <2>4. batch' \subseteq batch
      BY <1>1
    <2> QED
      BY <1>2, <2>1, <2>3, <2>4 DEF TurnInv, NoReply
  <1> QED
    BY <1>7, <1>8, <1>9

\* The pool hands the connection of the oldest task to a worker.
LEMMA StartTaskInv ==
  ASSUME TypeOK, ConnInv, NEW w \in Workers, StartTask(w)
  PROVE  ConnInv'
  <1> USE DEF ConnInv
  <1>1. PICK t : t = queue[1]
    OBVIOUS
  <1>2. /\ running[w] = NoTask /\ queue # <<>>
        /\ queue' = Tail(queue)
        /\ running' = [running EXCEPT ![w] = Head(queue)]
        /\ at' = [at EXCEPT ![w] = Head(queue).kind]
        /\ UNCHANGED <<sock, interest, status, rbuf, wbuf, iov, user_cnt, batch>>
    BY DEF StartTask, Pool!StartTask, kernelVars, connectorVars, mainVars
  <1>3. /\ Len(queue) \in Nat \ {0} /\ 1 \in 1..Len(queue) /\ Head(queue) = t
        /\ Len(queue') = Len(queue) - 1
        /\ \A i \in 1..Len(queue') : i + 1 \in 1..Len(queue) /\ queue'[i] = queue[i + 1]
    BY <1>1, <1>2, QueuedTask, HeadTailProperties, EmptySeq
  <1>4. t \in Task /\ t.fd \in Fds /\ t.kind \in {"read", "write"}
    BY <1>1, <1>3, QueuedTask
  <1>5. \A v \in Workers : /\ running'[v] = IF v = w THEN t ELSE running[v]
                           /\ at'[v] = IF v = w THEN t.kind ELSE at[v]
    BY <1>2, <1>3 DEF TypeOK, Pool!PoolTypeOK
  <1>6. at[w] = "idle"
    BY <1>2 DEF WorkerInv
  <1>7. \A v \in Workers, f \in Fds :
          Works(v, f)' <=> IF v = w THEN f = t.fd ELSE Works(v, f)
    BY <1>4, <1>5 DEF Works
  <1>8. \A f \in Fds : Queued(f)' <=> Queued(f) /\ f # t.fd
    <2>1. ASSUME NEW f \in Fds, Queued(f)' PROVE Queued(f) /\ f # t.fd
      <3>1. PICK i \in 1..Len(queue') : queue'[i].fd = f
        BY <2>1 DEF Queued
      <3>2. i + 1 \in 1..Len(queue) /\ queue[i + 1].fd = f /\ i + 1 # 1
        BY <1>3, <3>1
      <3> QED
        BY <1>1, <1>3, <3>2 DEF HolderInv, Queued
    <2>2. ASSUME NEW f \in Fds, Queued(f), f # t.fd PROVE Queued(f)'
      <3>1. PICK i \in 1..Len(queue) : queue[i].fd = f
        BY <2>2 DEF Queued
      <3>2. i - 1 \in 1..Len(queue') /\ queue'[i - 1] = queue[i]
        BY <1>1, <1>3, <2>2, <3>1
      <3> QED
        BY <3>1, <3>2 DEF Queued
    <2> QED
      BY <2>1, <2>2
  <1>9. Queued(t.fd)
    BY <1>1, <1>3 DEF Queued
  <1>10. \A f \in Fds : Worked(f)' <=> Worked(f) \/ f = t.fd
    BY <1>6, <1>7 DEF Worked, Works
  <1>11. \A f \in Fds : (Armed(f)' <=> Armed(f)) /\ (Reported(f)' <=> Reported(f))
    BY <1>2 DEF Armed, Reported
  <1>12. WorkerInv'
    BY <1>4, <1>5, TaskAssumption DEF WorkerInv
  <1>13. SocketInv' /\ UserCount' /\ NoCrossTalk'
    BY <1>2 DEF SocketInv, UserCount, NoCrossTalk
  <1>14. HolderInv'
    <2>1. \A f \in Fds :
            status'[f] <=> Armed(f)' \/ Reported(f)' \/ Queued(f)' \/ Worked(f)'
      BY <1>2, <1>8, <1>9, <1>10, <1>11 DEF HolderInv
    <2>2. \A f \in Fds :
            /\ Armed(f)' => ~Reported(f)' /\ ~Queued(f)' /\ ~Worked(f)'
            /\ Reported(f)' => ~Queued(f)' /\ ~Worked(f)'
            /\ Queued(f)' => ~Worked(f)'
      BY <1>4, <1>8, <1>9, <1>10, <1>11 DEF HolderInv
    <2>3. ASSUME NEW i \in 1..Len(queue'), NEW j \in 1..Len(queue'),
                 queue'[i].fd = queue'[j].fd
          PROVE  i = j
      <3>1. i + 1 = j + 1
        BY <1>3, <2>3 DEF HolderInv
      <3> QED
        BY <1>3, <3>1
    <2>4. ~Worked(t.fd)
      BY <1>4, <1>9 DEF HolderInv
    <2>5. \A v, u \in Workers : \A f \in Fds : Works(v, f)' /\ Works(u, f)' => v = u
      BY <1>7, <2>4 DEF HolderInv, Worked
    <2> QED
      BY <1>2, <2>1, <2>2, <2>3, <2>5 DEF HolderInv
  <1>15. TurnInv'
    <2>1. \A f : NoReply(f)' <=> NoReply(f)
      BY <1>2 DEF NoReply
    <2>2. NoReply(t.fd) <=> t.kind = "read"
      BY <1>1, <1>3 DEF TurnInv
    <2>3. \A i \in 1..Len(queue') : NoReply(queue[i].fd)' <=> queue'[i].kind = "read"
      BY <1>2, <1>3 DEF TurnInv, NoReply
    <2>4. \A v \in Workers : /\ at'[v] \in {"read", "process"} => NoReply(running[v].fd)'
                             /\ at'[v] = "write" => ~NoReply(running[v].fd)'
      <3>1. ASSUME NEW v \in Workers, v # w
            PROVE  at'[v] = at[v] /\ (NoReply(running[v].fd)' <=> NoReply(running[v].fd))
        BY <1>2, <1>5, <3>1 DEF NoReply
      <3>2. /\ at'[w] = t.kind
            /\ NoReply(running[w].fd)' <=> t.kind = "read"
        BY <1>2, <1>5, <2>2 DEF NoReply
      <3> QED
        BY <1>4, <3>1, <3>2 DEF TurnInv
    <2> QED
      BY <1>2, <2>1, <2>3, <2>4 DEF TurnInv
  <1>16. BufferInv'
    BY <1>2, <1>5, <1>6, <1>7 DEF BufferInv
  <1> QED
    BY <1>12, <1>13, <1>14, <1>15, <1>16

\* A worker hands its connection back to epoll.
LEMMA Rearmed ==
  ASSUME TypeOK, ConnInv, NEW w \in Workers, NEW fd \in Fds, Works(w, fd),
         NEW to \in {"in", "out"},
         at' = [at EXCEPT ![w] = "tail"],
         interest' = [interest EXCEPT ![fd] = to],
         UNCHANGED <<sock, status, user_cnt, batch, queue, running>>
  PROVE  /\ WorkerInv' /\ SocketInv' /\ HolderInv' /\ UserCount'
         /\ \A f \in Fds : interest'[f] = IF f = fd THEN to ELSE interest[f]
         /\ \A v \in Workers : at'[v] = IF v = w THEN "tail" ELSE at[v]
         /\ \A v \in Workers : v # w /\ at[v] \in {"read", "write", "process"} =>
              running[v].fd \in Fds /\ running[v].fd # fd
  <1> USE DEF ConnInv
  <1>1. /\ status[fd] /\ interest[fd] = "off"
        /\ \A e \in batch : e.fd # fd
        /\ \A i \in 1..Len(queue) : queue[i].fd # fd
        /\ \A v \in Workers : Works(v, fd) => v = w
    BY WorkerHolds
  <1>2. \A f \in Fds : interest'[f] = IF f = fd THEN to ELSE interest[f]
    BY DEF TypeOK
  <1>3. \A v \in Workers : at'[v] = IF v = w THEN "tail" ELSE at[v]
    BY DEF TypeOK
  <1>4. \A v \in Workers, f \in Fds : Works(v, f)' <=> Works(v, f) /\ v # w
    BY <1>3 DEF Works
  <1>5. \A f \in Fds : /\ Armed(f)' <=> Armed(f) \/ f = fd
                       /\ Reported(f)' <=> Reported(f)
                       /\ Queued(f)' <=> Queued(f)
    BY <1>2 DEF Armed, Reported, Queued
  <1>6. \A f \in Fds : Worked(f)' <=> Worked(f) /\ f # fd
    <2>1. \A f \in Fds : Works(w, f) => f = fd
      BY DEF Works
    <2> QED
      BY <1>1, <1>4, <2>1 DEF Worked
  <1>7. ~Reported(fd) /\ ~Queued(fd)
    BY <1>1 DEF Reported, Queued
  <1>8. WorkerInv'
    BY <1>3 DEF WorkerInv, Works
  <1>9. SocketInv' /\ UserCount'
    BY <1>1, <1>2 DEF SocketInv, UserCount
  <1>10. HolderInv'
    <2>1. \A f \in Fds :
            status'[f] <=> Armed(f)' \/ Reported(f)' \/ Queued(f)' \/ Worked(f)'
      BY <1>1, <1>5, <1>6 DEF HolderInv
    <2>2. \A f \in Fds :
            /\ Armed(f)' => ~Reported(f)' /\ ~Queued(f)' /\ ~Worked(f)'
            /\ Reported(f)' => ~Queued(f)' /\ ~Worked(f)'
            /\ Queued(f)' => ~Worked(f)'
      BY <1>5, <1>6, <1>7 DEF HolderInv
    <2> QED
      BY <1>4, <2>1, <2>2 DEF HolderInv
  <1>11. \A v \in Workers : v # w /\ at[v] \in {"read", "write", "process"} =>
           running[v].fd \in Fds /\ running[v].fd # fd
    BY <1>1, TaskFd DEF Works
  <1> QED
    BY <1>2, <1>3, <1>8, <1>9, <1>10, <1>11

\* Without input the connection is armed for its next request.
LEMMA ProcessNothingInv ==
  ASSUME TypeOK, ConnInv, NEW w \in Workers, ProcessNothing(w)
  PROVE  ConnInv'
  <1> USE DEF ConnInv
  <1>1. PICK fd : fd = running[w].fd
    OBVIOUS
  <1>2. fd \in Fds /\ at[w] = "process" /\ Works(w, fd)
    BY <1>1, TaskFd DEF ProcessNothing, Step, Works
  <1>3. interest[fd] = "off"
    BY <1>2, WorkerHolds
  <1>4. /\ rbuf[fd] = <<>>
        /\ at' = [at EXCEPT ![w] = "tail"]
        /\ interest' = [interest EXCEPT ![fd] = "in"]
        /\ UNCHANGED <<sock, status, rbuf, wbuf, iov, user_cnt, batch, queue, running>>
    BY <1>1, <1>2, <1>3 DEF ProcessNothing, Step, ArmRequest, modFd, TypeOK, kernelVars,
       connectorVars, mainVars
  <1>5. /\ WorkerInv' /\ SocketInv' /\ HolderInv' /\ UserCount'
        /\ \A f \in Fds : interest'[f] = IF f = fd THEN "in" ELSE interest[f]
        /\ \A v \in Workers : at'[v] = IF v = w THEN "tail" ELSE at[v]
    BY <1>2, <1>4, Rearmed, ZenonT(60)
  <1>6. TurnInv'
    <2>1. \A f : NoReply(f)' <=> NoReply(f)
      BY <1>4 DEF NoReply
    <2>2. NoReply(fd)
      BY <1>1, <1>2 DEF TurnInv
    <2>3. \A i \in 1..Len(queue') : NoReply(queue[i].fd)' <=> queue'[i].kind = "read"
      BY <1>4 DEF TurnInv, NoReply
    <2>4. \A v \in Workers : /\ at'[v] \in {"read", "process"} => NoReply(running[v].fd)'
                             /\ at'[v] = "write" => ~NoReply(running[v].fd)'
      BY <1>4, <1>5 DEF TurnInv, NoReply
    <2> QED
      BY <1>4, <1>5, <2>1, <2>2, <2>3, <2>4 DEF TurnInv
  <1>7. BufferInv'
    BY <1>1, <1>4, <1>5 DEF BufferInv, Works
  <1>8. NoCrossTalk'
    BY <1>4 DEF NoCrossTalk
  <1> QED
    BY <1>5, <1>6, <1>7, <1>8

\* With input the connection is armed for its reply; the reply is the header made
\* for the request at the front of the read buffer, which is of this connection.
LEMMA ProcessReplyInv ==
  ASSUME TypeOK, ConnInv, NEW w \in Workers, ProcessReply(w)
  PROVE  ConnInv'
  <1> USE DEF ConnInv
  <1>1. PICK fd : fd = running[w].fd
    OBVIOUS
  <1>2. fd \in Fds /\ at[w] = "process" /\ Works(w, fd)
    BY <1>1, TaskFd DEF ProcessReply, Step, Works
  <1>3. /\ status[fd] /\ interest[fd] = "off"
        /\ \A e \in batch : e.fd # fd
        /\ \A i \in 1..Len(queue) : queue[i].fd # fd
    BY <1>2, WorkerHolds
  <1>4. PICK of : of = Head(rbuf[fd]).of
    OBVIOUS
  <1>5. /\ rbuf[fd] # <<>>
        /\ rbuf' = [rbuf EXCEPT ![fd] = <<>>]
        /\ wbuf' = [wbuf EXCEPT ![fd] = <<of>>]
        /\ iov' = [iov EXCEPT ![fd] = <<1, BodyLen>>]
        /\ at' = [at EXCEPT ![w] = "tail"]
        /\ interest' = [interest EXCEPT ![fd] = "out"]
        /\ UNCHANGED <<sock, status, user_cnt, batch, queue, running>>
    BY <1>1, <1>2, <1>3, <1>4 DEF ProcessReply, Step, HeadWriteBuff, ArmReply, modFd,
       TypeOK, kernelVars, mainVars
  <1>6. /\ WorkerInv' /\ SocketInv' /\ HolderInv' /\ UserCount'
        /\ \A f \in Fds : interest'[f] = IF f = fd THEN "out" ELSE interest[f]
        /\ \A v \in Workers : at'[v] = IF v = w THEN "tail" ELSE at[v]
        /\ \A v \in Workers : v # w /\ at[v] \in {"read", "write", "process"} =>
             running[v].fd \in Fds /\ running[v].fd # fd
    BY <1>2, <1>5, Rearmed, ZenonT(60)
  <1>7. \A f \in Fds : /\ rbuf'[f] = IF f = fd THEN <<>> ELSE rbuf[f]
                       /\ wbuf'[f] = IF f = fd THEN <<of>> ELSE wbuf[f]
                       /\ iov'[f] = IF f = fd THEN <<1, BodyLen>> ELSE iov[f]
    BY <1>5 DEF TypeOK
  <1>8. TurnInv'
    <2>1. \A f \in Fds : NoReply(f)' <=> NoReply(f) /\ f # fd
      BY <1>2, <1>7 DEF TurnInv, NoReply
    <2>2. ASSUME NEW i \in 1..Len(queue)
          PROVE  NoReply(queue[i].fd)' <=> queue'[i].kind = "read"
      <3>1. queue' = queue /\ iov'[queue[i].fd] = iov[queue[i].fd]
        BY <1>3, <1>5, <1>7, QueuedTask
      <3> QED
        BY <3>1 DEF TurnInv, NoReply
    <2>3. ASSUME NEW v \in Workers, at'[v] \in {"read", "write", "process"}
          PROVE  /\ at'[v] \in {"read", "process"} => NoReply(running[v].fd)'
                 /\ at'[v] = "write" => ~NoReply(running[v].fd)'
      <3>1. at'[v] = at[v] /\ running' = running /\ iov'[running[v].fd] = iov[running[v].fd]
        BY <1>5, <1>6, <1>7, <2>3
      <3> QED
        BY <3>1 DEF TurnInv, NoReply
    <2>4. \A f \in Fds : /\ interest'[f] = "in" => NoReply(f)'
                         /\ interest'[f] = "out" => ~NoReply(f)'
                         /\ ~status'[f] => NoReply(f)'
      BY <1>3, <1>5, <1>6, <2>1 DEF TurnInv
    <2>5. \A e \in batch' : e.fd \in Fds => /\ e.ev = "in" => NoReply(e.fd)'
                                            /\ e.ev = "out" => ~NoReply(e.fd)'
      BY <1>3, <1>5, <2>1 DEF TurnInv
    <2>6. queue' = queue
      BY <1>5
    <2> QED
      BY <2>2, <2>3, <2>4, <2>5, <2>6 DEF TurnInv
  <1>9. BufferInv'
    <2>1. ASSUME NEW f \in Fds, rbuf'[f] # <<>>
          PROVE  \E v \in Workers : /\ Works(v, f)' /\ at'[v] \in {"read", "process"}
                                    /\ running'[v].kind = "read"
      <3>1. f # fd /\ rbuf[f] # <<>>
        BY <1>7, <2>1
      <3>2. PICK v \in Workers : /\ Works(v, f) /\ at[v] \in {"read", "process"}
                                /\ running[v].kind = "read"
        BY <3>1 DEF BufferInv
      <3>3. v # w
        BY <1>1, <3>1, <3>2 DEF Works
      <3> QED
        BY <1>5, <1>6, <3>2, <3>3 DEF Works
    <2> QED
      BY <2>1 DEF BufferInv
  <1>10. NoCrossTalk'
    <2>1. of = "own"
      <3>1. Head(rbuf[fd]) = rbuf[fd][1] /\ 1 \in DOMAIN rbuf[fd]
        <4>1. rbuf[fd] \in Seq([of : {"own", "old"}, kind : Kinds])
          BY <1>2 DEF TypeOK
        <4> QED
          BY <1>5, <4>1, HeadTailProperties, EmptySeq, LenProperties
      <3> QED
        BY <1>2, <1>3, <1>4, <3>1 DEF NoCrossTalk
    <2>2. <<of>> = [i \in 1..1 |-> "own"]
      BY <2>1
    <2>3. ASSUME NEW f \in Fds, status'[f]
          PROVE  /\ \A i \in DOMAIN rbuf'[f] : rbuf'[f][i].of = "own"
                 /\ iov'[f][1] > 0 => wbuf'[f] = [i \in 1..iov'[f][1] |-> "own"]
      <3>1. CASE f = fd
        <4>1. rbuf'[f] = <<>> /\ wbuf'[f] = <<of>> /\ iov'[f] = <<1, BodyLen>>
          BY <1>7, <3>1
        <4>2. iov'[f][1] = 1
          BY <4>1
        <4> QED
          BY <2>2, <4>1, <4>2
      <3>2. CASE f # fd
        <4>1. status[f] /\ rbuf'[f] = rbuf[f] /\ wbuf'[f] = wbuf[f] /\ iov'[f] = iov[f]
          BY <1>5, <1>7, <2>3, <3>2
        <4> QED
          BY <4>1 DEF NoCrossTalk
      <3> QED
        BY <3>1, <3>2
    <2> QED
      BY <2>3 DEF NoCrossTalk
  <1> QED
    BY <1>6, <1>8, <1>9, <1>10

-----------------------------------------------------------------------------
(* The invariant, and what it says.                                        *)

\* Every step keeps every part of the invariant.
LEMMA InvNext ==
  ASSUME ServerInv, [Next]_vars
  PROVE  ServerInv'
  <1>1. TypeOK /\ ConnInv
    BY DEF ServerInv, ConnInv
  <1>2. TypeOK'
    BY TypeNext DEF ServerInv
  <1>3. ConnInv'
    BY <1>1, StepCases, OtherSteps, EpollWaitInv, AcceptClientInv, HandleHupInv,
       HandleTaskInv, StartTaskInv, ReadSomeInv, ReadEndsInv, WriteSomeInv,
       ProcessNothingInv, ProcessReplyInv, TaskReturnsInv
  <1> QED
    BY <1>2, <1>3 DEF ServerInv, ConnInv

\* The connections of the reactor keep ServerInv, through every interleaving of
\* the main thread, the workers and the peers.
THEOREM ServerInvariant == SafeSpec => []ServerInv
  <1>1. ServerInv /\ [Next]_vars => ServerInv'
    BY InvNext
  <1> QED
    BY InvInit, <1>1, PTL DEF SafeSpec

\* Every variable of the reactor keeps its type; user_cnt stays between 0 and
\* MaxClients and no counter of _iov becomes negative.
THEOREM TypeCorrect == SafeSpec => []TypeOK
  <1>1. ServerInv => TypeOK
    BY DEF ServerInv
  <1> QED
    BY ServerInvariant, <1>1, PTL

\* The holders of a connection as a set are its holders one by one.
LEMMA OneHolder ==
  ASSUME TypeOK, HolderInv
  PROVE  SingleOwner
  <1> SUFFICES ASSUME NEW fd \in Fds
               PROVE  IF status[fd] THEN \E h \in Holders(fd) : Holders(fd) = {h}
                                    ELSE Holders(fd) = {}
    BY Zenon DEF SingleOwner
  <1>1. DOMAIN queue = 1..Len(queue)
    BY LenProperties DEF TypeOK, Pool!PoolTypeOK
  <1>2. \A h : h \in Holders(fd) <=>
          \/ h = <<"epoll", fd>> /\ Armed(fd)
          \/ \E e \in batch : e.fd = fd /\ h = <<"batch", e>>
          \/ \E i \in 1..Len(queue) : queue[i].fd = fd /\ h = <<"queue", i>>
          \/ \E w \in Workers : Works(w, fd) /\ h = <<"worker", w>>
    BY <1>1, Zenon DEF Holders, Armed
  <1>3. CASE ~status[fd]
    <2>1. ~Armed(fd) /\ ~Reported(fd) /\ ~Queued(fd) /\ ~Worked(fd)
      BY <1>3 DEF HolderInv
    <2>2. \A h : h \notin Holders(fd)
      BY <1>2, <2>1 DEF Reported, Queued, Worked
    <2> QED
      BY <1>3, <2>2
  <1>4. CASE status[fd]
    <2>1. ASSUME Armed(fd) PROVE Holders(fd) = {<<"epoll", fd>>}
      <3>1. ~Reported(fd) /\ ~Queued(fd) /\ ~Worked(fd)
        BY <2>1 DEF HolderInv
      <3> QED
        BY <1>2, <2>1, <3>1 DEF Reported, Queued, Worked
    <2>2. ASSUME NEW e \in batch, e.fd = fd
          PROVE  Holders(fd) = {<<"batch", e>>}
      <3>1. ~Armed(fd) /\ ~Queued(fd) /\ ~Worked(fd)
        BY <2>2 DEF HolderInv, Reported
      <3>2. \A d \in batch : d.fd = fd => d = e
        BY <2>2 DEF HolderInv
      <3> QED
        BY <1>2, <2>2, <3>1, <3>2 DEF Queued, Worked
    <2>3. ASSUME NEW i \in 1..Len(queue), queue[i].fd = fd
          PROVE  Holders(fd) = {<<"queue", i>>}
      <3>1. ~Armed(fd) /\ ~Reported(fd) /\ ~Worked(fd)
        BY <2>3 DEF HolderInv, Queued
      <3>2. \A j \in 1..Len(queue) : queue[j].fd = fd => j = i
        BY <2>3 DEF HolderInv
      <3> QED
        BY <1>2, <2>3, <3>1, <3>2 DEF Reported, Worked
    <2>4. ASSUME NEW w \in Workers, Works(w, fd)
          PROVE  Holders(fd) = {<<"worker", w>>}
      <3>1. ~Armed(fd) /\ ~Reported(fd) /\ ~Queued(fd)
        BY <2>4 DEF HolderInv, Worked
      <3>2. \A v \in Workers : Works(v, fd) => v = w
        BY <2>4 DEF HolderInv
      <3> QED
        BY <1>2, <2>4, <3>1, <3>2 DEF Reported, Queued
    <2>5. Armed(fd) \/ Reported(fd) \/ Queued(fd) \/ Worked(fd)
      BY <1>4 DEF HolderInv
    <2>6. \E h : Holders(fd) = {h}
      BY <2>1, <2>2, <2>3, <2>4, <2>5, Zenon DEF Reported, Queued, Worked
    <2> QED
      BY <1>4, <2>6
  <1> QED
    BY <1>3, <1>4

\* EPOLLONESHOT and modFd hand every connection from one holder to the next: for
\* any number of descriptors and workers, no two threads ever work on the same
\* HttpConnector, none is forgotten and nobody holds a closed one.
THEOREM SingleOwnerTheorem == SafeSpec => []SingleOwner
  <1>1. ServerInv => SingleOwner
    BY OneHolder DEF ServerInv
  <1> QED
    BY ServerInvariant, <1>1, PTL

\* user_cnt is the number of connectors in use and never exceeds MAX_CLIENTS.
THEOREM UserCountTheorem == SafeSpec => []UserCount
  <1>1. ServerInv => UserCount
    BY DEF ServerInv
  <1> QED
    BY ServerInvariant, <1>1, PTL

\* Although Init does not clear the buffers, no connection is answered for a
\* request of the one that had its descriptor before, or sent its header.
THEOREM NoCrossTalkTheorem == SafeSpec => []NoCrossTalk
  <1>1. ServerInv => NoCrossTalk
    BY DEF ServerInv
  <1> QED
    BY ServerInvariant, <1>1, PTL
=============================================================================
