----------------------------- MODULE WebServer -----------------------------
(***************************************************************************)
(* The reactor: the main thread of src/webserver.cpp (Start and the        *)
(* handlers it calls), Epoller, the life of every HttpConnector, and the   *)
(* tasks _FunRead and _FunWrite on the thread pool.  The pool is the       *)
(* abstract TaskPool, which ThreadPool implements.  The kernel (listening  *)
(* socket, epoll, client sockets) and the peers are modelled from how the  *)
(* code uses them.                                                         *)
(*                                                                         *)
(* epoll: a client is armed for one event (EPOLLONESHOT) and re-armed by   *)
(* modFd, which reports a condition that already holds; nobody consumes    *)
(* the condition while the descriptor is armed, so edge triggering makes   *)
(* no difference for clients and an armed, ready descriptor is delivered.  *)
(* For the listening socket it does: only a new arrival sets the edge.     *)
(*                                                                         *)
(* Data: a segment the peer sends is a request the parser answers ("ok")   *)
(* or one on which parsing or opening the file ends the process ("fatal"); *)
(* a reply is one unit of header and BodyLen units of file.                *)
(***************************************************************************)
EXTENDS Integers, Sequences, FiniteSets

CONSTANTS Fds,         \* descriptors accept may return (RLIMIT_NOFILE)
          ListenFd,
          Workers,     \* threads of the pool
          NoTask,
          MaxClients,  \* MAX_CLIENTS
          MaxEvents,   \* size of Epoller::_events
          Kinds,       \* what peers send: "ok" or "fatal" segments
          BodyLen,     \* units of file in a reply
          SndBuf,      \* capacity of a socket's send buffer, in units
          MaxBacklog,  \* bound: connections waiting for accept
          MaxPending   \* bound: segments received and not yet answered

ASSUME ServerAssumption ==
    /\ IsFiniteSet(Fds) /\ IsFiniteSet(Workers)
    /\ ListenFd \notin Fds
    /\ Kinds \subseteq {"ok", "fatal"}
    /\ MaxClients \in Nat /\ MaxEvents \in Nat \ {0} /\ BodyLen \in Nat
    /\ SndBuf \in Nat \ {0} /\ MaxBacklog \in Nat /\ MaxPending \in Nat

Task == [kind : {"read", "write"}, fd : Fds]
Event == [fd : Fds, ev : {"in", "out", "hup"}]
ListenEvent == [fd |-> ListenFd, ev |-> "in"]

ASSUME TaskAssumption == NoTask \notin Task

VARIABLES
    backlog,   \* kernel: connections waiting in the accept queue
    edge,      \* kernel: a connection arrived since the last report
    sock,      \* kernel: "open" or "closed" descriptor
    peer,      \* kernel: "up", "fin" (shut down its side) or "rst"
    rx,        \* kernel: received segments
    space,     \* kernel: free units of the send buffer
    interest,  \* epoll: "none" (not registered), "off" (reported), "in", "out";
               \* also of ListenFd
    status,    \* HttpConnector::_status
    rbuf,      \* HttpConnector::_read_buffer: whose segment, and its kind
    wbuf,      \* HttpConnector::_write_buffer: whose header units
    iov,       \* HttpConnector::_iov[0].iov_len and _iov[1].iov_len
    user_cnt,  \* HttpConnector::user_cnt
    mpc,       \* main: "boot" in the constructor, "events" in the for loop of
               \* Start, "accept" in _HandleNewConnection, "exit" when it returned
    batch,     \* main: reported events not yet handled
    queue,     \* thread pool
    running,   \* thread pool
    at,        \* where each worker is in its task
    dead       \* "no", or why the process died

kernelVars == <<backlog, edge, sock, peer, rx, space>>
connectorVars == <<status, rbuf, wbuf, iov, user_cnt>>
mainVars == <<mpc, batch>>
workerVars == <<queue, running, at>>
vars == <<kernelVars, interest, connectorVars, mainVars, workerVars, dead>>

Pool == INSTANCE TaskPool

Init ==
    /\ backlog = 0 /\ edge = FALSE
    /\ sock = [fd \in Fds |-> "closed"]
    /\ peer = [fd \in Fds |-> "up"]
    /\ rx = [fd \in Fds |-> <<>>]
    /\ space = [fd \in Fds |-> SndBuf]
    /\ interest = [fd \in Fds \cup {ListenFd} |-> "none"]
    /\ status = [fd \in Fds |-> FALSE]
    /\ rbuf = [fd \in Fds |-> <<>>]
    /\ wbuf = [fd \in Fds |-> <<>>]
    /\ iov = [fd \in Fds |-> <<0, 0>>]
    /\ user_cnt = 0
    /\ mpc = "boot" /\ batch = {}
    /\ Pool!PoolInit
    /\ at = [w \in Workers |-> "idle"]
    /\ dead = "no"

Die(why) ==
    /\ dead' = why
    /\ UNCHANGED <<kernelVars, interest, connectorVars, mainVars, workerVars>>

-----------------------------------------------------------------------------
(* Epoller.                                                                *)

addFd(fd, events) == interest' = [interest EXCEPT ![fd] = events]
delFd(fd) == interest' = [interest EXCEPT ![fd] = "none"]

\* EPOLL_CTL_MOD fails on a descriptor that is not registered; nobody looks at
\* the result.
modFd(fd, events) ==
    interest' = [interest EXCEPT ![fd] = IF @ = "none" THEN @ ELSE events]

\* What epoll_wait can report now.  EPOLLRDHUP is part of every client's mask.
Ready(fd) ==
    \/ interest[fd] \in {"in", "out"} /\ peer[fd] # "up"
    \/ interest[fd] = "in" /\ rx[fd] # <<>>
    \/ interest[fd] = "out" /\ space[fd] > 0

EventOf(fd) == [fd |-> fd, ev |-> IF peer[fd] # "up" THEN "hup" ELSE interest[fd]]

Deliverable ==
    {EventOf(fd) : fd \in {f \in Fds : Ready(f)}}
      \cup {e \in {ListenEvent} : edge /\ interest[ListenFd] = "in"}

\* Fault: clients are registered without EPOLLONESHOT.
FaultNoOneshot(B) == UNCHANGED interest

\* EPOLLONESHOT: a reported client is disarmed until modFd.
Oneshot(B) ==
    interest' = [fd \in DOMAIN interest |->
                   IF fd \in Fds /\ \E e \in B : e.fd = fd THEN "off" ELSE interest[fd]]

\* The for loop is done: epoll_wait blocks until something is deliverable and
\* reports at most MaxEvents events, each descriptor once.
EpollWait ==
    /\ mpc = "events" /\ batch = {} /\ Deliverable # {}
    /\ \E B \in SUBSET Deliverable :
         /\ \/ Cardinality(B) = MaxEvents
            \/ B = Deliverable /\ Cardinality(B) < MaxEvents
         /\ batch' = B
         /\ edge' = (edge /\ ListenEvent \notin B)
         /\ Oneshot(B)
    /\ UNCHANGED <<backlog, sock, peer, rx, space, connectorVars, mpc,
                   workerVars, dead>>

-----------------------------------------------------------------------------
(* The main thread: one action per event, and per turn of the accept loop. *)

\* _InitListenSocket: a failure clears _statue and Start returns at once.  addFd
\* returns 0 when it fails, which LISTEN_CLOSE, testing for < 0, does not notice.
InitListenSocket ==
    /\ mpc = "boot"
    /\ \/ mpc' = "exit" /\ UNCHANGED interest
       \/ mpc' = "events" /\ (addFd(ListenFd, "in") \/ UNCHANGED interest)
    /\ UNCHANGED <<kernelVars, connectorVars, batch, workerVars, dead>>

Take(e) ==
    /\ mpc = "events" /\ e \in batch
    /\ batch' = batch \ {e}

HandleListen ==
    /\ Take(ListenEvent)
    /\ mpc' = "accept"
    /\ UNCHANGED <<kernelVars, interest, connectorVars, workerVars, dead>>

\* accept returns a free descriptor for the oldest waiting connection.  The
\* kernel forgets an edge that finds the accept queue empty again.
Accept(fd) ==
    /\ mpc = "accept" /\ backlog > 0 /\ sock[fd] = "closed"
    /\ backlog' = backlog - 1
    /\ edge' = (edge /\ backlog > 1)
    /\ sock' = [sock EXCEPT ![fd] = "open"]
    /\ UNCHANGED <<peer, rx, space, batch, workerVars, dead>>

\* Fault: MAX_CLIENTS is compared with > instead of >=.
FaultOneTooMany == user_cnt > MaxClients

Full == user_cnt >= MaxClients

\* HttpConnector::Init, which leaves the buffers and _iov of the descriptor's last
\* connection alone.
InitConnector(fd) ==
    /\ user_cnt' = user_cnt + 1
    /\ status' = [status EXCEPT ![fd] = TRUE]
    /\ UNCHANGED <<rbuf, wbuf, iov>>

\* There is room: _AddConnection.
AcceptClient(fd) ==
    /\ Accept(fd) /\ ~Full
    /\ InitConnector(fd)
    /\ addFd(fd, "in")
    /\ UNCHANGED mpc

\* "clients are full!": return at once, the accepted descriptor stays open.
AcceptFull(fd) ==
    /\ Accept(fd) /\ Full
    /\ mpc' = "events"
    /\ UNCHANGED <<interest, connectorVars>>

\* accept returns -1: nothing is waiting (EAGAIN), or no descriptor is free.
AcceptFails ==
    /\ mpc = "accept"
    /\ backlog = 0 \/ \A fd \in Fds : sock[fd] = "open"
    /\ mpc' = "events"
    /\ UNCHANGED <<kernelVars, interest, connectorVars, batch, workerVars, dead>>

Mark(fd) ==
    /\ rbuf' = [rbuf EXCEPT ![fd] = [i \in DOMAIN @ |-> [@[i] EXCEPT !.of = "old"]]]
    /\ wbuf' = [wbuf EXCEPT ![fd] = [i \in DOMAIN @ |-> "old"]]

\* Fault: user_cnt is only ever counted up.
FaultCountKept == UNCHANGED user_cnt

CountDown == user_cnt' = user_cnt - 1

\* HttpConnector::Close.  Whatever the buffers still hold is from now on left
\* over from an old connection; the kernel drops the socket.
Close(fd) ==
    IF status[fd]
    THEN /\ status' = [status EXCEPT ![fd] = FALSE]
         /\ CountDown
         /\ iov' = [iov EXCEPT ![fd] = <<0, 0>>]
         /\ Mark(fd)
         /\ sock' = [sock EXCEPT ![fd] = "closed"]
         /\ peer' = [peer EXCEPT ![fd] = "up"]
         /\ rx' = [rx EXCEPT ![fd] = <<>>]
         /\ space' = [space EXCEPT ![fd] = SndBuf]
    ELSE UNCHANGED <<connectorVars, sock, peer, rx, space>>

CloseConnection(fd) == delFd(fd) /\ Close(fd)

HandleHup(fd) ==
    /\ Take([fd |-> fd, ev |-> "hup"])
    /\ CloseConnection(fd)
    /\ UNCHANGED <<backlog, edge, mpc, workerVars, dead>>

HandleRead(fd) ==
    /\ Take([fd |-> fd, ev |-> "in"])
    /\ Pool!Submit([kind |-> "read", fd |-> fd])
    /\ UNCHANGED <<kernelVars, interest, connectorVars, mpc, at, dead>>

HandleWrite(fd) ==
    /\ Take([fd |-> fd, ev |-> "out"])
    /\ Pool!Submit([kind |-> "write", fd |-> fd])
    /\ UNCHANGED <<kernelVars, interest, connectorVars, mpc, at, dead>>

-----------------------------------------------------------------------------
(* The workers: _FunRead, _FunWrite and _Process.                          *)

StartTask(w) ==
    /\ Pool!StartTask(w)
    /\ at' = [at EXCEPT ![w] = Head(queue).kind]
    /\ UNCHANGED <<kernelVars, interest, connectorVars, mainVars, dead>>

Step(w, from, to) == at[w] = from /\ at' = [at EXCEPT ![w] = to]

\* One turn of the loop of HttpConnector::Read that finds data.
ReadSome(w) ==
    LET fd == running[w].fd IN
    /\ at[w] = "read" /\ rx[fd] # <<>>
    /\ rbuf' = [rbuf EXCEPT ![fd] =
                  @ \o [i \in DOMAIN rx[fd] |-> [of |-> "own", kind |-> rx[fd][i]]]]
    /\ rx' = [rx EXCEPT ![fd] = <<>>]
    /\ UNCHANGED <<backlog, edge, sock, peer, space, interest, status, wbuf, iov,
                   user_cnt, mainVars, workerVars, dead>>

\* What the last Read_FD returns, and the status it leaves behind: EAGAIN, end
\* of file or ECONNRESET.
ReadResult(fd) ==
    CASE peer[fd] = "up"  -> [ret |-> -1, status |-> FALSE]
      [] peer[fd] = "fin" -> [ret |-> 0, status |-> TRUE]
      [] peer[fd] = "rst" -> [ret |-> -1, status |-> FALSE]

\* The loop of Read ends and _FunRead looks at the result.
ReadEnds(w) ==
    LET fd == running[w].fd
        r == ReadResult(fd)
    IN
    /\ at[w] = "read" /\ rx[fd] = <<>>
    /\ IF r.ret = 0 /\ ~r.status
       THEN Step(w, "read", "tail") /\ CloseConnection(fd)
       ELSE Step(w, "read", "process")
              /\ UNCHANGED <<interest, sock, peer, rx, space, connectorVars>>
    /\ UNCHANGED <<backlog, edge, mainVars, queue, running, dead>>

\* Fault: a client is armed once, when it is accepted.
FaultNoRearm(fd) == UNCHANGED interest

ArmRequest(fd) == modFd(fd, "in")

\* _Process without input: wait for the next request.
ProcessNothing(w) ==
    LET fd == running[w].fd IN
    /\ Step(w, "process", "tail")
    /\ rbuf[fd] = <<>>
    /\ ArmRequest(fd)
    /\ UNCHANGED <<kernelVars, connectorVars, mainVars, queue, running, dead>>

\* Fault: the header is added to what the write buffer holds.
FaultAppendHeader(buffer, of) == Append(buffer, of)

\* Head_Write_Buff empties the write buffer, then adds the header.
HeadWriteBuff(buffer, of) == <<of>>

\* Fault: the client is armed for the next request, not for its reply.
FaultReplyNotArmed(fd) == modFd(fd, "in")

ArmReply(fd) == modFd(fd, "out")

\* _Process with input: the first request is answered, whatever else the read
\* buffer holds is dropped by Release_All_Buff.
ProcessReply(w) ==
    LET fd == running[w].fd
        head == HeadWriteBuff(wbuf[fd], Head(rbuf[fd]).of)
    IN
    /\ Step(w, "process", "tail")
    /\ rbuf[fd] # <<>> /\ Head(rbuf[fd]).kind = "ok"
    /\ rbuf' = [rbuf EXCEPT ![fd] = <<>>]
    /\ wbuf' = [wbuf EXCEPT ![fd] = head]
    /\ iov' = [iov EXCEPT ![fd] = <<Len(head), BodyLen>>]
    /\ ArmReply(fd)
    /\ UNCHANGED <<kernelVars, status, user_cnt, mainVars, queue, running, dead>>

\* An assertion of the parser or an exception that nothing catches.
ProcessDies(w) ==
    LET fd == running[w].fd IN
    /\ at[w] = "process"
    /\ rbuf[fd] # <<>> /\ Head(rbuf[fd]).kind = "fatal"
    /\ Die("request")

WriteableSize(fd) == iov[fd][1] + iov[fd][2]

\* _FunWrite: Write returns when nothing is left, and _Process follows.  The branch
\* for ret < 0 is out of reach, see WriteFails.
FunWrite(left) == IF left = <<0, 0>> THEN "process" ELSE "write"

\* One turn of the loop of HttpConnector::Write: writev takes n units and the
\* code moves _iov and the write buffer forward.
WriteSome(w) ==
    LET fd == running[w].fd
        n == IF space[fd] < WriteableSize(fd) THEN space[fd] ELSE WriteableSize(fd)
        left == IF n > iov[fd][1] THEN <<0, iov[fd][2] - (n - iov[fd][1])>>
                                  ELSE <<iov[fd][1] - n, iov[fd][2]>>
    IN
    /\ Step(w, "write", FunWrite(left))
    /\ n > 0 /\ peer[fd] # "rst"
    /\ space' = [space EXCEPT ![fd] = @ - n]
    /\ iov' = [iov EXCEPT ![fd] = left]
    /\ wbuf' = [wbuf EXCEPT ![fd] =
                  IF n > iov[fd][1] THEN IF iov[fd][1] > 0 THEN <<>> ELSE @
                                    ELSE SubSeq(@, n + 1, Len(@))]
    /\ UNCHANGED <<backlog, edge, sock, peer, rx, interest, status, rbuf, user_cnt,
                   mainVars, queue, running, dead>>

\* writev returns -1: the loop treats it as a length, and Release_Buff(-1) fails
\* the assertion of Update_Readp.
WriteFails(w) ==
    LET fd == running[w].fd IN
    /\ at[w] = "write" /\ WriteableSize(fd) > 0
    /\ \/ peer[fd] = "rst" /\ Die("reset")
       \/ peer[fd] # "rst" /\ space[fd] = 0 /\ Die("eagain")

\* The rest of _FunRead or _FunWrite only logs; the task returns.
TaskReturns(w) ==
    /\ Step(w, "tail", "idle")
    /\ Pool!FinishTask(w)
    /\ UNCHANGED <<kernelVars, interest, connectorVars, mainVars, dead>>

-----------------------------------------------------------------------------
(* Peers.  A socket no connector uses any more is of no interest.          *)

Connect ==
    /\ mpc \in {"events", "accept"} /\ backlog < MaxBacklog
    /\ backlog' = backlog + 1
    /\ edge' = TRUE
    /\ UNCHANGED <<sock, peer, rx, space, interest, connectorVars, mainVars,
                   workerVars, dead>>

PeerSends(fd, k) ==
    /\ status[fd] /\ peer[fd] = "up"
    /\ Len(rx[fd]) + Len(rbuf[fd]) < MaxPending
    /\ rx' = [rx EXCEPT ![fd] = Append(@, k)]
    /\ UNCHANGED <<backlog, edge, sock, peer, space, interest, connectorVars,
                   mainVars, workerVars, dead>>

PeerLeaves(fd, how) ==
    /\ status[fd] /\ peer[fd] # "rst" /\ peer[fd] # how
    /\ peer' = [peer EXCEPT ![fd] = how]
    /\ UNCHANGED <<backlog, edge, sock, rx, space, interest, connectorVars,
                   mainVars, workerVars, dead>>

PeerAcks(fd) ==
    /\ status[fd] /\ peer[fd] # "rst" /\ space[fd] < SndBuf
    /\ space' = [space EXCEPT ![fd] = @ + 1]
    /\ UNCHANGED <<backlog, edge, sock, peer, rx, interest, connectorVars,
                   mainVars, workerVars, dead>>

-----------------------------------------------------------------------------
MainStep ==
    \/ InitListenSocket \/ EpollWait \/ HandleListen \/ AcceptFails
    \/ \E fd \in Fds : AcceptClient(fd) \/ AcceptFull(fd)
    \/ \E fd \in Fds : HandleHup(fd) \/ HandleRead(fd) \/ HandleWrite(fd)

WorkerStep(w) ==
    \/ ReadSome(w) \/ ReadEnds(w) \/ WriteSome(w) \/ WriteFails(w)
    \/ ProcessNothing(w) \/ ProcessReply(w) \/ ProcessDies(w) \/ TaskReturns(w)

PeerStep ==
    \/ Connect
    \/ \E fd \in Fds :
         \/ \E k \in Kinds : PeerSends(fd, k)
         \/ \E how \in {"fin", "rst"} : PeerLeaves(fd, how)
         \/ PeerAcks(fd)

Next ==
    /\ dead = "no"
    /\ \/ MainStep
       \/ \E w \in Workers : StartTask(w) \/ WorkerStep(w)
       \/ PeerStep

\* The main thread and every worker keep running, and the pool starts queued
\* tasks (TaskPool's promise); peers owe nothing.
Fairness ==
    /\ WF_vars(dead = "no" /\ MainStep)
    /\ WF_vars(dead = "no" /\ \E w \in Workers : StartTask(w))
    /\ \A w \in Workers : WF_vars(dead = "no" /\ WorkerStep(w))

SafeSpec == Init /\ [][Next]_vars
Spec == SafeSpec /\ Fairness

-----------------------------------------------------------------------------
(* Properties.                                                             *)

\* Every variable has the type of what it models.
TypeOK ==
    /\ backlog \in 0..MaxBacklog /\ edge \in BOOLEAN
    /\ sock \in [Fds -> {"open", "closed"}]
    /\ peer \in [Fds -> {"up", "fin", "rst"}]
    /\ rx \in [Fds -> Seq(Kinds)]
    /\ space \in [Fds -> 0..SndBuf]
    /\ interest \in [Fds \cup {ListenFd} -> {"none", "off", "in", "out"}]
    /\ status \in [Fds -> BOOLEAN]
    /\ rbuf \in [Fds -> Seq([of : {"own", "old"}, kind : Kinds])]
    /\ wbuf \in [Fds -> Seq({"own", "old"})]
    /\ iov \in [Fds -> Nat \X Nat]
    /\ user_cnt \in 0..MaxClients
    /\ mpc \in {"boot", "events", "accept", "exit"}
    /\ batch \in SUBSET (Event \cup {ListenEvent})
    /\ Pool!PoolTypeOK
    /\ at \in [Workers -> {"idle", "read", "write", "process", "tail"}]
    /\ dead \in {"no", "request", "eagain", "reset"}

\* Who is responsible for a connection: epoll while it is armed, the main thread
\* while its event waits in the batch, the queue, or the worker that executes its
\* task and has not re-armed it yet.
Works(w, fd) == at[w] \in {"read", "write", "process"} /\ running[w].fd = fd

Holders(fd) ==
    {<<"epoll", f>> : f \in {f \in {fd} : interest[f] \in {"in", "out"}}}
      \cup {<<"batch", e>> : e \in {e \in batch : e.fd = fd}}
      \cup {<<"queue", i>> : i \in {i \in DOMAIN queue : queue[i].fd = fd}}
      \cup {<<"worker", w>> : w \in {w \in Workers : Works(w, fd)}}

\* EPOLLONESHOT and the calls of modFd hand every connection from one holder to
\* the next: no two threads ever work on the same HttpConnector, none is left
\* without anybody who will look at it again, and nobody holds a closed one.
SingleOwner ==
    \A fd \in Fds : IF status[fd] THEN \E h \in Holders(fd) : Holders(fd) = {h}
                                  ELSE Holders(fd) = {}

\* user_cnt, which decides whether a client is admitted, counts the connectors
\* that are in use, through every interleaving of accepting and closing.
UserCount ==
    /\ user_cnt = Cardinality({fd \in Fds : status[fd]})
    /\ user_cnt <= MaxClients

\* A descriptor is reused by the kernel, and its HttpConnector with it, without
\* Init clearing the buffers.  Still nobody is answered because of a request of
\* the previous connection, or sent a header written for it.
NoCrossTalk ==
    \A fd \in Fds : status[fd] =>
        /\ \A i \in DOMAIN rbuf[fd] : rbuf[fd][i].of = "own"
        /\ iov[fd][1] > 0 => wbuf[fd] = [i \in 1..iov[fd][1] |-> "own"]

\* What a connection is doing, as Connections sees it.
PhaseOf(fd) ==
    LET tasks == {queue[i] : i \in DOMAIN queue}
                   \cup {running[w] : w \in {w \in Workers : Works(w, fd)}}
    IN CASE ~status[fd] -> "free"
         [] [kind |-> "read", fd |-> fd] \in tasks -> "reading"
         [] [kind |-> "write", fd |-> fd] \in tasks -> "writing"
         [] OTHER -> IF WriteableSize(fd) > 0 THEN "pending" ELSE "idle"

Abs == INSTANCE Connections
         WITH phase <- [fd \in Fds |-> PhaseOf(fd)], down <- dead # "no"

\* The reactor implements Connections: one task per connection at a time, replies
\* in turn, and _CloseConnection only between tasks.
ImplementsConnections == Abs!ConnSpec

\* A connection whose peer has gone is closed, whatever the server was doing with
\* it: no task in flight can make the hang-up event disappear.
HangupCloses ==
    \A fd \in Fds : (status[fd] /\ peer[fd] # "up") ~> (~status[fd] \/ dead # "no")

\* Received bytes are read, and a reply the socket has room for is sent
\* completely, unless the connection or the process ends first; what can hold a
\* connection up is only its own peer, by not taking the previous reply.
RequestsServed ==
    \A fd \in Fds :
        LET blocked == WriteableSize(fd) > 0 /\ space[fd] = 0 IN
        /\ rx[fd] # <<>> ~> (rx[fd] = <<>> \/ blocked \/ dead # "no")
        /\ (WriteableSize(fd) > 0 /\ space[fd] > 0)
             ~> (WriteableSize(fd) = 0 \/ dead # "no")

\* webserver.cpp:110: because of edge triggering the accept loop takes every
\* waiting connection, so none waits while there is room for it.
NobodyStranded ==
    (backlog > 0 /\ interest[ListenFd] = "in") ~> (backlog = 0 \/ Full \/ dead # "no")

\* webserver.cpp:198: a write that would block waits for EPOLLOUT again.
BlockedWriteWaits == dead # "eagain"
=============================================================================
