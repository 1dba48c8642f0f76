------------------------------ MODULE SQLPool ------------------------------
(***************************************************************************)
(* src/sql_pool.cpp and its only user, HttpResponse::_Login.  Worker       *)
(* threads take a connection with GetConn, run a prepared statement that   *)
(* may fail at every call of the MySQL library, and give the connection    *)
(* back with ReleaseConn.  A critical section of SQLPool is one action: it *)
(* runs with _mutex held from beginning to end, and cv.wait gives the      *)
(* mutex up only as its last step.                                         *)
(***************************************************************************)
EXTENDS Integers, Sequences, FiniteSets

CONSTANTS Threads,   \* threads that execute _Login
          MaxConn    \* max_size

ASSUME SQLAssumption ==
    /\ IsFiniteSet(Threads)
    /\ MaxConn \in Nat \ {0}

VARIABLES conn_list,  \* _conn_list: the ids of the free connections
          free_conn,  \* _free_conn
          used_id,    \* used_id
          pc,         \* where each thread is in _Login
          id,         \* the local id of _Login
          open,       \* what each thread holds: an open MYSQL_STMT, an unfreed MYSQL_RES
          server      \* "library", "init", "up", or how the process ended

vars == <<conn_list, free_conn, used_id, pc, id, open, server>>

Ids == 0..(MaxConn - 1)

\* SQLPool::Init has set _max_conn and _free_conn.
Init ==
    /\ conn_list = <<>>
    /\ free_conn = MaxConn
    /\ used_id = {}
    /\ pc = [t \in Threads |-> "idle"]
    /\ id = [t \in Threads |-> -1]
    /\ open = [t \in Threads |-> {}]
    /\ server = "library"

-----------------------------------------------------------------------------
(* SQLPool::Init runs in the constructor of WebServer, before the thread   *)
(* pool exists.                                                            *)

Becomes(from, to) ==
    /\ server = from /\ server' = to
    /\ UNCHANGED <<conn_list, free_conn, used_id, pc, id, open>>

LibraryInit == Becomes("library", "init")

Connect ==
    /\ server = "init" /\ Len(conn_list) < MaxConn
    /\ conn_list' = Append(conn_list, Len(conn_list))
    /\ UNCHANGED <<free_conn, used_id, pc, id, open, server>>

\* mysql_library_init, mysql_init or mysql_real_connect fails: runtime_error, which
\* nobody catches.
InitThrows ==
    /\ Len(conn_list) < MaxConn
    /\ Becomes("library", "threw") \/ Becomes("init", "threw")

InitDone == Len(conn_list) = MaxConn /\ Becomes("init", "up")

\* The server cannot listen: Start and main return, and ~SQLPool ends the library
\* before it closes the connections that need it.
LibraryEnd == Len(conn_list) = MaxConn /\ Becomes("init", "ending")

CloseConns == Becomes("ending", "gone")

-----------------------------------------------------------------------------
(* GetConn and ReleaseConn.                                                *)

Goto(t, from, to) == pc[t] = from /\ pc' = [pc EXCEPT ![t] = to]

Call(t) ==
    /\ Goto(t, "idle", "get")
    /\ UNCHANGED <<conn_list, free_conn, used_id, id, open, server>>

Get(t, rest) ==
    /\ Goto(t, "get", "init")
    /\ free_conn # 0
    /\ id' = [id EXCEPT ![t] = Head(conn_list)]
    /\ used_id' = used_id \cup {Head(conn_list)}
    /\ conn_list' = rest
    /\ free_conn' = free_conn - 1
    /\ UNCHANGED <<open, server>>

\* Fault: the first of the list is used, and stays in the list.
FaultGetKeepsFront(t) == Get(t, conn_list)

\* The while loop of GetConn is left: take the front of the list.
GetConn(t) == Get(t, Tail(conn_list))

\* No connection is free: _CVpool.wait.
GetConnWaits(t) ==
    /\ Goto(t, "get", "wait")
    /\ free_conn = 0
    /\ UNCHANGED <<conn_list, free_conn, used_id, id, open, server>>

SpuriousWakeup(t) ==
    /\ Goto(t, "wait", "get")
    /\ UNCHANGED <<conn_list, free_conn, used_id, id, open, server>>

Waiting == {t \in Threads : pc[t] = "wait"}

\* Fault: the waiters are not notified.
FaultNoNotify(t) == pc' = [pc EXCEPT ![t] = "idle"]

\* _CVpool.notify_one as the last act of ReleaseConn; t returns.
NotifyOne(t) ==
    \/ Waiting = {} /\ pc' = [pc EXCEPT ![t] = "idle"]
    \/ \E u \in Waiting : pc' = [pc EXCEPT ![t] = "idle", ![u] = "get"]

\* Fault: _free_conn is counted up twice.
FaultCountsTwice == free_conn' = free_conn + 2

CountUp == free_conn' = free_conn + 1

\* An id that used_id does not know ends the process.
ReleaseConn(t) ==
    /\ pc[t] = "release"
    /\ IF id[t] \in used_id
       THEN /\ conn_list' = Append(conn_list, id[t])
            /\ CountUp
            /\ used_id' = used_id \ {id[t]}
            /\ id' = [id EXCEPT ![t] = -1]
            /\ NotifyOne(t)
            /\ UNCHANGED server
       ELSE /\ server' = "exited"
            /\ UNCHANGED <<conn_list, free_conn, used_id, id, pc>>
    /\ UNCHANGED open

-----------------------------------------------------------------------------
(* _Login between GetConn and ReleaseConn: a library call succeeds and the *)
(* next one follows, or it fails and _Login returns early.                 *)

\* Fault: the early return behind mysql_stmt_store_result forgets the result.
FaultCloses ==
    [init |-> {}, prepare |-> {"stmt"}, bind |-> {"stmt"}, execute |-> {"stmt"},
     metadata |-> {"stmt"}, store |-> {"stmt"}, rows |-> {"stmt", "res"}]

\* What the return at each stage closes before it calls ReleaseConn.
closes ==
    [init |-> {}, prepare |-> {"stmt"}, bind |-> {"stmt"}, execute |-> {"stmt"},
     metadata |-> {"stmt"}, store |-> {"stmt", "res"}, rows |-> {"stmt", "res"}]

\* t goes on to a stage and has opened what is new.
Succeeds(t, to, new) ==
    /\ pc' = [pc EXCEPT ![t] = to]
    /\ open' = [open EXCEPT ![t] = @ \cup new]

ReturnTo(t, to) ==
    /\ pc' = [pc EXCEPT ![t] = to]
    /\ open' = [open EXCEPT ![t] = @ \ closes[pc[t]]]

\* Fault: a return forgets ReleaseConn.
FaultConnLeft(t) == ReturnTo(t, "idle")

Return(t) == ReturnTo(t, "release")

StmtInit(t) ==
    /\ pc[t] = "init"
    /\ Succeeds(t, "prepare", {"stmt"}) \/ Return(t)
    /\ UNCHANGED <<conn_list, free_conn, used_id, id, server>>

stages == [prepare |-> "bind", bind |-> "execute", execute |-> "metadata"]

\* mysql_stmt_prepare, mysql_stmt_bind_param and mysql_stmt_execute.
StmtCall(t) ==
    /\ pc[t] \in DOMAIN stages
    /\ Succeeds(t, stages[pc[t]], {}) \/ Return(t)
    /\ UNCHANGED <<conn_list, free_conn, used_id, id, server>>

Metadata(t) ==
    /\ pc[t] = "metadata"
    /\ Succeeds(t, "store", {"res"}) \/ Return(t)
    /\ UNCHANGED <<conn_list, free_conn, used_id, id, server>>

StoreResult(t) ==
    /\ pc[t] = "store"
    /\ Succeeds(t, "rows", {}) \/ Return(t)
    /\ UNCHANGED <<conn_list, free_conn, used_id, id, server>>

\* The rows are counted and the row compared: both answers end the same way.
Compare(t) ==
    /\ pc[t] = "rows"
    /\ Return(t)
    /\ UNCHANGED <<conn_list, free_conn, used_id, id, server>>

-----------------------------------------------------------------------------
LoginStep(t) ==
    \/ GetConn(t) \/ GetConnWaits(t) \/ ReleaseConn(t)
    \/ StmtInit(t) \/ StmtCall(t) \/ Metadata(t) \/ StoreResult(t) \/ Compare(t)

Next ==
    \/ LibraryInit \/ Connect \/ InitThrows \/ InitDone
    \/ LibraryEnd \/ CloseConns
    \/ /\ server = "up"
       /\ \E t \in Threads : Call(t) \/ SpuriousWakeup(t) \/ LoginStep(t)

\* A thread inside _Login keeps running, every call of the library returns.
Fairness == \A t \in Threads : WF_vars(server = "up" /\ LoginStep(t))

SafeSpec == Init /\ [][Next]_vars
Spec == SafeSpec /\ Fairness

-----------------------------------------------------------------------------
(* Properties.                                                             *)

PCs == {"idle", "get", "wait", "init", "prepare", "bind", "execute",
        "metadata", "store", "rows", "release"}

\* Every variable has its type; in particular _free_conn stays between 0 and
\* max_size however GetConn and ReleaseConn interleave.
TypeOK ==
    /\ conn_list \in Seq(Ids)
    /\ free_conn \in 0..MaxConn
    /\ used_id \in SUBSET Ids
    /\ pc \in [Threads -> PCs]
    /\ id \in [Threads -> Ids \cup {-1}]
    /\ open \in [Threads -> SUBSET {"stmt", "res"}]
    /\ server \in {"library", "init", "up", "threw", "exited", "ending", "gone"}

Holds(t) == pc[t] \notin {"idle", "get", "wait"}

\* _free_conn, which GetConn tests before it touches the list, is the length of
\* the list, so front() is never called on an empty list.
FreeIsLength == server = "up" => free_conn = Len(conn_list)

\* Every connection is in the list once or with exactly one thread: nobody shares
\* a MYSQL handle, none is lost, used_id knows the ones that are out, and the
\* exit(1) of ReleaseConn is out of reach.
Ownership ==
    /\ server # "exited"
    /\ \A i, j \in DOMAIN conn_list : conn_list[i] = conn_list[j] => i = j
    /\ \A i \in DOMAIN conn_list : conn_list[i] \notin used_id
    /\ \A t \in Threads : IF Holds(t) THEN id[t] \in used_id ELSE id[t] = -1
    /\ \A t, u \in Threads : Holds(t) /\ id[t] = id[u] => t = u
    /\ \A i \in used_id : \E t \in Threads : id[t] = i

\* No connection stays unused while a thread sleeps: for every free one some
\* other thread is already on its way to test _free_conn, although notify_one
\* wakes a single waiter and anybody may overtake it.
NoLostWakeup ==
    server = "up" /\ Waiting # {} =>
        free_conn <= Cardinality({t \in Threads : pc[t] = "get"})

\* Each of the seven returns of _Login closes all that the calls before it have
\* opened: no statement or result is left when the connection goes back to the
\* pool, to which the next login's statement would belong too.
HandlesClosed ==
    \A t \in Threads : ~Holds(t) \/ pc[t] = "release" => open[t] = {}

\* With more threads than connections they never all wait for each other.
PoolMovesOn ==
    (\A t \in Threads : pc[t] # "idle") ~> (\E t \in Threads : pc[t] = "idle")
=============================================================================
