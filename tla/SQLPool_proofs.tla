--------------------------- MODULE SQLPool_proofs ---------------------------
(***************************************************************************)
(* Proofs about SQLPool for any number of threads and connections.  The    *)
(* inductive invariant PoolInv adds to the checked properties what the     *)
(* pool looks like before the server is up (Building), the balance of      *)
(* free and used connections, without which _free_conn has no bound, and   *)
(* what a thread has opened at each stage of _Login (OpenAt).              *)
(***************************************************************************)
EXTENDS SQLPool, FiniteSetTheorems, SequenceTheorems, TLAPS

\* Until the server is up nobody has called GetConn, and the list holds the
\* connections 0, 1, ... that Init has opened so far.
Building ==
    server \in {"library", "init", "threw", "ending", "gone"} =>
        /\ free_conn = MaxConn /\ used_id = {}
        /\ \A t \in Threads : pc[t] = "idle"
        /\ Len(conn_list) <= MaxConn
        /\ \A k \in 1..Len(conn_list) : conn_list[k] = k - 1

\* What a thread has open at a stage of _Login: the statement from mysql_stmt_init
\* on, the result from mysql_stmt_result_metadata on.
OpenAt ==
    \A t \in Threads :
        /\ pc[t] \in {"idle", "get", "wait", "init", "release"} => open[t] = {}
        /\ pc[t] \in {"prepare", "bind", "execute", "metadata"} => open[t] = {"stmt"}
        /\ pc[t] \in {"store", "rows"} => open[t] = {"stmt", "res"}

\* Every connection is either free or used.
Balance == server = "up" => free_conn + Cardinality(used_id) = MaxConn

PoolInv ==
    /\ TypeOK /\ Building /\ OpenAt /\ Balance
    /\ FreeIsLength /\ Ownership /\ NoLostWakeup /\ HandlesClosed

\* The set that NoLostWakeup counts.
Heading == {t \in Threads : pc[t] = "get"}

-----------------------------------------------------------------------------
\* What every step of the pool is, one disjunct per action.
LEMMA StepCases ==
  ASSUME [Next]_vars
  PROVE  \/ LibraryInit \/ Connect \/ InitThrows \/ InitDone
         \/ LibraryEnd \/ CloseConns
         \/ /\ server = "up"
            /\ \E t \in Threads :
                 \/ Call(t) \/ SpuriousWakeup(t) \/ GetConn(t) \/ GetConnWaits(t)
                 \/ ReleaseConn(t) \/ StmtInit(t) \/ StmtCall(t) \/ Metadata(t)
                 \/ StoreResult(t) \/ Compare(t)
         \/ UNCHANGED vars
  BY DEF Next, LoginStep

\* The sets that the invariant counts are finite.
LEMMA Counting ==
  ASSUME TypeOK
  PROVE  /\ IsFiniteSet(Heading) /\ Cardinality(Heading) \in Nat
         /\ IsFiniteSet(used_id) /\ Cardinality(used_id) \in Nat
         /\ Cardinality(Heading)' \in Nat
  <1>1. IsFiniteSet(Ids)
    BY SQLAssumption, FS_Interval DEF Ids
  <1>2. IsFiniteSet(used_id)
    BY <1>1, FS_Subset DEF TypeOK
  <1>3. IsFiniteSet(Heading) /\ IsFiniteSet(Heading')
    BY SQLAssumption, FS_Subset DEF Heading
  <1> QED
    BY <1>2, <1>3, FS_CardinalityType

\* A thread between GetConn and ReleaseConn, step by step.
InStatement(t) ==
  StmtInit(t) \/ StmtCall(t) \/ Metadata(t) \/ StoreResult(t) \/ Compare(t)

\* A call of the MySQL library moves its thread on inside _Login and leaves the
\* pool alone; a return closes what the calls before it have opened.
LEMMA StatementStep ==
  ASSUME TypeOK, OpenAt, NEW t \in Threads, InStatement(t)
  PROVE  /\ UNCHANGED <<conn_list, free_conn, used_id, id, server>>
         /\ Holds(t)
         /\ \E p \in PCs \ {"idle", "get", "wait"} : pc' = [pc EXCEPT ![t] = p]
         /\ open' \in [Threads -> SUBSET {"stmt", "res"}]
         /\ \A u \in Threads : u # t => open'[u] = open[u]
         /\ OpenAt'
  <1> DEFINE same == UNCHANGED <<conn_list, free_conn, used_id, id, server>>
             opened(p) == CASE p \in {"prepare", "bind", "execute", "metadata"} -> {"stmt"}
                            [] p \in {"store", "rows"} -> {"stmt", "res"}
                            [] OTHER -> {}
  <1>1. ASSUME NEW p \in PCs \ {"idle", "get", "wait"}, Holds(t), same,
               pc' = [pc EXCEPT ![t] = p], open' = [open EXCEPT ![t] = opened(p)]
        PROVE  /\ open' \in [Threads -> SUBSET {"stmt", "res"}]
               /\ \A u \in Threads : u # t => open'[u] = open[u]
               /\ OpenAt'
    BY <1>1 DEF TypeOK, PCs, OpenAt
  <1>2. ASSUME pc[t] \in {"init", "prepare", "bind", "execute", "metadata", "store", "rows"}
        PROVE  open[t] \ closes[pc[t]] = {}
    BY <1>2 DEF OpenAt, closes
  <1>3. CASE Return(t) /\ same
             /\ pc[t] \in {"init", "prepare", "bind", "execute", "metadata", "store", "rows"}
    <2>1. /\ pc' = [pc EXCEPT ![t] = "release"]
          /\ open' = [open EXCEPT ![t] = opened("release")] /\ Holds(t)
      BY <1>2, <1>3 DEF Return, ReturnTo, Holds
    <2> QED
      BY <1>1, <1>3, <2>1 DEF PCs
  <1>4. CASE StmtInit(t)
    <2>1. CASE Succeeds(t, "prepare", {"stmt"})
      <3>1. /\ pc' = [pc EXCEPT ![t] = "prepare"] /\ Holds(t) /\ same
            /\ open' = [open EXCEPT ![t] = opened("prepare")]
        BY <1>4, <2>1 DEF StmtInit, Succeeds, OpenAt, Holds
      <3> QED
        BY <1>1, <3>1 DEF PCs
    <2> QED
      BY <1>3, <1>4, <2>1 DEF StmtInit
  <1>5. CASE StmtCall(t)
    <2>1. pc[t] \in {"prepare", "bind", "execute"}
          /\ stages[pc[t]] \in {"bind", "execute", "metadata"}
      BY <1>5 DEF StmtCall, stages
    <2>2. CASE Succeeds(t, stages[pc[t]], {})
      <3>1. PICK p \in {"bind", "execute", "metadata"} : p = stages[pc[t]]
        BY <2>1
      <3>2. /\ pc' = [pc EXCEPT ![t] = p] /\ Holds(t) /\ same
            /\ open' = [open EXCEPT ![t] = opened(p)]
        BY <1>5, <2>1, <2>2, <3>1 DEF StmtCall, Succeeds, OpenAt, Holds
      <3> QED
        BY <1>1, <3>2 DEF PCs
    <2> QED
      BY <1>3, <1>5, <2>1, <2>2 DEF StmtCall
  <1>6. CASE Metadata(t)
    <2>1. CASE Succeeds(t, "store", {"res"})
      <3>1. /\ pc' = [pc EXCEPT ![t] = "store"] /\ Holds(t) /\ same
            /\ open' = [open EXCEPT ![t] = opened("store")]
        BY <1>6, <2>1 DEF Metadata, Succeeds, OpenAt, Holds
      <3> QED
        BY <1>1, <3>1 DEF PCs
    <2> QED
      BY <1>3, <1>6, <2>1 DEF Metadata
  <1>7. CASE StoreResult(t)
    <2>1. CASE Succeeds(t, "rows", {})
      <3>1. /\ pc' = [pc EXCEPT ![t] = "rows"] /\ Holds(t) /\ same
            /\ open' = [open EXCEPT ![t] = opened("rows")]
        BY <1>7, <2>1 DEF StoreResult, Succeeds, OpenAt, Holds
      <3> QED
        BY <1>1, <3>1 DEF PCs
    <2> QED
      BY <1>3, <1>7, <2>1 DEF StoreResult
  <1>8. CASE Compare(t)
    BY <1>3, <1>8 DEF Compare
  <1> QED
    BY <1>4, <1>5, <1>6, <1>7, <1>8 DEF InStatement

-----------------------------------------------------------------------------
\* The empty pool of Init satisfies every part of the invariant.
LEMMA InvInit == Init => PoolInv
  <1> SUFFICES ASSUME Init PROVE PoolInv
    OBVIOUS
  <1>1. TypeOK
    BY SQLAssumption DEF Init, TypeOK, Ids, PCs
  <1>2. Building /\ OpenAt /\ Balance /\ FreeIsLength /\ NoLostWakeup
    BY SQLAssumption DEF Init, Building, OpenAt, Balance, FreeIsLength,
       NoLostWakeup
  <1>3. Ownership /\ HandlesClosed
    BY DEF Init, Ownership, HandlesClosed, Holds
  <1> QED
    BY <1>1, <1>2, <1>3 DEF PoolInv

\* SQLPool::Init opens one connection after the other; the server comes up with
\* all of them in the list, or it ends before a thread exists.
LEMMA BootNext ==
  ASSUME PoolInv,
         \/ LibraryInit \/ Connect \/ InitThrows \/ InitDone
         \/ LibraryEnd \/ CloseConns
  PROVE  PoolInv'
  <1> USE SQLAssumption DEF PoolInv
  <1>0. /\ conn_list \in Seq(Ids) /\ Len(conn_list) \in Nat
        /\ DOMAIN conn_list = 1..Len(conn_list)
    BY LenProperties DEF TypeOK
  <1>1. CASE LibraryInit
    <2>1. /\ server = "library" /\ server' = "init"
          /\ UNCHANGED <<conn_list, free_conn, used_id, pc, id, open>>
      BY <1>1 DEF LibraryInit, Becomes
    <2> QED
      BY <2>1 DEF TypeOK, Building, OpenAt, Balance, FreeIsLength, Ownership,
         NoLostWakeup, HandlesClosed, Holds
  <1>2. CASE Connect
    <2> DEFINE n == Len(conn_list)
    <2>1. /\ server = "init" /\ server' = "init" /\ n < MaxConn /\ n \in Ids
          /\ conn_list' = Append(conn_list, n)
          /\ UNCHANGED <<free_conn, used_id, pc, id, open>>
      BY <1>0, <1>2 DEF Connect, Ids
    <2>2. /\ conn_list' \in Seq(Ids) /\ Len(conn_list') = n + 1
          /\ \A k \in 1..n : conn_list'[k] = conn_list[k]
          /\ conn_list'[n + 1] = n
          /\ DOMAIN conn_list' = 1..(n + 1)
      BY <1>0, <2>1, AppendProperties, LenProperties
    <2> HIDE DEF n
    <2>3. n \in Nat /\ n = Len(conn_list)
      BY <1>0 DEF n
    <2>4. TypeOK'
      BY <2>1, <2>2 DEF TypeOK
    <2>5. Building' /\ OpenAt'
      BY <2>1, <2>2, <2>3 DEF Building, OpenAt
    <2>6. Ownership'
      BY <2>1, <2>2, <2>3, <2>5 DEF Ownership, Building, Holds
    <2>7. Balance' /\ FreeIsLength' /\ NoLostWakeup' /\ HandlesClosed'
      BY <2>1 DEF Balance, FreeIsLength, NoLostWakeup, HandlesClosed, Holds
    <2> QED
      BY <2>4, <2>5, <2>6, <2>7
  <1>3. CASE InitThrows
    <2>1. /\ server \in {"library", "init"} /\ server' = "threw"
          /\ UNCHANGED <<conn_list, free_conn, used_id, pc, id, open>>
      BY <1>3 DEF InitThrows, Becomes
    <2> QED
      BY <2>1 DEF TypeOK, Building, OpenAt, Balance, FreeIsLength, Ownership,
         NoLostWakeup, HandlesClosed, Holds
  <1>4. CASE InitDone
    <2>1. /\ server = "init" /\ server' = "up" /\ Len(conn_list) = MaxConn
          /\ UNCHANGED <<conn_list, free_conn, used_id, pc, id, open>>
      BY <1>4 DEF InitDone, Becomes
    <2>2. Balance'
      <3>1. used_id' = {} /\ free_conn' = MaxConn
        BY <2>1 DEF Building
      <3> QED
        BY <3>1, FS_EmptySet DEF Balance
    <2>3. NoLostWakeup'
      <3>1. Waiting' = {}
        BY <2>1 DEF Building, Waiting
      <3> QED
        BY <3>1 DEF NoLostWakeup
    <2> QED
      BY <2>1, <2>2, <2>3 DEF TypeOK, Building, OpenAt, FreeIsLength, Ownership,
         HandlesClosed, Holds
  <1>5. CASE LibraryEnd \/ CloseConns
    <2>1. /\ server \in {"init", "ending"} /\ server' \in {"ending", "gone"}
          /\ UNCHANGED <<conn_list, free_conn, used_id, pc, id, open>>
      BY <1>5 DEF LibraryEnd, CloseConns, Becomes
    <2> QED
      BY <2>1 DEF TypeOK, Building, OpenAt, Balance, FreeIsLength, Ownership,
         NoLostWakeup, HandlesClosed, Holds
  <1> QED
    BY <1>1, <1>2, <1>3, <1>4, <1>5

\* GetConn moves the front of the list, which nobody else has, into used_id.
LEMMA GetNext ==
  ASSUME PoolInv, server = "up", NEW t \in Threads, GetConn(t)
  PROVE  PoolInv'
  <1> DEFINE h == Head(conn_list)
  <1> USE SQLAssumption DEF PoolInv
  <1>1. /\ conn_list \in Seq(Ids) /\ Len(conn_list) \in Nat
        /\ free_conn = Len(conn_list) /\ free_conn # 0 /\ conn_list # <<>>
        /\ DOMAIN conn_list = 1..Len(conn_list)
    BY LenProperties, EmptySeq DEF GetConn, Get, TypeOK, FreeIsLength
  <1>2. /\ h = conn_list[1] /\ h \in Ids
        /\ Tail(conn_list) \in Seq(Ids) /\ Len(Tail(conn_list)) = Len(conn_list) - 1
        /\ DOMAIN Tail(conn_list) = 1..(Len(conn_list) - 1)
        /\ \A i \in 1..(Len(conn_list) - 1) : Tail(conn_list)[i] = conn_list[i + 1]
    BY <1>1, HeadTailProperties, LenProperties
  <1>3. /\ pc[t] = "get" /\ pc' = [pc EXCEPT ![t] = "init"]
        /\ id' = [id EXCEPT ![t] = h]
        /\ used_id' = used_id \cup {h}
        /\ conn_list' = Tail(conn_list)
        /\ free_conn' = free_conn - 1
        /\ UNCHANGED <<open, server>>
    BY DEF GetConn, Get, Goto
  <1>4. h \notin used_id /\ \A i \in 2..Len(conn_list) : conn_list[i] # h
    BY <1>1, <1>2 DEF Ownership
  <1> HIDE DEF h
  <1>5. TypeOK'
    BY <1>1, <1>2, <1>3 DEF TypeOK, PCs
  <1>6. Balance' /\ FreeIsLength'
    <2>1. Cardinality(used_id') = Cardinality(used_id) + 1
      BY <1>3, <1>4, Counting, FS_AddElement
    <2> QED
      BY <1>1, <1>2, <1>3, <2>1, Counting DEF Balance, FreeIsLength
  <1>7. Ownership'
    <2>1. \A u \in Threads : u # t => pc'[u] = pc[u] /\ id'[u] = id[u]
      BY <1>3 DEF TypeOK
    <2>2. pc'[t] = "init" /\ id'[t] = h /\ id[t] = -1 /\ h # -1
      BY <1>2, <1>3 DEF TypeOK, Ownership, Holds, Ids
    <2>3. \A i, j \in DOMAIN conn_list' : conn_list'[i] = conn_list'[j] => i = j
      BY <1>1, <1>2, <1>3 DEF Ownership
    <2>4. \A i \in DOMAIN conn_list' : conn_list'[i] \notin used_id'
      BY <1>1, <1>2, <1>3, <1>4 DEF Ownership
    <2>5. \A u \in Threads : IF Holds(u)' THEN id'[u] \in used_id' ELSE id'[u] = -1
      BY <1>3, <2>1, <2>2 DEF Ownership, Holds
    <2>6. \A u \in Threads : u # t => id'[u] # h
      BY <1>4, <2>1, <2>2 DEF Ownership
    <2>7. \A u, v \in Threads : Holds(u)' /\ id'[u] = id'[v] => u = v
      BY <2>1, <2>2, <2>6 DEF Ownership, Holds
    <2>8. \A i \in used_id' : \E u \in Threads : id'[u] = i
      <3>1. ASSUME NEW i \in used_id PROVE \E u \in Threads : id'[u] = i
        <4>1. PICK u \in Threads : id[u] = i
          BY DEF Ownership
        <4>2. u # t
          BY <2>2, <4>1 DEF TypeOK, Ids
        <4> QED
          BY <2>1, <4>1, <4>2
      <3> QED
        BY <1>3, <2>2, <3>1
    <2> QED
      BY <1>3, <2>3, <2>4, <2>5, <2>7, <2>8 DEF Ownership
  <1>8. NoLostWakeup'
    <2>1. Waiting' = Waiting /\ Heading' = Heading \ {t} /\ t \in Heading
      BY <1>3 DEF Waiting, Heading, TypeOK
    <2>2. Cardinality(Heading') = Cardinality(Heading) - 1
      BY <2>1, Counting, FS_RemoveElement
    <2> QED
      BY <1>1, <1>3, <2>1, <2>2, Counting DEF NoLostWakeup, Heading
  <1>9. HandlesClosed' /\ Building' /\ OpenAt'
    BY <1>3 DEF HandlesClosed, Building, OpenAt, Holds, TypeOK
  <1> QED
    BY <1>5, <1>6, <1>7, <1>8, <1>9

\* ReleaseConn finds its id in used_id, gives the connection back to the end of the
\* list and wakes a waiter, if there is one, for the connection it has freed.
LEMMA ReleaseNext ==
  ASSUME PoolInv, server = "up", NEW t \in Threads, ReleaseConn(t)
  PROVE  PoolInv'
  <1> DEFINE i == id[t]
  <1> USE SQLAssumption DEF PoolInv
  <1>1. /\ pc[t] = "release" /\ i \in used_id /\ i \in Ids
    BY DEF ReleaseConn, Ownership, Holds, TypeOK
  <1>2. /\ conn_list' = Append(conn_list, i)
        /\ free_conn' = free_conn + 1
        /\ used_id' = used_id \ {i}
        /\ id' = [id EXCEPT ![t] = -1]
        /\ NotifyOne(t)
        /\ UNCHANGED <<open, server>>
    BY <1>1 DEF ReleaseConn, CountUp
  <1>3. /\ conn_list \in Seq(Ids) /\ Len(conn_list) \in Nat
        /\ free_conn = Len(conn_list)
        /\ DOMAIN conn_list = 1..Len(conn_list)
    BY LenProperties DEF TypeOK, FreeIsLength
  <1>4. /\ conn_list' \in Seq(Ids) /\ Len(conn_list') = Len(conn_list) + 1
        /\ DOMAIN conn_list' = 1..(Len(conn_list) + 1)
        /\ \A k \in 1..Len(conn_list) : conn_list'[k] = conn_list[k]
        /\ conn_list'[Len(conn_list) + 1] = i
    BY <1>1, <1>2, <1>3, AppendProperties, LenProperties
  <1> HIDE DEF i
  <1>5. /\ pc' \in [Threads -> PCs] /\ pc'[t] = "idle"
        /\ \A u \in Threads : u # t =>
             pc'[u] = pc[u] \/ (pc[u] = "wait" /\ pc'[u] = "get")
    BY <1>1, <1>2 DEF NotifyOne, Waiting, TypeOK, PCs
  <1>6. Balance' /\ FreeIsLength' /\ free_conn' \in 0..MaxConn
    <2>1. Cardinality(used_id') = Cardinality(used_id) - 1 /\ Cardinality(used_id') \in Nat
      BY <1>1, <1>2, Counting, FS_RemoveElement, FS_CardinalityType
    <2> QED
      BY <1>2, <1>3, <1>4, <2>1, Counting, SMTT(60) DEF Balance, FreeIsLength
  <1>7. TypeOK'
    BY <1>2, <1>4, <1>5, <1>6 DEF TypeOK
  <1>8. Ownership'
    <2>1. id'[t] = -1 /\ \A u \in Threads : u # t => id'[u] = id[u]
      BY <1>2 DEF TypeOK
    <2>2. \A u \in Threads : Holds(u)' <=> Holds(u) /\ u # t
      BY <1>5 DEF Holds
    <2>3. \A j, k \in DOMAIN conn_list' : conn_list'[j] = conn_list'[k] => j = k
      BY <1>1, <1>3, <1>4 DEF Ownership
    <2>4. \A k \in DOMAIN conn_list' : conn_list'[k] \notin used_id'
      BY <1>1, <1>2, <1>3, <1>4 DEF Ownership
    <2>5. \A u \in Threads : u # t => id[u] # i
      BY <1>1 DEF Ownership, Holds, i
    <2>6. \A u \in Threads : IF Holds(u)' THEN id'[u] \in used_id' ELSE id'[u] = -1
      BY <1>2, <2>1, <2>2, <2>5 DEF Ownership
    <2>7. \A u, v \in Threads : Holds(u)' /\ id'[u] = id'[v] => u = v
      BY <1>2, <2>1, <2>2, <2>6 DEF Ownership, TypeOK, Ids
    <2>8. \A j \in used_id' : \E u \in Threads : id'[u] = j
      BY <1>2, <2>1 DEF Ownership, i
    <2> QED
      BY <1>2, <2>3, <2>4, <2>6, <2>7, <2>8 DEF Ownership
  <1>9. NoLostWakeup'
    <2>1. CASE Waiting = {} /\ pc' = [pc EXCEPT ![t] = "idle"]
      <3>1. Waiting' = {}
        BY <2>1 DEF Waiting, TypeOK
      <3> QED
        BY <3>1 DEF NoLostWakeup
    <2>2. ASSUME NEW u \in Waiting, pc' = [pc EXCEPT ![t] = "idle", ![u] = "get"]
          PROVE  NoLostWakeup'
      <3>1. Heading' = Heading \cup {u} /\ u \notin Heading
        BY <1>1, <2>2 DEF Waiting, Heading, TypeOK
      <3>2. Cardinality(Heading') = Cardinality(Heading) + 1
        BY <3>1, Counting, FS_AddElement
      <3> QED
        BY <1>2, <1>3, <2>2, <3>2, Counting DEF NoLostWakeup, Heading
    <2> QED
      BY <1>2, <2>1, <2>2 DEF NotifyOne
  <1>10. HandlesClosed' /\ Building' /\ OpenAt'
    BY <1>1, <1>2, <1>5 DEF HandlesClosed, Building, OpenAt, Holds
  <1> QED
    BY <1>6, <1>7, <1>8, <1>9, <1>10

\* A step that only moves a thread outside the pool, or puts it to sleep on an
\* empty pool, or wakes it.
LEMMA MoveNext ==
  ASSUME PoolInv, server = "up", NEW t \in Threads,
         Call(t) \/ SpuriousWakeup(t) \/ GetConnWaits(t)
  PROVE  PoolInv'
  <1> USE SQLAssumption DEF PoolInv
  <1>1. /\ \/ pc[t] = "idle" /\ pc' = [pc EXCEPT ![t] = "get"]
           \/ pc[t] = "wait" /\ pc' = [pc EXCEPT ![t] = "get"]
           \/ pc[t] = "get" /\ pc' = [pc EXCEPT ![t] = "wait"] /\ free_conn = 0
        /\ UNCHANGED <<conn_list, free_conn, used_id, id, open, server>>
    BY DEF Call, SpuriousWakeup, GetConnWaits, Goto
  <1>2. \A u \in Threads : Holds(u)' <=> Holds(u)
    BY <1>1 DEF Holds, TypeOK
  <1>3. TypeOK'
    BY <1>1 DEF TypeOK, PCs
  <1>4. Ownership'
    BY <1>1, <1>2 DEF Ownership
  <1>5. HandlesClosed'
    <2>1. \A u \in Threads : pc'[u] = "release" <=> pc[u] = "release"
      BY <1>1 DEF TypeOK
    <2> QED
      BY <1>1, <1>2, <2>1 DEF HandlesClosed
  <1>6. NoLostWakeup'
    <2>1. CASE free_conn = 0 /\ pc[t] = "get"
      BY <1>1, <2>1, Counting DEF NoLostWakeup, Heading
    <2>2. CASE pc[t] # "get"
      <3>1. /\ Waiting' \subseteq Waiting
            /\ Heading' = Heading \cup {t} /\ t \notin Heading
        BY <1>1, <2>2 DEF Waiting, Heading, TypeOK
      <3>2. Cardinality(Heading') = Cardinality(Heading) + 1
        BY <3>1, Counting, FS_AddElement
      <3> QED
        BY <1>1, <3>1, <3>2, Counting DEF NoLostWakeup, Heading, TypeOK
    <2> QED
      BY <1>1, <2>1, <2>2
  <1>7. Building' /\ OpenAt' /\ Balance' /\ FreeIsLength'
    BY <1>1 DEF Building, OpenAt, Balance, FreeIsLength, TypeOK
  <1> QED
    BY <1>3, <1>4, <1>5, <1>6, <1>7

\* The calls of the MySQL library do not touch the pool.
LEMMA StatementNext ==
  ASSUME PoolInv, server = "up", NEW t \in Threads, InStatement(t)
  PROVE  PoolInv'
  <1> USE DEF PoolInv
  <1>1. PICK p \in PCs \ {"idle", "get", "wait"} : pc' = [pc EXCEPT ![t] = p]
    BY StatementStep
  <1>2. /\ UNCHANGED <<conn_list, free_conn, used_id, id, server>>
        /\ Holds(t) /\ \A u \in Threads : Holds(u)' <=> Holds(u)
    BY <1>1, StatementStep DEF Holds, TypeOK
  <1>3. TypeOK'
    BY <1>1, <1>2, StatementStep DEF TypeOK
  <1>4. Ownership'
    BY <1>2 DEF Ownership
  <1>5. HandlesClosed'
    <2>1. OpenAt'
      BY StatementStep
    <2> QED
      BY <1>3, <2>1 DEF TypeOK, PCs, OpenAt, HandlesClosed, Holds
  <1>6. NoLostWakeup'
    <2>1. Waiting' = Waiting /\ Heading' = Heading
      BY <1>1, <1>2 DEF Waiting, Heading, TypeOK, Holds
    <2> QED
      BY <1>2, <2>1 DEF NoLostWakeup, Heading
  <1>7. Building' /\ OpenAt' /\ Balance' /\ FreeIsLength'
    BY <1>2, StatementStep DEF Building, Balance, FreeIsLength
  <1> QED
    BY <1>3, <1>4, <1>5, <1>6, <1>7

-----------------------------------------------------------------------------
\* PoolInv is an invariant of the pool, whatever the fairness.
THEOREM PoolInvariant == SafeSpec => []PoolInv
  <1>1. PoolInv /\ UNCHANGED vars => PoolInv'
    BY DEF vars, PoolInv, TypeOK, Building, OpenAt, Balance, FreeIsLength,
       Ownership, NoLostWakeup, HandlesClosed, Holds, Waiting
  <1>2. PoolInv /\ [Next]_vars => PoolInv'
    BY <1>1, StepCases, BootNext, GetNext, ReleaseNext, MoveNext, StatementNext
       DEF InStatement
  <1> QED
    BY InvInit, <1>2, PTL DEF SafeSpec

\* Type correctness of sql_pool.cpp's state: _free_conn never exceeds max_size.
THEOREM TypeCorrect == SafeSpec => []TypeOK
  <1>1. PoolInv => TypeOK
    BY DEF PoolInv
  <1> QED
    BY PoolInvariant, <1>1, PTL

\* _free_conn is the length of the list: GetConn never calls front() on an empty
\* list.
THEOREM FreeIsLengthTheorem == SafeSpec => []FreeIsLength
  <1>1. PoolInv => FreeIsLength
    BY DEF PoolInv
  <1> QED
    BY PoolInvariant, <1>1, PTL

\* No two threads share a MYSQL handle, none is lost, and the exit(1) of
\* ReleaseConn is out of reach, for any number of threads and connections.
THEOREM OwnershipTheorem == SafeSpec => []Ownership
  <1>1. PoolInv => Ownership
    BY DEF PoolInv
  <1> QED
    BY PoolInvariant, <1>1, PTL

\* ReleaseConn's notify_one is enough: no connection stays unused while a thread
\* sleeps in GetConn and nobody is on the way to take it.
THEOREM NoLostWakeupTheorem == SafeSpec => []NoLostWakeup
  <1>1. PoolInv => NoLostWakeup
    BY DEF PoolInv
  <1> QED
    BY PoolInvariant, <1>1, PTL

\* Whichever call of the MySQL library fails, in however many threads at once, the
\* return of _Login closes all that has been opened by then.
THEOREM HandlesClosedTheorem == SafeSpec => []HandlesClosed
  <1>1. PoolInv => HandlesClosed
    BY DEF PoolInv
  <1> QED
    BY PoolInvariant, <1>1, PTL
=============================================================================
