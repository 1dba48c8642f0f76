------------------------------- MODULE Buffer -------------------------------
(***************************************************************************)
(* src/buffer.cpp: a growing array with a read and a write position, that  *)
(* a socket is read into and the parser reads from.  The operations are    *)
(* operators on the record [mem, readp, writep]; the actions are their     *)
(* callers (HttpConnector, HttpRequest, HttpResponse), one thread at a     *)
(* time.  Bytes are numbered in the order of their arrival; Junk is any    *)
(* byte that is not in its place: zeroes, what an uninitialised stack      *)
(* buffer holds, or what lies behind its end.  Its value does not matter:  *)
(* behind buff1 it may be that of a byte received into buff2, which is     *)
(* then in the buffer a second time and out of turn.                       *)
(***************************************************************************)
EXTENDS Naturals, Sequences

CONSTANTS InitSize,   \* size the constructor gives _buffer
          Side,       \* size of buff1 and of buff2 in Read_FD
          MaxBytes,   \* bound: bytes that arrive in a run
          Junk

ASSUME BufferAssumption ==
    /\ InitSize \in Nat \ {0} /\ Side \in Nat \ {0} /\ MaxBytes \in Nat
    /\ Junk \notin 1..MaxBytes

VARIABLES buf,        \* the Buffer
          received,   \* history: bytes added or received so far
          taken,      \* history: what was consumed, in order
          aborted     \* an assertion has failed

vars == <<buf, received, taken, aborted>>

Bytes == 1..MaxBytes
Junks(n) == [i \in 1..n |-> Junk]
IsData(b) == b # Junk

WriteableSize(b) == Len(b.mem) - b.writep
ReadableSize(b) == b.writep - b.readp
PreparedSize(b) == b.readp
Readable(b) == SubSeq(b.mem, b.readp + 1, b.writep)

\* std::copy of s into mem behind the first n bytes.
CopyTo(mem, n, s) ==
    [i \in 1..Len(mem) |-> IF i \in (n + 1)..(n + Len(s)) THEN s[i - n] ELSE mem[i]]

Compact(b) ==
    [mem    |-> CopyTo(b.mem, 0, Readable(b)),
     readp  |-> 0,
     writep |-> ReadableSize(b)]

\* Fault: the array grows by what is missing in front of the free space.
FaultGrowTooLittle(b, len) == [b EXCEPT !.mem = @ \o Junks(len - WriteableSize(b) - 1)]

\* resize(_writep + len).
Grow(b, len) == [b EXCEPT !.mem = @ \o Junks(len - WriteableSize(b))]

\* Fault: the prepared bytes are counted but the readable ones are not moved.
FaultForgetToMove(b, len) ==
    IF WriteableSize(b) + PreparedSize(b) >= len
    THEN [b EXCEPT !.readp = 0, !.writep = ReadableSize(b)]
    ELSE Grow(b, len)

Dilatation(b, len) ==
    IF WriteableSize(b) + PreparedSize(b) >= len THEN Compact(b) ELSE Grow(b, len)

LengthGuard(b, len) == IF WriteableSize(b) < len THEN Dilatation(b, len) ELSE b

\* The assertion that ends _Length_Guard.
Guarded(b, len) == WriteableSize(LengthGuard(b, len)) >= len

AddTo(b, s) ==
    LET g == LengthGuard(b, Len(s))
    IN [g EXCEPT !.mem = CopyTo(g.mem, g.writep, s), !.writep = @ + Len(s)]

ReleaseAll(b) == [mem |-> Junks(Len(b.mem)), readp |-> 0, writep |-> 0]

\* The first n bytes of a stack buffer that readv filled with s.
StackBytes(s, n) == [i \in 1..n |-> IF i <= Len(s) THEN s[i] ELSE Junk]

\* The part of s that readv puts behind its first n bytes, at most Side of them.
Scattered(s, n) ==
    SubSeq(s, n + 1, IF Len(s) < n + Side THEN Len(s) ELSE n + Side)

\* Fault: the length that readv returned is always added to the write position.
FaultWriteNoGuard(b, s) ==
    [b EXCEPT !.mem = CopyTo(@, b.writep, s), !.writep = @ + Len(s)]

\* Read_FD: readv fills the free space, then buff1, then buff2.  Whatever did not
\* fit is the length of both calls of Add.
ReadFD(b, s) ==
    LET room == WriteableSize(b)
        over == Len(s) - room
        full == [b EXCEPT !.mem = CopyTo(@, b.writep, SubSeq(s, 1, room)),
                          !.writep = Len(b.mem)]
        one == AddTo(full, StackBytes(Scattered(s, room), over))
    IN IF Len(s) <= room
       THEN [b EXCEPT !.mem = CopyTo(@, b.writep, s), !.writep = @ + Len(s)]
       ELSE AddTo(one, StackBytes(Scattered(s, room + Side), over))

-----------------------------------------------------------------------------
Init ==
    /\ buf = [mem |-> Junks(InitSize), readp |-> 0, writep |-> 0]
    /\ received = <<>> /\ taken = <<>>
    /\ aborted = FALSE

\* The next n bytes to arrive.
Arrive(n) ==
    /\ Len(received) + n <= MaxBytes
    /\ received' = received \o [i \in 1..n |-> Len(received) + i]

Coming(n) == [i \in 1..n |-> Len(received) + i]

\* Head_Write_Buff adds a header.
Add(n) ==
    /\ Arrive(n)
    /\ aborted' = ~Guarded(buf, n)
    /\ buf' = IF Guarded(buf, n) THEN AddTo(buf, Coming(n)) ELSE buf
    /\ UNCHANGED taken

\* HttpConnector::Read: readv returns n bytes, at most what its three areas hold.
Read_FD(n) ==
    /\ Arrive(n)
    /\ n <= WriteableSize(buf) + 2 * Side
    /\ buf' = ReadFD(buf, Coming(n))
    /\ UNCHANGED <<taken, aborted>>

\* The parser and HttpConnector::Write consume n bytes; more than there are fails
\* the assertion.
Update_Readp(n) ==
    /\ IF n <= ReadableSize(buf)
       THEN /\ buf' = [buf EXCEPT !.readp = @ + n]
            /\ taken' = taken \o SubSeq(Readable(buf), 1, n)
            /\ UNCHANGED aborted
       ELSE aborted' = TRUE /\ UNCHANGED <<buf, taken>>
    /\ UNCHANGED received

\* HttpConnector::Process drops the rest of the request.
Release_All_Buff ==
    /\ buf' = ReleaseAll(buf)
    /\ taken' = taken \o Readable(buf)
    /\ UNCHANGED <<received, aborted>>

Next ==
    /\ ~aborted
    /\ \/ \E n \in 1..MaxBytes : Add(n) \/ Read_FD(n) \/ Update_Readp(n)
       \/ Release_All_Buff

Spec == Init /\ [][Next]_vars

-----------------------------------------------------------------------------
(* Properties.                                                             *)

\* The positions stay inside the array and in order.
IsBuffer(b) ==
    /\ b \in [mem : Seq(Bytes \cup {Junk}), readp : Nat, writep : Nat]
    /\ b.readp <= b.writep /\ b.writep <= Len(b.mem)

\* The array and its positions fit together, whatever grows, moves or fills it.
TypeOK ==
    /\ IsBuffer(buf)
    /\ received \in Seq(Bytes)
    /\ taken \in Seq(Bytes \cup {Junk})
    /\ aborted \in BOOLEAN

\* The data bytes of s are from + 1 .. to, each of them once and in order.
Carries(s, from, to) ==
    /\ \A i \in 1..Len(s) : IsData(s[i]) => s[i] \in (from + 1)..to
    /\ \A b \in (from + 1)..to : \E i \in 1..Len(s) : s[i] = b
    /\ \A i, j \in 1..Len(s) : IsData(s[i]) /\ IsData(s[j]) /\ i < j => s[i] < s[j]

\* Through compaction, growth and the scattered read no byte is lost, duplicated
\* or overtaken: what was consumed and what is readable are the bytes that
\* arrived, in order, possibly with junk between them.
NothingLost == Carries(taken \o Readable(buf), 0, Len(received))

\* _Length_Guard always finds or makes the room its callers rely on.
RoomIsMade == \A n \in 1..MaxBytes : Guarded(buf, n)

\* buffer.cpp:125: Read_FD reads the data of the descriptor into the buffer, so
\* what can be read is exactly what arrived.
ExactCopy == taken \o Readable(buf) = received
=============================================================================
