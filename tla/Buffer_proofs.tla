--------------------------- MODULE Buffer_proofs ---------------------------
(***************************************************************************)
(* Proofs about Buffer for any sizes and any number of bytes: what the     *)
(* operations of src/buffer.cpp do to the readable bytes, and from that    *)
(* the invariants.  TypeOK and NothingLost together are inductive.         *)
(***************************************************************************)
EXTENDS Buffer, SequenceLemmas, TLAPS

\* What a cell of the array holds.
Cell == Bytes \cup {Junk}

-----------------------------------------------------------------------------
(* The operations on a buffer.                                             *)

\* The readable bytes are those between the two positions.
LEMMA ReadableIs ==
  ASSUME NEW b, IsBuffer(b)
  PROVE  /\ Readable(b) \in Seq(Cell) /\ Len(Readable(b)) = b.writep - b.readp
         /\ b.writep - b.readp \in Nat
         /\ \A i \in 1..(b.writep - b.readp) : Readable(b)[i] = b.mem[b.readp + i]
  <1>1. /\ b.readp \in Nat /\ b.writep \in Nat /\ b.readp <= b.writep
        /\ b.mem \in Seq(Cell) /\ Len(b.mem) \in Nat /\ b.writep <= Len(b.mem)
    BY LenProperties DEF IsBuffer, Cell
  <1>2. PICK r, n \in Nat : r = b.readp /\ n = b.writep
    BY <1>1
  <1>3. \A i \in (r + 1)..n : b.mem[i] \in Cell
    BY <1>1, <1>2, ElementOfSeq
  <1>4. /\ SubSeq(b.mem, r + 1, n) \in Seq(Cell)
        /\ Len(SubSeq(b.mem, r + 1, n)) = IF r + 1 <= n THEN n - (r + 1) + 1 ELSE 0
        /\ \A i \in 1..(n - (r + 1) + 1) : SubSeq(b.mem, r + 1, n)[i] = b.mem[(r + 1) + i - 1]
    BY <1>2, <1>3, SubSeqProperties
  <1>5. \A i \in 1..(n - r) : SubSeq(b.mem, r + 1, n)[i] = b.mem[r + i]
    BY <1>2, <1>4
  <1>6. Len(SubSeq(b.mem, r + 1, n)) = n - r /\ n - r \in Nat
    BY <1>1, <1>2, <1>4
  <1> QED
    BY <1>2, <1>4, <1>5, <1>6 DEF Readable

\* std::copy changes the cells it copies to and no other.
LEMMA CopyIs ==
  ASSUME NEW mem \in Seq(Cell), NEW n \in Nat, NEW s \in Seq(Cell), n + Len(s) <= Len(mem)
  PROVE  /\ CopyTo(mem, n, s) \in Seq(Cell) /\ Len(CopyTo(mem, n, s)) = Len(mem)
         /\ \A i \in 1..Len(s) : CopyTo(mem, n, s)[n + i] = s[i]
         /\ \A i \in 1..n : CopyTo(mem, n, s)[i] = mem[i]
  <1>1. /\ Len(mem) \in Nat /\ Len(s) \in Nat
        /\ \A i \in 1..Len(mem) : mem[i] \in Cell
        /\ \A i \in 1..Len(s) : s[i] \in Cell
    BY LenProperties, ElementOfSeq
  <1> DEFINE c == CopyTo(mem, n, s)
  <1>2. \A i \in (n + 1)..(n + Len(s)) : i - n \in 1..Len(s)
    BY <1>1
  <1>3. \A i \in 1..Len(mem) :
          (IF i \in (n + 1)..(n + Len(s)) THEN s[i - n] ELSE mem[i]) \in Cell
    BY <1>1, <1>2
  <1>4. c \in [1..Len(mem) -> Cell]
    BY <1>3 DEF CopyTo
  <1>5. c \in Seq(Cell) /\ Len(c) = Len(mem)
    BY <1>1, <1>4
  <1>6. \A i \in 1..Len(mem) : c[i] = IF i \in (n + 1)..(n + Len(s)) THEN s[i - n] ELSE mem[i]
    BY DEF CopyTo
  <1> HIDE DEF c
  <1>7. ASSUME NEW i \in 1..Len(s) PROVE c[n + i] = s[i]
    <2>1. n + i \in 1..Len(mem) /\ n + i \in (n + 1)..(n + Len(s)) /\ (n + i) - n = i
      BY <1>1
    <2> QED
      BY <1>6, <2>1
  <1>8. ASSUME NEW i \in 1..n PROVE c[i] = mem[i]
    <2>1. i \in 1..Len(mem) /\ i \notin (n + 1)..(n + Len(s))
      BY <1>1
    <2> QED
      BY <1>6, <2>1
  <1> QED
    BY <1>5, <1>7, <1>8 DEF c

\* Two buffers with the same cells between their positions.
LEMMA SameReadable ==
  ASSUME NEW b, NEW c, IsBuffer(b), IsBuffer(c),
         c.writep - c.readp = b.writep - b.readp,
         \A i \in 1..(b.writep - b.readp) : c.mem[c.readp + i] = b.mem[b.readp + i]
  PROVE  Readable(c) = Readable(b)
  <1>1. PICK n \in Nat : n = b.writep - b.readp
    BY ReadableIs
  <1>2. PICK s \in Seq(Cell) : s = Readable(b)
    BY ReadableIs
  <1>3. PICK t \in Seq(Cell) : t = Readable(c)
    BY ReadableIs
  <1>4. Len(s) = n /\ \A i \in 1..n : s[i] = b.mem[b.readp + i]
    BY <1>1, <1>2, ReadableIs
  <1>5. Len(t) = n /\ \A i \in 1..n : t[i] = c.mem[c.readp + i]
    BY <1>1, <1>3, ReadableIs
  <1>6. \A i \in 1..Len(t) : t[i] = s[i]
    BY <1>1, <1>4, <1>5
  <1>7. t = s
    BY <1>4, <1>5, <1>6, SeqEqual
  <1> QED
    BY <1>2, <1>3, <1>7

\* Moving the readable bytes to the front frees what was prepared.
LEMMA CompactIs ==
  ASSUME NEW b, IsBuffer(b)
  PROVE  /\ IsBuffer(Compact(b)) /\ Readable(Compact(b)) = Readable(b)
         /\ WriteableSize(Compact(b)) = WriteableSize(b) + PreparedSize(b)
  <1>1. PICK r, n \in Nat, m \in Seq(Cell) : r = b.readp /\ n = b.writep /\ m = b.mem
    BY DEF IsBuffer, Cell
  <1>2. Len(m) \in Nat /\ r <= n /\ n <= Len(m)
    BY <1>1, LenProperties DEF IsBuffer
  <1>3. PICK s \in Seq(Cell) : s = Readable(b)
    BY ReadableIs
  <1>4. Len(s) = n - r /\ \A i \in 1..(n - r) : s[i] = m[r + i]
    BY <1>1, <1>3, ReadableIs
  <1>5. PICK c : c = CopyTo(m, 0, s)
    OBVIOUS
  <1>6. 0 + Len(s) <= Len(m) /\ n - r \in Nat
    BY <1>1, <1>2, <1>4
  <1>7. c \in Seq(Cell) /\ Len(c) = Len(m) /\ \A i \in 1..Len(s) : c[0 + i] = s[i]
    <2>1. PICK z \in Nat : z = 0
      OBVIOUS
    <2>2. /\ CopyTo(m, z, s) \in Seq(Cell) /\ Len(CopyTo(m, z, s)) = Len(m)
          /\ \A i \in 1..Len(s) : CopyTo(m, z, s)[z + i] = s[i]
      BY <1>6, <2>1, CopyIs
    <2> QED
      BY <1>5, <2>1, <2>2
  <1>8. Compact(b) = [mem |-> c, readp |-> 0, writep |-> n - r]
    BY <1>1, <1>3, <1>5 DEF Compact, ReadableSize
  <1>9. /\ Compact(b).mem = c /\ Compact(b).readp = 0 /\ Compact(b).writep = n - r
        /\ Compact(b) \in [mem : Seq(Cell), readp : Nat, writep : Nat]
    BY <1>6, <1>7, <1>8
  <1>10. IsBuffer(Compact(b))
    BY <1>1, <1>2, <1>7, <1>9 DEF IsBuffer, Cell
  <1>11. Readable(Compact(b)) = Readable(b)
    <2>1. \A i \in 1..(n - r) : c[0 + i] = m[r + i]
      BY <1>4, <1>7
    <2>2. /\ Compact(b).writep - Compact(b).readp = b.writep - b.readp
          /\ \A i \in 1..(b.writep - b.readp) :
               Compact(b).mem[Compact(b).readp + i] = b.mem[b.readp + i]
      BY <1>1, <1>9, <2>1
    <2> QED
      BY <1>10, <2>2, SameReadable
  <1>12. WriteableSize(Compact(b)) = WriteableSize(b) + PreparedSize(b)
    BY <1>1, <1>2, <1>7, <1>9 DEF WriteableSize, PreparedSize
  <1> QED
    BY <1>10, <1>11, <1>12

\* Resizing leaves the positions and the cells before them alone.
LEMMA GrowIs ==
  ASSUME NEW b, IsBuffer(b), NEW len \in Nat, WriteableSize(b) < len
  PROVE  /\ IsBuffer(Grow(b, len)) /\ Readable(Grow(b, len)) = Readable(b)
         /\ WriteableSize(Grow(b, len)) = len
  <1>1. PICK r, n \in Nat, m \in Seq(Cell) : r = b.readp /\ n = b.writep /\ m = b.mem
    BY DEF IsBuffer, Cell
  <1>2. Len(m) \in Nat /\ r <= n /\ n <= Len(m)
    BY <1>1, LenProperties DEF IsBuffer
  <1>3. PICK k \in Nat : k = len - (Len(m) - n)
    BY <1>1, <1>2 DEF WriteableSize
  <1>4. PICK j \in Seq(Cell) : j = Junks(k) /\ Len(j) = k
    <2>1. Junks(k) \in [1..k -> Cell]
      BY DEF Junks, Cell
    <2> QED
      BY <2>1
  <1>5. PICK c : c = m \o j
    OBVIOUS
  <1>6. /\ c \in Seq(Cell) /\ Len(c) = Len(m) + k
        /\ \A i \in 1..(Len(m) + k) : c[i] = IF i <= Len(m) THEN m[i] ELSE j[i - Len(m)]
    BY <1>4, <1>5, ConcatProperties, ZenonT(60)
  <1>7. \A i \in 1..Len(m) : c[i] = m[i]
    BY <1>2, <1>6
  <1>8. Grow(b, len) = [b EXCEPT !.mem = c]
    BY <1>1, <1>3, <1>4, <1>5 DEF Grow, WriteableSize
  <1>9. /\ Grow(b, len).mem = c /\ Grow(b, len).readp = r /\ Grow(b, len).writep = n
        /\ Grow(b, len) \in [mem : Seq(Cell), readp : Nat, writep : Nat]
    BY <1>1, <1>6, <1>8 DEF IsBuffer, Cell
  <1>10. IsBuffer(Grow(b, len))
    <2>1. n <= Len(c)
      BY <1>2, <1>6
    <2> QED
      BY <1>2, <1>9, <2>1 DEF IsBuffer, Cell
  <1>11. Readable(Grow(b, len)) = Readable(b)
    <2>1. \A i \in 1..(n - r) : r + i \in 1..Len(m)
      BY <1>1, <1>2
    <2>2. \A i \in 1..(n - r) : c[r + i] = m[r + i]
      BY <1>7, <2>1
    <2> QED
      BY <1>1, <1>9, <1>10, <2>2, SameReadable
  <1>12. WriteableSize(Grow(b, len)) = len
    BY <1>2, <1>3, <1>6, <1>9 DEF WriteableSize
  <1> QED
    BY <1>10, <1>11, <1>12

\* _Length_Guard makes the room that is asked for and keeps the readable bytes.
LEMMA GuardIs ==
  ASSUME NEW b, IsBuffer(b), NEW len \in Nat
  PROVE  /\ IsBuffer(LengthGuard(b, len)) /\ Readable(LengthGuard(b, len)) = Readable(b)
         /\ WriteableSize(LengthGuard(b, len)) >= len
  <1>1. WriteableSize(b) \in Nat /\ PreparedSize(b) \in Nat
    BY LenProperties DEF WriteableSize, PreparedSize, IsBuffer
  <1>2. CASE WriteableSize(b) >= len
    <2>1. LengthGuard(b, len) = b
      BY <1>1, <1>2 DEF LengthGuard
    <2> QED
      BY <1>2, <2>1
  <1>3. CASE WriteableSize(b) < len /\ WriteableSize(b) + PreparedSize(b) >= len
    <2>1. LengthGuard(b, len) = Compact(b)
      BY <1>3 DEF LengthGuard, Dilatation
    <2> QED
      BY <1>3, <2>1, CompactIs
  <1>4. CASE WriteableSize(b) < len /\ ~(WriteableSize(b) + PreparedSize(b) >= len)
    <2>1. LengthGuard(b, len) = Grow(b, len)
      BY <1>4 DEF LengthGuard, Dilatation
    <2> QED
      BY <1>4, <2>1, GrowIs
  <1> QED
    BY <1>1, <1>2, <1>3, <1>4

\* Bytes copied behind the readable ones are readable behind them.
LEMMA FilledIs ==
  ASSUME NEW g, IsBuffer(g), NEW s \in Seq(Cell), WriteableSize(g) >= Len(s), NEW h,
         h = [g EXCEPT !.mem = CopyTo(g.mem, g.writep, s), !.writep = g.writep + Len(s)]
  PROVE  IsBuffer(h) /\ Readable(h) = Readable(g) \o s
  <1>1. PICK r, n \in Nat, m \in Seq(Cell) : r = g.readp /\ n = g.writep /\ m = g.mem
    BY DEF IsBuffer, Cell
  <1>2. /\ Len(m) \in Nat /\ Len(s) \in Nat /\ r <= n /\ n <= Len(m)
        /\ n + Len(s) <= Len(m)
    <2>1. Len(m) \in Nat /\ Len(s) \in Nat /\ r <= n /\ n <= Len(m)
      BY <1>1, LenProperties DEF IsBuffer
    <2> QED
      BY <1>1, <2>1 DEF WriteableSize
  <1>3. PICK c : c = CopyTo(m, n, s)
    OBVIOUS
  <1>4. /\ c \in Seq(Cell) /\ Len(c) = Len(m)
        /\ \A i \in 1..Len(s) : c[n + i] = s[i]
        /\ \A i \in 1..n : c[i] = m[i]
    BY <1>2, <1>3, CopyIs
  <1>5. h.mem = c /\ h.readp = r /\ h.writep = n + Len(s)
    BY <1>1, <1>3 DEF IsBuffer
  <1>6. IsBuffer(h)
    <2>1. h \in [mem : Seq(Cell), readp : Nat, writep : Nat]
      <3>1. h = [g EXCEPT !.mem = c, !.writep = n + Len(s)] /\ n + Len(s) \in Nat
        BY <1>1, <1>2, <1>3
      <3> QED
        BY <1>4, <3>1 DEF IsBuffer, Cell
    <2>2. r <= n + Len(s) /\ n + Len(s) <= Len(c)
      BY <1>2, <1>4
    <2> QED
      BY <1>5, <2>1, <2>2 DEF IsBuffer, Cell
  <1>7. PICK a \in Seq(Cell) : a = Readable(g)
    BY ReadableIs
  <1>8. Len(a) = n - r /\ \A i \in 1..(n - r) : a[i] = m[r + i]
    BY <1>1, <1>7, ReadableIs
  <1>9. PICK t \in Seq(Cell) : t = Readable(h)
    BY <1>6, ReadableIs
  <1>10. /\ Len(t) = (n + Len(s)) - r
         /\ \A i \in 1..((n + Len(s)) - r) : t[i] = c[r + i]
    <2>1. PICK q \in Nat : q = h.writep - h.readp
      BY <1>6, ReadableIs
    <2>2. Len(t) = q /\ \A i \in 1..q : t[i] = h.mem[h.readp + i]
      BY <1>6, <1>9, <2>1, ReadableIs, ZenonT(60)
    <2>3. q = (n + Len(s)) - r
      BY <1>5, <2>1
    <2> QED
      BY <1>5, <2>2, <2>3
  <1>11. PICK u : u = a \o s
    OBVIOUS
  <1>12. /\ u \in Seq(Cell) /\ Len(u) = Len(a) + Len(s)
         /\ \A i \in 1..(Len(a) + Len(s)) : u[i] = IF i <= Len(a) THEN a[i] ELSE s[i - Len(a)]
    BY <1>11, ConcatProperties
  <1>13. ASSUME NEW i \in 1..Len(t) PROVE t[i] = u[i]
    <2>1. i \in 1..(Len(a) + Len(s)) /\ t[i] = c[r + i]
      BY <1>2, <1>8, <1>10
    <2>2. CASE i <= n - r
      <3>1. i \in 1..(n - r) /\ r + i \in 1..n
        BY <1>2, <2>2
      <3>2. c[r + i] = m[r + i] /\ a[i] = m[r + i]
        <4>1. PICK j \in 1..n : j = r + i
          BY <3>1
        <4>2. c[j] = m[j]
          BY <1>4
        <4>3. a[i] = m[r + i]
          BY <1>8, <3>1
        <4> QED
          BY <4>1, <4>2, <4>3
      <3>3. u[i] = a[i]
        BY <1>8, <1>12, <2>1, <2>2
      <3> QED
        BY <2>1, <3>2, <3>3
    <2>3. CASE i > n - r
      <3>1. i \in Nat /\ i <= (n - r) + Len(s) /\ ~(i <= n - r)
        BY <1>2, <1>8, <2>1, <2>3
      <3>2. PICK j \in 1..Len(s) : j = i - (n - r) /\ r + i = n + j
        BY <1>2, <3>1
      <3>3. c[n + j] = s[j]
        BY <1>4
      <3> QED
        BY <1>8, <1>12, <2>1, <3>1, <3>2, <3>3
    <2> QED
      BY <1>2, <2>2, <2>3
  <1>14. Len(t) = Len(u)
    BY <1>2, <1>8, <1>10, <1>12
  <1>15. t = u
    BY <1>12, <1>13, <1>14, SeqEqual
  <1> QED
    BY <1>6, <1>7, <1>9, <1>11, <1>15

\* Add puts its bytes behind the readable ones, whether it has to make room or not.
LEMMA AddIs ==
  ASSUME NEW b, IsBuffer(b), NEW s \in Seq(Cell)
  PROVE  IsBuffer(AddTo(b, s)) /\ Readable(AddTo(b, s)) = Readable(b) \o s
  <1>1. PICK g : g = LengthGuard(b, Len(s))
    OBVIOUS
  <1>2. IsBuffer(g) /\ Readable(g) = Readable(b) /\ WriteableSize(g) >= Len(s)
    BY <1>1, GuardIs, LenProperties
  <1>3. AddTo(b, s) =
          [g EXCEPT !.mem = CopyTo(g.mem, g.writep, s), !.writep = g.writep + Len(s)]
    BY <1>1, <1>2 DEF AddTo, IsBuffer
  <1>4. IsBuffer(AddTo(b, s)) /\ Readable(AddTo(b, s)) = Readable(g) \o s
    BY <1>2, <1>3, FilledIs
  <1> QED
    BY <1>2, <1>4

-----------------------------------------------------------------------------
(* Sequences that carry the bytes of an interval.                          *)

\* One behind the other, two such sequences carry both intervals.
LEMMA CarriesBoth ==
  ASSUME NEW s \in Seq(Cell), NEW t \in Seq(Cell),
         NEW from \in Nat, NEW mid \in Nat, NEW to \in Nat, from <= mid, mid <= to,
         Carries(s, from, mid), Carries(t, mid, to)
  PROVE  s \o t \in Seq(Cell) /\ Carries(s \o t, from, to)
  <1>1. PICK u : u = s \o t
    OBVIOUS
  <1>2. PICK k, l \in Nat : k = Len(s) /\ l = Len(t)
    BY LenProperties
  <1>3. /\ u \in Seq(Cell) /\ Len(u) = k + l
        /\ \A i \in 1..(k + l) : u[i] = IF i <= k THEN s[i] ELSE t[i - k]
    BY <1>1, <1>2, ConcatProperties
  <1>4. \A i \in 1..k : i \in 1..(k + l) /\ u[i] = s[i]
    BY <1>3
  <1>5. \A i \in 1..l : k + i \in 1..(k + l) /\ u[k + i] = t[i]
    <2>1. ASSUME NEW i \in 1..l PROVE u[k + i] = t[i]
      <3>1. PICK j \in 1..(k + l) : j = k + i /\ ~(j <= k) /\ j - k = i
        OBVIOUS
      <3> QED
        BY <1>3, <3>1
    <2> QED
      BY <2>1
  <1>6. \A i \in 1..(k + l) : i \in 1..k \/ \E j \in 1..l : i = k + j
    <2>1. ASSUME NEW i \in 1..(k + l), i > k PROVE i - k \in 1..l /\ i = k + (i - k)
      BY <2>1
    <2> QED
      BY <2>1
  <1>7. ASSUME NEW i \in 1..(k + l), IsData(u[i]) PROVE u[i] \in (from + 1)..to
    <2>1. CASE i \in 1..k
      <3>1. u[i] = s[i] /\ s[i] \in (from + 1)..mid
        BY <1>2, <1>4, <1>7, <2>1 DEF Carries
      <3> QED
        BY <3>1
    <2>2. ASSUME NEW j \in 1..l, i = k + j PROVE u[i] \in (from + 1)..to
      <3>1. u[i] = t[j] /\ t[j] \in (mid + 1)..to
        BY <1>2, <1>5, <1>7, <2>2 DEF Carries
      <3> QED
        BY <3>1
    <2> QED
      BY <1>6, <2>1, <2>2
  <1>8. ASSUME NEW b \in (from + 1)..to PROVE \E i \in 1..(k + l) : u[i] = b
    <2>1. CASE b \in (from + 1)..mid
      <3>1. PICK i \in 1..k : s[i] = b
        BY <1>2, <2>1 DEF Carries
      <3> QED
        BY <1>4, <3>1
    <2>2. CASE b \in (mid + 1)..to
      <3>1. PICK i \in 1..l : t[i] = b
        BY <1>2, <2>2 DEF Carries
      <3> QED
        BY <1>5, <3>1
    <2> QED
      BY <2>1, <2>2
  <1>9. ASSUME NEW i \in 1..(k + l), NEW j \in 1..(k + l), IsData(u[i]), IsData(u[j]), i < j
        PROVE  u[i] < u[j]
    <2>1. CASE i \in 1..k /\ j \in 1..k
      <3>1. u[i] = s[i] /\ u[j] = s[j]
        BY <1>4, <2>1
      <3> QED
        BY <1>2, <1>9, <2>1, <3>1 DEF Carries
    <2>2. ASSUME i \in 1..k, NEW jj \in 1..l, j = k + jj PROVE u[i] < u[j]
      <3>1. u[i] = s[i] /\ u[j] = t[jj]
        BY <1>4, <1>5, <2>2
      <3>2. u[i] \in (from + 1)..mid
        BY <1>2, <1>9, <2>2, <3>1 DEF Carries
      <3>3. u[j] \in (mid + 1)..to
        BY <1>2, <1>9, <2>2, <3>1 DEF Carries
      <3> QED
        BY <3>2, <3>3
    <2>3. ASSUME NEW ii \in 1..l, i = k + ii, NEW jj \in 1..l, j = k + jj PROVE u[i] < u[j]
      <3>1. u[i] = t[ii] /\ u[j] = t[jj] /\ ii < jj
        BY <1>5, <1>9, <2>3, SMTT(60)
      <3> QED
        BY <1>2, <1>9, <3>1 DEF Carries
    <2>4. j \in 1..k => i \in 1..k
      BY <1>9
    <2> QED
      BY <1>6, <2>1, <2>2, <2>3, <2>4
  <1>10. Carries(u, from, to)
    BY <1>3, <1>7, <1>8, <1>9 DEF Carries
  <1> QED
    BY <1>1, <1>3, <1>10

\* The bytes from + 1 .. from + q, padded with junk to a length of p.
Padded(s, from, q, p) ==
    /\ s \in Seq(Cell) /\ Len(s) = p
    /\ \A i \in 1..p : s[i] = IF i <= q THEN from + i ELSE Junk

\* Padding is not data.
LEMMA CarriesPadded ==
  ASSUME NEW from \in Nat, NEW p \in Nat, NEW q \in 0..p, NEW s, Padded(s, from, q, p)
  PROVE  Carries(s, from, from + q)
  <1>1. Len(s) = p
    BY DEF Padded
  <1>2. ASSUME NEW i \in 1..p, IsData(s[i]) PROVE i <= q /\ s[i] = from + i
    BY <1>2 DEF IsData, Padded
  <1>3. ASSUME NEW i \in 1..p, IsData(s[i]) PROVE s[i] \in (from + 1)..(from + q)
    BY <1>2, <1>3
  <1>4. ASSUME NEW b \in (from + 1)..(from + q) PROVE \E i \in 1..p : s[i] = b
    <2>1. PICK i \in 1..p : i = b - from /\ i <= q /\ from + i = b
      OBVIOUS
    <2> QED
      BY <2>1 DEF Padded
  <1>5. ASSUME NEW i \in 1..p, NEW j \in 1..p, IsData(s[i]), IsData(s[j]), i < j
        PROVE  s[i] < s[j]
    <2>1. s[i] = from + i /\ s[j] = from + j
      BY <1>2, <1>5
    <2> QED
      BY <1>5, <2>1
  <1> QED
    BY <1>1, <1>3, <1>4, <1>5 DEF Carries

\* What a stack buffer of Read_FD hands to Add: of the bytes from + 1 .. from + n
\* that arrived, those behind the first k and at most Side of them, then junk.
LEMMA StackIs ==
  ASSUME NEW from \in Nat, NEW n \in Nat, from + n <= MaxBytes,
         NEW s, Padded(s, from, n, n), NEW k \in Nat, NEW p \in Nat, NEW q \in 0..p,
         q = IF n <= k THEN 0 ELSE IF n < k + Side THEN n - k ELSE Side
  PROVE  Padded(StackBytes(Scattered(s, k), p), from + k, q, p)
  <1>1. PICK c \in Nat : c = IF n < k + Side THEN n ELSE k + Side
    BY BufferAssumption
  <1>2. PICK x : x = SubSeq(s, k + 1, c)
    OBVIOUS
  <1>3. c <= n
    BY <1>1, BufferAssumption
  <1>4. \A i \in (k + 1)..c : s[i] = from + i /\ s[i] \in Cell
    <2>1. ASSUME NEW i \in (k + 1)..c PROVE i \in 1..n /\ i <= n /\ from + i \in 1..MaxBytes
      BY <1>3, BufferAssumption
    <2> QED
      BY <2>1 DEF Padded, Cell, Bytes
  <1>5. /\ x \in Seq(Cell) /\ Len(x) = IF k + 1 <= c THEN c - (k + 1) + 1 ELSE 0
        /\ \A i \in 1..(c - (k + 1) + 1) : x[i] = s[(k + 1) + i - 1]
    BY <1>2, <1>4, SubSeqProperties
  <1>6. Len(x) = q
    BY <1>1, <1>5, BufferAssumption
  <1>7. \A i \in 1..q : x[i] = (from + k) + i
    <2>1. ASSUME NEW i \in 1..q
          PROVE  i \in 1..(c - (k + 1) + 1) /\ k + i \in (k + 1)..c /\ (k + 1) + i - 1 = k + i
      BY <1>1, <1>5, <1>6
    <2> QED
      BY <1>4, <1>5, <2>1
  <1>8. Scattered(s, k) = x
    BY <1>1, <1>2 DEF Scattered, Padded
  <1>9. PICK y : y = StackBytes(x, p)
    OBVIOUS
  <1>10. y = [i \in 1..p |-> IF i <= q THEN x[i] ELSE Junk]
    BY <1>6, <1>9 DEF StackBytes
  <1>11. \A i \in 1..p : y[i] = IF i <= q THEN (from + k) + i ELSE Junk
    BY <1>7, <1>10
  <1>12. y \in [1..p -> Cell]
    <2>1. \A i \in 1..p : (IF i <= q THEN x[i] ELSE Junk) \in Cell
      BY <1>5, <1>6, ElementOfSeq DEF Cell
    <2> QED
      BY <1>10, <2>1
  <1>13. y \in Seq(Cell) /\ Len(y) = p
    BY <1>12
  <1> QED
    BY <1>8, <1>9, <1>11, <1>13 DEF Padded

\* Bytes put behind others one part after the other, or both parts at once.
LEMMA Regroup ==
  ASSUME NEW s \in Seq(Cell), NEW t \in Seq(Cell), NEW u \in Seq(Cell),
         NEW tu, tu = t \o u
  PROVE  (s \o t) \o u = s \o tu
  <1>1. (s \o t) \o u = s \o (t \o u)
    BY ConcatAssociative
  <1> QED
    BY <1>1, Zenon

\* Whatever Read_FD does with the bytes that arrive, they are readable behind the
\* others, in order, perhaps with junk between and behind them.
LEMMA ReadFDIs ==
  ASSUME NEW b, IsBuffer(b), NEW from \in Nat, NEW n \in Nat, from + n <= MaxBytes,
         NEW s, Padded(s, from, n, n), n <= WriteableSize(b) + 2 * Side
  PROVE  /\ IsBuffer(ReadFD(b, s))
         /\ \E x \in Seq(Cell) : /\ Readable(ReadFD(b, s)) = Readable(b) \o x
                                 /\ Carries(x, from, from + n)
  <1>1. PICK room \in Nat : room = WriteableSize(b) /\ room = Len(b.mem) - b.writep
    BY LenProperties DEF WriteableSize, IsBuffer
  <1>2. s \in Seq(Cell) /\ Len(s) = n
    BY DEF Padded
  <1>3. CASE n <= room
    <2>1. PICK h : h = [b EXCEPT !.mem = CopyTo(b.mem, b.writep, s),
                                 !.writep = b.writep + Len(s)]
      OBVIOUS
    <2>2. ReadFD(b, s) = h
      BY <1>1, <1>2, <1>3, <2>1 DEF ReadFD, IsBuffer
    <2>3. IsBuffer(h) /\ Readable(h) = Readable(b) \o s
      BY <1>1, <1>2, <1>3, <2>1, FilledIs
    <2>4. Carries(s, from, from + n)
      BY CarriesPadded
    <2> QED
      BY <1>2, <2>2, <2>3, <2>4
  <1>4. CASE n > room
    <2>1. PICK over \in Nat : over = n - room /\ over = Len(s) - WriteableSize(b)
      BY <1>1, <1>2, <1>4
    <2>2. PICK x0 : x0 = SubSeq(s, 1, room)
      OBVIOUS
    <2>3. Padded(x0, from, room, room) /\ Carries(x0, from, from + room)
      <3>1. \A i \in 1..room : i \in 1..n /\ s[i] \in Cell /\ s[i] = from + i
        BY <1>2, <1>4, ElementOfSeq DEF Padded
      <3>2. x0 \in Seq(Cell) /\ Len(x0) = room /\ \A i \in 1..room : x0[i] = s[i]
        BY <1>2, <1>4, <2>2, PrefixIs
      <3>3. Padded(x0, from, room, room)
        BY <3>1, <3>2 DEF Padded
      <3> QED
        BY <3>3, CarriesPadded
    <2>4. PICK q1, q2 \in 0..over :
            /\ q1 = (IF n <= room THEN 0 ELSE IF n < room + Side THEN n - room ELSE Side)
            /\ q2 = (IF n <= room + Side THEN 0
                     ELSE IF n < (room + Side) + Side THEN n - (room + Side) ELSE Side)
            /\ q1 + q2 = over
            /\ q2 # 0 => q1 = Side
      <3>1. PICK d \in Nat : d = Side
        BY BufferAssumption
      <3>2. /\ n \in Nat /\ room \in Nat /\ n > room /\ n <= room + 2 * d
            /\ over \in Nat /\ over = n - room
        BY <1>1, <1>4, <2>1, <3>1
      <3>3. CASE n <= room + d
        <4>1. over \in 0..over /\ 0 \in 0..over /\ over + 0 = over
          BY <3>2
        <4>2. over = IF n <= room THEN 0 ELSE IF n < room + d THEN n - room ELSE d
          BY <3>2, <3>3
        <4> QED
          BY <3>1, <3>3, <4>1, <4>2
      <3>4. CASE n > room + d
        <4>1. PICK q \in Nat : q = n - (room + d)
          BY <3>2, <3>4
        <4>2. d \in 0..over /\ q \in 0..over /\ d + q = over
          BY <3>2, <3>4, <4>1
        <4>3. d = IF n <= room THEN 0 ELSE IF n < room + d THEN n - room ELSE d
          BY <3>2, <3>4
        <4>4. q = IF n <= room + d THEN 0
                  ELSE IF n < (room + d) + d THEN n - (room + d) ELSE d
          BY <3>2, <3>4, <4>1
        <4> QED
          BY <3>1, <4>2, <4>3, <4>4
      <3> QED
        BY <3>1, <3>2, <3>3, <3>4
    <2>5. q1 \in Nat /\ q2 \in Nat /\ q1 + q2 = over
      <3>1. \A q \in 0..over : q \in Nat
        BY <2>1
      <3> QED
        BY <2>4, <3>1
    <2>6. PICK low \in Nat, mid \in Nat, high \in Nat :
            low = from + room /\ mid = low + q1 /\ high = from + n
      BY <2>5
    <2>7. high = mid + q2 /\ from <= low /\ low <= mid /\ from <= mid /\ mid <= high
      <3>1. n = room + over
        BY <1>4, <2>1
      <3> QED
        BY <2>5, <2>6, <3>1
    <2>8. PICK x1, x2 : /\ x1 = StackBytes(Scattered(s, room), over)
                        /\ x2 = StackBytes(Scattered(s, room + Side), over)
      OBVIOUS
    <2>9. Padded(x1, low, q1, over)
      BY <2>4, <2>8, <2>6, StackIs
    <2>10. Padded(x2, from + (room + Side), q2, over)
      BY <2>4, <2>8, StackIs, BufferAssumption
    <2>11. Carries(x1, low, mid)
      BY <2>5, <2>6, <2>4, <2>9, CarriesPadded
    <2>12. Carries(x2, mid, high)
      <3>1. CASE q2 # 0
        <4>1. from + (room + Side) = mid
          BY <2>6, <2>4, <3>1, BufferAssumption
        <4>2. Padded(x2, mid, q2, over)
          BY <2>10, <4>1
        <4>3. Carries(x2, mid, mid + q2)
          BY <2>5, <2>4, <4>2, CarriesPadded
        <4> QED
          BY <2>7, <4>3
      <3>2. CASE q2 = 0
        <4>1. \A i \in 1..over : ~IsData(x2[i])
          BY <2>10, <3>2 DEF Padded, IsData
        <4>2. mid = high
          BY <2>7, <3>2
        <4>3. Len(x2) = over
          BY <2>10 DEF Padded
        <4> QED
          BY <4>1, <4>2, <4>3 DEF Carries
      <3> QED
        BY <3>1, <3>2
    <2>13. x0 \in Seq(Cell) /\ x1 \in Seq(Cell) /\ x2 \in Seq(Cell) /\ Len(x0) = room
      BY <2>3, <2>9, <2>10 DEF Padded
    <2>14. PICK x01 \in Seq(Cell) : x01 = x0 \o x1
      BY <2>13, ConcatProperties
    <2>15. Carries(x01, from, mid)
      BY <2>7, <2>6, <2>3, <2>11, <2>13, <2>14, CarriesBoth
    <2>16. PICK x \in Seq(Cell) : x = x01 \o x2
      BY <2>13, <2>14, ConcatProperties
    <2>17. Carries(x, from, high)
      BY <2>7, <2>12, <2>13, <2>15, <2>16, CarriesBoth
    <2>18. PICK full : full = [b EXCEPT !.mem = CopyTo(b.mem, b.writep, x0),
                                        !.writep = b.writep + Len(x0)]
      OBVIOUS
    <2>19. IsBuffer(full) /\ Readable(full) = Readable(b) \o x0
      <3>1. WriteableSize(b) >= Len(x0)
        BY <1>1, <2>13
      <3> QED
        BY <2>13, <2>18, <3>1, FilledIs
    <2>20. PICK one : one = AddTo(full, x1)
      OBVIOUS
    <2>21. IsBuffer(one) /\ Readable(one) = Readable(full) \o x1
      BY <2>13, <2>19, <2>20, AddIs
    <2>22. PICK two : two = AddTo(one, x2)
      OBVIOUS
    <2>23. IsBuffer(two) /\ Readable(two) = Readable(one) \o x2
      BY <2>13, <2>21, <2>22, AddIs
    <2>24. ReadFD(b, s) = two
      <3>1. full = [b EXCEPT !.mem = CopyTo(b.mem, b.writep, SubSeq(s, 1, WriteableSize(b))),
                             !.writep = Len(b.mem)]
        <4>1. b.writep + Len(x0) = Len(b.mem)
          BY <1>1, <2>13, LenProperties DEF IsBuffer
        <4>2. x0 = SubSeq(s, 1, WriteableSize(b))
          BY <1>1, <2>2, Zenon
        <4> QED
          BY <2>18, <4>1, <4>2, Zenon
      <3>2. ~(Len(s) <= WriteableSize(b))
        BY <1>1, <1>2, <1>4
      <3> QED
        BY <1>1, <2>1, <2>8, <2>20, <2>22, <3>1, <3>2 DEF ReadFD, IsBuffer
    <2>25. Readable(two) = Readable(b) \o x
      <3>1. PICK r \in Seq(Cell) : r = Readable(b)
        BY ReadableIs
      <3>2. (r \o x0) \o x1 = r \o x01
        BY <2>13, <2>14, Regroup, SMTT(60)
      <3>3. (r \o x01) \o x2 = r \o x
        <4>1. r \in Seq(Cell) /\ x01 \in Seq(Cell) /\ x2 \in Seq(Cell) /\ x = x01 \o x2
          BY <2>13, <2>14, <2>16, <3>1
        <4> QED
          BY <4>1, Regroup, SMTT(60)
      <3> QED
        BY <2>19, <2>21, <2>23, <3>1, <3>2, <3>3
    <2> QED
      BY <2>6, <2>17, <2>23, <2>24, <2>25
  <1> QED
    BY <1>1, <1>3, <1>4

-----------------------------------------------------------------------------
(* The invariant.                                                          *)

\* The bytes that arrive continue the ones that arrived before.
LEMMA ComingIs ==
  ASSUME received \in Seq(Bytes), NEW n \in Nat, Len(received) + n <= MaxBytes
  PROVE  /\ Padded(Coming(n), Len(received), n, n)
         /\ received \o Coming(n) \in Seq(Bytes)
         /\ Len(received \o Coming(n)) = Len(received) + n
  <1>1. PICK k \in Nat : k = Len(received)
    BY LenProperties
  <1>2. PICK s : s = Coming(n)
    OBVIOUS
  <1>3. s = [i \in 1..n |-> k + i]
    BY <1>1, <1>2 DEF Coming
  <1>4. \A i \in 1..n : k + i \in Bytes
    BY <1>1, BufferAssumption DEF Bytes
  <1>5. s \in [1..n -> Bytes]
    BY <1>3, <1>4
  <1>6. s \in Seq(Bytes) /\ Len(s) = n
    BY <1>5
  <1>7. s \in Seq(Cell)
    <2>1. s \in [1..n -> Cell]
      BY <1>5 DEF Cell
    <2> QED
      BY <2>1
  <1>8. Padded(s, k, n, n)
    BY <1>3, <1>6, <1>7 DEF Padded
  <1>9. received \o s \in Seq(Bytes) /\ Len(received \o s) = Len(received) + Len(s)
    BY <1>6, ConcatProperties
  <1> QED
    BY <1>1, <1>2, <1>6, <1>8, <1>9

\* Data that continues the readable bytes continues all there was.
LEMMA CarriesMore ==
  ASSUME NEW t \in Seq(Cell), NEW r \in Seq(Cell), NEW x \in Seq(Cell), NEW rx,
         rx = r \o x, NEW mid \in Nat, NEW to \in Nat, mid <= to,
         Carries(t \o r, 0, mid), Carries(x, mid, to)
  PROVE  Carries(t \o rx, 0, to)
  <1>1. PICK z \in Nat : z = 0
    OBVIOUS
  <1>2. PICK tr \in Seq(Cell) : tr = t \o r
    BY ConcatProperties
  <1>3. Carries(tr, z, mid) /\ z <= mid
    BY <1>1, <1>2
  <1>4. Carries(tr \o x, z, to)
    BY <1>2, <1>3, CarriesBoth
  <1>5. (t \o r) \o x = t \o rx
    BY Regroup, SMTT(60)
  <1> QED
    BY <1>1, <1>2, <1>4, <1>5

\* Moving the read position cuts the readable bytes in two.
LEMMA ConsumedIs ==
  ASSUME NEW b, IsBuffer(b), NEW n \in Nat, n <= ReadableSize(b), NEW c,
         c = [b EXCEPT !.readp = b.readp + n]
  PROVE  /\ IsBuffer(c) /\ SubSeq(Readable(b), 1, n) \in Seq(Cell)
         /\ Readable(b) = SubSeq(Readable(b), 1, n) \o Readable(c)
  <1>1. PICK rp, wp \in Nat, m \in Seq(Cell) : /\ rp = b.readp /\ wp = b.writep /\ m = b.mem
    BY DEF IsBuffer, Cell
  <1>2. rp + n <= wp /\ rp <= wp
    BY <1>1 DEF ReadableSize, IsBuffer
  <1>3. c.readp = rp + n /\ c.writep = wp /\ c.mem = m
    BY <1>1 DEF IsBuffer
  <1>4. IsBuffer(c)
    BY <1>1, <1>2, <1>3 DEF IsBuffer, Cell
  <1>5. PICK r, v \in Seq(Cell) : r = Readable(b) /\ v = Readable(c)
    BY <1>4, ReadableIs
  <1>6. PICK k, l \in Nat : k = wp - rp /\ l = wp - (rp + n)
    BY <1>2
  <1>7. k = n + l /\ n <= k
    BY <1>6
  <1>8. Len(r) = k /\ \A i \in 1..k : r[i] = m[rp + i]
    BY <1>1, <1>5, <1>6, ReadableIs
  <1>9. Len(v) = l /\ \A i \in 1..l : v[i] = m[(rp + n) + i]
    <2>1. Len(v) = c.writep - c.readp
          /\ \A i \in 1..(c.writep - c.readp) : v[i] = c.mem[c.readp + i]
      BY <1>4, <1>5, ReadableIs
    <2>2. c.writep - c.readp = l
      BY <1>3, <1>6
    <2> QED
      BY <1>3, <2>1, <2>2
  <1>10. PICK u : u = SubSeq(r, 1, n)
    OBVIOUS
  <1>11. u \in Seq(Cell) /\ Len(u) = n /\ \A i \in 1..n : u[i] = r[i]
    BY <1>5, <1>7, <1>8, <1>10, PrefixIs
  <1>12. PICK w \in Seq(Cell) : w = u \o v
    BY <1>5, <1>11, ConcatProperties
  <1>13. /\ Len(w) = k
         /\ \A i \in 1..k : w[i] = IF i <= n THEN u[i] ELSE v[i - n]
    <2>1. /\ Len(w) = Len(u) + Len(v)
          /\ \A i \in 1..(Len(u) + Len(v)) : w[i] = IF i <= Len(u) THEN u[i] ELSE v[i - Len(u)]
      BY <1>5, <1>11, <1>12, ConcatProperties, SMTT(60)
    <2> QED
      BY <1>7, <1>9, <1>11, <2>1
  <1>14. ASSUME NEW i \in 1..k PROVE w[i] = r[i]
    <2>1. CASE i <= n
      BY <1>11, <1>13, <2>1
    <2>2. CASE i > n
      <3>1. i - n \in 1..l /\ (rp + n) + (i - n) = rp + i
        BY <1>7, <2>2
      <3>2. v[i - n] = m[rp + i]
        BY <1>9, <3>1
      <3> QED
        BY <1>8, <1>13, <2>2, <3>2
    <2> QED
      BY <2>1, <2>2
  <1>15. w = r
    BY <1>5, <1>8, <1>12, <1>13, <1>14, SeqEqual
  <1> QED
    BY <1>4, <1>5, <1>10, <1>11, <1>12, <1>15

\* What every operation keeps: the positions fit the array, and the readable
\* bytes continue the ones that were consumed.
BufferInv == TypeOK /\ NothingLost

\* The empty buffer of the constructor.
LEMMA InvInit == Init => BufferInv
  <1> SUFFICES ASSUME Init PROVE BufferInv
    OBVIOUS
  <1>1. buf.mem = Junks(InitSize) /\ buf.readp = 0 /\ buf.writep = 0
        /\ received = <<>> /\ taken = <<>>
    BY DEF Init
  <1>2. Junks(InitSize) \in Seq(Cell) /\ Len(Junks(InitSize)) = InitSize
    <2>1. Junks(InitSize) \in [1..InitSize -> Cell]
      BY DEF Junks, Cell
    <2> QED
      BY <2>1, BufferAssumption
  <1>3. IsBuffer(buf)
    BY <1>2, BufferAssumption DEF Init, IsBuffer, Cell
  <1>4. TypeOK
    <2>1. aborted \in BOOLEAN
      BY Zenon DEF Init
    <2> QED
      BY <1>1, <1>3, <2>1 DEF TypeOK
  <1>5. PICK r \in Seq(Cell) : r = Readable(buf) /\ Len(r) = 0
    BY <1>1, <1>3, ReadableIs
  <1>6. taken \o r = <<>>
    <2>1. r = <<>>
      BY <1>5, EmptySeq
    <2> QED
      BY <1>1, <2>1
  <1>7. Carries(<<>>, 0, 0)
    BY DEF Carries
  <1> QED
    BY <1>1, <1>4, <1>5, <1>6, <1>7 DEF BufferInv, NothingLost

\* Facts about a buffer that more bytes were put into.
LEMMA MoreInv ==
  ASSUME TypeOK, NothingLost, NEW n \in Nat, Arrive(n), taken' = taken,
         aborted' \in BOOLEAN, IsBuffer(buf'), NEW x \in Seq(Cell),
         Readable(buf') = Readable(buf) \o x, Carries(x, Len(received), Len(received) + n)
  PROVE  TypeOK' /\ NothingLost'
  <1>1. PICK k \in Nat : k = Len(received)
    BY LenProperties DEF TypeOK
  <1>2. received' = received \o Coming(n) /\ Len(received) + n <= MaxBytes
    BY DEF Arrive, Coming
  <1>3. received' \in Seq(Bytes) /\ Len(received') = k + n
    BY <1>1, <1>2, ComingIs DEF TypeOK
  <1>4. TypeOK'
    BY <1>3 DEF TypeOK
  <1>5. PICK t \in Seq(Cell) : t = taken
    BY DEF TypeOK, Cell
  <1>6. PICK r \in Seq(Cell) : r = Readable(buf)
    BY ReadableIs DEF TypeOK
  <1>7. PICK rx : rx = r \o x
    OBVIOUS
  <1>8. PICK to \in Nat : to = k + n /\ k <= to
    OBVIOUS
  <1>9. Carries(t \o rx, 0, to)
    BY <1>1, <1>5, <1>6, <1>7, <1>8, CarriesMore DEF NothingLost
  <1>10. NothingLost'
    BY <1>3, <1>5, <1>6, <1>7, <1>9, <1>8 DEF NothingLost
  <1> QED
    BY <1>4, <1>10

\* Add, whether or not the array has to move or grow.
LEMMA AddInv ==
  ASSUME BufferInv, NEW n \in Nat, Add(n)
  PROVE  BufferInv'
  <1>1. PICK k \in Nat : k = Len(received)
    BY LenProperties DEF BufferInv, TypeOK
  <1>2. k + n <= MaxBytes /\ Arrive(n) /\ taken' = taken
    BY <1>1 DEF Add, Arrive
  <1>3. PICK s : s = Coming(n) /\ Padded(s, k, n, n)
    BY <1>1, <1>2, ComingIs DEF BufferInv, TypeOK
  <1>4. Guarded(buf, n)
    BY GuardIs DEF BufferInv, TypeOK, Guarded
  <1>5. buf' = AddTo(buf, s)
    BY <1>3, <1>4 DEF Add
  <1>6. s \in Seq(Cell) /\ Carries(s, k, k + n)
    BY <1>3, CarriesPadded DEF Padded
  <1>7. IsBuffer(buf') /\ Readable(buf') = Readable(buf) \o s
    BY <1>5, <1>6, AddIs DEF BufferInv, TypeOK
  <1>8. aborted' \in BOOLEAN
    BY Zenon DEF Add
  <1> QED
    BY <1>1, <1>2, <1>6, <1>7, <1>8, MoreInv DEF BufferInv

\* Read_FD, whether the bytes fit or are scattered over the three areas.
LEMMA ReadFDInv ==
  ASSUME BufferInv, NEW n \in Nat, Read_FD(n)
  PROVE  BufferInv'
  <1>1. PICK k \in Nat : k = Len(received)
    BY LenProperties DEF BufferInv, TypeOK
  <1>2. k + n <= MaxBytes /\ Arrive(n) /\ taken' = taken /\ n <= WriteableSize(buf) + 2 * Side
    BY <1>1 DEF Read_FD, Arrive
  <1>3. PICK s : s = Coming(n) /\ Padded(s, k, n, n)
    BY <1>1, <1>2, ComingIs DEF BufferInv, TypeOK
  <1>4. buf' = ReadFD(buf, s)
    BY <1>3 DEF Read_FD
  <1>5. IsBuffer(buf') /\ \E x \in Seq(Cell) : /\ Readable(buf') = Readable(buf) \o x
                                               /\ Carries(x, k, k + n)
    BY <1>2, <1>3, <1>4, ReadFDIs DEF BufferInv, TypeOK
  <1>6. PICK x \in Seq(Cell) : Readable(buf') = Readable(buf) \o x /\ Carries(x, k, k + n)
    BY <1>5
  <1>7. aborted' \in BOOLEAN
    BY Zenon DEF Read_FD, BufferInv, TypeOK
  <1> QED
    BY <1>1, <1>2, <1>5, <1>6, <1>7, MoreInv DEF BufferInv

\* Update_Readp, also when the assertion fails.
LEMMA UpdateInv ==
  ASSUME BufferInv, NEW n \in Nat, Update_Readp(n)
  PROVE  BufferInv'
  <1>1. aborted' \in BOOLEAN
    BY Zenon DEF Update_Readp, BufferInv, TypeOK
  <1>2. received' = received
    BY DEF Update_Readp
  <1>3. CASE n > ReadableSize(buf)
    <2>1. buf' = buf /\ taken' = taken
      <3>1. ReadableSize(buf) \in Int
        BY DEF BufferInv, TypeOK, IsBuffer, ReadableSize
      <3> QED
        BY <1>3, <3>1 DEF Update_Readp
    <2> QED
      BY <1>1, <1>2, <2>1 DEF BufferInv, TypeOK, NothingLost
  <1>4. CASE n <= ReadableSize(buf)
    <2>1. buf' = [buf EXCEPT !.readp = buf.readp + n]
          /\ taken' = taken \o SubSeq(Readable(buf), 1, n)
      BY <1>4 DEF Update_Readp
    <2>2. PICK u, v, r : u = SubSeq(Readable(buf), 1, n) /\ v = Readable(buf')
                         /\ r = Readable(buf)
      OBVIOUS
    <2>3. IsBuffer(buf') /\ u \in Seq(Cell) /\ r = u \o v
      BY <1>4, <2>1, <2>2, ConsumedIs DEF BufferInv, TypeOK
    <2>4. v \in Seq(Cell)
      BY <2>2, <2>3, ReadableIs
    <2>5. PICK t \in Seq(Cell) : t = taken
      BY DEF BufferInv, TypeOK, Cell
    <2>6. (t \o u) \o v = t \o r
      BY <2>3, <2>4, <2>5, Regroup
    <2>7. t \o u \in Seq(Cell)
      BY <2>3, <2>5, ConcatProperties
    <2>8. TypeOK'
      BY <1>1, <1>2, <2>1, <2>2, <2>3, <2>5, <2>7 DEF BufferInv, TypeOK, Cell
    <2>9. taken' \o Readable(buf') = taken \o Readable(buf)
      BY <2>1, <2>2, <2>5, <2>6
    <2> QED
      BY <1>2, <2>8, <2>9 DEF BufferInv, NothingLost
  <1> QED
    BY <1>3, <1>4 DEF BufferInv, TypeOK, IsBuffer, ReadableSize

\* Release_All_Buff counts what it drops as consumed and keeps the size.
LEMMA ReleaseInv ==
  ASSUME BufferInv, Release_All_Buff
  PROVE  BufferInv'
  <1>1. aborted' \in BOOLEAN
    BY Zenon DEF Release_All_Buff, BufferInv, TypeOK
  <1>2. PICK n \in Nat : n = Len(buf.mem)
    BY LenProperties DEF BufferInv, TypeOK, IsBuffer
  <1>3. Junks(n) \in Seq(Cell) /\ Len(Junks(n)) = n
    <2>1. Junks(n) \in [1..n -> Cell]
      BY DEF Junks, Cell
    <2> QED
      BY <2>1
  <1>4. buf' = [mem |-> Junks(n), readp |-> 0, writep |-> 0]
        /\ taken' = taken \o Readable(buf) /\ received' = received
    BY <1>2 DEF Release_All_Buff, ReleaseAll
  <1>5. IsBuffer(buf')
    BY <1>3, <1>4 DEF IsBuffer, Cell
  <1>6. PICK tr \in Seq(Cell) : tr = taken \o Readable(buf)
    BY ReadableIs, ConcatProperties DEF BufferInv, TypeOK, Cell
  <1>7. TypeOK'
    BY <1>1, <1>4, <1>5, <1>6 DEF BufferInv, TypeOK, Cell
  <1>8. PICK v \in Seq(Cell) : v = Readable(buf') /\ Len(v) = 0
    BY <1>4, <1>5, ReadableIs
  <1>9. tr \o v = tr
    <2>1. v = <<>>
      BY <1>8, EmptySeq
    <2> QED
      BY <2>1
  <1> QED
    BY <1>4, <1>6, <1>7, <1>8, <1>9 DEF BufferInv, NothingLost

\* Every step keeps the invariant.
LEMMA InvNext == BufferInv /\ [Next]_vars => BufferInv'
  <1> SUFFICES ASSUME BufferInv, [Next]_vars PROVE BufferInv'
    OBVIOUS
  <1>1. \A n \in 1..MaxBytes : n \in Nat
    BY BufferAssumption
  <1>2. ASSUME NEW n \in 1..MaxBytes, Add(n) PROVE BufferInv'
    BY <1>1, <1>2, AddInv
  <1>3. ASSUME NEW n \in 1..MaxBytes, Read_FD(n) PROVE BufferInv'
    BY <1>1, <1>3, ReadFDInv
  <1>4. ASSUME NEW n \in 1..MaxBytes, Update_Readp(n) PROVE BufferInv'
    BY <1>1, <1>4, UpdateInv
  <1>5. CASE UNCHANGED vars
    <2>1. aborted' \in BOOLEAN
      BY <1>5, Zenon DEF BufferInv, TypeOK, vars
    <2> QED
      BY <1>5, <2>1 DEF BufferInv, TypeOK, NothingLost, vars
  <1> QED
    BY <1>2, <1>3, <1>4, <1>5, ReleaseInv DEF Next

-----------------------------------------------------------------------------
(* The theorems.                                                           *)

\* The invariant holds in every state the callers of buffer.cpp can produce.
THEOREM BufferInvariant == Spec => []BufferInv
  BY InvInit, InvNext, PTL DEF Spec

\* Add, Read_FD, Update_Readp and Release_All_Buff keep _readp and _writep in
\* order and inside _buffer, for any sizes of the array and of the stack buffers.
THEOREM TypeCorrect == Spec => []TypeOK
  <1>1. BufferInv => TypeOK
    BY DEF BufferInv
  <1> QED
    BY <1>1, BufferInvariant, PTL

\* _Dilatation and the two calls of Add at the end of Read_FD neither lose nor
\* duplicate nor reorder a byte that arrived.
THEOREM NothingLostTheorem == Spec => []NothingLost
  <1>1. BufferInv => NothingLost
    BY DEF BufferInv
  <1> QED
    BY <1>1, BufferInvariant, PTL

\* The assertion at the end of _Length_Guard never fails.
THEOREM RoomIsMadeTheorem == Spec => []RoomIsMade
  <1>1. BufferInv => RoomIsMade
    <2> SUFFICES ASSUME BufferInv, NEW n \in 1..MaxBytes PROVE Guarded(buf, n)
      BY DEF RoomIsMade
    <2>1. n \in Nat
      BY BufferAssumption
    <2> QED
      BY <2>1, GuardIs DEF BufferInv, TypeOK, Guarded
  <1> QED
    BY <1>1, BufferInvariant, PTL
=============================================================================
