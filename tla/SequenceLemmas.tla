--------------------------- MODULE SequenceLemmas ---------------------------
(***************************************************************************)
(* Facts about sequences that the proofs about the queues of the server    *)
(* (ThreadPool, Log, WebServer), about its buffers and about the form of a *)
(* request share, and induction over the naturals.                         *)
(***************************************************************************)
EXTENDS SequenceTheorems, WellFoundedInduction, TLAPS

\* Induction, for a set instead of a predicate: a set that leaves out a natural number
\* leaves out a least one.
LEMMA NatSetInduction ==
  ASSUME NEW S, 0 \in S, \A n \in Nat : n \in S => n + 1 \in S
  PROVE  Nat \subseteq S
  <1> DEFINE T == Nat \ S
             R == {pair \in Nat \X Nat : pair[1] < pair[2]}
  <1>1. IsWellFoundedOn(R, Nat)
    BY NatLessThanWellFounded DEF OpToRel
  <1> SUFFICES ASSUME T # {} PROVE FALSE
    OBVIOUS
  <1>2. PICK x \in T : \A y \in T : <<y, x>> \notin R
    <2> HIDE DEF R
    <2> QED
      BY <1>1, WFMin
  <1>3. x - 1 \in T /\ <<x - 1, x>> \in R
    <2>1. x \in Nat /\ x # 0 /\ x - 1 \in Nat
      OBVIOUS
    <2> QED
      BY <2>1
  <1> QED
    BY <1>2, <1>3

\* Moving the head of t to the end of s does not change s \o t.
LEMMA MoveHead ==
  ASSUME NEW S, NEW s \in Seq(S), NEW t \in Seq(S), t # <<>>
  PROVE  Append(s, Head(t)) \o Tail(t) = s \o t
  <1> DEFINE u == Append(s, Head(t))
             l == u \o Tail(t)
             r == s \o t
  <1>1. /\ Head(t) \in S /\ Head(t) = t[1] /\ Tail(t) \in Seq(S)
        /\ Len(t) \in Nat \ {0} /\ Len(s) \in Nat
        /\ Len(Tail(t)) = Len(t) - 1
        /\ \A i \in 1..(Len(t) - 1) : Tail(t)[i] = t[i + 1]
    BY HeadTailProperties, EmptySeq, LenProperties
  <1>2. /\ u \in Seq(S) /\ Len(u) = Len(s) + 1
        /\ u[Len(s) + 1] = t[1]
        /\ \A i \in 1..Len(s) : u[i] = s[i]
    BY <1>1, AppendProperties
  <1> HIDE DEF u
  <1>3. /\ l \in Seq(S) /\ Len(l) = Len(u) + Len(Tail(t))
        /\ \A i \in 1..(Len(u) + Len(Tail(t))) :
             l[i] = IF i <= Len(u) THEN u[i] ELSE Tail(t)[i - Len(u)]
    BY <1>1, <1>2, ConcatProperties
  <1>4. /\ r \in Seq(S) /\ Len(r) = Len(s) + Len(t)
        /\ \A i \in 1..(Len(s) + Len(t)) :
             r[i] = IF i <= Len(s) THEN s[i] ELSE t[i - Len(s)]
    BY ConcatProperties
  <1> HIDE DEF l, r
  <1>5. Len(l) = Len(r)
    BY <1>1, <1>2, <1>3, <1>4
  <1>6. ASSUME NEW i \in 1..Len(l) PROVE l[i] = r[i]
    <2>1. CASE i <= Len(s)
      <3>1. i \in 1..Len(s) /\ l[i] = u[i]
        BY <2>1, <1>1, <1>2, <1>3
      <3>2. r[i] = s[i]
        BY <3>1, <1>1, <1>4
      <3> QED
        BY <3>1, <3>2, <1>2
    <2>2. CASE i = Len(s) + 1
      <3>1. l[i] = u[Len(s) + 1]
        BY <2>2, <1>1, <1>2, <1>3
      <3>2. r[i] = t[1]
        BY <2>2, <1>1, <1>4
      <3> QED
        BY <3>1, <3>2, <1>2
    <2>3. CASE i > Len(s) + 1
      <3>1. i - Len(u) \in 1..(Len(t) - 1) /\ (i - Len(u)) + 1 = i - Len(s)
        BY <2>3, <1>1, <1>2, <1>3
      <3> QED
        BY <2>3, <3>1, <1>1, <1>2, <1>3, <1>4
    <2> QED
      BY <2>1, <2>2, <2>3, <1>1, <1>2, <1>3
  <1>7. l = r
    BY <1>3, <1>4, <1>5, <1>6, SeqEqual
  <1> QED
    BY <1>7 DEF l, r, u

\* The first n elements of a sequence.
LEMMA PrefixIs ==
  ASSUME NEW S, NEW s \in Seq(S), NEW n \in Nat, n <= Len(s), NEW u, u = SubSeq(s, 1, n)
  PROVE  u \in Seq(S) /\ Len(u) = n /\ \A i \in 1..n : u[i] = s[i]
  <1>1. \A i \in 1..n : i \in 1..Len(s)
    BY LenProperties
  <1>2. \A i \in 1..n : s[i] \in S
    BY <1>1, ElementOfSeq
  <1>3. /\ u \in Seq(S) /\ Len(u) = IF 1 <= n THEN n - 1 + 1 ELSE 0
        /\ \A i \in 1..(n - 1 + 1) : u[i] = s[1 + i - 1]
    BY <1>2, SubSeqProperties
  <1> QED
    BY <1>3

\* A concatenation, with its second part counted from its own beginning.
LEMMA JoinIs ==
  ASSUME NEW S, NEW s \in Seq(S), NEW t \in Seq(S), NEW u, u = s \o t,
         NEW n \in Nat, n = Len(s), NEW m \in Nat, m = Len(t)
  PROVE  /\ u \in Seq(S) /\ Len(u) = n + m
         /\ \A i \in 1..n : u[i] = s[i]
         /\ \A j \in 1..m : u[n + j] = t[j]
  <1>1. /\ u \in Seq(S) /\ Len(u) = n + m
        /\ \A i \in 1..(n + m) : u[i] = IF i <= n THEN s[i] ELSE t[i - n]
    BY ConcatProperties
  <1>2. ASSUME NEW i \in 1..n PROVE u[i] = s[i]
    <2>1. i \in 1..(n + m) /\ i <= n
      OBVIOUS
    <2> QED
      BY <1>1, <2>1
  <1>3. ASSUME NEW j \in 1..m PROVE u[n + j] = t[j]
    <2>1. n + j \in 1..(n + m) /\ ~(n + j <= n) /\ (n + j) - n = j
      OBVIOUS
    <2> QED
      BY <1>1, <2>1
  <1> QED
    BY <1>1, <1>2, <1>3
=============================================================================
