----------------------------- MODULE DataLemmas -----------------------------
(***************************************************************************)
(* What the proofs about several components share: induction and           *)
(* recursion over the naturals; a circular buffer of N slots, its write    *)
(* index o (occupy) and its read index d (deque), and the sequence of the  *)
(* values that wait in it; division and remainder, for every number that   *)
(* wraps; and the shares of the process lcores.                            *)
(***************************************************************************)
EXTENDS SequenceTheorems, WellFoundedInduction, TLAPS

(* Induction, with a set of numbers in place of a predicate.               *)

\* A set of naturals that is not empty has a least member.
LEMMA LeastMember ==
  ASSUME NEW S \in SUBSET Nat, S # {}
  PROVE  \E x \in S : \A y \in S : x <= y
<1>1. \E x \in S : \A y \in S : ~(<<y, x>> \in OpToRel(<, Nat))
  BY NatLessThanWellFounded, WFMin
<1>2. PICK x \in S : \A y \in S : ~(<<y, x>> \in OpToRel(<, Nat))  BY <1>1
<1>3. ASSUME NEW y \in S PROVE x <= y
  <2>1. y \in Nat /\ x \in Nat /\ ~(<<y, x>> \in OpToRel(<, Nat))  BY <1>2
  <2>2. ~(y < x)  BY <2>1 DEF OpToRel
  <2>3. y \in Nat /\ x \in Nat  OBVIOUS
  <2> QED  BY <2>2, <2>3
<1> QED  BY <1>3

\* What holds of 0, and of n + 1 if of n, holds of every natural.
LEMMA Induction ==
  ASSUME NEW S, 0 \in S, \A n \in Nat : n \in S => n + 1 \in S
  PROVE  \A n \in Nat : n \in S
<1> DEFINE T == {n \in Nat : n \notin S}
<1> SUFFICES ASSUME T # {} PROVE FALSE
  OBVIOUS
<1>1. PICK x \in T : \A y \in T : x <= y  BY LeastMember
<1>2. x \in Nat /\ x # 0 /\ x \notin S  OBVIOUS
<1>3. x - 1 \in Nat /\ (x - 1) + 1 = x /\ ~(x <= x - 1)  BY <1>2
<1>4. x - 1 \in S  BY <1>1, <1>3
<1> QED  BY <1>2, <1>3, <1>4

\* The first n + 1 values of the recursion that starts with base and steps by step.
Unfolds(g, base, step, n) ==
  g[0] = base /\ \A i \in 1 .. n : g[i] = step[i][g[i - 1]]

\* A recursion over the naturals has a solution.
LEMMA Recursion ==
  ASSUME NEW S, NEW base \in S, NEW step \in [Nat -> [S -> S]], NEW n \in Nat
  PROVE  \E g \in [0 .. n -> S] : Unfolds(g, base, step, n)
<1> DEFINE D == {m \in Nat : \E g \in [0 .. m -> S] : Unfolds(g, base, step, m)}
<1>1. 0 \in D
  <2>1. [i \in 0 .. 0 |-> base] \in [0 .. 0 -> S]  OBVIOUS
  <2>2. Unfolds([i \in 0 .. 0 |-> base], base, step, 0)  BY DEF Unfolds
  <2> QED  BY <2>1, <2>2
<1>2. ASSUME NEW m \in Nat, m \in D PROVE m + 1 \in D
  <2>1. PICK g \in [0 .. m -> S] : Unfolds(g, base, step, m)  BY <1>2
  <2> DEFINE h == [i \in 0 .. m + 1 |-> IF i = m + 1 THEN step[m + 1][g[m]] ELSE g[i]]
  <2>2. step[m + 1] \in [S -> S] /\ g[m] \in S  OBVIOUS
  <2>3. step[m + 1][g[m]] \in S  BY <2>2
  <2>4. h \in [0 .. m + 1 -> S]
    <3> SUFFICES ASSUME NEW i \in 0 .. m + 1 PROVE h[i] \in S
      OBVIOUS
    <3>1. CASE i = m + 1  BY <2>3, <3>1
    <3>2. CASE i # m + 1
      <4>1. i \in 0 .. m  BY <3>2
      <4> QED  BY <3>2, <4>1
    <3> QED  BY <3>1, <3>2
  <2>5. h[0] = base
    <3>1. 0 \in 0 .. m + 1 /\ 0 # m + 1  OBVIOUS
    <3> QED  BY <2>1, <3>1 DEF Unfolds
  <2>6. ASSUME NEW i \in 1 .. m + 1 PROVE h[i] = step[i][h[i - 1]]
    <3>1. i \in 0 .. m + 1 /\ i - 1 \in 0 .. m + 1 /\ i - 1 # m + 1  OBVIOUS
    <3>2. h[i - 1] = g[i - 1]  BY <3>1
    <3>3. CASE i = m + 1
      <4>1. i - 1 = m /\ h[i] = step[m + 1][g[m]]  BY <3>1, <3>3
      <4> QED  BY <3>2, <3>3, <4>1
    <3>4. CASE i # m + 1
      <4>1. i \in 1 .. m /\ h[i] = g[i]  BY <3>1, <3>4
      <4> QED  BY <2>1, <3>2, <4>1 DEF Unfolds
    <3> QED  BY <3>3, <3>4
  <2> HIDE DEF h
  <2>7. Unfolds(h, base, step, m + 1)  BY <2>5, <2>6 DEF Unfolds
  <2> QED  BY <2>4, <2>7
<1> HIDE DEF D
<1>3. \A m \in Nat : m \in D  BY <1>1, <1>2, Induction
<1> QED  BY <1>3 DEF D
-----------------------------------------------------------------------------
(* Circular buffers.                                                       *)

Index(N) == 0 .. N - 1

\* The values that the first N slots of s hold are of the set V.
Holds(s, N, V) == \A i \in Index(N) : s[i] \in V

\* The values of the slots s from d up to o; f is 1 between the read of the
\* slot at d and the move of d.
RingSeq(s, N, o, d, f) ==
  [k \in 1 .. ((o - d) % N) - f |-> s[(d + f + k - 1) % N]]

\* Slots filled but not given back.
Filled(N, o, d) == IF d <= o THEN o - d ELSE o - d + N

\* The j-th slot after d.
SlotAfter(N, d, j) == IF d + j < N THEN d + j ELSE d + j - N

LEMMA ModRing ==
  ASSUME NEW N \in Nat \ {0}, NEW x \in Int, -N < x, x < 2 * N
  PROVE  x % N = IF x < 0 THEN x + N
                 ELSE IF x < N THEN x ELSE x - N
  BY SMT

\* The next index, as the code's % computes it.
LEMMA NextInRing ==
  ASSUME NEW N \in Nat \ {0}, NEW i \in Index(N)
  PROVE  /\ (i + 1) % N \in Index(N)
         /\ (i + 1) % N = IF i + 1 = N THEN 0 ELSE i + 1
  BY SMT DEF Index

LEMMA FilledFacts ==
  ASSUME NEW N \in Nat \ {0}, NEW o \in Index(N), NEW d \in Index(N)
  PROVE  /\ (o - d) % N = Filled(N, o, d)
         /\ Filled(N, o, d) \in 0 .. N - 1
         /\ Filled(N, o, d) = 0 <=> o = d
<1> DEFINE x == o - d
<1>1. x \in Int /\ -N < x /\ x < 2 * N
  BY DEF Index
<1> HIDE DEF x
<1>2. x % N = IF x < 0 THEN x + N ELSE IF x < N THEN x ELSE x - N
  BY <1>1, ModRing
<1>3. x % N = Filled(N, o, d)
  BY <1>2 DEF Index, Filled, x
<1>4. Filled(N, o, d) \in 0 .. N - 1 /\ (Filled(N, o, d) = 0 <=> o = d)
  BY DEF Index, Filled
<1> QED  BY <1>3, <1>4 DEF x

LEMMA SlotAfterFacts ==
  ASSUME NEW N \in Nat \ {0}, NEW d \in Index(N), NEW j \in 0 .. N - 1
  PROVE  /\ (d + j) % N = SlotAfter(N, d, j)
         /\ SlotAfter(N, d, j) \in Index(N)
<1> DEFINE x == d + j
<1>1. x \in Int /\ 0 <= x /\ -N < x /\ x < 2 * N
  BY DEF Index
<1> HIDE DEF x
<1>2. x % N = IF x < 0 THEN x + N ELSE IF x < N THEN x ELSE x - N
  BY <1>1, ModRing
<1>3. x % N = SlotAfter(N, d, j)
  BY <1>1, <1>2 DEF Index, SlotAfter, x
<1>4. SlotAfter(N, d, j) \in Index(N)
  BY DEF Index, SlotAfter
<1> QED  BY <1>3, <1>4 DEF x

LEMMA RingSeqFacts ==
  ASSUME NEW N \in Nat \ {0}, NEW V, NEW s, Holds(s, N, V),
         NEW o \in Index(N), NEW d \in Index(N), NEW f \in {0, 1},
         f <= Filled(N, o, d)
  PROVE  /\ RingSeq(s, N, o, d, f) \in Seq(V)
         /\ Len(RingSeq(s, N, o, d, f)) = Filled(N, o, d) - f
         /\ \A k \in 1 .. Filled(N, o, d) - f :
              RingSeq(s, N, o, d, f)[k] = s[SlotAfter(N, d, f + k - 1)]
<1> DEFINE n == Filled(N, o, d) - f
<1>1. n \in Nat /\ Filled(N, o, d) \in Nat /\ Filled(N, o, d) <= N - 1
  BY FilledFacts
<1>2. \A k \in 1 .. n : /\ (d + f + k - 1) % N = SlotAfter(N, d, f + k - 1)
                        /\ SlotAfter(N, d, f + k - 1) \in Index(N)
  <2> TAKE k \in 1 .. n
  <2>1. f + k - 1 \in 0 .. N - 1  BY <1>1
  <2>2. d + (f + k - 1) = d + f + k - 1  BY DEF Index
  <2> QED  BY <2>1, <2>2, SlotAfterFacts
<1>3. RingSeq(s, N, o, d, f) = [k \in 1 .. n |-> s[SlotAfter(N, d, f + k - 1)]]
  BY <1>2, FilledFacts DEF RingSeq
<1>4. \A k \in 1 .. n : s[SlotAfter(N, d, f + k - 1)] \in V
  BY <1>2 DEF Holds
<1>5. RingSeq(s, N, o, d, f) \in [1 .. n -> V]
  BY <1>3, <1>4
<1> HIDE DEF n
<1>6. RingSeq(s, N, o, d, f) \in Seq(V) /\ Len(RingSeq(s, N, o, d, f)) = n
  BY <1>1, <1>5
<1> QED  BY <1>3, <1>6 DEF n

\* The slots that wait when none is being read.
LEMMA RingSeqWhole ==
  ASSUME NEW N \in Nat \ {0}, NEW V, NEW s, Holds(s, N, V),
         NEW o \in Index(N), NEW d \in Index(N)
  PROVE  /\ RingSeq(s, N, o, d, 0) \in Seq(V)
         /\ Len(RingSeq(s, N, o, d, 0)) = Filled(N, o, d)
         /\ RingSeq(s, N, o, d, 0) = <<>> <=> o = d
<1> DEFINE w == RingSeq(s, N, o, d, 0)
<1>1. Filled(N, o, d) \in Nat /\ (Filled(N, o, d) = 0 <=> o = d)
  BY FilledFacts
<1>2. 0 \in {0, 1} /\ 0 <= Filled(N, o, d)  BY <1>1
<1> HIDE DEF w
<1>3. w \in Seq(V) /\ Len(w) = Filled(N, o, d) - 0
  BY <1>2, RingSeqFacts DEF w
<1>4. w = <<>> <=> Len(w) = 0  BY <1>3, EmptySeq
<1> QED  BY <1>1, <1>3, <1>4 DEF w

\* The producer publishes a slot: one more waits, and there was room for it.
LEMMA RingSeqAppendAt ==
  ASSUME NEW N \in Nat \ {0}, NEW V, NEW s, Holds(s, N, V),
         NEW o \in Index(N), NEW d \in Index(N), NEW f \in {0, 1},
         f <= Filled(N, o, d), NEW e \in Index(N),
         e = IF o + 1 = N THEN 0 ELSE o + 1, e # d
  PROVE  /\ RingSeq(s, N, e, d, f) = Append(RingSeq(s, N, o, d, f), s[o])
         /\ Len(RingSeq(s, N, o, d, f)) < N - 1
<1> DEFINE w == RingSeq(s, N, o, d, f)
           v == RingSeq(s, N, e, d, f)
<1>2. s[o] \in V  BY DEF Holds
<1> HIDE DEF v, w
<1>3. Filled(N, e, d) = Filled(N, o, d) + 1 /\ Filled(N, o, d) < N - 1 /\ Filled(N, o, d) \in Nat
  BY DEF Filled, Index
<1>4. /\ w \in Seq(V) /\ Len(w) = Filled(N, o, d) - f
      /\ \A k \in 1 .. Filled(N, o, d) - f : w[k] = s[SlotAfter(N, d, f + k - 1)]
  BY RingSeqFacts DEF w
<1>5. /\ v \in Seq(V) /\ Len(v) = Filled(N, e, d) - f
      /\ \A k \in 1 .. Filled(N, e, d) - f : v[k] = s[SlotAfter(N, d, f + k - 1)]
  <2>1. f <= Filled(N, e, d)  BY <1>3
  <2> QED  BY <2>1, RingSeqFacts, SMTT(20) DEF v
<1>6. SlotAfter(N, d, Filled(N, o, d)) = o
  BY DEF SlotAfter, Filled, Index
<1>7. /\ Append(w, s[o]) \in Seq(V)
      /\ Len(Append(w, s[o])) = Len(w) + 1
      /\ \A k \in 1 .. Len(w) : Append(w, s[o])[k] = w[k]
      /\ Append(w, s[o])[Len(w) + 1] = s[o]
  BY <1>2, <1>4, AppendProperties
<1>8. \A k \in 1 .. Len(v) : v[k] = Append(w, s[o])[k]
  <2> TAKE k \in 1 .. Len(v)
  <2>1. CASE k \in 1 .. Len(w)  BY <1>3, <1>4, <1>5, <1>7, <2>1
  <2>2. CASE k = Len(w) + 1
    <3>1. f + k - 1 = Filled(N, o, d)  BY <1>3, <1>4, <2>2
    <3> QED  BY <1>3, <1>4, <1>5, <1>6, <1>7, <2>2, <3>1, ZenonT(30)
  <2> QED  BY <1>3, <1>4, <1>5, <2>1, <2>2, SMTT(20)
<1>9. v = Append(w, s[o])
  <2>1. Len(v) = Len(Append(w, s[o]))  BY <1>3, <1>4, <1>5, <1>7
  <2> QED  BY <1>5, <1>7, <1>8, <2>1, SeqEqual
<1>10. Len(w) < N - 1  BY <1>3, <1>4
<1> QED  BY <1>9, <1>10 DEF v, w

LEMMA RingSeqAppend ==
  ASSUME NEW N \in Nat \ {0}, NEW V, NEW s, Holds(s, N, V),
         NEW o \in Index(N), NEW d \in Index(N), NEW f \in {0, 1},
         f <= Filled(N, o, d), (o + 1) % N # d
  PROVE  /\ RingSeq(s, N, (o + 1) % N, d, f) = Append(RingSeq(s, N, o, d, f), s[o])
         /\ Len(RingSeq(s, N, o, d, f)) < N - 1
<1> DEFINE e == (o + 1) % N
<1>1. e \in Index(N) /\ (e = IF o + 1 = N THEN 0 ELSE o + 1) /\ e # d
  BY NextInRing
<1> HIDE DEF e
<1>2. /\ RingSeq(s, N, e, d, f) = Append(RingSeq(s, N, o, d, f), s[o])
      /\ Len(RingSeq(s, N, o, d, f)) < N - 1
  BY <1>1, RingSeqAppendAt
<1> QED  BY <1>2 DEF e

\* The consumer reads the slot at deque: the oldest waits no longer.
LEMMA RingSeqTail ==
  ASSUME NEW N \in Nat \ {0}, NEW V, NEW s, Holds(s, N, V),
         NEW o \in Index(N), NEW d \in Index(N), o # d
  PROVE  /\ RingSeq(s, N, o, d, 0) # <<>>
         /\ Head(RingSeq(s, N, o, d, 0)) = s[d]
         /\ RingSeq(s, N, o, d, 1) = Tail(RingSeq(s, N, o, d, 0))
<1> DEFINE w == RingSeq(s, N, o, d, 0)
           v == RingSeq(s, N, o, d, 1)
<1>1. Filled(N, o, d) \in Nat /\ Filled(N, o, d) >= 1
  BY FilledFacts
<1>2. /\ w \in Seq(V) /\ Len(w) = Filled(N, o, d)
      /\ \A k \in 1 .. Filled(N, o, d) : w[k] = s[SlotAfter(N, d, k - 1)]
  <2>1. 0 \in {0, 1} /\ 0 <= Filled(N, o, d)  BY <1>1
  <2> HIDE DEF w
  <2>2. /\ w \in Seq(V) /\ Len(w) = Filled(N, o, d) - 0
        /\ \A k \in 1 .. Filled(N, o, d) - 0 : w[k] = s[SlotAfter(N, d, 0 + k - 1)]
    BY <2>1, RingSeqFacts DEF w
  <2> QED  BY <1>1, <2>2
<1>3. /\ v \in Seq(V) /\ Len(v) = Filled(N, o, d) - 1
      /\ \A k \in 1 .. Filled(N, o, d) - 1 : v[k] = s[SlotAfter(N, d, k)]
  <2>1. 1 \in {0, 1} /\ 1 <= Filled(N, o, d)  BY <1>1
  <2> HIDE DEF v
  <2>2. /\ v \in Seq(V) /\ Len(v) = Filled(N, o, d) - 1
        /\ \A k \in 1 .. Filled(N, o, d) - 1 : v[k] = s[SlotAfter(N, d, 1 + k - 1)]
    BY <2>1, RingSeqFacts DEF v
  <2> QED  BY <1>1, <2>2
<1>4. SlotAfter(N, d, 0) = d
  BY DEF SlotAfter, Index
<1> HIDE DEF w, v
<1>5. w # <<>>
  BY <1>1, <1>2, EmptySeq
<1>6. /\ Tail(w) \in Seq(V) /\ Len(Tail(w)) = Len(w) - 1
      /\ \A k \in 1 .. Len(Tail(w)) : Tail(w)[k] = w[k + 1]
  BY <1>2, <1>5, HeadTailProperties
<1>7. v = Tail(w)
  <2>1. \A k \in 1 .. Len(v) : v[k] = Tail(w)[k]
    BY <1>1, <1>2, <1>3, <1>6
  <2>2. Len(v) = Len(Tail(w))  BY <1>2, <1>3, <1>6
  <2> QED  BY <1>3, <1>6, <2>1, <2>2, SeqEqual
<1>8. Head(w) = s[d]
  <2>1. Head(w) = w[1]  BY <1>2
  <2> QED  BY <1>1, <1>2, <1>4, <2>1
<1> QED  BY <1>5, <1>7, <1>8 DEF w, v

\* The consumer moves deque on: nothing changes for those that wait.
LEMMA RingSeqDequeue ==
  ASSUME NEW N \in Nat \ {0}, NEW V, NEW s, Holds(s, N, V),
         NEW o \in Index(N), NEW d \in Index(N), o # d
  PROVE  RingSeq(s, N, o, (d + 1) % N, 0) = RingSeq(s, N, o, d, 1)
<1> DEFINE e == (d + 1) % N
           w == RingSeq(s, N, o, d, 1)
           v == RingSeq(s, N, o, e, 0)
<1>1. e \in Index(N) /\ e = IF d + 1 = N THEN 0 ELSE d + 1
  BY NextInRing
<1> HIDE DEF e
<1>2. Filled(N, o, e) = Filled(N, o, d) - 1 /\ Filled(N, o, d) \in 1 .. N - 1
  BY <1>1 DEF e, Filled, Index
<1>3. /\ w \in Seq(V) /\ Len(w) = Filled(N, o, d) - 1
      /\ \A k \in 1 .. Filled(N, o, d) - 1 : w[k] = s[SlotAfter(N, d, k)]
  <2>1. 1 \in {0, 1} /\ 1 <= Filled(N, o, d)  BY <1>2
  <2> HIDE DEF w
  <2>2. /\ w \in Seq(V) /\ Len(w) = Filled(N, o, d) - 1
        /\ \A k \in 1 .. Filled(N, o, d) - 1 : w[k] = s[SlotAfter(N, d, 1 + k - 1)]
    BY <2>1, RingSeqFacts DEF w
  <2> QED  BY <1>2, <2>2
<1>4. /\ v \in Seq(V) /\ Len(v) = Filled(N, o, e)
      /\ \A k \in 1 .. Filled(N, o, e) : v[k] = s[SlotAfter(N, e, k - 1)]
  <2>1. 0 \in {0, 1} /\ 0 <= Filled(N, o, e)  BY <1>2
  <2> HIDE DEF v
  <2>2. /\ v \in Seq(V) /\ Len(v) = Filled(N, o, e) - 0
        /\ \A k \in 1 .. Filled(N, o, e) - 0 : v[k] = s[SlotAfter(N, e, 0 + k - 1)]
    BY <1>1, <2>1, RingSeqFacts DEF v
  <2> QED  BY <1>2, <2>2
<1>5. \A k \in 1 .. Filled(N, o, e) : SlotAfter(N, e, k - 1) = SlotAfter(N, d, k)
  BY <1>1, <1>2 DEF SlotAfter, Index, e
<1> HIDE DEF w, v
<1>6. \A k \in 1 .. Len(v) : v[k] = w[k]
  BY <1>2, <1>3, <1>4, <1>5
<1>7. v = w
  <2>1. Len(v) = Len(w)  BY <1>2, <1>3, <1>4
  <2> QED  BY <1>3, <1>4, <1>6, <2>1, SeqEqual
<1> QED  BY <1>7 DEF e, v, w

\* The producer fills the slot at occupy, which waits for nobody yet.
LEMMA RingSeqStore ==
  ASSUME NEW N \in Nat \ {0}, NEW V, NEW s, NEW t, Holds(s, N, V),
         Holds(t, N, V), NEW o \in Index(N), NEW d \in Index(N),
         NEW f \in {0, 1}, f <= Filled(N, o, d), \A i \in Index(N) \ {o} : t[i] = s[i]
  PROVE  RingSeq(t, N, o, d, f) = RingSeq(s, N, o, d, f)
<1> DEFINE w == RingSeq(s, N, o, d, f)
           v == RingSeq(t, N, o, d, f)
<1>1. /\ w \in Seq(V) /\ Len(w) = Filled(N, o, d) - f
      /\ \A k \in 1 .. Filled(N, o, d) - f : w[k] = s[SlotAfter(N, d, f + k - 1)]
  BY RingSeqFacts
<1>2. /\ v \in Seq(V) /\ Len(v) = Filled(N, o, d) - f
      /\ \A k \in 1 .. Filled(N, o, d) - f : v[k] = t[SlotAfter(N, d, f + k - 1)]
  BY RingSeqFacts
<1>3. \A k \in 1 .. Filled(N, o, d) - f : SlotAfter(N, d, f + k - 1) \in Index(N) \ {o}
  BY DEF SlotAfter, Filled, Index
<1> HIDE DEF w, v
<1>4. \A k \in 1 .. Len(v) : v[k] = w[k]
  BY <1>1, <1>2, <1>3
<1>5. v = w
  BY <1>1, <1>2, <1>4, SeqEqual
<1> QED  BY <1>5 DEF v, w

\* A greater modulus changes nothing as long as the buffer has not wrapped.
LEMMA RingSeqGrow ==
  ASSUME NEW N \in Nat \ {0}, NEW M \in Nat \ {0}, N <= M, NEW V, NEW s,
         Holds(s, M, V), NEW o \in Index(N), NEW d \in Index(N), d <= o,
         NEW f \in {0, 1}, f <= Filled(N, o, d)
  PROVE  RingSeq(s, M, o, d, f) = RingSeq(s, N, o, d, f)
<1> DEFINE w == RingSeq(s, N, o, d, f)
           v == RingSeq(s, M, o, d, f)
<1>1. Holds(s, N, V) /\ o \in Index(M) /\ d \in Index(M)  BY DEF Holds, Index
<1>2. /\ w \in Seq(V) /\ Len(w) = Filled(N, o, d) - f
      /\ \A k \in 1 .. Filled(N, o, d) - f : w[k] = s[SlotAfter(N, d, f + k - 1)]
  BY <1>1, RingSeqFacts
<1>3. Filled(M, o, d) = Filled(N, o, d)  BY DEF Filled
<1>4. /\ v \in Seq(V) /\ Len(v) = Filled(M, o, d) - f
      /\ \A k \in 1 .. Filled(M, o, d) - f : v[k] = s[SlotAfter(M, d, f + k - 1)]
  BY <1>1, <1>3, RingSeqFacts
<1>5. \A k \in 1 .. Filled(N, o, d) - f : SlotAfter(M, d, f + k - 1) = SlotAfter(N, d, f + k - 1)
  BY DEF SlotAfter, Filled, Index
<1> HIDE DEF w, v
<1>6. \A k \in 1 .. Len(v) : v[k] = w[k]
  BY <1>2, <1>3, <1>4, <1>5
<1>7. v = w
  BY <1>2, <1>3, <1>4, <1>6, SeqEqual
<1> QED  BY <1>7 DEF v, w
-----------------------------------------------------------------------------
\* Two facts about concatenation that the library lacks.
LEMMA ConcatAppend ==
  ASSUME NEW S, NEW b \in Seq(S), NEW n \in Seq(S), NEW m \in S
  PROVE  b \o Append(n, m) = Append(b \o n, m)
<1>1. Append(n, m) = n \o <<m>>  BY AppendIsConcat
<1>2. b \o n \in Seq(S)  BY ConcatProperties
<1>3. Append(b \o n, m) = (b \o n) \o <<m>>  BY <1>2, AppendIsConcat
<1> DEFINE u == <<m>>
<1>4. u \in Seq(S)  OBVIOUS
<1> HIDE DEF u
<1>5. (b \o n) \o u = b \o (n \o u)
  BY <1>4, ConcatAssociative
<1> QED  BY <1>1, <1>3, <1>5 DEF u

LEMMA ConcatTail ==
  ASSUME NEW S, NEW b \in Seq(S), NEW n \in Seq(S), b # <<>>
  PROVE  Tail(b \o n) = Tail(b) \o n
<1> DEFINE t == Tail(b)
           c == b \o n
           d == t \o n
           e == Tail(c)
<1>1. /\ t \in Seq(S) /\ Len(t) = Len(b) - 1
      /\ \A i \in 1 .. Len(t) : t[i] = b[i + 1]
  BY HeadTailProperties
<1>2. Len(b) \in Nat \ {0} /\ Len(n) \in Nat
  <2>1. Len(b) \in Nat \ {0}  BY EmptySeq
  <2>2. Len(n) \in Nat BY LenProperties
  <2> QED BY <2>1, <2>2
<1>3. /\ c \in Seq(S) /\ Len(c) = Len(b) + Len(n)
      /\ \A i \in 1 .. Len(b) + Len(n) : c[i] = IF i <= Len(b) THEN b[i] ELSE n[i - Len(b)]
  BY ConcatProperties, Zenon
<1> HIDE DEF t, c
<1>4. /\ d \in Seq(S) /\ Len(d) = Len(t) + Len(n)
      /\ \A i \in 1 .. Len(t) + Len(n) : d[i] = IF i <= Len(t) THEN t[i] ELSE n[i - Len(t)]
  BY <1>1, ConcatProperties, Zenon
<1>5. c # <<>>
  <2>1. Len(c) # 0 BY <1>2, <1>3
  <2> QED BY <2>1, EmptySeq
<1>6. /\ e \in Seq(S) /\ Len(e) = Len(c) - 1
      /\ \A i \in 1 .. Len(e) : e[i] = c[i + 1]
  BY <1>3, <1>5, HeadTailProperties, Zenon
<1> HIDE DEF d, e
<1>7. Len(d) = Len(e)  BY <1>1, <1>2, <1>3, <1>4, <1>6
<1>8. ASSUME NEW i \in 1 .. Len(d) PROVE d[i] = e[i]
  <2>1. /\ i \in 1 .. Len(t) + Len(n) /\ i \in 1 .. Len(e)
        /\ i + 1 \in 1 .. Len(b) + Len(n) /\ i + 1 - Len(b) = i - Len(t)
        /\ i <= Len(t) <=> i + 1 <= Len(b)
        /\ i <= Len(t) => i \in 1 .. Len(t)
    BY <1>1, <1>2, <1>4, <1>7
  <2>2. e[i] = c[i + 1]  BY <1>6, <2>1
  <2>3. c[i + 1] = IF i <= Len(t) THEN b[i + 1] ELSE n[i - Len(t)]
    <3> DEFINE j == i + 1
    <3>1. /\ j \in 1 .. Len(b) + Len(n) /\ j - Len(b) = i - Len(t)
          /\ i <= Len(t) <=> j <= Len(b)
      BY <2>1
    <3> HIDE DEF j
    <3>2. c[j] = IF j <= Len(b) THEN b[j] ELSE n[j - Len(b)]
      BY <1>3, <3>1, Zenon
    <3>3. c[j] = IF i <= Len(t) THEN b[j] ELSE n[i - Len(t)]
      BY <3>1, <3>2, Zenon
    <3> QED  BY <3>3 DEF j
  <2>4. d[i] = IF i <= Len(t) THEN t[i] ELSE n[i - Len(t)]  BY <1>4, <2>1, Zenon
  <2>5. i <= Len(t) => t[i] = b[i + 1]  BY <1>1, <2>1, Zenon
  <2> QED  BY <2>2, <2>3, <2>4, <2>5, Zenon
<1> QED  BY <1>4, <1>6, <1>7, <1>8, SeqEqual DEF c, d, e, t
-----------------------------------------------------------------------------
(* Order.                                                                  *)

\* w is increasing and all of it above g.
InOrder(w, g) ==
  /\ \A k \in 1 .. Len(w) : g < w[k]
  /\ \A j, k \in 1 .. Len(w) : j < k => w[j] < w[k]

LEMMA InOrderAppend ==
  ASSUME NEW V, NEW w \in Seq(V), NEW g \in V, NEW x \in V, InOrder(w, g),
         g < x, \A k \in 1 .. Len(w) : w[k] < x
  PROVE  InOrder(Append(w, x), g)
<1> DEFINE v == Append(w, x)
<1>1. Len(w) \in Nat  BY LenProperties
<1>2. Len(v) = Len(w) + 1 /\ v[Len(w) + 1] = x /\ \A k \in 1 .. Len(w) : v[k] = w[k]
  BY AppendProperties
<1> HIDE DEF v
<1>3. \A k \in 1 .. Len(w) + 1 : k \in 1 .. Len(w) \/ k = Len(w) + 1
  BY <1>1
<1>4. \A k \in 1 .. Len(v) : g < v[k]
  BY <1>2, <1>3 DEF InOrder
<1>5. \A j, k \in 1 .. Len(v) : j < k => v[j] < v[k]
  <2> SUFFICES ASSUME NEW j \in 1 .. Len(w) + 1, NEW k \in 1 .. Len(w) + 1, j < k
               PROVE  v[j] < v[k]
    BY <1>2
  <2>1. j \in 1 .. Len(w)  BY <1>1
  <2> QED  BY <1>2, <1>3, <2>1 DEF InOrder
<1> QED  BY <1>4, <1>5 DEF InOrder, v

LEMMA InOrderTail ==
  ASSUME NEW V, NEW w \in Seq(V), NEW g, InOrder(w, g), w # <<>>
  PROVE  InOrder(Tail(w), Head(w))
<1> DEFINE v == Tail(w)
           h == Head(w)
<1>1. Len(w) \in Nat \ {0}  BY EmptySeq
<1>2. /\ Len(v) = Len(w) - 1 /\ \A k \in 1 .. Len(v) : v[k] = w[k + 1]
      /\ h = w[1]
  BY HeadTailProperties
<1> HIDE DEF v, h
<1>3. \A k \in 1 .. Len(v) : k + 1 \in 1 .. Len(w) /\ 1 \in 1 .. Len(w) /\ 1 < k + 1
  BY <1>1, <1>2
<1>4. \A k \in 1 .. Len(v) : h < v[k]
  BY <1>2, <1>3 DEF InOrder
<1>5. \A j, k \in 1 .. Len(v) : j < k => v[j] < v[k]
  <2> SUFFICES ASSUME NEW j \in 1 .. Len(v), NEW k \in 1 .. Len(v), j < k
               PROVE  v[j] < v[k]
    OBVIOUS
  <2>1. j + 1 < k + 1  BY <1>1, <1>2
  <2> QED  BY <1>2, <1>3, <2>1 DEF InOrder
<1> QED  BY <1>4, <1>5 DEF InOrder, v, h
-----------------------------------------------------------------------------
(* Division and remainder, for counters and sequence numbers that wrap.    *)

LEMMA DivMod ==
  ASSUME NEW n \in Nat \ {0}, NEW x \in Nat
  PROVE  /\ x \div n \in Nat /\ x % n \in 0 .. n - 1
         /\ (x \div n) * n \in Nat
         /\ x = (x \div n) * n + (x % n)
<1>1. x \div n \in Nat /\ x % n \in 0 .. n - 1  BY SMT
<1>2. x = n * (x \div n) + (x % n)  BY SMT
<1> DEFINE k == x \div n
<1>3. k \in Nat /\ x = n * k + (x % n)  BY <1>1, <1>2
<1> HIDE DEF k
<1>4. n * k = k * n /\ k * n \in Nat  BY <1>3, SMT
<1>5. x = k * n + (x % n)  BY <1>3, <1>4
<1> QED  BY <1>1, <1>4, <1>5 DEF k

\* A product of naturals grows with its factor.
LEMMA Monotone ==
  ASSUME NEW n \in Nat, NEW a \in Nat, NEW b \in Nat, a <= b
  PROVE  a * n \in Nat /\ b * n \in Nat /\ a * n <= b * n
<1>1. PICK k \in Nat : b = a + k  BY SMT
<1>2. k * n \in Nat /\ a * n \in Nat  BY SMT
<1>3. b * n = a * n + k * n  BY <1>1, SMT
<1> QED  BY <1>2, <1>3, SMT

\* A number below n is the remainder, and adding multiples does not change it.
LEMMA ModUnique ==
  ASSUME NEW n \in Nat \ {0}, NEW k \in Nat, NEW r \in 0 .. n - 1
  PROVE  (k * n + r) % n = r /\ (k * n + r) \div n = k
<1> DEFINE x == k * n + r
           j == x \div n
           s == x % n
<1>1. k * n \in Nat  BY SMT
<1>2. x \in Nat /\ x = k * n + r  BY <1>1
<1> HIDE DEF x
<1>3. j \in Nat /\ s \in 0 .. n - 1 /\ x = j * n + s /\ j * n \in Nat  BY <1>2, DivMod
<1> HIDE DEF j, s
<1>4. j <= k
  <2> SUFFICES ASSUME k + 1 <= j PROVE FALSE
    BY <1>3
  <2>1. (k + 1) * n <= j * n  BY <1>3, Monotone
  <2>2. (k + 1) * n = k * n + n  BY SMT
  <2> QED  BY <1>1, <1>2, <1>3, <2>1, <2>2
<1>5. k <= j
  <2> SUFFICES ASSUME j + 1 <= k PROVE FALSE
    BY <1>3
  <2>1. (j + 1) * n <= k * n  BY <1>3, Monotone
  <2>2. (j + 1) * n = j * n + n  BY <1>3, SMT
  <2> QED  BY <1>1, <1>2, <1>3, <2>1, <2>2
<1>6. j = k  BY <1>3, <1>4, <1>5
<1>7. s = r  BY <1>1, <1>2, <1>3, <1>6
<1> QED  BY <1>6, <1>7 DEF j, s, x

LEMMA DivMonotone ==
  ASSUME NEW n \in Nat \ {0}, NEW x \in Nat, NEW y \in Nat, x <= y
  PROVE  x \div n <= y \div n
<1> DEFINE a == x \div n
           b == y \div n
           r == x % n
           s == y % n
<1>1. a \in Nat /\ r \in 0 .. n - 1 /\ x = a * n + r /\ a * n \in Nat  BY DivMod
<1>2. b \in Nat /\ s \in 0 .. n - 1 /\ y = b * n + s /\ b * n \in Nat  BY DivMod
<1> HIDE DEF a, b, r, s
<1> SUFFICES ASSUME b + 1 <= a PROVE FALSE
  BY <1>1, <1>2 DEF a, b
<1>3. (b + 1) * n <= a * n  BY <1>1, <1>2, Monotone
<1>4. (b + 1) * n = b * n + n  BY <1>2, SMT
<1> QED  BY <1>1, <1>2, <1>3, <1>4
-----------------------------------------------------------------------------
(* Rings n divided among m process lcores, n \div m each (dive, main.c).    *)

\* The share of an lcore p lies within the rings there are.
LEMMA ShareFits ==
  ASSUME NEW n \in Nat, NEW m \in Nat \ {0}, NEW p \in 0 .. m - 1
  PROVE  /\ n \div m \in Nat
         /\ p * (n \div m) \in Nat /\ (p + 1) * (n \div m) \in Nat
         /\ (p + 1) * (n \div m) <= n
<1> DEFINE d == n \div m
<1>0. d \in Nat /\ n % m \in 0 .. m - 1  BY SMT
<1>1. n % m \in Nat /\ n = m * d + (n % m)  BY <1>0, SMT
<1> HIDE DEF d
<1>2. p \in Nat /\ p + 1 \in Nat /\ p + 1 <= m  OBVIOUS
<1>3. (p + 1) * d <= m * d /\ (p + 1) * d \in Nat /\ m * d \in Nat /\ p * d \in Nat
  BY <1>0, <1>2, Monotone
<1> QED  BY <1>0, <1>1, <1>3 DEF d

\* The shares of two lcores have no ring in common.
LEMMA SharesApart ==
  ASSUME NEW d \in Nat, NEW p \in Nat, NEW q \in Nat, p # q, NEW c \in Nat,
         p * d <= c, c < (p + 1) * d
  PROVE  ~(q * d <= c /\ c < (q + 1) * d)
<1>1. p * d \in Nat /\ q * d \in Nat /\ (p + 1) * d \in Nat /\ (q + 1) * d \in Nat
  BY SMT
<1>2. CASE p < q
  <2>1. (p + 1) * d <= q * d  BY <1>2, Monotone
  <2> QED  BY <1>1, <2>1
<1>3. CASE q < p
  <2>1. (q + 1) * d <= p * d  BY <1>3, Monotone
  <2> QED  BY <1>1, <2>1
<1> QED  BY <1>2, <1>3
=============================================================================
