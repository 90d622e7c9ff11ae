---------------------------- MODULE OutputProofs ----------------------------
(***************************************************************************)
(* Proofs about what comes out of the measurement: the capture tools, for  *)
(* every capture in time order and every limit below a second, and the     *)
(* report of an interval, for all latencies and every number of samples.   *)
(***************************************************************************)
EXTENDS BurstWidth, CdfReport, DataLemmas, FiniteSetTheorems
-----------------------------------------------------------------------------
(* Time stamps.                                                            *)

LEMMA Units ==
  /\ MsPerSec \in Nat \ {0} /\ UsecPerMs \in Nat \ {0} /\ UsecPerSec \in Nat \ {0}
  /\ Limit \in Nat /\ Limit < MsPerSec /\ MaxTime \in Nat
  /\ Limit * UsecPerMs \in Nat
  /\ (Limit + 1) * UsecPerMs = Limit * UsecPerMs + UsecPerMs
  /\ (Limit + 1) * UsecPerMs <= UsecPerSec
<1>1. MsPerSec \in Nat \ {0} /\ UsecPerMs \in Nat \ {0} /\ Limit \in Nat /\ Limit < MsPerSec /\ MaxTime \in Nat
  <2>1. Limit \in 1 .. MsPerSec - 1 /\ MsPerSec \in Nat \ {0}  BY SplitAssumption
  <2> QED  BY <2>1, SplitAssumption
<1>2. MsPerSec * UsecPerMs \in Nat /\ 1 * UsecPerMs <= MsPerSec * UsecPerMs  BY <1>1, Monotone
<1>3. (Limit + 1) * UsecPerMs <= MsPerSec * UsecPerMs  BY <1>1, Monotone
<1>4. Limit * UsecPerMs \in Nat /\ (Limit + 1) * UsecPerMs = Limit * UsecPerMs + UsecPerMs
  BY <1>1, SMT
<1>5. 1 * UsecPerMs = UsecPerMs  BY <1>1
<1> QED  BY <1>1, <1>2, <1>3, <1>4, <1>5 DEF UsecPerSec

\* What the difference of two time stamps tells of the time between them.
LEMMA Between ==
  ASSUME NEW z \in Nat, NEW t \in Nat
  PROVE  LET sec == Ts(t).tv_sec - Ts(z).tv_sec
             usec == Ts(t).tv_usec - Ts(z).tv_usec
         IN /\ sec \in Int /\ usec \in Int /\ -UsecPerSec < usec /\ usec < UsecPerSec
            /\ sec = 0 => t - z = usec
            /\ sec = 1 => t - z = UsecPerSec + usec
            /\ sec >= 2 => t - z > UsecPerSec
            /\ z <= t => sec >= 0
<1> DEFINE a == t \div UsecPerSec
           b == t % UsecPerSec
           c == z \div UsecPerSec
           d == z % UsecPerSec
           T == UsecPerSec
<1>1. /\ Ts(t).tv_sec = a /\ Ts(t).tv_usec = b /\ Ts(z).tv_sec = c /\ Ts(z).tv_usec = d
  BY DEF Ts
<1>2. T \in Nat \ {0}  BY Units
<1>3. a \in Nat /\ b \in 0 .. T - 1 /\ a * T \in Nat /\ t = a * T + b  BY <1>2, DivMod
<1>4. c \in Nat /\ d \in 0 .. T - 1 /\ c * T \in Nat /\ z = c * T + d  BY <1>2, DivMod
<1>5. z <= t => c <= a  BY <1>2, DivMonotone
<1> HIDE DEF a, b, c, d, T
<1>6. a - c = 0 => t - z = b - d
  <2> SUFFICES ASSUME a = c PROVE t - z = b - d
    BY <1>3, <1>4
  <2>1. a * T = c * T  OBVIOUS
  <2> QED  BY <1>2, <1>3, <1>4, <2>1
<1>7. a - c = 1 => t - z = T + (b - d)
  <2> SUFFICES ASSUME a = c + 1 PROVE t - z = T + (b - d)
    BY <1>3, <1>4
  <2>1. (c + 1) * T = c * T + T  BY <1>2, <1>4, SMT
  <2>2. a * T = c * T + T  BY <2>1
  <2> QED  BY <1>2, <1>3, <1>4, <2>2
<1>8. a - c >= 2 => t - z > T
  <2> SUFFICES ASSUME c + 2 <= a PROVE t - z > T
    BY <1>3, <1>4
  <2>1. (c + 2) * T = c * T + T + T  BY <1>2, <1>4, SMT
  <2>2. (c + 2) * T <= a * T  BY <1>2, <1>3, <1>4, Monotone
  <2> QED  BY <1>2, <1>3, <1>4, <2>1, <2>2
<1> QED  BY <1>1, <1>2, <1>3, <1>4, <1>5, <1>6, <1>7, <1>8 DEF T

\* The whole milliseconds of a time are at most n just if it is below n + 1 of them.
LEMMA Whole ==
  ASSUME NEW x \in Nat, NEW n \in Nat
  PROVE  /\ x \div UsecPerMs \in Nat
         /\ x \div UsecPerMs <= n <=> x < (n + 1) * UsecPerMs
         /\ (x \div UsecPerMs) * UsecPerMs \in Nat
         /\ (x \div UsecPerMs) * UsecPerMs <= x /\ x < (x \div UsecPerMs) * UsecPerMs + UsecPerMs
<1> DEFINE q == x \div UsecPerMs
           U == UsecPerMs
<1>1. U \in Nat \ {0}  BY Units
<1>2. q \in Nat /\ q * U \in Nat /\ x = q * U + (x % U) /\ x % U \in 0 .. U - 1
  BY <1>1, DivMod
<1> HIDE DEF q, U
<1>3. q * U <= x /\ x < q * U + U  BY <1>1, <1>2
<1>4. (q + 1) * U = q * U + U /\ (n + 1) * U \in Nat  BY <1>1, <1>2, SMT
<1>5. q <= n => (q + 1) * U <= (n + 1) * U  BY <1>1, <1>2, Monotone
<1>6. n + 1 <= q => (n + 1) * U <= q * U  BY <1>1, <1>2, Monotone
<1>7. q <= n <=> x < (n + 1) * U
  <2>1. CASE q <= n  BY <1>1, <1>2, <1>3, <1>4, <1>5, <2>1
  <2>2. CASE n + 1 <= q  BY <1>1, <1>2, <1>3, <1>4, <1>6, <2>2
  <2> QED  BY <1>2, <2>1, <2>2
<1> QED  BY <1>2, <1>3, <1>7 DEF q, U

\* less_second finds the times within the limit: at most a millisecond beyond it, as
\* int division cuts the rest off.
LEMMA Near ==
  ASSUME NEW z \in Nat, NEW t \in Nat, z <= t
  PROVE  IF less_second(Ts(z), Ts(t)) THEN t - z < (Limit + 1) * UsecPerMs
         ELSE t - z > Limit * UsecPerMs
<1> DEFINE sec == Ts(t).tv_sec - Ts(z).tv_sec
           usec == Ts(t).tv_usec - Ts(z).tv_usec
           U == UsecPerMs
           T == UsecPerSec
<1>1. /\ sec \in Nat /\ usec \in Int /\ -T < usec /\ usec < T
      /\ sec = 0 => t - z = usec
      /\ sec = 1 => t - z = T + usec
      /\ sec >= 2 => t - z > T
  BY Between
<1>2. less_second(Ts(z), Ts(t)) <=> \/ sec = 0 /\ Quotient(usec, U) <= Limit
                                    \/ sec = 1 /\ Quotient(usec, U) <= Limit - MsPerSec
  BY DEF less_second
<1> HIDE DEF sec, usec
<1>3. U \in Nat \ {0} /\ T \in Nat \ {0} /\ Limit \in Nat /\ Limit < MsPerSec /\ MsPerSec \in Nat
      /\ Limit * U \in Nat /\ (Limit + 1) * U = Limit * U + U /\ (Limit + 1) * U <= T
  BY Units
<1>4. CASE sec = 0
  <2>1. usec \in Nat /\ usec = t - z  BY <1>1, <1>4
  <2>2. Quotient(usec, U) = usec \div U  BY <2>1 DEF Quotient
  <2>3. usec \div U <= Limit <=> usec < (Limit + 1) * U  BY <1>3, <2>1, Whole
  <2>4. less_second(Ts(z), Ts(t)) <=> usec \div U <= Limit  BY <1>2, <1>4, <2>2
  <2> HIDE DEF U, T
  <2> QED  BY <1>3, <2>1, <2>3, <2>4 DEF U
<1>5. CASE sec = 1
  <2>1. t - z = T + usec  BY <1>1, <1>5
  <2>2. less_second(Ts(z), Ts(t)) <=> Quotient(usec, U) <= Limit - MsPerSec  BY <1>2, <1>5
  <2>3. CASE usec >= 0
    <3>1. Quotient(usec, U) = usec \div U  BY <2>3 DEF Quotient
    <3>2. usec \div U \in Nat  BY <1>1, <2>3, Whole
    <3>3. ~less_second(Ts(z), Ts(t))  BY <1>3, <2>2, <3>1, <3>2
    <3> HIDE DEF U, T
    <3> QED  BY <1>1, <1>3, <2>1, <2>3, <3>3 DEF U
  <2>4. CASE usec < 0
    <3>1. PICK x \in Nat : x = -usec  BY <1>1, <2>4
    <3>2. Quotient(usec, U) = -(x \div U)  BY <1>1, <2>4, <3>1 DEF Quotient
    <3>3. PICK n \in Nat : n = MsPerSec - Limit - 1  BY <1>3
    <3>4. x \div U \in Nat /\ (x \div U <= n <=> x < (n + 1) * U)  BY Whole
    <3>5. less_second(Ts(z), Ts(t)) <=> ~(x \div U <= n)  BY <1>3, <2>2, <3>2, <3>3, <3>4
    <3>6. (n + 1) * U = T - Limit * U
      <4>1. n + 1 = MsPerSec - Limit  BY <1>3, <3>3
      <4>2. (MsPerSec - Limit) * U = MsPerSec * U - Limit * U  BY <1>3, SMT
      <4> QED  BY <4>1, <4>2 DEF UsecPerSec
    <3> HIDE DEF U, T
    <3> QED  BY <1>1, <1>3, <2>1, <3>1, <3>4, <3>5, <3>6 DEF U
  <2> QED  BY <1>1, <2>3, <2>4
<1>6. CASE sec >= 2
  <2>1. ~less_second(Ts(z), Ts(t))  BY <1>1, <1>2, <1>6
  <2> HIDE DEF U, T
  <2> QED  BY <1>1, <1>3, <1>6, <2>1 DEF U
<1> QED  BY <1>1, <1>4, <1>5, <1>6

\* The width of what lasts no longer than a file: there is one, and it is the time to
\* the millisecond.
LEMMA WidthIs ==
  ASSUME NEW z \in Nat, NEW t \in Nat, z <= t, t - z < (Limit + 1) * UsecPerMs
  PROVE  LET width == Width(Ts(t).tv_sec - Ts(z).tv_sec, Ts(t).tv_usec - Ts(z).tv_usec) IN
         /\ width # {}
         /\ \A w \in width : /\ w \in Nat /\ w <= Limit + 1 /\ w * UsecPerMs \in Nat
                             /\ (t - z) - UsecPerMs < w * UsecPerMs
                             /\ w * UsecPerMs < (t - z) + UsecPerMs
<1> DEFINE sec == Ts(t).tv_sec - Ts(z).tv_sec
           usec == Ts(t).tv_usec - Ts(z).tv_usec
           U == UsecPerMs
           T == UsecPerSec
<1>1. /\ sec \in Nat /\ usec \in Int /\ -T < usec /\ usec < T
      /\ sec = 0 => t - z = usec
      /\ sec = 1 => t - z = T + usec
      /\ sec >= 2 => t - z > T
  BY Between, SMTT(20)
<1> HIDE DEF sec, usec
<1>2. U \in Nat \ {0} /\ T \in Nat \ {0} /\ Limit \in Nat /\ Limit < MsPerSec /\ MsPerSec \in Nat
      /\ Limit * U \in Nat /\ (Limit + 1) * U = Limit * U + U /\ (Limit + 1) * U <= T
  BY Units
<1>3. sec \in {0, 1}
  <2> HIDE DEF U, T
  <2>1. ~(sec >= 2)  BY <1>1, <1>2 DEF U
  <2> QED  BY <1>1, <2>1
<1>4. CASE sec = 0
  <2>1. usec \in Nat /\ usec = t - z  BY <1>1, <1>4
  <2>2. Width(sec, usec) = {usec \div U}  BY <1>4, <2>1 DEF Width, Quotient
  <2>3. usec \div U \in Nat /\ (usec \div U <= Limit <=> usec < (Limit + 1) * U)
        /\ (usec \div U) * U \in Nat /\ (usec \div U) * U <= usec /\ usec < (usec \div U) * U + U
    BY <1>2, <2>1, Whole
  <2>4. PICK w : w = usec \div U
    OBVIOUS
  <2>5. w \in Nat /\ w <= Limit + 1 /\ w * U \in Nat /\ (t - z) - U < w * U /\ w * U < (t - z) + U
    <3> HIDE DEF U, T
    <3> QED  BY <1>2, <2>1, <2>3, <2>4 DEF U
  <2> QED  BY <2>2, <2>4, <2>5 DEF sec, usec
<1>5. CASE sec = 1
  <2>1. t - z = T + usec /\ usec < 0
    <3> HIDE DEF U, T
    <3> QED  BY <1>1, <1>2, <1>5 DEF U
  <2>2. PICK x \in Nat : x = -usec  BY <1>1, <2>1
  <2>3. x \div U \in Nat /\ (x \div U) * U \in Nat /\ (x \div U) * U <= x /\ x < (x \div U) * U + U
    BY Whole
  <2>4. PICK q \in Nat : q = x \div U  BY <2>3
  <2>5. Quotient(usec, U) = -q  BY <1>1, <2>1, <2>2, <2>4 DEF Quotient
  <2>6. Width(sec, usec) = {MsPerSec - q}  BY <1>1, <1>2, <1>5, <2>1, <2>5 DEF Width
  <2>7. (MsPerSec - q) * U = T - q * U  BY <1>2, SMT DEF UsecPerSec
  <2>8. q * U \in Nat /\ q * U <= x /\ x < q * U + U  BY <2>3, <2>4
  <2>9. q <= MsPerSec
    <3>1. MsPerSec <= q => MsPerSec * U <= q * U  BY <1>2, Monotone
    <3>2. T = MsPerSec * U  BY DEF UsecPerSec
    <3> HIDE DEF U, T
    <3> QED  BY <1>1, <1>2, <2>2, <2>8, <3>1, <3>2
  <2>10. PICK w \in Nat : w = MsPerSec - q  BY <1>2, <2>9
  <2>11. w * U \in Nat /\ (t - z) - U < w * U /\ w * U < (t - z) + U
    <3>1. w * U = T - q * U  BY <2>7, <2>10
    <3>2. w * U \in Nat  BY <1>2, SMT
    <3> HIDE DEF U, T
    <3> QED  BY <1>1, <1>2, <2>1, <2>2, <2>8, <3>1, <3>2
  <2>12. w <= Limit + 1
    <3>1. Limit + 2 <= w => (Limit + 2) * U <= w * U  BY <1>2, Monotone
    <3>2. (Limit + 2) * U = (Limit + 1) * U + U  BY <1>2, SMT
    <3> HIDE DEF U, T
    <3>3. ~(Limit + 2 <= w)  BY <1>2, <2>11, <3>1, <3>2 DEF U
    <3> QED  BY <1>2, <3>3
  <2> QED  BY <2>6, <2>10, <2>11, <2>12 DEF sec, usec
<1> QED  BY <1>3, <1>4, <1>5

\* Whatever stamp was read, a width is no negative number.
LEMMA WidthTyped ==
  ASSUME NEW z \in Nat, NEW t \in Nat
  PROVE  Width(Ts(t).tv_sec - Ts(z).tv_sec, Ts(t).tv_usec - Ts(z).tv_usec) \subseteq Nat
<1> DEFINE sec == Ts(t).tv_sec - Ts(z).tv_sec
           usec == Ts(t).tv_usec - Ts(z).tv_usec
           U == UsecPerMs
           T == UsecPerSec
<1>1. sec \in Int /\ usec \in Int /\ -T < usec /\ usec < T  BY Between
<1> HIDE DEF sec, usec
<1>2. U \in Nat \ {0} /\ T \in Nat \ {0} /\ MsPerSec \in Nat \ {0}  BY Units
<1>3. CASE sec = 1 /\ usec <= 0
  <2>1. PICK x \in Nat : x = -usec /\ (usec = 0 => x = 0)  BY <1>1, <1>3
  <2>2. x \div U \in Nat /\ (x \div U <= MsPerSec - 1 <=> x < ((MsPerSec - 1) + 1) * U)
    BY <1>2, Whole
  <2>3. ((MsPerSec - 1) + 1) * U = T
    <3>1. (MsPerSec - 1) + 1 = MsPerSec  BY <1>2
    <3> QED  BY <3>1 DEF UsecPerSec
  <2>4. x < T
    <3> HIDE DEF T
    <3> QED  BY <1>1, <1>2, <2>1
  <2>5. x \div U <= MsPerSec - 1  BY <2>2, <2>3, <2>4
  <2>6. Quotient(usec, U) = -(x \div U)
    <3>1. CASE usec < 0  BY <1>1, <2>1, <3>1 DEF Quotient
    <3>2. CASE usec = 0
      <4>1. x = 0  BY <2>1, <3>2
      <4>2. 0 \div U <= 0 <=> 0 < (0 + 1) * U  BY Whole
      <4>3. (0 + 1) * U = U  BY <1>2
      <4>4. 0 \div U = 0  BY <1>2, <2>2, <4>1, <4>2, <4>3
      <4> QED  BY <3>2, <4>1, <4>4 DEF Quotient
    <3> QED  BY <1>1, <1>3, <3>1, <3>2
  <2>7. Width(sec, usec) = {MsPerSec - (x \div U)}  BY <1>2, <1>3, <2>2, <2>6 DEF Width
  <2> QED  BY <1>2, <2>2, <2>5, <2>7 DEF sec, usec
<1>4. CASE sec = 0 /\ usec >= 0
  <2>1. usec \div U \in Nat  BY <1>1, <1>4, Whole
  <2>2. Width(sec, usec) = {usec \div U}  BY <1>4 DEF Width, Quotient
  <2> QED  BY <2>1, <2>2 DEF sec, usec
<1>5. CASE ~(sec = 1 /\ usec <= 0) /\ ~(sec = 0 /\ usec >= 0)
  <2>1. Width(sec, usec) = {}  BY <1>5 DEF Width
  <2> QED  BY <2>1 DEF sec, usec
<1> QED  BY <1>3, <1>4, <1>5
-----------------------------------------------------------------------------
(* The files, one after the other.                                         *)

\* FlattenSeq is the end of what its recursion unfolds to.
Joined(g, fs) ==
  /\ g[1] = fs[1]
  /\ \A i \in 2 .. Len(fs) : g[i] = g[i - 1] \o fs[i]

LEMMA JoinedExists ==
  ASSUME NEW V, NEW fs \in Seq(Seq(V)), Len(fs) > 0
  PROVE  \E g \in [1 .. Len(fs) -> Seq(V)] : Joined(g, fs)
<1> DEFINE n == Len(fs)
           S == Seq(V)
           step == [i \in Nat |-> IF i \in 1 .. n THEN [x \in S |-> x \o fs[i]] ELSE [x \in S |-> x]]
<1>1. n \in Nat \ {0} /\ \A i \in 1 .. n : fs[i] \in S  BY LenProperties, ElementOfSeq
<1>2. <<>> \in S  OBVIOUS
<1>3. step \in [Nat -> [S -> S]]
  <2>1. \A i \in 1 .. n : \A x \in S : x \o fs[i] \in S  BY <1>1, ConcatProperties
  <2> HIDE DEF S
  <2> QED  BY <2>1
<1>4. \A i \in 1 .. n : \A x \in S : step[i][x] = x \o fs[i]
  <2> SUFFICES ASSUME NEW i \in 1 .. n PROVE \A x \in S : step[i][x] = x \o fs[i]
    OBVIOUS
  <2>1. i \in Nat  BY <1>1
  <2>2. step[i] = [x \in S |-> x \o fs[i]]  BY <2>1
  <2> HIDE DEF step, S
  <2>3. \A x \in S : [y \in S |-> y \o fs[i]][x] = x \o fs[i]  BY Zenon
  <2> QED  BY <2>2, <2>3
<1> HIDE DEF step, S
<1>5. PICK g \in [0 .. n -> S] : Unfolds(g, <<>>, step, n)  BY <1>1, <1>2, <1>3, Recursion
<1>6. \A i \in 1 .. n : g[i] = g[i - 1] \o fs[i]
  <2> SUFFICES ASSUME NEW i \in 1 .. n PROVE g[i] = g[i - 1] \o fs[i]
    OBVIOUS
  <2>1. i - 1 \in 0 .. n  BY <1>1
  <2> QED  BY <1>4, <1>5, <2>1 DEF Unfolds
<1> DEFINE h == [i \in 1 .. n |-> g[i]]
<1>7. h \in [1 .. n -> S]  BY <1>1
<1>8. h[1] = fs[1]
  <2>0. 1 \in 1 .. n /\ 1 - 1 = 0  BY <1>1
  <2>1. g[1] = g[0] \o fs[1] /\ g[0] = <<>> /\ fs[1] \in S  BY <1>1, <1>5, <1>6, <2>0 DEF Unfolds
  <2>2. <<>> \o fs[1] = fs[1]  BY <2>1, ConcatEmptySeq DEF S
  <2> QED  BY <1>1, <2>1, <2>2
<1>9. \A i \in 2 .. n : h[i] = h[i - 1] \o fs[i]
  <2> SUFFICES ASSUME NEW i \in 2 .. n PROVE h[i] = h[i - 1] \o fs[i]
    OBVIOUS
  <2>1. i \in 1 .. n /\ i - 1 \in 1 .. n  BY <1>1
  <2> QED  BY <1>6, <2>1
<1> HIDE DEF h
<1> QED  BY <1>7, <1>8, <1>9 DEF Joined, S

LEMMA JoinedUnique ==
  ASSUME NEW V, NEW fs \in Seq(Seq(V)), Len(fs) > 0,
         NEW g, NEW h, Joined(g, fs), Joined(h, fs)
  PROVE  \A i \in 1 .. Len(fs) : g[i] = h[i]
<1> DEFINE n == Len(fs)
           S == {i \in Nat : i \in 1 .. n => g[i] = h[i]}
<1>1. n \in Nat  BY LenProperties
<1>2. 0 \in S  BY <1>1
<1>3. ASSUME NEW i \in Nat, i \in S PROVE i + 1 \in S
  <2> SUFFICES ASSUME i + 1 \in 1 .. n PROVE g[i + 1] = h[i + 1]
    OBVIOUS
  <2>1. CASE i = 0  BY <2>1 DEF Joined
  <2>2. CASE i # 0
    <3>1. i \in 1 .. n /\ i + 1 \in 2 .. n /\ (i + 1) - 1 = i  BY <1>1, <2>2
    <3>2. g[i] = h[i]  BY <1>3, <3>1
    <3> HIDE DEF S, n
    <3> QED  BY <3>1, <3>2 DEF Joined, n
  <2> QED  BY <2>1, <2>2
<1> HIDE DEF S
<1>4. \A i \in Nat : i \in S  BY <1>2, <1>3, Induction
<1> QED  BY <1>1, <1>4 DEF S

LEMMA Flattened ==
  ASSUME NEW V, NEW fs \in Seq(Seq(V)), Len(fs) > 0, NEW g, Joined(g, fs)
  PROVE  FlattenSeq(fs) = g[Len(fs)]
<1> DEFINE n == Len(fs)
           Is(f) == f = [i \in 1 .. n |-> IF i = 1 THEN fs[i] ELSE f[i - 1] \o fs[i]]
           f0 == CHOOSE f : Is(f)
<1>1. n \in Nat \ {0}  BY LenProperties
<1>2. FlattenSeq(fs) = f0[n]  BY <1>1 DEF FlattenSeq
<1>3. PICK h \in [1 .. n -> Seq(V)] : Joined(h, fs)  BY JoinedExists
<1>4. Is(h)
  <2>1. ASSUME NEW i \in 1 .. n PROVE h[i] = IF i = 1 THEN fs[i] ELSE h[i - 1] \o fs[i]
    <3>1. CASE i = 1  BY <1>3, <3>1 DEF Joined
    <3>2. CASE i # 1
      <4>1. i \in 2 .. Len(fs)  BY <1>1, <3>2
      <4> QED  BY <1>3, <3>2, <4>1 DEF Joined
    <3> QED  BY <3>1, <3>2
  <2> QED  BY <1>3, <2>1
<1>5. Is(f0)  BY <1>4
<1> HIDE DEF f0
<1>6. \A i \in 1 .. n : f0[i] = IF i = 1 THEN fs[i] ELSE f0[i - 1] \o fs[i]
  <2>1. f0 = [i \in 1 .. n |-> IF i = 1 THEN fs[i] ELSE f0[i - 1] \o fs[i]]  BY <1>5
  <2> QED  BY <2>1
<1>7. Joined(f0, fs)
  <2>1. 1 \in 1 .. n  BY <1>1
  <2>2. f0[1] = fs[1]  BY <1>6, <2>1
  <2>3. ASSUME NEW i \in 2 .. Len(fs) PROVE f0[i] = f0[i - 1] \o fs[i]
    <3>1. i \in 1 .. n /\ i # 1  BY <1>1
    <3> QED  BY <1>6, <3>1
  <2> QED  BY <2>2, <2>3 DEF Joined
<1>8. f0[n] = g[n]  BY <1>1, <1>7, JoinedUnique
<1> QED  BY <1>2, <1>8

\* A sequence more is at the end of the whole.
LEMMA FlattenAppend ==
  ASSUME NEW V, NEW fs \in Seq(Seq(V)), Len(fs) > 0, NEW w \in Seq(V)
  PROVE  FlattenSeq(Append(fs, w)) = FlattenSeq(fs) \o w
<1> DEFINE n == Len(fs)
           gs == Append(fs, w)
<1>1. n \in Nat \ {0} /\ gs \in Seq(Seq(V)) /\ Len(gs) = n + 1 /\ gs[n + 1] = w
      /\ \A i \in 1 .. n : gs[i] = fs[i]
  BY AppendProperties, LenProperties
<1> HIDE DEF gs
<1>2. PICK g \in [1 .. n -> Seq(V)] : Joined(g, fs)  BY JoinedExists
<1> DEFINE h == [i \in 1 .. n + 1 |-> IF i = n + 1 THEN g[n] \o w ELSE g[i]]
<1>3. h[n + 1] = g[n] \o w /\ \A i \in 1 .. n : h[i] = g[i]  BY <1>1
<1> HIDE DEF h
<1>4. Joined(h, gs)
  <2>1. h[1] = gs[1]  BY <1>1, <1>2, <1>3 DEF Joined
  <2>2. ASSUME NEW i \in 2 .. n + 1 PROVE h[i] = h[i - 1] \o gs[i]
    <3>1. CASE i = n + 1
      <4>1. i - 1 = n /\ n \in 1 .. n  BY <1>1, <3>1
      <4>2. h[i - 1] = g[n] /\ h[i] = g[n] \o w /\ gs[i] = w  BY <1>1, <1>3, <3>1, <4>1
      <4> QED  BY <4>2
    <3>2. CASE i # n + 1
      <4>1. i \in 1 .. n /\ i - 1 \in 1 .. n /\ i \in 2 .. n  BY <1>1, <3>2
      <4> HIDE DEF n
      <4> QED  BY <1>1, <1>2, <1>3, <4>1 DEF Joined, n
    <3> QED  BY <3>1, <3>2
  <2> QED  BY <1>1, <2>1, <2>2 DEF Joined
<1>5. FlattenSeq(gs) = h[n + 1]
  <2>1. Len(gs) > 0 /\ Len(gs) = n + 1  BY <1>1
  <2> HIDE DEF n
  <2> QED  BY <1>1, <1>4, <2>1, Flattened
<1>6. FlattenSeq(fs) = g[n]  BY <1>1, <1>2, Flattened
<1> QED  BY <1>3, <1>5, <1>6 DEF gs

\* So is an element more in the last one.
LEMMA FlattenExtend ==
  ASSUME NEW V, NEW fs \in Seq(Seq(V)), Len(fs) > 0, NEW p \in V
  PROVE  FlattenSeq([fs EXCEPT ![Len(fs)] = Append(@, p)]) = Append(FlattenSeq(fs), p)
<1> DEFINE n == Len(fs)
           gs == [fs EXCEPT ![n] = Append(@, p)]
<1>1. n \in Nat \ {0} /\ fs[n] \in Seq(V)  BY LenProperties, ElementOfSeq
<1>2. Append(fs[n], p) \in Seq(V)  BY <1>1, AppendProperties
<1>3. /\ gs \in Seq(Seq(V)) /\ Len(gs) = n
      /\ gs[n] = Append(fs[n], p) /\ \A i \in 1 .. n : i # n => gs[i] = fs[i]
  <2>1. gs = [fs EXCEPT ![n] = Append(fs[n], p)]  OBVIOUS
  <2> QED  BY <1>1, <1>2, <2>1, ExceptSeq
<1> HIDE DEF gs
<1>4. PICK g \in [1 .. n -> Seq(V)] : Joined(g, fs)  BY JoinedExists
<1> DEFINE h == [i \in 1 .. n |-> IF i = n THEN Append(g[n], p) ELSE g[i]]
<1>5. h[n] = Append(g[n], p) /\ \A i \in 1 .. n : i # n => h[i] = g[i]  BY <1>1
<1> HIDE DEF h
<1>6. Joined(h, gs)
  <2>1. h[1] = gs[1]
    <3>1. g[1] = fs[1] /\ 1 \in 1 .. n  BY <1>1, <1>4 DEF Joined
    <3>2. CASE n = 1  BY <1>3, <1>5, <3>1, <3>2
    <3>3. CASE n # 1  BY <1>3, <1>5, <3>1, <3>3
    <3> QED  BY <3>2, <3>3
  <2>2. ASSUME NEW i \in 2 .. n PROVE h[i] = h[i - 1] \o gs[i]
    <3>0. i \in 1 .. n /\ i - 1 \in 1 .. n /\ i - 1 # n  BY <1>1
    <3>1. g[i] = g[i - 1] \o fs[i] /\ h[i - 1] = g[i - 1]  BY <1>4, <1>5, <3>0 DEF Joined
    <3>2. CASE i = n
      <4>1. g[n - 1] \o Append(fs[n], p) = Append(g[n - 1] \o fs[n], p)
        <5>1. g[n - 1] \in Seq(V)  BY <3>0, <3>2
        <5>2. PICK a, b : a = g[n - 1] /\ b = fs[n]
          OBVIOUS
        <5>3. a \in Seq(V) /\ b \in Seq(V)  BY <1>1, <5>1, <5>2
        <5>4. a \o Append(b, p) = Append(a \o b, p)  BY <5>3, ConcatAppend
        <5> QED  BY <5>2, <5>4
      <4> QED  BY <1>3, <1>5, <3>1, <3>2, <4>1
    <3>3. CASE i # n  BY <1>3, <1>5, <3>0, <3>1, <3>3
    <3> QED  BY <3>2, <3>3
  <2> QED  BY <1>3, <2>1, <2>2 DEF Joined
<1>7. FlattenSeq(gs) = h[n]  BY <1>1, <1>3, <1>6, Flattened
<1>8. FlattenSeq(fs) = g[n]  BY <1>1, <1>4, Flattened
<1> QED  BY <1>5, <1>7, <1>8 DEF gs
-----------------------------------------------------------------------------
(* split_pcap_bytime.                                                      *)

Readable == [t : 0 .. MaxTime, src : Sources]

\* A file's packets are in time order; of the last file, none is after the last packet
\* read, and its first is what the next packet is measured from.
FileInOrder(file) == \A i, j \in DOMAIN file : i <= j => file[i].t <= file[j].t
OpenFile ==
  LET file == files[Len(files)] IN
  /\ pkt_header_0 = Ts(file[1].t)
  /\ \A i \in DOMAIN file : file[i].t <= capture[Len(capture)].t

SplitInv ==
  /\ capture \in Seq(Readable) /\ files \in Seq(Seq(Readable)) /\ Len(files) > 0
  /\ SplitKeepsCapture /\ FilesAreBursts
  /\ \A k \in DOMAIN files : FileInOrder(files[k])
  /\ IF capture = <<>> THEN files = << <<>> >> /\ pkt_header_0 = Ts(0)
     ELSE OpenFile /\ \A k \in DOMAIN files : files[k] # <<>>

LEMMA SplitStart == SplitInit => SplitInv
<1> SUFFICES ASSUME SplitInit PROVE SplitInv
  OBVIOUS
<1>1. capture = <<>> /\ files = << <<>> >> /\ pkt_header_0 = Ts(0)  BY DEF SplitInit
<1>2. <<>> \in Seq(Readable) /\ files \in Seq(Seq(Readable)) /\ Len(files) = 1 /\ files[1] = <<>>
  BY <1>1
<1>3. FlattenSeq(files) = <<>>
  <2>1. Joined(files, files)  BY <1>2 DEF Joined
  <2>2. PICK fs \in Seq(Seq(Readable)) : fs = files  BY <1>2
  <2>3. Joined(fs, fs) /\ Len(fs) > 0  BY <1>2, <2>1, <2>2
  <2>4. FlattenSeq(fs) = fs[Len(fs)]  BY <2>3, Flattened
  <2> QED  BY <1>2, <2>2, <2>4
<1>4. \A k \in DOMAIN files : files[k] = <<>> /\ k = 1  BY <1>1
<1>5. DOMAIN (<<>>) = {} /\ \A x : x \notin 1 .. 0  OBVIOUS
<1>6. FilesAreBursts /\ \A k \in DOMAIN files : FileInOrder(files[k])
  BY <1>2, <1>4, <1>5 DEF FilesAreBursts, SplitWithin, FileInOrder
<1> QED  BY <1>1, <1>2, <1>3, <1>6 DEF SplitInv, SplitKeepsCapture

\* A packet joins the current file.
LEMMA JoinsFile ==
  ASSUME SplitInv, NEW p \in Readable, capture # <<>> => capture[Len(capture)].t <= p.t,
         capture' = Append(capture, p), files' = [files EXCEPT ![Len(files)] = Append(@, p)],
         pkt_header_0' = IF capture = <<>> THEN Ts(p.t) ELSE pkt_header_0,
         capture # <<>> => p.t - files[Len(files)][1].t < (Limit + 1) * UsecPerMs
  PROVE  SplitInv'
<1>n. PICK n : n = Len(files)
  OBVIOUS
<1>f. PICK f : f = files[n]
  OBVIOUS
<1>e. PICK e : e = Append(f, p)
  OBVIOUS
<1>1. /\ n \in Nat \ {0} /\ files \in Seq(Seq(Readable)) /\ capture \in Seq(Readable)
      /\ f \in Seq(Readable) /\ DOMAIN files = 1 .. n
  <2>1. n \in Nat \ {0} /\ files \in Seq(Seq(Readable)) /\ capture \in Seq(Readable)
        /\ DOMAIN files = 1 .. n
    BY <1>n, LenProperties DEF SplitInv
  <2>2. n \in 1 .. Len(files)  BY <1>n, <2>1
  <2> QED  BY <1>f, <2>1, <2>2, ElementOfSeq
<1>2. /\ e \in Seq(Readable) /\ Len(e) = Len(f) + 1 /\ Len(f) \in Nat /\ e[Len(f) + 1] = p
      /\ \A i \in 1 .. Len(f) : e[i] = f[i]
      /\ DOMAIN e = 1 .. Len(f) + 1 /\ DOMAIN f = 1 .. Len(f) /\ e # <<>>
  BY <1>1, <1>e, AppendProperties, LenProperties
<1>3. /\ files' \in Seq(Seq(Readable)) /\ Len(files') = n /\ DOMAIN files' = 1 .. n
      /\ files'[n] = e /\ \A k \in 1 .. n : k # n => files'[k] = files[k]
  <2>1. files' = [files EXCEPT ![n] = e]  BY <1>n, <1>f, <1>e
  <2>3. n \in 1 .. Len(files)  BY <1>1, <1>n
  <2>2. files' \in Seq(Seq(Readable)) /\ Len(files') = n
        /\ files'[n] = e /\ \A k \in 1 .. n : k # n => files'[k] = files[k]
    <3>1. PICK S : S = Seq(Readable)
      OBVIOUS
    <3>2. files \in Seq(S) /\ e \in S /\ n \in 1 .. Len(files)  BY <1>1, <1>2, <2>3, <3>1
    <3>3. [files EXCEPT ![n] = e] \in Seq(S) /\ Len([files EXCEPT ![n] = e]) = Len(files)
          /\ \A k \in 1 .. Len(files) : [files EXCEPT ![n] = e][k] = IF k = n THEN e ELSE files[k]
      BY <3>2, ExceptSeq
    <3> QED  BY <1>n, <2>1, <2>3, <3>1, <3>3
  <2> QED  BY <2>2, LenProperties
<1>4. /\ capture' \in Seq(Readable) /\ capture' # <<>> /\ Len(capture') = Len(capture) + 1
      /\ capture'[Len(capture')] = p
  BY <1>1, AppendProperties, LenProperties
<1>5. SplitKeepsCapture'
  BY <1>1, <1>n, FlattenExtend DEF SplitInv, SplitKeepsCapture
<1>6. p.t \in Nat /\ \A i \in 1 .. Len(f) : f[i].t \in Nat
  <2>1. \A i \in 1 .. Len(f) : f[i] \in Readable  BY <1>1, <1>2, ElementOfSeq
  <2> QED  BY <2>1, Units DEF Readable
<1>7. /\ capture = <<>> => f = <<>>
      /\ capture # <<>> => f # <<>> /\ Len(f) > 0 /\ pkt_header_0 = Ts(f[1].t)
                           /\ \A i \in 1 .. Len(f) : f[i].t <= capture[Len(capture)].t
      /\ \A k \in DOMAIN files : k # n => files[k] # <<>>
  <2>1. CASE capture = <<>>
    <3>1. files = << <<>> >>  BY <2>1 DEF SplitInv
    <3>2. n = 1 /\ f = <<>>  BY <1>n, <1>f, <3>1
    <3> QED  BY <1>1, <2>1, <3>2
  <2>2. CASE capture # <<>>
    <3>1. OpenFile /\ \A k \in DOMAIN files : files[k] # <<>>  BY <2>2 DEF SplitInv
    <3>2. f # <<>>  BY <1>1, <1>f, <3>1
    <3>3. Len(f) > 0  BY <1>1, <3>2, EmptySeq
    <3> QED  BY <1>1, <1>2, <1>n, <1>f, <2>2, <3>1, <3>2, <3>3 DEF OpenFile
  <2> QED  BY <2>1, <2>2
<1>8. \A i \in 1 .. Len(f) : f[i].t <= p.t
  <2> SUFFICES ASSUME NEW i \in 1 .. Len(f) PROVE f[i].t <= p.t
    OBVIOUS
  <2>1. capture # <<>>  BY <1>2, <1>7
  <2>2. f[i].t <= capture[Len(capture)].t /\ capture[Len(capture)].t <= p.t  BY <1>7, <2>1
  <2>3. Len(capture) \in 1 .. Len(capture)  BY <1>1, <2>1, EmptySeq
  <2>4. capture[Len(capture)] \in Readable  BY <1>1, <2>3, ElementOfSeq
  <2>5. capture[Len(capture)].t \in Nat  BY <2>4, Units DEF Readable
  <2> QED  BY <1>6, <2>2, <2>5
<1>9. e[1].t = IF capture = <<>> THEN p.t ELSE f[1].t
  <2>1. capture = <<>> => Len(f) = 0  BY <1>1, <1>7, EmptySeq
  <2>2. capture # <<>> => 1 \in 1 .. Len(f)  BY <1>2, <1>7
  <2> QED  BY <1>2, <2>1, <2>2
<1>10. FileInOrder(e)
  <2>1. FileInOrder(f)  BY <1>1, <1>f DEF SplitInv
  <2> SUFFICES ASSUME NEW i \in 1 .. Len(f) + 1, NEW j \in 1 .. Len(f) + 1, i <= j
               PROVE  e[i].t <= e[j].t
    BY <1>2 DEF FileInOrder
  <2>2. CASE j \in 1 .. Len(f)
    <3>1. i \in 1 .. Len(f)  BY <1>2, <2>2
    <3> QED  BY <1>2, <2>1, <2>2, <3>1 DEF FileInOrder
  <2>3. CASE i \in 1 .. Len(f) /\ j = Len(f) + 1  BY <1>2, <1>8, <2>3
  <2>4. CASE i = Len(f) + 1 /\ j = Len(f) + 1  BY <1>2, <1>6, <2>4
  <2> QED  BY <1>2, <2>2, <2>3, <2>4
<1>11. \A i \in DOMAIN e : e[i].t - e[1].t < (Limit + 1) * UsecPerMs
  <2> SUFFICES ASSUME NEW i \in 1 .. Len(f) + 1 PROVE e[i].t - e[1].t < (Limit + 1) * UsecPerMs
    BY <1>2
  <2>0. (Limit + 1) * UsecPerMs \in Nat /\ (Limit + 1) * UsecPerMs > 0  BY Units
  <2>1. CASE i \in 1 .. Len(f)
    <3>1. capture # <<>>  BY <1>2, <1>7, <2>1
    <3>3. n \in DOMAIN files /\ i \in DOMAIN files[n]  BY <1>1, <1>2, <1>f, <2>1
    <3>4. files[n][i].t - files[n][1].t < (Limit + 1) * UsecPerMs
      BY <3>3 DEF SplitInv, FilesAreBursts, SplitWithin
    <3>2. f[i].t - f[1].t < (Limit + 1) * UsecPerMs  BY <1>f, <3>4
    <3> QED  BY <1>2, <1>9, <2>1, <3>1, <3>2
  <2>2. CASE i = Len(f) + 1 /\ capture # <<>>
    <3>1. e[i].t = p.t /\ e[1].t = f[1].t  BY <1>2, <1>9, <2>2
    <3> QED  BY <1>n, <1>f, <2>2, <3>1
  <2>3. CASE i = Len(f) + 1 /\ capture = <<>>
    <3>1. e[i].t = p.t /\ e[1].t = p.t  BY <1>2, <1>9, <2>3
    <3> QED  BY <1>6, <2>0, <3>1
  <2> QED  BY <1>2, <2>1, <2>2, <2>3
<1>12. FilesAreBursts'
  <2> SUFFICES ASSUME NEW k \in 1 .. n
               PROVE  /\ \A i \in DOMAIN files'[k] : files'[k][i].t - files'[k][1].t < (Limit + 1) * UsecPerMs
                      /\ k < n => files'[k + 1][1].t - files'[k][1].t > Limit * UsecPerMs
    BY <1>3 DEF FilesAreBursts, SplitWithin
  <2>1. CASE k = n
    <3>1. files'[k] = e /\ ~(k < n)  BY <1>1, <1>3, <2>1
    <3> QED  BY <1>11, <3>1
  <2>2. CASE k # n
    <3>1. k < n /\ k + 1 \in 1 .. n /\ files'[k] = files[k] /\ k \in Nat /\ k > 0
      <4>1. k < n /\ k + 1 \in 1 .. n /\ k \in Nat /\ k > 0  BY <1>1, <2>2
      <4>2. files'[k] = files[k]  BY <1>3, <2>2
      <4> QED  BY <4>1, <4>2
    <3>2. capture # <<>>
      <4>1. capture = <<>> => n = 1
        <5>1. capture = <<>> => files = << <<>> >>  BY DEF SplitInv
        <5>2. Len(<< <<>> >>) = 1  OBVIOUS
        <5> QED  BY <1>n, <5>1, <5>2
      <4>2. n # 1  BY <1>1, <3>1
      <4> QED  BY <4>1, <4>2
    <3>3. files'[k + 1][1].t = files[k + 1][1].t
      <4>1. CASE k + 1 = n  BY <1>3, <1>9, <1>f, <3>2, <4>1
      <4>2. CASE k + 1 # n  BY <1>3, <3>1, <4>2
      <4> QED  BY <4>1, <4>2
    <3>4. /\ \A i \in DOMAIN files[k] : files[k][i].t - files[k][1].t < (Limit + 1) * UsecPerMs
          /\ files[k + 1][1].t - files[k][1].t > Limit * UsecPerMs
      BY <1>1, <1>n, <3>1 DEF SplitInv, FilesAreBursts, SplitWithin
    <3> QED  BY <3>1, <3>3, <3>4
  <2> QED  BY <2>1, <2>2
<1>13. \A k \in DOMAIN files' : FileInOrder(files'[k]) /\ files'[k] # <<>>
  <2> SUFFICES ASSUME NEW k \in 1 .. n PROVE FileInOrder(files'[k]) /\ files'[k] # <<>>
    BY <1>3
  <2>1. CASE k = n  BY <1>2, <1>3, <1>10, <2>1
  <2>2. CASE k # n  BY <1>1, <1>3, <1>7, <2>2 DEF SplitInv
  <2> QED  BY <2>1, <2>2
<1>14. OpenFile'
  <2>1. pkt_header_0' = Ts(e[1].t)  BY <1>7, <1>9
  <2>2. \A i \in DOMAIN e : e[i].t <= p.t
    <3> SUFFICES ASSUME NEW i \in 1 .. Len(f) + 1 PROVE e[i].t <= p.t
      BY <1>2
    <3>1. CASE i \in 1 .. Len(f)  BY <1>2, <1>8, <3>1
    <3>2. CASE i = Len(f) + 1  BY <1>2, <1>6, <3>2
    <3> QED  BY <1>2, <3>1, <3>2
  <2>3. files'[Len(files')] = e  BY <1>3
  <2> QED  BY <1>4, <2>1, <2>2, <2>3 DEF OpenFile
<1>15. Len(files') > 0  BY <1>1, <1>3
<1> QED  BY <1>3, <1>4, <1>5, <1>12, <1>13, <1>14, <1>15 DEF SplitInv, FileInOrder

\* A packet opens the next file.
LEMMA OpensFile ==
  ASSUME SplitInv, NEW p \in Readable, capture # <<>>,
         capture' = Append(capture, p), files' = Append(files, <<p>>), pkt_header_0' = Ts(p.t),
         p.t - files[Len(files)][1].t > Limit * UsecPerMs
  PROVE  SplitInv'
<1>n. PICK n : n = Len(files)
  OBVIOUS
<1>e. PICK e : e = <<p>>
  OBVIOUS
<1>1. /\ n \in Nat \ {0} /\ files \in Seq(Seq(Readable)) /\ capture \in Seq(Readable)
      /\ DOMAIN files = 1 .. n
  BY <1>n, LenProperties DEF SplitInv
<1>2. e \in Seq(Readable) /\ Len(e) = 1 /\ e[1] = p /\ DOMAIN e = {1} /\ e # <<>>
  BY <1>e
<1>3. /\ files' \in Seq(Seq(Readable)) /\ Len(files') = n + 1 /\ DOMAIN files' = 1 .. n + 1
      /\ files'[n + 1] = e /\ \A k \in 1 .. n : files'[k] = files[k]
  <2>1. files' = Append(files, e)  BY <1>e
  <2>2. files' \in Seq(Seq(Readable)) /\ Len(files') = n + 1
        /\ files'[n + 1] = e /\ \A k \in 1 .. n : files'[k] = files[k]
    BY <1>1, <1>2, <1>n, <2>1, AppendProperties
  <2> QED  BY <2>2, LenProperties
<1>4. /\ capture' \in Seq(Readable) /\ capture' # <<>> /\ Len(capture') = Len(capture) + 1
      /\ capture'[Len(capture')] = p
  BY <1>1, AppendProperties, LenProperties, SMTT(20)
<1>5. SplitKeepsCapture'
  <2>1. FlattenSeq(files') = FlattenSeq(files) \o e  BY <1>1, <1>2, <1>n, <1>e, FlattenAppend DEF SplitInv
  <2>2. capture \o e = Append(capture, p)  BY <1>1, <1>e, AppendIsConcat
  <2> QED  BY <2>1, <2>2 DEF SplitInv, SplitKeepsCapture
<1>6. p.t \in Nat  BY Units DEF Readable
<1>7. 0 < (Limit + 1) * UsecPerMs  BY Units
<1>8. FilesAreBursts'
  <2> SUFFICES ASSUME NEW k \in 1 .. n + 1
               PROVE  /\ \A i \in DOMAIN files'[k] : files'[k][i].t - files'[k][1].t < (Limit + 1) * UsecPerMs
                      /\ k < n + 1 => files'[k + 1][1].t - files'[k][1].t > Limit * UsecPerMs
    BY <1>3 DEF FilesAreBursts, SplitWithin
  <2>1. CASE k = n + 1
    <3>1. files'[k] = e  BY <1>3, <2>1
    <3>2. \A i \in DOMAIN e : e[i].t - e[1].t = 0  BY <1>2, <1>6
    <3>3. \A i \in DOMAIN e : e[i].t - e[1].t < (Limit + 1) * UsecPerMs  BY <1>7, <3>2
    <3>4. ~(k < n + 1)  BY <2>1
    <3> QED  BY <3>1, <3>3, <3>4
  <2>2. CASE k = n
    <3>1. files'[k] = files[k] /\ files'[k + 1] = e  BY <1>1, <1>3, <2>2
    <3>2. k \in DOMAIN files  BY <1>1, <2>2
    <3>3. e[1].t - files[k][1].t > Limit * UsecPerMs  BY <1>2, <1>n, <2>2
    <3>4. \A i \in DOMAIN files[k] : files[k][i].t - files[k][1].t < (Limit + 1) * UsecPerMs
      BY <3>2 DEF SplitInv, FilesAreBursts, SplitWithin
    <3> QED  BY <3>1, <3>3, <3>4
  <2>3. CASE k \in 1 .. n - 1
    <3>1. k \in 1 .. n /\ k + 1 \in 1 .. n /\ k < n  BY <1>1, <2>3
    <3>2. files'[k] = files[k] /\ files'[k + 1] = files[k + 1]  BY <1>3, <3>1
    <3>3. /\ \A i \in DOMAIN files[k] : files[k][i].t - files[k][1].t < (Limit + 1) * UsecPerMs
          /\ files[k + 1][1].t - files[k][1].t > Limit * UsecPerMs
      BY <1>1, <1>n, <3>1 DEF SplitInv, FilesAreBursts, SplitWithin
    <3> QED  BY <3>1, <3>2, <3>3
  <2>4. k = n + 1 \/ k = n \/ k \in 1 .. n - 1  BY <1>1
  <2> QED  BY <2>1, <2>2, <2>3, <2>4
<1>9. \A k \in DOMAIN files' : FileInOrder(files'[k]) /\ files'[k] # <<>>
  <2> SUFFICES ASSUME NEW k \in 1 .. n + 1 PROVE FileInOrder(files'[k]) /\ files'[k] # <<>>
    BY <1>3
  <2>1. CASE k = n + 1
    <3>1. FileInOrder(e)  BY <1>2, <1>6 DEF FileInOrder
    <3> QED  BY <1>2, <1>3, <2>1, <3>1
  <2>2. CASE k \in 1 .. n  BY <1>1, <1>3, <2>2 DEF SplitInv
  <2> QED  BY <1>1, <2>1, <2>2
<1>10. OpenFile'
  <2>1. files'[Len(files')] = e  BY <1>3
  <2>2. \A i \in DOMAIN e : e[i].t <= p.t  BY <1>2, <1>6
  <2> QED  BY <1>2, <1>4, <2>1, <2>2 DEF OpenFile
<1> QED  BY <1>1, <1>3, <1>4, <1>5, <1>8, <1>9, <1>10 DEF SplitInv, FileInOrder

LEMMA SplitKept ==
  ASSUME SplitInv, SplitStep
  PROVE  SplitInv'
<1>1. PICK t \in (IF capture = <<>> THEN 0 ELSE Last(capture).t) .. MaxTime, src \in Sources : Write(t, src)
  BY DEF SplitStep
<1> DEFINE p == [t |-> t, src |-> src]
           zero == IF capture = <<>> THEN Ts(t) ELSE pkt_header_0
           near == less_second(zero, Ts(t))
<1>2. /\ capture' = Append(capture, p)
      /\ files' = IF near THEN [files EXCEPT ![Len(files)] = Append(@, p)] ELSE Append(files, <<p>>)
      /\ pkt_header_0' = IF near THEN zero ELSE Ts(t)
  BY <1>1 DEF Write
<1>3. capture \in Seq(Readable)  BY DEF SplitInv
<1>4. capture # <<>> => capture[Len(capture)].t \in Nat /\ capture[Len(capture)].t <= t
  <2> SUFFICES ASSUME capture # <<>> PROVE capture[Len(capture)].t \in Nat /\ capture[Len(capture)].t <= t
    OBVIOUS
  <2>1. Len(capture) \in 1 .. Len(capture)  BY <1>3, EmptySeq
  <2>2. capture[Len(capture)] \in Readable  BY <1>3, <2>1, ElementOfSeq
  <2>3. capture[Len(capture)].t \in Nat  BY <2>2, Units DEF Readable
  <2> QED  BY <1>1, <2>3, Units DEF Last
<1>5. t \in 0 .. MaxTime /\ t \in Nat
  <2>1. CASE capture = <<>>  BY <1>1, <2>1, Units
  <2>2. CASE capture # <<>>  BY <1>1, <1>4, <2>2, Units DEF Last
  <2> QED  BY <2>1, <2>2
<1>6. p \in Readable /\ p.t = t  BY <1>5 DEF Readable
<1>7. capture # <<>> =>
        LET z == files[Len(files)][1].t IN
        z \in Nat /\ z <= t /\ zero = Ts(z)
  <2> SUFFICES ASSUME capture # <<>>
               PROVE  LET z == files[Len(files)][1].t IN z \in Nat /\ z <= t /\ zero = Ts(z)
    OBVIOUS
  <2>1. OpenFile /\ files \in Seq(Seq(Readable)) /\ Len(files) > 0
        /\ \A k \in DOMAIN files : files[k] # <<>>
    BY DEF SplitInv
  <2>2. PICK f : f = files[Len(files)]
    OBVIOUS
  <2>3. f \in Seq(Readable) /\ f # <<>>
    <3>1. Len(files) \in 1 .. Len(files) /\ DOMAIN files = 1 .. Len(files)  BY <2>1, LenProperties
    <3> QED  BY <2>1, <2>2, <3>1, ElementOfSeq
  <2>4. 1 \in 1 .. Len(f) /\ DOMAIN f = 1 .. Len(f)  BY <2>3, EmptySeq
  <2>5. f[1] \in Readable  BY <2>3, <2>4, ElementOfSeq
  <2>6. f[1].t \in Nat  BY <2>5, Units DEF Readable
  <2>7. f[1].t <= capture[Len(capture)].t /\ pkt_header_0 = Ts(f[1].t)  BY <2>1, <2>2, <2>4 DEF OpenFile
  <2> QED  BY <1>4, <1>5, <2>2, <2>6, <2>7
<1>8. capture = <<>> => near
  <2> SUFFICES ASSUME capture = <<>> PROVE near
    OBVIOUS
  <2>1. zero = Ts(t)  OBVIOUS
  <2>2. ~(t - t > Limit * UsecPerMs)  BY <1>5, Units
  <2>3. less_second(Ts(t), Ts(t))  BY <1>5, <2>2, Near
  <2> QED  BY <2>1, <2>3
<1>9. CASE near
  <2>1. capture # <<>> => p.t - files[Len(files)][1].t < (Limit + 1) * UsecPerMs
    BY <1>5, <1>6, <1>7, <1>9, Near
  <2>2. files' = [files EXCEPT ![Len(files)] = Append(@, p)]
        /\ pkt_header_0' = IF capture = <<>> THEN Ts(p.t) ELSE pkt_header_0
    BY <1>2, <1>6, <1>9
  <2> HIDE DEF p, near, zero
  <2> QED  BY <1>2, <1>4, <1>6, <2>1, <2>2, JoinsFile
<1>10. CASE ~near
  <2>1. capture # <<>> /\ p.t - files[Len(files)][1].t > Limit * UsecPerMs
    BY <1>5, <1>6, <1>7, <1>8, <1>10, Near
  <2>2. files' = Append(files, <<p>>) /\ pkt_header_0' = Ts(p.t)  BY <1>2, <1>6, <1>10
  <2> HIDE DEF p, near, zero
  <2> QED  BY <1>2, <1>6, <2>1, <2>2, OpensFile
<1> QED  BY <1>9, <1>10
-----------------------------------------------------------------------------
(* burst_width.                                                            *)

\* The packets of a network among the first i of a file.
OfNet(F, net, i) == {j \in 1 .. i : F[j].src.net = net}

LEMMA OfNetCounted ==
  ASSUME NEW F, NEW net, NEW i \in Nat
  PROVE  /\ IsFiniteSet(OfNet(F, net, i)) /\ Cardinality(OfNet(F, net, i)) \in Nat
         /\ Cardinality(OfNet(F, net, i + 1)) =
              Cardinality(OfNet(F, net, i)) + (IF F[i + 1].src.net = net THEN 1 ELSE 0)
<1> DEFINE A == OfNet(F, net, i)
<1>1. IsFiniteSet(A) /\ Cardinality(A) \in Nat
  <2>1. A \subseteq 1 .. i  BY DEF OfNet
  <2>2. IsFiniteSet(1 .. i)  BY FS_Interval
  <2> QED  BY <2>1, <2>2, FS_Subset, FS_CardinalityType
<1>2. i + 1 \notin A  BY DEF OfNet
<1>3. OfNet(F, net, i + 1) = IF F[i + 1].src.net = net THEN A \cup {i + 1} ELSE A
  <2>1. 1 .. i + 1 = (1 .. i) \cup {i + 1}  OBVIOUS
  <2> QED  BY <2>1 DEF OfNet
<1> HIDE DEF A
<1>4. Cardinality(A \cup {i + 1}) = Cardinality(A) + 1  BY <1>1, <1>2, FS_AddElement
<1> QED  BY <1>1, <1>3, <1>4 DEF A

LEMMA NextOfNet ==
  ASSUME NEW F, NEW net, NEW i \in Nat, F[i + 1].src.net = net
  PROVE  Cardinality(OfNet(F, net, i + 1)) = Cardinality(OfNet(F, net, i)) + 1
<1>1. PICK a, b : a = Cardinality(OfNet(F, net, i)) /\ b = Cardinality(OfNet(F, net, i + 1))
  OBVIOUS
<1>2. b = a + (IF F[i + 1].src.net = net THEN 1 ELSE 0)  BY <1>1, OfNetCounted
<1> QED  BY <1>1, <1>2

\* Their number grows along the file, and a packet of the network is counted.
LEMMA OfNetGrows ==
  ASSUME NEW F, NEW net, NEW i \in Nat, NEW r \in Nat, i <= r
  PROVE  /\ Cardinality(OfNet(F, net, i)) <= Cardinality(OfNet(F, net, r))
         /\ i > 0 /\ F[i].src.net = net => Cardinality(OfNet(F, net, i)) > 0
<1>1. OfNet(F, net, i) \subseteq OfNet(F, net, r)  BY DEF OfNet
<1>2. IsFiniteSet(OfNet(F, net, r)) /\ IsFiniteSet(OfNet(F, net, i))
      /\ Cardinality(OfNet(F, net, i)) \in Nat
  BY OfNetCounted
<1>3. Cardinality(OfNet(F, net, i)) <= Cardinality(OfNet(F, net, r))  BY <1>1, <1>2, FS_Subset
<1>4. i > 0 /\ F[i].src.net = net => i \in OfNet(F, net, i)  BY DEF OfNet
<1>5. i \in OfNet(F, net, i) => Cardinality(OfNet(F, net, i)) # 0
  BY <1>2, FS_EmptySet
<1> QED  BY <1>2, <1>3, <1>4, <1>5

Group == [net : {src.net : src \in Sources}, host : {src.host : src \in Sources}, times : Seq(0 .. MaxTime)]

\* A group's stamps: as many as its network has packets among the first r, all theirs,
\* in time order.
Stamped(F, r, group) ==
  LET times == group.times IN
  /\ Len(times) = Cardinality(OfNet(F, group.net, r)) /\ times # <<>>
  /\ \A m \in 1 .. Len(times) : \E i \in 1 .. r : times[m] = F[i].t
  /\ \A a, b \in 1 .. Len(times) : a <= b => times[a] <= times[b]

\* A packet is where it has to be in its network's group.
Placed(F, i, group) ==
  /\ group.net = F[i].src.net
  /\ group.times[Cardinality(OfNet(F, group.net, i))] = F[i].t

\* gs are the groups of the first r packets of F.
GroupsOf(F, r, gs) ==
  /\ gs \in Seq(Group)
  /\ \A g, h \in DOMAIN gs : gs[g].net = gs[h].net => g = h
  /\ \A g \in DOMAIN gs : Stamped(F, r, gs[g])
  /\ \A i \in 1 .. r : \E g \in DOMAIN gs : Placed(F, i, gs[g])

LEMMA NoGroups ==
  ASSUME NEW F
  PROVE  GroupsOf(F, 0, <<>>)
<1>1. <<>> \in Seq(Group) /\ DOMAIN (<<>>) = {}  OBVIOUS
<1>2. \A i : i \notin 1 .. 0  OBVIOUS
<1> QED  BY <1>1, <1>2 DEF GroupsOf

\* A group of another network does not see the next packet.
LEMMA OtherStamped ==
  ASSUME NEW F, NEW r \in Nat, NEW group, Stamped(F, r, group), F[r + 1].src.net # group.net
  PROVE  Stamped(F, r + 1, group)
<1>1. Cardinality(OfNet(F, group.net, r + 1)) = Cardinality(OfNet(F, group.net, r))
  BY OfNetCounted
<1>2. 1 .. r \subseteq 1 .. r + 1  OBVIOUS
<1> QED  BY <1>1, <1>2 DEF Stamped

\* The network's own does.
Grown(group, t) == [group EXCEPT !.times = Append(@, t)]

LEMMA OwnStamped ==
  ASSUME NEW F \in Seq(Readable), FileInOrder(F), NEW r \in Nat, r < Len(F), NEW group \in Group,
         Stamped(F, r, group), F[r + 1].src.net = group.net,
         NEW new, new = Grown(group, F[r + 1].t)
  PROVE  /\ new \in Group /\ new.net = group.net
         /\ Stamped(F, r + 1, new) /\ Placed(F, r + 1, new)
         /\ \A i \in 1 .. r : Placed(F, i, group) => Placed(F, i, new)
<1>t. PICK t : t = F[r + 1].t
  OBVIOUS
<1>s. PICK old : old = group.times
  OBVIOUS
<1>u. PICK times : times = Append(old, t)
  OBVIOUS
<1>1. r + 1 \in 1 .. Len(F) /\ DOMAIN F = 1 .. Len(F) /\ Len(F) \in Nat  BY LenProperties
<1>2. \A i \in 1 .. Len(F) : F[i].t \in Nat /\ F[i].t \in 0 .. MaxTime
  <2> SUFFICES ASSUME NEW i \in 1 .. Len(F) PROVE F[i].t \in Nat /\ F[i].t \in 0 .. MaxTime
    OBVIOUS
  <2>1. F[i] \in Readable  BY ElementOfSeq
  <2> QED  BY <2>1, Units DEF Readable
<1>3. t \in 0 .. MaxTime /\ t \in Nat  BY <1>1, <1>2, <1>t
<1>4. old \in Seq(0 .. MaxTime)  BY <1>s DEF Group
<1>5. /\ times \in Seq(0 .. MaxTime) /\ Len(times) = Len(old) + 1 /\ Len(old) \in Nat
      /\ times[Len(old) + 1] = t /\ \A m \in 1 .. Len(old) : times[m] = old[m]
      /\ times # <<>>
  BY <1>3, <1>4, <1>u, AppendProperties, LenProperties
<1>6. new \in Group /\ new.net = group.net /\ new.times = times
  BY <1>5, <1>t, <1>s, <1>u DEF Group, Grown
<1>7. /\ Len(old) = Cardinality(OfNet(F, group.net, r))
      /\ Cardinality(OfNet(F, group.net, r + 1)) = Len(old) + 1
  <2>1. PICK net : net = group.net
    OBVIOUS
  <2>3. Len(old) = Cardinality(OfNet(F, net, r)) /\ F[r + 1].src.net = net
    BY <1>s, <2>1 DEF Stamped
  <2>2. Cardinality(OfNet(F, net, r + 1)) = Cardinality(OfNet(F, net, r)) + 1
    BY <2>3, NextOfNet
  <2> QED  BY <2>1, <2>2, <2>3
<1>8. \A m \in 1 .. Len(old) : \E i \in 1 .. r : old[m] = F[i].t  BY <1>s DEF Stamped
<1>9. \A m \in 1 .. Len(old) : old[m] <= t /\ old[m] \in Nat
  <2> SUFFICES ASSUME NEW m \in 1 .. Len(old) PROVE old[m] <= t /\ old[m] \in Nat
    OBVIOUS
  <2>1. PICK i \in 1 .. r : old[m] = F[i].t  BY <1>8
  <2>2. i \in 1 .. Len(F) /\ i <= r + 1  BY <1>1
  <2> QED  BY <1>1, <1>2, <1>t, <2>1, <2>2 DEF FileInOrder
<1>10. Stamped(F, r + 1, new)
  <2>1. Len(times) = Cardinality(OfNet(F, new.net, r + 1)) /\ times # <<>>  BY <1>5, <1>6, <1>7
  <2>2. \A m \in 1 .. Len(times) : \E i \in 1 .. r + 1 : times[m] = F[i].t
    <3> SUFFICES ASSUME NEW m \in 1 .. Len(times) PROVE \E i \in 1 .. r + 1 : times[m] = F[i].t
      OBVIOUS
    <3>1. CASE m \in 1 .. Len(old)
      <4>1. PICK i \in 1 .. r : old[m] = F[i].t  BY <1>8, <3>1
      <4>2. i \in 1 .. r + 1  OBVIOUS
      <4> QED  BY <1>5, <3>1, <4>1, <4>2
    <3>2. CASE m = Len(old) + 1
      <4>1. r + 1 \in 1 .. r + 1  OBVIOUS
      <4> QED  BY <1>5, <1>t, <3>2, <4>1
    <3> QED  BY <1>5, <3>1, <3>2
  <2>3. \A a, b \in 1 .. Len(times) : a <= b => times[a] <= times[b]
    <3> SUFFICES ASSUME NEW a \in 1 .. Len(times), NEW b \in 1 .. Len(times), a <= b
                 PROVE  times[a] <= times[b]
      OBVIOUS
    <3>1. CASE b \in 1 .. Len(old)
      <4>1. a \in 1 .. Len(old)  BY <1>5, <3>1
      <4>2. old[a] <= old[b]  BY <1>s, <3>1, <4>1 DEF Stamped
      <4> QED  BY <1>5, <3>1, <4>1, <4>2
    <3>2. CASE a \in 1 .. Len(old) /\ b = Len(old) + 1  BY <1>5, <1>9, <3>2
    <3>3. CASE a = Len(old) + 1 /\ b = Len(old) + 1  BY <1>3, <1>5, <3>3
    <3> QED  BY <1>5, <3>1, <3>2, <3>3
  <2> QED  BY <1>6, <2>1, <2>2, <2>3 DEF Stamped
<1>11. Placed(F, r + 1, new)  BY <1>5, <1>6, <1>7, <1>t DEF Placed
<1>12. ASSUME NEW i \in 1 .. r, Placed(F, i, group) PROVE Placed(F, i, new)
  <2>0. PICK net : net = group.net
    OBVIOUS
  <2>1. PICK c : c = Cardinality(OfNet(F, net, i))
    OBVIOUS
  <2>2. group.net = F[i].src.net /\ old[c] = F[i].t  BY <1>12, <1>s, <2>0, <2>1 DEF Placed
  <2>3. i \in Nat /\ i <= r /\ i > 0  OBVIOUS
  <2>4. c \in Nat /\ c <= Len(old) /\ c > 0
    <3>1. Cardinality(OfNet(F, net, i)) \in Nat  BY <2>3, OfNetCounted
    <3>2. /\ Cardinality(OfNet(F, net, i)) <= Cardinality(OfNet(F, net, r))
          /\ i > 0 /\ F[i].src.net = net => Cardinality(OfNet(F, net, i)) > 0
      BY <2>3, OfNetGrows
    <3> QED  BY <1>7, <2>0, <2>1, <2>2, <2>3, <3>1, <3>2
  <2>5. times[c] = old[c]  BY <1>5, <2>4
  <2> QED  BY <1>6, <2>0, <2>1, <2>2, <2>5 DEF Placed
<1> QED  BY <1>6, <1>10, <1>11, <1>12
\* The next packet is the first of its network.
LEMMA NewGroup ==
  ASSUME NEW F \in Seq(Readable), NEW r \in Nat, r < Len(F), NEW gs, GroupsOf(F, r, gs),
         \A g \in DOMAIN gs : gs[g].net # F[r + 1].src.net
  PROVE  LET packet == F[r + 1] IN
         GroupsOf(F, r + 1, Append(gs, [net |-> packet.src.net, host |-> packet.src.host, times |-> <<packet.t>>]))
<1>p. PICK packet : packet = F[r + 1]
  OBVIOUS
<1>t. PICK times : times = <<packet.t>>
  OBVIOUS
<1>w. PICK new : new = [net |-> packet.src.net, host |-> packet.src.host, times |-> times]
  OBVIOUS
<1>n. PICK n : n = Len(gs)
  OBVIOUS
<1>s. PICK hs : hs = Append(gs, new)
  OBVIOUS
<1>1. packet \in Readable /\ packet.src \in Sources /\ packet.t \in 0 .. MaxTime /\ packet.t \in Nat
  <2>1. r + 1 \in 1 .. Len(F)  BY LenProperties
  <2>2. packet \in Readable  BY <1>p, <2>1, ElementOfSeq
  <2> QED  BY <2>2, Units DEF Readable
<1>2. times \in Seq(0 .. MaxTime) /\ Len(times) = 1 /\ times[1] = packet.t /\ times # <<>>
  BY <1>1, <1>t
<1>3. new \in Group /\ new.net = packet.src.net /\ new.times = times  BY <1>1, <1>2, <1>w DEF Group
<1>4. gs \in Seq(Group) /\ n \in Nat /\ DOMAIN gs = 1 .. n
  BY <1>n, LenProperties DEF GroupsOf
<1>5. /\ hs \in Seq(Group) /\ DOMAIN hs = 1 .. n + 1
      /\ hs[n + 1] = new /\ \A g \in 1 .. n : hs[g] = gs[g]
  <2>1. hs \in Seq(Group) /\ Len(hs) = n + 1
        /\ hs[n + 1] = new /\ \A g \in 1 .. n : hs[g] = gs[g]
    BY <1>3, <1>4, <1>n, <1>s, AppendProperties
  <2> QED  BY <2>1, LenProperties
<1>6. OfNet(F, new.net, r) = {}
  <2> SUFFICES ASSUME NEW i \in OfNet(F, new.net, r) PROVE FALSE
    OBVIOUS
  <2>1. i \in 1 .. r /\ F[i].src.net = new.net  BY DEF OfNet
  <2>2. PICK g \in DOMAIN gs : Placed(F, i, gs[g])  BY <2>1 DEF GroupsOf
  <2> QED  BY <1>3, <1>p, <2>1, <2>2 DEF Placed
<1>7. Cardinality(OfNet(F, new.net, r + 1)) = 1
  <2>1. Cardinality(OfNet(F, new.net, r)) = 0  BY <1>6, FS_EmptySet
  <2>2. F[r + 1].src.net = new.net  BY <1>3, <1>p
  <2>3. PICK net : net = new.net
    OBVIOUS
  <2>4. Cardinality(OfNet(F, net, r + 1)) = Cardinality(OfNet(F, net, r)) + 1
    BY <2>2, <2>3, NextOfNet
  <2> QED  BY <2>1, <2>2, <2>3, <2>4
<1>8. \A g, h \in DOMAIN hs : hs[g].net = hs[h].net => g = h
  <2> SUFFICES ASSUME NEW g \in 1 .. n + 1, NEW h \in 1 .. n + 1, hs[g].net = hs[h].net PROVE g = h
    BY <1>5
  <2>1. \A x \in 1 .. n : hs[x].net # new.net  BY <1>3, <1>4, <1>5, <1>p
  <2>2. CASE g \in 1 .. n /\ h \in 1 .. n  BY <1>4, <1>5, <2>2 DEF GroupsOf
  <2>3. CASE g = n + 1 \/ h = n + 1
    <3>1. \A x \in 1 .. n + 1 : x = n + 1 \/ x \in 1 .. n  BY <1>4
    <3> QED  BY <1>5, <2>1, <2>3, <3>1
  <2> QED  BY <1>4, <2>2, <2>3
<1>9. \A g \in DOMAIN hs : Stamped(F, r + 1, hs[g])
  <2> SUFFICES ASSUME NEW g \in 1 .. n + 1 PROVE Stamped(F, r + 1, hs[g])
    BY <1>5
  <2>1. CASE g \in 1 .. n
    <3>1. Stamped(F, r, gs[g]) /\ F[r + 1].src.net # gs[g].net  BY <1>4, <2>1 DEF GroupsOf
    <3> QED  BY <1>5, <2>1, <3>1, OtherStamped
  <2>2. CASE g = n + 1
    <3>1. r + 1 \in 1 .. r + 1  OBVIOUS
    <3>2. \A m \in 1 .. Len(times) : times[m] = F[r + 1].t  BY <1>2, <1>p
    <3>3. \A a, b \in 1 .. Len(times) : times[a] <= times[b]
      <4>1. \A a \in 1 .. Len(times) : times[a] = packet.t  BY <1>2
      <4> QED  BY <1>1, <4>1
    <3>4. Stamped(F, r + 1, new)  BY <1>2, <1>3, <1>7, <3>1, <3>2, <3>3 DEF Stamped
    <3> QED  BY <1>5, <2>2, <3>4
  <2> QED  BY <1>4, <2>1, <2>2
<1>10. \A i \in 1 .. r + 1 : \E g \in DOMAIN hs : Placed(F, i, hs[g])
  <2> SUFFICES ASSUME NEW i \in 1 .. r + 1 PROVE \E g \in 1 .. n + 1 : Placed(F, i, hs[g])
    BY <1>5
  <2>1. CASE i \in 1 .. r
    <3>1. PICK g \in 1 .. n : Placed(F, i, gs[g])  BY <1>4, <2>1 DEF GroupsOf
    <3>2. g \in 1 .. n + 1  BY <1>4
    <3> QED  BY <1>5, <3>1, <3>2
  <2>2. CASE i = r + 1
    <3>1. Placed(F, i, new)  BY <1>2, <1>3, <1>7, <1>p, <2>2 DEF Placed
    <3>2. n + 1 \in 1 .. n + 1  BY <1>4
    <3> QED  BY <1>5, <3>1, <3>2
  <2> QED  BY <2>1, <2>2
<1>11. GroupsOf(F, r + 1, hs)  BY <1>5, <1>8, <1>9, <1>10 DEF GroupsOf
<1> QED  BY <1>11, <1>p, <1>s, <1>t, <1>w

\* The next packet's network has a group.
LEMMA OldGroup ==
  ASSUME NEW F \in Seq(Readable), FileInOrder(F), NEW r \in Nat, r < Len(F),
         NEW gs, GroupsOf(F, r, gs), NEW g \in DOMAIN gs, gs[g].net = F[r + 1].src.net
  PROVE  LET hs == [gs EXCEPT ![g].times = Append(@, F[r + 1].t)] IN
         GroupsOf(F, r + 1, hs) /\ Len(hs) = Len(gs)
<1>n. PICK n : n = Len(gs)
  OBVIOUS
<1>w. PICK new : new = Grown(gs[g], F[r + 1].t)
  OBVIOUS
<1>s. PICK hs : hs = [gs EXCEPT ![g] = new]
  OBVIOUS
<1>1. gs \in Seq(Group) /\ n \in Nat /\ DOMAIN gs = 1 .. n /\ g \in 1 .. n
  BY <1>n, LenProperties DEF GroupsOf
<1>2. gs[g] \in Group  BY <1>1, <1>n, ElementOfSeq
<1>3. Stamped(F, r, gs[g])  BY DEF GroupsOf
<1>4. PICK old \in Group : old = gs[g]
  BY <1>2
<1>5. /\ new \in Group /\ new.net = gs[g].net
      /\ Stamped(F, r + 1, new) /\ Placed(F, r + 1, new)
      /\ \A i \in 1 .. r : Placed(F, i, gs[g]) => Placed(F, i, new)
  <2>1. Stamped(F, r, old) /\ F[r + 1].src.net = old.net
    BY <1>3, <1>4
  <2>3. new = Grown(old, F[r + 1].t)
    BY <1>4, <1>w
  <2>2. /\ new \in Group /\ new.net = old.net
        /\ Stamped(F, r + 1, new) /\ Placed(F, r + 1, new)
        /\ \A i \in 1 .. r : Placed(F, i, old) => Placed(F, i, new)
    BY <2>1, <2>3, OwnStamped
  <2> QED  BY <1>4, <2>2
<1>6. /\ hs \in Seq(Group) /\ Len(hs) = n /\ DOMAIN hs = 1 .. n
      /\ hs[g] = new /\ \A h \in 1 .. n : h # g => hs[h] = gs[h]
  <2>1. hs \in Seq(Group) /\ Len(hs) = n
        /\ hs[g] = new /\ \A h \in 1 .. n : h # g => hs[h] = gs[h]
    BY <1>1, <1>5, <1>n, <1>s, ExceptSeq
  <2> QED  BY <2>1, LenProperties
<1>7. \A h \in 1 .. n : hs[h].net = gs[h].net  BY <1>5, <1>6
<1>8. \A h, x \in DOMAIN hs : hs[h].net = hs[x].net => h = x  BY <1>1, <1>6, <1>7 DEF GroupsOf
<1>9. \A h \in DOMAIN hs : Stamped(F, r + 1, hs[h])
  <2> SUFFICES ASSUME NEW h \in 1 .. n PROVE Stamped(F, r + 1, hs[h])
    BY <1>6
  <2>1. CASE h = g  BY <1>5, <1>6, <2>1
  <2>2. CASE h # g
    <3>1. Stamped(F, r, gs[h]) /\ gs[h].net # gs[g].net  BY <1>1, <2>2 DEF GroupsOf
    <3>2. Stamped(F, r + 1, gs[h])  BY <3>1, OtherStamped
    <3> QED  BY <1>6, <2>2, <3>2
  <2> QED  BY <2>1, <2>2
<1>10. \A i \in 1 .. r + 1 : \E h \in DOMAIN hs : Placed(F, i, hs[h])
  <2> SUFFICES ASSUME NEW i \in 1 .. r + 1 PROVE \E h \in 1 .. n : Placed(F, i, hs[h])
    BY <1>6
  <2>1. CASE i \in 1 .. r
    <3>1. PICK h \in 1 .. n : Placed(F, i, gs[h])  BY <1>1, <2>1 DEF GroupsOf
    <3>2. Placed(F, i, hs[h])
      <4>1. CASE h = g  BY <1>5, <1>6, <2>1, <3>1, <4>1
      <4>2. CASE h # g  BY <1>6, <3>1, <4>2
      <4> QED  BY <4>1, <4>2
    <3> QED  BY <3>2
  <2>2. CASE i = r + 1  BY <1>1, <1>5, <1>6, <2>2
  <2> QED  BY <2>1, <2>2
<1>11. GroupsOf(F, r + 1, hs)  BY <1>6, <1>8, <1>9, <1>10 DEF GroupsOf
<1>12. [gs EXCEPT ![g].times = Append(@, F[r + 1].t)] = hs  BY <1>s, <1>w DEF Grown
<1> QED  BY <1>6, <1>11, <1>12, <1>n
\* The stamps of a group lie as close together as the packets of the file.
LEMMA GroupSpan ==
  ASSUME NEW F \in Seq(Readable), FileInOrder(F),
         \A i \in DOMAIN F : F[i].t - F[1].t < (Limit + 1) * UsecPerMs,
         NEW r \in Nat, r <= Len(F), NEW group, Stamped(F, r, group), NEW m \in 1 .. Len(group.times)
  PROVE  LET times == group.times IN
         /\ times[m] \in Nat /\ times[1] \in Nat
         /\ times[1] <= times[m] /\ times[m] - times[1] < (Limit + 1) * UsecPerMs
<1>s. PICK times : times = group.times
  OBVIOUS
<1>0. Len(times) = Cardinality(OfNet(F, group.net, r))  BY <1>s DEF Stamped
<1>l. Len(times) \in Nat
  <2>1. PICK net : net = group.net
    OBVIOUS
  <2>2. Cardinality(OfNet(F, net, r)) \in Nat  BY OfNetCounted
  <2> QED  BY <1>0, <2>1, <2>2
<1>1. m \in 1 .. Len(times) /\ 1 \in 1 .. Len(times) /\ 1 <= m  BY <1>l, <1>s
<1>2. \A i \in 1 .. Len(F) : F[i].t \in Nat
  <2> SUFFICES ASSUME NEW i \in 1 .. Len(F) PROVE F[i].t \in Nat
    OBVIOUS
  <2>1. F[i] \in Readable  BY ElementOfSeq
  <2> QED  BY <2>1, Units DEF Readable
<1>3. \A x \in 1 .. Len(times) : \E i \in 1 .. r : times[x] = F[i].t  BY <1>s DEF Stamped
<1>4. PICK i \in 1 .. r : times[m] = F[i].t  BY <1>1, <1>3
<1>5. PICK j \in 1 .. r : times[1] = F[j].t  BY <1>1, <1>3
<1>6. times[1] <= times[m]  BY <1>1, <1>s DEF Stamped
<1>7. /\ i \in 1 .. Len(F) /\ j \in 1 .. Len(F) /\ 1 \in 1 .. Len(F) /\ 1 <= j
      /\ DOMAIN F = 1 .. Len(F)
  <2>1. Len(F) \in Nat /\ DOMAIN F = 1 .. Len(F)  BY LenProperties
  <2> QED  BY <2>1
<1>8. F[1].t <= F[j].t  BY <1>7 DEF FileInOrder
<1>9. F[i].t - F[1].t < (Limit + 1) * UsecPerMs  BY <1>7
<1>10. PICK limit : limit = (Limit + 1) * UsecPerMs
  OBVIOUS
<1>11. limit \in Int  BY <1>10, Units
<1>12. times[m] - times[1] < limit  BY <1>2, <1>4, <1>5, <1>7, <1>8, <1>9, <1>10, <1>11
<1> QED  BY <1>2, <1>4, <1>5, <1>6, <1>7, <1>10, <1>12, <1>s

\* The groups are those of what is read of a file.
Reading(F) ==
  LET r == Len(F) - Len(input) IN
  /\ F # <<>> /\ input \in Seq(Readable) /\ Len(input) <= Len(F)
  /\ \A i \in 1 .. Len(input) : input[i] = F[r + i]
  /\ GroupsOf(F, r, groups)

WidthInv ==
  /\ stage \in {"split", "read", "compute", "done", "exit", "crash"}
  /\ groups \in Seq(Group) /\ Len(groups) <= MaxGroups
  /\ widths \in Seq(Nat) /\ Len(widths) <= Len(groups)
  /\ stage = "split" => groups = <<>> /\ widths = <<>>
  /\ stage # "split" => \E k \in DOMAIN files : Reading(files[k])
  /\ stage = "read" => widths = <<>> /\ Len(groups) < MaxGroups
  /\ stage = "compute" => input = <<>> /\ Len(widths) < Len(groups)
  /\ WidthOfSplitFile

ToolsInv == SplitInv /\ WidthInv

LEMMA WidthStart == WidthInit => WidthInv
<1> SUFFICES ASSUME WidthInit PROVE WidthInv
  OBVIOUS
<1>1. stage = "split" /\ groups = <<>> /\ widths = <<>>  BY DEF WidthInit
<1>2. /\ groups \in Seq(Group) /\ widths \in Seq(Nat) /\ Len(groups) = 0 /\ Len(widths) = 0
      /\ DOMAIN widths = {}
  BY <1>1
<1> QED  BY <1>1, <1>2, WidthAssumption DEF WidthInv, WidthOfSplitFile

\* What a file is known to be.
LEMMA FileKnown ==
  ASSUME SplitInv, NEW k \in DOMAIN files
  PROVE  /\ files[k] \in Seq(Readable) /\ FileInOrder(files[k])
         /\ \A i \in DOMAIN files[k] : files[k][i].t - files[k][1].t < (Limit + 1) * UsecPerMs
<1>1. files \in Seq(Seq(Readable)) /\ DOMAIN files = 1 .. Len(files)  BY LenProperties DEF SplitInv
<1> QED  BY <1>1, ElementOfSeq DEF SplitInv, FilesAreBursts, SplitWithin

LEMMA SplitUnchanged ==
  ASSUME SplitInv, UNCHANGED splitVars
  PROVE  SplitInv'
BY DEF SplitInv, splitVars, SplitKeepsCapture, FilesAreBursts, SplitWithin, OpenFile, FileInOrder

LEMMA StartKept ==
  ASSUME ToolsInv, NEW k \in DOMAIN files, Start(k)
  PROVE  WidthInv'
<1>1. /\ stage = "split" /\ stage' = "read" /\ input' = files[k] /\ files[k] # <<>>
      /\ groups' = groups /\ widths' = widths /\ files' = files
  BY DEF Start, splitVars
<1>2. groups = <<>> /\ widths = <<>>  BY <1>1 DEF ToolsInv, WidthInv
<1>3. PICK F : F = files[k]
  OBVIOUS
<1>4. F \in Seq(Readable) /\ Len(F) \in Nat  BY <1>3, FileKnown, LenProperties DEF ToolsInv
<1>5. GroupsOf(F, 0, <<>>)  BY NoGroups
<1>6. Len(F) - Len(F) = 0 /\ \A i \in 1 .. Len(F) : 0 + i = i  BY <1>4
<1>7. Reading(files[k])'
  <2>1. Len(F) - Len(F) = 0 /\ Len(F) <= Len(F) /\ \A i \in 1 .. Len(F) : F[i] = F[0 + i]
    BY <1>4, <1>6
  <2>2. files'[k] = F /\ input' = F /\ groups' = <<>> /\ F # <<>>  BY <1>1, <1>2, <1>3
  <2> QED  BY <1>4, <1>5, <2>1, <2>2 DEF Reading
<1>8. /\ groups' \in Seq(Group) /\ widths' \in Seq(Nat) /\ Len(groups') = 0 /\ Len(widths') = 0
      /\ DOMAIN widths' = {} /\ widths' = <<>>
  BY <1>1, <1>2
<1>9. WidthOfSplitFile'  BY <1>1, <1>8 DEF WidthOfSplitFile
<1>10. \E x \in DOMAIN files' : Reading(files[x])'  BY <1>1, <1>7
<1> QED  BY <1>1, <1>8, <1>9, <1>10, WidthAssumption DEF WidthInv
\* add takes the next packet of the file, and its group grows or is made.
LEMMA AddKept ==
  ASSUME ToolsInv, add
  PROVE  WidthInv'
<1>1. /\ stage = "read" /\ input # <<>> /\ input' = Tail(input) /\ widths' = widths /\ files' = files
  BY DEF add, splitVars
<1>2. /\ widths = <<>> /\ Len(groups) < MaxGroups /\ groups \in Seq(Group) /\ Len(groups) \in Nat
      /\ DOMAIN groups = 1 .. Len(groups)
  BY <1>1, LenProperties DEF ToolsInv, WidthInv
<1>3. PICK k \in DOMAIN files : Reading(files[k])  BY <1>1 DEF ToolsInv, WidthInv
<1>F. PICK F : F = files[k]
  OBVIOUS
<1>4. F \in Seq(Readable) /\ FileInOrder(F) /\ Len(F) \in Nat  BY <1>F, FileKnown, LenProperties DEF ToolsInv
<1>r. PICK r : r = Len(F) - Len(input)
  OBVIOUS
<1>5. /\ F # <<>> /\ input \in Seq(Readable) /\ Len(input) <= Len(F)
      /\ \A i \in 1 .. Len(input) : input[i] = F[r + i]
      /\ GroupsOf(F, r, groups)
  BY <1>3, <1>F, <1>r DEF Reading
<1>6. /\ Len(input) \in Nat \ {0} /\ r \in Nat /\ r < Len(F)
  <2>1. Len(input) \in Nat \ {0}  BY <1>1, <1>5, EmptySeq, LenProperties
  <2> QED  BY <1>4, <1>5, <1>r, <2>1
<1>7. Head(input) = F[r + 1]
  <2>1. 1 \in 1 .. Len(input)  BY <1>6
  <2> QED  BY <1>1, <1>5, <2>1
<1>8. /\ Tail(input) \in Seq(Readable) /\ Len(Tail(input)) = Len(input) - 1
      /\ \A i \in 1 .. Len(input) - 1 : Tail(input)[i] = input[i + 1]
  BY <1>1, <1>5, HeadTailProperties
<1>9. \A i \in 1 .. Len(Tail(input)) : Tail(input)[i] = F[(r + 1) + i]
  <2> SUFFICES ASSUME NEW i \in 1 .. Len(input) - 1 PROVE Tail(input)[i] = F[(r + 1) + i]
    BY <1>8
  <2>1. i + 1 \in 1 .. Len(input) /\ r + (i + 1) = (r + 1) + i  BY <1>6
  <2> QED  BY <1>5, <1>8, <2>1
<1>10. Len(F) - Len(Tail(input)) = r + 1 /\ Len(Tail(input)) <= Len(F)  BY <1>4, <1>6, <1>8, <1>r
<1>11. ASSUME GroupsOf(F, r + 1, groups') PROVE \E x \in DOMAIN files' : Reading(files[x])'
  <2>1. files'[k] = F /\ input' = Tail(input) /\ k \in DOMAIN files'  BY <1>1, <1>F
  <2>2. Reading(files[k])'  BY <1>5, <1>8, <1>9, <1>10, <1>11, <2>1 DEF Reading
  <2> QED  BY <2>1, <2>2
<1>12. widths' \in Seq(Nat) /\ widths' = <<>> /\ Len(widths') = 0 /\ DOMAIN widths' = {}
  BY <1>1, <1>2
<1>13. CASE exist(Head(input).src) = {} /\ create(Head(input).src, Head(input).t)
  <2>1. \A g \in DOMAIN groups : groups[g].net # F[r + 1].src.net  BY <1>7, <1>13 DEF exist
  <2>2. PICK new : new = [net |-> F[r + 1].src.net, host |-> F[r + 1].src.host, times |-> <<F[r + 1].t>>]
    OBVIOUS
  <2>3. /\ groups' = Append(groups, new)
        /\ stage' = IF Len(groups') >= MaxGroups THEN "exit" ELSE "read"
    BY <1>7, <1>13, <2>2 DEF create
  <2>4. GroupsOf(F, r + 1, Append(groups, new))  BY <1>4, <1>5, <1>6, <2>1, <2>2, NewGroup
  <2>5. groups' \in Seq(Group)  BY <2>3, <2>4 DEF GroupsOf
  <2>6. Len(groups') = Len(groups) + 1  BY <1>2, <2>3
  <2>7. \E x \in DOMAIN files' : Reading(files[x])'  BY <1>11, <2>3, <2>4
  <2>8. /\ Len(groups') <= MaxGroups
        /\ stage' = "exit" => Len(groups') = MaxGroups
        /\ stage' = "read" => Len(groups') < MaxGroups
        /\ stage' \in {"read", "exit"}
    BY <1>2, <2>3, <2>6, WidthAssumption
  <2>9. WidthOfSplitFile'  BY <1>12, <2>8 DEF WidthOfSplitFile
  <2>10. Len(widths') <= Len(groups')  BY <1>2, <1>12, <2>6
  <2> QED  BY <1>12, <2>5, <2>7, <2>8, <2>9, <2>10 DEF WidthInv
<1>14. CASE \E g \in exist(Head(input).src) :
              groups' = [groups EXCEPT ![g].times = Append(@, Head(input).t)] /\ stage' = stage
  <2>1. PICK g \in exist(Head(input).src) :
              groups' = [groups EXCEPT ![g].times = Append(@, Head(input).t)] /\ stage' = stage
    BY <1>14
  <2>2. g \in DOMAIN groups /\ groups[g].net = F[r + 1].src.net  BY <1>7 DEF exist
  <2>3. groups' = [groups EXCEPT ![g].times = Append(@, F[r + 1].t)]  BY <1>7, <2>1
  <2>10. PICK gs : gs = groups
    OBVIOUS
  <2>11. GroupsOf(F, r, gs) /\ g \in DOMAIN gs /\ gs[g].net = F[r + 1].src.net
    BY <1>5, <2>2, <2>10
  <2>12. GroupsOf(F, r + 1, [gs EXCEPT ![g].times = Append(@, F[r + 1].t)])
         /\ Len([gs EXCEPT ![g].times = Append(@, F[r + 1].t)]) = Len(gs)
    BY <1>4, <1>6, <2>11, OldGroup
  <2>4. GroupsOf(F, r + 1, groups') /\ Len(groups') = Len(groups)  BY <2>3, <2>10, <2>12
  <2>5. groups' \in Seq(Group)  BY <2>4 DEF GroupsOf
  <2>6. \E x \in DOMAIN files' : Reading(files[x])'  BY <1>11, <2>4
  <2>7. stage' = "read" /\ Len(groups') < MaxGroups /\ Len(groups') <= MaxGroups
    BY <1>1, <1>2, <2>1, <2>4, WidthAssumption
  <2>8. WidthOfSplitFile'  BY <1>12, <2>7 DEF WidthOfSplitFile
  <2>9. Len(widths') <= Len(groups')  BY <1>2, <1>12, <2>4
  <2> QED  BY <1>12, <2>5, <2>6, <2>7, <2>8, <2>9 DEF WidthInv
<1> QED  BY <1>13, <1>14 DEF add

LEMMA EndKept ==
  ASSUME ToolsInv, EndOfFile
  PROVE  WidthInv'
<1>1. /\ stage = "read" /\ input = <<>> /\ stage' = "compute"
      /\ input' = input /\ groups' = groups /\ widths' = widths /\ files' = files
  BY DEF EndOfFile, splitVars
<1>2. /\ widths = <<>> /\ groups \in Seq(Group) /\ Len(groups) <= MaxGroups
      /\ Len(groups) \in Nat /\ DOMAIN groups = 1 .. Len(groups)
  BY <1>1, LenProperties DEF ToolsInv, WidthInv
<1>3. PICK k \in DOMAIN files : Reading(files[k])  BY <1>1 DEF ToolsInv, WidthInv
<1>4. PICK F : F = files[k]
  OBVIOUS
<1>5. F \in Seq(Readable) /\ Len(F) \in Nat  BY <1>4, FileKnown, LenProperties DEF ToolsInv
<1>6. F # <<>> /\ GroupsOf(F, Len(F), groups)
  <2>1. Len(F) - Len(input) = Len(F)  BY <1>1, <1>5
  <2> QED  BY <1>3, <1>4, <2>1 DEF Reading
<1>7. Len(groups) > 0
  <2>1. Len(F) \in 1 .. Len(F)  BY <1>5, <1>6, EmptySeq
  <2>2. PICK g \in DOMAIN groups : Placed(F, Len(F), groups[g])  BY <1>6, <2>1 DEF GroupsOf
  <2> QED  BY <1>2
<1>8. \E x \in DOMAIN files' : Reading(files[x])'  BY <1>1, <1>3 DEF Reading
<1>9. widths' = <<>> /\ widths' \in Seq(Nat) /\ Len(widths') = 0 /\ DOMAIN widths' = {}
  BY <1>1, <1>2
<1>10. WidthOfSplitFile'  BY <1>1, <1>9 DEF WidthOfSplitFile
<1>11. Len(widths') <= Len(groups') /\ Len(widths') < Len(groups')  BY <1>1, <1>2, <1>7, <1>9
<1> QED  BY <1>1, <1>2, <1>8, <1>9, <1>10, <1>11 DEF WidthInv

\* compute_data measures the next group, or gives up at one of a single packet.
LEMMA ComputeKept ==
  ASSUME ToolsInv, compute_data
  PROVE  WidthInv'
<1>1. /\ stage = "compute" /\ input' = input /\ groups' = groups /\ files' = files
  BY DEF compute_data, splitVars
<1>2. /\ widths \in Seq(Nat) /\ groups \in Seq(Group) /\ Len(groups) <= MaxGroups
      /\ Len(groups) \in Nat /\ DOMAIN groups = 1 .. Len(groups)
      /\ Len(widths) \in Nat /\ DOMAIN widths = 1 .. Len(widths)
      /\ input = <<>> /\ Len(widths) < Len(groups)
  BY <1>1, LenProperties DEF ToolsInv, WidthInv
<1>3. PICK k \in DOMAIN files : Reading(files[k])  BY <1>1 DEF ToolsInv, WidthInv
<1>F. PICK F : F = files[k]
  OBVIOUS
<1>4. /\ F \in Seq(Readable) /\ FileInOrder(F) /\ Len(F) \in Nat
      /\ \A i \in DOMAIN F : F[i].t - F[1].t < (Limit + 1) * UsecPerMs
  BY <1>F, FileKnown, LenProperties DEF ToolsInv
<1>5. GroupsOf(F, Len(F), groups)
  <2>1. Len(F) - Len(input) = Len(F)  BY <1>2, <1>4
  <2> QED  BY <1>3, <1>F, <2>1 DEF Reading
<1>g. PICK g : g = Len(widths) + 1
  OBVIOUS
<1>t. PICK times : times = groups[g].times
  OBVIOUS
<1>6. g \in DOMAIN groups /\ Stamped(F, Len(F), groups[g])  BY <1>2, <1>5, <1>g DEF GroupsOf
<1>7. times \in Seq(0 .. MaxTime) /\ times # <<>> /\ Len(times) \in Nat \ {0}
  <2>1. groups[g] \in Group  BY <1>2, <1>6, ElementOfSeq
  <2>2. times \in Seq(0 .. MaxTime)  BY <1>t, <2>1 DEF Group
  <2>3. times # <<>>  BY <1>6, <1>t DEF Stamped
  <2> QED  BY <2>2, <2>3, EmptySeq, LenProperties
<1>n. PICK n \in Nat \ {0} : n = Len(times)  BY <1>7
<1>8. \A m \in 1 .. Len(times) :
        /\ times[m] \in Nat /\ times[1] \in Nat
        /\ times[1] <= times[m] /\ times[m] - times[1] < (Limit + 1) * UsecPerMs
  BY <1>4, <1>6, <1>t, GroupSpan
<1>9. PICK last \in LastRead(times) :
        \/ \E w \in Width(Ts(last).tv_sec - Ts(times[1]).tv_sec, Ts(last).tv_usec - Ts(times[1]).tv_usec) :
             /\ widths' = Append(widths, w)
             /\ stage' = IF Len(widths') = Len(groups) THEN "done" ELSE "compute"
        \/ /\ Width(Ts(last).tv_sec - Ts(times[1]).tv_sec, Ts(last).tv_usec - Ts(times[1]).tv_usec) = {}
           /\ stage' = "exit"
           /\ UNCHANGED widths
  BY <1>g, <1>t DEF compute_data
<1>10. times[1] \in Nat  BY <1>7, <1>8
<1>11. last \in Nat /\ (Len(times) > 1 => last = times[Len(times) - 1]
                        /\ times[1] <= last /\ last - times[1] < (Limit + 1) * UsecPerMs)
  <2>1. CASE Len(times) = 1  BY <2>1, Units DEF LastRead
  <2>2. CASE Len(times) # 1
    <3>0. n # 1  BY <1>n, <2>2
    <3>3. n - 1 \in 1 .. n  BY <3>0
    <3>1. Len(times) - 1 \in 1 .. Len(times)  BY <1>n, <3>3
    <3>2. last = times[Len(times) - 1]  BY <2>2 DEF LastRead
    <3> QED  BY <1>8, <3>1, <3>2
  <2> QED  BY <2>1, <2>2
<1>w. PICK width : width = Width(Ts(last).tv_sec - Ts(times[1]).tv_sec, Ts(last).tv_usec - Ts(times[1]).tv_usec)
  OBVIOUS
<1>12. width \subseteq Nat  BY <1>10, <1>11, <1>w, WidthTyped
<1>13. Len(times) > 1 =>
         /\ width # {}
         /\ \A w \in width : /\ w \in Nat /\ w <= Limit + 1
                             /\ (last - times[1]) - UsecPerMs < w * UsecPerMs
                             /\ w * UsecPerMs < (last - times[1]) + UsecPerMs
  BY <1>10, <1>11, <1>w, WidthIs
<1>14. \E x \in DOMAIN files' : Reading(files[x])'  BY <1>1, <1>3 DEF Reading
<1>15. CASE \E w \in width : /\ widths' = Append(widths, w)
                             /\ stage' = IF Len(widths') = Len(groups) THEN "done" ELSE "compute"
  <2>1. PICK w \in width : /\ widths' = Append(widths, w)
                           /\ stage' = IF Len(widths') = Len(groups) THEN "done" ELSE "compute"
    BY <1>15
  <2>0. w \in Nat  BY <1>12
  <2>2. /\ widths' \in Seq(Nat) /\ Len(widths') = Len(widths) + 1 /\ widths'[g] = w
        /\ \A h \in 1 .. Len(widths) : widths'[h] = widths[h]
    <3>1. PICK ws \in Seq(Nat) : ws = widths  BY <1>2
    <3>2. /\ Append(ws, w) \in Seq(Nat) /\ Len(Append(ws, w)) = Len(ws) + 1
          /\ Append(ws, w)[Len(ws) + 1] = w
          /\ \A h \in 1 .. Len(ws) : Append(ws, w)[h] = ws[h]
      BY <2>0, AppendProperties
    <3>3. widths' = Append(ws, w)  BY <2>1, <3>1
    <3> QED  BY <1>g, <3>1, <3>2, <3>3
  <2>3. DOMAIN widths' = 1 .. Len(widths) + 1  BY <2>2, LenProperties
  <2>4. stage' \in {"done", "compute"} /\ Len(widths') <= Len(groups')
        /\ (stage' = "compute" => Len(widths') < Len(groups'))
    <3>1. Len(widths') <= Len(groups) /\ Len(widths') \in Nat  BY <1>2, <2>2
    <3>2. stage' = IF Len(widths') = Len(groups) THEN "done" ELSE "compute"  BY <2>1
    <3>3. CASE Len(widths') = Len(groups)  BY <1>1, <3>1, <3>2, <3>3
    <3>4. CASE Len(widths') # Len(groups)
      <4>1. Len(widths') < Len(groups)  BY <1>2, <3>1, <3>4
      <4> QED  BY <1>1, <3>1, <3>2, <3>4, <4>1
    <3> QED  BY <3>3, <3>4
  <2>5. WidthOfSplitFile'
    <3> SUFFICES ASSUME NEW h \in 1 .. Len(widths) + 1, Len(groups[h].times) > 1
                 PROVE  LET ts == groups[h].times
                            burst == ts[Len(ts)] - ts[1]
                            gap == ts[Len(ts)] - ts[Len(ts) - 1]
                        IN /\ widths'[h] <= Limit + 1
                           /\ burst - gap - UsecPerMs < widths'[h] * UsecPerMs
                           /\ widths'[h] * UsecPerMs < burst + UsecPerMs
      BY <1>1, <2>3, <2>4 DEF WidthOfSplitFile
    <3>1. CASE h = g
      <4>1. n > 1 /\ times = groups[h].times /\ widths'[h] = w  BY <1>n, <1>t, <2>2, <3>1
      <4>2. PICK a \in Nat, b \in Nat, c \in Nat : a = times[1] /\ b = times[n - 1] /\ c = times[n] /\ b <= c
        <5>1. 1 \in 1 .. n /\ n - 1 \in 1 .. n /\ n \in 1 .. n /\ n - 1 <= n  BY <4>1
        <5>2. times[n - 1] <= times[n]  BY <1>6, <1>n, <1>t, <5>1 DEF Stamped
        <5>3. times[1] \in Nat /\ times[n - 1] \in Nat /\ times[n] \in Nat  BY <1>8, <1>n, <5>1
        <5> QED  BY <5>2, <5>3
      <4>3. last = b  BY <1>11, <1>n, <4>1, <4>2
      <4>4. w <= Limit + 1 /\ (b - a) - UsecPerMs < w * UsecPerMs /\ w * UsecPerMs < (b - a) + UsecPerMs
        BY <1>13, <1>n, <2>1, <4>1, <4>2, <4>3
      <4>5. PICK W \in Nat, U \in Nat : W = w * UsecPerMs /\ U = UsecPerMs
        <5>1. UsecPerMs \in Nat  BY Units
        <5>2. w * UsecPerMs \in Nat  BY <2>0, <5>1, SMT
        <5> QED  BY <5>1, <5>2
      <4>6. (b - a) - U < W /\ W < (b - a) + U  BY <4>4, <4>5
      <4>7. (c - a) - (c - b) - U < W /\ W < (c - a) + U
        <5>1. a \in Nat /\ b \in Nat /\ c \in Nat /\ b <= c  BY <4>2
        <5> QED  BY <4>6, <5>1
      <4> QED  BY <1>n, <4>1, <4>2, <4>4, <4>5, <4>7
    <3>2. CASE h \in 1 .. Len(widths)
      <4>1. h \in DOMAIN widths /\ widths'[h] = widths[h]  BY <1>2, <2>2, <3>2
      <4> QED  BY <4>1 DEF ToolsInv, WidthInv, WidthOfSplitFile
    <3> QED  BY <1>2, <1>g, <3>1, <3>2
  <2> QED  BY <1>1, <1>2, <1>14, <2>2, <2>4, <2>5 DEF WidthInv
<1>16. CASE width = {} /\ stage' = "exit" /\ widths' = widths
  <2>0. ~(Len(times) > 1)  BY <1>13, <1>16
  <2>1. Len(times) = 1
    <3>1. ~(n > 1)  BY <1>n, <2>0
    <3>2. n = 1  BY <3>1
    <3> QED  BY <1>n, <3>2
  <2>2. Len(groups'[Len(widths') + 1].times) = 1  BY <1>1, <1>16, <1>g, <1>t, <2>1
  <2>3. WidthOfSplitFile'
    BY <1>1, <1>16, <2>2 DEF ToolsInv, WidthInv, WidthOfSplitFile
  <2>4. stage' = "exit" /\ Len(widths') <= Len(groups')  BY <1>1, <1>2, <1>16
  <2> QED  BY <1>1, <1>2, <1>14, <1>16, <2>3, <2>4 DEF WidthInv
<1> QED  BY <1>9, <1>15, <1>16, <1>w

LEMMA CrashKept ==
  ASSUME ToolsInv, ReadUnset
  PROVE  WidthInv'
<1>1. /\ stage = "read" /\ stage' = "crash" /\ input' = input /\ groups' = groups
      /\ widths' = widths /\ files' = files
  BY DEF ReadUnset, splitVars
<1>2. \E x \in DOMAIN files' : Reading(files[x])'  BY <1>1 DEF ToolsInv, WidthInv, Reading
<1>3. WidthOfSplitFile'  BY <1>1 DEF ToolsInv, WidthInv, WidthOfSplitFile
<1> QED  BY <1>1, <1>2, <1>3 DEF ToolsInv, WidthInv

\* The inductive invariant.
LEMMA ToolsKept ==
  ASSUME ToolsInv, [ToolsNext]_toolVars
  PROVE  ToolsInv'
<1>1. CASE stage = "split" /\ SplitStep /\ UNCHANGED widthVars
  <2>1. SplitInv'  BY <1>1, SplitKept DEF ToolsInv
  <2>2. stage = "split" /\ stage' = "split" /\ groups' = groups /\ widths' = widths
    BY <1>1 DEF widthVars
  <2>3. WidthOfSplitFile'  BY <2>2 DEF ToolsInv, WidthInv, WidthOfSplitFile
  <2>4. WidthInv'  BY <2>2, <2>3 DEF ToolsInv, WidthInv
  <2> QED  BY <2>1, <2>4 DEF ToolsInv
<1>2. CASE \E k \in DOMAIN files : Start(k)
  <2>1. PICK k \in DOMAIN files : Start(k)  BY <1>2
  <2>2. UNCHANGED splitVars  BY <2>1 DEF Start
  <2> QED  BY <2>1, <2>2, StartKept, SplitUnchanged DEF ToolsInv
<1>3. CASE add
  <2>1. UNCHANGED splitVars  BY <1>3 DEF add
  <2> QED  BY <1>3, <2>1, AddKept, SplitUnchanged DEF ToolsInv
<1>4. CASE EndOfFile
  <2>1. UNCHANGED splitVars  BY <1>4 DEF EndOfFile
  <2> QED  BY <1>4, <2>1, EndKept, SplitUnchanged DEF ToolsInv
<1>5. CASE compute_data
  <2>1. UNCHANGED splitVars  BY <1>5 DEF compute_data
  <2> QED  BY <1>5, <2>1, ComputeKept, SplitUnchanged DEF ToolsInv
<1>6. CASE UNCHANGED toolVars
  <2>1. /\ UNCHANGED splitVars /\ files' = files /\ stage' = stage /\ input' = input
        /\ groups' = groups /\ widths' = widths
    BY <1>6 DEF toolVars, splitVars, widthVars
  <2>2. WidthOfSplitFile'  BY <2>1 DEF ToolsInv, WidthInv, WidthOfSplitFile
  <2>3. stage' # "split" => \E x \in DOMAIN files' : Reading(files[x])'
    BY <2>1 DEF ToolsInv, WidthInv, Reading
  <2>4. WidthInv'  BY <2>1, <2>2, <2>3 DEF ToolsInv, WidthInv
  <2> QED  BY <2>1, <2>4, SplitUnchanged DEF ToolsInv
<1>7. CASE ReadUnset
  <2>1. UNCHANGED splitVars  BY <1>7 DEF ReadUnset
  <2> QED  BY <1>7, <2>1, CrashKept, SplitUnchanged DEF ToolsInv
<1> QED  BY <1>1, <1>2, <1>3, <1>4, <1>5, <1>6, <1>7 DEF ToolsNext

LEMMA ToolsInvariant == ToolsSpec => []ToolsInv
<1>1. ToolsInit => ToolsInv  BY SplitStart, WidthStart DEF ToolsInit, ToolsInv
<1>2. ToolsInv /\ [ToolsNext]_toolVars => ToolsInv'  BY ToolsKept
<1> QED  BY <1>1, <1>2, PTL DEF ToolsSpec
-----------------------------------------------------------------------------
(* The report: sorted arrays.                                              *)

\* How many elements of a are below y.
Below(a, y) == Cardinality({i \in DOMAIN a : a[i] < y})

LEMMA BelowFacts ==
  ASSUME NEW a \in Seq(Nat), NEW y \in Nat
  PROVE  /\ IsFiniteSet({i \in DOMAIN a : a[i] < y})
         /\ Below(a, y) \in Nat /\ Below(a, y) <= Len(a) /\ Below(a, 0) = 0
         /\ \A z \in Nat : y <= z => Below(a, y) <= Below(a, z)
         /\ (\A i \in DOMAIN a : a[i] < y) => Below(a, y) = Len(a)
<1>1. DOMAIN a = 1 .. Len(a) /\ Len(a) \in Nat /\ \A i \in 1 .. Len(a) : a[i] \in Nat
  BY LenProperties, ElementOfSeq
<1>2. IsFiniteSet(DOMAIN a) /\ Cardinality(DOMAIN a) = Len(a)
  <2>1. IsFiniteSet(1 .. Len(a)) /\ Cardinality(1 .. Len(a)) = IF 1 > Len(a) THEN 0 ELSE Len(a) - 1 + 1
    BY <1>1, FS_Interval
  <2> QED  BY <1>1, <2>1
<1>3. \A z \in Nat : /\ IsFiniteSet({i \in DOMAIN a : a[i] < z})
                     /\ Cardinality({i \in DOMAIN a : a[i] < z}) <= Cardinality(DOMAIN a)
                     /\ Cardinality({i \in DOMAIN a : a[i] < z}) \in Nat
  <2> SUFFICES ASSUME NEW z \in Nat
               PROVE  /\ IsFiniteSet({i \in DOMAIN a : a[i] < z})
                      /\ Cardinality({i \in DOMAIN a : a[i] < z}) <= Cardinality(DOMAIN a)
                      /\ Cardinality({i \in DOMAIN a : a[i] < z}) \in Nat
    OBVIOUS
  <2>1. PICK S : S = {i \in DOMAIN a : a[i] < z}
    OBVIOUS
  <2>2. S \subseteq DOMAIN a  BY <2>1
  <2>3. IsFiniteSet(S) /\ Cardinality(S) <= Cardinality(DOMAIN a) /\ Cardinality(S) \in Nat
    BY <1>2, <2>2, FS_Subset, FS_CardinalityType
  <2> QED  BY <2>1, <2>3
<1>4. {i \in DOMAIN a : a[i] < 0} = {}  BY <1>1
<1>5. ASSUME NEW z \in Nat, y <= z PROVE Below(a, y) <= Below(a, z)
  <2>1. {i \in DOMAIN a : a[i] < y} \subseteq {i \in DOMAIN a : a[i] < z}  BY <1>1, <1>5
  <2> QED  BY <1>3, <2>1, FS_Subset DEF Below
<1>6. ASSUME \A i \in DOMAIN a : a[i] < y PROVE Below(a, y) = Len(a)
  <2>1. {i \in DOMAIN a : a[i] < y} = DOMAIN a  BY <1>6
  <2> QED  BY <1>2, <2>1 DEF Below
<1> QED  BY <1>2, <1>3, <1>4, <1>5, <1>6, FS_EmptySet DEF Below

\* Some number is above all elements.
LEMMA Bounded ==
  ASSUME NEW a \in Seq(Nat)
  PROVE  \E b \in Nat : \A i \in DOMAIN a : a[i] < b
<1> DEFINE S == {n \in Nat : n <= Len(a) => \E b \in Nat : \A i \in 1 .. n : a[i] < b}
<1>1. DOMAIN a = 1 .. Len(a) /\ Len(a) \in Nat /\ \A i \in 1 .. Len(a) : a[i] \in Nat
  BY LenProperties, ElementOfSeq
<1>2. 0 \in S
  <2>1. \A i \in 1 .. 0 : a[i] < 0  OBVIOUS
  <2> QED  BY <2>1
<1>3. ASSUME NEW n \in Nat, n \in S PROVE n + 1 \in S
  <2> SUFFICES ASSUME n + 1 <= Len(a) PROVE \E b \in Nat : \A i \in 1 .. n + 1 : a[i] < b
    OBVIOUS
  <2>1. PICK b \in Nat : \A i \in 1 .. n : a[i] < b  BY <1>1, <1>3
  <2>2. a[n + 1] \in Nat  BY <1>1
  <2>3. PICK c \in Nat : b <= c /\ a[n + 1] < c
    <3>1. CASE a[n + 1] < b  BY <3>1
    <3>2. CASE ~(a[n + 1] < b)
      <4>1. a[n + 1] + 1 \in Nat /\ b <= a[n + 1] + 1 /\ a[n + 1] < a[n + 1] + 1  BY <2>2, <3>2
      <4> QED  BY <4>1
    <3> QED  BY <3>1, <3>2
  <2>4. \A i \in 1 .. n + 1 : a[i] < c
    <3> SUFFICES ASSUME NEW i \in 1 .. n + 1 PROVE a[i] < c
      OBVIOUS
    <3>1. CASE i = n + 1  BY <2>3, <3>1
    <3>2. CASE i \in 1 .. n
      <4>1. a[i] < b /\ a[i] \in Nat  BY <1>1, <2>1, <3>2
      <4> QED  BY <2>3, <4>1
    <3> QED  BY <3>1, <3>2
  <2> QED  BY <2>3, <2>4
<1> HIDE DEF S
<1>4. \A n \in Nat : n \in S  BY <1>2, <1>3, Induction
<1>5. Len(a) \in S /\ Len(a) <= Len(a)  BY <1>1, <1>4
<1>6. \E b \in Nat : \A i \in 1 .. Len(a) : a[i] < b  BY <1>5 DEF S
<1> QED  BY <1>1, <1>6

\* The k-th element of the sorted array is the one that less than k are below and k or
\* more at or below.
NotAfter(a, x) == {i \in DOMAIN a : compInc(a[i], x) = -1}

LEMMA Order ==
  ASSUME NEW a \in Seq(Nat), NEW k \in 1 .. Len(a)
  PROVE  /\ \E i \in DOMAIN a : qsort(a)[k] = a[i]
         /\ \A y \in Nat : qsort(a)[k] < y <=> k <= Below(a, y)
<1>1. DOMAIN a = 1 .. Len(a) /\ Len(a) \in Nat /\ \A i \in 1 .. Len(a) : a[i] \in Nat
  BY LenProperties, ElementOfSeq
<1> DEFINE Y == {y \in Nat : k <= Below(a, y)}
           Q == {x \in Range(a) : Cardinality(NotAfter(a, x)) >= k}
<1>2. k \in Nat \ {0} /\ k <= Len(a)  BY <1>1
<1>3. Y # {}
  <2>1. PICK b \in Nat : \A i \in DOMAIN a : a[i] < b  BY Bounded
  <2>2. Below(a, b) = Len(a)  BY <2>1, BelowFacts
  <2> QED  BY <1>2, <2>2
<1>4. PICK y \in Y : \A z \in Y : y <= z  BY <1>3, LeastMember
<1>5. y # 0
  <2>1. Below(a, 0) = 0  BY BelowFacts
  <2> QED  BY <1>2, <1>4, <2>1
<1>6. PICK x \in Nat : y = x + 1
  <2>1. y - 1 \in Nat /\ y = (y - 1) + 1  BY <1>5
  <2> QED  BY <2>1
<1>7. Below(a, x) < k
  <2>1. x \notin Y  BY <1>4, <1>6
  <2>2. Below(a, x) \in Nat  BY BelowFacts
  <2> QED  BY <1>2, <2>1, <2>2
<1>8. \A z \in Nat : NotAfter(a, z) = {i \in DOMAIN a : a[i] < z + 1}
  <2> SUFFICES ASSUME NEW z \in Nat, NEW i \in DOMAIN a PROVE compInc(a[i], z) = -1 <=> a[i] < z + 1
    BY DEF NotAfter
  <2>1. a[i] \in Nat  BY <1>1
  <2> QED  BY <2>1 DEF compInc
<1>9. \A z \in Nat : z \in Q <=> z \in Range(a) /\ k <= Below(a, z + 1)
  <2> SUFFICES ASSUME NEW z \in Nat PROVE z \in Q <=> z \in Range(a) /\ k <= Below(a, z + 1)
    OBVIOUS
  <2>1. Cardinality(NotAfter(a, z)) = Below(a, z + 1)
    <3>1. NotAfter(a, z) = {i \in DOMAIN a : a[i] < z + 1}  BY <1>8
    <3> QED  BY <3>1 DEF Below
  <2>2. Below(a, z + 1) \in Nat
    <3>1. PICK n \in Nat : n = z + 1  OBVIOUS
    <3>2. Below(a, n) \in Nat  BY BelowFacts
    <3> QED  BY <3>1, <3>2
  <2> QED  BY <1>2, <2>1, <2>2
<1>10. Q \subseteq Nat  BY <1>1 DEF Range
<1>11. \E i \in DOMAIN a : a[i] = x
  <2> SUFFICES ASSUME \A i \in DOMAIN a : a[i] # x PROVE FALSE
    OBVIOUS
  <2>1. \A i \in DOMAIN a : a[i] < y <=> a[i] < x  BY <1>1, <1>6
  <2>2. Below(a, y) = Below(a, x)  BY <2>1 DEF Below
  <2>3. Below(a, x) \in Nat /\ k <= Below(a, y)  BY BelowFacts
  <2> QED  BY <1>2, <1>7, <2>2, <2>3
<1>12. x \in Q  BY <1>4, <1>6, <1>9, <1>11 DEF Range
<1>13. \A z \in Q : x <= z
  <2> SUFFICES ASSUME NEW z \in Q PROVE x <= z
    OBVIOUS
  <2>1. z \in Nat /\ k <= Below(a, z + 1)  BY <1>9, <1>10
  <2>2. y <= z + 1  BY <1>4, <2>1
  <2> QED  BY <1>6, <2>1, <2>2
<1> HIDE DEF Q, Y
<1>14. Min(Q) = x
  <2>1. \A z \in Q : (\A w \in Q : z <= w) => z = x  BY <1>10, <1>12, <1>13
  <2> QED  BY <1>12, <1>13, <2>1 DEF Min
<1>15. qsort(a)[k] = Min(Q)  BY <1>1 DEF qsort, Q, NotAfter
<1>16. \A z \in Nat : x < z <=> k <= Below(a, z)
  <2> SUFFICES ASSUME NEW z \in Nat PROVE x < z <=> k <= Below(a, z)
    OBVIOUS
  <2>1. ASSUME x < z PROVE k <= Below(a, z)
    <3>1. y <= z /\ y \in Nat  BY <1>6, <2>1
    <3>2. Below(a, y) <= Below(a, z) /\ Below(a, y) \in Nat /\ Below(a, z) \in Nat  BY <3>1, BelowFacts
    <3>3. k <= Below(a, y)  BY DEF Y
    <3> QED  BY <1>2, <3>2, <3>3
  <2>2. ASSUME k <= Below(a, z) PROVE x < z
    <3>1. y <= z  BY <1>4, <2>2 DEF Y
    <3> QED  BY <1>6, <3>1
  <2> QED  BY <2>1, <2>2
<1> QED  BY <1>11, <1>14, <1>15, <1>16
\* The sorted array is as long as the array.
LEMMA SortedLen ==
  ASSUME NEW a \in Seq(Nat)
  PROVE  DOMAIN qsort(a) = 1 .. Len(a) /\ Len(qsort(a)) = Len(a) /\ qsort(a) \in Seq(Nat)
<1>1. DOMAIN a = 1 .. Len(a) /\ Len(a) \in Nat /\ \A i \in 1 .. Len(a) : a[i] \in Nat
  BY LenProperties, ElementOfSeq
<1>2. DOMAIN qsort(a) = 1 .. Len(a)  BY <1>1 DEF qsort
<1>3. \A k \in 1 .. Len(a) : qsort(a)[k] \in Nat  BY <1>1, Order
<1>4. qsort(a) = [k \in 1 .. Len(a) |-> qsort(a)[k]]  BY <1>1 DEF qsort
<1> DEFINE s == qsort(a)
<1>5. s \in [1 .. Len(a) -> Nat]
  <2> HIDE DEF s
  <2> QED  BY <1>2, <1>3, <1>4 DEF s
<1> HIDE DEF s
<1>6. s \in Seq(Nat) /\ Len(s) = Len(a)  BY <1>1, <1>5
<1> QED  BY <1>2, <1>6 DEF s

\* The ends a float product is between, in units of 1 / Scale.
LEMMA Ends ==
  ASSUME NEW q \in {0} \cup 1000 .. UDen
  PROVE  /\ Scale \in Nat \ {0} /\ AtLeast(q) \in Nat /\ AtMost(q) \in Nat
         /\ AtLeast(q) <= AtMost(q) /\ AtLeast(q) <= Scale
<1>1. PICK P \in Nat : P = Precision /\ P >= 10  BY CdfAssumption
<1>2. UDen = 10000 /\ q \in Nat /\ q <= 10000  BY DEF UDen
<1>3. PICK x \in Nat : x = q * P
  <2>1. q * P \in Nat  BY <1>2, SMT
  <2> QED  BY <2>1
<1>4. PICK m \in Nat : m = Off(q) /\ m <= 10000 /\ (q = 0 => m = 0)
  <2>1. Off(q) = IF q \in {0, 5000, 10000} THEN 0 ELSE 10000  BY <1>2 DEF Off
  <2> QED  BY <2>1
<1>5. AtLeast(q) = x - m /\ AtMost(q) = x + m  BY <1>1, <1>3, <1>4 DEF AtLeast, AtMost
<1>6. q # 0 => 10000 <= x
  <2> SUFFICES ASSUME q # 0 PROVE 10000 <= x
    OBVIOUS
  <2>1. 1000 <= q  OBVIOUS
  <2>2. 1000 * P <= q * P  BY <1>2, <2>1, Monotone
  <2>3. 10000 <= 1000 * P  BY <1>1
  <2>4. PICK y \in Nat : y = 1000 * P  BY <1>1
  <2> QED  BY <1>3, <2>2, <2>3, <2>4
<1>7. PICK y \in Nat : y = 10000 * P  BY <1>1
<1>8. x <= y
  <2>1. q * P <= 10000 * P  BY <1>2, Monotone
  <2> QED  BY <1>3, <1>7, <2>1
<1>9. Scale = y /\ y # 0  BY <1>1, <1>2, <1>7 DEF Scale
<1>10. x - m \in Nat  BY <1>4, <1>6
<1> QED  BY <1>4, <1>5, <1>8, <1>9, <1>10

LEMMA CeilFacts ==
  ASSUME NEW a \in Nat, NEW b \in Nat \ {0}
  PROVE  Ceil(a, b) \in Nat /\ (Ceil(a, b) - 1) * b < a /\ a <= Ceil(a, b) * b
<1>1. PICK x \in Nat : x = a + b - 1  OBVIOUS
<1>2. PICK d \in Nat, m \in 0 .. b - 1 : d = x \div b /\ x = d * b + m /\ d * b \in Nat
  <2>1. x \div b \in Nat /\ x % b \in 0 .. b - 1 /\ x = (x \div b) * b + (x % b) /\ (x \div b) * b \in Nat
    BY DivMod
  <2> QED  BY <2>1
<1>3. Ceil(a, b) = d  BY <1>1, <1>2 DEF Ceil
<1>4. (d - 1) * b = d * b - b  BY SMT
<1>5. PICK y \in Nat : y = d * b  BY <1>2
<1>6. y - b < a /\ a <= y  BY <1>1, <1>2, <1>5
<1> QED  BY <1>3, <1>4, <1>5, <1>6

LEMMA LesserOfTwo ==
  ASSUME NEW a \in Nat, NEW b \in Nat
  PROVE  Min({a, b}) = IF a <= b THEN a ELSE b
<1> DEFINE m == IF a <= b THEN a ELSE b
           P(x) == x \in {a, b} /\ \A y \in {a, b} : x =< y
<1>1. P(m)  OBVIOUS
<1>2. \A x : P(x) => x = m  OBVIOUS
<1>3. Min({a, b}) = CHOOSE x : P(x)  BY DEF Min
<1> HIDE DEF P
<1>4. Min({a, b}) = m  BY <1>1, <1>2, <1>3
<1> QED  BY <1>4

LEMMA GreaterOfTwo ==
  ASSUME NEW a \in Nat, NEW b \in Nat
  PROVE  Max({a, b}) = IF a >= b THEN a ELSE b
<1> DEFINE m == IF a >= b THEN a ELSE b
           P(x) == x \in {a, b} /\ \A y \in {a, b} : x >= y
<1>1. P(m)  OBVIOUS
<1>2. \A x : P(x) => x = m  OBVIOUS
<1>3. Max({a, b}) = CHOOSE x : P(x)  BY DEF Max
<1> HIDE DEF P
<1>4. Max({a, b}) = m  BY <1>1, <1>2, <1>3
<1> QED  BY <1>4

\* The rank of a fraction q of n samples is where a product of q * n is passed.
LEMMA RankFacts ==
  ASSUME NEW q \in 1000 .. UDen, NEW n \in Nat \ {0}, NEW up \in BOOLEAN
  PROVE  LET r == Rank(q, n, up) IN
         /\ r \in 1 .. n
         /\ (r - 1) * Scale <= AtMost(q) * n /\ AtLeast(q) * n <= r * Scale
<1>1. PICK S \in Nat \ {0}, lo \in Nat, hi \in Nat :
        S = Scale /\ lo = AtLeast(q) /\ hi = AtMost(q) /\ lo <= hi /\ lo <= S
  <2>1. Scale \in Nat \ {0} /\ AtLeast(q) \in Nat /\ AtMost(q) \in Nat
        /\ AtLeast(q) <= AtMost(q) /\ AtLeast(q) <= Scale  BY Ends
  <2> QED  BY <2>1
<1>2. lo * n \in Nat /\ lo * n <= hi * n /\ hi * n \in Nat /\ lo * n <= S * n  BY <1>1, Monotone
<1>3. PICK l \in Nat, h \in Nat : l = lo * n /\ h = hi * n  BY <1>2
<1>4. n * S \in Nat /\ S * n = n * S  BY SMT
<1>5. l <= h /\ l <= n * S  BY <1>2, <1>3, <1>4
<1>6. CASE up
  <2>1. PICK c \in Nat : c = Ceil(h, S) /\ (c - 1) * S < h /\ h <= c * S  BY CeilFacts
  <2>2. PICK r : r = Rank(q, n, up)  OBVIOUS
  <2>3. r = IF n <= c THEN n ELSE c  BY <1>1, <1>3, <1>6, <2>1, <2>2, LesserOfTwo DEF Rank
  <2>4. c # 0
    <3>1. hi # 0
      <4>1. PICK P \in Nat : P = Precision /\ P >= 10  BY CdfAssumption
      <4>2. q \in Nat /\ q >= 1000  BY DEF UDen
      <4>3. q * P \in Nat /\ 1 * P <= q * P  BY <4>1, <4>2, Monotone
      <4>4. Off(q) \in Nat  BY DEF Off, UDen
      <4>5. PICK x \in Nat, m \in Nat : x = q * P /\ m = Off(q)  BY <4>3, <4>4
      <4>6. 1 * P = P  BY <4>1
      <4>7. x >= 10  BY <4>1, <4>3, <4>5, <4>6
      <4>8. hi = x + m  BY <1>1, <4>1, <4>5 DEF AtMost
      <4> QED  BY <4>7, <4>8
    <3>2. 1 * n <= hi * n  BY <1>1, <3>1, Monotone
    <3>3. 1 * n = n  OBVIOUS
    <3>4. h > 0  BY <1>3, <3>2, <3>3
    <3>5. c = 0 => c * S = 0  BY SMT
    <3> QED  BY <2>1, <3>4, <3>5
  <2>5. r \in 1 .. n /\ r <= c  BY <2>3, <2>4
  <2>6. (r - 1) * S <= (c - 1) * S
    <3>1. r - 1 \in Nat /\ c - 1 \in Nat /\ r - 1 <= c - 1  BY <2>4, <2>5
    <3> QED  BY <3>1, Monotone
  <2>7. (r - 1) * S \in Int /\ (c - 1) * S \in Int /\ r * S \in Nat  BY <2>5, SMT
  <2>8. l <= r * S  BY <1>4, <1>5, <2>1, <2>3, <2>7
  <2>9. (r - 1) * S <= h  BY <2>1, <2>6, <2>7
  <2> QED  BY <1>1, <1>3, <2>2, <2>5, <2>8, <2>9
<1>7. CASE ~up
  <2>1. PICK c \in Nat : c = Ceil(l, S) /\ (c - 1) * S < l /\ l <= c * S  BY CeilFacts
  <2>2. PICK r : r = Rank(q, n, up)  OBVIOUS
  <2>3. r = IF 1 >= c THEN 1 ELSE c  BY <1>1, <1>3, <1>7, <2>1, <2>2, GreaterOfTwo DEF Rank
  <2>4. c <= n
    <3>1. (c - 1) * S \in Int /\ (c - 1) * S < n * S  BY <1>4, <1>5, <2>1, SMT
    <3>2. n <= c - 1 => n * S <= (c - 1) * S  BY Monotone
    <3> QED  BY <1>4, <3>1, <3>2
  <2>5. r \in 1 .. n /\ c <= r  BY <2>3, <2>4
  <2>6. c * S \in Nat /\ r * S \in Nat /\ c * S <= r * S  BY <2>5, Monotone
  <2>7. l <= r * S  BY <2>1, <2>6
  <2>8. (r - 1) * S <= h
    <3>1. CASE r = 1
      <4>1. (r - 1) * S = 0  BY <3>1
      <4> QED  BY <4>1
    <3>2. CASE r # 1
      <4>1. r = c /\ (c - 1) * S \in Int  BY <2>3, <3>2, SMT
      <4> QED  BY <1>5, <2>1, <4>1
    <3> QED  BY <3>1, <3>2
  <2> QED  BY <1>1, <1>3, <2>2, <2>5, <2>7, <2>8
<1> QED  BY <1>6, <1>7

\* What the array holds at such a rank is a quantile of its elements.
IsQuantile(a, q, x) ==
  Below(a, x) * Scale <= AtMost(q) * Len(a) /\ Below(a, x + 1) * Scale >= AtLeast(q) * Len(a)

LEMMA RankIsQuantile ==
  ASSUME NEW a \in Seq(Nat), NEW q \in {0} \cup 1000 .. UDen, NEW r \in 1 .. Len(a),
         (r - 1) * Scale <= AtMost(q) * Len(a), AtLeast(q) * Len(a) <= r * Scale
  PROVE  IsQuantile(a, q, qsort(a)[r]) /\ \E i \in DOMAIN a : qsort(a)[r] = a[i]
<1>1. DOMAIN a = 1 .. Len(a) /\ Len(a) \in Nat /\ \A i \in 1 .. Len(a) : a[i] \in Nat
  BY LenProperties, ElementOfSeq
<1>2. \E i \in DOMAIN a : qsort(a)[r] = a[i]  BY Order
<1>3. PICK x \in Nat : x = qsort(a)[r]  BY <1>1, <1>2
<1>4. PICK y \in Nat : y = x + 1  OBVIOUS
<1>5. PICK l \in Nat : l = Below(a, x)  BY BelowFacts
<1>6. PICK h \in Nat : h = Below(a, y)  BY BelowFacts
<1>7. l <= r - 1 /\ r <= h
  <2>1. ~(x < x) /\ x < y  BY <1>4
  <2>2. (x < x <=> r <= Below(a, x)) /\ (x < y <=> r <= Below(a, y))  BY <1>3, Order
  <2> QED  BY <1>1, <1>5, <1>6, <2>1, <2>2
<1>8. PICK S \in Nat, lo \in Nat, hi \in Nat : S = Scale /\ lo = AtLeast(q) /\ hi = AtMost(q)
  <2>1. Scale \in Nat \ {0} /\ AtLeast(q) \in Nat /\ AtMost(q) \in Nat  BY Ends
  <2> QED  BY <2>1
<1>9. PICK k \in Nat, p \in Nat, o \in Nat : k = r - 1 /\ p = lo * Len(a) /\ o = hi * Len(a)
  <2>1. PICK n \in Nat : n = Len(a)  BY <1>1
  <2>2. lo * n \in Nat /\ hi * n \in Nat  BY SMT
  <2>3. r - 1 \in Nat  OBVIOUS
  <2> QED  BY <2>1, <2>2, <2>3
<1>10. k * S <= o /\ p <= r * S  BY <1>8, <1>9
<1>11. l * S <= o
  <2>1. l * S \in Nat /\ k * S \in Nat /\ l * S <= k * S  BY <1>7, <1>9, Monotone
  <2> QED  BY <1>10, <2>1
<1>12. p <= h * S
  <2>1. r \in Nat /\ r * S \in Nat /\ h * S \in Nat /\ r * S <= h * S  BY <1>1, <1>7, Monotone
  <2> QED  BY <1>10, <2>1
<1>13. IsQuantile(a, q, x)  BY <1>4, <1>5, <1>6, <1>8, <1>9, <1>11, <1>12 DEF IsQuantile
<1> QED  BY <1>2, <1>3, <1>13

LEMMA FunctionIsSeq ==
  ASSUME NEW S, NEW n \in Nat, NEW t \in [1 .. n -> S]
  PROVE  t \in Seq(S) /\ Len(t) = n
OBVIOUS

LEMMA Prepended ==
  ASSUME NEW S, NEW x \in S, NEW v \in Seq(S), NEW f, f = <<x>> \o v
  PROVE  f \in Seq(S) /\ Len(f) = Len(v) + 1 /\ f[1] = x /\ \A i \in 1 .. Len(v) : f[i + 1] = v[i]
<1>1. PICK w \in Seq(S) : w = <<x>> /\ Len(w) = 1 /\ w[1] = x
  <2>1. <<x>> \in Seq(S) /\ Len(<<x>>) = 1 /\ <<x>>[1] = x  OBVIOUS
  <2> QED  BY <2>1
<1>2. /\ w \o v \in Seq(S) /\ Len(w \o v) = Len(w) + Len(v)
      /\ \A i \in 1 .. Len(w) + Len(v) : (w \o v)[i] = IF i <= Len(w) THEN w[i] ELSE v[i - Len(w)]
  BY ConcatProperties
<1>3. Len(v) \in Nat  BY LenProperties
<1>4. f = w \o v  BY <1>1
<1>5. \A i \in 1 .. 1 + Len(v) : f[i] = IF i <= 1 THEN w[i] ELSE v[i - 1]  BY <1>1, <1>2, <1>4
<1>6. f[1] = x
  <2>1. 1 \in 1 .. 1 + Len(v)  BY <1>3
  <2> QED  BY <1>1, <1>5, <2>1
<1>7. ASSUME NEW i \in 1 .. Len(v) PROVE f[i + 1] = v[i]
  <2>1. i + 1 \in 1 .. 1 + Len(v) /\ ~(i + 1 <= 1) /\ (i + 1) - 1 = i  BY <1>3
  <2> QED  BY <1>5, <2>1
<1>8. f \in Seq(S) /\ Len(f) = Len(v) + 1  BY <1>1, <1>2, <1>3, <1>4
<1> QED  BY <1>6, <1>7, <1>8

LEMMA FractionFacts ==
  /\ DOMAIN u = 1 .. 14 /\ Len(u) = 14 /\ \A i \in 1 .. 14 : u[i] \in 1000 .. UDen
  /\ DOMAIN Fractions = 1 .. 15 /\ Fractions[1] = 0
  /\ \A i \in 2 .. 15 : Fractions[i] = u[i - 1]
<1>1. DOMAIN u = 1 .. 14 /\ Len(u) = 14 /\ \A i \in 1 .. 14 : u[i] \in 1000 .. UDen
  BY DEF u, UDen
<1>2. u \in Seq(Nat)  BY DEF u
<1>3. PICK v \in Seq(Nat) : v = u  BY <1>2
<1>6. PICK f : f = <<0>> \o v
  OBVIOUS
<1>4. f \in Seq(Nat) /\ Len(f) = Len(v) + 1 /\ f[1] = 0 /\ \A i \in 1 .. Len(v) : f[i + 1] = v[i]
  BY <1>6, Prepended
<1>5. Len(v) = 14  BY <1>1, <1>3
<1>7. f \in Seq(Nat) /\ Len(f) = 15 /\ f[1] = 0 /\ \A i \in 2 .. 15 : f[i] = v[i - 1]
  <2>1. ASSUME NEW i \in 2 .. 15 PROVE f[i] = v[i - 1]
    <3>1. i - 1 \in 1 .. Len(v) /\ (i - 1) + 1 = i  BY <1>5
    <3> QED  BY <1>4, <3>1
  <2> QED  BY <1>4, <1>5, <2>1
<1>8. DOMAIN f = 1 .. 15  BY <1>7, LenProperties
<1>9. f = Fractions  BY <1>3, <1>6 DEF Fractions
<1> QED  BY <1>1, <1>3, <1>7, <1>8, <1>9

\* The rows of a column.
LEMMA RowsFacts ==
  ASSUME NEW a \in Seq(Nat), NEW up, NEW p, p = Percentiles(qsort(a), up)
  PROVE  /\ a = <<>> => p = <<>>
         /\ a # <<>> =>
              /\ p = [i \in 1 .. 15 |-> p[i]]
              /\ \A i \in 1 .. 15 : /\ p[i] = 0 \/ \E j \in DOMAIN a : p[i] = a[j]
                                    /\ ~Wiped(i - 1) => IsQuantile(a, Fractions[i], p[i])
<1>1. Len(a) \in Nat /\ Len(qsort(a)) = Len(a) /\ qsort(a) \in Seq(Nat)  BY SortedLen, LenProperties
<1>2. PICK s \in Seq(Nat) : s = qsort(a) /\ Len(s) = Len(a)  BY <1>1
<1>3. CASE a = <<>>
  <2>1. s = <<>>  BY <1>1, <1>2, <1>3, EmptySeq
  <2> QED  BY <1>2, <1>3, <2>1 DEF Percentiles, NoRows
<1>4. CASE a # <<>>
  <2>1. PICK n \in Nat \ {0} : n = Len(a)  BY <1>1, <1>4, EmptySeq
  <2>2. s # <<>>  BY <1>2, <2>1
  <2>3. PICK t : t = [i \in 1 .. 14 |-> IF Wiped(i) THEN 0 ELSE s[Rank(u[i], n, i \in up)]]
    OBVIOUS
  <2>4. p = <<s[1]>> \o t  BY <1>2, <2>1, <2>2, <2>3, FractionFacts DEF Percentiles
  <2>5. ASSUME NEW i \in 1 .. 14
        PROVE  /\ t[i] = 0 \/ \E j \in DOMAIN a : t[i] = a[j]
               /\ ~Wiped(i) => IsQuantile(a, u[i], t[i])
    <3>1. CASE Wiped(i)  BY <2>3, <3>1
    <3>2. CASE ~Wiped(i)
      <4>1. PICK b \in BOOLEAN : b <=> i \in up
        <5>1. CASE i \in up  BY <5>1
        <5>2. CASE i \notin up  BY <5>2
        <5> QED  BY <5>1, <5>2
      <4>2. t[i] = s[Rank(u[i], n, b)]  BY <2>3, <3>2, <4>1 DEF Rank
      <4>3. u[i] \in 1000 .. UDen  BY FractionFacts
      <4>4. PICK q \in 1000 .. UDen : q = u[i]  BY <4>3
      <4>5. PICK r : r = Rank(q, n, b)
        OBVIOUS
      <4>6. r \in 1 .. n /\ (r - 1) * Scale <= AtMost(q) * n /\ AtLeast(q) * n <= r * Scale
        BY <4>5, RankFacts
      <4>7. IsQuantile(a, q, qsort(a)[r]) /\ \E j \in DOMAIN a : qsort(a)[r] = a[j]
        <5>1. q \in {0} \cup 1000 .. UDen  OBVIOUS
        <5>2. r \in 1 .. Len(a) /\ (r - 1) * Scale <= AtMost(q) * Len(a) /\ AtLeast(q) * Len(a) <= r * Scale
          BY <2>1, <4>6
        <5> QED  BY <5>1, <5>2, RankIsQuantile
      <4> QED  BY <1>2, <4>2, <4>4, <4>5, <4>7
    <3> QED  BY <3>1, <3>2
  <2>6. IsQuantile(a, 0, s[1]) /\ \E j \in DOMAIN a : s[1] = a[j]
    <3>1. PICK z : z = 0 /\ z \in {0} \cup 1000 .. UDen  OBVIOUS
    <3>2. AtLeast(z) = 0 /\ AtMost(z) = 0 /\ Scale \in Nat
      <4>1. Off(z) = 0 /\ Precision \in Nat  BY <3>1, CdfAssumption DEF Off
      <4>2. Scale \in Nat  BY <3>1, Ends
      <4> QED  BY <3>1, <4>1, <4>2 DEF AtLeast, AtMost
    <3>3. 1 \in 1 .. Len(a) /\ (1 - 1) * Scale <= AtMost(z) * Len(a) /\ AtLeast(z) * Len(a) <= 1 * Scale
      BY <2>1, <3>2
    <3>4. IsQuantile(a, z, qsort(a)[1]) /\ \E j \in DOMAIN a : qsort(a)[1] = a[j]
      BY <3>1, <3>3, RankIsQuantile
    <3> QED  BY <1>2, <3>1, <3>4
  <2>7. PICK D : D = {s[1]} \cup {t[i] : i \in 1 .. 14}
    OBVIOUS
  <2>8. s[1] \in D  BY <2>7
  <2>9. t \in Seq(D) /\ Len(t) = 14
    <3>1. \A i \in 1 .. 14 : t[i] \in D  BY <2>7
    <3>2. t \in [1 .. 14 -> D]  BY <2>3, <3>1
    <3>3. PICK m \in Nat : m = 14  OBVIOUS
    <3>4. t \in [1 .. m -> D]  BY <3>2, <3>3
    <3>5. t \in Seq(D) /\ Len(t) = m  BY <3>4, FunctionIsSeq
    <3> QED  BY <3>3, <3>5
  <2>10. p \in Seq(D) /\ Len(p) = Len(t) + 1 /\ p[1] = s[1] /\ \A i \in 1 .. Len(t) : p[i + 1] = t[i]
    <3>1. PICK x \in D : x = s[1]  BY <2>8
    <3>2. p = <<x>> \o t  BY <2>4, <3>1
    <3>3. p \in Seq(D) /\ Len(p) = Len(t) + 1 /\ p[1] = x /\ \A i \in 1 .. Len(t) : p[i + 1] = t[i]
      <4>1. PICK v \in Seq(D) : v = t  BY <2>9
      <4>2. PICK f : f = <<x>> \o v
        OBVIOUS
      <4>3. f \in Seq(D) /\ Len(f) = Len(v) + 1 /\ f[1] = x /\ \A i \in 1 .. Len(v) : f[i + 1] = v[i]
        BY <4>2, Prepended
      <4> QED  BY <3>2, <4>1, <4>2, <4>3
    <3> QED  BY <3>1, <3>3
  <2>11. p \in Seq(D) /\ Len(p) = 15 /\ p[1] = s[1] /\ \A i \in 2 .. 15 : p[i] = t[i - 1]
    <3>1. ASSUME NEW i \in 2 .. 15 PROVE p[i] = t[i - 1]
      <4>1. i - 1 \in 1 .. Len(t) /\ (i - 1) + 1 = i  BY <2>9
      <4> QED  BY <2>10, <4>1
    <3> QED  BY <2>9, <2>10, <3>1
  <2>12. p = [i \in 1 .. 15 |-> p[i]]  BY <2>11
  <2>13. ASSUME NEW i \in 1 .. 15
         PROVE  /\ p[i] = 0 \/ \E j \in DOMAIN a : p[i] = a[j]
                /\ ~Wiped(i - 1) => IsQuantile(a, Fractions[i], p[i])
    <3>1. CASE i = 1
      <4>1. Fractions[i] = 0 /\ p[i] = s[1]  BY <2>11, <3>1, FractionFacts
      <4> QED  BY <2>6, <4>1
    <3>2. CASE i # 1
      <4>1. i - 1 \in 1 .. 14 /\ i \in 2 .. 15  BY <3>2
      <4>2. Fractions[i] = u[i - 1] /\ p[i] = t[i - 1]  BY <2>11, <4>1, FractionFacts
      <4> QED  BY <2>5, <4>1, <4>2
    <3> QED  BY <3>1, <3>2
  <2> QED  BY <1>4, <2>12, <2>13
<1> QED  BY <1>3, <1>4
-----------------------------------------------------------------------------
(* The report: the split by priority and the histogram.                    *)

\* How many members of M are among the first n numbers.
Upto(M, n) == Cardinality(M \cap 1 .. n)

LEMMA UptoNext ==
  ASSUME NEW M, NEW n \in Nat
  PROVE  /\ IsFiniteSet(M \cap 1 .. n) /\ Upto(M, n) \in Nat /\ Upto(M, n) <= n /\ Upto(M, 0) = 0
         /\ Upto(M, n + 1) = IF n + 1 \in M THEN Upto(M, n) + 1 ELSE Upto(M, n)
<1> DEFINE A == M \cap 1 .. n
<1>1. IsFiniteSet(A) /\ Cardinality(A) \in Nat /\ Cardinality(A) <= n
  <2>1. A \subseteq 1 .. n  OBVIOUS
  <2>2. IsFiniteSet(1 .. n) /\ Cardinality(1 .. n) = IF 1 > n THEN 0 ELSE n - 1 + 1  BY FS_Interval
  <2>3. Cardinality(1 .. n) = n  BY <2>2
  <2> HIDE DEF A
  <2> QED  BY <2>1, <2>2, <2>3, FS_Subset, FS_CardinalityType
<1>2. n + 1 \notin A  OBVIOUS
<1>3. M \cap 1 .. n + 1 = IF n + 1 \in M THEN A \cup {n + 1} ELSE A
  <2>1. 1 .. n + 1 = (1 .. n) \cup {n + 1}  OBVIOUS
  <2> QED  BY <2>1
<1>4. M \cap 1 .. 0 = {}  OBVIOUS
<1>5. Upto(M, n) = Cardinality(A) /\ Upto(M, 0) = 0  BY <1>4, FS_EmptySet DEF Upto
<1> HIDE DEF A
<1>6. Cardinality(A \cup {n + 1}) = Cardinality(A) + 1  BY <1>1, <1>2, FS_AddElement
<1>7. Upto(M, n + 1) = IF n + 1 \in M THEN Upto(M, n) + 1 ELSE Upto(M, n)
  BY <1>3, <1>5, <1>6 DEF Upto
<1> QED  BY <1>1, <1>5, <1>7 DEF A

LEMMA BelowAppend ==
  ASSUME NEW a \in Seq(Nat), NEW x \in Nat, NEW y \in Nat
  PROVE  Below(Append(a, x), y) = IF x < y THEN Below(a, y) + 1 ELSE Below(a, y)
<1>n. PICK n \in Nat : n = Len(a) /\ DOMAIN a = 1 .. n  BY LenProperties
<1>b. PICK b \in Seq(Nat) : b = Append(a, x)  BY AppendProperties
<1>1. /\ Len(b) = n + 1 /\ DOMAIN b = 1 .. n + 1
      /\ b[n + 1] = x /\ \A i \in 1 .. n : b[i] = a[i]
  <2>1. Len(b) = n + 1 /\ b[n + 1] = x /\ \A i \in 1 .. n : b[i] = a[i]
    BY <1>n, <1>b, AppendProperties
  <2> QED  BY <2>1, LenProperties
<1>m. PICK M : M = {i \in 1 .. n + 1 : b[i] < y}
  OBVIOUS
<1>2. Below(b, y) = Upto(M, n + 1)
  <2>1. M \cap 1 .. n + 1 = {i \in DOMAIN b : b[i] < y}  BY <1>1, <1>m
  <2> QED  BY <2>1 DEF Below, Upto
<1>3. Below(a, y) = Upto(M, n)
  <2>1. M \cap 1 .. n = {i \in DOMAIN a : a[i] < y}  BY <1>1, <1>n, <1>m
  <2> QED  BY <2>1 DEF Below, Upto
<1>4. n + 1 \in M <=> x < y  BY <1>1, <1>m
<1>5. Upto(M, n + 1) = IF n + 1 \in M THEN Upto(M, n) + 1 ELSE Upto(M, n)  BY UptoNext
<1> QED  BY <1>b, <1>2, <1>3, <1>4, <1>5

\* The samples with a label are all of them, and no others.
LEMMA SplitFacts ==
  ASSUME NEW V \in SUBSET Nat, time \in Seq(V), pri \in Seq({0, 1}), Len(pri) = Len(time), NEW label
  PROVE  /\ Split(label) \in Seq(V)
         /\ Len(Split(label)) = Cardinality({i \in DOMAIN time : pri[i] = label})
         /\ \A y \in Nat :
              Below(Split(label), y) = Cardinality({i \in DOMAIN time : pri[i] = label /\ time[i] < y})
<1>n. PICK n \in Nat : n = Len(pri) /\ n = Len(time) /\ DOMAIN time = 1 .. n /\ DOMAIN pri = 1 .. n
  BY LenProperties
<1>0. \A i \in 1 .. n : time[i] \in V  BY <1>n, ElementOfSeq
<1>L. PICK L : L = {i \in 1 .. n : pri[i] = label}
  OBVIOUS
<1> DEFINE S == Seq(V)
           Is(f) == f = [i \in 0 .. n |-> IF i = 0 THEN <<>>
                           ELSE IF pri[i] = label THEN Append(f[i-1], time[i]) ELSE f[i-1]]
           f0 == CHOOSE f : Is(f)
           step == [i \in Nat |-> IF i \in L THEN [x \in S |-> Append(x, time[i])] ELSE [x \in S |-> x]]
<1>1. Split(label) = f0[n]  BY <1>n DEF Split
<1>2. step \in [Nat -> [S -> S]]
  <2>1. \A i \in L : \A x \in S : Append(x, time[i]) \in S  BY <1>0, <1>L, AppendProperties
  <2> HIDE DEF S
  <2> QED  BY <2>1
<1>3. \A i \in 1 .. n : \A x \in S : step[i][x] = IF pri[i] = label THEN Append(x, time[i]) ELSE x
  <2> SUFFICES ASSUME NEW i \in 1 .. n
               PROVE  \A x \in S : step[i][x] = IF pri[i] = label THEN Append(x, time[i]) ELSE x
    OBVIOUS
  <2>1. i \in Nat /\ (i \in L <=> pri[i] = label)  BY <1>L
  <2>2. CASE i \in L
    <3>1. step[i] = [x \in S |-> Append(x, time[i])]  BY <2>1, <2>2
    <3> HIDE DEF step, S
    <3> QED  BY <2>1, <2>2, <3>1
  <2>3. CASE i \notin L
    <3>1. step[i] = [x \in S |-> x]  BY <2>1, <2>3
    <3> HIDE DEF step, S
    <3> QED  BY <2>1, <2>3, <3>1
  <2> QED  BY <2>2, <2>3
<1>4. <<>> \in S  OBVIOUS
<1> HIDE DEF step, S
<1>5. PICK g \in [0 .. n -> S] : Unfolds(g, <<>>, step, n)  BY <1>2, <1>4, Recursion
<1>6. Is(g)
  <2>1. ASSUME NEW i \in 0 .. n
        PROVE  g[i] = IF i = 0 THEN <<>> ELSE IF pri[i] = label THEN Append(g[i-1], time[i]) ELSE g[i-1]
    <3>1. CASE i = 0  BY <1>5, <3>1 DEF Unfolds
    <3>2. CASE i # 0
      <4>1. i \in 1 .. n /\ i - 1 \in 0 .. n  BY <3>2
      <4>2. g[i] = step[i][g[i - 1]] /\ g[i - 1] \in S  BY <1>5, <4>1 DEF Unfolds
      <4> QED  BY <1>3, <3>2, <4>1, <4>2
    <3> QED  BY <3>1, <3>2
  <2> QED  BY <1>5, <2>1
<1>7. Is(f0)  BY <1>6
<1> HIDE DEF f0
<1>8. /\ f0[0] = <<>>
      /\ \A i \in 1 .. n : f0[i] = IF pri[i] = label THEN Append(f0[i-1], time[i]) ELSE f0[i-1]
  <2>1. f0 = [i \in 0 .. n |-> IF i = 0 THEN <<>>
                 ELSE IF pri[i] = label THEN Append(f0[i-1], time[i]) ELSE f0[i-1]]
    BY <1>7
  <2> HIDE DEF Is
  <2>2. \A i \in 0 .. n : f0[i] = IF i = 0 THEN <<>>
                 ELSE IF pri[i] = label THEN Append(f0[i-1], time[i]) ELSE f0[i-1]
    BY <2>1
  <2>0. 0 \in 0 .. n  OBVIOUS
  <2>3. f0[0] = <<>>  BY <2>0, <2>2
  <2>4. ASSUME NEW i \in 1 .. n
        PROVE  f0[i] = IF pri[i] = label THEN Append(f0[i-1], time[i]) ELSE f0[i-1]
    <3>1. i \in 0 .. n /\ i # 0  OBVIOUS
    <3> QED  BY <2>2, <3>1
  <2> QED  BY <2>3, <2>4
<1> DEFINE LB(y) == {i \in 1 .. n : pri[i] = label /\ time[i] < y}
           Good(i) == /\ f0[i] \in Seq(V) /\ Len(f0[i]) = Upto(L, i)
                      /\ \A y \in Nat : Below(f0[i], y) = Upto(LB(y), i)
           D == {i \in Nat : i <= n => Good(i)}
<1>9. 0 \in D
  <2>1. Upto(L, 0) = 0 /\ \A y \in Nat : Upto(LB(y), 0) = 0  BY UptoNext
  <2>2. \A y \in Nat : Below(<<>>, y) = 0
    <3>1. \A y \in Nat : {i \in DOMAIN <<>> : <<>>[i] < y} = {}  OBVIOUS
    <3> QED  BY <3>1, FS_EmptySet DEF Below
  <2> HIDE DEF LB
  <2>3. Good(0)  BY <1>8, <2>1, <2>2
  <2> QED  BY <2>3
<1>10. ASSUME NEW i \in Nat, i \in D PROVE i + 1 \in D
  <2> SUFFICES ASSUME i + 1 <= n PROVE Good(i + 1)
    OBVIOUS
  <2>1. Good(i)  BY <1>10
  <2>2. i + 1 \in 1 .. n /\ (i + 1) - 1 = i  OBVIOUS
  <2>3. PICK a \in Seq(V) : a = f0[i]  BY <2>1
  <2>4. PICK t \in V : t = time[i + 1]  BY <1>0, <2>2
  <2>5. a \in Seq(Nat) /\ t \in Nat  BY SeqMonotonic
  <2>6. Len(a) = Upto(L, i) /\ \A y \in Nat : Below(a, y) = Upto(LB(y), i)  BY <2>1, <2>3
  <2>7. /\ Upto(L, i + 1) = IF i + 1 \in L THEN Upto(L, i) + 1 ELSE Upto(L, i)
        /\ \A y \in Nat : Upto(LB(y), i + 1) = IF i + 1 \in LB(y) THEN Upto(LB(y), i) + 1 ELSE Upto(LB(y), i)
    <3> HIDE DEF LB
    <3> QED  BY UptoNext
  <2>8. \A y \in Nat : i + 1 \in LB(y) <=> pri[i + 1] = label /\ t < y  BY <2>2, <2>4
  <2> HIDE DEF LB
  <2>9. CASE pri[i + 1] = label
    <3>1. f0[i + 1] = Append(a, t)  BY <1>8, <2>2, <2>3, <2>4, <2>9
    <3>2. i + 1 \in L  BY <1>L, <2>2, <2>9
    <3>3. Append(a, t) \in Seq(V) /\ Len(Append(a, t)) = Len(a) + 1  BY AppendProperties
    <3>4. \A y \in Nat : Below(Append(a, t), y) = IF t < y THEN Below(a, y) + 1 ELSE Below(a, y)
      BY <2>5, BelowAppend
    <3>5. \A y \in Nat : Below(f0[i + 1], y) = Upto(LB(y), i + 1)
      BY <2>6, <2>7, <2>8, <2>9, <3>1, <3>4
    <3> QED  BY <2>6, <2>7, <3>1, <3>2, <3>3, <3>5
  <2>10. CASE pri[i + 1] # label
    <3>1. f0[i + 1] = a  BY <1>8, <2>2, <2>3, <2>10
    <3>2. i + 1 \notin L  BY <1>L, <2>10
    <3> QED  BY <2>6, <2>7, <2>8, <2>10, <3>1, <3>2
  <2> QED  BY <2>9, <2>10
<1> HIDE DEF D
<1>11. n \in D  BY <1>9, <1>10, Induction
<1>12. Good(n)  BY <1>11 DEF D
<1>13. Upto(L, n) = Cardinality({i \in DOMAIN time : pri[i] = label})
  <2>1. L \cap 1 .. n = {i \in DOMAIN time : pri[i] = label}  BY <1>L, <1>n
  <2> QED  BY <2>1 DEF Upto
<1>14. ASSUME NEW y \in Nat
       PROVE  Upto(LB(y), n) = Cardinality({i \in DOMAIN time : pri[i] = label /\ time[i] < y})
  <2>1. LB(y) \cap 1 .. n = {i \in DOMAIN time : pri[i] = label /\ time[i] < y}  BY <1>n
  <2> QED  BY <2>1 DEF Upto
<1> QED  BY <1>1, <1>12, <1>13, <1>14
\* Of the sorted array, i runs up to what is below the end of its row.
LEMMA SketchFacts ==
  ASSUME NEW a \in Seq(Nat), interval_cnt = NoCount
  PROVE  sketch_delay(qsort(a)) = [j \in 1 .. SASP |-> Below(a, Step * j) - Below(a, Step * (j - 1))]
<1>n. PICK n \in Nat : n = Len(a)  BY LenProperties
<1>s. PICK s : s = qsort(a)
  OBVIOUS
<1>0. SASP \in Nat \ {0} /\ Step \in Nat \ {0}  BY CdfAssumption
<1>y. \A j \in Nat : Step * j \in Nat  BY <1>0, SMT
<1> DEFINE Stop(lo, j) == Max({k \in lo .. Len(s) : \A m \in lo + 1 .. k : s[m] < Step * j})
           Is(f) == f = [j \in 0 .. SASP |-> IF j = 0 THEN 0 ELSE
                           Max({k \in f[j-1] .. Len(s) : \A m \in f[j-1] + 1 .. k : s[m] < Step * j})]
           f0 == CHOOSE f : Is(f)
           h == [j \in 0 .. SASP |-> Below(a, Step * j)]
<1>1. Len(s) = n  BY <1>n, <1>s, SortedLen
<1>2. sketch_delay(s) = [j \in 1 .. SASP |-> interval_cnt[j] + f0[j] - f0[j-1]]  BY DEF sketch_delay
<1>3. \A j \in Nat : Below(a, Step * j) \in Nat /\ Below(a, Step * j) <= n
  <2> SUFFICES ASSUME NEW j \in Nat PROVE Below(a, Step * j) \in Nat /\ Below(a, Step * j) <= n
    OBVIOUS
  <2>1. PICK y \in Nat : y = Step * j  BY <1>y
  <2>2. Below(a, y) \in Nat /\ Below(a, y) <= Len(a)  BY BelowFacts
  <2> QED  BY <1>n, <2>1, <2>2
<1>4. ASSUME NEW j \in 1 .. SASP PROVE Stop(Below(a, Step * (j - 1)), j) = Below(a, Step * j)
  <2>1. j \in Nat /\ j - 1 \in Nat  BY <1>0
  <2>2. PICK y \in Nat, z \in Nat : y = Step * (j - 1) /\ z = Step * j /\ y <= z
    <3>1. Step * j = Step * (j - 1) + Step  BY <1>0, <2>1, SMT
    <3> QED  BY <1>0, <1>y, <2>1, <3>1
  <2>3. PICK lo \in Nat, hi \in Nat : lo = Below(a, y) /\ hi = Below(a, z) /\ lo <= hi /\ hi <= n
    BY <1>n, <2>2, BelowFacts
  <2>4. \A m \in 1 .. n : s[m] < z <=> m <= hi  BY <1>n, <1>s, <2>3, Order
  <2>5. PICK K : K = {k \in lo .. Len(s) : \A m \in lo + 1 .. k : s[m] < z}
    OBVIOUS
  <2>6. \A k \in K : k \in Nat /\ k <= hi
    <3> SUFFICES ASSUME NEW k \in K PROVE k \in Nat /\ k <= hi
      OBVIOUS
    <3>1. k \in lo .. n /\ \A m \in lo + 1 .. k : s[m] < z  BY <1>1, <2>5
    <3>2. CASE k = lo  BY <2>3, <3>1, <3>2
    <3>3. CASE k # lo
      <4>1. k \in lo + 1 .. k /\ k \in 1 .. n /\ k \in Nat  BY <3>1, <3>3
      <4> QED  BY <2>4, <3>1, <4>1
    <3> QED  BY <3>2, <3>3
  <2>7. hi \in K
    <3>1. hi \in lo .. Len(s)  BY <1>1, <2>3
    <3>2. ASSUME NEW m \in lo + 1 .. hi PROVE s[m] < z
      <4>1. m \in 1 .. n /\ m <= hi  BY <2>3
      <4> QED  BY <2>4, <4>1
    <3> QED  BY <2>5, <3>1, <3>2
  <2>8. \A k \in K : (\A m \in K : k >= m) => k = hi
    <3> SUFFICES ASSUME NEW k \in K, \A m \in K : k >= m PROVE k = hi
      OBVIOUS
    <3>1. k \in Nat /\ k <= hi /\ k >= hi  BY <2>6, <2>7
    <3> QED  BY <3>1
  <2>9. \A m \in K : hi >= m  BY <2>6
  <2>10. Max(K) = hi  BY <2>7, <2>8, <2>9 DEF Max
  <2>11. Stop(lo, j) = Max(K)  BY <2>2, <2>5
  <2> QED  BY <2>2, <2>3, <2>10, <2>11
<1>5. Is(h)
  <2> SUFFICES ASSUME NEW j \in 0 .. SASP
               PROVE  h[j] = IF j = 0 THEN 0 ELSE Stop(h[j - 1], j)
    OBVIOUS
  <2>1. CASE j = 0
    <3>1. Step * 0 = 0  BY <1>0, SMT
    <3>2. Below(a, 0) = 0  BY BelowFacts
    <3> QED  BY <2>1, <3>1, <3>2
  <2>2. CASE j # 0
    <3>1. j \in 1 .. SASP /\ j - 1 \in 0 .. SASP  BY <1>0, <2>2
    <3>2. h[j - 1] = Below(a, Step * (j - 1)) /\ h[j] = Below(a, Step * j)  BY <3>1
    <3>3. Stop(Below(a, Step * (j - 1)), j) = Below(a, Step * j)  BY <1>4, <3>1
    <3> HIDE DEF Stop, h
    <3> QED  BY <2>2, <3>2, <3>3
  <2> QED  BY <2>1, <2>2
<1>6. Is(f0)  BY <1>5
<1> HIDE DEF f0, h
<1>7. f0[0] = 0 /\ \A j \in 1 .. SASP : f0[j] = Stop(f0[j - 1], j)
  <2>1. f0 = [j \in 0 .. SASP |-> IF j = 0 THEN 0 ELSE Stop(f0[j - 1], j)]  BY <1>6
  <2> HIDE DEF Is, Stop
  <2>2. \A j \in 0 .. SASP : f0[j] = IF j = 0 THEN 0 ELSE Stop(f0[j - 1], j)  BY <2>1
  <2>3. 0 \in 0 .. SASP  BY <1>0
  <2>4. ASSUME NEW j \in 1 .. SASP PROVE f0[j] = Stop(f0[j - 1], j)
    <3>1. j \in 0 .. SASP /\ j # 0  BY <1>0
    <3> QED  BY <2>2, <3>1
  <2> QED  BY <2>2, <2>3, <2>4
<1> HIDE DEF Is, Stop
<1> DEFINE D == {j \in Nat : j <= SASP => f0[j] = Below(a, Step * j)}
<1>8. 0 \in D
  <2>1. Step * 0 = 0  BY <1>0, SMT
  <2>2. Below(a, 0) = 0  BY BelowFacts
  <2> QED  BY <1>7, <2>1, <2>2
<1>9. ASSUME NEW j \in Nat, j \in D PROVE j + 1 \in D
  <2> SUFFICES ASSUME j + 1 <= SASP PROVE f0[j + 1] = Below(a, Step * (j + 1))
    OBVIOUS
  <2>1. f0[j] = Below(a, Step * j)  BY <1>0, <1>9
  <2>2. j + 1 \in 1 .. SASP /\ (j + 1) - 1 = j  BY <1>0
  <2>3. f0[j + 1] = Stop(f0[j], j + 1)  BY <1>7, <2>2
  <2>4. Stop(Below(a, Step * j), j + 1) = Below(a, Step * (j + 1))  BY <1>4, <2>2
  <2> QED  BY <2>1, <2>3, <2>4
<1> HIDE DEF D
<1>10. \A j \in Nat : j \in D  BY <1>8, <1>9, Induction
<1>11. ASSUME NEW j \in 1 .. SASP
       PROVE  interval_cnt[j] + f0[j] - f0[j - 1] = Below(a, Step * j) - Below(a, Step * (j - 1))
  <2>1. j \in Nat /\ j <= SASP /\ j - 1 \in Nat /\ j - 1 <= SASP  BY <1>0
  <2>2. f0[j] = Below(a, Step * j) /\ f0[j - 1] = Below(a, Step * (j - 1))  BY <1>10, <2>1 DEF D
  <2>3. interval_cnt[j] = 0  BY DEF NoCount
  <2>4. Below(a, Step * j) \in Nat /\ Below(a, Step * (j - 1)) \in Nat  BY <1>3, <2>1
  <2> QED  BY <2>2, <2>3, <2>4
<1> QED  BY <1>2, <1>11, <1>s

\* What is below the end of a row and not below its start is in the row.
LEMMA RowCount ==
  ASSUME NEW a \in Seq(Nat), NEW y \in Nat, NEW z \in Nat, y <= z
  PROVE  Below(a, z) - Below(a, y) = Cardinality({i \in DOMAIN a : y <= a[i] /\ a[i] < z})
<1>1. DOMAIN a = 1 .. Len(a) /\ Len(a) \in Nat /\ \A i \in 1 .. Len(a) : a[i] \in Nat
  BY LenProperties, ElementOfSeq
<1>2. PICK S : S = {i \in DOMAIN a : a[i] < z}
  OBVIOUS
<1>3. PICK T : T = {i \in DOMAIN a : a[i] < y}
  OBVIOUS
<1>4. IsFiniteSet(S)  BY <1>2, BelowFacts
<1>5. S \cap T = T /\ S \ T = {i \in DOMAIN a : y <= a[i] /\ a[i] < z}  BY <1>1, <1>2, <1>3
<1>6. Cardinality(S \ T) = Cardinality(S) - Cardinality(S \cap T)  BY <1>4, FS_Difference
<1>7. Below(a, z) = Cardinality(S) /\ Below(a, y) = Cardinality(T)  BY <1>2, <1>3 DEF Below
<1> QED  BY <1>5, <1>6, <1>7
-----------------------------------------------------------------------------
(* The report: its columns.                                                *)

\* The array a column is computed from, and the samples it stands for.
Array(c) == IF c = "total" THEN time ELSE IF ~enable_pri THEN <<>> ELSE IF c = "high" THEN Split(1) ELSE Split(0)
Mine(c) ==
  IF c = "total" THEN DOMAIN time ELSE IF ~enable_pri THEN {}
  ELSE {i \in DOMAIN time : pri[i] = IF c = "high" THEN 1 ELSE 0}

Recorded ==
  /\ time \in Seq(Delays) /\ pri \in Seq({0, 1}) /\ Len(pri) = Len(time)
  /\ enable_pri \in BOOLEAN

LEMMA ColumnFacts ==
  ASSUME Recorded, NEW c \in Columns
  PROVE  /\ Array(c) \in Seq(Delays) /\ IsFiniteSet(Mine(c)) /\ Len(Array(c)) = Cardinality(Mine(c))
         /\ \A y \in Nat : Below(Array(c), y) = Cardinality({k \in Mine(c) : time[k] < y})
<1>0. Delays \subseteq Nat  BY CdfAssumption
<1>1. time \in Seq(Delays) /\ pri \in Seq({0, 1}) /\ Len(pri) = Len(time) /\ time \in Seq(Nat)
  BY <1>0, SeqMonotonic DEF Recorded
<1>2. PICK n \in Nat : n = Len(time) /\ DOMAIN time = 1 .. n  BY <1>1, LenProperties
<1>3. IsFiniteSet(1 .. n) /\ Cardinality(1 .. n) = n
  <2>1. IsFiniteSet(1 .. n) /\ Cardinality(1 .. n) = IF 1 > n THEN 0 ELSE n - 1 + 1  BY FS_Interval
  <2> QED  BY <2>1
<1>4. IsFiniteSet(Mine(c))
  <2>1. Mine(c) \subseteq 1 .. n  BY <1>2 DEF Mine
  <2> QED  BY <1>3, <2>1, FS_Subset
<1>5. CASE c = "total"
  <2>1. Array(c) = time /\ Mine(c) = 1 .. n
    <3>1. Array(c) = time  BY <1>5 DEF Array
    <3>2. Mine(c) = DOMAIN time  BY <1>5 DEF Mine
    <3> QED  BY <1>2, <3>1, <3>2
  <2>2. ASSUME NEW y \in Nat PROVE Below(time, y) = Cardinality({k \in Mine(c) : time[k] < y})
    <3>1. {k \in Mine(c) : time[k] < y} = {i \in DOMAIN time : time[i] < y}  BY <1>2, <2>1
    <3> QED  BY <3>1 DEF Below
  <2> QED  BY <1>1, <1>2, <1>3, <1>4, <2>1, <2>2
<1>6. CASE c # "total" /\ enable_pri
  <2>1. PICK label : label = IF c = "high" THEN 1 ELSE 0
    OBVIOUS
  <2>2. Array(c) = Split(label)  BY <1>6, <2>1 DEF Array
  <2>3. Mine(c) = {i \in DOMAIN time : pri[i] = label}  BY <1>6, <2>1 DEF Mine
  <2>4. /\ Split(label) \in Seq(Delays)
        /\ Len(Split(label)) = Cardinality({i \in DOMAIN time : pri[i] = label})
        /\ \A y \in Nat :
             Below(Split(label), y) = Cardinality({i \in DOMAIN time : pri[i] = label /\ time[i] < y})
    <3>1. PICK V \in SUBSET Nat : V = Delays  BY <1>0
    <3>2. time \in Seq(V)  BY <1>1, <3>1
    <3>3. /\ Split(label) \in Seq(V)
          /\ Len(Split(label)) = Cardinality({i \in DOMAIN time : pri[i] = label})
          /\ \A y \in Nat :
               Below(Split(label), y) = Cardinality({i \in DOMAIN time : pri[i] = label /\ time[i] < y})
      BY <1>1, <3>2, SplitFacts
    <3> QED  BY <3>1, <3>3
  <2>5. ASSUME NEW y \in Nat PROVE Below(Split(label), y) = Cardinality({k \in Mine(c) : time[k] < y})
    <3>1. {k \in Mine(c) : time[k] < y} = {i \in DOMAIN time : pri[i] = label /\ time[i] < y}  BY <2>3
    <3> QED  BY <2>4, <3>1
  <2> QED  BY <1>4, <2>2, <2>3, <2>4, <2>5
<1>7. CASE c # "total" /\ ~enable_pri
  <2>1. Array(c) = <<>> /\ Mine(c) = {}  BY <1>7 DEF Array, Mine
  <2>2. <<>> \in Seq(Delays) /\ Len(<<>>) = 0 /\ DOMAIN <<>> = {}  OBVIOUS
  <2>3. ASSUME NEW y \in Nat PROVE Below(<<>>, y) = Cardinality({k \in Mine(c) : time[k] < y})
    <3>1. {k \in Mine(c) : time[k] < y} = {} /\ {i \in DOMAIN <<>> : <<>>[i] < y} = {}  BY <2>1, <2>2
    <3> QED  BY <3>1 DEF Below
  <2> QED  BY <1>4, <2>1, <2>2, <2>3, FS_EmptySet
<1> QED  BY <1>5, <1>6, <1>7

\* p are the rows of column c, over the samples that are its own.
RowsOf(c, p) ==
  /\ p = NoRows <=> Mine(c) = {}
  /\ p \in {NoRows} \cup [DOMAIN Fractions -> Delays \cup {0}]
  /\ \A i \in DOMAIN p : ~Wiped(i - 1) =>
       /\ p[i] \in Nat
       /\ Cardinality({k \in Mine(c) : time[k] < p[i]}) * Scale <= AtMost(Fractions[i]) * Cardinality(Mine(c))
       /\ Cardinality({k \in Mine(c) : time[k] <= p[i]}) * Scale >= AtLeast(Fractions[i]) * Cardinality(Mine(c))

LEMMA ColumnRows ==
  ASSUME Recorded, NEW c \in Columns, NEW up, NEW p, p = Percentiles(qsort(Array(c)), up)
  PROVE  RowsOf(c, p)
<1>0. Delays \subseteq Nat  BY CdfAssumption
<1>1. PICK a \in Seq(Delays) : a = Array(c)  BY ColumnFacts
<1>2. a \in Seq(Nat) /\ Len(a) \in Nat /\ DOMAIN a = 1 .. Len(a)  BY <1>0, SeqMonotonic, LenProperties
<1>3. IsFiniteSet(Mine(c)) /\ Len(a) = Cardinality(Mine(c))
      /\ \A y \in Nat : Below(a, y) = Cardinality({k \in Mine(c) : time[k] < y})
  BY <1>1, ColumnFacts
<1>4. a = <<>> <=> Mine(c) = {}
  <2>1. a = <<>> <=> Len(a) = 0  BY <1>2, EmptySeq
  <2> QED  BY <1>3, <2>1, FS_EmptySet
<1>5. p = Percentiles(qsort(a), up)  BY <1>1
<1>6. /\ a = <<>> => p = <<>>
      /\ a # <<>> =>
           /\ p = [i \in 1 .. 15 |-> p[i]]
           /\ \A i \in 1 .. 15 : /\ p[i] = 0 \/ \E j \in DOMAIN a : p[i] = a[j]
                                 /\ ~Wiped(i - 1) => IsQuantile(a, Fractions[i], p[i])
  BY <1>2, <1>5, RowsFacts
<1>7. CASE a = <<>>
  <2>1. p = <<>> /\ NoRows = <<>> /\ DOMAIN p = {}  BY <1>6, <1>7 DEF NoRows
  <2> QED  BY <1>4, <1>7, <2>1 DEF RowsOf
<1>8. CASE a # <<>>
  <2>1. /\ p = [i \in 1 .. 15 |-> p[i]]
        /\ \A i \in 1 .. 15 : /\ p[i] = 0 \/ \E j \in DOMAIN a : p[i] = a[j]
                              /\ ~Wiped(i - 1) => IsQuantile(a, Fractions[i], p[i])
    BY <1>6, <1>8
  <2>2. DOMAIN p = 1 .. 15  BY <2>1
  <2>3. \A i \in 1 .. 15 : p[i] \in Delays \cup {0}
    <3> SUFFICES ASSUME NEW i \in 1 .. 15 PROVE p[i] \in Delays \cup {0}
      OBVIOUS
    <3>1. CASE p[i] = 0  BY <3>1
    <3>2. CASE \E j \in DOMAIN a : p[i] = a[j]
      <4>1. PICK j \in 1 .. Len(a) : p[i] = a[j]  BY <1>2, <3>2
      <4>2. a[j] \in Delays  BY ElementOfSeq
      <4> QED  BY <4>1, <4>2
    <3> QED  BY <2>1, <3>1, <3>2
  <2>4. p \in [DOMAIN Fractions -> Delays \cup {0}]  BY <2>1, <2>3, FractionFacts
  <2>5. p # NoRows
    <3>1. DOMAIN NoRows = {}  BY DEF NoRows
    <3>2. 1 \in DOMAIN p  BY <2>2
    <3> QED  BY <3>1, <3>2
  <2>6. ASSUME NEW i \in DOMAIN p, ~Wiped(i - 1)
        PROVE  /\ p[i] \in Nat
               /\ Cardinality({k \in Mine(c) : time[k] < p[i]}) * Scale <= AtMost(Fractions[i]) * Cardinality(Mine(c))
               /\ Cardinality({k \in Mine(c) : time[k] <= p[i]}) * Scale >= AtLeast(Fractions[i]) * Cardinality(Mine(c))
    <3>1. PICK x \in Nat : x = p[i]  BY <1>0, <2>2, <2>3
    <3>2. IsQuantile(a, Fractions[i], x)  BY <2>1, <2>2, <2>6, <3>1
    <3>3. \A k \in Mine(c) : time[k] \in Nat
      <4>1. time \in Seq(Nat)  BY <1>0, SeqMonotonic DEF Recorded
      <4>2. \A k \in 1 .. Len(time) : time[k] \in Nat  BY <4>1, ElementOfSeq
      <4>3. DOMAIN time = 1 .. Len(time)  BY <4>1, LenProperties
      <4> QED  BY <4>2, <4>3 DEF Mine
    <3>4. {k \in Mine(c) : time[k] < x + 1} = {k \in Mine(c) : time[k] <= x}  BY <3>3
    <3>5. Below(a, x) = Cardinality({k \in Mine(c) : time[k] < x})  BY <1>3
    <3>6. Below(a, x + 1) = Cardinality({k \in Mine(c) : time[k] <= x})
      <4>1. PICK y \in Nat : y = x + 1  OBVIOUS
      <4>2. Below(a, y) = Cardinality({k \in Mine(c) : time[k] < y})  BY <1>3
      <4> QED  BY <3>4, <4>1, <4>2
    <3> QED  BY <1>3, <3>1, <3>2, <3>5, <3>6 DEF IsQuantile
  <2> QED  BY <1>4, <1>8, <2>4, <2>5, <2>6 DEF RowsOf
<1> QED  BY <1>7, <1>8
-----------------------------------------------------------------------------
(* The report: its invariant.                                              *)

LabelCount(label) == Cardinality({i \in DOMAIN time : pri[i] = label})

CdfInv ==
  /\ Recorded /\ Len(time) <= MaxSamples
  /\ idx_pri_high = LabelCount(1) /\ idx_pri_low = LabelCount(0)
  /\ idx_pri_high + idx_pri_low = Len(time)
  /\ ph_size \in Nat /\ pl_size \in Nat
  /\ interval_cnt = NoCount /\ sketch \in Rows
  /\ report \in [Columns -> {NoRows} \cup [DOMAIN Fractions -> Delays \cup {0}]]
  /\ Cardinality(Of("high")) <= ph_size /\ Cardinality(Of("low")) <= pl_size
  /\ PercentilesAreQuantiles /\ SketchCountsInterval

\* Nothing was printed for no samples.
LEMMA NothingPrinted ==
  (report = Silent /\ sketch = NoCount /\ interval = <<>>) =>
    /\ sketch \in Rows
    /\ report \in [Columns -> {NoRows} \cup [DOMAIN Fractions -> Delays \cup {0}]]
    /\ Cardinality(Of("high")) = 0 /\ Cardinality(Of("low")) = 0
    /\ PercentilesAreQuantiles /\ SketchCountsInterval
<1> SUFFICES ASSUME report = Silent, sketch = NoCount, interval = <<>>
             PROVE  /\ sketch \in Rows
                    /\ report \in [Columns -> {NoRows} \cup [DOMAIN Fractions -> Delays \cup {0}]]
                    /\ Cardinality(Of("high")) = 0 /\ Cardinality(Of("low")) = 0
                    /\ PercentilesAreQuantiles /\ SketchCountsInterval
  OBVIOUS
<1>1. DOMAIN interval = {}  OBVIOUS
<1>2. \A c : Of(c) = {}  BY <1>1 DEF Of
<1>3. Cardinality({}) = 0  BY FS_EmptySet
<1>4. sketch \in Rows  BY CdfAssumption DEF Rows, NoCount
<1>5. \A c \in Columns : report[c] = NoRows  BY DEF Silent
<1>6. report \in [Columns -> {NoRows} \cup [DOMAIN Fractions -> Delays \cup {0}]]  BY DEF Silent
<1>7. DOMAIN NoRows = {}  BY DEF NoRows
<1>8. PercentilesAreQuantiles  BY <1>2, <1>5, <1>7 DEF PercentilesAreQuantiles
<1>9. SketchCountsInterval
  <2> SUFFICES ASSUME NEW j \in 1 .. SASP
               PROVE  sketch[j] = Cardinality({i \in DOMAIN interval :
                        Step * (j - 1) <= interval[i].delay /\ interval[i].delay < Step * j})
    BY DEF SketchCountsInterval
  <2>1. {i \in DOMAIN interval :
           Step * (j - 1) <= interval[i].delay /\ interval[i].delay < Step * j} = {}
    BY <1>1
  <2>2. sketch[j] = 0  BY DEF NoCount
  <2> QED  BY <1>3, <2>1, <2>2
<1> QED  BY <1>2, <1>3, <1>4, <1>6, <1>8, <1>9

LEMMA CdfStart == Init => CdfInv
<1> SUFFICES ASSUME Init PROVE CdfInv
  OBVIOUS
<1>1. /\ time = <<>> /\ pri = <<>> /\ idx_pri_high = 0 /\ idx_pri_low = 0
      /\ enable_pri \in BOOLEAN /\ ph_size = HighSize /\ pl_size = LowSize /\ interval_cnt = NoCount
      /\ report = Silent /\ sketch = NoCount /\ interval = <<>>
  BY DEF Init
<1>2. /\ time \in Seq(Delays) /\ pri \in Seq({0, 1}) /\ Len(time) = 0 /\ Len(pri) = 0
      /\ DOMAIN time = {}
  BY <1>1
<1>3. LabelCount(1) = 0 /\ LabelCount(0) = 0
  <2>1. {i \in DOMAIN time : pri[i] = 1} = {} /\ {i \in DOMAIN time : pri[i] = 0} = {}  BY <1>2
  <2> QED  BY <2>1, FS_EmptySet DEF LabelCount
<1>4. /\ sketch \in Rows
      /\ report \in [Columns -> {NoRows} \cup [DOMAIN Fractions -> Delays \cup {0}]]
      /\ Cardinality(Of("high")) = 0 /\ Cardinality(Of("low")) = 0
      /\ PercentilesAreQuantiles /\ SketchCountsInterval
  BY <1>1, NothingPrinted
<1>5. HighSize \in Nat /\ LowSize \in Nat /\ MaxSamples \in Nat  BY CdfAssumption
<1> QED  BY <1>1, <1>2, <1>3, <1>4, <1>5 DEF CdfInv, Recorded

LEMMA RecordKept ==
  ASSUME CdfInv, NEW delay \in Delays, NEW label \in {0, 1}, Record(delay, label)
  PROVE  CdfInv'
<1>1. /\ Len(time) < MaxSamples /\ time' = Append(time, delay) /\ pri' = Append(pri, label)
      /\ idx_pri_high' = idx_pri_high + label /\ idx_pri_low' = idx_pri_low + 1 - label
      /\ report' = Silent /\ sketch' = NoCount /\ interval' = <<>>
      /\ enable_pri' = enable_pri /\ ph_size' = ph_size /\ pl_size' = pl_size
      /\ interval_cnt' = interval_cnt
  BY DEF Record, arrays
<1>2. PICK ts \in Seq(Delays), ps \in Seq({0, 1}), n \in Nat :
        ts = time /\ ps = pri /\ n = Len(ts) /\ n = Len(ps) /\ DOMAIN ts = 1 .. n /\ DOMAIN ps = 1 .. n
  BY LenProperties DEF CdfInv, Recorded
<1>3. /\ time' \in Seq(Delays) /\ Len(time') = n + 1 /\ DOMAIN time' = 1 .. n + 1
      /\ pri' \in Seq({0, 1}) /\ Len(pri') = n + 1
      /\ pri'[n + 1] = label /\ \A i \in 1 .. n : pri'[i] = ps[i]
  <2>1. /\ Append(ts, delay) \in Seq(Delays) /\ Len(Append(ts, delay)) = n + 1
        /\ Append(ps, label) \in Seq({0, 1}) /\ Len(Append(ps, label)) = n + 1
        /\ Append(ps, label)[n + 1] = label /\ \A i \in 1 .. n : Append(ps, label)[i] = ps[i]
    BY <1>2, AppendProperties
  <2>2. time' = Append(ts, delay) /\ pri' = Append(ps, label)  BY <1>1, <1>2
  <2>3. time' \in Seq(Delays) /\ Len(time') = n + 1  BY <2>1, <2>2
  <2>4. DOMAIN time' = 1 .. n + 1  BY <2>3, LenProperties
  <2> QED  BY <2>1, <2>2, <2>3, <2>4
<1>4. ASSUME NEW l \in {0, 1}
      PROVE  /\ LabelCount(l) \in Nat
             /\ LabelCount(l)' = IF label = l THEN LabelCount(l) + 1 ELSE LabelCount(l)
  <2>1. PICK M : M = {i \in 1 .. n + 1 : pri'[i] = l}
    OBVIOUS
  <2>2. M \cap 1 .. n = {i \in DOMAIN time : pri[i] = l}  BY <1>2, <1>3, <2>1
  <2>3. LabelCount(l) = Upto(M, n)  BY <2>2 DEF LabelCount, Upto
  <2>4. M \cap 1 .. n + 1 = {i \in DOMAIN time' : pri'[i] = l}  BY <1>3, <2>1
  <2>5. LabelCount(l)' = Upto(M, n + 1)  BY <2>4 DEF LabelCount, Upto
  <2>6. n + 1 \in M <=> label = l  BY <1>3, <2>1
  <2>7. Upto(M, n) \in Nat /\ Upto(M, n + 1) = IF n + 1 \in M THEN Upto(M, n) + 1 ELSE Upto(M, n)
    BY UptoNext
  <2> QED  BY <2>3, <2>5, <2>6, <2>7
<1>5. /\ LabelCount(0) \in Nat /\ LabelCount(1) \in Nat
      /\ LabelCount(0)' = IF label = 0 THEN LabelCount(0) + 1 ELSE LabelCount(0)
      /\ LabelCount(1)' = IF label = 1 THEN LabelCount(1) + 1 ELSE LabelCount(1)
  BY <1>4
<1>6. /\ idx_pri_high = LabelCount(1) /\ idx_pri_low = LabelCount(0)
      /\ idx_pri_high + idx_pri_low = n
  BY <1>2 DEF CdfInv
<1>7. /\ idx_pri_high' = LabelCount(1)' /\ idx_pri_low' = LabelCount(0)'
      /\ idx_pri_high' + idx_pri_low' = n + 1
  <2>1. PICK h \in Nat, l \in Nat : h = LabelCount(1) /\ l = LabelCount(0)  BY <1>5
  <2>2. idx_pri_high' = h + label /\ idx_pri_low' = l + 1 - label /\ h + l = n  BY <1>1, <1>6, <2>1
  <2>3. CASE label = 0
    <3>1. LabelCount(0)' = l + 1 /\ LabelCount(1)' = h  BY <1>5, <2>1, <2>3
    <3> QED  BY <2>2, <2>3, <3>1
  <2>4. CASE label = 1
    <3>1. LabelCount(0)' = l /\ LabelCount(1)' = h + 1  BY <1>5, <2>1, <2>4
    <3> QED  BY <2>2, <2>4, <3>1
  <2> QED  BY <2>3, <2>4
<1>8. (/\ sketch \in Rows
       /\ report \in [Columns -> {NoRows} \cup [DOMAIN Fractions -> Delays \cup {0}]]
       /\ Cardinality(Of("high")) = 0 /\ Cardinality(Of("low")) = 0
       /\ PercentilesAreQuantiles /\ SketchCountsInterval)'
  <2>1. report' = Silent /\ sketch' = NoCount /\ interval' = <<>>  BY <1>1
  <2>2. (report = Silent /\ sketch = NoCount /\ interval = <<>>)'  BY <2>1 DEF Silent, NoCount
  <2> QED  BY <2>2, NothingPrinted, PTL
<1>9. Recorded' /\ (Len(time) <= MaxSamples)'
  <2>1. n + 1 <= MaxSamples  BY <1>1, <1>2, CdfAssumption
  <2> QED  BY <1>1, <1>3, <2>1 DEF CdfInv, Recorded
<1>10. (/\ ph_size \in Nat /\ pl_size \in Nat /\ interval_cnt = NoCount
        /\ Cardinality(Of("high")) <= ph_size /\ Cardinality(Of("low")) <= pl_size)'
  BY <1>1, <1>8 DEF CdfInv, NoCount
<1> QED  BY <1>3, <1>7, <1>8, <1>9, <1>10 DEF CdfInv
LEMMA ReportKept ==
  ASSUME CdfInv, cdf_acktime
  PROVE  CdfInv'
<1>0. Delays \subseteq Nat /\ SASP \in Nat \ {0} /\ Step \in Nat \ {0} /\ MaxSamples \in Nat
  BY CdfAssumption
<1>1. /\ Recorded /\ Len(time) <= MaxSamples /\ interval_cnt = NoCount
      /\ enable_pri \in BOOLEAN /\ ph_size \in Nat /\ pl_size \in Nat
      /\ idx_pri_high = LabelCount(1) /\ idx_pri_low = LabelCount(0)
  BY DEF CdfInv, Recorded
<1>2. /\ enable_pri' = enable_pri /\ OP_MYSQL' = OP_MYSQL
      /\ ph_size' = (IF enable_pri THEN Resized(ph_size, idx_pri_high) ELSE ph_size)
      /\ pl_size' = (IF enable_pri THEN Resized(pl_size, idx_pri_low) ELSE pl_size)
      /\ sketch' = sketch_delay(qsort(time))
      /\ idx_pri_high' = 0 /\ idx_pri_low' = 0 /\ interval_cnt' = NoCount
      /\ interval' = [i \in DOMAIN time |-> [delay |-> time[i], label |-> pri[i]]]
      /\ time' = <<>> /\ pri' = <<>>
  BY DEF cdf_acktime, clear
<1>3. PICK D : D = DOMAIN time
  OBVIOUS
<1>4. PICK ts \in Seq(Nat), n \in Nat :
        ts = time /\ n = Len(ts) /\ D = 1 .. n /\ \A i \in D : ts[i] \in Nat
  <2>1. time \in Seq(Nat)  BY <1>0, <1>1, SeqMonotonic DEF Recorded
  <2>2. Len(time) \in Nat /\ D = 1 .. Len(time) /\ \A i \in 1 .. Len(time) : time[i] \in Nat
    BY <1>3, <2>1, LenProperties, ElementOfSeq
  <2> QED  BY <2>1, <2>2
<1>5. DOMAIN interval' = D /\ \A i \in D : interval'[i].delay = ts[i] /\ interval'[i].label = pri[i]
  BY <1>2, <1>3, <1>4
<1>6. ASSUME NEW c \in Columns PROVE Of(c)' = Mine(c)
  <2>1. CASE c = "total"  BY <1>3, <1>5, <2>1 DEF Of, Mine
  <2>2. CASE c = "high"  BY <1>1, <1>2, <1>3, <1>5, <2>2 DEF Of, Mine
  <2>3. CASE c = "low"  BY <1>1, <1>2, <1>3, <1>5, <2>3 DEF Of, Mine
  <2> QED  BY <2>1, <2>2, <2>3 DEF Columns
<1>7. /\ report' = [c \in Columns |-> report'[c]]
      /\ \A c \in Columns : \E up : report'[c] = Percentiles(qsort(Array(c)), up)
  <2>1. PICK total \in Printed(time), high \in Printed(Split(1)), low \in Printed(Split(0)) :
          report' = [c \in Columns |-> CASE c = "total" -> total
                                         [] c = "high" -> IF enable_pri THEN high ELSE NoRows
                                         [] c = "low" -> IF enable_pri THEN low ELSE NoRows]
    BY DEF cdf_acktime
  <2>2. PICK rows : rows = report'  OBVIOUS
  <2>3. rows = [c \in Columns |-> rows[c]]
    <3> DEFINE G(c) == CASE c = "total" -> total
                         [] c = "high" -> IF enable_pri THEN high ELSE NoRows
                         [] c = "low" -> IF enable_pri THEN low ELSE NoRows
    <3>1. rows = [c \in Columns |-> G(c)]  BY <2>1, <2>2
    <3> HIDE DEF G
    <3> QED  BY <3>1
  <2>4. ASSUME NEW c \in Columns PROVE \E up : rows[c] = Percentiles(qsort(Array(c)), up)
    <3>1. CASE c = "total"
      <4>1. Array(c) = time /\ rows[c] = total  BY <2>1, <2>2, <3>1 DEF Array
      <4> QED  BY <4>1 DEF Printed
    <3>2. CASE ~enable_pri /\ c # "total"
      <4>1. Array(c) = <<>>  BY <3>2 DEF Array
      <4>2. rows[c] = NoRows  BY <2>1, <2>2, <3>2 DEF Columns
      <4>3. <<>> \in Seq(Nat)  OBVIOUS
      <4>4. PICK e \in Seq(Nat) : e = <<>>  BY <4>3
      <4>5. PICK p : p = Percentiles(qsort(e), {})  OBVIOUS
      <4>6. p = <<>>  BY <4>4, <4>5, RowsFacts
      <4> QED  BY <4>1, <4>2, <4>4, <4>5, <4>6 DEF NoRows
    <3>3. CASE enable_pri /\ c = "high"
      <4>1. Array(c) = Split(1) /\ rows[c] = high  BY <2>1, <2>2, <3>3 DEF Array
      <4> QED  BY <4>1 DEF Printed
    <3>4. CASE enable_pri /\ c = "low"
      <4>1. Array(c) = Split(0) /\ rows[c] = low  BY <2>1, <2>2, <3>4 DEF Array
      <4> QED  BY <4>1 DEF Printed
    <3> QED  BY <3>1, <3>2, <3>3, <3>4 DEF Columns
  <2> QED  BY <2>2, <2>3, <2>4
<1>8. ASSUME NEW c \in Columns
      PROVE  /\ report'[c] = NoRows <=> Mine(c) = {}
             /\ report'[c] \in {NoRows} \cup [DOMAIN Fractions -> Delays \cup {0}]
             /\ \A i \in DOMAIN report'[c] : ~Wiped(i - 1) =>
                  /\ report'[c][i] \in Nat
                  /\ Cardinality({k \in Mine(c) : time[k] < report'[c][i]}) * Scale
                       <= AtMost(Fractions[i]) * Cardinality(Mine(c))
                  /\ Cardinality({k \in Mine(c) : time[k] <= report'[c][i]}) * Scale
                       >= AtLeast(Fractions[i]) * Cardinality(Mine(c))
  <2>1. PICK up : report'[c] = Percentiles(qsort(Array(c)), up)  BY <1>7
  <2>2. PICK p : p = report'[c]  OBVIOUS
  <2>3. p = Percentiles(qsort(Array(c)), up)  BY <2>1, <2>2
  <2>4. Recorded  BY <1>1
  <2>5. RowsOf(c, p)  BY <2>3, <2>4, ColumnRows
  <2> QED  BY <2>2, <2>5 DEF RowsOf
<1>9. (report \in [Columns -> {NoRows} \cup [DOMAIN Fractions -> Delays \cup {0}]])'
  <2>1. report' = [c \in Columns |-> report'[c]]  BY <1>7
  <2>2. PICK R : R = {NoRows} \cup [DOMAIN Fractions -> Delays \cup {0}]  OBVIOUS
  <2>3. \A c \in Columns : report'[c] \in R  BY <1>8, <2>2
  <2>4. report' \in [Columns -> R]  BY <2>1, <2>3
  <2> QED  BY <2>2, <2>4
<1>10. PercentilesAreQuantiles'
  <2>1. ASSUME NEW c \in Columns
        PROVE  /\ report'[c] = NoRows <=> Of(c)' = {}
               /\ \A i \in DOMAIN report'[c] : ~Wiped(i - 1)' =>
                    /\ Cardinality({k \in Of(c)' : interval'[k].delay < report'[c][i]}) * Scale
                         <= AtMost(Fractions[i]) * Cardinality(Of(c)')
                    /\ Cardinality({k \in Of(c)' : interval'[k].delay <= report'[c][i]}) * Scale
                         >= AtLeast(Fractions[i]) * Cardinality(Of(c)')
    <3>1. PICK N : N = Mine(c)  OBVIOUS
    <3>2. Of(c)' = N /\ N \subseteq D  BY <1>3, <1>6, <3>1 DEF Mine
    <3>3. report'[c] = NoRows <=> Of(c)' = {}  BY <1>8, <3>1, <3>2
    <3>4. ASSUME NEW i \in DOMAIN report'[c], ~Wiped(i - 1)'
          PROVE  /\ Cardinality({k \in N : interval'[k].delay < report'[c][i]}) * Scale
                      <= AtMost(Fractions[i]) * Cardinality(N)
                 /\ Cardinality({k \in N : interval'[k].delay <= report'[c][i]}) * Scale
                      >= AtLeast(Fractions[i]) * Cardinality(N)
      <4>1. PICK x : x = report'[c][i]  OBVIOUS
      <4>2. ~Wiped(i - 1)  BY <1>2, <3>4 DEF Wiped
      <4>3. /\ Cardinality({k \in N : time[k] < x}) * Scale <= AtMost(Fractions[i]) * Cardinality(N)
            /\ Cardinality({k \in N : time[k] <= x}) * Scale >= AtLeast(Fractions[i]) * Cardinality(N)
        BY <1>8, <3>1, <4>1, <4>2
      <4>4. \A k \in N : interval'[k].delay = time[k]  BY <1>4, <1>5, <3>2
      <4>5. {k \in N : interval'[k].delay < x} = {k \in N : time[k] < x}  BY <4>4
      <4>6. {k \in N : interval'[k].delay <= x} = {k \in N : time[k] <= x}  BY <4>4
      <4> QED  BY <4>1, <4>3, <4>5, <4>6
    <3> QED  BY <3>2, <3>3, <3>4
  <2> QED  BY <2>1 DEF PercentilesAreQuantiles
<1>11. /\ sketch' \in Rows /\ SketchCountsInterval'
  <2>1. sketch' = [j \in 1 .. SASP |-> Below(ts, Step * j) - Below(ts, Step * (j - 1))]
    BY <1>1, <1>2, <1>4, SketchFacts
  <2>2. ASSUME NEW j \in 1 .. SASP
        PROVE  /\ sketch'[j] \in 0 .. MaxSamples
               /\ sketch'[j] = Cardinality({i \in DOMAIN interval' :
                    Step * (j - 1) <= interval'[i].delay /\ interval'[i].delay < Step * j})
    <3>1. PICK y \in Nat, z \in Nat : y = Step * (j - 1) /\ z = Step * j /\ y <= z
      <4>1. j \in Nat /\ j - 1 \in Nat /\ Step \in Nat  BY <1>0
      <4>2. Step * (j - 1) \in Nat /\ Step * j \in Nat  BY <4>1, SMT
      <4>3. Step * j = Step * (j - 1) + Step  BY <4>1, SMT
      <4> QED  BY <4>1, <4>2, <4>3
    <3>2. PICK S : S = {i \in DOMAIN ts : y <= ts[i] /\ ts[i] < z}  OBVIOUS
    <3>3. Below(ts, z) - Below(ts, y) = Cardinality(S)  BY <3>1, <3>2, RowCount
    <3>4. sketch'[j] = Cardinality(S)  BY <2>1, <3>1, <3>3
    <3>5. {i \in DOMAIN interval' : Step * (j - 1) <= interval'[i].delay /\ interval'[i].delay < Step * j} = S
      BY <1>3, <1>4, <1>5, <3>1, <3>2
    <3>6. Cardinality(S) \in 0 .. n
      <4>1. S \subseteq 1 .. n  BY <1>3, <1>4, <3>2
      <4>2. IsFiniteSet(1 .. n) /\ Cardinality(1 .. n) = n
        <5>1. IsFiniteSet(1 .. n) /\ Cardinality(1 .. n) = IF 1 > n THEN 0 ELSE n - 1 + 1  BY FS_Interval
        <5> QED  BY <5>1
      <4>3. IsFiniteSet(S) /\ Cardinality(S) <= n  BY <4>1, <4>2, FS_Subset
      <4> QED  BY <4>3, FS_CardinalityType
    <3>7. Cardinality(S) \in 0 .. MaxSamples
      <4>1. n <= MaxSamples  BY <1>1, <1>4
      <4> QED  BY <1>0, <3>6, <4>1
    <3> QED  BY <3>4, <3>5, <3>7
  <2>3. sketch' \in Rows  BY <2>1, <2>2 DEF Rows
  <2> QED  BY <2>2, <2>3 DEF SketchCountsInterval
<1>12. (/\ ph_size \in Nat /\ pl_size \in Nat
        /\ Cardinality(Of("high")) <= ph_size /\ Cardinality(Of("low")) <= pl_size)'
  <2>1. Of("high")' = Mine("high") /\ Of("low")' = Mine("low")  BY <1>6 DEF Columns
  <2>2. CASE ~enable_pri
    <3>1. Mine("high") = {} /\ Mine("low") = {}  BY <2>2 DEF Mine
    <3>2. Cardinality(Of("high")') = 0 /\ Cardinality(Of("low")') = 0  BY <2>1, <3>1, FS_EmptySet
    <3>3. ph_size' = ph_size /\ pl_size' = pl_size  BY <1>2, <2>2
    <3> QED  BY <1>1, <3>2, <3>3
  <2>3. CASE enable_pri
    <3>1. Mine("high") = {i \in DOMAIN time : pri[i] = 1} /\ Mine("low") = {i \in DOMAIN time : pri[i] = 0}
      BY <2>3 DEF Mine
    <3>2. PICK h \in Nat, l \in Nat : h = Cardinality(Mine("high")) /\ l = Cardinality(Mine("low"))
      <4>1. IsFiniteSet(Mine("high")) /\ IsFiniteSet(Mine("low"))  BY <1>1, ColumnFacts DEF Columns
      <4> QED  BY <4>1, FS_CardinalityType
    <3>3. idx_pri_high = h /\ idx_pri_low = l  BY <1>1, <3>1, <3>2 DEF LabelCount
    <3>4. ASSUME NEW s \in Nat, NEW k \in Nat PROVE Resized(s, k) \in Nat /\ k <= Resized(s, k)
      BY DEF Resized
    <3>5. ph_size' = Resized(ph_size, h) /\ pl_size' = Resized(pl_size, l)  BY <1>2, <2>3, <3>3
    <3> QED  BY <1>1, <2>1, <3>2, <3>4, <3>5
  <2> QED  BY <1>1, <2>2, <2>3
<1>13. /\ (Recorded /\ Len(time) <= MaxSamples)'
       /\ (idx_pri_high = LabelCount(1) /\ idx_pri_low = LabelCount(0))'
       /\ (idx_pri_high + idx_pri_low = Len(time))'
  <2>1. time' \in Seq(Delays) /\ pri' \in Seq({0, 1}) /\ Len(time') = 0 /\ Len(pri') = 0 /\ DOMAIN time' = {}
    BY <1>2
  <2>2. {i \in DOMAIN time' : pri'[i] = 1} = {} /\ {i \in DOMAIN time' : pri'[i] = 0} = {}  BY <2>1
  <2>3. LabelCount(1)' = 0 /\ LabelCount(0)' = 0  BY <2>2, FS_EmptySet DEF LabelCount
  <2> QED  BY <1>0, <1>1, <1>2, <2>1, <2>3 DEF Recorded
<1>14. (interval_cnt = NoCount)'  BY <1>2 DEF NoCount
<1> QED  BY <1>9, <1>10, <1>11, <1>12, <1>13, <1>14 DEF CdfInv

LEMMA CdfKept == CdfInv /\ [Next]_vars => CdfInv'
<1> SUFFICES ASSUME CdfInv, [Next]_vars PROVE CdfInv'
  OBVIOUS
<1>1. ASSUME NEW delay \in Delays, NEW label \in {0, 1}, Record(delay, label) PROVE CdfInv'
  BY <1>1, RecordKept
<1>2. CASE cdf_acktime  BY <1>2, ReportKept
<1>3. CASE UNCHANGED vars
  <2>1. /\ OP_MYSQL' = OP_MYSQL /\ enable_pri' = enable_pri /\ time' = time /\ pri' = pri
        /\ idx_pri_high' = idx_pri_high /\ idx_pri_low' = idx_pri_low
        /\ ph_size' = ph_size /\ pl_size' = pl_size /\ interval_cnt' = interval_cnt
        /\ report' = report /\ sketch' = sketch /\ interval' = interval
    BY <1>3 DEF vars, samples, arrays
  <2>2. \A c : Of(c)' = Of(c)  BY <2>1 DEF Of
  <2>3. PercentilesAreQuantiles'
    <3>1. PercentilesAreQuantiles  BY DEF CdfInv
    <3>2. \A i : Wiped(i)' = Wiped(i)  BY <2>1 DEF Wiped
    <3> QED  BY <2>1, <2>2, <3>1, <3>2 DEF PercentilesAreQuantiles
  <2>4. SketchCountsInterval'  BY <2>1 DEF CdfInv, SketchCountsInterval
  <2>5. (Recorded /\ Len(time) <= MaxSamples)'  BY <2>1 DEF CdfInv, Recorded
  <2>6. (/\ idx_pri_high = LabelCount(1) /\ idx_pri_low = LabelCount(0)
         /\ idx_pri_high + idx_pri_low = Len(time))'
    BY <2>1 DEF CdfInv, LabelCount
  <2>7. (/\ ph_size \in Nat /\ pl_size \in Nat /\ interval_cnt = NoCount /\ sketch \in Rows
         /\ report \in [Columns -> {NoRows} \cup [DOMAIN Fractions -> Delays \cup {0}]])'
    BY <2>1 DEF CdfInv, NoCount, Rows
  <2>8. (Cardinality(Of("high")) <= ph_size /\ Cardinality(Of("low")) <= pl_size)'
    BY <2>1, <2>2 DEF CdfInv
  <2> QED  BY <2>3, <2>4, <2>5, <2>6, <2>7, <2>8 DEF CdfInv
<1> QED  BY <1>1, <1>2, <1>3 DEF Next

\* The report's inductive invariant: what is recorded but not yet reported is counted by
\* the priority indices, and what was printed is right.
THEOREM CdfInvariant == Spec => []CdfInv
<1> QED  BY CdfStart, CdfKept, PTL DEF Spec

LEMMA CdfImplies == CdfInv => TypeOK /\ PercentilesAreQuantiles /\ SketchCountsInterval
<1> SUFFICES ASSUME CdfInv PROVE TypeOK /\ PercentilesAreQuantiles /\ SketchCountsInterval
  OBVIOUS
<1>1. /\ time \in Seq(Delays) /\ pri \in Seq({0, 1}) /\ Len(pri) = Len(time) /\ Len(time) \in Nat
      /\ enable_pri \in BOOLEAN
  BY LenProperties DEF CdfInv, Recorded
<1>2. IsFiniteSet({i \in DOMAIN time : pri[i] = 1}) /\ IsFiniteSet({i \in DOMAIN time : pri[i] = 0})
  <2>1. IsFiniteSet(1 .. Len(time)) /\ DOMAIN time = 1 .. Len(time)  BY <1>1, FS_Interval, LenProperties
  <2>2. /\ {i \in DOMAIN time : pri[i] = 1} \subseteq 1 .. Len(time)
        /\ {i \in DOMAIN time : pri[i] = 0} \subseteq 1 .. Len(time)
    BY <2>1
  <2> QED  BY <2>1, <2>2, FS_Subset
<1>3. LabelCount(1) \in Nat /\ LabelCount(0) \in Nat  BY <1>2, FS_CardinalityType DEF LabelCount
<1>4. idx_pri_high \in Nat /\ idx_pri_low \in Nat  BY <1>3 DEF CdfInv
<1>5. interval_cnt \in Rows  BY CdfAssumption DEF CdfInv, NoCount, Rows
<1> QED  BY <1>1, <1>4, <1>5 DEF CdfInv, TypeOK
-----------------------------------------------------------------------------
(* The theorems.                                                           *)

\* The first packet a file is measured from has a time stamp, a group at least one, and
\* there is no more of either result than the array of groups holds.
THEOREM CaptureTypes == ToolsSpec => []ToolTypes
<1>1. ToolsInv => ToolTypes
  <2> SUFFICES ASSUME ToolsInv PROVE ToolTypes
    OBVIOUS
  <2>1. \E x \in Nat : pkt_header_0 = Ts(x)
    <3>1. CASE capture = <<>>  BY <3>1 DEF ToolsInv, SplitInv
    <3>2. CASE capture # <<>>
      <4>1. PICK f : f = files[Len(files)]
        OBVIOUS
      <4>2. pkt_header_0 = Ts(f[1].t)  BY <3>2, <4>1 DEF ToolsInv, SplitInv, OpenFile
      <4>3. Len(files) \in 1 .. Len(files) /\ DOMAIN files = 1 .. Len(files)
            /\ files \in Seq(Seq(Readable))
        BY LenProperties DEF ToolsInv, SplitInv
      <4>4. f \in Seq(Readable) /\ f # <<>>
        BY <3>2, <4>1, <4>3, ElementOfSeq DEF ToolsInv, SplitInv
      <4>5. 1 \in 1 .. Len(f)  BY <4>4, EmptySeq, LenProperties
      <4>6. f[1] \in Readable  BY <4>4, <4>5, ElementOfSeq
      <4>7. f[1].t \in Nat  BY <4>6, Units DEF Readable
      <4> QED  BY <4>2, <4>7
    <3> QED  BY <3>1, <3>2
  <2>2. PICK x \in Nat : pkt_header_0 = Ts(x)  BY <2>1
  <2>3. pkt_header_0 \in [tv_sec : Nat, tv_usec : 0 .. UsecPerSec - 1]
    <3>1. PICK T : T = UsecPerSec
      OBVIOUS
    <3>2. T \in Nat \ {0}  BY <3>1, Units
    <3>3. x \div T \in Nat /\ x % T \in 0 .. T - 1  BY <3>2, DivMod
    <3> QED  BY <2>2, <3>1, <3>3 DEF Ts
  <2>4. ASSUME NEW g \in DOMAIN groups
        PROVE  groups[g].times \in Seq(0 .. MaxTime) /\ groups[g].times # <<>>
    <3>1. groups \in Seq(Group) /\ DOMAIN groups = 1 .. Len(groups)
      BY LenProperties DEF ToolsInv, WidthInv
    <3>2. groups[g] \in Group  BY <3>1, ElementOfSeq
    <3>3. stage # "split"
      <4>1. groups # <<>>  BY <2>4
      <4> QED  BY <4>1 DEF ToolsInv, WidthInv
    <3>4. PICK k \in DOMAIN files : Reading(files[k])  BY <3>3 DEF ToolsInv, WidthInv
    <3>5. groups[g].times # <<>>  BY <3>4 DEF Reading, GroupsOf, Stamped
    <3> QED  BY <3>2, <3>5 DEF Group
  <2> QED  BY <2>3, <2>4 DEF ToolsInv, WidthInv, ToolTypes
<1> QED  BY <1>1, ToolsInvariant, PTL

\* split_pcap_bytime neither loses nor reorders a readable packet.
THEOREM SplitLosesNothing == ToolsSpec => []SplitKeepsCapture
<1>1. ToolsInv => SplitKeepsCapture  BY DEF ToolsInv, SplitInv
<1> QED  BY <1>1, ToolsInvariant, PTL

\* split_pcap_bytime cuts where the gap to the file's first packet passes the limit of
\* the code and nowhere else, on whichever side of a full second the packets lie.
THEOREM SplitAtLimit == ToolsSpec => []FilesAreBursts
<1>1. ToolsInv => FilesAreBursts  BY DEF ToolsInv, SplitInv
<1> QED  BY <1>1, ToolsInvariant, PTL

\* burst_width files every packet it has read under its network, in one group, and
\* nothing else.
THEOREM NetworksGrouped == ToolsSpec => []GroupsByNetwork
<1>1. ToolsInv => GroupsByNetwork
  <2> SUFFICES ASSUME ToolsInv PROVE GroupsByNetwork
    OBVIOUS
  <2>1. CASE stage = "split"
    <3>1. groups = <<>>  BY <2>1 DEF ToolsInv, WidthInv
    <3> QED  BY <2>1, <3>1 DEF GroupsByNetwork
  <2>2. CASE stage # "split"
    <3>1. PICK k \in DOMAIN files : Reading(files[k])  BY <2>2 DEF ToolsInv, WidthInv
    <3>2. PICK r : r = Len(files[k]) - Len(input)
      OBVIOUS
    <3>3. GroupsOf(files[k], r, groups)  BY <3>1, <3>2 DEF Reading
    <3>4. \A g, h \in DOMAIN groups : groups[g].net = groups[h].net => g = h  BY <3>3 DEF GroupsOf
    <3>5. \A g \in DOMAIN groups :
            Len(groups[g].times) = Cardinality({j \in 1 .. r : files[k][j].src.net = groups[g].net})
      BY <3>3 DEF GroupsOf, Stamped, OfNet
    <3>6. \A i \in 1 .. r : \E g \in DOMAIN groups :
            /\ groups[g].net = files[k][i].src.net
            /\ groups[g].times[Cardinality({j \in 1 .. i : files[k][j].src.net = groups[g].net})]
                 = files[k][i].t
      BY <3>3 DEF GroupsOf, Placed, OfNet
    <3> QED  BY <2>2, <3>2, <3>4, <3>5, <3>6 DEF GroupsByNetwork
  <2> QED  BY <2>1, <2>2
<1> QED  BY <1>1, ToolsInvariant, PTL

\* On a file of split_pcap_bytime, burst_width gives up on nothing but a lone packet and
\* as many networks as its array has elements, and a width is no longer than the burst
\* and misses no more of it than the last gap.
THEOREM WidthsOfBursts == ToolsSpec => []WidthOfSplitFile
<1>1. ToolsInv => WidthOfSplitFile  BY DEF ToolsInv, WidthInv
<1> QED  BY <1>1, ToolsInvariant, PTL

\* The report's state is well typed, and the arrays that the high and the low
\* priority latencies are copied to, which are resized before each report, hold
\* every sample of their label.
THEOREM ReportTypes == Spec => []TypeOK
<1> QED  BY CdfInvariant, CdfImplies, PTL

\* Every row of cdf.txt is a quantile of the samples of its column in the
\* interval it reports, up to the part in Precision that the float product is
\* off, for every number of samples below Precision / 2, every set of
\* latencies and every sequence of intervals.
THEOREM ReportQuantiles == Spec => []PercentilesAreQuantiles
<1> QED  BY CdfInvariant, CdfImplies, PTL

\* Every row of sketch.txt counts the samples of its interval that are in its
\* range: clear() leaves no count of an earlier interval behind, and the single
\* pass over the sorted array misses none.
THEOREM ReportHistogram == Spec => []SketchCountsInterval
<1> QED  BY CdfInvariant, CdfImplies, PTL
=============================================================================
