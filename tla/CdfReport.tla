----------------------------- MODULE CdfReport -----------------------------
(***************************************************************************)
(* What a report says: the percentiles of an interval's latencies, overall *)
(* and by priority (cdf.txt), and their histogram (sketch.txt).            *)
(* cdf_acktime, sketch_delay and clear of monitor.c, run to the end while  *)
(* no sample is recorded; what happens when one is, is IntervalReport's    *)
(* subject.  Latencies are naturals, a histogram row is Step of them wide. *)
(* The averages are left out, the goodput, which is never printed, and     *)
(* what a build with OP_MYSQL sends to the database; that it calls clear() *)
(* in the middle of a report is not.  No interval has more than CAT_BUFF   *)
(* samples, the part of the copy that clear() wipes.                       *)
(***************************************************************************)
EXTENDS Integers, Sequences, FiniteSets, SequencesExt, FiniteSetsExt

CONSTANTS
  Delays,               \* latencies
  Step, SASP,           \* histogram: width of a row, number of rows
  HighSize, LowSize,    \* elements ack_pri_high and ack_pri_low start with
  Precision,            \* 2^23: a float product is off by less than n / Precision
  MaxSamples            \* bound: samples of an interval

ASSUME CdfAssumption ==
  /\ Delays \subseteq Nat
  /\ {Step, SASP} \subseteq Nat \ {0}
  /\ {HighSize, LowSize, Precision, MaxSamples} \subseteq Nat
  /\ Precision >= 10 /\ 2 * MaxSamples < Precision

VARIABLES
  OP_MYSQL,             \* built with the database client
  enable_pri,           \* conf->enable_pri
  time, pri,            \* ack_time: the samples recorded since the last report
  idx_pri_high, idx_pri_low,
  ph_size, pl_size,     \* elements of ack_pri_high, ack_pri_low
  interval_cnt,         \* histogram
  report, sketch,       \* what the last step printed: percentiles per column, rows
  interval              \* ghost: the samples they are about

samples == <<time, pri, idx_pri_high, idx_pri_low>>
arrays == <<ph_size, pl_size>>
vars == <<OP_MYSQL, enable_pri, samples, arrays, interval_cnt, report, sketch, interval>>

\* The rows of cdf.txt, in units of 1 / UDen.
u == <<1000, 2000, 3000, 4000, 5000, 6000, 7000, 8000, 9000, 9500, 9900, 9990, 9999, 10000>>
UDen == 10000
Fractions == <<0>> \o u        \* row 0 is the least sample

Columns == {"total", "high", "low"}
NoRows == <<>>
Rows == [1 .. SASP -> 0 .. MaxSamples]
NoCount == [j \in 1 .. SASP |-> 0]
Silent == [c \in Columns |-> NoRows]

Init ==
  /\ OP_MYSQL \in BOOLEAN /\ enable_pri \in BOOLEAN
  /\ time = <<>> /\ pri = <<>> /\ idx_pri_high = 0 /\ idx_pri_low = 0
  /\ ph_size = HighSize /\ pl_size = LowSize
  /\ interval_cnt = NoCount
  /\ report = Silent /\ sketch = NoCount /\ interval = <<>>
-----------------------------------------------------------------------------
(* The MONITOR lcore, seen from here.                                      *)
Record(delay, label) ==
  /\ Len(time) < MaxSamples
  /\ time' = Append(time, delay) /\ pri' = Append(pri, label)
  /\ idx_pri_high' = idx_pri_high + label
  /\ idx_pri_low' = idx_pri_low + 1 - label
  /\ report' = Silent /\ sketch' = NoCount /\ interval' = <<>>
  /\ UNCHANGED <<OP_MYSQL, enable_pri, arrays, interval_cnt>>
-----------------------------------------------------------------------------
(* The CDF lcore.                                                          *)

\* Mutant: off by one, the array stays one element short.
ResizedLate(size, count) == IF count > size + 1 THEN count + 1 ELSE size

Resized(size, count) == IF count > size THEN count + 1 ELSE size

compInc(a, b) == IF a > b THEN 1 ELSE -1

\* The k-th element is the least one that at least k elements do not come after.
qsort(a) ==
  LET NotAfter(x) == {i \in DOMAIN a : compInc(a[i], x) = -1}
  IN  [k \in DOMAIN a |-> Min({x \in Range(a) : Cardinality(NotAfter(x)) >= k})]

\* Mutant: truncates where the code rounds up.
RankDown(q, n, up) == LET rank == (q * n) \div UDen IN IF rank = 0 THEN 1 ELSE rank

\* u[i] * n is a product of floats, n below 2^22, and 0.9999 a little less
\* than 0.9999: in units of 1 / Scale it is between AtLeast and AtMost times n.
\* Only 0, 0.5 and 1 are floats, and so are their products.
Scale == UDen * Precision
Off(q) == IF q \in {0, 5000, UDen} THEN 0 ELSE UDen
AtLeast(q) == q * Precision - Off(q)
AtMost(q) == q * Precision + Off(q)

Ceil(a, b) == (a + b - 1) \div b

\* (int)ceil(u[i] * n), counted from 1.  Less than 1 apart, the two ends of the
\* product have the same ceiling, or the product may have either.
Rank(q, n, up) == IF up THEN Min({n, Ceil(AtMost(q) * n, Scale)})
                  ELSE Max({1, Ceil(AtLeast(q) * n, Scale)})
Ambiguous(n) == {i \in DOMAIN u : n > 0 /\ Rank(u[i], n, TRUE) # Rank(u[i], n, FALSE)}

\* Each row of u is sent to the database before the next one is read;
\* insert_mysql_hy calls clear() when it is row 10 (from 0), that of 99 %.
Wiped(i) == OP_MYSQL /\ i - 1 > 10

\* The rows of a column, of the sorted array a, those in `up' rounded up; none
\* of an empty one.
Percentiles(a, up) ==
  IF a = <<>> THEN NoRows
  ELSE <<a[1]>> \o [i \in DOMAIN u |-> IF Wiped(i) THEN 0 ELSE a[Rank(u[i], Len(a), i \in up)]]

Printed(a) == {Percentiles(qsort(a), up) : up \in SUBSET Ambiguous(Len(a))}

\* The samples with a label, in the order they were recorded.
Split(label) ==
  LET ack_pri[i \in 0 .. Len(pri)] ==
        IF i = 0 THEN <<>>
        ELSE IF pri[i] = label THEN Append(ack_pri[i-1], time[i]) ELSE ack_pri[i-1]
  IN  ack_pri[Len(pri)]

\* i runs over the array once; row j takes what follows and is below its end.
sketch_delay(a) ==
  LET i[j \in 0 .. SASP] ==
        IF j = 0 THEN 0
        ELSE Max({k \in i[j-1] .. Len(a) : \A m \in i[j-1] + 1 .. k : a[m] < Step * j})
  IN  [j \in 1 .. SASP |-> interval_cnt[j] + i[j] - i[j-1]]

\* Mutant: the histogram of one interval is added to the next.
clearKeepsSketch ==
  /\ idx_pri_high' = 0 /\ idx_pri_low' = 0
  /\ interval_cnt' = sketch'

clear ==
  /\ idx_pri_high' = 0 /\ idx_pri_low' = 0
  /\ interval_cnt' = NoCount

\* An interval with samples ends.
cdf_acktime ==
  /\ time # <<>>
  /\ ph_size' = IF enable_pri THEN Resized(ph_size, idx_pri_high) ELSE ph_size
  /\ pl_size' = IF enable_pri THEN Resized(pl_size, idx_pri_low) ELSE pl_size
  /\ \E total \in Printed(time), high \in Printed(Split(1)), low \in Printed(Split(0)) :
       report' = [c \in Columns |->
                    CASE c = "total" -> total
                      [] c = "high" -> IF enable_pri THEN high ELSE NoRows
                      [] c = "low" -> IF enable_pri THEN low ELSE NoRows]
  /\ sketch' = sketch_delay(qsort(time))
  /\ clear
  /\ interval' = [i \in DOMAIN time |-> [delay |-> time[i], label |-> pri[i]]]
  /\ time' = <<>> /\ pri' = <<>>
  /\ UNCHANGED <<OP_MYSQL, enable_pri>>

Next ==
  \/ \E delay \in Delays, label \in {0, 1} : Record(delay, label)
  \/ cdf_acktime

Spec == Init /\ [][Next]_vars
-----------------------------------------------------------------------------
(* Correctness.                                                            *)

Of(c) == {i \in DOMAIN interval :
            CASE c = "total" -> TRUE
              [] c = "high" -> enable_pri /\ interval[i].label = 1
              [] c = "low" -> enable_pri /\ interval[i].label = 0}

\* Type invariant; the priority arrays hold the samples of their labels.
TypeOK ==
  /\ enable_pri \in BOOLEAN
  /\ time \in Seq(Delays) /\ pri \in Seq({0, 1}) /\ Len(pri) = Len(time)
  /\ idx_pri_high \in Nat /\ idx_pri_low \in Nat
  /\ idx_pri_high + idx_pri_low = Len(time)
  /\ interval_cnt \in Rows /\ sketch \in Rows
  /\ report \in [Columns -> {NoRows} \cup [DOMAIN Fractions -> Delays \cup {0}]]
  /\ Cardinality(Of("high")) <= ph_size /\ Cardinality(Of("low")) <= pl_size

\* Each row of cdf.txt is a quantile of the interval's samples of its column,
\* and of these only: at most the row's fraction of them is below it, at least
\* that fraction at or below it, exactly for the rows 0, 0.5 and 1, and for the
\* others up to the part in Precision that the float product is off.
\* A column without samples has no rows.  (In a build with OP_MYSQL the rows
\* after that of 99 % are not claimed: they are read from wiped arrays.)
PercentilesAreQuantiles ==
  \A c \in Columns :
    /\ report[c] = NoRows <=> Of(c) = {}
    /\ \A i \in DOMAIN report[c] : ~Wiped(i - 1) =>
         LET x == report[c][i]
             n == Cardinality(Of(c))
         IN  /\ Cardinality({k \in Of(c) : interval[k].delay < x}) * Scale <= AtMost(Fractions[i]) * n
             /\ Cardinality({k \in Of(c) : interval[k].delay <= x}) * Scale >= AtLeast(Fractions[i]) * n

\* Row j of sketch.txt counts the samples of this interval, and of no earlier
\* one, from Step * (j - 1) to just below Step * j; what took longer than the
\* last row is in none.
SketchCountsInterval ==
  \A j \in 1 .. SASP :
    sketch[j] = Cardinality({i \in DOMAIN interval :
                  Step * (j - 1) <= interval[i].delay /\ interval[i].delay < Step * j})
=============================================================================
