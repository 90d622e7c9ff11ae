-------------------------- MODULE StatisticsProofs --------------------------
(***************************************************************************)
(* Proofs about the clock, the request rates and the counters of the MCC   *)
(* mode, for every number of lcores, clients and rows, every width of the  *)
(* counters and every resolution of the clock.                             *)
(***************************************************************************)
EXTENDS Statistics, DataLemmas, FiniteSetTheorems

\* A counter that wraps counts on.
LEMMA ModSuccessor ==
  ASSUME NEW n \in Nat \ {0}, NEW x \in Nat
  PROVE  ((x % n) + 1) % n = (x + 1) % n
<1> DEFINE k == x \div n
           r == x % n
<1>1. k \in Nat /\ r \in 0 .. n - 1 /\ x = k * n + r /\ k * n \in Nat  BY DivMod
<1> HIDE DEF k, r
<1>2. CASE r + 1 < n
  <2>1. (k * n + (r + 1)) % n = r + 1  BY <1>1, <1>2, ModUnique
  <2>2. (0 * n + (r + 1)) % n = r + 1  BY <1>1, <1>2, ModUnique
  <2>3. x + 1 = k * n + (r + 1) /\ r + 1 = 0 * n + (r + 1)  BY <1>1
  <2> QED  BY <2>1, <2>2, <2>3 DEF r
<1>3. CASE r + 1 = n
  <2>1. ((k + 1) * n + 0) % n = 0  BY <1>1, ModUnique
  <2>2. (1 * n + 0) % n = 0  BY ModUnique
  <2>3. x + 1 = (k + 1) * n + 0 /\ r + 1 = 1 * n + 0
    <3>1. (k + 1) * n = k * n + n  BY <1>1, SMT
    <3> QED  BY <1>1, <1>3, <3>1
  <2> QED  BY <2>1, <2>2, <2>3 DEF r
<1> QED  BY <1>1, <1>2, <1>3

\* The difference of two readings of a counter, taken modulo its width, is not
\* more than what it was really counted on by.
LEMMA ModDifference ==
  ASSUME NEW n \in Nat \ {0}, NEW b \in Nat, NEW c \in Nat, b <= c
  PROVE  /\ ((c % n) - (b % n)) % n \in Nat
         /\ ((c % n) - (b % n)) % n <= c - b
<1> DEFINE j == b \div n
           k == c \div n
           r == b % n
           s == c % n
<1>1. j \in Nat /\ r \in 0 .. n - 1 /\ b = j * n + r /\ j * n \in Nat  BY DivMod
<1>2. k \in Nat /\ s \in 0 .. n - 1 /\ c = k * n + s /\ k * n \in Nat  BY DivMod
<1>3. j <= k  BY DivMonotone
<1> HIDE DEF j, k, r, s
<1>4. CASE r <= s
  <2>1. s - r \in 0 .. n - 1 /\ s - r = 0 * n + (s - r)  BY <1>1, <1>2, <1>4
  <2>2. (0 * n + (s - r)) % n = s - r  BY <2>1, ModUnique
  <2>3. j * n <= k * n  BY <1>1, <1>2, <1>3, Monotone
  <2>4. s - r \in Nat /\ s - r <= c - b  BY <1>1, <1>2, <1>4, <2>3
  <2>5. (s - r) % n \in Nat /\ (s - r) % n <= c - b  BY <2>1, <2>2, <2>4
  <2> QED  BY <2>5 DEF r, s
<1>5. CASE s < r
  <2>1. (s - r) % n = s - r + n
    <3> DEFINE d == s - r
    <3>1. d \in Int /\ -n < d /\ d < 0  BY <1>1, <1>2, <1>5
    <3> HIDE DEF d
    <3>2. d % n = d + n  BY <3>1, SMT
    <3> QED  BY <3>2 DEF d
  <2>2. j + 1 <= k
    <3> SUFFICES ASSUME j = k PROVE FALSE
      BY <1>1, <1>2, <1>3
    <3> QED  BY <1>1, <1>2, <1>5
  <2>3. (j + 1) * n <= k * n  BY <1>1, <1>2, <2>2, Monotone
  <2>4. (j + 1) * n = j * n + n  BY <1>1, SMT
  <2>5. s - r + n \in Nat /\ s - r + n <= c - b  BY <1>1, <1>2, <1>5, <2>3, <2>4
  <2>6. (s - r) % n \in Nat /\ (s - r) % n <= c - b  BY <2>1, <2>5
  <2> QED  BY <2>6 DEF r, s
<1> QED  BY <1>1, <1>2, <1>4, <1>5
-----------------------------------------------------------------------------
(* Types.                                                                  *)

\* A process lcore past its first step has a client, and past Label a key.
ClientInv ==
  /\ ppc \in [Procs -> {"poll", "num_store", "key", "burst_load", "burst_store"}]
  /\ \A p \in Procs :
       /\ ppc[p] # "poll" => pclient[p] \in Clients
       /\ ppc[p] \in {"burst_load", "burst_store"} => pclient[p] \in Keys

TypeInv == StatTypes /\ ClientInv

LEMMA Constants ==
  /\ NsPerSec \in Nat \ {0} /\ Word \in Nat \ {0} /\ IP_NUM \in Nat \ {0}
  /\ BURST_HASH_ENTRIES \in Nat /\ MaxNow \in Nat /\ MaxCount \in Nat
  BY StatisticsAssumption

LEMMA TimeType ==
  ASSUME NEW t \in Nat
  PROVE  /\ Time(t).tv_sec = t \div NsPerSec /\ Time(t).tv_nsec = t % NsPerSec
         /\ Time(t).tv_sec \in Nat /\ Time(t).tv_nsec \in 0 .. NsPerSec - 1
         /\ Time(t) \in [tv_sec : Nat, tv_nsec : 0 .. NsPerSec - 1]
<1>1. t \div NsPerSec \in Nat /\ t % NsPerSec \in 0 .. NsPerSec - 1
  BY Constants, DivMod
<1> QED  BY <1>1 DEF Time

LEMMA RowType ==
  ASSUME NEW n \in Int
  PROVE  Row(n) \in BurstRows
  BY Constants, SMT DEF Row, BurstRows

\* A new key's position is below the size of the hash.
LEMMA KeyPosition ==
  ASSUME NEW K \in SUBSET Clients, NEW c \in Clients \ K
  PROVE  Cardinality(K) \in 0 .. BURST_HASH_ENTRIES - 1
<1>1. IsFiniteSet(Clients) /\ Cardinality(Clients) \in Nat /\ Cardinality(Clients) <= BURST_HASH_ENTRIES
  BY StatisticsAssumption, FS_CardinalityType
<1>2. IsFiniteSet(K) /\ Cardinality(K) <= Cardinality(Clients) /\ Cardinality(K) # Cardinality(Clients)
  BY <1>1, FS_Subset
<1>3. Cardinality(K) \in Nat  BY <1>2, FS_CardinalityType
<1> QED  BY <1>1, <1>2, <1>3, Constants

LEMMA TypeInit == StatInit => TypeInv
<1> SUFFICES ASSUME StatInit PROVE TypeInv
  OBVIOUS
<1>1. now \in 0 .. MaxNow /\ 0 \in 0 .. MaxNow /\ enable_mcc \in BOOLEAN
  BY Constants DEF StatInit
<1>2. ts \in [tv_sec : Nat, tv_nsec : 0 .. NsPerSec - 1] /\ stamp = ts
  BY TimeType DEF StatInit
<1>3. 0 \in 0 .. Word - 1 /\ -1 \in -1 .. BURST_HASH_ENTRIES - 1  BY Constants
<1>4. /\ {reading, whole, earliest, latest} \subseteq 0 .. MaxNow
      /\ {pkt_req, prev_req} \subseteq 0 .. Word - 1 /\ {counted, shown} \subseteq Nat
      /\ {request_num, tload, printedNum, total} \subseteq Nat
      /\ crossed \subseteq ({"row"} \X BurstRows) \cup {<<"num", 0>>}
  BY <1>1, <1>3 DEF StatInit
<1>5. /\ pclient \in [Procs -> Clients \cup {NoClient}] /\ pload \in [Procs -> Nat]
      /\ burst_hash \in [Clients -> -1 .. BURST_HASH_ENTRIES - 1]
      /\ burst \in [BurstRows -> Nat] /\ ip_src \in [BurstRows -> Clients \cup {NoClient}]
      /\ done \in [Clients -> Nat] /\ printed \in [BurstRows -> Nat]
  BY <1>3 DEF StatInit
<1>6. StatTypes  BY <1>1, <1>2, <1>4, <1>5 DEF StatTypes
<1>7. ClientInv  BY DEF StatInit, ClientInv
<1> QED  BY <1>6, <1>7 DEF TypeInv

\* What the lcores of the one mode leave alone, those of the other use.
ClockTypes ==
  /\ now \in 0 .. MaxNow /\ {reading, whole, earliest, latest} \subseteq 0 .. MaxNow
  /\ {ts, stamp} \subseteq [tv_sec : Nat, tv_nsec : 0 .. NsPerSec - 1]
RateTypes ==
  {pkt_req, prev_req} \subseteq 0 .. Word - 1 /\ {counted, shown} \subseteq Nat
HashTypes ==
  /\ pclient \in [Procs -> Clients \cup {NoClient}] /\ pload \in [Procs -> Nat]
  /\ burst_hash \in [Clients -> -1 .. BURST_HASH_ENTRIES - 1]
  /\ done \in [Clients -> Nat] /\ total \in Nat
RowTypes ==
  /\ burst \in [BurstRows -> Nat] /\ ip_src \in [BurstRows -> Clients \cup {NoClient}]
  /\ request_num \in Nat
  /\ crossed \subseteq ({"row"} \X BurstRows) \cup {<<"num", 0>>}
TimerTypes == tload \in Nat /\ printedNum \in Nat /\ printed \in [BurstRows -> Nat]

LEMMA TypeParts ==
  /\ StatTypes <=> /\ enable_mcc \in BOOLEAN
                /\ ClockTypes /\ RateTypes /\ HashTypes /\ RowTypes /\ TimerTypes
  /\ StatTypes' <=> /\ enable_mcc' \in BOOLEAN
                 /\ ClockTypes' /\ RateTypes' /\ HashTypes' /\ RowTypes' /\ TimerTypes'
  BY DEF StatTypes, ClockTypes, RateTypes, HashTypes, RowTypes, TimerTypes

LEMMA TypeStep ==
  ASSUME TypeInv, [StatNext]_statVars
  PROVE  TypeInv'
<1> USE DEF normalVars, mccVars, stampVars, rateVars, processVars, rowVars, timerVars
<1>0. /\ enable_mcc \in BOOLEAN /\ ClientInv
      /\ ClockTypes /\ RateTypes /\ HashTypes /\ RowTypes /\ TimerTypes
  BY TypeParts DEF TypeInv
<1>t. TypeInv' <=> /\ enable_mcc' \in BOOLEAN /\ ClientInv'
                   /\ ClockTypes' /\ RateTypes' /\ HashTypes' /\ RowTypes' /\ TimerTypes'
  BY TypeParts DEF TypeInv
<1>1. CASE /\ ClockTypes' /\ UNCHANGED <<enable_mcc, rateVars, mccVars>>
  <2>1. ClientInv'  BY <1>0, <1>1 DEF ClientInv, Keys
  <2>2. HashTypes' /\ RateTypes'  BY <1>0, <1>1 DEF HashTypes, RateTypes
  <2>3. RowTypes' /\ TimerTypes'  BY <1>0, <1>1 DEF RowTypes, TimerTypes
  <2> QED  BY <1>0, <1>1, <1>t, <2>1, <2>2, <2>3
<1>2. CASE /\ RateTypes' /\ UNCHANGED <<enable_mcc, stampVars, mccVars>>
  <2>1. ClientInv'  BY <1>0, <1>2 DEF ClientInv, Keys
  <2>2. HashTypes' /\ ClockTypes'  BY <1>0, <1>2 DEF HashTypes, ClockTypes
  <2>3. RowTypes' /\ TimerTypes'  BY <1>0, <1>2 DEF RowTypes, TimerTypes
  <2> QED  BY <1>0, <1>2, <1>t, <2>1, <2>2, <2>3
<1>3. CASE /\ HashTypes' /\ ClientInv' /\ RowTypes' /\ UNCHANGED <<enable_mcc, normalVars, timerVars>>
  <2>1. ClockTypes' /\ RateTypes'  BY <1>0, <1>3 DEF ClockTypes, RateTypes
  <2>2. TimerTypes'  BY <1>0, <1>3 DEF TimerTypes
  <2> QED  BY <1>0, <1>3, <1>t, <2>1, <2>2
<1>4. CASE /\ RowTypes' /\ TimerTypes' /\ UNCHANGED <<enable_mcc, normalVars, processVars>>
  <2>1. ClockTypes' /\ RateTypes'  BY <1>0, <1>4 DEF ClockTypes, RateTypes
  <2>2. HashTypes'  BY <1>0, <1>4 DEF HashTypes
  <2>3. ClientInv'  BY <1>0, <1>4 DEF ClientInv, Keys
  <2> QED  BY <1>0, <1>4, <1>t, <2>1, <2>2, <2>3
<1> DEFINE Clk == [tv_sec : Nat, tv_nsec : 0 .. NsPerSec - 1]
<1>5. CASE Tick \/ GetTime
  <2>1. now' \in 0 .. MaxNow /\ reading' \in 0 .. MaxNow
    BY <1>0, <1>5, Constants DEF ClockTypes, Tick, GetTime
  <2>2. ClockTypes'  BY <1>0, <1>5, <2>1 DEF ClockTypes, Tick, GetTime
  <2>3. UNCHANGED <<enable_mcc, rateVars, mccVars>>  BY <1>5 DEF Tick, GetTime
  <2> QED  BY <1>1, <2>2, <2>3
<1>6. CASE StoreSec \/ StoreNsec
  <2>1. Time(reading).tv_sec \in Nat /\ Time(reading).tv_nsec \in 0 .. NsPerSec - 1
    <3>1. reading \in Nat  BY <1>0 DEF ClockTypes
    <3> QED  BY <3>1, TimeType
  <2>2. ts \in Clk  BY <1>0 DEF ClockTypes
  <2>3. ts' \in Clk  BY <1>6, <2>1, <2>2 DEF StoreSec, StoreNsec
  <2>4. whole' \in 0 .. MaxNow  BY <1>0, <1>6 DEF ClockTypes, StoreSec, StoreNsec
  <2>5. UNCHANGED <<now, reading, stamp, earliest, latest, enable_mcc, rateVars, mccVars>>
    BY <1>6 DEF StoreSec, StoreNsec
  <2>6. ClockTypes'  BY <1>0, <2>3, <2>4, <2>5 DEF ClockTypes
  <2> QED  BY <1>1, <2>5, <2>6
<1>7. CASE CopySec \/ CopyNsec
  <2>1. stamp \in Clk /\ ts \in Clk  BY <1>0 DEF ClockTypes
  <2>2. stamp' \in Clk  BY <1>7, <2>1 DEF CopySec, CopyNsec
  <2>3. earliest' \in 0 .. MaxNow /\ latest' \in 0 .. MaxNow
    BY <1>0, <1>7 DEF ClockTypes, CopySec, CopyNsec
  <2>4. UNCHANGED <<now, ts, reading, whole, enable_mcc, rateVars, mccVars>>
    BY <1>7 DEF CopySec, CopyNsec
  <2>5. ClockTypes'  BY <1>0, <2>2, <2>3, <2>4 DEF ClockTypes
  <2> QED  BY <1>1, <2>4, <2>5
<1>8. CASE CountRequest \/ PrintRequests \/ Remember
  <2>1. (pkt_req + 1) % Word \in 0 .. Word - 1
    <3>1. pkt_req + 1 \in Nat  BY <1>0 DEF RateTypes
    <3> QED  BY <3>1, Constants, DivMod
  <2>2. (pkt_req - prev_req) % Word \in Nat
    <3> DEFINE d == pkt_req - prev_req
    <3>1. d \in Int  BY <1>0 DEF RateTypes
    <3> HIDE DEF d
    <3>2. d % Word \in Nat  BY <3>1, Constants, SMT
    <3> QED  BY <3>2 DEF d
  <2>3. pkt_req' \in 0 .. Word - 1 /\ prev_req' \in 0 .. Word - 1
    BY <1>0, <1>8, <2>1 DEF RateTypes, CountRequest, PrintRequests, Remember
  <2>4. counted' \in Nat /\ shown' \in Nat
    <3> DEFINE d == (pkt_req - prev_req) % Word
    <3>1. d \in Nat  BY <2>2
    <3>2. shown' \in {shown, shown + d} /\ counted' \in {counted, counted + 1}
      BY <1>8 DEF CountRequest, PrintRequests, Remember
    <3> HIDE DEF d
    <3> QED  BY <1>0, <3>1, <3>2 DEF RateTypes
  <2>5. UNCHANGED <<enable_mcc, stampVars, mccVars>>
    BY <1>8 DEF CountRequest, PrintRequests, Remember
  <2>6. RateTypes'  BY <2>3, <2>4 DEF RateTypes
  <2> QED  BY <1>2, <2>5, <2>6
<1>9. ASSUME NEW p \in Procs, NEW c \in Clients, RequestNumLoad(p, c) PROVE TypeInv'
  <2>1. HashTypes' /\ ClientInv'  BY <1>0, <1>9 DEF HashTypes, RowTypes, ClientInv, RequestNumLoad, Process, Keys
  <2>2. RowTypes' /\ UNCHANGED <<enable_mcc, normalVars, timerVars>>
    BY <1>0, <1>9 DEF RowTypes, RequestNumLoad, Process
  <2> QED  BY <1>3, <2>1, <2>2
<1>10. ASSUME NEW p \in Procs, RequestNumStore(p) PROVE TypeInv'
  <2>1. HashTypes'  BY <1>0, <1>10 DEF HashTypes, RequestNumStore, Process
  <2>2. ClientInv'  BY <1>0, <1>10 DEF ClientInv, RequestNumStore, Process, Keys
  <2>3. crossed' \subseteq ({"row"} \X BurstRows) \cup {<<"num", 0>>}
    BY <1>0, <1>10 DEF RowTypes, RequestNumStore, Crosses
  <2>4. RowTypes'  BY <1>0, <1>10, <2>3 DEF HashTypes, RowTypes, RequestNumStore
  <2> QED  BY <1>3, <1>10, <2>1, <2>2, <2>4 DEF RequestNumStore, Process
<1>11. ASSUME NEW p \in Procs, NEW c \in Clients, pclient[p] = c, Label(p) PROVE TypeInv'
  <2>1. Cardinality(Keys) \in 0 .. BURST_HASH_ENTRIES - 1 \/ c \in Keys
    <3>1. Keys \in SUBSET Clients  BY DEF Keys
    <3> QED  BY <3>1, KeyPosition
  <2>2. burst_hash' \in [Clients -> -1 .. BURST_HASH_ENTRIES - 1]
    <3>1. burst_hash' = [burst_hash EXCEPT ![c] = IF c \in Keys THEN @ ELSE Cardinality(Keys)]
      BY <1>11 DEF Label, AddKey
    <3>2. CASE c \in Keys  BY <1>0, <3>1, <3>2 DEF HashTypes
    <3>3. CASE c \notin Keys  BY <1>0, <2>1, <3>1, <3>3, Constants DEF HashTypes
    <3> QED  BY <3>2, <3>3
  <2>3. HashTypes'  BY <1>0, <1>11, <2>2 DEF HashTypes, Label, Process
  <2>4. burst_hash'[c] >= 0 /\ \A d \in Keys : burst_hash'[d] >= 0
    <3>1. burst_hash' = [burst_hash EXCEPT ![c] = IF c \in Keys THEN @ ELSE Cardinality(Keys)]
      BY <1>11 DEF Label, AddKey
    <3> DEFINE n == Cardinality(Keys)
    <3>2. n >= 0 \/ c \in Keys  BY <2>1
    <3> HIDE DEF n
    <3>3. burst_hash' = [burst_hash EXCEPT ![c] = IF c \in Keys THEN @ ELSE n]  BY <3>1 DEF n
    <3> QED  BY <1>0, <3>2, <3>3 DEF HashTypes, Keys
  <2>5. ClientInv'
    <3>1. Keys \subseteq Keys' /\ c \in Keys'  BY <2>4 DEF Keys
    <3>2. pclient' = pclient /\ ppc' = [ppc EXCEPT ![p] = "burst_load"] /\ ppc[p] = "key"
      BY <1>11 DEF Label, Process
    <3> QED  BY <1>0, <1>11, <3>1, <3>2 DEF ClientInv
  <2>6. RowTypes'
    <3> DEFINE i == Row(burst_hash'[pclient[p]])
    <3>1. i \in BurstRows
      <4>1. burst_hash'[c] \in Int  BY <2>2, Constants
      <4> QED  BY <1>11, <4>1, RowType
    <3>2. ip_src' = [ip_src EXCEPT ![i] = pclient[p]] /\ UNCHANGED <<burst, request_num, crossed>>
      BY <1>11 DEF Label
    <3> HIDE DEF i
    <3> QED  BY <1>0, <1>11, <3>1, <3>2 DEF RowTypes
  <2> QED  BY <1>3, <1>11, <2>3, <2>5, <2>6 DEF Label, Process
<1>12. ASSUME NEW p \in Procs, ppc[p] \in {"burst_load", "burst_store"}, NEW i, i = RowOf(p)
       PROVE  i \in BurstRows /\ pclient[p] \in Clients
  <2>1. pclient[p] \in Clients /\ burst_hash[pclient[p]] \in Int
    BY <1>0, <1>12, Constants DEF ClientInv, HashTypes
  <2> QED  BY <1>12, <2>1, RowType DEF RowOf
<1>13. ASSUME NEW p \in Procs, BurstLoad(p) PROVE TypeInv'
  <2> DEFINE i == RowOf(p)
  <2>1. i \in BurstRows  BY <1>12, <1>13 DEF BurstLoad, Process
  <2>2. pload' = [pload EXCEPT ![p] = burst[i]] /\ UNCHANGED <<pclient, burst_hash, done, total, rowVars>>
    BY <1>13 DEF BurstLoad
  <2> HIDE DEF i
  <2>3. HashTypes' /\ RowTypes'  BY <1>0, <2>1, <2>2 DEF HashTypes, RowTypes
  <2>4. ClientInv'  BY <1>0, <1>13, <2>2 DEF ClientInv, BurstLoad, Process, Keys
  <2> QED  BY <1>3, <1>13, <2>3, <2>4 DEF BurstLoad, Process
<1>14. ASSUME NEW p \in Procs, BurstStore(p) PROVE TypeInv'
  <2> DEFINE i == RowOf(p)
  <2>1. i \in BurstRows /\ pclient[p] \in Clients  BY <1>12, <1>14 DEF BurstStore, Process
  <2>2. /\ burst' = [burst EXCEPT ![i] = pload[p] + 1]
        /\ done' = [done EXCEPT ![pclient[p]] = @ + 1]
        /\ crossed' \in {crossed, crossed \cup {<<"row", i>>}}
        /\ UNCHANGED <<pclient, pload, burst_hash, total, ip_src, request_num>>
    BY <1>14 DEF BurstStore, Crosses
  <2> HIDE DEF i
  <2>3. HashTypes'  BY <1>0, <2>1, <2>2 DEF HashTypes
  <2>4. RowTypes'  BY <1>0, <2>1, <2>2 DEF HashTypes, RowTypes
  <2>5. ClientInv'  BY <1>0, <1>14, <2>2 DEF ClientInv, BurstStore, Process, Keys
  <2> QED  BY <1>3, <1>14, <2>3, <2>4, <2>5 DEF BurstStore, Process
<1>15. ASSUME TimerLcore PROVE TypeInv'
  <2>1. RowTypes' /\ TimerTypes'
    <3>1. CASE Timeout  BY <1>0, <3>1 DEF RowTypes, TimerTypes, Timeout, Timer
    <3>2. ASSUME NEW i \in BurstRows, PrintRow(i) PROVE RowTypes' /\ TimerTypes'
      BY <1>0, <3>2 DEF RowTypes, TimerTypes, PrintRow, Timer
    <3>3. ASSUME NEW i \in BurstRows, ResetRow(i) PROVE RowTypes' /\ TimerTypes'
      <4>1. crossed' \in {crossed, crossed \cup {<<"row", i>>}}  BY <3>3 DEF ResetRow, Crosses
      <4> QED  BY <1>0, <3>3, <4>1 DEF RowTypes, TimerTypes, ResetRow, Timer
    <3>4. CASE PrintNum  BY <1>0, <3>4 DEF RowTypes, TimerTypes, PrintNum, Timer
    <3>5. CASE ResetNum
      <4>1. crossed' \in {crossed, crossed \cup {<<"num", 0>>}}  BY <3>5 DEF ResetNum, Crosses
      <4> QED  BY <1>0, <3>5, <4>1 DEF RowTypes, TimerTypes, ResetNum, Timer
    <3> QED  BY <1>15, <3>1, <3>2, <3>3, <3>4, <3>5 DEF TimerLcore
  <2>2. UNCHANGED <<enable_mcc, normalVars, processVars>>
    BY <1>15 DEF TimerLcore, Timer, Timeout, PrintRow, ResetRow, PrintNum, ResetNum
  <2> QED  BY <1>4, <2>1, <2>2
<1>16. CASE UNCHANGED statVars
  <2>1. ClockTypes' /\ UNCHANGED <<enable_mcc, rateVars, mccVars>>
    BY <1>0, <1>16 DEF statVars, ClockTypes
  <2> QED  BY <1>1, <2>1
<1>17. ASSUME NEW p \in Procs, Label(p) PROVE pclient[p] \in Clients
  BY <1>0, <1>17 DEF ClientInv, Label, Process
<1> QED
  BY <1>5, <1>6, <1>7, <1>8, <1>9, <1>10, <1>11, <1>13, <1>14, <1>15, <1>16, <1>17
  DEF StatNext, TstampLcore, RxLcore, ProcessLcore

LEMMA TypesAlways == StatSpec => []TypeInv
  BY TypeInit, TypeStep, PTL DEF StatSpec

\* Counters, time stamps and the positions in the hash stay in their ranges; a
\* new client's position fits because there are no more clients than entries.
THEOREM StatisticsTypes == StatSpec => []StatTypes
<1>1. TypeInv => StatTypes  BY DEF TypeInv
<1> QED  BY TypesAlways, <1>1, PTL
-----------------------------------------------------------------------------
(* The time stamps.                                                        *)

\* The two words of ts are those of the last reading it held whole, but for
\* tv_sec between the two stores.
ClockInv ==
  /\ spc \in {"gettime", "sec", "nsec", "print", "remember"}
  /\ whole <= reading /\ reading <= now
  /\ spc \notin {"sec", "nsec"} => whole = reading
  /\ ts.tv_nsec = Time(whole).tv_nsec
  /\ \E x \in whole .. reading :
       /\ ts.tv_sec = Time(x).tv_sec
       /\ x = IF spc = "nsec" THEN reading ELSE whole

\* The words of a stamp come from readings between its two ghosts.
CopyInv ==
  /\ rpc \in {"sec", "nsec"}
  /\ rpc = "nsec" =>
       earliest <= whole /\ \E x \in earliest .. reading : stamp.tv_sec = Time(x).tv_sec
  /\ rpc = "sec" =>
       \E x, y \in earliest .. latest :
         stamp.tv_sec = Time(x).tv_sec /\ stamp.tv_nsec = Time(y).tv_nsec

StampInv == ClockInv /\ CopyInv

LEMMA StampInit == StatInit => StampInv
  BY Constants DEF StatInit, StampInv, ClockInv, CopyInv

LEMMA StampStep ==
  ASSUME TypeInv, StampInv, [StatNext]_statVars
  PROVE  StampInv'
<1> USE DEF normalVars, mccVars, stampVars
<1>0. ClockTypes /\ ClockInv /\ CopyInv  BY TypeParts DEF TypeInv, StampInv
<1>1. ClockTypes'  BY TypeStep, TypeParts DEF TypeInv
<1>2. CASE Tick
  <2>1. ClockInv' /\ CopyInv'  BY <1>0, <1>2 DEF ClockTypes, ClockInv, CopyInv, Tick, Time
  <2> QED  BY <2>1 DEF StampInv
<1>3. CASE GetTime
  <2>1. ClockInv'  BY <1>0, <1>3 DEF ClockTypes, ClockInv, GetTime, Tstamp
  <2>2. CopyInv'  BY <1>0, <1>3 DEF ClockTypes, ClockInv, CopyInv, GetTime
  <2> QED  BY <2>1, <2>2 DEF StampInv
<1>4. CASE StoreSec
  <2>1. ts'.tv_sec = Time(reading).tv_sec /\ ts'.tv_nsec = ts.tv_nsec
    BY <1>0, <1>4 DEF ClockTypes, StoreSec
  <2>2. ClockInv'  BY <1>0, <1>4, <2>1 DEF ClockTypes, ClockInv, StoreSec, Tstamp, Time
  <2>3. CopyInv'  BY <1>0, <1>4 DEF CopyInv, StoreSec, Time
  <2> QED  BY <2>2, <2>3 DEF StampInv
<1>5. CASE StoreNsec
  <2>1. ts'.tv_nsec = Time(reading).tv_nsec /\ ts'.tv_sec = ts.tv_sec
    BY <1>0, <1>5 DEF ClockTypes, StoreNsec
  <2>2. ClockInv'  BY <1>0, <1>5, <2>1 DEF ClockTypes, ClockInv, StoreNsec, Tstamp, Time
  <2>3. CopyInv'  BY <1>0, <1>5 DEF ClockTypes, ClockInv, CopyInv, StoreNsec
  <2> QED  BY <2>2, <2>3 DEF StampInv
<1>6. CASE CopySec
  <2>1. ClockInv'  BY <1>0, <1>6 DEF ClockInv, CopySec, Time
  <2>2. stamp'.tv_sec = ts.tv_sec  BY <1>0, <1>6 DEF ClockTypes, CopySec
  <2>3. CopyInv'  BY <1>0, <1>6, <2>2 DEF ClockTypes, ClockInv, CopyInv, CopySec
  <2> QED  BY <2>1, <2>3 DEF StampInv
<1>7. CASE CopyNsec
  <2>1. ClockInv'  BY <1>0, <1>7 DEF ClockInv, CopyNsec, Time
  <2>2. stamp'.tv_nsec = Time(whole).tv_nsec /\ stamp'.tv_sec = stamp.tv_sec
    BY <1>0, <1>7 DEF ClockTypes, ClockInv, CopyNsec
  <2>3. CopyInv'  BY <1>0, <1>7, <2>2 DEF ClockTypes, ClockInv, CopyInv, CopyNsec
  <2> QED  BY <2>1, <2>3 DEF StampInv
<1>8. CASE PrintRequests \/ Remember
  <2>1. ClockInv'  BY <1>0, <1>8 DEF ClockInv, PrintRequests, Remember, Tstamp, Time
  <2>2. CopyInv'  BY <1>0, <1>8 DEF CopyInv, PrintRequests, Remember, Time
  <2> QED  BY <2>1, <2>2 DEF StampInv
<1>9. CASE UNCHANGED <<stampVars, spc>>
  BY <1>0, <1>9 DEF StampInv, ClockInv, CopyInv, Time
<1>10. CASE CountRequest \/ (\E p \in Procs : ProcessLcore(p)) \/ TimerLcore
  <2>1. UNCHANGED normalVars \/ CountRequest
    BY <1>10, ZenonT(30) DEF ProcessLcore, TimerLcore, RequestNumLoad, RequestNumStore, Label, BurstLoad,
                 BurstStore, Process, Timer, Timeout, PrintRow, ResetRow, PrintNum, ResetNum
  <2> QED  BY <1>9, <2>1 DEF CountRequest
<1>11. CASE UNCHANGED statVars  BY <1>9, <1>11 DEF statVars
<1> QED
  BY <1>2, <1>3, <1>4, <1>5, <1>6, <1>7, <1>8, <1>10, <1>11 DEF StatNext, TstampLcore, RxLcore

\* Two words of readings between e and l make a time less than a second away
\* from these, and between them when they are of one second.
LEMMA MixedStamp ==
  ASSUME NEW e \in Nat, NEW l \in Nat, NEW x \in e .. l, NEW y \in e .. l,
         NEW st, st.tv_sec = Time(x).tv_sec, st.tv_nsec = Time(y).tv_nsec
  PROVE  /\ Value(st) \in e - NsPerSec + 1 .. l + NsPerSec - 1
         /\ Time(e).tv_sec = Time(l).tv_sec => Value(st) \in e .. l
<1> DEFINE sec(z) == z \div NsPerSec
           nsec(z) == z % NsPerSec
<1>0. NsPerSec \in Nat \ {0} /\ x \in Nat /\ y \in Nat  BY Constants
<1>1. /\ sec(x) * NsPerSec \in Nat /\ nsec(x) \in 0 .. NsPerSec - 1
      /\ x = sec(x) * NsPerSec + nsec(x)
  BY <1>0, DivMod
<1>2. /\ sec(y) * NsPerSec \in Nat /\ nsec(y) \in 0 .. NsPerSec - 1
      /\ y = sec(y) * NsPerSec + nsec(y)
  BY <1>0, DivMod
<1>3. Value(st) = sec(x) * NsPerSec + nsec(y)  BY <1>0, TimeType DEF Value
<1>4. ASSUME Time(e).tv_sec = Time(l).tv_sec PROVE sec(x) = sec(y)
  <2>1. sec(e) = sec(l)  BY <1>4, TimeType
  <2>2. sec(e) <= sec(x) /\ sec(x) <= sec(l)  BY <1>0, DivMonotone
  <2>3. sec(e) <= sec(y) /\ sec(y) <= sec(l)  BY <1>0, DivMonotone
  <2>4. sec(e) \in Nat /\ sec(x) \in Nat /\ sec(y) \in Nat  BY <1>0, DivMod
  <2> HIDE DEF sec
  <2> QED  BY <2>1, <2>2, <2>3, <2>4
<1> HIDE DEF sec, nsec
<1>5. Value(st) \in e - NsPerSec + 1 .. l + NsPerSec - 1  BY <1>0, <1>1, <1>2, <1>3
<1>6. ASSUME Time(e).tv_sec = Time(l).tv_sec PROVE Value(st) \in e .. l
  BY <1>2, <1>3, <1>4, <1>6
<1> QED  BY <1>5, <1>6

\* A packet's time stamp is never a second or more away from the readings of
\* the clock it was copied from, whatever TSTAMP stores between the two loads,
\* and exact to these readings within a second.
THEOREM StampsNearTheClock == StatSpec => []StampOffByLessThanASecond
<1>1. TypeInv /\ StampInv => StampOffByLessThanASecond
  <2> SUFFICES ASSUME TypeInv, StampInv, rpc = "sec"
               PROVE  /\ Value(stamp) \in earliest - NsPerSec + 1 .. latest + NsPerSec - 1
                      /\ Time(earliest).tv_sec = Time(latest).tv_sec =>
                           Value(stamp) \in earliest .. latest
    BY DEF StampOffByLessThanASecond
  <2>1. earliest \in Nat /\ latest \in Nat  BY TypeParts DEF TypeInv, ClockTypes
  <2>2. PICK x, y \in earliest .. latest :
          stamp.tv_sec = Time(x).tv_sec /\ stamp.tv_nsec = Time(y).tv_nsec
    BY DEF StampInv, CopyInv
  <2> QED  BY <2>1, <2>2, MixedStamp
<1> QED  BY TypesAlways, StampInit, StampStep, <1>1, PTL DEF StatSpec
-----------------------------------------------------------------------------
(* The requests per second.                                                *)

\* prev_req is the counter as it was after b requests; what was shown is not
\* more than that, until a figure printed since then is remembered.
RateInv ==
  /\ pkt_req = counted % Word
  /\ shown <= counted
  /\ \E b \in 0 .. counted :
       prev_req = b % Word /\ (spc # "remember" => shown <= b)

LEMMA RateInit == StatInit => RateInv
<1>1. 0 % Word = 0
  <2>1. (0 * Word + 0) % Word = 0  BY Constants, ModUnique
  <2>2. 0 * Word + 0 = 0  BY Constants
  <2> QED  BY <2>1, <2>2
<1> QED  BY <1>1 DEF StatInit, RateInv

LEMMA RateStep ==
  ASSUME TypeInv, RateInv, [StatNext]_statVars
  PROVE  RateInv'
<1> USE DEF normalVars, mccVars, rateVars
<1>0. counted \in Nat /\ shown \in Nat /\ Word \in Nat \ {0}
  BY TypeParts, Constants DEF TypeInv, RateTypes
<1>1. PICK b \in 0 .. counted : prev_req = b % Word /\ (spc # "remember" => shown <= b)
  BY DEF RateInv
<1>2. CASE CountRequest
  <2>1. pkt_req' = (counted + 1) % Word /\ counted' = counted + 1
    <3>1. pkt_req' = ((counted % Word) + 1) % Word  BY <1>2 DEF CountRequest, RateInv
    <3> QED  BY <1>0, <1>2, <3>1, ModSuccessor DEF CountRequest
  <2>2. UNCHANGED <<prev_req, shown, spc>>  BY <1>2 DEF CountRequest
  <2>3. shown <= counted  BY DEF RateInv
  <2>4. b \in 0 .. counted' /\ shown' <= counted'  BY <1>0, <2>1, <2>2, <2>3
  <2> QED  BY <1>1, <2>1, <2>2, <2>4, Zenon DEF RateInv
<1>3. CASE PrintRequests
  <2> DEFINE d == ((counted % Word) - (b % Word)) % Word
  <2>1. d \in Nat /\ d <= counted - b
    <3>1. b \in Nat /\ b <= counted /\ counted \in Nat  BY <1>0
    <3> HIDE DEF d
    <3> QED  BY <1>0, <3>1, ModDifference, Zenon DEF d
  <2>2. shown' = shown + d /\ spc' = "remember" /\ shown <= b
    BY <1>1, <1>3 DEF PrintRequests, Tstamp, RateInv
  <2> HIDE DEF d
  <2>3. shown' <= counted  BY <1>0, <1>1, <2>1, <2>2
  <2>4. UNCHANGED <<pkt_req, prev_req, counted>>  BY <1>3 DEF PrintRequests
  <2> QED  BY <1>1, <2>2, <2>3, <2>4, Zenon DEF RateInv
<1>4. CASE Remember
  <2>1. prev_req' = counted % Word /\ UNCHANGED <<pkt_req, counted, shown>>
    BY <1>4 DEF Remember, RateInv
  <2>2. counted \in 0 .. counted  BY <1>0
  <2> QED  BY <2>1, <2>2, Zenon DEF RateInv
<1>5. CASE UNCHANGED rateVars /\ (spc = "remember" => spc' = "remember")
  <2>1. UNCHANGED <<pkt_req, prev_req, counted, shown>>  BY <1>5
  <2>2. prev_req' = b % Word /\ (spc' # "remember" => shown' <= b)
    <3> DEFINE m == b % Word
               small == shown <= b
    <3>1. prev_req = m /\ (spc # "remember" => small)  BY <1>1
    <3>2. shown' = shown  BY <2>1
    <3>3. (shown' <= b) <=> small  BY <3>2, Zenon
    <3> HIDE DEF m, small
    <3>4. spc' # "remember" => spc # "remember"  BY <1>5
    <3>5. prev_req' = m /\ (spc' # "remember" => shown' <= b)
      BY <2>1, <3>1, <3>3, <3>4, Zenon
    <3> QED  BY <3>5 DEF m
  <2>3. pkt_req' = counted' % Word /\ shown' <= counted' /\ b \in 0 .. counted'
    BY <2>1 DEF RateInv
  <2> QED  BY <2>2, <2>3, Zenon DEF RateInv
<1>6. CASE Tick \/ GetTime \/ StoreSec \/ StoreNsec \/ RxLcore
  BY <1>5, <1>6
  DEF Tick, GetTime, StoreSec, StoreNsec, Tstamp, RxLcore, CopySec, CopyNsec
<1>7. CASE (\E p \in Procs : ProcessLcore(p)) \/ TimerLcore
  <2>1. UNCHANGED normalVars
    BY <1>7 DEF ProcessLcore, TimerLcore, RequestNumLoad, RequestNumStore, Label, BurstLoad,
                BurstStore, Process, Timer, Timeout, PrintRow, ResetRow, PrintNum, ResetNum
  <2> QED  BY <1>5, <2>1
<1>8. CASE UNCHANGED statVars  BY <1>5, <1>8 DEF statVars
<1> QED  BY <1>2, <1>3, <1>4, <1>6, <1>7, <1>8 DEF StatNext, TstampLcore

\* The figures printed never add up to more than the requests counted, for any
\* width of the counter and though it is loaded twice without a lock.
THEOREM RequestsShownOnce == StatSpec => []NoRequestShownTwice
<1>1. RateInv => NoRequestShownTwice  BY DEF RateInv, NoRequestShownTwice
<1> QED  BY TypesAlways, RateInit, RateStep, <1>1, PTL DEF StatSpec
-----------------------------------------------------------------------------
(* The counters of the MCC mode.                                           *)

\* CountsAddUp, counter by counter.
RowAddsUp(i) ==
  <<"row", i>> \notin crossed =>
    printed[i] + burst[i] - (IF tpc = <<"reset", i>> THEN tload ELSE 0)
      = Cardinality(CountedIn(i))
NumAddsUp ==
  <<"num", 0>> \notin crossed =>
    printedNum + request_num - (IF tpc = <<"num_reset", 0>> THEN tload ELSE 0) = total

\* No request of a client is counted before it has a key.
HashInv ==
  /\ \A c \in Clients \ Keys : done[c] = 0
  /\ \A i \in BurstRows : IsFiniteSet(CountedIn(i))

CountInv == HashInv /\ (\A i \in BurstRows : RowAddsUp(i)) /\ NumAddsUp

LEMMA CountInit == StatInit => CountInv
<1> SUFFICES ASSUME StatInit PROVE CountInv
  OBVIOUS
<1>1. \A i \in BurstRows : CountedIn(i) = {}  BY DEF StatInit, CountedIn, Keys
<1>2. IsFiniteSet({}) /\ Cardinality({}) = 0  BY FS_EmptySet
<1>3. HashInv  BY <1>1, <1>2 DEF StatInit, HashInv
<1>4. \A i \in BurstRows : printed[i] = 0 /\ burst[i] = 0 /\ tpc = <<"wait", 0>>  BY DEF StatInit
<1>5. \A i \in BurstRows : RowAddsUp(i)  BY <1>1, <1>2, <1>4 DEF RowAddsUp
<1>6. NumAddsUp  BY DEF StatInit, NumAddsUp
<1> QED  BY <1>3, <1>5, <1>6 DEF CountInv

\* A counter that a step leaves alone.
LEMMA RowSame ==
  ASSUME NEW i \in BurstRows, RowAddsUp(i), crossed \subseteq crossed',
         printed'[i] = printed[i], burst'[i] = burst[i], CountedIn(i)' = CountedIn(i),
         tpc' = <<"reset", i>> <=> tpc = <<"reset", i>>,
         tload' = tload \/ tpc' # <<"reset", i>>
  PROVE  RowAddsUp(i)'
  BY DEF RowAddsUp

LEMMA NumSame ==
  ASSUME NumAddsUp, crossed \subseteq crossed',
         UNCHANGED <<printedNum, request_num, total>>,
         tpc' = <<"num_reset", 0>> <=> tpc = <<"num_reset", 0>>,
         tload' = tload \/ tpc' # <<"num_reset", 0>>
  PROVE  NumAddsUp'
  BY DEF NumAddsUp

LEMMA CountedSame ==
  ASSUME UNCHANGED <<burst_hash, done>>
  PROVE  /\ \A i \in BurstRows : CountedIn(i)' = CountedIn(i)
         /\ HashInv => HashInv'
  BY DEF CountedIn, HashInv, Keys, Row

\* What a request of client c counts.
LEMMA CountedMore ==
  ASSUME TypeInv, HashInv, NEW c \in Keys, burst_hash' = burst_hash,
         done' = [done EXCEPT ![c] = @ + 1]
  PROVE  /\ HashInv'
         /\ \A j \in BurstRows :
              /\ j = Row(burst_hash[c]) =>
                   Cardinality(CountedIn(j)') = Cardinality(CountedIn(j)) + 1
              /\ j # Row(burst_hash[c]) => CountedIn(j)' = CountedIn(j)
<1>1. done \in [Clients -> Nat] /\ c \in Clients /\ Keys' = Keys
  BY TypeParts DEF TypeInv, HashTypes, Keys
<1>2. 1 .. done'[c] = (1 .. done[c]) \cup {done[c] + 1}  BY <1>1
<1>3. ASSUME NEW j \in BurstRows, j = Row(burst_hash[c])
      PROVE  CountedIn(j)' = CountedIn(j) \cup {<<c, done[c] + 1>>}
  <2>1. \A k \in Clients : k # c => done'[k] = done[k]  BY <1>1
  <2> QED  BY <1>1, <1>2, <1>3, <2>1 DEF CountedIn, Row
<1>4. ASSUME NEW j \in BurstRows, j # Row(burst_hash[c]) PROVE CountedIn(j)' = CountedIn(j)
  <2>1. \A k \in Clients : k # c => done'[k] = done[k]  BY <1>1
  <2> QED  BY <1>1, <1>4, <2>1 DEF CountedIn, Row, Keys
<1>5. ASSUME NEW j \in BurstRows PROVE <<c, done[c] + 1>> \notin CountedIn(j)
  <2>1. done[c] + 1 \notin 1 .. done[c]  BY <1>1
  <2> QED  BY <2>1 DEF CountedIn
<1>6. ASSUME NEW j \in BurstRows, j = Row(burst_hash[c])
      PROVE  /\ IsFiniteSet(CountedIn(j)')
             /\ Cardinality(CountedIn(j)') = Cardinality(CountedIn(j)) + 1
  BY <1>3, <1>5, <1>6, FS_AddElement DEF HashInv
<1>7. \A j \in BurstRows : IsFiniteSet(CountedIn(j)')  BY <1>4, <1>6 DEF HashInv
<1>8. \A k \in Clients \ Keys' : done'[k] = 0  BY <1>1 DEF HashInv
<1> QED  BY <1>4, <1>6, <1>7, <1>8 DEF HashInv

\* A client that gets its key has counted nothing yet.
LEMMA CountedWithKey ==
  ASSUME TypeInv, HashInv, NEW c \in Clients, AddKey(c), done' = done
  PROVE  HashInv' /\ \A j \in BurstRows : CountedIn(j)' = CountedIn(j)
<1>1. done \in [Clients -> Nat] /\ burst_hash \in [Clients -> -1 .. BURST_HASH_ENTRIES - 1]
  BY TypeParts DEF TypeInv, HashTypes
<1>2. CASE c \in Keys
  <2>1. burst_hash' = burst_hash  BY <1>1, <1>2 DEF AddKey
  <2> QED  BY <2>1, CountedSame
<1>3. CASE c \notin Keys
  <2>1. burst_hash'[c] \in Nat /\ \A k \in Clients : k # c => burst_hash'[k] = burst_hash[k]
    <3>1. Keys \in SUBSET Clients  BY DEF Keys
    <3>2. Cardinality(Keys) \in Nat  BY <1>3, <3>1, KeyPosition, Constants
    <3> QED  BY <1>1, <1>3, <3>2 DEF AddKey
  <2>2. Keys' = Keys \cup {c}  BY <1>1, <2>1 DEF Keys
  <2>3. 1 .. done[c] = {}
    <3>1. done[c] = 0  BY <1>3 DEF HashInv
    <3> QED  BY <3>1
  <2>4. ASSUME NEW j \in BurstRows PROVE CountedIn(j)' = CountedIn(j)
    <3>1. \A k \in Keys : Row(burst_hash'[k]) = Row(burst_hash[k])  BY <1>3, <2>1 DEF Keys
    <3> HIDE DEF Keys
    <3> QED  BY <1>3, <2>2, <2>3, <3>1 DEF CountedIn, Row
  <2>5. \A k \in Clients \ Keys' : done'[k] = 0  BY <2>2 DEF HashInv
  <2> QED  BY <2>4, <2>5 DEF HashInv
<1> QED  BY <1>2, <1>3

LEMMA CountStep ==
  ASSUME TypeInv, CountInv, [StatNext]_statVars
  PROVE  CountInv'
<1> USE DEF rowVars, timerVars, processVars
<1>0. HashInv /\ (\A i \in BurstRows : RowAddsUp(i)) /\ NumAddsUp  BY DEF CountInv
<1>1. /\ burst \in [BurstRows -> Nat] /\ printed \in [BurstRows -> Nat]
      /\ {request_num, printedNum, total, tload} \subseteq Nat
  BY TypeParts DEF TypeInv, HashTypes, RowTypes, TimerTypes
<1>2. ASSUME UNCHANGED <<burst_hash, done, total, burst, request_num, crossed, timerVars>>
      PROVE  CountInv'
  <2>1. HashInv' /\ \A i \in BurstRows : CountedIn(i)' = CountedIn(i)  BY <1>0, <1>2, CountedSame
  <2>2. \A i \in BurstRows : RowAddsUp(i)'
    <3> SUFFICES ASSUME NEW i \in BurstRows PROVE RowAddsUp(i)'
      OBVIOUS
    <3> QED  BY <1>0, <1>2, <2>1, RowSame
  <2>3. NumAddsUp'  BY <1>0, <1>2, NumSame
  <2> QED  BY <2>1, <2>2, <2>3 DEF CountInv
<1>3. ASSUME NEW p \in Procs, RequestNumStore(p) PROVE CountInv'
  <2>1. /\ request_num' = pload[p] + 1 /\ total' = total + 1
        /\ UNCHANGED <<burst_hash, done, burst, timerVars>>
        /\ crossed' = IF request_num = pload[p] THEN crossed ELSE crossed \cup {<<"num", 0>>}
    BY <1>3 DEF RequestNumStore, Process, Crosses
  <2>2. HashInv' /\ \A i \in BurstRows : CountedIn(i)' = CountedIn(i)  BY <1>0, <2>1, CountedSame
  <2>3. \A i \in BurstRows : RowAddsUp(i)'
    <3> SUFFICES ASSUME NEW i \in BurstRows PROVE RowAddsUp(i)'
      OBVIOUS
    <3> QED  BY <1>0, <2>1, <2>2, RowSame
  <2>4. NumAddsUp'  BY <1>0, <1>1, <2>1 DEF NumAddsUp
  <2> QED  BY <2>2, <2>3, <2>4 DEF CountInv
<1>4. ASSUME NEW p \in Procs, Label(p) PROVE CountInv'
  <2>1. /\ AddKey(pclient[p]) /\ pclient[p] \in Clients
        /\ UNCHANGED <<done, total, burst, request_num, crossed, timerVars>>
    BY <1>4 DEF TypeInv, ClientInv, Label, Process
  <2>2. HashInv' /\ \A i \in BurstRows : CountedIn(i)' = CountedIn(i)  BY <1>0, <2>1, CountedWithKey
  <2>3. \A i \in BurstRows : RowAddsUp(i)'
    <3> SUFFICES ASSUME NEW i \in BurstRows PROVE RowAddsUp(i)'
      OBVIOUS
    <3> QED  BY <1>0, <2>1, <2>2, RowSame
  <2>4. NumAddsUp'  BY <1>0, <2>1, NumSame
  <2> QED  BY <2>2, <2>3, <2>4 DEF CountInv
<1>5. ASSUME NEW p \in Procs, NEW i, i = RowOf(p), BurstStore(p) PROVE CountInv'
  <2>1. pclient[p] \in Keys  BY <1>5 DEF TypeInv, ClientInv, BurstStore, Process
  <2>2. i = Row(burst_hash[pclient[p]])  BY <1>5 DEF RowOf
  <2>3. /\ burst' = [burst EXCEPT ![i] = pload[p] + 1]
        /\ done' = [done EXCEPT ![pclient[p]] = @ + 1]
        /\ crossed' = IF burst[i] = pload[p] THEN crossed ELSE crossed \cup {<<"row", i>>}
        /\ UNCHANGED <<burst_hash, total, request_num, timerVars>>
    BY <1>5 DEF BurstStore, Process, Crosses
  <2>4. /\ HashInv'
        /\ \A j \in BurstRows :
             /\ j = i => Cardinality(CountedIn(j)') = Cardinality(CountedIn(j)) + 1
             /\ j # i => CountedIn(j)' = CountedIn(j)
    BY <1>0, <2>1, <2>2, <2>3, CountedMore
  <2>5. ASSUME NEW j \in BurstRows, j # i PROVE RowAddsUp(j)'
    <3>1. burst'[j] = burst[j] /\ crossed \subseteq crossed'  BY <1>1, <2>3, <2>5
    <3> QED  BY <1>0, <2>3, <2>4, <2>5, <3>1, RowSame
  <2>6. ASSUME i \in BurstRows PROVE RowAddsUp(i)'
    <3> SUFFICES ASSUME <<"row", i>> \notin crossed'
                 PROVE  printed'[i] + burst'[i] - (IF tpc' = <<"reset", i>> THEN tload' ELSE 0)
                          = Cardinality(CountedIn(i)')
      BY DEF RowAddsUp
    <3>1. burst[i] = pload[p] /\ <<"row", i>> \notin crossed  BY <2>3
    <3>2. burst'[i] = burst[i] + 1  BY <1>1, <2>3, <2>6, <3>1
    <3>3. printed[i] + burst[i] - (IF tpc = <<"reset", i>> THEN tload ELSE 0)
            = Cardinality(CountedIn(i))
      BY <1>0, <2>6, <3>1 DEF RowAddsUp
    <3>4. UNCHANGED <<printed, tpc, tload>>  BY <2>3
    <3>5. Cardinality(CountedIn(i)') = Cardinality(CountedIn(i)) + 1  BY <2>4, <2>6
    <3> DEFINE l == IF tpc = <<"reset", i>> THEN tload ELSE 0
    <3>6. l \in Nat /\ printed[i] \in Nat /\ burst[i] \in Nat  BY <1>1, <2>6
    <3>7. printed[i] + (burst[i] + 1) - l = (printed[i] + burst[i] - l) + 1  BY <3>6
    <3> QED  BY <3>2, <3>3, <3>4, <3>5, <3>7
  <2>7. NumAddsUp'
    <3>1. crossed \subseteq crossed'  BY <2>3
    <3> QED  BY <1>0, <2>3, <3>1, NumSame
  <2> QED  BY <2>4, <2>5, <2>6, <2>7 DEF CountInv
<1>6. CASE Timeout
  <2>1. /\ UNCHANGED <<burst_hash, done, total, burst, request_num, crossed, tload, printed, printedNum>>
        /\ tpc = <<"wait", 0>> /\ tpc' = <<"row", 0>>
    BY <1>6 DEF Timeout, Timer
  <2>2. HashInv' /\ \A i \in BurstRows : CountedIn(i)' = CountedIn(i)  BY <1>0, <2>1, CountedSame
  <2>3. \A i \in BurstRows : RowAddsUp(i)'
    <3> SUFFICES ASSUME NEW i \in BurstRows PROVE RowAddsUp(i)'
      OBVIOUS
    <3> QED  BY <1>0, <2>1, <2>2, RowSame
  <2>4. NumAddsUp'  BY <1>0, <2>1, NumSame
  <2> QED  BY <2>2, <2>3, <2>4 DEF CountInv
<1>7. ASSUME NEW i \in BurstRows, PrintRow(i) PROVE CountInv'
  <2>1. /\ UNCHANGED <<burst_hash, done, total, burst, request_num, crossed, printedNum>>
        /\ tpc = <<"row", i>> /\ tpc' = <<"reset", i>>
        /\ tload' = burst[i] /\ printed' = [printed EXCEPT ![i] = @ + burst[i]]
    BY <1>7 DEF PrintRow, Timer
  <2>2. HashInv' /\ \A j \in BurstRows : CountedIn(j)' = CountedIn(j)  BY <1>0, <2>1, CountedSame
  <2>3. ASSUME NEW j \in BurstRows, j # i PROVE RowAddsUp(j)'
    <3>1. printed'[j] = printed[j] /\ tpc # <<"reset", j>> /\ tpc' # <<"reset", j>>
      BY <1>1, <2>1, <2>3
    <3> QED  BY <1>0, <2>1, <2>2, <3>1, RowSame
  <2>4. RowAddsUp(i)'
    <3>1. printed'[i] = printed[i] + burst[i] /\ tpc # <<"reset", i>>  BY <1>1, <2>1
    <3>2. RowAddsUp(i)  BY <1>0
    <3> QED  BY <1>1, <2>1, <2>2, <3>1, <3>2 DEF RowAddsUp
  <2>5. NumAddsUp'  BY <1>0, <2>1, NumSame
  <2> QED  BY <2>2, <2>3, <2>4, <2>5 DEF CountInv
<1>8. ASSUME NEW i \in BurstRows, ResetRow(i) PROVE CountInv'
  <2>1. /\ UNCHANGED <<burst_hash, done, total, request_num, tload, printed, printedNum>>
        /\ tpc = <<"reset", i>> /\ tpc' = NextRow(i)
        /\ burst' = [burst EXCEPT ![i] = 0]
        /\ crossed' = IF burst[i] = tload THEN crossed ELSE crossed \cup {<<"row", i>>}
    BY <1>8 DEF ResetRow, Timer, Crosses
  <2>2. HashInv' /\ \A j \in BurstRows : CountedIn(j)' = CountedIn(j)  BY <1>0, <2>1, CountedSame
  <2>3. tpc' # <<"num_reset", 0>> /\ \A j \in BurstRows : tpc' # <<"reset", j>>  BY <2>1 DEF NextRow
  <2>4. ASSUME NEW j \in BurstRows, j # i PROVE RowAddsUp(j)'
    <3>1. burst'[j] = burst[j] /\ tpc # <<"reset", j>> /\ crossed \subseteq crossed'
      BY <1>1, <2>1, <2>4
    <3> QED  BY <1>0, <2>1, <2>2, <2>3, <3>1, RowSame
  <2>5. RowAddsUp(i)'
    <3>1. burst'[i] = 0 /\ RowAddsUp(i)  BY <1>0, <1>1, <2>1
    <3> QED  BY <1>1, <2>1, <2>2, <2>3, <3>1 DEF RowAddsUp
  <2>6. NumAddsUp'
    <3>1. crossed \subseteq crossed'  BY <2>1
    <3> QED  BY <1>0, <2>1, <2>3, <3>1, NumSame
  <2> QED  BY <2>2, <2>4, <2>5, <2>6 DEF CountInv
<1>9. CASE PrintNum \/ ResetNum
  <2>1. /\ UNCHANGED <<burst_hash, done, total, burst, printed>>
        /\ tpc \in {<<"num", 0>>, <<"num_reset", 0>>} /\ tpc' \in {<<"num_reset", 0>>, <<"wait", 0>>}
        /\ crossed' \in {crossed, crossed \cup {<<"num", 0>>}}
    BY <1>9 DEF PrintNum, ResetNum, Timer, Crosses
  <2>2. HashInv' /\ \A j \in BurstRows : CountedIn(j)' = CountedIn(j)  BY <1>0, <2>1, CountedSame
  <2>3. \A j \in BurstRows : RowAddsUp(j)'
    <3> SUFFICES ASSUME NEW j \in BurstRows PROVE RowAddsUp(j)'
      OBVIOUS
    <3>1. crossed \subseteq crossed' /\ tpc # <<"reset", j>> /\ tpc' # <<"reset", j>>  BY <2>1
    <3> QED  BY <1>0, <2>1, <2>2, <3>1, RowSame
  <2>4. NumAddsUp'
    BY <1>0, <1>1, <1>9 DEF NumAddsUp, PrintNum, ResetNum, Timer, Crosses
  <2> QED  BY <2>2, <2>3, <2>4 DEF CountInv
<1>10. CASE Tick \/ CountRequest \/ TstampLcore \/ RxLcore \/ UNCHANGED statVars
  <2>1. UNCHANGED mccVars
    BY <1>10 DEF Tick, CountRequest, TstampLcore, RxLcore, GetTime, StoreSec, StoreNsec,
                 PrintRequests, Remember, CopySec, CopyNsec, statVars
  <2> QED  BY <1>2, <2>1 DEF mccVars
<1>11. ASSUME NEW p \in Procs, BurstLoad(p) \/ \E c \in Clients : RequestNumLoad(p, c)
       PROVE  CountInv'
  BY <1>2, <1>11 DEF BurstLoad, RequestNumLoad, Process
<1> QED
  BY <1>3, <1>4, <1>5, <1>6, <1>7, <1>8, <1>9, <1>10, <1>11
  DEF StatNext, ProcessLcore, TimerLcore

\* Unless another lcore stored to a counter between a load and its store, no
\* request is lost or counted twice, for every number of rows that the clients'
\* positions in the hash are folded into.
THEOREM NoCountLost == StatSpec => []CountsAddUp
<1>1. CountInv => CountsAddUp  BY DEF CountInv, CountsAddUp, RowAddsUp, NumAddsUp
<1> QED  BY TypesAlways, CountInit, CountStep, <1>1, PTL DEF StatSpec
=============================================================================
