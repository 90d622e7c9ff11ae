----------------------------- MODULE Statistics -----------------------------
(***************************************************************************)
(* The lcores beside the pipeline (main.c): TSTAMP writes the clock that   *)
(* all RX lcores copy their time stamps from, and prints the requests of   *)
(* every second; TIMER prints and resets the request counters of the MCC   *)
(* mode.  There is no lock: each load and each store of a shared variable  *)
(* is a step.                                                              *)
(*                                                                         *)
(* conf->enable_mcc splits the module in two.  With it, burst_count throws *)
(* the time stamps away and the MONITOR lcore counts nothing; without it,  *)
(* TIMER does nothing.  What a mode does not use stands still in it.       *)
(***************************************************************************)
EXTENDS Integers, FiniteSets

CONSTANTS
  NsPerSec,             \* nanoseconds of a second
  Word,                 \* values of a uint32_t counter
  IP_NUM,               \* rows of burst[]
  Procs, Clients,
  NoClient,             \* not in Clients: an empty row label
  BURST_HASH_ENTRIES,
  MaxNow, MaxCount     \* bounds: time, requests

ASSUME StatisticsAssumption ==
  /\ {NsPerSec, Word, IP_NUM} \subseteq Nat \ {0}
  /\ {BURST_HASH_ENTRIES, MaxNow, MaxCount} \subseteq Nat
  /\ IsFiniteSet(Clients) /\ NoClient \notin Clients
  /\ Cardinality(Clients) <= BURST_HASH_ENTRIES

VARIABLES
  enable_mcc,           \* conf->enable_mcc
  now,                  \* the machine's clock
  ts,                   \* the program's: [tv_sec, tv_nsec]
  spc, reading,         \* TSTAMP: next step, the value clock_gettime returns
  rpc, stamp,           \* RX: next step, now of the slot it fills
  whole,                \* ghost: the last reading ts held both words of
  earliest, latest,     \* ghosts: the first and last reading a stamp may be from
  pkt_req, prev_req,    \* requests, and those printed
  counted, shown,       \* ghosts: requests in all, the figures printed added up
  ppc, pclient, pload,  \* process lcores: next step, request's client, value loaded
  burst_hash,           \* per client, its position in the hash or -1
  burst, ip_src,        \* per row: requests, label
  request_num,
  tpc, tload,           \* TIMER: next step, value printed
  done, total,          \* ghosts: requests counted per client, and in all
  printed, printedNum,  \* ghosts: the printed numbers added up, per row and in all
  crossed               \* ghost: counters a value was stored to that had
                        \*   changed since it was loaded

stampVars == <<now, ts, reading, rpc, stamp, whole, earliest, latest>>
rateVars == <<pkt_req, prev_req, counted, shown>>
processVars == <<ppc, pclient, pload, burst_hash, done, total>>
rowVars == <<burst, ip_src, request_num, crossed>>
timerVars == <<tpc, tload, printed, printedNum>>
normalVars == <<stampVars, spc, rateVars>>
mccVars == <<processVars, rowVars, timerVars>>
statVars == <<enable_mcc, normalVars, mccVars>>

BurstRows == 0 .. IP_NUM - 1
Time(t) == [tv_sec |-> t \div NsPerSec, tv_nsec |-> t % NsPerSec]
Value(stp) == stp.tv_sec * NsPerSec + stp.tv_nsec

StatInit ==
  /\ enable_mcc \in BOOLEAN
  /\ now \in IF enable_mcc THEN {0} ELSE 0 .. MaxNow
  /\ ts = Time(0) /\ spc = "gettime" /\ reading = 0
  /\ rpc = "sec" /\ stamp = Time(0) /\ whole = 0 /\ earliest = 0 /\ latest = 0
  /\ pkt_req = 0 /\ prev_req = 0 /\ counted = 0 /\ shown = 0
  /\ ppc = [p \in Procs |-> "poll"] /\ pclient = [p \in Procs |-> NoClient]
  /\ pload = [p \in Procs |-> 0]
  /\ burst_hash = [c \in Clients |-> -1]
  /\ burst = [i \in BurstRows |-> 0] /\ ip_src = [i \in BurstRows |-> NoClient]
  /\ request_num = 0 /\ tpc = <<"wait", 0>> /\ tload = 0
  /\ done = [c \in Clients |-> 0] /\ total = 0
  /\ printed = [i \in BurstRows |-> 0] /\ printedNum = 0
  /\ crossed = {}
-----------------------------------------------------------------------------
(* The clock: TSTAMP writes it, an RX lcore copies it.                     *)

Tick ==
  /\ ~enable_mcc /\ now < MaxNow
  /\ now' = now + 1
  /\ UNCHANGED <<enable_mcc, ts, spc, reading, rpc, stamp, whole, earliest, latest, rateVars, mccVars>>

Tstamp(pc, next) == ~enable_mcc /\ spc = pc /\ spc' = next

\* clock_gettime(&ts): the value, then the two words of ts.
GetTime ==
  /\ Tstamp("gettime", "sec")
  /\ reading' = now
  /\ UNCHANGED <<enable_mcc, now, ts, rpc, stamp, whole, earliest, latest, rateVars, mccVars>>

StoreSec ==
  /\ Tstamp("sec", "nsec")
  /\ ts' = [ts EXCEPT !.tv_sec = Time(reading).tv_sec]
  /\ UNCHANGED <<enable_mcc, now, reading, rpc, stamp, whole, earliest, latest, rateVars, mccVars>>

\* The second may be over: the statistics are printed before the next reading.
StoreNsec ==
  /\ \E next \in {"gettime", "print"} : Tstamp("nsec", next)
  /\ ts' = [ts EXCEPT !.tv_nsec = Time(reading).tv_nsec]
  /\ whole' = reading
  /\ UNCHANGED <<enable_mcc, now, reading, rpc, stamp, earliest, latest, rateVars, mccVars>>

\* The slot is written in place: until both words are, it holds a mixture.
CopySec ==
  /\ ~enable_mcc /\ rpc = "sec" /\ rpc' = "nsec"
  /\ stamp' = [stamp EXCEPT !.tv_sec = ts.tv_sec]
  /\ earliest' = whole
  /\ UNCHANGED <<enable_mcc, now, ts, spc, reading, whole, latest, rateVars, mccVars>>

\* Mutant: the nanoseconds are those of the slot's last packet.
CopyNsecStale ==
  /\ ~enable_mcc /\ rpc = "nsec" /\ rpc' = "sec"
  /\ stamp' = stamp
  /\ latest' = reading
  /\ UNCHANGED <<enable_mcc, now, ts, spc, reading, whole, earliest, rateVars, mccVars>>

CopyNsec ==
  /\ ~enable_mcc /\ rpc = "nsec" /\ rpc' = "sec"
  /\ stamp' = [stamp EXCEPT !.tv_nsec = ts.tv_nsec]
  /\ latest' = reading
  /\ UNCHANGED <<enable_mcc, now, ts, spc, reading, whole, earliest, rateVars, mccVars>>
-----------------------------------------------------------------------------
(* Requests per second: MONITOR counts, TSTAMP prints.                     *)

\* Only the MONITOR lcore stores pkt_req, so its load and store are one step.
CountRequest ==
  /\ ~enable_mcc /\ counted < MaxCount
  /\ pkt_req' = (pkt_req + 1) % Word /\ counted' = counted + 1
  /\ UNCHANGED <<enable_mcc, stampVars, spc, prev_req, shown, mccVars>>

\* Mutant: the difference is not taken modulo the counter's width.
PrintRequestsSigned ==
  /\ Tstamp("print", "remember")
  /\ shown' = shown + pkt_req - prev_req
  /\ UNCHANGED <<enable_mcc, stampVars, pkt_req, prev_req, counted, mccVars>>

\* Printed once for each ring, with another load of pkt_req: the last counts.
PrintRequests ==
  /\ Tstamp("print", "remember")
  /\ shown' = shown + ((pkt_req - prev_req) % Word)
  /\ UNCHANGED <<enable_mcc, stampVars, pkt_req, prev_req, counted, mccVars>>

\* Mutant: the next second starts where the last but one ended.
RememberNothing ==
  /\ Tstamp("remember", "gettime")
  /\ UNCHANGED <<enable_mcc, stampVars, rateVars, mccVars>>

Remember ==
  /\ Tstamp("remember", "gettime")
  /\ prev_req' = pkt_req
  /\ UNCHANGED <<enable_mcc, stampVars, pkt_req, counted, shown, mccVars>>
-----------------------------------------------------------------------------
(* The process lcores in the MCC mode: burst_count.                        *)

Process(p, pc, next) ==
  /\ enable_mcc /\ ppc[p] = pc /\ ppc' = [ppc EXCEPT ![p] = next]
  /\ UNCHANGED <<enable_mcc, normalVars, timerVars>>

Crosses(counter, value, loaded) ==
  crossed' = IF value = loaded THEN crossed ELSE crossed \cup {counter}

\* A request of client c; request_num++ is loaded.
RequestNumLoad(p, c) ==
  /\ total + Cardinality({q \in Procs : ppc[q] = "num_store"}) < MaxCount
  /\ Process(p, "poll", "num_store")
  /\ pclient' = [pclient EXCEPT ![p] = c] /\ pload' = [pload EXCEPT ![p] = request_num]
  /\ UNCHANGED <<burst_hash, done, total, rowVars>>

RequestNumStore(p) ==
  /\ Process(p, "num_store", "key")
  /\ request_num' = pload[p] + 1 /\ total' = total + 1
  /\ Crosses(<<"num", 0>>, request_num, pload[p])
  /\ UNCHANGED <<pclient, pload, burst_hash, done, burst, ip_src>>

\* rte_hash_add_key: the position of a known key, the next one for a new key.
Keys == {c \in Clients : burst_hash[c] >= 0}
AddKey(c) ==
  burst_hash' = [burst_hash EXCEPT ![c] = IF c \in Keys THEN @ ELSE Cardinality(Keys)]

Row(position) == position % IP_NUM
RowOf(p) == Row(burst_hash[pclient[p]])

\* The key is added and the row labelled with the client's address.
Label(p) ==
  /\ Process(p, "key", "burst_load")
  /\ AddKey(pclient[p])
  /\ ip_src' = [ip_src EXCEPT ![Row(burst_hash'[pclient[p]])] = pclient[p]]
  /\ UNCHANGED <<pclient, pload, done, total, burst, request_num, crossed>>

BurstLoad(p) ==
  /\ Process(p, "burst_load", "burst_store")
  /\ pload' = [pload EXCEPT ![p] = burst[RowOf(p)]]
  /\ UNCHANGED <<pclient, burst_hash, done, total, rowVars>>

BurstStore(p) ==
  /\ Process(p, "burst_store", "poll")
  /\ burst' = [burst EXCEPT ![RowOf(p)] = pload[p] + 1]
  /\ done' = [done EXCEPT ![pclient[p]] = @ + 1]
  /\ Crosses(<<"row", RowOf(p)>>, burst[RowOf(p)], pload[p])
  /\ UNCHANGED <<pclient, pload, burst_hash, total, ip_src, request_num>>
-----------------------------------------------------------------------------
(* TIMER in the MCC mode: a line of burst.txt every 5 ms.                  *)

Timer(pc, next) ==
  /\ enable_mcc /\ tpc = pc /\ tpc' = next
  /\ UNCHANGED <<enable_mcc, normalVars, processVars, ip_src>>

Timeout ==
  /\ Timer(<<"wait", 0>>, <<"row", 0>>)
  /\ UNCHANGED <<tload, printed, printedNum, burst, request_num, crossed>>

PrintRow(i) ==
  /\ Timer(<<"row", i>>, <<"reset", i>>)
  /\ tload' = burst[i] /\ printed' = [printed EXCEPT ![i] = @ + burst[i]]
  /\ UNCHANGED <<printedNum, burst, request_num, crossed>>

NextRow(i) == IF i + 1 < IP_NUM THEN <<"row", i + 1>> ELSE <<"num", 0>>

\* Mutant: a row is printed but not reset.
ResetRowMissing(i) ==
  /\ Timer(<<"reset", i>>, NextRow(i))
  /\ UNCHANGED <<tload, printed, printedNum, burst, request_num, crossed>>

ResetRow(i) ==
  /\ Timer(<<"reset", i>>, NextRow(i))
  /\ burst' = [burst EXCEPT ![i] = 0]
  /\ Crosses(<<"row", i>>, burst[i], tload)
  /\ UNCHANGED <<tload, printed, printedNum, request_num>>

PrintNum ==
  /\ Timer(<<"num", 0>>, <<"num_reset", 0>>)
  /\ tload' = request_num /\ printedNum' = printedNum + request_num
  /\ UNCHANGED <<printed, burst, request_num, crossed>>

ResetNum ==
  /\ Timer(<<"num_reset", 0>>, <<"wait", 0>>)
  /\ request_num' = 0
  /\ Crosses(<<"num", 0>>, request_num, tload)
  /\ UNCHANGED <<tload, printed, printedNum, burst>>
-----------------------------------------------------------------------------
TstampLcore == GetTime \/ StoreSec \/ StoreNsec \/ PrintRequests \/ Remember
RxLcore == CopySec \/ CopyNsec
ProcessLcore(p) ==
  \/ \E c \in Clients : RequestNumLoad(p, c)
  \/ RequestNumStore(p) \/ Label(p) \/ BurstLoad(p) \/ BurstStore(p)
TimerLcore ==
  \/ Timeout \/ PrintNum \/ ResetNum
  \/ \E i \in BurstRows : PrintRow(i) \/ ResetRow(i)

StatNext ==
  \/ Tick \/ CountRequest \/ TstampLcore \/ RxLcore
  \/ \E p \in Procs : ProcessLcore(p)
  \/ TimerLcore

StatSpec == StatInit /\ [][StatNext]_statVars
-----------------------------------------------------------------------------
(* Correctness.                                                            *)

\* Type invariant.
StatTypes ==
  /\ enable_mcc \in BOOLEAN
  /\ now \in 0 .. MaxNow /\ {reading, whole, earliest, latest} \subseteq 0 .. MaxNow
  /\ {ts, stamp} \subseteq [tv_sec : Nat, tv_nsec : 0 .. NsPerSec - 1]
  /\ {pkt_req, prev_req} \subseteq 0 .. Word - 1 /\ {counted, shown} \subseteq Nat
  /\ pclient \in [Procs -> Clients \cup {NoClient}] /\ pload \in [Procs -> Nat]
  /\ burst_hash \in [Clients -> -1 .. BURST_HASH_ENTRIES - 1]
  /\ burst \in [BurstRows -> Nat] /\ ip_src \in [BurstRows -> Clients \cup {NoClient}]
  /\ {request_num, tload, printedNum, total} \subseteq Nat
  /\ done \in [Clients -> Nat] /\ printed \in [BurstRows -> Nat]
  /\ crossed \subseteq ({"row"} \X BurstRows) \cup {<<"num", 0>>}

\* A time stamp put together from two words that change meanwhile is between
\* the first and the last reading it can come from if these are of the same
\* second; across a second's end it is off by less than a second.  Latencies
\* are differences of two such stamps.
StampOffByLessThanASecond ==
  rpc = "sec" =>
    /\ Value(stamp) \in earliest - NsPerSec + 1 .. latest + NsPerSec - 1
    /\ Time(earliest).tv_sec = Time(latest).tv_sec => Value(stamp) \in earliest .. latest

\* No request is in the figures of two seconds, though pkt_req goes on between
\* the print and prev_req = pkt_req and wraps around (some are in none).
NoRequestShownTwice == shown <= counted

\* The requests counted in row i: the n-th of client c is <<c, n>>.
CountedIn(i) ==
  UNION {{c} \X (1 .. done[c]) : c \in {k \in Keys : Row(burst_hash[k]) = i}}

\* Unless a counter changed between another lcore's load and store of it, its
\* printed numbers and what it holds add up to the requests it counted.
CountsAddUp ==
  /\ \A i \in BurstRows : <<"row", i>> \notin crossed =>
       printed[i] + burst[i] - (IF tpc = <<"reset", i>> THEN tload ELSE 0)
         = Cardinality(CountedIn(i))
  /\ <<"num", 0>> \notin crossed =>
       printedNum + request_num - (IF tpc = <<"num_reset", 0>> THEN tload ELSE 0) = total
=============================================================================
