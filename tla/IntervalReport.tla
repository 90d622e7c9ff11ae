--------------------------- MODULE IntervalReport ---------------------------
(***************************************************************************)
(* Two lcores of HCMonitor at work on the same samples and counters: the   *)
(* MONITOR lcore that records them (response_time_process) and the CDF     *)
(* lcore that wakes up every interval, copies the samples, prints their    *)
(* distribution and starts the next interval (lcore_online, cdf_acktime,   *)
(* clear; all monitor.c).                                                  *)
(*                                                                         *)
(* There is no lock.  With -O0 each load and each store of a shared        *)
(* variable is a step; x++ is two.  A memcpy, memset or clearing loop over *)
(* one array is one step: its elements are independent of each other.  So  *)
(* is cdf_acktime up to the reset of the retransmission counters: what it  *)
(* loads several times, the priority counters, differs between the loads   *)
(* only if a sample is recorded beside it, which `overlap' notes.          *)
(*                                                                         *)
(* The sample arrays grow under the CDF lcore, and one sample late.  What  *)
(* an access beyond an array's end does, or one to an array that realloc   *)
(* moved away, is undefined: `outside' notes it, and from then on what was *)
(* written there may have vanished when it is copied, or the copy with it. *)
(*                                                                         *)
(* The flows are closed loops: request k of a flow, its response, request  *)
(* k + 1, and so on, in capture order.  Request k has sequence number k    *)
(* and payload 1, its response acknowledges k + 1.  A sample's time is     *)
(* abstracted to the flow and the numbers of the response and of the       *)
(* request whose time stamp was taken.  Wrap-around and a full hash are    *)
(* ResponseTime's subject; recv_pri_*, which nothing reads, is left out.   *)
(* The build is one without OP_MYSQL, as it is by default.                 *)
(***************************************************************************)
EXTENDS Integers, Sequences, FiniteSets, FiniteSetsExt

CONSTANTS
  Flows,                \* keys, each with an entry of its own in the hash
  NoFlow,               \* the flow of a cleared or never written time
  HighSize, LowSize,    \* elements ack_pri_high and ack_pri_low start with
  BufferSizes,          \* values of CAT_BUFF
  MaxReqs, MaxAgain     \* bounds: requests of a flow, packets captured twice

ASSUME ReportAssumption ==
  /\ IsFiniteSet(Flows) /\ NoFlow \notin Flows
  /\ {HighSize, LowSize, MaxReqs, MaxAgain} \subseteq Nat /\ MaxReqs > 0
  /\ BufferSizes \subseteq Nat

VARIABLES
  turn,                 \* per flow, packets processed: 2k - 1 after request k
  again,                \* copies captured so far
  mpc, mflow,           \* MONITOR: next step, flow of the packet,
  mload, mhigh,         \*   value loaded, whether the sample is a high priority one
  cpc, idx,             \* CDF: next step, idx = idx_hy at the snapshot
  Maxseq,               \* per flow: [req, len, rsp] sequence numbers, payload
  req_out_if,           \* per flow: the request whose time stamp is kept
  req_hy_count,         \* per flow: [count, pri]
  idx_hy, time, pri,    \* ack_time: samples so far, their times and priorities
  time_hy, pri_hy,      \* ack_time_hy: the copy
  idx_pri_high, idx_pri_low, req_recount, rsp_recount, conn_active_hy,
  CAT_BUFF, thre, size, \* elements of the four sample arrays: at first, after
                        \*   the next growth, per array
  ph_size, pl_size,     \* elements of ack_pri_high, ack_pri_low
  conn,                 \* connections the report prints
  active,               \* ghost: flows with a request in this interval
  recorded, reported,   \* ghosts: samples recorded, times each was reported
  high, low,            \* ghosts: samples of each priority in the last report
  crossed,              \* ghost: an index was updated while the CDF lcore copied,
                        \*   or clear() ran between the two tests of a response
  overlap,              \* ghost: a sample was recorded, or the arrays grew, while
                        \*   the CDF lcore worked
  outside               \* ghost: an array was accessed beyond its end, or moved
                        \*   while the CDF lcore worked on it

packet == <<turn, again, mflow, active>>
register == <<mload, mhigh>>
tableVars == <<Maxseq, req_out_if, req_hy_count>>
sampleVars == <<idx_hy, time, pri, recorded>>
priVars == <<idx_pri_high, idx_pri_low>>
recountVars == <<req_recount, rsp_recount>>
copyVars == <<time_hy, pri_hy>>
bufferVars == <<thre, size>>
reportVars == <<ph_size, pl_size, reported, high, low>>
vars == <<packet, mpc, register, cpc, idx, tableVars, sampleVars, priVars,
          recountVars, conn_active_hy, conn, copyVars, CAT_BUFF, bufferVars, reportVars,
          crossed, overlap, outside>>

MaxSamples == Cardinality(Flows) * MaxReqs + MaxAgain
Indices == 0 .. MaxSamples - 1
Sample == [flow : Flows, req : 1 .. MaxReqs, from : 0 .. MaxReqs]
NoSample == [flow |-> NoFlow, req |-> 0, from |-> 0]
NoEntry == [req |-> 0, len |-> 0, rsp |-> 0]
Arrays == {"time", "pri", "time_hy", "pri_hy"}

Init ==
  /\ turn = [f \in Flows |-> 0] /\ again = 0 /\ active = {}
  /\ mpc = "idle" /\ mflow = NoFlow /\ mload = 0 /\ mhigh = FALSE
  /\ cpc = "sleep" /\ idx = 0
  /\ Maxseq = [f \in Flows |-> NoEntry]
  /\ req_out_if = [f \in Flows |-> 0]
  /\ req_hy_count = [f \in Flows |-> [count |-> 0, pri |-> -1]]
  /\ idx_hy = 0 /\ recorded = {}
  /\ time = [i \in Indices |-> NoSample] /\ pri = [i \in Indices |-> 0]
  /\ time_hy = [i \in Indices |-> NoSample] /\ pri_hy = [i \in Indices |-> 0]
  /\ idx_pri_high = 0 /\ idx_pri_low = 0 /\ req_recount = 0 /\ rsp_recount = 0
  /\ conn_active_hy = 0 /\ conn = 0
  /\ CAT_BUFF \in BufferSizes /\ thre = CAT_BUFF /\ size = [a \in Arrays |-> CAT_BUFF]
  /\ ph_size = HighSize /\ pl_size = LowSize
  /\ reported = [s \in Sample |-> 0] /\ high = 0 /\ low = 0
  /\ crossed = FALSE /\ overlap = FALSE /\ outside = FALSE
-----------------------------------------------------------------------------
(* The MONITOR lcore, on a packet of flow f: `turn' says which one.        *)

\* Where the lcores get into each other's way.
Meets(m, c) ==
  /\ crossed' = \/ crossed
                \/ m \in {"idx_store", "time_write"} /\ c \in {"copy_time", "copy_pri", "idx_reset"}
                \/ m \in {"grow_test", "grow_thre", "rsp_seq"} \cup Arrays /\ c = "pri_reset"
  /\ overlap' = \/ overlap
                \/ /\ m \in {"rsp_pri_store", "pri_write", "idx", "idx_store", "time_write"} \cup Arrays
                   /\ c # "sleep"

\* The arrays the CDF lcore works on in a step, and how many elements of them.
Uses == {<<"copy_time", "time">>, <<"copy_time", "time_hy">>, <<"copy_pri", "pri">>,
         <<"copy_pri", "pri_hy">>, <<"report", "time_hy">>, <<"report", "pri_hy">>,
         <<"recount_reset", "time_hy">>, <<"clear_count", "time_hy">>, <<"clear_seq", "time_hy">>}
Elements(c) == IF c \in {"copy_time", "copy_pri"} THEN idx_hy
               ELSE IF c = "clear_seq" THEN CAT_BUFF ELSE idx

\* A step of the MONITOR lcore, of the CDF lcore, that leaves the arrays.
LeavesMonitor(m) ==
  \/ m = "pri_write" /\ idx_hy >= size["pri"]
  \/ m = "time_write" /\ mload >= size["time"]
  \/ <<cpc, m>> \in Uses
LeavesCdf(c) == \E a \in Arrays : <<c, a>> \in Uses /\ size[a] < Elements(c)

Number == (turn[mflow] + 1) \div 2      \* of the request the packet is about

MonitorStep(pc, next) ==
  /\ mpc = pc /\ mpc' = next /\ Meets(next, cpc)
  /\ outside' = (outside \/ LeavesMonitor(pc))
  /\ UNCHANGED <<cpc, idx, conn, copyVars, CAT_BUFF, reportVars>>

Monitor(pc, next) == MonitorStep(pc, next) /\ UNCHANGED bufferVars

\* The next packet of flow f, or its last one once more.
Packet(f) ==
  /\ \/ turn[f] < 2 * MaxReqs /\ turn' = [turn EXCEPT ![f] = @ + 1] /\ UNCHANGED again
     \/ turn[f] > 0 /\ again < MaxAgain /\ again' = again + 1 /\ UNCHANGED turn
  /\ mflow' = f
  /\ LET isRequest == turn'[f] % 2 = 1 IN
       /\ Monitor("idle", IF isRequest THEN "req_test" ELSE "rsp_test")
       /\ active' = IF isRequest THEN active \cup {f} ELSE active
  /\ UNCHANGED <<register, tableVars, sampleVars, priVars, recountVars, conn_active_hy>>

\* Mutant: wants a gap of one request.
ReqTestLate ==
  /\ Monitor("req_test", IF Maxseq[mflow].req + 1 < Number THEN "req_count" ELSE "req_recount")
  /\ UNCHANGED <<packet, register, tableVars, sampleVars, priVars, recountVars, conn_active_hy>>

ReqTest ==
  /\ Monitor("req_test", IF Maxseq[mflow].req < Number THEN "req_count" ELSE "req_recount")
  /\ UNCHANGED <<packet, register, tableVars, sampleVars, priVars, recountVars, conn_active_hy>>

ReqCount ==
  /\ Monitor("req_count", IF req_hy_count[mflow].count = 0 THEN "conn" ELSE "req_seq")
  /\ req_hy_count' = [req_hy_count EXCEPT ![mflow].count = IF @ = 0 THEN 1 ELSE @]
  /\ UNCHANGED <<packet, register, Maxseq, req_out_if, sampleVars, priVars, recountVars, conn_active_hy>>

\* x++ is a load and a store.
Load(pc, x, next) ==
  /\ Monitor(pc, next)
  /\ mload' = x
  /\ UNCHANGED <<packet, mhigh, tableVars, sampleVars, priVars, recountVars, conn_active_hy>>

ConnLoad == Load("conn", conn_active_hy, "conn_store")
ConnStore ==
  /\ Monitor("conn_store", "req_seq")
  /\ conn_active_hy' = mload + 1
  /\ UNCHANGED <<packet, register, tableVars, sampleVars, priVars, recountVars>>

ReqSeq ==
  /\ Monitor("req_seq", "req_stamp")
  /\ Maxseq' = [Maxseq EXCEPT ![mflow].req = Number]
  /\ UNCHANGED <<packet, register, req_out_if, req_hy_count, sampleVars, priVars, recountVars, conn_active_hy>>

\* Mutant: only a connection's first request is stamped.
ReqStampOnce ==
  /\ Monitor("req_stamp", "req_pri")
  /\ Maxseq' = [Maxseq EXCEPT ![mflow].len = 1]
  /\ req_out_if' = [req_out_if EXCEPT ![mflow] = IF @ = 0 THEN Number ELSE @]
  /\ UNCHANGED <<packet, register, req_hy_count, sampleVars, priVars, recountVars, conn_active_hy>>

ReqStamp ==
  /\ Monitor("req_stamp", "req_pri")
  /\ Maxseq' = [Maxseq EXCEPT ![mflow].len = 1]
  /\ req_out_if' = [req_out_if EXCEPT ![mflow] = Number]
  /\ UNCHANGED <<packet, register, req_hy_count, sampleVars, priVars, recountVars, conn_active_hy>>

ReqRecountLoad == Load("req_recount", req_recount, "req_recount_store")
ReqRecountStore ==
  /\ Monitor("req_recount_store", "req_pri")
  /\ req_recount' = mload + 1
  /\ UNCHANGED <<packet, register, tableVars, sampleVars, priVars, rsp_recount, conn_active_hy>>

ReqPri ==
  /\ Monitor("req_pri", "idle")
  /\ \E high_label \in {0, 1} : req_hy_count' = [req_hy_count EXCEPT ![mflow].pri = high_label]
  /\ UNCHANGED <<packet, register, Maxseq, req_out_if, sampleVars, priVars, recountVars, conn_active_hy>>

InWindow == Number + 1 - Maxseq[mflow].req \in 0 .. Maxseq[mflow].len

RspTest ==
  /\ Monitor("rsp_test", IF InWindow THEN "grow_test" ELSE "idle")
  /\ UNCHANGED <<packet, register, tableVars, sampleVars, priVars, recountVars, conn_active_hy>>

\* The arrays grow when a response comes that finds more than thre samples:
\* the sample before it was already one too many.  idx_hy is loaded twice.
GrowTest ==
  /\ Monitor("grow_test", IF idx_hy > thre THEN "grow_thre" ELSE "rsp_seq")
  /\ UNCHANGED <<packet, register, tableVars, sampleVars, priVars, recountVars, conn_active_hy>>

GrowThre ==
  /\ MonitorStep("grow_thre", "time")
  /\ thre' = idx_hy * 2
  /\ UNCHANGED <<size, packet, register, tableVars, sampleVars, priVars, recountVars, conn_active_hy>>

Realloc(a, next) ==
  /\ MonitorStep(a, next)
  /\ size' = [size EXCEPT ![a] = thre]
  /\ UNCHANGED <<thre, packet, register, tableVars, sampleVars, priVars, recountVars, conn_active_hy>>

Grow ==
  \/ Realloc("time", "pri") \/ Realloc("pri", "time_hy")
  \/ Realloc("time_hy", "pri_hy") \/ Realloc("pri_hy", "rsp_seq")

RspSeq ==
  /\ LET isNew == Number + 1 > Maxseq[mflow].rsp IN
       /\ Monitor("rsp_seq", IF isNew THEN "rsp_pri" ELSE "rsp_recount")
       /\ Maxseq' = [Maxseq EXCEPT ![mflow].rsp = IF isNew THEN Number + 1 ELSE @]
  /\ UNCHANGED <<packet, register, req_out_if, req_hy_count, sampleVars, priVars, recountVars, conn_active_hy>>

RspRecountLoad == Load("rsp_recount", rsp_recount, "rsp_recount_store")
RspRecountStore ==
  /\ Monitor("rsp_recount_store", "idle")
  /\ rsp_recount' = mload + 1
  /\ UNCHANGED <<packet, register, tableVars, sampleVars, priVars, req_recount, conn_active_hy>>

\* if(pri): the -1 that clear() leaves counts as high.
PriLoad ==
  /\ Monitor("rsp_pri", "rsp_pri_store")
  /\ mhigh' = (req_hy_count[mflow].pri # 0)
  /\ mload' = IF mhigh' THEN idx_pri_high ELSE idx_pri_low
  /\ UNCHANGED <<packet, tableVars, sampleVars, priVars, recountVars, conn_active_hy>>

PriStore ==
  /\ Monitor("rsp_pri_store", "pri_write")
  /\ idx_pri_high' = IF mhigh THEN mload + 1 ELSE idx_pri_high
  /\ idx_pri_low' = IF mhigh THEN idx_pri_low ELSE mload + 1
  /\ UNCHANGED <<packet, register, tableVars, sampleVars, recountVars, conn_active_hy>>

PriWrite ==
  /\ Monitor("pri_write", "idx")
  /\ pri' = [pri EXCEPT ![idx_hy] = IF mhigh THEN 1 ELSE 0]
  /\ UNCHANGED <<packet, register, tableVars, idx_hy, time, recorded, priVars, recountVars, conn_active_hy>>

\* time[idx_hy++] = ack: the index is stored before the time is written.
IdxLoad == Load("idx", idx_hy, "idx_store")
IdxStore ==
  /\ Monitor("idx_store", "time_write")
  /\ idx_hy' = mload + 1
  /\ UNCHANGED <<packet, register, tableVars, time, pri, recorded, priVars, recountVars, conn_active_hy>>

TimeWrite ==
  /\ Monitor("time_write", "idle")
  /\ LET sample == [flow |-> mflow, req |-> Number, from |-> req_out_if[mflow]] IN
       /\ time' = [time EXCEPT ![mload] = sample]
       /\ recorded' = recorded \cup {sample}
  /\ UNCHANGED <<packet, register, tableVars, idx_hy, pri, priVars, recountVars, conn_active_hy>>

MonitorLcore ==
  \/ \E f \in Flows : Packet(f)
  \/ ReqTest \/ ReqCount \/ ConnLoad \/ ConnStore \/ ReqSeq \/ ReqStamp
  \/ ReqRecountLoad \/ ReqRecountStore \/ ReqPri
  \/ RspTest \/ GrowTest \/ GrowThre \/ Grow \/ RspSeq \/ RspRecountLoad \/ RspRecountStore \/ PriLoad
  \/ PriStore \/ PriWrite \/ IdxLoad \/ IdxStore \/ TimeWrite
-----------------------------------------------------------------------------
(* The CDF lcore.                                                          *)

Cdf(pc, next) ==
  /\ cpc = pc /\ cpc' = next /\ Meets(mpc, next)
  /\ outside' = (outside \/ LeavesCdf(pc))
  /\ UNCHANGED <<turn, again, mflow, mpc, register, CAT_BUFF, bufferVars>>

Wake ==
  /\ Cdf("sleep", "conn_reset")
  /\ conn' = conn_active_hy
  /\ UNCHANGED <<active, idx, tableVars, sampleVars, priVars, recountVars, conn_active_hy, copyVars, reportVars>>

ConnReset ==
  /\ Cdf("conn_reset", "test")
  /\ conn_active_hy' = 0 /\ active' = {}
  /\ UNCHANGED <<idx, tableVars, sampleVars, priVars, recountVars, conn, copyVars, reportVars>>

Snapshot ==
  /\ Cdf("test", "copy_time")
  /\ idx_hy # 0
  /\ idx' = idx_hy
  /\ UNCHANGED <<active, tableVars, sampleVars, priVars, recountVars, conn_active_hy, conn, copyVars, reportVars>>

\* Mutant: off by one, takes a single sample for none.
NothingToReportEager ==
  /\ Cdf("test", "sleep")
  /\ idx_hy <= 1
  /\ UNCHANGED <<active, idx, tableVars, sampleVars, priVars, recountVars, conn_active_hy, conn, copyVars, reportVars>>

NothingToReport ==
  /\ Cdf("test", "sleep")
  /\ idx_hy = 0
  /\ UNCHANGED <<active, idx, tableVars, sampleVars, priVars, recountVars, conn_active_hy, conn, copyVars, reportVars>>

\* memcpy: the elements that arrive.
Copied(to, from, n) == [i \in Indices |-> IF i < n THEN from[i] ELSE to[i]]
Arriving == IF outside' THEN 0 .. idx_hy ELSE {idx_hy}

CopyTime ==
  /\ Cdf("copy_time", "copy_pri")
  /\ \E n \in Arriving : time_hy' = Copied(time_hy, time, n)
  /\ UNCHANGED <<active, idx, tableVars, sampleVars, priVars, recountVars, conn_active_hy, conn, pri_hy, reportVars>>

CopyPri ==
  /\ Cdf("copy_pri", "idx_reset")
  /\ \E n \in Arriving : pri_hy' = Copied(pri_hy, pri, n)
  /\ UNCHANGED <<active, idx, tableVars, sampleVars, priVars, recountVars, conn_active_hy, conn, time_hy, reportVars>>

\* Mutant: the next interval starts with this one's samples.
IdxResetMissing ==
  /\ Cdf("idx_reset", "report")
  /\ idx_hy' = idx_hy
  /\ UNCHANGED <<active, idx, tableVars, time, pri, recorded, priVars, recountVars, conn_active_hy, conn, copyVars, reportVars>>

IdxReset ==
  /\ Cdf("idx_reset", "report")
  /\ idx_hy' = 0
  /\ UNCHANGED <<active, idx, tableVars, time, pri, recorded, priVars, recountVars, conn_active_hy, conn, copyVars, reportVars>>

\* Mutant: off by one, the array stays one element short.
ResizedLate(elements, count) == IF count > elements + 1 THEN count + 1 ELSE elements

Resized(elements, count) == IF count > elements THEN count + 1 ELSE elements

\* cdf_acktime: size the two priority arrays by the counters, split the
\* samples over them by their labels and print the distributions.
Report ==
  /\ Cdf("report", "recount_reset")
  /\ ph_size' = Resized(ph_size, idx_pri_high)
  /\ pl_size' = Resized(pl_size, idx_pri_low)
  /\ high' = Cardinality({i \in 0 .. idx - 1 : pri_hy[i] # 0})
  /\ low' = idx - high'
  /\ reported' = [s \in Sample |-> reported[s] + Cardinality({i \in 0 .. idx - 1 : time_hy[i] = s})]
  /\ UNCHANGED <<active, idx, tableVars, sampleVars, priVars, recountVars, conn_active_hy, conn, copyVars>>

RecountReset ==
  /\ Cdf("recount_reset", "clear_count")
  /\ req_recount' = 0 /\ rsp_recount' = 0
  /\ UNCHANGED <<active, idx, tableVars, sampleVars, priVars, conn_active_hy, conn, copyVars, reportVars>>

\* clear(): the connection flags first, then the sequence numbers.
ClearCounts ==
  /\ Cdf("clear_count", "clear_seq")
  /\ req_hy_count' = [f \in Flows |-> [count |-> 0, pri |-> -1]]
  /\ UNCHANGED <<active, idx, Maxseq, req_out_if, sampleVars, priVars, recountVars, conn_active_hy, conn, copyVars, reportVars>>

ClearSeqs ==
  /\ Cdf("clear_seq", "pri_reset")
  /\ Maxseq' = [f \in Flows |-> NoEntry]
  /\ time_hy' = [i \in Indices |-> IF i < CAT_BUFF THEN NoSample ELSE time_hy[i]]
  /\ UNCHANGED <<active, idx, req_out_if, req_hy_count, sampleVars, priVars, recountVars, conn_active_hy, conn, pri_hy, reportVars>>

PriReset ==
  /\ Cdf("pri_reset", "sleep")
  /\ idx_pri_low' = 0 /\ idx_pri_high' = 0 /\ high' = 0 /\ low' = 0
  /\ UNCHANGED <<active, idx, tableVars, sampleVars, recountVars, conn_active_hy, conn, copyVars,
                 ph_size, pl_size, reported>>

CdfLcore ==
  \/ Wake \/ ConnReset \/ Snapshot \/ NothingToReport \/ CopyTime \/ CopyPri
  \/ IdxReset \/ Report \/ RecountReset \/ ClearCounts \/ ClearSeqs \/ PriReset
-----------------------------------------------------------------------------
Next == MonitorLcore \/ CdfLcore

Spec == Init /\ [][Next]_vars

\* The lcores never at work at the same time: what is left of the report.
TurnsSpec == Init /\ [][Next /\ (mpc' = "idle" \/ cpc' = "sleep")]_vars

\* The CDF lcore sleeps for an interval and then works, over and over.
FairSpec == Spec /\ WF_vars(CdfLcore)
-----------------------------------------------------------------------------
(* Correctness.                                                            *)

\* Type invariant; the retransmission counters never exceed the copies.
TypeOK ==
  /\ turn \in [Flows -> 0 .. 2 * MaxReqs] /\ again \in 0 .. MaxAgain
  /\ mflow \in Flows \cup {NoFlow} /\ (mpc # "idle" => mflow \in Flows)
  /\ mload \in Nat /\ mhigh \in BOOLEAN
  /\ {idx, idx_hy} \subseteq 0 .. MaxSamples
  /\ Maxseq \in [Flows -> [req : 0 .. MaxReqs, len : {0, 1}, rsp : 0 .. MaxReqs + 1]]
  /\ req_out_if \in [Flows -> 0 .. MaxReqs]
  /\ req_hy_count \in [Flows -> [count : {0, 1}, pri : {-1, 0, 1}]]
  /\ {time, time_hy} \subseteq [Indices -> Sample \cup {NoSample}]
  /\ {pri, pri_hy} \subseteq [Indices -> {0, 1}]
  /\ {req_recount, rsp_recount} \subseteq 0 .. MaxAgain
  /\ {idx_pri_high, idx_pri_low, conn_active_hy, conn, ph_size, pl_size, high, low} \subseteq Nat
  /\ CAT_BUFF \in Nat /\ thre \in Nat /\ size \in [Arrays -> Nat] /\ outside \in BOOLEAN
  /\ active \subseteq Flows /\ recorded \subseteq Sample
  /\ reported \in [Sample -> Nat]

Buffered == {time[i] : i \in {j \in 0 .. idx_hy - 1 : mpc = "time_write" => j # mload}}
InCopy == IF cpc \in {"copy_pri", "idx_reset", "report"}
          THEN {time_hy[i] : i \in 0 .. idx - 1} ELSE {}

\* A sample never combines a response with another request's time stamp,
\* although clear() wipes the sequence numbers under the monitor's hands and
\* leaves the time stamps of the interval before in place.
SamplesPairOwnRequest == \A s \in recorded : s.from = s.req

\* Unless a sample's index was fetched and stored across the copy of an
\* interval's samples, or clear() came between the window test and the
\* duplicate test of a response captured twice, or the arrays were left, each
\* sample recorded is in the buffer or in the copy or reported, in one interval
\* and once: recording beside the percentiles or beside clear() does no harm.
ReportedOnce ==
  ~crossed /\ ~outside => \A s \in Sample :
    /\ s \in recorded <=> (s \in Buffered \cup InCopy \/ reported[s] > 0)
    /\ reported[s] <= 1 /\ ~(reported[s] = 1 /\ s \in Buffered \cup InCopy)

\* The sample arrays grow one sample late, but never later: whatever was
\* loaded before a reset and is used after it, and in the middle of a growth
\* too, there are no more samples than one too many for any of the four.  The
\* report asks for no sample that was not there to copy, and, unless something is
\* recorded or grows beside it, for one too many at most; and if that one was
\* not there, the counters that size the two priority arrays agree with
\* the labels that fill them.
ReportInBounds ==
  /\ \A a \in Arrays : idx_hy <= size[a] + 1
  /\ cpc \in {"copy_time", "copy_pri", "idx_reset"} => idx <= idx_hy
  /\ ~overlap =>
       /\ cpc \in {"report", "recount_reset", "clear_count"} => idx <= size["time_hy"] + 1
       /\ ~outside => high <= ph_size /\ low <= pl_size

\* What the monitor records is reported by a later interval, whatever the
\* monitor does meanwhile, unless an index crossed the copy or the arrays
\* were left.
EverySampleReported ==
  \A s \in {x \in Sample : x.from = x.req} : s \in recorded ~> (reported[s] > 0 \/ crossed \/ outside)

\* README.md: the monitor displays the "concurrency".  Then the connections of
\* an interval are the clients that sent a request in it.
ConnectionsCounted == cpc = "conn_reset" => conn = Cardinality(active)
=============================================================================
