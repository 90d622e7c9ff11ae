---------------------------- MODULE ResponseTime ----------------------------
(***************************************************************************)
(* How HCMonitor turns captured requests and responses into latency        *)
(* samples: response_time_process (monitor.c) run by the MONITOR lcore on  *)
(* the entries of the metadata queues, over TCP connections.               *)
(*                                                                         *)
(* The environment is a set of clients, each on one (address, port) key,   *)
(* and their server.  A request of a connection has the sequence number    *)
(* that follows the last one, its response acknowledges it.  Either may be *)
(* sent again.  Every packet is captured in the order sent, on a queue     *)
(* chosen by RSS from its direction, and may be lost on the way (a full    *)
(* ring); each queue is a FIFO (PacketFifo), their relative order is not   *)
(* kept.  Sequence numbers are 32-bit words, here modulo SeqMod.           *)
(*                                                                         *)
(* A time stamp is a reading of the clock `ts', which may stand still      *)
(* between two packets; a latency is a difference of two.  The number      *)
(* `req' of a packet's request is a ghost: the code never sees it.         *)
(***************************************************************************)
EXTENDS Integers, Sequences, FiniteSets, FiniteSetsExt

CONSTANTS
  Flows,                \* keys: clients that may connect
  Split,                \* flows whose responses RSS sends to another queue
  REQ_HASH_ENTRIES,     \* keys the request hash has room for
  CAT_BUFF,             \* samples the latency buffers start with
  rsp_pri,              \* conf->rsp_pri: take the priority from responses
  Priorities,           \* priority labels in use: a subset of {0, 1}, 1 is high
  SeqMod,               \* sequence numbers are taken modulo this
  FirstSeqs,            \* initial sequence numbers connections choose from
  Payload,              \* payload length of every request
  Window,               \* requests a client sends before it waits for a response
  MaxReqs, MaxTime,     \* bounds: requests of a flow, clock
  MaxAgain, MaxLost, MaxReconnect   \* bounds: copies, losses, reconnections

ASSUME ResponseAssumption ==
  /\ IsFiniteSet(Flows) /\ Split \subseteq Flows
  /\ REQ_HASH_ENTRIES \in Nat \ {0} /\ CAT_BUFF \in Nat \ {0}
  /\ rsp_pri \in BOOLEAN /\ Priorities \subseteq {0, 1}
  /\ SeqMod \in Nat \ {0} /\ FirstSeqs \subseteq 0 .. SeqMod - 1
  /\ Payload \in 1 .. SeqMod - 1
  /\ MaxTime \in Nat \ {0}
  /\ {Window, MaxReqs, MaxAgain, MaxLost, MaxReconnect} \subseteq Nat

VARIABLES
  ts,                   \* the clock
  net,                  \* captured packets that wait, per queue
  reqs,                 \* per flow, the sequence numbers of its requests so far
  nextSeq,              \* per flow, the next request's sequence number
  replied,              \* per flow, the number of the last request answered
  again, lost, reconnects,   \* copies sent, packets lost, new connections
  slot,                 \* request hash: position of each key it holds
  Maxseq,               \* per position: [req_sent_seq, payload_len, rsp_sent_seq]
  req_out_if,           \* per position: time stamp of the request
  req_hy_count,         \* per position: [count, pri]
  ack_time, thre,       \* samples of this interval, size of their buffer
  pkt_req, pkt_rep, miss_rep, req_recount, rsp_recount,   \* statistics
  conn_active_hy, idx_pri_high, idx_pri_low, recv_pri_high, recv_pri_low,
  seen                  \* ghost: time stamp of the first copy of each request

clientVars == <<ts, reqs, nextSeq, replied, again, reconnects>>
tableVars == <<slot, Maxseq, req_out_if>>
requestStats == <<pkt_req, req_recount, conn_active_hy, seen>>
responseStats == <<pkt_rep, miss_rep, rsp_recount, ack_time, thre, idx_pri_high, idx_pri_low>>
priStats == <<recv_pri_high, recv_pri_low, req_hy_count>>
monitorVars == <<tableVars, requestStats, responseStats, priStats>>
vars == <<clientVars, net, lost, monitorVars>>

Rings == {0, 1}
Words == 0 .. SeqMod - 1
Plus(a, b) == (a + b) % SeqMod
Minus(a, b) == (a - b) % SeqMod

\* rte_hash_add_key returns -ENOSPC when the table is full; the code goes on
\* with that index, a place in front of the arrays all such keys share.
ENOSPC == -28
Positions == 0 .. REQ_HASH_ENTRIES - 1
Places == Positions \cup {ENOSPC}
Never == -1

Init ==
  /\ ts = 1
  /\ net = [r \in Rings |-> <<>>]
  /\ reqs = [f \in Flows |-> <<>>]
  /\ nextSeq \in [Flows -> FirstSeqs]
  /\ replied = [f \in Flows |-> 0]
  /\ again = 0 /\ lost = 0 /\ reconnects = 0
  /\ slot = <<>>
  /\ Maxseq = [i \in Places |-> [req_sent_seq |-> 0, payload_len |-> 0, rsp_sent_seq |-> 0]]
  /\ req_out_if = [i \in Places |-> 0]
  /\ req_hy_count = [i \in Places |-> [count |-> 0, pri |-> -1]]
  /\ ack_time = <<>> /\ thre = CAT_BUFF
  /\ pkt_req = 0 /\ pkt_rep = 0 /\ miss_rep = 0 /\ req_recount = 0 /\ rsp_recount = 0
  /\ conn_active_hy = 0
  /\ idx_pri_high = 0 /\ idx_pri_low = 0 /\ recv_pri_high = 0 /\ recv_pri_low = 0
  /\ seen = [f \in Flows |-> [k \in 1 .. MaxReqs |-> Never]]
-----------------------------------------------------------------------------
(* Clients, server and network.                                            *)

RingOf(type, f) == IF type = "M_RSP" /\ f \in Split THEN 1 ELSE 0

\* A packet about request k of flow f is captured and stamped.  Only one
\* direction's priority label is ever read.
Capture(type, f, k, seq) ==
  \E pri \in IF rsp_pri = (type = "M_RSP") THEN Priorities ELSE {0} :
    net' = [net EXCEPT ![RingOf(type, f)] = Append(@,
              [type |-> type, flow |-> f, sent_seq |-> seq, total_len |-> Payload,
               ts |-> ts, pri |-> pri, req |-> k])]

Tick ==
  /\ ts < MaxTime
  /\ ts' = ts + 1
  /\ UNCHANGED <<reqs, nextSeq, replied, again, reconnects, net, lost, monitorVars>>

Request(f) ==
  /\ Len(reqs[f]) < MaxReqs /\ Len(reqs[f]) - replied[f] < Window
  /\ Capture("M_REQ", f, Len(reqs[f]) + 1, nextSeq[f])
  /\ reqs' = [reqs EXCEPT ![f] = Append(@, nextSeq[f])]
  /\ nextSeq' = [nextSeq EXCEPT ![f] = Plus(@, Payload)]
  /\ UNCHANGED <<ts, replied, again, reconnects, lost, monitorVars>>

RequestAgain(f) ==
  /\ again < MaxAgain
  /\ \E k \in replied[f] + 1 .. Len(reqs[f]) : Capture("M_REQ", f, k, reqs[f][k])
  /\ again' = again + 1
  /\ UNCHANGED <<ts, reqs, nextSeq, replied, reconnects, lost, monitorVars>>

Reply(f) ==
  /\ replied[f] < Len(reqs[f])
  /\ Capture("M_RSP", f, replied[f] + 1, Plus(reqs[f][replied[f] + 1], Payload))
  /\ replied' = [replied EXCEPT ![f] = @ + 1]
  /\ UNCHANGED <<ts, reqs, nextSeq, again, reconnects, lost, monitorVars>>

\* The last response again, before the client has gone on.
ReplyAgain(f) ==
  /\ again < MaxAgain
  /\ replied[f] > 0 /\ replied[f] = Len(reqs[f])
  /\ Capture("M_RSP", f, replied[f], Plus(reqs[f][replied[f]], Payload))
  /\ again' = again + 1
  /\ UNCHANGED <<ts, reqs, nextSeq, replied, reconnects, lost, monitorVars>>

\* The client opens a new connection from the same port.
Reconnect(f) ==
  /\ reconnects < MaxReconnect
  /\ reqs[f] # <<>> /\ replied[f] = Len(reqs[f])
  /\ \E isn \in FirstSeqs : nextSeq' = [nextSeq EXCEPT ![f] = isn]
  /\ reconnects' = reconnects + 1
  /\ UNCHANGED <<ts, reqs, replied, again, net, lost, monitorVars>>

Take(r) == net[r] # <<>> /\ net' = [net EXCEPT ![r] = Tail(@)]

Lose(r) ==
  /\ lost < MaxLost
  /\ Take(r)
  /\ lost' = lost + 1
  /\ UNCHANGED <<clientVars, monitorVars>>

Environment ==
  \/ Tick
  \/ \E f \in Flows : Request(f) \/ RequestAgain(f) \/ Reply(f) \/ ReplyAgain(f) \/ Reconnect(f)
  \/ \E r \in Rings : Lose(r)
-----------------------------------------------------------------------------
(* response_time_process on a request.                                     *)

FreePosition(used) == Min(Positions \ used)

\* rte_hash_add_key: the position of a key, a free one for a new key.
AddKey(f, pos) ==
  IF f \in DOMAIN slot THEN pos = slot[f] /\ UNCHANGED slot
  ELSE IF Cardinality(DOMAIN slot) = REQ_HASH_ENTRIES
       THEN pos = ENOSPC /\ UNCHANGED slot
       ELSE /\ pos = FreePosition({slot[g] : g \in DOMAIN slot})
            /\ slot' = [g \in DOMAIN slot \cup {f} |-> IF g = f THEN pos ELSE slot[g]]

\* Mutant: wants a gap after the last request's payload.
IsNewAfterGap(pos, d) == Maxseq[pos].req_sent_seq + Maxseq[pos].payload_len < d.sent_seq

\* A sequence number above the last one is a new request, any other a copy.
IsNew(pos, d) == Maxseq[pos].req_sent_seq < d.sent_seq

NewRequest(pos, d) ==
  /\ IsNew(pos, d)
  /\ Maxseq' = [Maxseq EXCEPT ![pos].req_sent_seq = d.sent_seq,
                              ![pos].payload_len = d.total_len]
  /\ req_out_if' = [req_out_if EXCEPT ![pos] = d.ts]
  /\ conn_active_hy' = conn_active_hy + (IF req_hy_count[pos].count = 0 THEN 1 ELSE 0)
  /\ UNCHANGED req_recount

RepeatedRequestRestamps(pos, d) ==      \* mutant: the copy's time stamp counts
  /\ ~IsNew(pos, d)
  /\ req_recount' = req_recount + 1
  /\ req_out_if' = [req_out_if EXCEPT ![pos] = d.ts]
  /\ UNCHANGED <<Maxseq, conn_active_hy>>

RepeatedRequest(pos, d) ==
  /\ ~IsNew(pos, d)
  /\ req_recount' = req_recount + 1
  /\ UNCHANGED <<Maxseq, req_out_if, conn_active_hy>>

OnRequest(d) ==
  /\ d.type = "M_REQ"
  /\ pkt_req' = pkt_req + 1
  /\ \E pos \in Places :
       LET counted == IF IsNew(pos, d) THEN [req_hy_count EXCEPT ![pos].count = 1] ELSE req_hy_count
       IN /\ AddKey(d.flow, pos)
          /\ NewRequest(pos, d) \/ RepeatedRequest(pos, d)
          /\ IF rsp_pri
             THEN req_hy_count' = counted /\ UNCHANGED <<recv_pri_high, recv_pri_low>>
             ELSE /\ recv_pri_high' = recv_pri_high + d.pri
                  /\ recv_pri_low' = recv_pri_low + (1 - d.pri)
                  /\ req_hy_count' = [counted EXCEPT ![pos].pri = d.pri]
  /\ seen' = [seen EXCEPT ![d.flow][d.req] = IF @ = Never THEN d.ts ELSE @]
  /\ UNCHANGED responseStats
-----------------------------------------------------------------------------
(* response_time_process on a response.                                    *)

InWindowAny(pos, d) == TRUE             \* mutant: no test
InWindowOpen(pos, d) ==                 \* mutant: off by one
  Minus(d.sent_seq, Maxseq[pos].req_sent_seq) < Maxseq[pos].payload_len

\* The acknowledged number lies in the last request's payload (uint32_t).
InWindow(pos, d) ==
  Minus(d.sent_seq, Maxseq[pos].req_sent_seq) <= Maxseq[pos].payload_len

IsNewResponseOrSame(pos, d) == d.sent_seq >= Maxseq[pos].rsp_sent_seq   \* mutant
IsNewResponse(pos, d) == d.sent_seq > Maxseq[pos].rsp_sent_seq

GrownLate(idx_hy) == IF idx_hy > thre + 1 THEN 2 * idx_hy ELSE thre     \* mutant
Grown(idx_hy) == IF idx_hy > thre THEN 2 * idx_hy ELSE thre

Latency(pos, d) == d.ts - req_out_if[pos]

\* No entry, or not a response to the last request: -2, a miss.
MissedResponse(d) ==
  /\ d.flow \in DOMAIN slot => ~InWindow(slot[d.flow], d)
  /\ miss_rep' = miss_rep + 1
  /\ UNCHANGED <<rsp_recount, ack_time, thre, idx_pri_high, idx_pri_low, Maxseq, priStats>>

\* Not later than its request: neither a sample nor a miss.
UntimedResponse(d) ==
  /\ d.flow \in DOMAIN slot /\ InWindow(slot[d.flow], d)
  /\ Latency(slot[d.flow], d) <= 0
  /\ UNCHANGED <<miss_rep, rsp_recount, ack_time, thre, idx_pri_high, idx_pri_low, Maxseq, priStats>>

TimedResponse(d) ==
  LET pos == slot[d.flow]
      pri == IF (IF rsp_pri THEN d.pri ELSE req_hy_count[pos].pri) = 0 THEN 0 ELSE 1
  IN
  /\ d.flow \in DOMAIN slot /\ InWindow(pos, d) /\ Latency(pos, d) > 0
  /\ thre' = Grown(Len(ack_time))
  /\ IF rsp_pri
     THEN /\ recv_pri_high' = recv_pri_high + d.pri
          /\ recv_pri_low' = recv_pri_low + (1 - d.pri)
          /\ req_hy_count' = [req_hy_count EXCEPT ![pos].pri = d.pri]
     ELSE UNCHANGED priStats
  /\ IF IsNewResponse(pos, d)
     THEN /\ Maxseq' = [Maxseq EXCEPT ![pos].rsp_sent_seq = d.sent_seq]
          /\ idx_pri_high' = idx_pri_high + pri
          /\ idx_pri_low' = idx_pri_low + (1 - pri)
          /\ ack_time' = Append(ack_time, [time |-> Latency(pos, d), pri |-> pri,
                                           flow |-> d.flow, req |-> d.req, ts |-> d.ts])
          /\ UNCHANGED <<miss_rep, rsp_recount>>
     ELSE /\ rsp_recount' = rsp_recount + 1
          /\ miss_rep' = miss_rep + 1
          /\ UNCHANGED <<Maxseq, ack_time, idx_pri_high, idx_pri_low>>

OnResponseKnown(d) ==                   \* mutant: counts after the look-up
  /\ d.type = "M_RSP"
  /\ pkt_rep' = pkt_rep + (IF d.flow \in DOMAIN slot THEN 1 ELSE 0)
  /\ MissedResponse(d) \/ UntimedResponse(d) \/ TimedResponse(d)
  /\ UNCHANGED <<slot, req_out_if, requestStats>>

OnResponse(d) ==
  /\ d.type = "M_RSP"
  /\ pkt_rep' = pkt_rep + 1
  /\ MissedResponse(d) \/ UntimedResponse(d) \/ TimedResponse(d)
  /\ UNCHANGED <<slot, req_out_if, requestStats>>

\* The MONITOR lcore takes the oldest entry of some queue.
Monitor(r) ==
  /\ Take(r)
  /\ OnRequest(Head(net[r])) \/ OnResponse(Head(net[r]))
  /\ UNCHANGED <<clientVars, lost>>
-----------------------------------------------------------------------------
Next == Environment \/ \E r \in Rings : Monitor(r)

Spec == Init /\ [][Next]_vars
-----------------------------------------------------------------------------
(* Correctness.                                                            *)

\* Type invariant.  The sample buffers grow when they are overfull, not when
\* they are full: the code writes at most one sample beyond them.
TypeOK ==
  /\ ts \in 1 .. MaxTime
  /\ \A r \in Rings : \A i \in DOMAIN net[r] :
       net[r][i] \in [type : {"M_REQ", "M_RSP"}, flow : Flows, sent_seq : Words,
                      total_len : {Payload}, ts : 1 .. MaxTime, pri : {0, 1},
                      req : 1 .. MaxReqs]
  /\ \A f \in Flows : Len(reqs[f]) <= MaxReqs /\ \A k \in DOMAIN reqs[f] : reqs[f][k] \in Words
  /\ nextSeq \in [Flows -> Words]
  /\ replied \in [Flows -> 0 .. MaxReqs]
  /\ slot \in [DOMAIN slot -> Positions] /\ DOMAIN slot \subseteq Flows
  /\ Maxseq \in [Places -> [req_sent_seq : Words, payload_len : {0, Payload}, rsp_sent_seq : Words]]
  /\ req_out_if \in [Places -> 0 .. MaxTime]
  /\ req_hy_count \in [Places -> [count : {0, 1}, pri : {-1, 0, 1}]]
  /\ thre \in Nat /\ Len(ack_time) <= thre + 1
  /\ \A i \in DOMAIN ack_time : ack_time[i].time \in 1 .. MaxTime
  /\ {again, lost, reconnects, pkt_req, pkt_rep, miss_rep, req_recount, rsp_recount,
      conn_active_hy, idx_pri_high, idx_pri_low, recv_pri_high, recv_pri_low} \subseteq Nat
  /\ seen \in [Flows -> [1 .. MaxReqs -> {Never} \cup 1 .. MaxTime]]

Samples == {ack_time[i] : i \in DOMAIN ack_time}

\* README.md: "Accurate measurement of per-request latency".  A sample is the
\* time between the first capture of a request and that of its own response.
\* (Claimed for clients that wait for each response; a new connection from the
\* same port may reuse the numbers of an answer still on its way.)
SamplesAccurate ==
  Window = 1 /\ reconnects = 0 =>
    \A s \in Samples : seen[s.flow][s.req] # Never /\ s.time = s.ts - seen[s.flow][s.req]

\* A response that is captured twice gives one sample, not two.
OneSamplePerRequest ==
  \A i, j \in DOMAIN ack_time :
    ack_time[i].flow = ack_time[j].flow /\ ack_time[i].req = ack_time[j].req => i = j

\* The counters tell the same story as the samples: each sample has one
\* priority, each response is sampled, missed or untimed, and none is two.
CountersAgree ==
  /\ idx_pri_high + idx_pri_low = Len(ack_time)
  /\ idx_pri_high = Cardinality({i \in DOMAIN ack_time : ack_time[i].pri = 1})
  /\ recv_pri_high + recv_pri_low = IF rsp_pri THEN Len(ack_time) + rsp_recount ELSE pkt_req
  /\ Len(ack_time) + miss_rep <= pkt_rep
  /\ rsp_recount <= miss_rep
  /\ req_recount <= pkt_req

\* With nothing lost and both directions of a flow on one queue, the window
\* test rejects no response: what is counted as missed was a second copy.
NothingMissed == lost = 0 /\ Split = {} => miss_rep = rsp_recount

\* What is counted as a retransmission was one: at most as many as there were
\* copies (cdf.txt prints them as "req_retrans" and "rsp_retrans").
NoFalseRetrans == req_recount + rsp_recount <= again
=============================================================================
