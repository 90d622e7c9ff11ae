------------------------------ MODULE Parsing -------------------------------
(***************************************************************************)
(* From a packet to a sample in every configuration: after the start-up    *)
(* (StartUp) a process lcore parses each packet into the next slot of a    *)
(* metadata queue (monitor.c packet_process, key_extract, burst_count;     *)
(* http_parse.c), and the MONITOR lcore runs response_time_process         *)
(* (ResponseTime) on the slots in order.                                   *)
(*                                                                         *)
(* The slots are used again and again, and a parser writes only some       *)
(* fields: the others keep what an earlier packet left, at first the zeros *)
(* of fresh pages.  How much of the slot is the hash key depends on        *)
(* enableHTTP alone, what is there on the build (USE_HTTP).                *)
(*                                                                         *)
(* Clients on one port of two addresses send requests of one or two        *)
(* segments and wait for responses of one or two.  Packets are captured in *)
(* the order sent, on one ring, and parsed at once; the queue is never     *)
(* full (its growth is PrQueue's subject).  A client's acknowledgements    *)
(* and the server's own numbers, which only a misread slot carries, are 1. *)
(***************************************************************************)
EXTENDS StartUp, Sequences, Functions

CONSTANTS
  QUESIZE,
  TicksPerSec,          \* ticks of the clock in a second
  rsp_pri,              \* conf->rsp_pri
  Requests, Responses,  \* what the payload of the first segment begins with
  SeqMod,               \* sequence numbers are taken modulo this
  REQ_HASH_ENTRIES,     \* keys the request hash has room for
  MaxReqs, MaxTime      \* bounds: exchanges, clock

\* data->type and data->status.
M_REQ == 1
M_RSP == 2
GET == 1
Method == [GET |-> GET, POST |-> 2, HEAD |-> 3, PUT |-> 4, DELETE |-> 5, TRACE |-> 6, PATCH |-> -1]

\* No request begins like a response, and no later segment like either.
ASSUME ParsingAssumption ==
  /\ {QUESIZE, TicksPerSec, SeqMod, REQ_HASH_ENTRIES, MaxReqs, MaxTime} \subseteq Nat \ {0}
  /\ rsp_pri \in BOOLEAN
  /\ Requests # {} /\ Responses # {}
  /\ Requests \cap (Responses \cup {"200", "404", "text"}) = {}
  /\ Responses \cap (DOMAIN Method \cup {"text", "none"}) = {}

VARIABLES
  ts,                   \* the clock
  exchange,             \* requests so far, each with its response
  array, occupy, deque, \* PrQue[0]
  \* what response_time_process works on
  slot, Maxseq, req_out_if, req_hy_count, ack_time, thre, pkt_req, pkt_rep, miss_rep,
  req_recount, rsp_recount, conn_active_hy, idx_pri_high, idx_pri_low, recv_pri_high,
  recv_pri_low, seen

trafficVars == <<ts, exchange>>
queueVars == <<array, occupy>>
monitorVars == <<slot, Maxseq, req_out_if, req_hy_count, ack_time, thre, pkt_req, pkt_rep,
                 miss_rep, req_recount, rsp_recount, conn_active_hy, idx_pri_high,
                 idx_pri_low, recv_pri_high, recv_pri_low, seen>>
vars == <<startVars, trafficVars, queueVars, deque, monitorVars>>

Clients == {[ip |-> 1, port |-> 1], [ip |-> 2, port |-> 1]}
Server == [ip |-> 0, port |-> 0]
Sec(t) == t \div TicksPerSec

Fresh == [type |-> 0, status |-> 0, ip |-> 0, port |-> 0, kstatus |-> 0, sent_seq |-> 0,
          total_len |-> 0, ts |-> 0, pri |-> 0, req |-> 0]

\* The bytes rte_hash takes for the key.
Key(d) ==
  IF USE_HTTP
  THEN IF key_len = "http_tuple" THEN <<d.kstatus, d.port, d.ip>> ELSE <<d.kstatus, d.port>>
  ELSE IF key_len = "http_tuple" THEN <<d.ip, d.port, Sec(d.ts)>> ELSE <<d.ip, d.port>>

Ends == Clients \cup {Server}
Addresses == {e.ip : e \in Ends}
Numbers == {e.port : e \in Ends}
Statuses == {-1, 0, GET} \cup {Method[b] : b \in Requests \cap DOMAIN Method}
Keys ==
  (Addresses \X Numbers) \cup (Addresses \X Numbers \X (Sec(0) .. Sec(MaxTime)))
    \cup (Statuses \X Numbers \X Addresses) \cup (Statuses \X Numbers)

\* The measurement, without its own clients and network.
RT == INSTANCE ResponseTime WITH
  Flows <- Keys, Split <- {}, CAT_BUFF <- MaxReqs, Priorities <- {0, 1},
  FirstSeqs <- {1}, Payload <- 1, Window <- 1, MaxAgain <- 0, MaxLost <- 0,
  MaxReconnect <- 0, ts <- 1, net <- [r \in {0, 1} |-> <<>>], reqs <- [f \in Keys |-> <<>>],
  nextSeq <- [f \in Keys |-> 1], replied <- [f \in Keys |-> 0], again <- 0, lost <- 0, reconnects <- 0

Init ==
  /\ StartInit
  /\ ts = 1 /\ exchange = <<>>
  /\ array = [i \in 0 .. QUESIZE - 1 |-> Fresh] /\ occupy = 0 /\ deque = 0
  /\ RT!Init
-----------------------------------------------------------------------------
(* The parsers: the slot after them, and whether it is queued.             *)

ClientOfSender(type, p) == p.src        \* mutant: a response by its sender too

\* A request is known by its sender, a response by its receiver.
ClientOf(type, p) == IF type = M_REQ THEN p.src ELSE p.dst

Fill(d, type, p) ==
  LET end == ClientOf(type, p) IN
  [d EXCEPT !.type = type, !.ip = end.ip, !.port = end.port, !.total_len = p.len, !.ts = ts,
            !.sent_seq = IF type = M_REQ THEN p.sent_seq ELSE p.recv_ack, !.req = p.req]

Label(p) == IF p.begins \in Requests THEN 0 ELSE IF p.begins \in Responses THEN 1 ELSE 9

key_extract(d, p) ==
  IF Label(p) \in conf.req_label THEN [la_key |-> 1, data |-> [Fill(d, M_REQ, p) EXCEPT !.pri = p.pri]]
  ELSE IF Label(p) \in conf.resp_label THEN [la_key |-> 1, data |-> [Fill(d, M_RSP, p) EXCEPT !.pri = p.pri]]
  ELSE [la_key |-> 0, data |-> d]

\* Queues everything, and never writes the type.
burst_count(d, p) ==
  [la_key |-> 1, data |-> [d EXCEPT !.ip = IF Label(p) \in conf.req_label THEN p.src.ip ELSE @]]

\* Mutant: the status is left over like the type.
http_status_stale(d, p) ==
  IF p.begins \in DOMAIN Method THEN Method[p.begins]
  ELSE IF p.begins \in {"200", "404"} THEN GET ELSE d.status

http_status(d, p) ==
  IF p.begins \in DOMAIN Method THEN Method[p.begins]
  ELSE IF p.begins \in {"200", "404"} THEN GET ELSE -1

\* Whatever begins neither a request nor a good response is of the type of
\* the slot's last packet.
http_type(d, p) ==
  IF p.begins \in DOMAIN Method THEN M_REQ ELSE IF p.begins \in {"200", "404"} THEN M_RSP ELSE d.type

http_parse(d, p) ==
  LET type == http_type(d, p)
      typed == [d EXCEPT !.status = http_status(d, p), !.type = type]
  IN IF type \notin {M_REQ, M_RSP} THEN [la_key |-> 0, data |-> typed]
     ELSE [la_key |-> 1,
           data |-> [Fill(typed, type, p) EXCEPT !.kstatus = typed.status,
                                                 !.pri = IF type = M_REQ THEN p.pri ELSE @]]

https_parse(d, p) ==
  IF p.dst = Server THEN [la_key |-> 1, data |-> [Fill(d, M_REQ, p) EXCEPT !.pri = p.pri]]
  ELSE [la_key |-> 1, data |-> [Fill(d, M_RSP, p) EXCEPT !.kstatus = d.status]]

Parser == IF USE_HTTP THEN IF conf.enable_https THEN "https" ELSE "http"
          ELSE IF conf.enable_mcc THEN "mcc" ELSE "label"

NextSlotUnbounded(i) == i + 1           \* mutant: does not wrap
NextSlot(i) == (i + 1) % QUESIZE

packet_process(p) ==
  LET d == array[occupy]
      parsed == CASE Parser = "https" -> https_parse(d, p)
                  [] Parser = "http" -> http_parse(d, p)
                  [] Parser = "mcc" -> burst_count(d, p)
                  [] Parser = "label" -> key_extract(d, p)
  IN /\ NextSlot(occupy) # deque
     /\ array' = [array EXCEPT ![occupy] = parsed.data]
     /\ occupy' = IF parsed.la_key > 0 THEN NextSlot(occupy) ELSE occupy
-----------------------------------------------------------------------------
(* Clients and server.  Bound: traffic flows in one deployment, one port   *)
(* whose link is up at once and all lcores, under the settings the build   *)
(* looks at; what differs is what is parsed.                               *)

Running ==
  /\ Started /\ nb_ports = 1 /\ l2fwd_enabled_port_mask = {0} /\ link = {0} /\ waited = 0
  /\ conf.rx_que = 1 /\ Layout(1)!TSTAMP_LCORE \in lcores
  /\ ~(IF USE_HTTP THEN conf.enable_mcc ELSE conf.enable_https)

Open(n) == exchange[n].status = "none"
Of(c) == {n \in DOMAIN exchange : exchange[n].client = c}
Latest == {Max(Of(c)) : c \in {e.client : e \in Range(exchange)}}
End(n) == exchange[n].seq + 1 + exchange[n].segments

\* Their priority labels: every other exchange is of high priority.
Priority(n) == n % 2

Up(n, seq, begins) ==
  [src |-> exchange'[n].client, dst |-> Server, begins |-> begins, sent_seq |-> seq,
   recv_ack |-> 1, len |-> IF begins = "text" THEN 1 ELSE 2, pri |-> Priority(n), req |-> n]
Down(n, begins) ==
  [src |-> Server, dst |-> exchange[n].client, begins |-> begins, sent_seq |-> 1,
   recv_ack |-> End(n), len |-> 2, pri |-> Priority(n), req |-> n]

\* Only the HTTP parser looks at how a first segment begins.
Beginnings(all) == IF Parser = "http" THEN all ELSE {CHOOSE b \in all : TRUE}

Tick == ts < MaxTime /\ ts' = ts + 1 /\ UNCHANGED <<exchange, queueVars>>

Ask(c) ==
  /\ Len(exchange) < MaxReqs /\ \A n \in Of(c) : ~Open(n)
  /\ \E begins \in Beginnings(Requests) :
       LET seq == IF Of(c) = {} THEN 1 ELSE End(Max(Of(c))) IN
       /\ exchange' = Append(exchange,
            [client |-> c, begins |-> begins, seq |-> seq, asked |-> ts, last |-> ts, segments |-> 1,
             status |-> "none", answered |-> 0, rest |-> FALSE])
       /\ packet_process(Up(Len(exchange) + 1, seq, begins))
  /\ UNCHANGED ts

AskMore(n) ==
  /\ Open(n) /\ exchange[n].segments = 1
  /\ exchange' = [exchange EXCEPT ![n].segments = 2, ![n].last = ts]
  /\ packet_process(Up(n, End(n), "text"))
  /\ UNCHANGED ts

Answer(n) ==
  /\ Open(n)
  /\ \E begins \in Beginnings(Responses) :
       /\ exchange' = [exchange EXCEPT ![n].status = begins, ![n].answered = ts]
       /\ packet_process(Down(n, begins))
  /\ UNCHANGED ts

AnswerMore(n) ==
  /\ ~Open(n) /\ ~exchange[n].rest
  /\ exchange' = [exchange EXCEPT ![n].rest = TRUE]
  /\ packet_process(Down(n, "text"))
  /\ UNCHANGED ts

Traffic ==
  /\ Running
  /\ Tick \/ (\E c \in Clients : Ask(c)) \/ (\E n \in Latest : AskMore(n) \/ Answer(n) \/ AnswerMore(n))
  /\ UNCHANGED <<startVars, deque, monitorVars>>

\* The MONITOR lcore: response_time_process does nothing on other types.
Monitor ==
  LET d == array[deque]
      entry == [type |-> IF d.type = M_REQ THEN "M_REQ" ELSE "M_RSP", flow |-> Key(d),
                sent_seq |-> d.sent_seq, total_len |-> d.total_len, ts |-> d.ts, pri |-> d.pri,
                req |-> d.req]
  IN /\ occupy # deque
     /\ IF d.type \in {M_REQ, M_RSP} THEN RT!OnRequest(entry) \/ RT!OnResponse(entry)
        ELSE UNCHANGED monitorVars
     /\ deque' = NextSlot(deque)
     /\ UNCHANGED <<startVars, trafficVars, queueVars>>

Next ==
  \/ StartStep /\ UNCHANGED <<trafficVars, queueVars, deque, monitorVars>>
  \/ Traffic
  \/ Monitor

Spec == Init /\ [][Next]_vars
-----------------------------------------------------------------------------
(* Correctness.                                                            *)

\* Type invariant.
TypeOK ==
  /\ pc \in {"config", "args", "pools", "ports", "alloc", "look", "round", "launched", "exit"}
  /\ conf \in Settings \cup {initConfig} /\ key_len \in {"none", "http_tuple", "ipv4_2tuple"}
  /\ portid \in 0 .. MaxPorts /\ count \in 0 .. MAX_CHECK_TIME + 1
  /\ {occupy, deque} \subseteq DOMAIN array
  /\ \A i \in DOMAIN array : array[i].type \in {0, M_REQ, M_RSP} /\ Key(array[i]) \in Keys
  /\ DOMAIN slot \subseteq Keys

Samples == Range(ack_time)

\* The hash key tells the clients apart: the build's tuple is the one whose
\* size the key was given.
Keyed == key_len = IF USE_HTTP THEN "http_tuple" ELSE "ipv4_2tuple"

\* "Accurate measurement of per-request latency", whatever earlier packets
\* left in the slot.  By labels a sample is the time since the request of its
\* response, with the priority of their exchange.  Of HTTP the same
\* holds of what is counted as GET, which are only GETs answered by 200 or 40x; of
\* HTTPS the time runs from the last segment of the request.  In the MCC mode
\* nothing is measured.
SamplesAsConfigured ==
  \A s \in Samples :
    LET own == exchange[s.req] IN
    /\ Parser # "mcc"
    /\ Parser = "label" => s.time = s.ts - own.asked /\ s.pri = Priority(s.req)
    /\ Parser = "http" /\ Keyed /\ s.flow[1] = GET =>
         own.begins = "GET" /\ own.status \in {"200", "404"} /\ s.time = s.ts - own.asked
    /\ Parser = "https" /\ Keyed => s.time = s.ts - own.last

\* What each mode promises to measure.  With enableHTTP but without the HTTP
\* parsers the key takes in the second: only then, an answer in a later one
\* is not found.
Measurable(e) ==
  /\ e.answered > e.last
  /\ CASE Parser = "label" -> /\ 1 \in conf.resp_label /\ e.segments = 1
                              /\ Keyed \/ Sec(e.asked) = Sec(e.answered)
       [] Parser = "http" -> Keyed /\ e.begins = "GET" /\ e.status \in {"200", "404"} /\ e.segments = 1
       [] Parser = "https" -> Keyed
       [] Parser = "mcc" -> FALSE

\* No answer to be measured is overlooked: when the MONITOR lcore has caught
\* up, each has its sample, whatever other packets went through its slots.
AnswersMeasured ==
  occupy = deque =>
    \A n \in DOMAIN exchange : Measurable(exchange[n]) => \E s \in Samples : s.req = n
=============================================================================
