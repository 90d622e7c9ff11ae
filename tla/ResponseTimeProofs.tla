------------------------- MODULE ResponseTimeProofs -------------------------
(***************************************************************************)
(* Proofs about response_time_process: the types of its tables, what its   *)
(* counters add up to, and when its samples and its retransmission counts  *)
(* are right, for every number of clients, requests, losses and copies.    *)
(***************************************************************************)
EXTENDS ResponseTime, DataLemmas, FiniteSetTheorems

(* Types.                                                                  *)

Packet ==
  [type : {"M_REQ", "M_RSP"}, flow : Flows, sent_seq : Words, total_len : {Payload},
   ts : 1 .. MaxTime, pri : {0, 1}, req : 1 .. MaxReqs]
Sample ==
  [time : 1 .. MaxTime, pri : {0, 1}, flow : Flows, req : 1 .. MaxReqs, ts : 1 .. MaxTime]

Waiting == UNION {{net[r][i] : i \in 1 .. Len(net[r])} : r \in Rings}

ClientTypes ==
  /\ ts \in 1 .. MaxTime
  /\ reqs \in [Flows -> Seq(Words)] /\ nextSeq \in [Flows -> Words]
  /\ replied \in [Flows -> Nat]
  /\ \A f \in Flows : replied[f] <= Len(reqs[f]) /\ Len(reqs[f]) <= MaxReqs
  /\ again \in Nat /\ lost \in Nat /\ reconnects \in Nat

\* The number that acknowledges request k of flow f.
Ack(f, k) == Plus(reqs[f][k], Payload)

\* A packet carries a number its flow has given out.
Numbered(d) ==
  /\ d.req <= Len(reqs[d.flow]) /\ d.ts <= ts
  /\ d.sent_seq = IF d.type = "M_REQ" THEN reqs[d.flow][d.req] ELSE Ack(d.flow, d.req)

PacketInv ==
  /\ net \in [Rings -> Seq(Packet)]
  /\ \A d \in Waiting : Numbered(d)

\* The request hash: no two keys at one position, none that does not fit.
SlotInv ==
  /\ slot \in [DOMAIN slot -> Positions] /\ DOMAIN slot \subseteq Flows
  /\ Cardinality(DOMAIN slot) <= REQ_HASH_ENTRIES
  /\ \A f, g \in DOMAIN slot : slot[f] = slot[g] => f = g

TableTypes ==
  /\ Maxseq \in [Places -> [req_sent_seq : Words, payload_len : {0, Payload}, rsp_sent_seq : Words]]
  /\ req_out_if \in [Places -> 0 .. MaxTime]
  /\ req_hy_count \in [Places -> [count : {0, 1}, pri : {-1, 0, 1}]]
  /\ seen \in [Flows -> [1 .. MaxReqs -> {Never} \cup 1 .. MaxTime]]

SampleTypes ==
  /\ thre \in Nat /\ Len(ack_time) <= thre + 1
  /\ ack_time \in Seq(Sample)

CounterTypes ==
  /\ pkt_req \in Nat /\ req_recount \in Nat /\ conn_active_hy \in Nat
  /\ pkt_rep \in Nat /\ miss_rep \in Nat /\ rsp_recount \in Nat
  /\ idx_pri_high \in Nat /\ idx_pri_low \in Nat
  /\ recv_pri_high \in Nat /\ recv_pri_low \in Nat

TypeInv == ClientTypes /\ PacketInv /\ SlotInv /\ TableTypes /\ SampleTypes /\ CounterTypes

\* The constants, as the proofs use them.
LEMMA Known ==
  /\ IsFiniteSet(Flows) /\ Split \subseteq Flows
  /\ REQ_HASH_ENTRIES \in Nat \ {0} /\ CAT_BUFF \in Nat \ {0}
  /\ rsp_pri \in BOOLEAN /\ Priorities \subseteq {0, 1}
  /\ SeqMod \in Nat \ {0} /\ FirstSeqs \subseteq 0 .. SeqMod - 1
  /\ Payload \in 1 .. SeqMod - 1
  /\ MaxTime \in Nat \ {0}
  /\ Window \in Nat /\ MaxReqs \in Nat /\ MaxAgain \in Nat /\ MaxLost \in Nat
  /\ MaxReconnect \in Nat
  BY ResponseAssumption

LEMMA PlusWord ==
  ASSUME NEW a \in Int, NEW b \in Int
  PROVE  Plus(a, b) \in Words /\ Minus(a, b) \in Words
<1> DEFINE x == a + b
           y == a - b
<1>1. x \in Int /\ y \in Int  OBVIOUS
<1>2. SeqMod \in Nat \ {0}  BY Known
<1> HIDE DEF x, y
<1>3. x % SeqMod \in 0 .. SeqMod - 1 /\ y % SeqMod \in 0 .. SeqMod - 1
  BY <1>1, <1>2
<1> QED  BY <1>3 DEF Plus, Minus, Words, x, y

LEMMA TypeInvImpliesTypeOK == TypeInv => TypeOK
<1> SUFFICES ASSUME TypeInv PROVE TypeOK
  OBVIOUS
<1> USE DEF TypeInv
<1>1. \A r \in Rings : \A i \in DOMAIN net[r] : net[r][i] \in Packet
  BY DEF PacketInv
<1>2. \A f \in Flows : Len(reqs[f]) <= MaxReqs /\ \A k \in DOMAIN reqs[f] : reqs[f][k] \in Words
  BY DEF ClientTypes
<1>3. replied \in [Flows -> 0 .. MaxReqs]
  <2>1. \A f \in Flows : Len(reqs[f]) \in Nat  BY DEF ClientTypes
  <2> QED  BY <2>1, Known DEF ClientTypes
<1>4. \A i \in DOMAIN ack_time : ack_time[i].time \in 1 .. MaxTime
  <2>1. \A i \in DOMAIN ack_time : ack_time[i] \in Sample  BY DEF SampleTypes
  <2> QED  BY <2>1 DEF Sample
<1> QED
  BY <1>1, <1>2, <1>3, <1>4
  DEF TypeOK, Packet, ClientTypes, SlotInv, TableTypes, SampleTypes, CounterTypes

LEMMA TypeInit == Init => TypeInv
<1> SUFFICES ASSUME Init PROVE TypeInv
  OBVIOUS
<1> USE Known DEF Init
<1>1. ClientTypes
  <2>1. 0 \in Nat /\ 1 \in 1 .. MaxTime /\ <<>> \in Seq(Words) /\ Len(<<>>) = 0  OBVIOUS
  <2>2. nextSeq \in [Flows -> Words]  BY DEF Words
  <2> QED  BY <2>1, <2>2 DEF ClientTypes
<1>2. PacketInv
  <2>1. \A r \in Rings : net[r] = <<>> /\ Len(net[r]) = 0  OBVIOUS
  <2>2. Waiting = {}  BY <2>1 DEF Waiting
  <2>3. net \in [Rings -> Seq(Packet)]  OBVIOUS
  <2> QED  BY <2>2, <2>3 DEF PacketInv
<1>3. SlotInv
  <2>1. DOMAIN slot = {}  OBVIOUS
  <2>2. slot \in [DOMAIN slot -> Positions]  OBVIOUS
  <2>3. Cardinality({}) = 0  BY FS_EmptySet
  <2> QED  BY <2>1, <2>2, <2>3 DEF SlotInv
<1>4. TableTypes
  <2>1. 0 \in Words  BY DEF Words
  <2> QED  BY <2>1 DEF TableTypes
<1>5. SampleTypes  BY DEF SampleTypes
<1>6. CounterTypes  BY DEF CounterTypes
<1> QED  BY <1>1, <1>2, <1>3, <1>4, <1>5, <1>6 DEF TypeInv

(* The network: one packet more, or one less.                              *)

\* d joins the end of its queue.
Sends(d) ==
  /\ d \in Packet /\ d.ts = ts
  /\ net' = [net EXCEPT ![RingOf(d.type, d.flow)] = Append(@, d)]

LEMMA RingOfRings == \A t, f : RingOf(t, f) \in Rings
  BY DEF RingOf, Rings

LEMMA CaptureSends ==
  ASSUME TypeInv, NEW t \in {"M_REQ", "M_RSP"}, NEW f \in Flows,
         NEW k \in 1 .. MaxReqs, NEW seq \in Words, Capture(t, f, k, seq)
  PROVE  \E d : Sends(d) /\ d.type = t /\ d.flow = f /\ d.req = k /\ d.sent_seq = seq
<1>1. PICK p \in (IF rsp_pri = (t = "M_RSP") THEN Priorities ELSE {0}) :
        net' = [net EXCEPT ![RingOf(t, f)] = Append(@,
                  [type |-> t, flow |-> f, sent_seq |-> seq, total_len |-> Payload,
                   ts |-> ts, pri |-> p, req |-> k])]
  BY DEF Capture
<1> DEFINE d == [type |-> t, flow |-> f, sent_seq |-> seq, total_len |-> Payload,
                 ts |-> ts, pri |-> p, req |-> k]
<1>2. p \in {0, 1}  BY Known
<1>3. d \in Packet  BY <1>2 DEF Packet, TypeInv, ClientTypes
<1>4. d.type = t /\ d.flow = f /\ d.req = k /\ d.sent_seq = seq /\ d.ts = ts  OBVIOUS
<1>5. net' = [net EXCEPT ![RingOf(t, f)] = Append(@, d)]  BY <1>1
<1> HIDE DEF d
<1> QED  BY <1>3, <1>4, <1>5 DEF Sends

\* What waits after a packet has joined its queue.
LEMMA SendNet ==
  ASSUME net \in [Rings -> Seq(Packet)], NEW d, Sends(d)
  PROVE  LET q == RingOf(d.type, d.flow) IN
         /\ net' \in [Rings -> Seq(Packet)] /\ q \in Rings
         /\ Waiting' = Waiting \cup {d}
         /\ Len(net'[q]) = Len(net[q]) + 1 /\ net'[q][Len(net[q]) + 1] = d
         /\ \A i \in 1 .. Len(net[q]) : net'[q][i] = net[q][i]
         /\ \A r \in Rings \ {q} : net'[r] = net[r]
<1> DEFINE q == RingOf(d.type, d.flow)
<1>1. q \in Rings /\ d \in Packet /\ net' = [net EXCEPT ![q] = Append(net[q], d)]
  BY RingOfRings DEF Sends
<1> HIDE DEF q
<1>2. net[q] \in Seq(Packet) /\ Len(net[q]) \in Nat  BY <1>1
<1>3. /\ Append(net[q], d) \in Seq(Packet) /\ Len(Append(net[q], d)) = Len(net[q]) + 1
      /\ Append(net[q], d)[Len(net[q]) + 1] = d
      /\ \A i \in 1 .. Len(net[q]) : Append(net[q], d)[i] = net[q][i]
  BY <1>1, <1>2, AppendProperties
<1>4. net'[q] = Append(net[q], d) /\ \A r \in Rings \ {q} : net'[r] = net[r]
  BY <1>1
<1>5. net' \in [Rings -> Seq(Packet)]  BY <1>1, <1>3
<1>6. Waiting' = Waiting \cup {d}
  <2> DEFINE line(r) == {net[r][i] : i \in 1 .. Len(net[r])}
             lineNext(r) == {net'[r][i] : i \in 1 .. Len(net'[r])}
  <2>1. lineNext(q) = line(q) \cup {d}
    <3>1. 1 .. Len(net'[q]) = 1 .. Len(net[q]) \cup {Len(net[q]) + 1}
      BY <1>2, <1>3, <1>4
    <3>2. d \in lineNext(q)  BY <1>2, <1>3, <1>4
    <3>3. ASSUME NEW i \in 1 .. Len(net[q]) PROVE net[q][i] \in lineNext(q)
      BY <1>2, <1>3, <1>4, <3>1
    <3>4. ASSUME NEW i \in 1 .. Len(net'[q]) PROVE net'[q][i] \in line(q) \cup {d}
      BY <1>2, <1>3, <1>4, <3>1
    <3> QED  BY <3>2, <3>3, <3>4
  <2>2. \A r \in Rings \ {q} : lineNext(r) = line(r)  BY <1>4
  <2>3. Waiting = UNION {line(r) : r \in Rings} /\ Waiting' = UNION {lineNext(r) : r \in Rings}
    BY DEF Waiting
  <2> HIDE DEF line, lineNext
  <2> QED  BY <1>1, <2>1, <2>2, <2>3
<1> QED  BY <1>1, <1>3, <1>4, <1>5, <1>6 DEF q

\* What waits after the oldest packet of a queue was taken.
LEMMA TakeNet ==
  ASSUME net \in [Rings -> Seq(Packet)], NEW q \in Rings, Take(q)
  PROVE  /\ net' \in [Rings -> Seq(Packet)]
         /\ Waiting' \subseteq Waiting
         /\ Head(net[q]) \in Waiting /\ Head(net[q]) \in Packet
         /\ Len(net[q]) \in Nat \ {0} /\ Head(net[q]) = net[q][1]
         /\ Len(net'[q]) = Len(net[q]) - 1
         /\ \A i \in 1 .. Len(net'[q]) : net'[q][i] = net[q][i + 1]
         /\ \A r \in Rings \ {q} : net'[r] = net[r]
<1>1. net[q] \in Seq(Packet) /\ net[q] # <<>> /\ net' = [net EXCEPT ![q] = Tail(net[q])]
  BY DEF Take
<1>2. /\ Head(net[q]) \in Packet /\ Tail(net[q]) \in Seq(Packet)
      /\ Len(Tail(net[q])) = Len(net[q]) - 1
  BY <1>1, HeadTailProperties
<1>3. Len(net[q]) \in Nat \ {0} /\ Head(net[q]) = net[q][1]
      /\ \A i \in 1 .. Len(net[q]) - 1 : Tail(net[q])[i] = net[q][i + 1]
  BY <1>1
<1>4. net'[q] = Tail(net[q]) /\ \A r \in Rings \ {q} : net'[r] = net[r]  BY <1>1
<1>5. net' \in [Rings -> Seq(Packet)]  BY <1>1, <1>2
<1>6. Head(net[q]) \in Waiting
  <2>1. 1 \in 1 .. Len(net[q])  BY <1>3
  <2> QED  BY <1>3, <2>1 DEF Waiting
<1>7. Waiting' \subseteq Waiting
  <2> SUFFICES ASSUME NEW r \in Rings, NEW i \in 1 .. Len(net'[r])
               PROVE  \E j \in 1 .. Len(net[r]) : net'[r][i] = net[r][j]
    BY SMTT(20) DEF Waiting
  <2>1. CASE r = q
    <3>1. i \in 1 .. Len(net[q]) - 1 /\ i + 1 \in 1 .. Len(net[q])
      BY <1>2, <1>3, <1>4, <2>1
    <3> QED  BY <1>3, <1>4, <2>1, <3>1
  <2>2. CASE r # q  BY <1>4, <2>2
  <2> QED  BY <2>1, <2>2
<1> QED  BY <1>2, <1>3, <1>4, <1>5, <1>6, <1>7

(* The types after a step of the environment.                              *)

\* The requests of a flow only grow in number.
MoreRequests ==
  \A f \in Flows :
    /\ Len(reqs[f]) <= Len(reqs'[f])
    /\ \A k \in 1 .. Len(reqs[f]) : reqs'[f][k] = reqs[f][k]

LEMMA WaitingPackets ==
  ASSUME net \in [Rings -> Seq(Packet)], NEW d \in Waiting
  PROVE  d \in Packet
  BY DEF Waiting

LEMMA StaysNumbered ==
  ASSUME ClientTypes, ClientTypes', MoreRequests, ts <= ts', NEW d \in Packet, Numbered(d)
  PROVE  Numbered(d)'
<1>1. d.flow \in Flows /\ d.req \in Nat \ {0} /\ d.ts \in Nat  BY Known DEF Packet
<1>2. reqs[d.flow] \in Seq(Words) /\ reqs'[d.flow] \in Seq(Words) /\ ts \in Nat /\ ts' \in Nat
  BY <1>1 DEF ClientTypes
<1>3. /\ Len(reqs[d.flow]) \in Nat /\ Len(reqs'[d.flow]) \in Nat
      /\ Len(reqs[d.flow]) <= Len(reqs'[d.flow])
  BY <1>1, <1>2 DEF MoreRequests
<1>4. d.req \in 1 .. Len(reqs[d.flow])  BY <1>1, <1>3 DEF Numbered
<1>5. reqs'[d.flow][d.req] = reqs[d.flow][d.req]  BY <1>1, <1>4 DEF MoreRequests
<1>6. d.req <= Len(reqs'[d.flow]) /\ d.ts <= ts'  BY <1>1, <1>2, <1>3 DEF Numbered
<1> QED  BY <1>5, <1>6 DEF Numbered, Ack

LEMMA MonitorSame ==
  ASSUME TypeInv, UNCHANGED monitorVars
  PROVE  SlotInv' /\ TableTypes' /\ SampleTypes' /\ CounterTypes'
<1> USE DEF TypeInv, monitorVars
<1>1. SlotInv'  BY DEF SlotInv, tableVars
<1>2. TableTypes'  BY DEF TableTypes, tableVars, requestStats, priStats
<1>3. SampleTypes'  BY DEF SampleTypes, responseStats
<1>4. CounterTypes'  BY DEF CounterTypes, requestStats, responseStats, priStats
<1> QED  BY <1>1, <1>2, <1>3, <1>4

\* The numbers of a flow's requests so far, and what may be sent about them.
LEMMA RequestFacts ==
  ASSUME ClientTypes, NEW f \in Flows
  PROVE  /\ reqs[f] \in Seq(Words) /\ Len(reqs[f]) \in 0 .. MaxReqs
         /\ replied[f] \in 0 .. Len(reqs[f]) /\ nextSeq[f] \in Words
         /\ \A k \in 1 .. Len(reqs[f]) : reqs[f][k] \in Words /\ Ack(f, k) \in Words
                                         /\ k \in 1 .. MaxReqs
<1>1. /\ reqs[f] \in Seq(Words) /\ Len(reqs[f]) \in 0 .. MaxReqs
      /\ replied[f] \in 0 .. Len(reqs[f]) /\ nextSeq[f] \in Words
  BY Known DEF ClientTypes
<1>2. ASSUME NEW k \in 1 .. Len(reqs[f]) PROVE reqs[f][k] \in Words /\ Ack(f, k) \in Words
  <2>1. reqs[f][k] \in Words  BY <1>1
  <2>2. reqs[f][k] \in Int /\ Payload \in Int  BY <2>1, Known DEF Words
  <2> QED  BY <2>1, <2>2, PlusWord DEF Ack
<1> QED  BY <1>1, <1>2, Known

\* What a client or a server may add to the network.
LEMMA RequestSends ==
  ASSUME TypeInv, NEW f \in Flows, Request(f)
  PROVE  /\ \E d : Sends(d) /\ d.type = "M_REQ" /\ d.flow = f
                   /\ d.req = Len(reqs[f]) + 1 /\ d.sent_seq = nextSeq[f]
         /\ ClientTypes' /\ MoreRequests
         /\ reqs' = [reqs EXCEPT ![f] = Append(reqs[f], nextSeq[f])]
         /\ reqs'[f] \in Seq(Words) /\ Len(reqs'[f]) = Len(reqs[f]) + 1
         /\ reqs'[f][Len(reqs[f]) + 1] = nextSeq[f]
         /\ nextSeq' = [nextSeq EXCEPT ![f] = Plus(nextSeq[f], Payload)]
<1>0. ClientTypes  BY DEF TypeInv
<1>1. /\ reqs[f] \in Seq(Words) /\ Len(reqs[f]) \in 0 .. MaxReqs /\ nextSeq[f] \in Words
      /\ replied[f] \in 0 .. Len(reqs[f])
  BY <1>0, RequestFacts
<1>2. /\ Len(reqs[f]) < MaxReqs /\ Capture("M_REQ", f, Len(reqs[f]) + 1, nextSeq[f])
      /\ reqs' = [reqs EXCEPT ![f] = Append(reqs[f], nextSeq[f])]
      /\ nextSeq' = [nextSeq EXCEPT ![f] = Plus(nextSeq[f], Payload)]
      /\ UNCHANGED <<ts, replied, again, lost, reconnects>>
  BY DEF Request
<1>3. Len(reqs[f]) + 1 \in 1 .. MaxReqs  BY <1>1, <1>2, Known
<1>4. /\ Append(reqs[f], nextSeq[f]) \in Seq(Words)
      /\ Len(Append(reqs[f], nextSeq[f])) = Len(reqs[f]) + 1
      /\ \A i \in 1 .. Len(reqs[f]) : Append(reqs[f], nextSeq[f])[i] = reqs[f][i]
      /\ Append(reqs[f], nextSeq[f])[Len(reqs[f]) + 1] = nextSeq[f]
  BY <1>1, AppendProperties
<1>5. /\ reqs'[f] = Append(reqs[f], nextSeq[f])
      /\ \A g \in Flows : g # f => reqs'[g] = reqs[g]
  BY <1>0, <1>2 DEF ClientTypes
<1>6. MoreRequests
  <2>1. \A g \in Flows : Len(reqs[g]) \in Nat  BY <1>0 DEF ClientTypes
  <2> QED  BY <1>1, <1>4, <1>5, <2>1 DEF MoreRequests
<1>7. Plus(nextSeq[f], Payload) \in Words
  <2>1. nextSeq[f] \in Int /\ Payload \in Int  BY <1>1, Known DEF Words
  <2> QED  BY <2>1, PlusWord
<1>8. ClientTypes'
  <2>1. nextSeq' \in [Flows -> Words]  BY <1>0, <1>2, <1>7 DEF ClientTypes
  <2>2. reqs' \in [Flows -> Seq(Words)]  BY <1>0, <1>2, <1>4 DEF ClientTypes
  <2>3. ASSUME NEW g \in Flows PROVE replied'[g] <= Len(reqs'[g]) /\ Len(reqs'[g]) <= MaxReqs
    <3>1. CASE g = f  BY <1>1, <1>2, <1>3, <1>4, <1>5, <3>1
    <3>2. CASE g # f  BY <1>0, <1>2, <1>5, <3>2 DEF ClientTypes
    <3> QED  BY <3>1, <3>2
  <2> QED  BY <1>0, <1>2, <2>1, <2>2, <2>3 DEF ClientTypes
<1>9. \E d : Sends(d) /\ d.type = "M_REQ" /\ d.flow = f
             /\ d.req = Len(reqs[f]) + 1 /\ d.sent_seq = nextSeq[f]
  BY <1>1, <1>2, <1>3, CaptureSends
<1> QED  BY <1>2, <1>4, <1>5, <1>6, <1>8, <1>9

\* Copies and replies are about requests made before.
LEMMA OtherSends ==
  ASSUME TypeInv, NEW f \in Flows, RequestAgain(f) \/ Reply(f) \/ ReplyAgain(f)
  PROVE  /\ \E d : /\ Sends(d) /\ d.flow = f /\ d.req \in 1 .. Len(reqs[f])
                   /\ d.sent_seq = IF d.type = "M_REQ" THEN reqs[f][d.req] ELSE Ack(f, d.req)
                   /\ RequestAgain(f) => d.type = "M_REQ" /\ d.req > replied[f]
                   /\ Reply(f) => d.type = "M_RSP" /\ d.req = replied[f] + 1
                   /\ ReplyAgain(f) => d.type = "M_RSP" /\ d.req = Len(reqs[f])
         /\ ClientTypes' /\ MoreRequests /\ UNCHANGED <<ts, reqs, nextSeq>>
<1>0. ClientTypes  BY DEF TypeInv
<1>1. /\ Len(reqs[f]) \in 0 .. MaxReqs /\ replied[f] \in 0 .. Len(reqs[f])
      /\ \A k \in 1 .. Len(reqs[f]) : reqs[f][k] \in Words /\ Ack(f, k) \in Words
                                      /\ k \in 1 .. MaxReqs
  BY <1>0, RequestFacts
<1>2. MoreRequests /\ UNCHANGED <<ts, reqs, nextSeq>>
  <2>1. UNCHANGED <<ts, reqs, nextSeq>>  BY DEF RequestAgain, Reply, ReplyAgain
  <2>2. \A g \in Flows : Len(reqs[g]) \in Nat  BY <1>0 DEF ClientTypes
  <2> QED  BY <2>1, <2>2 DEF MoreRequests
<1>3. CASE RequestAgain(f)
  <2>1. PICK k \in replied[f] + 1 .. Len(reqs[f]) : Capture("M_REQ", f, k, reqs[f][k])
    BY <1>3 DEF RequestAgain
  <2>2. k \in 1 .. Len(reqs[f]) /\ k > replied[f]  BY <1>1
  <2>3. \E d : Sends(d) /\ d.type = "M_REQ" /\ d.flow = f /\ d.req = k /\ d.sent_seq = reqs[f][k]
    BY <1>1, <2>1, <2>2, CaptureSends
  <2>4. ~Reply(f) /\ ~ReplyAgain(f)
    <3>1. again' = again + 1 /\ replied[f] < Len(reqs[f])
      BY <1>1, <1>3, <2>2 DEF RequestAgain
    <3>2. again \in Nat  BY <1>0 DEF ClientTypes
    <3> QED  BY <1>1, <3>1, <3>2 DEF Reply, ReplyAgain
  <2>5. ClientTypes'  BY <1>0, <1>3 DEF ClientTypes, RequestAgain
  <2> QED  BY <1>2, <2>2, <2>3, <2>4, <2>5
<1>4. CASE Reply(f)
  <2>1. replied[f] + 1 \in 1 .. Len(reqs[f])  BY <1>1, <1>4 DEF Reply
  <2>2. Capture("M_RSP", f, replied[f] + 1, Ack(f, replied[f] + 1))
    BY <1>4 DEF Reply, Ack
  <2>3. \E d : Sends(d) /\ d.type = "M_RSP" /\ d.flow = f /\ d.req = replied[f] + 1
               /\ d.sent_seq = Ack(f, replied[f] + 1)
    BY <1>1, <2>1, <2>2, CaptureSends
  <2>4. ~RequestAgain(f) /\ ~ReplyAgain(f)
    <3>1. again' = again  BY <1>4 DEF Reply
    <3>2. again \in Nat  BY <1>0 DEF ClientTypes
    <3> QED  BY <3>1, <3>2 DEF RequestAgain, ReplyAgain
  <2>5. ClientTypes'
    <3>1. replied' = [replied EXCEPT ![f] = replied[f] + 1]  BY <1>4 DEF Reply
    <3>2. replied' \in [Flows -> Nat] /\ \A g \in Flows : replied'[g] <= Len(reqs[g])
      BY <1>0, <1>1, <2>1, <3>1 DEF ClientTypes
    <3>3. UNCHANGED <<ts, reqs, nextSeq, again, reconnects, lost>>  BY <1>4 DEF Reply
    <3> QED  BY <1>0, <3>2, <3>3 DEF ClientTypes
  <2> QED  BY <1>2, <2>1, <2>3, <2>4, <2>5
<1>5. CASE ReplyAgain(f)
  <2>1. replied[f] = Len(reqs[f]) /\ Len(reqs[f]) \in 1 .. Len(reqs[f])
    BY <1>1, <1>5 DEF ReplyAgain
  <2>2. Capture("M_RSP", f, Len(reqs[f]), Ack(f, Len(reqs[f])))
    BY <1>5, <2>1 DEF ReplyAgain, Ack
  <2>3. \E d : Sends(d) /\ d.type = "M_RSP" /\ d.flow = f /\ d.req = Len(reqs[f])
               /\ d.sent_seq = Ack(f, Len(reqs[f]))
    BY <1>1, <2>1, <2>2, CaptureSends
  <2>4. ~RequestAgain(f) /\ ~Reply(f)
    <3>1. \A k : k \notin replied[f] + 1 .. Len(reqs[f])  BY <1>1, <2>1
    <3> QED  BY <1>1, <2>1, <3>1 DEF RequestAgain, Reply
  <2>5. ClientTypes'  BY <1>0, <1>5 DEF ClientTypes, ReplyAgain
  <2> QED  BY <1>2, <2>1, <2>3, <2>4, <2>5
<1> QED  BY <1>3, <1>4, <1>5

LEMMA PacketsSend ==
  ASSUME TypeInv, ClientTypes', MoreRequests, UNCHANGED ts, NEW d, Sends(d), Numbered(d)'
  PROVE  PacketInv'
<1>0. ClientTypes /\ net \in [Rings -> Seq(Packet)] /\ ts <= ts'
  BY DEF TypeInv, PacketInv, ClientTypes
<1>1. net' \in [Rings -> Seq(Packet)] /\ Waiting' = Waiting \cup {d}
  BY <1>0, SendNet
<1>2. ASSUME NEW e \in Waiting PROVE Numbered(e)'
  <2>1. Numbered(e) /\ e \in Packet  BY <1>0, WaitingPackets DEF TypeInv, PacketInv
  <2> QED  BY <1>0, <2>1, StaysNumbered
<1> QED  BY <1>1, <1>2 DEF PacketInv

LEMMA PacketsWait ==
  ASSUME TypeInv, ClientTypes', MoreRequests, ts <= ts', net' \in [Rings -> Seq(Packet)],
         Waiting' \subseteq Waiting
  PROVE  PacketInv'
<1>0. ClientTypes /\ net \in [Rings -> Seq(Packet)]
  BY DEF TypeInv, PacketInv
<1>1. ASSUME NEW e \in Waiting PROVE Numbered(e)'
  <2>1. Numbered(e) /\ e \in Packet  BY <1>0, WaitingPackets DEF TypeInv, PacketInv
  <2> QED  BY <1>0, <2>1, StaysNumbered
<1> QED  BY <1>1 DEF PacketInv

LEMMA SameRequests == ClientTypes /\ UNCHANGED reqs => MoreRequests
<1> SUFFICES ASSUME ClientTypes, UNCHANGED reqs PROVE MoreRequests
  OBVIOUS
<1>1. \A f \in Flows : Len(reqs[f]) \in Nat  BY DEF ClientTypes
<1> QED  BY <1>1 DEF MoreRequests

LEMMA TypeEnvironment == TypeInv /\ Environment => TypeInv'
<1> SUFFICES ASSUME TypeInv, Environment PROVE TypeInv'
  OBVIOUS
<1>0. ClientTypes /\ net \in [Rings -> Seq(Packet)]  BY DEF TypeInv, PacketInv
<1>1. CASE Tick
  <2>1. ts' = ts + 1 /\ ts < MaxTime
        /\ UNCHANGED <<reqs, nextSeq, replied, again, reconnects, net, lost, monitorVars>>
    BY <1>1 DEF Tick
  <2>2. ClientTypes' /\ ts <= ts' /\ MoreRequests
    BY <1>0, <2>1, Known, SameRequests DEF ClientTypes
  <2>3. Waiting' = Waiting  BY <2>1 DEF Waiting
  <2> QED  BY <1>0, <2>1, <2>2, <2>3, PacketsWait, MonitorSame DEF TypeInv
<1>2. ASSUME NEW f \in Flows, Request(f) PROVE TypeInv'
  <2>1. PICK d : Sends(d) /\ d.type = "M_REQ" /\ d.flow = f
                 /\ d.req = Len(reqs[f]) + 1 /\ d.sent_seq = nextSeq[f]
    BY <1>2, RequestSends
  <2>2. /\ ClientTypes' /\ MoreRequests /\ Len(reqs'[f]) = Len(reqs[f]) + 1
        /\ reqs'[f][Len(reqs[f]) + 1] = nextSeq[f]
    BY <1>2, RequestSends
  <2>3. UNCHANGED <<ts, monitorVars>>  BY <1>2 DEF Request
  <2>4. Numbered(d)'
    <3>1. d.ts <= ts' /\ Len(reqs[f]) \in Nat
      BY <1>0, <2>1, <2>3 DEF Sends, ClientTypes
    <3> QED  BY <2>1, <2>2, <3>1 DEF Numbered
  <2> QED  BY <2>1, <2>2, <2>3, <2>4, PacketsSend, MonitorSame DEF TypeInv
<1>3. ASSUME NEW f \in Flows, RequestAgain(f) \/ Reply(f) \/ ReplyAgain(f) PROVE TypeInv'
  <2>1. PICK d : /\ Sends(d) /\ d.flow = f /\ d.req \in 1 .. Len(reqs[f])
                 /\ d.sent_seq = IF d.type = "M_REQ" THEN reqs[f][d.req] ELSE Ack(f, d.req)
    BY <1>3, OtherSends
  <2>2. ClientTypes' /\ MoreRequests /\ UNCHANGED <<ts, reqs, nextSeq>>
    BY <1>3, OtherSends
  <2>3. UNCHANGED monitorVars  BY <1>3 DEF RequestAgain, Reply, ReplyAgain
  <2>4. Numbered(d)'
    <3>1. d.ts <= ts'  BY <1>0, <2>1, <2>2 DEF Sends, ClientTypes
    <3> QED  BY <2>1, <2>2, <3>1 DEF Numbered, Ack
  <2> QED  BY <2>1, <2>2, <2>3, <2>4, PacketsSend, MonitorSame DEF TypeInv
<1>4. ASSUME NEW f \in Flows, Reconnect(f) PROVE TypeInv'
  <2>1. PICK isn \in FirstSeqs : nextSeq' = [nextSeq EXCEPT ![f] = isn]
    BY <1>4 DEF Reconnect
  <2>2. reconnects' = reconnects + 1 /\ UNCHANGED <<ts, reqs, replied, again, net, lost, monitorVars>>
    BY <1>4 DEF Reconnect
  <2>3. ClientTypes' /\ MoreRequests /\ ts <= ts'
    <3>1. isn \in Words  BY Known DEF Words
    <3> QED  BY <1>0, <2>1, <2>2, <3>1, SameRequests DEF ClientTypes
  <2>4. Waiting' = Waiting  BY <2>2 DEF Waiting
  <2> QED  BY <1>0, <2>2, <2>3, <2>4, PacketsWait, MonitorSame DEF TypeInv
<1>5. ASSUME NEW r \in Rings, Lose(r) PROVE TypeInv'
  <2>1. Take(r) /\ lost' = lost + 1 /\ UNCHANGED <<clientVars, monitorVars>>
    BY <1>5 DEF Lose
  <2>2. ClientTypes' /\ MoreRequests /\ ts <= ts'
    BY <1>0, <2>1, SameRequests DEF ClientTypes, clientVars
  <2>3. net' \in [Rings -> Seq(Packet)] /\ Waiting' \subseteq Waiting
    BY <1>0, <2>1, TakeNet
  <2> QED  BY <2>1, <2>2, <2>3, PacketsWait, MonitorSame DEF TypeInv
<1> QED  BY <1>1, <1>2, <1>3, <1>4, <1>5 DEF Environment

(* The request hash.                                                       *)

LEMMA MinMember ==
  ASSUME NEW S \in SUBSET Nat, S # {}
  PROVE  Min(S) \in S
<1>1. PICK x \in S : \A y \in S : x <= y  BY LeastMember
<1>2. \A y \in S : x =< y  BY <1>1
<1> QED  BY <1>2 DEF Min

Full == Cardinality(DOMAIN slot) = REQ_HASH_ENTRIES

LEMMA FreePositionIsFree ==
  ASSUME SlotInv, ~Full
  PROVE  FreePosition({slot[g] : g \in DOMAIN slot}) \in Positions \ {slot[g] : g \in DOMAIN slot}
<1> DEFINE used == {slot[g] : g \in DOMAIN slot}
           free == Positions \ used
<1>1. IsFiniteSet(DOMAIN slot) /\ Cardinality(DOMAIN slot) \in Nat
  BY Known, FS_Subset, FS_CardinalityType DEF SlotInv
<1>2. Cardinality(used) <= Cardinality(DOMAIN slot) /\ IsFiniteSet(used)
  <2>1. [g \in DOMAIN slot |-> slot[g]] \in Surjection(DOMAIN slot, used)
    BY DEF Surjection
  <2> QED  BY <1>1, <2>1, FS_Surjection
<1>3. Cardinality(used) \in Nat  BY <1>2, FS_CardinalityType
<1>4. Cardinality(Positions) = REQ_HASH_ENTRIES
  <2>1. Cardinality(0 .. REQ_HASH_ENTRIES - 1) = REQ_HASH_ENTRIES
    BY Known, FS_Interval
  <2> QED  BY <2>1 DEF Positions
<1>5. Cardinality(DOMAIN slot) < REQ_HASH_ENTRIES  BY <1>1, Known DEF SlotInv, Full
<1>6. free # {}
  <2> SUFFICES ASSUME free = {} PROVE FALSE
    OBVIOUS
  <2>1. Positions \subseteq used  OBVIOUS
  <2>2. Cardinality(Positions) <= Cardinality(used)
    BY <1>2, <2>1, FS_Subset
  <2> QED  BY <1>1, <1>2, <1>3, <1>4, <1>5, <2>2, Known
<1>7. free \in SUBSET Nat  BY Known DEF Positions
<1> HIDE DEF used, free
<1>8. Min(free) \in free  BY <1>6, <1>7, MinMember
<1> QED  BY <1>8 DEF FreePosition, free, used

\* What AddKey does: the key's position, or a free one for it, or none.
LEMMA AddKeyFacts ==
  ASSUME SlotInv, NEW f \in Flows, NEW pos \in Places, AddKey(f, pos)
  PROVE  /\ SlotInv'
         /\ \/ f \in DOMAIN slot /\ pos = slot[f] /\ slot' = slot
            \/ f \notin DOMAIN slot /\ Full /\ pos = ENOSPC /\ slot' = slot
            \/ /\ f \notin DOMAIN slot /\ ~Full
               /\ pos \in Positions /\ \A g \in DOMAIN slot : slot[g] # pos
               /\ DOMAIN slot' = DOMAIN slot \cup {f} /\ slot'[f] = pos
               /\ \A g \in DOMAIN slot : slot'[g] = slot[g]
<1>1. CASE slot' = slot
  BY <1>1, FreePositionIsFree DEF AddKey, SlotInv, Full
<1>2. CASE f \notin DOMAIN slot /\ ~Full
  <2>1. /\ pos = FreePosition({slot[g] : g \in DOMAIN slot})
        /\ slot' = [g \in DOMAIN slot \cup {f} |-> IF g = f THEN pos ELSE slot[g]]
    BY <1>2 DEF AddKey, Full
  <2>2. pos \in Positions /\ \A g \in DOMAIN slot : slot[g] # pos
    BY <1>2, <2>1, FreePositionIsFree
  <2>3. DOMAIN slot' = DOMAIN slot \cup {f} /\ slot'[f] = pos
        /\ \A g \in DOMAIN slot : slot'[g] = slot[g]
    BY <1>2, <2>1
  <2>4. slot' \in [DOMAIN slot' -> Positions]
    BY <2>1, <2>2, <2>3 DEF SlotInv
  <2>5. Cardinality(DOMAIN slot') <= REQ_HASH_ENTRIES
    <3>1. IsFiniteSet(DOMAIN slot) /\ Cardinality(DOMAIN slot) \in Nat
      BY Known, FS_Subset, FS_CardinalityType DEF SlotInv
    <3>2. Cardinality(DOMAIN slot \cup {f}) = Cardinality(DOMAIN slot) + 1
      BY <1>2, <3>1, FS_AddElement
    <3> QED  BY <1>2, <2>3, <3>1, <3>2, Known DEF SlotInv, Full
  <2>6. \A g, h \in DOMAIN slot' : slot'[g] = slot'[h] => g = h
    BY <2>2, <2>3 DEF SlotInv
  <2> QED  BY <1>2, <2>2, <2>3, <2>4, <2>5, <2>6 DEF SlotInv
<1>3. slot' = slot \/ (f \notin DOMAIN slot /\ ~Full)  BY DEF AddKey, Full
<1> QED  BY <1>1, <1>2, <1>3

(* The types after the MONITOR lcore has taken a packet.                   *)

\* What a request changes at its key's position.
Stamped(pos, d) ==
  /\ Maxseq'[pos] = [req_sent_seq |-> d.sent_seq, payload_len |-> Payload,
                     rsp_sent_seq |-> Maxseq[pos].rsp_sent_seq]
  /\ req_out_if'[pos] = d.ts
  /\ \A p \in Places \ {pos} : Maxseq'[p] = Maxseq[p] /\ req_out_if'[p] = req_out_if[p]

LEMMA OnRequestTable ==
  ASSUME TypeInv, NEW d \in Packet, OnRequest(d)
  PROVE  /\ \E pos \in Places :
              /\ AddKey(d.flow, pos)
              /\ \/ IsNew(pos, d) /\ Stamped(pos, d) /\ req_recount' = req_recount
                 \/ ~IsNew(pos, d) /\ UNCHANGED <<Maxseq, req_out_if>> /\ req_recount' = req_recount + 1
         /\ SlotInv' /\ TableTypes'
         /\ seen' = [seen EXCEPT ![d.flow][d.req] = IF @ = Never THEN d.ts ELSE @]
<1>0. TableTypes /\ SlotInv  BY DEF TypeInv
<1>1. PICK pos \in Places :
        LET counted == IF IsNew(pos, d) THEN [req_hy_count EXCEPT ![pos].count = 1] ELSE req_hy_count
        IN /\ AddKey(d.flow, pos)
           /\ NewRequest(pos, d) \/ RepeatedRequest(pos, d)
           /\ IF rsp_pri
              THEN req_hy_count' = counted /\ UNCHANGED <<recv_pri_high, recv_pri_low>>
              ELSE /\ recv_pri_high' = recv_pri_high + d.pri
                   /\ recv_pri_low' = recv_pri_low + (1 - d.pri)
                   /\ req_hy_count' = [counted EXCEPT ![pos].pri = d.pri]
  BY DEF OnRequest
<1>2. /\ d.flow \in Flows /\ d.req \in 1 .. MaxReqs /\ d.sent_seq \in Words
      /\ d.total_len = Payload /\ d.ts \in 1 .. MaxTime /\ d.pri \in {0, 1}
  BY DEF Packet
<1>3. SlotInv'  BY <1>0, <1>1, <1>2, AddKeyFacts
<1>4. seen' = [seen EXCEPT ![d.flow][d.req] = IF @ = Never THEN d.ts ELSE @]
  BY DEF OnRequest
<1>5. seen' \in [Flows -> [1 .. MaxReqs -> {Never} \cup 1 .. MaxTime]]
  BY <1>0, <1>2, <1>4 DEF TableTypes
<1>6. req_hy_count' \in [Places -> [count : {0, 1}, pri : {-1, 0, 1}]]
  <2> DEFINE counted == IF IsNew(pos, d) THEN [req_hy_count EXCEPT ![pos].count = 1] ELSE req_hy_count
  <2>1. counted \in [Places -> [count : {0, 1}, pri : {-1, 0, 1}]]
    BY <1>0 DEF TableTypes
  <2>2. req_hy_count' = counted \/ req_hy_count' = [counted EXCEPT ![pos].pri = d.pri]
    BY <1>1
  <2> HIDE DEF counted
  <2> QED  BY <1>2, <2>1, <2>2
<1>7. CASE NewRequest(pos, d)
  <2>1. /\ IsNew(pos, d) /\ req_recount' = req_recount
        /\ Maxseq' = [Maxseq EXCEPT ![pos].req_sent_seq = d.sent_seq, ![pos].payload_len = d.total_len]
        /\ req_out_if' = [req_out_if EXCEPT ![pos] = d.ts]
    BY <1>7 DEF NewRequest
  <2>2. Maxseq[pos] \in [req_sent_seq : Words, payload_len : {0, Payload}, rsp_sent_seq : Words]
    BY <1>0 DEF TableTypes
  <2>3. Maxseq' = [Maxseq EXCEPT ![pos] =
                     [req_sent_seq |-> d.sent_seq, payload_len |-> Payload,
                      rsp_sent_seq |-> Maxseq[pos].rsp_sent_seq]]
    <3> DEFINE first == [Maxseq EXCEPT ![pos] = [Maxseq[pos] EXCEPT !.req_sent_seq = d.sent_seq]]
    <3>1. first[pos] = [Maxseq[pos] EXCEPT !.req_sent_seq = d.sent_seq]
      BY <1>0 DEF TableTypes
    <3>2. Maxseq' = [first EXCEPT ![pos] = [first[pos] EXCEPT !.payload_len = d.total_len]]
      BY <2>1
    <3>3. [first[pos] EXCEPT !.payload_len = d.total_len]
            = [req_sent_seq |-> d.sent_seq, payload_len |-> Payload,
               rsp_sent_seq |-> Maxseq[pos].rsp_sent_seq]
      BY <1>2, <2>2, <3>1
    <3> QED  BY <1>0, <3>2, <3>3 DEF TableTypes
  <2>4. Stamped(pos, d)
    BY <1>0, <2>1, <2>3 DEF Stamped, TableTypes
  <2>5. /\ Maxseq' \in [Places -> [req_sent_seq : Words, payload_len : {0, Payload}, rsp_sent_seq : Words]]
        /\ req_out_if' \in [Places -> 0 .. MaxTime]
    <3>1. d.ts \in 0 .. MaxTime  BY <1>2, Known
    <3>2. [req_sent_seq |-> d.sent_seq, payload_len |-> Payload,
           rsp_sent_seq |-> Maxseq[pos].rsp_sent_seq]
             \in [req_sent_seq : Words, payload_len : {0, Payload}, rsp_sent_seq : Words]
      BY <1>2, <2>2
    <3> QED  BY <1>0, <2>1, <2>3, <3>1, <3>2 DEF TableTypes
  <2>6. TableTypes'  BY <1>5, <1>6, <2>5 DEF TableTypes
  <2> QED  BY <1>1, <1>3, <1>4, <2>1, <2>4, <2>6
<1>8. CASE RepeatedRequest(pos, d)
  <2>1. ~IsNew(pos, d) /\ UNCHANGED <<Maxseq, req_out_if>> /\ req_recount' = req_recount + 1
    BY <1>8 DEF RepeatedRequest
  <2>2. TableTypes'  BY <1>0, <1>5, <1>6, <2>1 DEF TableTypes
  <2> QED  BY <1>1, <1>3, <1>4, <2>1, <2>2
<1> QED  BY <1>1, <1>7, <1>8

LEMMA OnRequestTypes ==
  ASSUME TypeInv, NEW d \in Packet, OnRequest(d)
  PROVE  SlotInv' /\ TableTypes' /\ SampleTypes' /\ CounterTypes'
<1>1. SlotInv' /\ TableTypes'  BY OnRequestTable
<1>2. UNCHANGED responseStats /\ pkt_req' = pkt_req + 1  BY DEF OnRequest
<1>3. SampleTypes'  BY <1>2 DEF TypeInv, SampleTypes, responseStats
<1>4. req_recount' \in Nat /\ conn_active_hy' \in Nat
  BY DEF TypeInv, CounterTypes, OnRequest, NewRequest, RepeatedRequest
<1>5. recv_pri_high' \in Nat /\ recv_pri_low' \in Nat
  <2>1. \/ UNCHANGED <<recv_pri_high, recv_pri_low>>
        \/ recv_pri_high' = recv_pri_high + d.pri /\ recv_pri_low' = recv_pri_low + (1 - d.pri)
    BY DEF OnRequest
  <2>2. d.pri \in {0, 1}  BY DEF Packet
  <2> QED  BY <2>1, <2>2 DEF TypeInv, CounterTypes
<1>6. CounterTypes'  BY <1>2, <1>4, <1>5 DEF TypeInv, CounterTypes, responseStats
<1> QED  BY <1>1, <1>3, <1>6

LEMMA PlaceFacts == Positions \subseteq Places /\ ENOSPC \notin Positions
  BY Known DEF Positions, ENOSPC, Places

\* A timed response gives a sample, or is counted as sent again.
NewSample(d, pri) ==
  [time |-> d.ts - req_out_if[slot[d.flow]], pri |-> pri,
   flow |-> d.flow, req |-> d.req, ts |-> d.ts]

Sampled(d) ==
  /\ IsNewResponse(slot[d.flow], d)
  /\ Maxseq' = [Maxseq EXCEPT ![slot[d.flow]] = [Maxseq[slot[d.flow]] EXCEPT !.rsp_sent_seq = d.sent_seq]]
  /\ \E pri \in {0, 1} :
       /\ idx_pri_high' = idx_pri_high + pri /\ idx_pri_low' = idx_pri_low + (1 - pri)
       /\ ack_time' = Append(ack_time, NewSample(d, pri))
  /\ UNCHANGED <<miss_rep, rsp_recount>>

Recounted(d) ==
  /\ ~IsNewResponse(slot[d.flow], d)
  /\ rsp_recount' = rsp_recount + 1 /\ miss_rep' = miss_rep + 1
  /\ UNCHANGED <<Maxseq, ack_time, idx_pri_high, idx_pri_low>>

LEMMA TimedCases ==
  ASSUME TypeInv, NEW d \in Packet, TimedResponse(d)
  PROVE  /\ d.flow \in DOMAIN slot /\ slot[d.flow] \in Positions
         /\ InWindow(slot[d.flow], d) /\ d.ts - req_out_if[slot[d.flow]] > 0
         /\ Sampled(d) \/ Recounted(d)
         /\ thre' = Grown(Len(ack_time))
         /\ IF rsp_pri
            THEN /\ recv_pri_high' = recv_pri_high + d.pri
                 /\ recv_pri_low' = recv_pri_low + (1 - d.pri)
                 /\ req_hy_count' = [req_hy_count EXCEPT ![slot[d.flow]].pri = d.pri]
            ELSE UNCHANGED priStats
<1>1. /\ d.flow \in DOMAIN slot /\ InWindow(slot[d.flow], d)
      /\ d.ts - req_out_if[slot[d.flow]] > 0
      /\ thre' = Grown(Len(ack_time))
      /\ IF rsp_pri
         THEN /\ recv_pri_high' = recv_pri_high + d.pri
              /\ recv_pri_low' = recv_pri_low + (1 - d.pri)
              /\ req_hy_count' = [req_hy_count EXCEPT ![slot[d.flow]].pri = d.pri]
         ELSE UNCHANGED priStats
  BY DEF TimedResponse, Latency
<1>2. slot[d.flow] \in Positions  BY <1>1 DEF TypeInv, SlotInv
<1>3. Sampled(d) \/ Recounted(d)
  <2> DEFINE pos == slot[d.flow]
             pri == IF (IF rsp_pri THEN d.pri ELSE req_hy_count[pos].pri) = 0 THEN 0 ELSE 1
  <2>1. pri \in {0, 1}  OBVIOUS
  <2>2. CASE IsNewResponse(pos, d)
    <3>1. /\ Maxseq' = [Maxseq EXCEPT ![pos].rsp_sent_seq = d.sent_seq]
          /\ idx_pri_high' = idx_pri_high + pri /\ idx_pri_low' = idx_pri_low + (1 - pri)
          /\ ack_time' = Append(ack_time, NewSample(d, pri))
          /\ UNCHANGED <<miss_rep, rsp_recount>>
      BY <2>2 DEF TimedResponse, Latency, NewSample
    <3> HIDE DEF pri
    <3> QED  BY <2>1, <2>2, <3>1 DEF Sampled
  <2>3. CASE ~IsNewResponse(pos, d)
    BY <2>3 DEF TimedResponse, Recounted
  <2> QED  BY <2>2, <2>3
<1> QED  BY <1>1, <1>2, <1>3

LEMMA SampledFacts ==
  ASSUME TypeInv, NEW d \in Packet, TimedResponse(d), Sampled(d)
  PROVE  /\ Maxseq' \in [Places -> [req_sent_seq : Words, payload_len : {0, Payload}, rsp_sent_seq : Words]]
         /\ Maxseq'[slot[d.flow]] = [Maxseq[slot[d.flow]] EXCEPT !.rsp_sent_seq = d.sent_seq]
         /\ \A p \in Places : p # slot[d.flow] => Maxseq'[p] = Maxseq[p]
         /\ \E pri \in {0, 1} :
              /\ NewSample(d, pri) \in Sample
              /\ idx_pri_high' = idx_pri_high + pri /\ idx_pri_low' = idx_pri_low + (1 - pri)
              /\ ack_time' = Append(ack_time, NewSample(d, pri))
              /\ ack_time' \in Seq(Sample) /\ Len(ack_time') = Len(ack_time) + 1
              /\ ack_time'[Len(ack_time) + 1] = NewSample(d, pri)
              /\ \A i \in 1 .. Len(ack_time) : ack_time'[i] = ack_time[i]
<1>1. /\ d.flow \in Flows /\ d.req \in 1 .. MaxReqs /\ d.sent_seq \in Words
      /\ d.ts \in 1 .. MaxTime
  BY DEF Packet
<1>2. slot[d.flow] \in Positions /\ d.ts - req_out_if[slot[d.flow]] > 0  BY TimedCases
<1>3. slot[d.flow] \in Places  BY <1>2, PlaceFacts
<1>4. Maxseq[slot[d.flow]] \in [req_sent_seq : Words, payload_len : {0, Payload}, rsp_sent_seq : Words]
  BY <1>3 DEF TypeInv, TableTypes
<1>5. [Maxseq[slot[d.flow]] EXCEPT !.rsp_sent_seq = d.sent_seq]
        \in [req_sent_seq : Words, payload_len : {0, Payload}, rsp_sent_seq : Words]
  BY <1>1, <1>4
<1>6. PICK pri \in {0, 1} :
        /\ idx_pri_high' = idx_pri_high + pri /\ idx_pri_low' = idx_pri_low + (1 - pri)
        /\ ack_time' = Append(ack_time, NewSample(d, pri))
  BY DEF Sampled
<1>7. NewSample(d, pri) \in Sample
  <2>1. req_out_if[slot[d.flow]] \in 0 .. MaxTime  BY <1>3 DEF TypeInv, TableTypes
  <2>2. d.ts - req_out_if[slot[d.flow]] \in 1 .. MaxTime  BY <1>1, <1>2, <2>1, Known
  <2> QED  BY <1>1, <1>6, <2>2 DEF NewSample, Sample
<1>8. ack_time \in Seq(Sample)  BY DEF TypeInv, SampleTypes
<1>9. /\ ack_time' \in Seq(Sample) /\ Len(ack_time') = Len(ack_time) + 1
      /\ ack_time'[Len(ack_time) + 1] = NewSample(d, pri)
      /\ \A i \in 1 .. Len(ack_time) : ack_time'[i] = ack_time[i]
  BY <1>6, <1>7, <1>8, AppendProperties
<1>10. Maxseq' = [Maxseq EXCEPT ![slot[d.flow]] = [Maxseq[slot[d.flow]] EXCEPT !.rsp_sent_seq = d.sent_seq]]
       /\ Maxseq \in [Places -> [req_sent_seq : Words, payload_len : {0, Payload}, rsp_sent_seq : Words]]
  BY DEF Sampled, TypeInv, TableTypes
<1> QED  BY <1>3, <1>5, <1>6, <1>7, <1>9, <1>10

LEMMA OnResponseTypes ==
  ASSUME TypeInv, NEW d \in Packet, OnResponse(d)
  PROVE  SlotInv' /\ TableTypes' /\ SampleTypes' /\ CounterTypes'
<1>0. SlotInv /\ TableTypes /\ SampleTypes /\ CounterTypes  BY DEF TypeInv
<1>1. pkt_rep' = pkt_rep + 1 /\ UNCHANGED <<slot, req_out_if, requestStats>>
  BY DEF OnResponse
<1>2. SlotInv'  BY <1>0, <1>1 DEF SlotInv
<1>3. CASE MissedResponse(d) \/ UntimedResponse(d)
  <2>1. /\ miss_rep' \in {miss_rep, miss_rep + 1}
        /\ UNCHANGED <<rsp_recount, ack_time, thre, idx_pri_high, idx_pri_low, Maxseq, priStats>>
    BY <1>3 DEF MissedResponse, UntimedResponse
  <2>2. TableTypes'  BY <1>0, <1>1, <2>1 DEF TableTypes, priStats, requestStats
  <2>3. SampleTypes'  BY <1>0, <2>1 DEF SampleTypes
  <2>4. CounterTypes'  BY <1>0, <1>1, <2>1 DEF CounterTypes, priStats, requestStats
  <2> QED  BY <1>2, <2>2, <2>3, <2>4
<1>4. CASE TimedResponse(d)
  <2>1. d.pri \in {0, 1} /\ slot[d.flow] \in Places
    BY <1>4, TimedCases, PlaceFacts DEF Packet
  <2>2. /\ recv_pri_high' \in Nat /\ recv_pri_low' \in Nat
        /\ req_hy_count' \in [Places -> [count : {0, 1}, pri : {-1, 0, 1}]]
    <3>1. CASE rsp_pri
      <4>1. /\ recv_pri_high' = recv_pri_high + d.pri
            /\ recv_pri_low' = recv_pri_low + (1 - d.pri)
            /\ req_hy_count' = [req_hy_count EXCEPT ![slot[d.flow]].pri = d.pri]
        BY <1>4, <3>1, TimedCases
      <4>2. recv_pri_high' \in Nat /\ recv_pri_low' \in Nat
        BY <1>0, <2>1, <4>1 DEF CounterTypes
      <4>3. req_hy_count' \in [Places -> [count : {0, 1}, pri : {-1, 0, 1}]]
        BY <1>0, <2>1, <4>1 DEF TableTypes
      <4> QED  BY <4>2, <4>3
    <3>2. CASE ~rsp_pri
      <4>1. UNCHANGED priStats  BY <1>4, <3>2, TimedCases
      <4> QED  BY <1>0, <4>1 DEF priStats, CounterTypes, TableTypes
    <3> QED  BY <3>1, <3>2
  <2>3. thre' = Grown(Len(ack_time))  BY <1>4, TimedCases
  <2>4. Len(ack_time) \in Nat  BY <1>0 DEF SampleTypes
  <2>5. thre' \in Nat /\ Len(ack_time) + 1 <= thre' + 1
    <3>1. thre \in Nat  BY <1>0 DEF SampleTypes
    <3> QED  BY <2>3, <2>4, <3>1 DEF Grown
  <2>6. CASE Sampled(d)
    <3>1. PICK pri \in {0, 1} :
              /\ idx_pri_high' = idx_pri_high + pri /\ idx_pri_low' = idx_pri_low + (1 - pri)
              /\ ack_time' \in Seq(Sample) /\ Len(ack_time') = Len(ack_time) + 1
      BY <1>4, <2>6, SampledFacts
    <3>2. Maxseq' \in [Places -> [req_sent_seq : Words, payload_len : {0, Payload}, rsp_sent_seq : Words]]
      BY <1>4, <2>6, SampledFacts
    <3>3. UNCHANGED <<miss_rep, rsp_recount>>  BY <2>6 DEF Sampled
    <3>4. TableTypes'  BY <1>0, <1>1, <2>2, <3>2 DEF TableTypes, requestStats
    <3>5. SampleTypes'  BY <2>5, <3>1 DEF SampleTypes
    <3>6. CounterTypes'  BY <1>0, <1>1, <2>2, <3>1, <3>3 DEF CounterTypes, requestStats
    <3> QED  BY <1>2, <3>4, <3>5, <3>6
  <2>7. CASE Recounted(d)
    <3>1. /\ rsp_recount' = rsp_recount + 1 /\ miss_rep' = miss_rep + 1
          /\ UNCHANGED <<Maxseq, ack_time, idx_pri_high, idx_pri_low>>
      BY <2>7 DEF Recounted
    <3>2. TableTypes'  BY <1>0, <1>1, <2>2, <3>1 DEF TableTypes, requestStats
    <3>3. SampleTypes'  BY <1>0, <2>4, <2>5, <3>1 DEF SampleTypes
    <3>4. CounterTypes'  BY <1>0, <1>1, <2>2, <3>1 DEF CounterTypes, requestStats
    <3> QED  BY <1>2, <3>2, <3>3, <3>4
  <2> QED  BY <1>4, <2>6, <2>7, TimedCases
<1> QED  BY <1>3, <1>4 DEF OnResponse

\* The MONITOR lcore takes one packet, and the clients go on undisturbed.
LEMMA MonitorTakes ==
  ASSUME TypeInv, NEW q \in Rings, Monitor(q)
  PROVE  /\ Take(q) /\ Head(net[q]) \in Packet /\ Head(net[q]) \in Waiting
         /\ Numbered(Head(net[q]))
         /\ OnRequest(Head(net[q])) \/ OnResponse(Head(net[q]))
         /\ ClientTypes' /\ PacketInv' /\ UNCHANGED <<clientVars, lost>>
<1>0. ClientTypes /\ net \in [Rings -> Seq(Packet)]  BY DEF TypeInv, PacketInv
<1>1. /\ Take(q) /\ UNCHANGED <<clientVars, lost>>
      /\ OnRequest(Head(net[q])) \/ OnResponse(Head(net[q]))
  BY DEF Monitor
<1>2. ClientTypes' /\ MoreRequests /\ ts <= ts'
  BY <1>0, <1>1, SameRequests DEF ClientTypes, clientVars
<1>3. /\ net' \in [Rings -> Seq(Packet)] /\ Waiting' \subseteq Waiting
      /\ Head(net[q]) \in Packet /\ Head(net[q]) \in Waiting
  BY <1>0, <1>1, TakeNet
<1>4. PacketInv'  BY <1>2, <1>3, PacketsWait
<1>5. Numbered(Head(net[q]))  BY <1>3 DEF TypeInv, PacketInv
<1> QED  BY <1>1, <1>2, <1>3, <1>4, <1>5

LEMMA TypeStep == TypeInv /\ [Next]_vars => TypeInv'
<1> SUFFICES ASSUME TypeInv, [Next]_vars PROVE TypeInv'
  OBVIOUS
<1>1. CASE Environment  BY <1>1, TypeEnvironment
<1>2. ASSUME NEW q \in Rings, Monitor(q) PROVE TypeInv'
  <2>1. ClientTypes' /\ PacketInv'  BY <1>2, MonitorTakes
  <2>2. Head(net[q]) \in Packet  BY <1>2, MonitorTakes
  <2>3. SlotInv' /\ TableTypes' /\ SampleTypes' /\ CounterTypes'
    BY <1>2, <2>2, MonitorTakes, OnRequestTypes, OnResponseTypes
  <2> QED  BY <2>1, <2>3 DEF TypeInv
<1>3. CASE UNCHANGED vars
  <2>1. /\ UNCHANGED <<clientVars, net, lost, monitorVars>>  BY <1>3 DEF vars
  <2>2. ClientTypes'  BY <2>1 DEF TypeInv, ClientTypes, clientVars
  <2>3. PacketInv'
    BY <2>1 DEF TypeInv, PacketInv, Waiting, Numbered, Ack, clientVars
  <2> QED  BY <2>1, <2>2, <2>3, MonitorSame DEF TypeInv
<1> QED  BY <1>1, <1>2, <1>3 DEF Next

\* The code's tables keep their types, and no sample is written more than one
\* place beyond the buffers, whatever the clients send and the network loses.
THEOREM ResponseTypes == Spec => []TypeOK
<1>1. Spec => []TypeInv  BY TypeInit, TypeStep, PTL DEF Spec
<1> QED  BY <1>1, TypeInvImpliesTypeOK, PTL

(* The counters.                                                           *)

HighSamples == {i \in DOMAIN ack_time : ack_time[i].pri = 1}

\* One sample more counts once, under its own priority.
LEMMA HighAfterSample ==
  ASSUME TypeInv, CountersAgree, NEW d \in Packet, TimedResponse(d), Sampled(d)
  PROVE  /\ idx_pri_high' + idx_pri_low' = Len(ack_time')
         /\ idx_pri_high' = Cardinality(HighSamples')
         /\ Len(ack_time') = Len(ack_time) + 1
<1>1. PICK pri \in {0, 1} :
        /\ NewSample(d, pri) \in Sample
        /\ idx_pri_high' = idx_pri_high + pri /\ idx_pri_low' = idx_pri_low + (1 - pri)
        /\ ack_time' \in Seq(Sample) /\ Len(ack_time') = Len(ack_time) + 1
        /\ ack_time'[Len(ack_time) + 1] = NewSample(d, pri)
        /\ \A i \in 1 .. Len(ack_time) : ack_time'[i] = ack_time[i]
  BY SampledFacts
<1>2. /\ ack_time \in Seq(Sample) /\ Len(ack_time) \in Nat /\ DOMAIN ack_time = 1 .. Len(ack_time)
      /\ DOMAIN ack_time' = 1 .. Len(ack_time')
  BY <1>1 DEF TypeInv, SampleTypes
<1> DEFINE n == Len(ack_time) + 1
<1>3. HighSamples' = IF pri = 1 THEN HighSamples \cup {n} ELSE HighSamples
  <2>1. NewSample(d, pri).pri = pri  BY DEF NewSample
  <2>2. DOMAIN ack_time' = 1 .. Len(ack_time) \cup {n}  BY <1>1, <1>2
  <2>3. \A i \in 1 .. Len(ack_time) : i # n  BY <1>2
  <2> QED  BY <1>1, <1>2, <2>1, <2>2, <2>3 DEF HighSamples
<1>4. IsFiniteSet(HighSamples) /\ n \notin HighSamples
  <2>1. IsFiniteSet(1 .. Len(ack_time))  BY <1>2, FS_Interval
  <2>2. HighSamples \subseteq 1 .. Len(ack_time)  BY <1>2 DEF HighSamples
  <2>3. IsFiniteSet(HighSamples)  BY <2>1, <2>2, FS_Subset
  <2> QED  BY <1>2, <2>2, <2>3
<1>5. Cardinality(HighSamples') = Cardinality(HighSamples) + pri
  <2>1. Cardinality(HighSamples) \in Nat  BY <1>4, FS_CardinalityType
  <2>2. Cardinality(HighSamples \cup {n}) = Cardinality(HighSamples) + 1
    BY <1>4, FS_AddElement
  <2> QED  BY <1>3, <2>1, <2>2
<1>6. idx_pri_high \in Nat /\ idx_pri_low \in Nat  BY DEF TypeInv, CounterTypes
<1>7. idx_pri_high = Cardinality(HighSamples) /\ idx_pri_high + idx_pri_low = Len(ack_time)
  BY DEF CountersAgree, HighSamples
<1>8. Len(ack_time') = Len(ack_time) + 1
      /\ idx_pri_high' = idx_pri_high + pri /\ idx_pri_low' = idx_pri_low + (1 - pri)
  BY <1>1
<1> HIDE DEF n
<1> QED  BY <1>2, <1>5, <1>6, <1>7, <1>8

LEMMA CountersMonitor ==
  ASSUME TypeInv, CountersAgree, NEW d \in Packet, OnRequest(d) \/ OnResponse(d)
  PROVE  CountersAgree'
<1>0. /\ d.pri \in {0, 1} /\ Len(ack_time) \in Nat /\ CounterTypes
  BY DEF Packet, TypeInv, SampleTypes
<1> USE DEF CounterTypes
<1>1. CASE OnRequest(d)
  <2>1. pkt_req' = pkt_req + 1 /\ UNCHANGED responseStats  BY <1>1 DEF OnRequest
  <2>2. req_recount' \in {req_recount, req_recount + 1}
    BY <1>1 DEF OnRequest, NewRequest, RepeatedRequest
  <2>3. IF rsp_pri THEN UNCHANGED <<recv_pri_high, recv_pri_low>>
        ELSE recv_pri_high' = recv_pri_high + d.pri /\ recv_pri_low' = recv_pri_low + (1 - d.pri)
    BY <1>1 DEF OnRequest
  <2>4. recv_pri_high' + recv_pri_low'
          = IF rsp_pri THEN Len(ack_time) + rsp_recount ELSE pkt_req'
    BY <1>0, <2>1, <2>3, SMTT(20) DEF CountersAgree
  <2>5. req_recount' <= pkt_req'  BY <1>0, <2>1, <2>2 DEF CountersAgree
  <2> QED  BY <1>0, <2>1, <2>4, <2>5 DEF CountersAgree, responseStats
<1>2. CASE OnResponse(d) /\ (MissedResponse(d) \/ UntimedResponse(d))
  <2>1. /\ pkt_rep' = pkt_rep + 1 /\ UNCHANGED requestStats
        /\ miss_rep' \in {miss_rep, miss_rep + 1}
        /\ UNCHANGED <<rsp_recount, ack_time, thre, idx_pri_high, idx_pri_low, Maxseq, priStats>>
    BY <1>2 DEF OnResponse, MissedResponse, UntimedResponse
  <2>2. Len(ack_time) + miss_rep' <= pkt_rep' /\ rsp_recount <= miss_rep'
    BY <1>0, <2>1, SMTT(20) DEF CountersAgree
  <2> QED  BY <2>1, <2>2 DEF CountersAgree, requestStats, priStats
<1>3. CASE OnResponse(d) /\ TimedResponse(d)
  <2>1. pkt_rep' = pkt_rep + 1 /\ UNCHANGED requestStats  BY <1>3 DEF OnResponse
  <2>2. IF rsp_pri THEN recv_pri_high' = recv_pri_high + d.pri /\ recv_pri_low' = recv_pri_low + (1 - d.pri)
        ELSE UNCHANGED priStats
    BY <1>3, TimedCases
  <2>5. recv_pri_high + recv_pri_low = IF rsp_pri THEN Len(ack_time) + rsp_recount ELSE pkt_req
    BY DEF CountersAgree
  <2>3. CASE Sampled(d)
    <3>1. /\ idx_pri_high' + idx_pri_low' = Len(ack_time')
          /\ idx_pri_high' = Cardinality(HighSamples')
          /\ Len(ack_time') = Len(ack_time) + 1
      BY <1>3, <2>3, HighAfterSample
    <3>2. UNCHANGED <<miss_rep, rsp_recount>>  BY <2>3 DEF Sampled
    <3>3. recv_pri_high' + recv_pri_low' = IF rsp_pri THEN Len(ack_time') + rsp_recount' ELSE pkt_req'
      <4>1. CASE rsp_pri  BY <1>0, <2>2, <2>5, <3>1, <3>2, <4>1
      <4>2. CASE ~rsp_pri  BY <1>0, <2>1, <2>2, <2>5, <4>2 DEF requestStats, priStats
      <4> QED  BY <4>1, <4>2
    <3>4. Len(ack_time') + miss_rep' <= pkt_rep' /\ rsp_recount' <= miss_rep'
      BY <1>0, <2>1, <3>1, <3>2 DEF CountersAgree
    <3> QED  BY <2>1, <3>1, <3>3, <3>4 DEF CountersAgree, HighSamples, requestStats
  <2>4. CASE Recounted(d)
    <3>1. /\ rsp_recount' = rsp_recount + 1 /\ miss_rep' = miss_rep + 1
          /\ UNCHANGED <<Maxseq, ack_time, idx_pri_high, idx_pri_low>>
      BY <2>4 DEF Recounted
    <3>2. recv_pri_high' + recv_pri_low' = IF rsp_pri THEN Len(ack_time) + rsp_recount' ELSE pkt_req'
      <4>1. CASE rsp_pri  BY <1>0, <2>2, <2>5, <3>1, <4>1
      <4>2. CASE ~rsp_pri  BY <1>0, <2>1, <2>2, <2>5, <4>2 DEF requestStats, priStats
      <4> QED  BY <4>1, <4>2
    <3>3. Len(ack_time) + miss_rep' <= pkt_rep' /\ rsp_recount' <= miss_rep'
      BY <1>0, <2>1, <3>1 DEF CountersAgree
    <3> QED  BY <2>1, <3>1, <3>2, <3>3 DEF CountersAgree, requestStats
  <2> QED  BY <1>3, <2>3, <2>4, TimedCases
<1> QED  BY <1>1, <1>2, <1>3 DEF OnResponse

LEMMA CountersInit == Init => CountersAgree
<1> SUFFICES ASSUME Init PROVE CountersAgree
  OBVIOUS
<1>1. {i \in DOMAIN ack_time : ack_time[i].pri = 1} = {} /\ Len(ack_time) = 0
  BY DEF Init
<1>2. Cardinality({}) = 0  BY FS_EmptySet
<1> QED  BY <1>1, <1>2 DEF Init, CountersAgree

\* No environment step touches what the MONITOR lcore counts.
LEMMA EnvironmentKeeps ==
  Environment \/ UNCHANGED vars => UNCHANGED monitorVars
  BY DEF Environment, Tick, Request, RequestAgain, Reply, ReplyAgain, Reconnect, Lose, vars

LEMMA CountersStep == TypeInv /\ CountersAgree /\ [Next]_vars => CountersAgree'
<1> SUFFICES ASSUME TypeInv, CountersAgree, [Next]_vars PROVE CountersAgree'
  OBVIOUS
<1>1. CASE Environment \/ UNCHANGED vars
  <2>1. UNCHANGED <<requestStats, responseStats, priStats>>
    BY <1>1, EnvironmentKeeps DEF monitorVars
  <2> QED  BY <2>1 DEF CountersAgree, requestStats, responseStats, priStats
<1>2. ASSUME NEW q \in Rings, Monitor(q) PROVE CountersAgree'
  BY <1>2, MonitorTakes, CountersMonitor
<1> QED  BY <1>1, <1>2 DEF Next

\* The number of samples, their priorities, the misses and the copies counted
\* are consistent with each other and with the packets taken.
THEOREM CountersStayConsistent == Spec => []CountersAgree
<1>1. Init => TypeInv /\ CountersAgree  BY TypeInit, CountersInit
<1>2. (TypeInv /\ CountersAgree) /\ [Next]_vars => (TypeInv /\ CountersAgree)'
  BY TypeStep, CountersStep
<1> QED  BY <1>1, <1>2, PTL DEF Spec

(* One sample of a request.                                                *)

\* A sample's response is not later than the last one its position has seen.
Acked(s) ==
  /\ s.flow \in DOMAIN slot /\ s.req <= Len(reqs[s.flow])
  /\ Ack(s.flow, s.req) <= Maxseq[slot[s.flow]].rsp_sent_seq

AckInv == \A s \in Samples : Acked(s)

LEMMA EnvironmentRequests ==
  ASSUME TypeInv, [Next]_vars
  PROVE  MoreRequests
<1>0. ClientTypes  BY DEF TypeInv
<1>1. ASSUME NEW f \in Flows, Request(f) PROVE MoreRequests  BY <1>1, RequestSends
<1>2. CASE UNCHANGED reqs  BY <1>0, <1>2, SameRequests
<1>3. UNCHANGED reqs \/ \E f \in Flows : Request(f)
  BY DEF Next, Environment, Tick, RequestAgain, Reply, ReplyAgain, Reconnect, Lose, Monitor,
         vars, clientVars
<1> QED  BY <1>1, <1>2, <1>3

\* The number of a request made before does not change.
LEMMA AckKept ==
  ASSUME TypeInv, [Next]_vars, NEW f \in Flows, NEW k \in 1 .. Len(reqs[f])
  PROVE  /\ k \in 1 .. Len(reqs'[f]) /\ k \in 1 .. MaxReqs
         /\ reqs'[f][k] = reqs[f][k] /\ Ack(f, k)' = Ack(f, k)
         /\ reqs[f][k] \in Words /\ Ack(f, k) \in Words
<1>1. MoreRequests  BY EnvironmentRequests
<1>2. ClientTypes /\ ClientTypes'  BY TypeStep DEF TypeInv
<1>3. /\ Len(reqs[f]) \in 0 .. MaxReqs
      /\ k \in 1 .. MaxReqs /\ reqs[f][k] \in Words /\ Ack(f, k) \in Words
  BY <1>2, RequestFacts
<1>4. reqs'[f] \in Seq(Words)  BY <1>2 DEF ClientTypes
<1>5. reqs'[f][k] = reqs[f][k] /\ Len(reqs[f]) <= Len(reqs'[f])  BY <1>1 DEF MoreRequests
<1>6. k \in 1 .. Len(reqs'[f])  BY <1>3, <1>4, <1>5
<1> QED  BY <1>3, <1>5, <1>6 DEF Ack

\* The positions of the keys stay, and their last response does not go back.
LEMMA SlotsStay ==
  ASSUME TypeInv, [Next]_vars, NEW f \in DOMAIN slot
  PROVE  /\ f \in Flows /\ f \in DOMAIN slot' /\ slot'[f] = slot[f]
         /\ slot[f] \in Positions /\ slot[f] \in Places
         /\ Maxseq[slot[f]].rsp_sent_seq \in Words
         /\ Maxseq'[slot[f]].rsp_sent_seq \in Words
         /\ Maxseq[slot[f]].rsp_sent_seq <= Maxseq'[slot[f]].rsp_sent_seq
<1>1. f \in Flows /\ slot[f] \in Positions /\ slot[f] \in Places
  BY PlaceFacts DEF TypeInv, SlotInv
<1>2. Maxseq[slot[f]].rsp_sent_seq \in Words /\ Maxseq'[slot[f]].rsp_sent_seq \in Words
  BY <1>1, TypeStep DEF TypeInv, TableTypes
<1>3. Maxseq[slot[f]].rsp_sent_seq \in Nat /\ Maxseq'[slot[f]].rsp_sent_seq \in Nat
      /\ Words \subseteq Nat
  <2>1. Words \subseteq Nat  BY Known DEF Words
  <2> QED  BY <1>2, <2>1
<1>4. CASE Environment \/ UNCHANGED vars
  <2>1. UNCHANGED <<slot, Maxseq>>  BY <1>4, EnvironmentKeeps DEF monitorVars, tableVars
  <2>2. Maxseq'[slot[f]].rsp_sent_seq = Maxseq[slot[f]].rsp_sent_seq /\ f \in DOMAIN slot'
        /\ slot'[f] = slot[f]
    BY <2>1
  <2> QED  BY <1>1, <1>2, <1>3, <2>2
<1>5. ASSUME NEW q \in Rings, Monitor(q), OnRequest(Head(net[q]))
      PROVE  /\ f \in DOMAIN slot' /\ slot'[f] = slot[f]
             /\ Maxseq'[slot[f]].rsp_sent_seq = Maxseq[slot[f]].rsp_sent_seq
  <2> DEFINE d == Head(net[q])
  <2>1. d \in Packet  BY <1>5, MonitorTakes
  <2>2. PICK pos \in Places :
          /\ AddKey(d.flow, pos)
          /\ Stamped(pos, d) \/ UNCHANGED <<Maxseq, req_out_if>>
    BY <1>5, <2>1, OnRequestTable
  <2>3. f \in DOMAIN slot' /\ slot'[f] = slot[f]
    <3>1. d.flow \in Flows /\ SlotInv  BY <2>1 DEF Packet, TypeInv
    <3> HIDE DEF d
    <3> QED  BY <2>2, <3>1, AddKeyFacts
  <2>4. Maxseq'[slot[f]].rsp_sent_seq = Maxseq[slot[f]].rsp_sent_seq
    <3> HIDE DEF d
    <3>1. CASE Stamped(pos, d) /\ pos = slot[f]  BY <3>1 DEF Stamped
    <3>2. CASE Stamped(pos, d) /\ pos # slot[f]  BY <1>1, <3>2 DEF Stamped
    <3>3. CASE UNCHANGED Maxseq  BY <3>3
    <3> QED  BY <2>2, <3>1, <3>2, <3>3
  <2> QED  BY <2>3, <2>4
<1>6. ASSUME NEW q \in Rings, Monitor(q), OnResponse(Head(net[q]))
      PROVE  slot' = slot /\ Maxseq[slot[f]].rsp_sent_seq <= Maxseq'[slot[f]].rsp_sent_seq
  <2> DEFINE d == Head(net[q])
  <2>1. d \in Packet /\ OnResponse(d)  BY <1>6, MonitorTakes
  <2> HIDE DEF d
  <2>2. slot' = slot  BY <2>1 DEF OnResponse
  <2>3. CASE UNCHANGED Maxseq
    <3>1. Maxseq'[slot[f]].rsp_sent_seq = Maxseq[slot[f]].rsp_sent_seq  BY <2>3
    <3> QED  BY <1>3, <2>2, <3>1
  <2>4. CASE TimedResponse(d) /\ Sampled(d)
    <3>1. /\ Maxseq'[slot[d.flow]] = [Maxseq[slot[d.flow]] EXCEPT !.rsp_sent_seq = d.sent_seq]
          /\ \A p \in Places : p # slot[d.flow] => Maxseq'[p] = Maxseq[p]
      BY <2>1, <2>4, SampledFacts
    <3>2. d.sent_seq > Maxseq[slot[d.flow]].rsp_sent_seq  BY <2>4 DEF Sampled, IsNewResponse
    <3>3. d.sent_seq \in Nat  BY <1>3, <2>1 DEF Packet
    <3>4. CASE slot[f] = slot[d.flow]
      <4>1. Maxseq[slot[f]] \in [req_sent_seq : Words, payload_len : {0, Payload}, rsp_sent_seq : Words]
        BY <1>1 DEF TypeInv, TableTypes
      <4>2. Maxseq'[slot[f]].rsp_sent_seq = d.sent_seq  BY <3>1, <3>4, <4>1
      <4>3. Maxseq[slot[f]].rsp_sent_seq < d.sent_seq  BY <3>2, <3>4
      <4>4. \A a, b \in Nat : a < b => a <= b  OBVIOUS
      <4>5. Maxseq[slot[f]].rsp_sent_seq <= d.sent_seq  BY <1>3, <3>3, <4>3, <4>4
      <4> QED  BY <2>2, <4>2, <4>5
    <3>5. CASE slot[f] # slot[d.flow]
      <4>1. Maxseq'[slot[f]] = Maxseq[slot[f]]  BY <1>1, <3>1, <3>5
      <4>2. \A a \in Nat : a <= a  OBVIOUS
      <4> QED  BY <1>3, <2>2, <4>1, <4>2
    <3> QED  BY <2>2, <3>4, <3>5
  <2>5. UNCHANGED Maxseq \/ (TimedResponse(d) /\ Sampled(d))
    <3>1. CASE TimedResponse(d)  BY <2>1, <3>1, TimedCases DEF Recounted
    <3>2. CASE MissedResponse(d) \/ UntimedResponse(d)
      BY <3>2 DEF MissedResponse, UntimedResponse
    <3> QED  BY <2>1, <3>1, <3>2 DEF OnResponse
  <2> QED  BY <2>2, <2>3, <2>4, <2>5
<1>7. CASE \E q \in Rings : Monitor(q)
  <2>1. PICK q \in Rings : Monitor(q)  BY <1>7
  <2>2. OnRequest(Head(net[q])) \/ OnResponse(Head(net[q]))  BY <2>1, MonitorTakes
  <2>3. /\ f \in DOMAIN slot' /\ slot'[f] = slot[f]
        /\ Maxseq[slot[f]].rsp_sent_seq <= Maxseq'[slot[f]].rsp_sent_seq
    <3>1. CASE OnRequest(Head(net[q]))
      <4>1. /\ f \in DOMAIN slot' /\ slot'[f] = slot[f]
            /\ Maxseq'[slot[f]].rsp_sent_seq = Maxseq[slot[f]].rsp_sent_seq
        BY <1>5, <2>1, <3>1
      <4> QED  BY <1>3, <4>1
    <3>2. CASE OnResponse(Head(net[q]))
      <4>1. slot' = slot /\ Maxseq[slot[f]].rsp_sent_seq <= Maxseq'[slot[f]].rsp_sent_seq
        BY <1>6, <2>1, <3>2
      <4> QED  BY <4>1
    <3> QED  BY <2>2, <3>1, <3>2
  <2> QED  BY <1>1, <1>2, <2>3
<1> QED  BY <1>1, <1>2, <1>3, <1>4, <1>7 DEF Next

\* The sample buffers grow by the response taken, or not at all.
LEMMA SampleCases ==
  ASSUME TypeInv, [Next]_vars
  PROVE  \/ UNCHANGED ack_time
         \/ \E q \in Rings : \E d, pri :
              /\ Monitor(q) /\ d = Head(net[q]) /\ d.type = "M_RSP"
              /\ d \in Packet /\ Numbered(d) /\ d \in Waiting
              /\ TimedResponse(d) /\ Sampled(d) /\ OnResponse(d)
              /\ ack_time' \in Seq(Sample) /\ Len(ack_time') = Len(ack_time) + 1
              /\ ack_time'[Len(ack_time) + 1] = NewSample(d, pri)
              /\ \A i \in 1 .. Len(ack_time) : ack_time'[i] = ack_time[i]
<1>1. CASE Environment \/ UNCHANGED vars
  BY <1>1, EnvironmentKeeps DEF monitorVars, responseStats
<1>2. ASSUME NEW q \in Rings, Monitor(q), OnRequest(Head(net[q])) PROVE UNCHANGED ack_time
  BY <1>2 DEF OnRequest, responseStats
<1>3. ASSUME NEW q \in Rings, Monitor(q), OnResponse(Head(net[q])),
             NEW d, d = Head(net[q])
      PROVE  \/ UNCHANGED ack_time
             \/ \E pri :
                  /\ d.type = "M_RSP"
                  /\ d \in Packet /\ Numbered(d) /\ d \in Waiting
                  /\ TimedResponse(d) /\ Sampled(d) /\ OnResponse(d)
                  /\ ack_time' \in Seq(Sample) /\ Len(ack_time') = Len(ack_time) + 1
                  /\ ack_time'[Len(ack_time) + 1] = NewSample(d, pri)
                  /\ \A i \in 1 .. Len(ack_time) : ack_time'[i] = ack_time[i]
  <2>1. d \in Packet /\ Numbered(d) /\ d \in Waiting /\ OnResponse(d)
    BY <1>3, MonitorTakes
  <2>2. d.type = "M_RSP"  BY <2>1 DEF OnResponse
  <2>3. CASE MissedResponse(d) \/ UntimedResponse(d)
    BY <2>3 DEF MissedResponse, UntimedResponse
  <2>4. CASE TimedResponse(d) /\ Recounted(d)  BY <2>4 DEF Recounted
  <2>5. CASE TimedResponse(d) /\ Sampled(d)
    BY <2>1, <2>2, <2>5, SampledFacts
  <2> QED  BY <2>1, <2>3, <2>4, <2>5, TimedCases DEF OnResponse
<1>4. ASSUME NEW q \in Rings, Monitor(q)
      PROVE  OnRequest(Head(net[q])) \/ OnResponse(Head(net[q]))
  BY <1>4, MonitorTakes
<1> QED  BY <1>1, <1>2, <1>3, <1>4 DEF Next

LEMMA AckStep ==
  ASSUME TypeInv, [Next]_vars, AckInv
  PROVE  AckInv'
<1>0. TypeInv'  BY TypeStep
<1>1. ack_time \in Seq(Sample) /\ ack_time' \in Seq(Sample)
  BY <1>0 DEF TypeInv, SampleTypes
<1>2. ASSUME NEW s \in Samples PROVE Acked(s)'
  <2>0. s \in Sample /\ Acked(s)  BY <1>1 DEF Samples, AckInv
  <2>1. s.flow \in Flows /\ s.req \in 1 .. MaxReqs  BY <2>0 DEF Sample
  <2>2. Len(reqs[s.flow]) \in 0 .. MaxReqs  BY <2>1, RequestFacts DEF TypeInv
  <2>3. s.req \in 1 .. Len(reqs[s.flow])  BY <2>0, <2>1, <2>2, Known DEF Acked
  <2>4. /\ s.req \in 1 .. Len(reqs'[s.flow])
        /\ Ack(s.flow, s.req)' = Ack(s.flow, s.req) /\ Ack(s.flow, s.req) \in Words
    BY <2>1, <2>3, AckKept
  <2>5. /\ s.flow \in DOMAIN slot' /\ slot'[s.flow] = slot[s.flow]
        /\ Maxseq[slot[s.flow]].rsp_sent_seq \in Words
        /\ Maxseq'[slot[s.flow]].rsp_sent_seq \in Words
        /\ Maxseq[slot[s.flow]].rsp_sent_seq <= Maxseq'[slot[s.flow]].rsp_sent_seq
    BY <2>0, SlotsStay DEF Acked
  <2>6. \A a, b, c \in Words : a <= b /\ b <= c => a <= c  BY Known DEF Words
  <2>7. Ack(s.flow, s.req) <= Maxseq'[slot[s.flow]].rsp_sent_seq  BY <2>0, <2>4, <2>5, <2>6 DEF Acked
  <2>8. s.req <= Len(reqs'[s.flow])  BY <2>4
  <2> QED  BY <2>4, <2>5, <2>7, <2>8 DEF Acked
<1>3. CASE UNCHANGED ack_time  BY <1>2, <1>3 DEF AckInv, Samples
<1>4. ASSUME NEW d, NEW pri, NEW q \in Rings, Monitor(q), d.type = "M_RSP",
             d \in Packet, Numbered(d), TimedResponse(d), Sampled(d), OnResponse(d),
             ack_time' \in Seq(Sample), Len(ack_time') = Len(ack_time) + 1,
             ack_time'[Len(ack_time) + 1] = NewSample(d, pri),
             \A i \in 1 .. Len(ack_time) : ack_time'[i] = ack_time[i],
             NEW s, s = NewSample(d, pri)
      PROVE  AckInv'
  <2>1. Samples' \subseteq Samples \cup {s}
    <3>1. Len(ack_time) \in Nat /\ DOMAIN ack_time = 1 .. Len(ack_time)
          /\ DOMAIN ack_time' = 1 .. Len(ack_time) + 1
      BY <1>1, <1>4
    <3> QED  BY <1>4, <3>1 DEF Samples
  <2>2. s.flow = d.flow /\ s.req = d.req  BY <1>4 DEF NewSample
  <2>3. d.flow \in DOMAIN slot /\ slot[d.flow] \in Positions
    BY <1>4, TimedCases
  <2>4. slot' = slot /\ UNCHANGED reqs  BY <1>4 DEF OnResponse, Monitor, clientVars
  <2>5. Ack(d.flow, d.req)' = d.sent_seq  BY <1>4, <2>4 DEF Numbered, Ack
  <2>6. Maxseq'[slot[d.flow]].rsp_sent_seq = d.sent_seq
    <3>1. Maxseq'[slot[d.flow]] = [Maxseq[slot[d.flow]] EXCEPT !.rsp_sent_seq = d.sent_seq]
      BY <1>4, SampledFacts
    <3>2. Maxseq[slot[d.flow]] \in [req_sent_seq : Words, payload_len : {0, Payload}, rsp_sent_seq : Words]
      BY <2>3, PlaceFacts DEF TypeInv, TableTypes
    <3> QED  BY <3>1, <3>2
  <2>7. d.sent_seq <= d.sent_seq
    <3>1. d.sent_seq \in Words  BY <1>4 DEF Packet
    <3>2. \A a \in Words : a <= a  BY Known DEF Words
    <3> QED  BY <3>1, <3>2
  <2>8. d.req <= Len(reqs[d.flow])  BY <1>4 DEF Numbered
  <2>9. Acked(s)'  BY <2>2, <2>3, <2>4, <2>5, <2>6, <2>7, <2>8 DEF Acked, Ack
  <2> QED  BY <1>2, <2>1, <2>9 DEF AckInv
<1> QED  BY <1>3, <1>4, SampleCases

LEMMA OnceStep ==
  ASSUME TypeInv, [Next]_vars, AckInv, OneSamplePerRequest
  PROVE  OneSamplePerRequest'
<1>1. ack_time \in Seq(Sample) /\ Len(ack_time) \in Nat /\ DOMAIN ack_time = 1 .. Len(ack_time)
  BY DEF TypeInv, SampleTypes
<1>2. CASE UNCHANGED ack_time  BY <1>2 DEF OneSamplePerRequest
<1>3. ASSUME NEW d, NEW pri, d.type = "M_RSP", d \in Packet, Numbered(d), Sampled(d),
             ack_time' \in Seq(Sample), Len(ack_time') = Len(ack_time) + 1,
             ack_time'[Len(ack_time) + 1] = NewSample(d, pri),
             \A i \in 1 .. Len(ack_time) : ack_time'[i] = ack_time[i]
      PROVE  OneSamplePerRequest'
  <2>1. DOMAIN ack_time' = 1 .. Len(ack_time) \cup {Len(ack_time) + 1}
    BY <1>1, <1>3
  <2>2. NewSample(d, pri).flow = d.flow /\ NewSample(d, pri).req = d.req  BY DEF NewSample
  <2>3. ASSUME NEW i \in 1 .. Len(ack_time), ack_time[i].flow = d.flow, ack_time[i].req = d.req
        PROVE  FALSE
    <3>1. d.flow \in DOMAIN slot /\ Ack(d.flow, d.req) <= Maxseq[slot[d.flow]].rsp_sent_seq
      BY <1>1, <2>3 DEF AckInv, Acked, Samples
    <3>2. Ack(d.flow, d.req) = d.sent_seq  BY <1>3 DEF Numbered
    <3>3. d.sent_seq > Maxseq[slot[d.flow]].rsp_sent_seq  BY <1>3 DEF Sampled, IsNewResponse
    <3>4. d.sent_seq \in Words /\ Maxseq[slot[d.flow]].rsp_sent_seq \in Words
      BY <1>3, <3>1, SlotsStay DEF Packet
    <3>5. \A a, b \in Words : a <= b => ~(a > b)  BY Known DEF Words
    <3> QED  BY <3>1, <3>2, <3>3, <3>4, <3>5
  <2> QED  BY <1>1, <1>3, <2>1, <2>2, <2>3 DEF OneSamplePerRequest
<1> QED  BY <1>2, <1>3, SampleCases

\* However often a response is captured, and however sequence numbers wrap or
\* connections are opened again, no request gives two samples.
THEOREM RequestsSampledOnce == Spec => []OneSamplePerRequest
<1> DEFINE Inv == TypeInv /\ AckInv /\ OneSamplePerRequest
<1>1. Init => Inv
  <2>1. Init => ack_time = <<>> /\ Len(ack_time) = 0  BY DEF Init
  <2>2. ack_time = <<>> /\ Len(ack_time) = 0 => AckInv /\ OneSamplePerRequest
    BY DEF AckInv, Samples, OneSamplePerRequest
  <2> QED  BY <2>1, <2>2, TypeInit
<1>2. Inv /\ [Next]_vars => Inv'  BY TypeStep, AckStep, OnceStep
<1> QED  BY <1>1, <1>2, PTL DEF Spec

(* Sequence numbers modulo SeqMod.                                         *)

LEMMA ModShift ==
  ASSUME NEW n \in Nat \ {0}, NEW x \in Nat, NEW y \in Nat
  PROVE  ((x % n) + y) % n = (x + y) % n
<1> DEFINE k == x \div n
           r == x % n
<1>1. k \in Nat /\ r \in 0 .. n - 1 /\ x = k * n + r /\ k * n \in Nat  BY DivMod
<1> HIDE DEF k, r
<1> DEFINE z == r + y
           j == z \div n
           s == z % n
<1>2. z \in Nat  BY <1>1
<1>3. j \in Nat /\ s \in 0 .. n - 1 /\ z = j * n + s /\ j * n \in Nat  BY <1>2, DivMod
<1>4. x + y = k * n + z  BY <1>1
<1> HIDE DEF j, s, z
<1>5. (k + j) * n = k * n + j * n  BY <1>1, <1>3, SMT
<1>6. x + y = (k + j) * n + s  BY <1>1, <1>3, <1>4, <1>5
<1>7. k + j \in Nat  BY <1>1, <1>3
<1>8. ((k + j) * n + s) % n = s  BY <1>3, <1>7, ModUnique
<1>9. (x + y) % n = s  BY <1>6, <1>8, Zenon
<1> QED  BY <1>9, Zenon DEF s, z, r

\* The distance of two numbers less than n apart, seen modulo n.
LEMMA ModDistance ==
  ASSUME NEW n \in Nat \ {0}, NEW b \in Nat, NEW c \in Nat, -n < c - b, c - b < n
  PROVE  ((c % n) - (b % n)) % n = IF b <= c THEN c - b ELSE c - b + n
<1> DEFINE j == b \div n
           k == c \div n
           r == b % n
           s == c % n
<1>1. j \in Nat /\ r \in 0 .. n - 1 /\ b = j * n + r /\ j * n \in Nat  BY DivMod
<1>2. k \in Nat /\ s \in 0 .. n - 1 /\ c = k * n + s /\ k * n \in Nat  BY DivMod
<1> HIDE DEF j, k, r, s
<1> DEFINE d == s - r
<1>3. d \in Int /\ -n < d /\ d < n  BY <1>1, <1>2
<1>4. c - b = k * n - j * n + d  BY <1>1, <1>2
<1> HIDE DEF d
<1> DEFINE m == d % n
<1>5. m = IF d < 0 THEN d + n ELSE d
  <2>1. -n < d /\ d < 2 * n /\ d \in Int  BY <1>3
  <2>2. d % n = IF d < 0 THEN d + n ELSE IF d < n THEN d ELSE d - n
    BY <2>1, ModRing
  <2> HIDE DEF m
  <2>3. m = IF d < 0 THEN d + n ELSE IF d < n THEN d ELSE d - n
    BY <2>2, Zenon DEF m
  <2> QED  BY <1>3, <2>3
<1> HIDE DEF m
<1>6. ASSUME NEW x \in Nat, NEW y \in Nat, x + 1 <= y
      PROVE  x * n \in Nat /\ y * n \in Nat /\ x * n + n <= y * n
  <2>1. (x + 1) * n <= y * n /\ y * n \in Nat /\ x * n \in Nat  BY <1>6, Monotone
  <2>2. (x + 1) * n = x * n + n  BY SMT
  <2> QED  BY <2>1, <2>2
<1>7. ASSUME k = j PROVE m = IF b <= c THEN c - b ELSE c - b + n
  BY <1>1, <1>2, <1>3, <1>4, <1>5, <1>7
<1>8. ASSUME j + 1 <= k PROVE m = IF b <= c THEN c - b ELSE c - b + n
  <2>1. j * n + n <= k * n  BY <1>1, <1>2, <1>6, <1>8
  <2>2. ~(j + 1 + 1 <= k)
    <3> SUFFICES ASSUME j + 1 + 1 <= k PROVE FALSE
      OBVIOUS
    <3>1. (j + 1) * n + n <= k * n  BY <1>1, <1>2, <1>6
    <3>2. (j + 1) * n = j * n + n  BY <1>1, SMT
    <3> QED  BY <1>1, <1>2, <1>3, <1>4, <3>1, <3>2
  <2>3. k = j + 1  BY <1>1, <1>2, <1>8, <2>2
  <2>4. k * n = j * n + n  BY <1>1, <2>3, SMT
  <2>5. c - b = n + d  BY <1>1, <1>3, <1>4, <2>4
  <2> QED  BY <1>3, <1>5, <2>5
<1>9. ASSUME k + 1 <= j PROVE m = IF b <= c THEN c - b ELSE c - b + n
  <2>1. k * n + n <= j * n  BY <1>1, <1>2, <1>6, <1>9
  <2>2. ~(k + 1 + 1 <= j)
    <3> SUFFICES ASSUME k + 1 + 1 <= j PROVE FALSE
      OBVIOUS
    <3>1. (k + 1) * n + n <= j * n  BY <1>1, <1>2, <1>6
    <3>2. (k + 1) * n = k * n + n  BY <1>2, SMT
    <3> QED  BY <1>1, <1>2, <1>3, <1>4, <3>1, <3>2
  <2>3. j = k + 1  BY <1>1, <1>2, <1>9, <2>2
  <2>4. j * n = k * n + n  BY <1>2, <2>3, SMT
  <2>5. c - b = d - n  BY <1>2, <1>3, <1>4, <2>4
  <2> QED  BY <1>3, <1>5, <2>5
<1>10. m = IF b <= c THEN c - b ELSE c - b + n
  BY <1>1, <1>2, <1>7, <1>8, <1>9
<1> QED  BY <1>10, Zenon DEF m, d, r, s

(* What a connection's requests need for the code's tests to be exact.     *)

\* No request has the number 0 (the table's own start value), and the
\* payload of all requests of a flow is less than the whole number space.
OnePass ==
  /\ MaxReqs * Payload < SeqMod
  /\ \A a \in FirstSeqs : \A k \in 0 .. MaxReqs - 1 : Plus(a, k * Payload) # 0

\* The k-th number after a.
SeqNo(a, k) == Plus(a, (k - 1) * Payload)

LEMMA SeqNoFacts ==
  ASSUME NEW a \in Words, NEW k \in Nat \ {0}
  PROVE  /\ (k - 1) * Payload \in Nat /\ k * Payload = (k - 1) * Payload + Payload
         /\ SeqNo(a, k) \in Words
         /\ Plus(SeqNo(a, k), Payload) = Plus(a, k * Payload)
         /\ SeqNo(a, k + 1) = Plus(a, k * Payload)
<1> DEFINE i == k - 1
           x == i * Payload
<1>1. i \in Nat /\ k = i + 1 /\ Payload \in Nat /\ SeqMod \in Nat \ {0} /\ a \in Nat
  BY Known DEF Words
<1>2. x \in Nat /\ k * Payload = x + Payload
  <2> HIDE DEF i
  <2>1. (i + 1) * Payload = i * Payload + Payload /\ i * Payload \in Nat  BY <1>1, SMT
  <2> QED  BY <1>1, <2>1
<1>3. SeqNo(a, k) \in Words
  <2> HIDE DEF x
  <2>1. a \in Int /\ x \in Int  BY <1>1, <1>2
  <2>2. Plus(a, x) \in Words  BY <2>1, PlusWord
  <2> QED  BY <2>2 DEF SeqNo, x
<1>4. Plus(SeqNo(a, k), Payload) = Plus(a, k * Payload)
  <2> HIDE DEF x
  <2>1. a + x \in Nat  BY <1>1, <1>2
  <2>2. (((a + x) % SeqMod) + Payload) % SeqMod = (a + x + Payload) % SeqMod
    BY <1>1, <2>1, ModShift
  <2>3. a + x + Payload = a + k * Payload  BY <1>1, <1>2
  <2>4. SeqNo(a, k) = (a + x) % SeqMod  BY Zenon DEF SeqNo, Plus, x, i
  <2> QED  BY <2>2, <2>3, <2>4, Zenon DEF Plus
<1>5. SeqNo(a, k + 1) = Plus(a, k * Payload)
  <2>1. k + 1 - 1 = k  BY <1>1
  <2> QED  BY <2>1 DEF SeqNo
<1> QED  BY <1>2, <1>3, <1>4, <1>5 DEF x, i

\* The window test lets through the acknowledgement of the request itself and
\* that of the request before, which acknowledges up to its first byte.
LEMMA WindowExact ==
  ASSUME OnePass, NEW a \in Words, NEW j \in 1 .. MaxReqs, NEW k \in 1 .. MaxReqs,
         Minus(Plus(SeqNo(a, k), Payload), SeqNo(a, j)) <= Payload
  PROVE  k = j \/ k + 1 = j
<1> DEFINE u == (k - 1) * Payload
           v == (j - 1) * Payload
           b == a + v
           c == a + u + Payload
<1>1. /\ j \in Nat \ {0} /\ k \in Nat \ {0} /\ j - 1 \in Nat /\ k - 1 \in Nat
      /\ Payload \in Nat \ {0} /\ SeqMod \in Nat \ {0} /\ a \in Nat /\ MaxReqs \in Nat
  BY Known DEF Words
<1>2. u \in Nat /\ v \in Nat /\ k * Payload = u + Payload /\ j * Payload = v + Payload
  BY <1>1, SeqNoFacts
<1>3. k * Payload <= MaxReqs * Payload /\ j * Payload <= MaxReqs * Payload
      /\ MaxReqs * Payload \in Nat /\ MaxReqs * Payload < SeqMod
  BY <1>1, Monotone DEF OnePass
<1>4. /\ k + 1 <= j => u + Payload <= v
      /\ k + 2 <= j => u + 2 * Payload <= v
      /\ j + 1 <= k => v + Payload <= u
  <2>1. ASSUME NEW x \in Nat, NEW y \in Nat, x + 1 <= y
        PROVE  x * Payload \in Nat /\ y * Payload \in Nat /\ x * Payload + Payload <= y * Payload
    <3>1. (x + 1) * Payload <= y * Payload /\ y * Payload \in Nat /\ x * Payload \in Nat
      BY <1>1, <2>1, Monotone
    <3>2. (x + 1) * Payload = x * Payload + Payload  BY <1>1, SMT
    <3> QED  BY <3>1, <3>2
  <2>2. k + 1 <= j => u + Payload <= v
    <3> SUFFICES ASSUME k + 1 <= j PROVE u + Payload <= v
      OBVIOUS
    <3>1. (k - 1) + 1 <= j - 1  BY <1>1
    <3> QED  BY <1>1, <2>1, <3>1
  <2>3. k + 2 <= j => u + 2 * Payload <= v
    <3> SUFFICES ASSUME k + 2 <= j PROVE u + 2 * Payload <= v
      OBVIOUS
    <3>1. k + 1 <= j - 1  BY <1>1
    <3>2. k * Payload + Payload <= (j - 1) * Payload  BY <1>1, <2>1, <3>1
    <3> HIDE DEF u, v
    <3>3. u + Payload + Payload <= v  BY <1>2, <3>2 DEF v
    <3> QED  BY <1>1, <1>2, <3>3
  <2>4. j + 1 <= k => v + Payload <= u
    <3> SUFFICES ASSUME j + 1 <= k PROVE v + Payload <= u
      OBVIOUS
    <3>1. (j - 1) + 1 <= k - 1  BY <1>1
    <3> QED  BY <1>1, <2>1, <3>1
  <2> QED  BY <2>2, <2>3, <2>4
<1>5. Minus(Plus(SeqNo(a, k), Payload), SeqNo(a, j)) = ((c % SeqMod) - (b % SeqMod)) % SeqMod
  <2>1. Plus(SeqNo(a, k), Payload) = Plus(a, k * Payload)  BY <1>1, SeqNoFacts
  <2>2. a + k * Payload = c  BY <1>1, <1>2
  <2>3. Plus(SeqNo(a, k), Payload) = c % SeqMod
    <3> HIDE DEF c
    <3> QED  BY <2>1, <2>2, Zenon DEF Plus
  <2>4. SeqNo(a, j) = b % SeqMod  BY Zenon DEF SeqNo, Plus
  <2> HIDE DEF b, c
  <2> QED  BY <2>3, <2>4, Zenon DEF Minus
<1>6. b \in Nat /\ c \in Nat /\ -SeqMod < c - b /\ c - b < SeqMod
  <2> HIDE DEF u, v
  <2> QED  BY <1>1, <1>2, <1>3
<1> HIDE DEF b, c
<1> DEFINE m == Minus(Plus(SeqNo(a, k), Payload), SeqNo(a, j))
<1>7. m = IF b <= c THEN c - b ELSE c - b + SeqMod
  BY <1>1, <1>5, <1>6, ModDistance, Zenon
<1>8. m <= Payload  OBVIOUS
<1> HIDE DEF m, u, v
<1>9. ~(j + 1 <= k)
  <2> SUFFICES ASSUME j + 1 <= k PROVE FALSE
    OBVIOUS
  <2>1. v + Payload <= u  BY <1>4
  <2> QED  BY <1>1, <1>2, <1>7, <1>8, <2>1 DEF b, c
<1>10. ~(k + 2 <= j)
  <2> SUFFICES ASSUME k + 2 <= j PROVE FALSE
    OBVIOUS
  <2>1. u + 2 * Payload <= v  BY <1>4
  <2>2. v + Payload < SeqMod  BY <1>1, <1>2, <1>3
  <2> QED  BY <1>1, <1>2, <1>7, <1>8, <2>1, <2>2 DEF b, c
<1> QED  BY <1>1, <1>9, <1>10

\* On its first connection a flow numbers its requests one after the other.
FromFirst(f, a) ==
  /\ \A k \in 1 .. Len(reqs[f]) : reqs[f][k] = SeqNo(a, k)
  /\ nextSeq[f] = SeqNo(a, Len(reqs[f]) + 1)

SeqInv == reconnects = 0 => \A f \in Flows : \E a \in FirstSeqs : FromFirst(f, a)

LEMMA SeqInit == Init => SeqInv
<1> SUFFICES ASSUME Init, NEW f \in Flows PROVE FromFirst(f, nextSeq[f]) /\ nextSeq[f] \in FirstSeqs
  BY DEF SeqInv
<1>1. nextSeq[f] \in FirstSeqs /\ reqs[f] = <<>> /\ Len(reqs[f]) = 0
  <2>1. nextSeq \in [Flows -> FirstSeqs] /\ reqs = [g \in Flows |-> <<>>]  BY DEF Init
  <2>2. reqs[f] = <<>> /\ nextSeq[f] \in FirstSeqs  BY <2>1
  <2>3. Len(<<>>) = 0  OBVIOUS
  <2> QED  BY <2>2, <2>3, Zenon
<1>2. nextSeq[f] \in 0 .. SeqMod - 1 /\ SeqMod \in Nat \ {0} /\ Payload \in Nat
  <2>1. FirstSeqs \subseteq 0 .. SeqMod - 1  BY Known, Zenon
  <2>2. nextSeq[f] \in 0 .. SeqMod - 1  BY <1>1, <2>1, Zenon
  <2>3. SeqMod \in Nat \ {0} /\ Payload \in Nat  BY Known
  <2> QED  BY <2>2, <2>3
<1> DEFINE a == nextSeq[f]
<1> HIDE DEF a
<1>3. a % SeqMod = a  BY <1>2 DEF a
<1>4. (1 - 1) * Payload = 0 /\ a + 0 = a  BY <1>2 DEF a
<1>5. SeqNo(a, 1) = a
  <2>1. SeqNo(a, 1) = (a + (1 - 1) * Payload) % SeqMod  BY Zenon DEF SeqNo, Plus
  <2> QED  BY <1>3, <1>4, <2>1, Zenon
<1>6. Len(reqs[f]) + 1 = 1  BY <1>1
<1>7. nextSeq[f] = SeqNo(a, Len(reqs[f]) + 1)  BY <1>5, <1>6, Zenon DEF a
<1>8. \A k \in 1 .. Len(reqs[f]) : FALSE  BY <1>1
<1> QED  BY <1>1, <1>7, <1>8 DEF FromFirst, a

LEMMA SeqStep ==
  ASSUME TypeInv, [Next]_vars, SeqInv
  PROVE  SeqInv'
<1>0. ClientTypes /\ FirstSeqs \subseteq Words  BY Known DEF TypeInv, Words
<1>1. ASSUME NEW g \in Flows, Request(g) PROVE SeqInv'
  <2> SUFFICES ASSUME reconnects' = 0, NEW f \in Flows
               PROVE  \E a \in FirstSeqs : FromFirst(f, a)'
    BY DEF SeqInv
  <2>1. reconnects = 0  BY <1>1 DEF Request
  <2>2. PICK a \in FirstSeqs : FromFirst(f, a)  BY <2>1 DEF SeqInv
  <2>3. CASE f # g
    <3>1. reqs'[f] = reqs[f] /\ nextSeq'[f] = nextSeq[f]
      BY <1>0, <1>1, <2>3, RequestSends DEF ClientTypes
    <3> QED  BY <2>2, <3>1 DEF FromFirst
  <2>4. CASE f = g
    <3> DEFINE n == Len(reqs[f])
    <3>1. n \in Nat /\ a \in Words /\ n + 1 \in Nat \ {0} /\ n + 1 + 1 \in Nat \ {0}
      BY <1>0, RequestFacts, <2>2, Known
    <3>2. /\ Len(reqs'[f]) = n + 1 /\ reqs'[f][n + 1] = nextSeq[f]
          /\ \A k \in 1 .. n : reqs'[f][k] = reqs[f][k]
          /\ nextSeq'[f] = Plus(nextSeq[f], Payload)
      BY <1>0, <1>1, <2>4, RequestSends DEF ClientTypes, MoreRequests
    <3>3. Plus(SeqNo(a, n + 1), Payload) = SeqNo(a, n + 1 + 1)
      BY <3>1, SeqNoFacts
    <3>4. nextSeq[f] = SeqNo(a, n + 1) /\ \A k \in 1 .. n : reqs[f][k] = SeqNo(a, k)
      BY <2>2 DEF FromFirst
    <3>5. ASSUME NEW k \in 1 .. n + 1 PROVE reqs'[f][k] = SeqNo(a, k)
      <4> HIDE DEF n
      <4>1. k \in 1 .. n \/ k = n + 1  BY <3>1
      <4> QED  BY <3>2, <3>4, <4>1
    <3>6. nextSeq'[f] = SeqNo(a, n + 1 + 1)  BY <3>2, <3>3, <3>4
    <3>7. FromFirst(f, a)'  BY <3>2, <3>5, <3>6 DEF FromFirst
    <3> QED  BY <3>7
  <2> QED  BY <2>3, <2>4
<1>2. ASSUME NEW g \in Flows, Reconnect(g) PROVE SeqInv'
  <2>1. reconnects' = reconnects + 1 /\ reconnects \in Nat  BY <1>0, <1>2 DEF Reconnect, ClientTypes
  <2> QED  BY <2>1 DEF SeqInv
<1>3. CASE UNCHANGED <<reqs, nextSeq, reconnects>>
  BY <1>3 DEF SeqInv, FromFirst
<1>4. \/ UNCHANGED <<reqs, nextSeq, reconnects>>
      \/ \E g \in Flows : Request(g) \/ Reconnect(g)
  BY DEF Next, Environment, Tick, RequestAgain, Reply, ReplyAgain, Lose, Monitor, vars, clientVars
<1> QED  BY <1>1, <1>2, <1>3, <1>4

\* The positions no key holds are as they were at the start.
FreshInv ==
  \A p \in Positions : (\A f \in DOMAIN slot : slot[f] # p) =>
    Maxseq[p].req_sent_seq = 0 /\ Maxseq[p].rsp_sent_seq = 0

\* What response_time_process has seen of a flow it holds a position for:
\* none of its requests is above the position's number, and the position has
\* the number, the length and the time of one of them.
Stands(f) ==
  LET M == Maxseq[slot[f]] IN
  /\ \A k \in 1 .. MaxReqs : seen[f][k] # Never => reqs[f][k] <= M.req_sent_seq
  /\ M.payload_len = Payload
  /\ \E k \in 1 .. Len(reqs[f]) :
       M.req_sent_seq = reqs[f][k] /\ seen[f][k] # Never /\ req_out_if[slot[f]] = seen[f][k]

\* Requests seen were made.
MadeInv == \A f \in Flows : \A k \in 1 .. MaxReqs : seen[f][k] # Never => k <= Len(reqs[f])

NoneSeen(f) == \A k \in 1 .. MaxReqs : seen[f][k] = Never

StandInv ==
  reconnects = 0 /\ OnePass =>
    \A f \in Flows :
      /\ f \in DOMAIN slot => Stands(f)
      /\ f \notin DOMAIN slot /\ ~Full => NoneSeen(f)

\* A packet's effect on the numbers of the requests, by kind.
LEMMA ResponseKeepsRequests ==
  ASSUME TypeInv, NEW d \in Packet, OnResponse(d)
  PROVE  /\ UNCHANGED <<slot, req_out_if, seen>>
         /\ \A p \in Places : /\ Maxseq'[p].req_sent_seq = Maxseq[p].req_sent_seq
                              /\ Maxseq'[p].payload_len = Maxseq[p].payload_len
         /\ \A p \in Places : p # slot[d.flow] => Maxseq'[p] = Maxseq[p]
         /\ d.flow \notin DOMAIN slot => Maxseq' = Maxseq
<1>1. UNCHANGED <<slot, req_out_if, seen>>  BY DEF OnResponse, requestStats
<1>2. CASE UNCHANGED Maxseq  BY <1>1, <1>2
<1>3. CASE TimedResponse(d) /\ Sampled(d)
  <2>1. /\ Maxseq'[slot[d.flow]] = [Maxseq[slot[d.flow]] EXCEPT !.rsp_sent_seq = d.sent_seq]
        /\ \A p \in Places : p # slot[d.flow] => Maxseq'[p] = Maxseq[p]
        /\ d.flow \in DOMAIN slot /\ slot[d.flow] \in Positions
    BY <1>3, SampledFacts, TimedCases
  <2>2. Maxseq[slot[d.flow]] \in [req_sent_seq : Words, payload_len : {0, Payload}, rsp_sent_seq : Words]
    BY <2>1, PlaceFacts DEF TypeInv, TableTypes
  <2>3. /\ Maxseq'[slot[d.flow]].req_sent_seq = Maxseq[slot[d.flow]].req_sent_seq
        /\ Maxseq'[slot[d.flow]].payload_len = Maxseq[slot[d.flow]].payload_len
    BY <2>1, <2>2
  <2>4. ASSUME NEW p \in Places
        PROVE  /\ Maxseq'[p].req_sent_seq = Maxseq[p].req_sent_seq
               /\ Maxseq'[p].payload_len = Maxseq[p].payload_len
    <3>1. CASE p = slot[d.flow]  BY <2>3, <3>1
    <3>2. CASE p # slot[d.flow]
      <4>1. Maxseq'[p] = Maxseq[p]  BY <2>1, <3>2
      <4> QED  BY <4>1
    <3> QED  BY <3>1, <3>2
  <2> QED  BY <1>1, <2>1, <2>4
<1>4. UNCHANGED Maxseq \/ (TimedResponse(d) /\ Sampled(d))
  <2>1. CASE TimedResponse(d)  BY <2>1, TimedCases DEF Recounted
  <2>2. CASE MissedResponse(d) \/ UntimedResponse(d)
    BY <2>2 DEF MissedResponse, UntimedResponse
  <2> QED  BY <2>1, <2>2 DEF OnResponse
<1> QED  BY <1>2, <1>3, <1>4

\* What a request does, with the cases of the request hash.
LEMMA RequestCases ==
  ASSUME TypeInv, NEW d \in Packet, OnRequest(d)
  PROVE  /\ \E pos \in Places :
              /\ \/ d.flow \in DOMAIN slot /\ pos = slot[d.flow] /\ slot' = slot
                 \/ d.flow \notin DOMAIN slot /\ Full /\ pos = ENOSPC /\ slot' = slot
                 \/ /\ d.flow \notin DOMAIN slot /\ ~Full
                    /\ pos \in Positions /\ \A g \in DOMAIN slot : slot[g] # pos
                    /\ DOMAIN slot' = DOMAIN slot \cup {d.flow} /\ slot'[d.flow] = pos
                    /\ \A g \in DOMAIN slot : slot'[g] = slot[g]
              /\ \A g \in DOMAIN slot : g # d.flow => slot'[g] = slot[g] /\ slot[g] # pos
              /\ \/ IsNew(pos, d) /\ Stamped(pos, d) /\ req_recount' = req_recount
                 \/ ~IsNew(pos, d) /\ UNCHANGED <<Maxseq, req_out_if>> /\ req_recount' = req_recount + 1
         /\ \A g \in Flows : g # d.flow => seen'[g] = seen[g]
         /\ \A k \in 1 .. MaxReqs : k # d.req => seen'[d.flow][k] = seen[d.flow][k]
         /\ seen'[d.flow][d.req] = IF seen[d.flow][d.req] = Never THEN d.ts ELSE seen[d.flow][d.req]
         /\ d.ts # Never
<1>1. /\ d.flow \in Flows /\ d.req \in 1 .. MaxReqs /\ d.ts \in 1 .. MaxTime /\ SlotInv
  BY DEF Packet, TypeInv
<1>2. PICK pos \in Places :
        /\ AddKey(d.flow, pos)
        /\ \/ IsNew(pos, d) /\ Stamped(pos, d) /\ req_recount' = req_recount
           \/ ~IsNew(pos, d) /\ UNCHANGED <<Maxseq, req_out_if>> /\ req_recount' = req_recount + 1
  BY OnRequestTable
<1>3. \/ d.flow \in DOMAIN slot /\ pos = slot[d.flow] /\ slot' = slot
      \/ d.flow \notin DOMAIN slot /\ Full /\ pos = ENOSPC /\ slot' = slot
      \/ /\ d.flow \notin DOMAIN slot /\ ~Full
         /\ pos \in Positions /\ \A g \in DOMAIN slot : slot[g] # pos
         /\ DOMAIN slot' = DOMAIN slot \cup {d.flow} /\ slot'[d.flow] = pos
         /\ \A g \in DOMAIN slot : slot'[g] = slot[g]
  BY <1>1, <1>2, AddKeyFacts
<1>4. \A g \in DOMAIN slot : g # d.flow => slot'[g] = slot[g] /\ slot[g] # pos
  BY <1>1, <1>3, PlaceFacts DEF SlotInv
<1>5. seen' = [seen EXCEPT ![d.flow][d.req] = IF @ = Never THEN d.ts ELSE @]
      /\ seen \in [Flows -> [1 .. MaxReqs -> {Never} \cup 1 .. MaxTime]]
  BY OnRequestTable DEF TypeInv, TableTypes
<1>6. d.ts # Never  BY <1>1, Known DEF Never
<1>7. /\ \A g \in Flows : g # d.flow => seen'[g] = seen[g]
      /\ \A k \in 1 .. MaxReqs : k # d.req => seen'[d.flow][k] = seen[d.flow][k]
      /\ seen'[d.flow][d.req] = IF seen[d.flow][d.req] = Never THEN d.ts ELSE seen[d.flow][d.req]
  BY <1>1, <1>5
<1> QED  BY <1>2, <1>3, <1>4, <1>6, <1>7

LEMMA FreshInit == Init => FreshInv
  BY PlaceFacts DEF Init, FreshInv

LEMMA FreshStep ==
  ASSUME TypeInv, [Next]_vars, FreshInv
  PROVE  FreshInv'
<1>1. CASE Environment \/ UNCHANGED vars
  BY <1>1, EnvironmentKeeps DEF FreshInv, monitorVars, tableVars
<1>2. ASSUME NEW q \in Rings, Monitor(q), NEW d, d = Head(net[q]), OnRequest(d)
      PROVE  FreshInv'
  <2>1. d \in Packet /\ d.flow \in Flows  BY <1>2, MonitorTakes DEF Packet
  <2>2. PICK pos \in Places :
              /\ \/ d.flow \in DOMAIN slot /\ pos = slot[d.flow] /\ slot' = slot
                 \/ d.flow \notin DOMAIN slot /\ Full /\ pos = ENOSPC /\ slot' = slot
                 \/ /\ d.flow \notin DOMAIN slot /\ ~Full
                    /\ pos \in Positions /\ \A g \in DOMAIN slot : slot[g] # pos
                    /\ DOMAIN slot' = DOMAIN slot \cup {d.flow} /\ slot'[d.flow] = pos
                    /\ \A g \in DOMAIN slot : slot'[g] = slot[g]
              /\ Stamped(pos, d) \/ UNCHANGED Maxseq
    BY <1>2, <2>1, RequestCases
  <2> SUFFICES ASSUME NEW p \in Positions, \A f \in DOMAIN slot' : slot'[f] # p
               PROVE  Maxseq'[p].req_sent_seq = 0 /\ Maxseq'[p].rsp_sent_seq = 0
    BY DEF FreshInv
  <2>3. p # pos /\ \A f \in DOMAIN slot : slot[f] # p  BY <2>2, PlaceFacts
  <2>4. Maxseq'[p] = Maxseq[p]  BY <2>2, <2>3, PlaceFacts DEF Stamped
  <2> QED  BY <2>3, <2>4 DEF FreshInv
<1>3. ASSUME NEW q \in Rings, Monitor(q), NEW d, d = Head(net[q]), OnResponse(d)
      PROVE  FreshInv'
  <2>1. d \in Packet  BY <1>3, MonitorTakes
  <2> SUFFICES ASSUME NEW p \in Positions, \A f \in DOMAIN slot' : slot'[f] # p
               PROVE  Maxseq'[p].req_sent_seq = 0 /\ Maxseq'[p].rsp_sent_seq = 0
    BY DEF FreshInv
  <2>2. \A f \in DOMAIN slot : slot[f] # p  BY <1>3, <2>1, ResponseKeepsRequests
  <2>3. Maxseq'[p] = Maxseq[p]
    <3>1. CASE d.flow \in DOMAIN slot
      BY <1>3, <2>1, <2>2, <3>1, ResponseKeepsRequests, PlaceFacts
    <3>2. CASE d.flow \notin DOMAIN slot  BY <1>3, <2>1, <3>2, ResponseKeepsRequests
    <3> QED  BY <3>1, <3>2
  <2> QED  BY <2>2, <2>3 DEF FreshInv
<1> QED  BY <1>1, <1>2, <1>3, MonitorTakes DEF Next

LEMMA MadeInit == Init => MadeInv
  BY DEF Init, MadeInv

LEMMA MadeStep ==
  ASSUME TypeInv, [Next]_vars, MadeInv
  PROVE  MadeInv'
<1> SUFFICES ASSUME NEW f \in Flows, NEW k \in 1 .. MaxReqs, seen'[f][k] # Never
             PROVE  k <= Len(reqs'[f])
  BY DEF MadeInv
<1>1. Len(reqs[f]) \in 0 .. MaxReqs  BY RequestFacts DEF TypeInv
<1>2. k <= Len(reqs[f]) => k <= Len(reqs'[f])
  <2>1. k <= Len(reqs[f]) => k \in 1 .. Len(reqs[f])  BY <1>1, Known
  <2> QED  BY <2>1, AckKept
<1>3. CASE UNCHANGED seen  BY <1>2, <1>3 DEF MadeInv
<1>4. ASSUME NEW q \in Rings, Monitor(q), NEW d, d = Head(net[q]), OnRequest(d)
      PROVE  k <= Len(reqs[f])
  <2>1. d \in Packet /\ Numbered(d)  BY <1>4, MonitorTakes
  <2>2. CASE f = d.flow /\ k = d.req  BY <2>1, <2>2 DEF Numbered
  <2>3. CASE ~(f = d.flow /\ k = d.req)
    <3>1. seen'[f][k] = seen[f][k]
      <4>1. CASE f # d.flow
        <5>1. seen'[f] = seen[f]  BY <1>4, <2>1, <4>1, RequestCases
        <5> QED  BY <5>1
      <4>2. CASE f = d.flow
        <5>1. k # d.req  BY <2>3, <4>2
        <5>2. seen'[d.flow][k] = seen[d.flow][k]  BY <1>4, <2>1, <5>1, RequestCases
        <5> QED  BY <4>2, <5>2
      <4> QED  BY <4>1, <4>2
    <3> QED  BY <3>1 DEF MadeInv
  <2> QED  BY <2>2, <2>3
<1>5. \/ UNCHANGED seen
      \/ \E q \in Rings : Monitor(q) /\ OnRequest(Head(net[q]))
  <2>1. CASE Environment \/ UNCHANGED vars
    BY <2>1, EnvironmentKeeps DEF monitorVars, requestStats
  <2>2. ASSUME NEW q \in Rings, Monitor(q), OnResponse(Head(net[q])) PROVE UNCHANGED seen
    BY <2>2 DEF OnResponse, requestStats
  <2> QED  BY <2>1, <2>2, MonitorTakes DEF Next
<1> QED  BY <1>2, <1>3, <1>4, <1>5

\* A position that is not written keeps its standing.
LEMMA StandKept ==
  ASSUME TypeInv, [Next]_vars, MadeInv, NEW f \in Flows, f \in DOMAIN slot, Stands(f),
         slot'[f] = slot[f], seen'[f] = seen[f],
         Maxseq'[slot[f]].req_sent_seq = Maxseq[slot[f]].req_sent_seq,
         Maxseq'[slot[f]].payload_len = Maxseq[slot[f]].payload_len,
         req_out_if'[slot[f]] = req_out_if[slot[f]]
  PROVE  Stands(f)'
<1>0. Len(reqs[f]) \in 0 .. MaxReqs  BY RequestFacts DEF TypeInv
<1>1. \A k \in 1 .. Len(reqs[f]) : k \in 1 .. Len(reqs'[f]) /\ reqs'[f][k] = reqs[f][k]
  BY AckKept
<1>2. ASSUME NEW k \in 1 .. MaxReqs, seen'[f][k] # Never
      PROVE  reqs'[f][k] <= Maxseq'[slot'[f]].req_sent_seq
  <2>1. seen[f][k] # Never /\ k \in 1 .. Len(reqs[f])  BY <1>0, <1>2, Known DEF MadeInv
  <2>2. reqs[f][k] <= Maxseq[slot[f]].req_sent_seq  BY <2>1 DEF Stands
  <2> QED  BY <1>1, <2>1, <2>2
<1>3. PICK k \in 1 .. Len(reqs[f]) :
        /\ Maxseq[slot[f]].req_sent_seq = reqs[f][k] /\ seen[f][k] # Never
        /\ req_out_if[slot[f]] = seen[f][k]
  BY DEF Stands
<1>4. \E j \in 1 .. Len(reqs'[f]) :
        /\ Maxseq'[slot'[f]].req_sent_seq = reqs'[f][j] /\ seen'[f][j] # Never
        /\ req_out_if'[slot'[f]] = seen'[f][j]
  BY <1>1, <1>3
<1>5. Maxseq'[slot'[f]].payload_len = Payload  BY DEF Stands
<1> QED  BY <1>2, <1>4, <1>5 DEF Stands

\* A request of a first connection has a number above the table's start value.
LEMMA RequestNumber ==
  ASSUME TypeInv, SeqInv, OnePass, reconnects = 0,
         NEW d \in Packet, Numbered(d), d.type = "M_REQ"
  PROVE  /\ d.sent_seq = reqs[d.flow][d.req] /\ d.sent_seq \in Words /\ d.sent_seq > 0
         /\ d.req \in 1 .. Len(reqs[d.flow]) /\ d.req \in 1 .. MaxReqs /\ d.flow \in Flows
<1>1. d.flow \in Flows /\ d.req \in 1 .. MaxReqs  BY DEF Packet
<1>2. Len(reqs[d.flow]) \in 0 .. MaxReqs  BY <1>1, RequestFacts DEF TypeInv
<1>3. d.req \in 1 .. Len(reqs[d.flow]) /\ d.sent_seq = reqs[d.flow][d.req]
  BY <1>1, <1>2, Known DEF Numbered
<1>4. PICK a \in FirstSeqs : FromFirst(d.flow, a)  BY <1>1 DEF SeqInv
<1>5. d.sent_seq = Plus(a, (d.req - 1) * Payload)  BY <1>3, <1>4 DEF FromFirst, SeqNo
<1>6. d.req - 1 \in 0 .. MaxReqs - 1  BY <1>1, Known
<1>7. d.sent_seq # 0  BY <1>4, <1>5, <1>6, Zenon DEF OnePass
<1>8. d.sent_seq \in Words /\ d.sent_seq \in Nat  BY Known DEF Packet, Words
<1>9. d.sent_seq > 0  BY <1>7, <1>8
<1> QED  BY <1>1, <1>3, <1>8, <1>9

LEMMA StandRequest ==
  ASSUME TypeInv, [Next]_vars, SeqInv, OnePass, reconnects = 0, FreshInv, MadeInv, StandInv,
         NEW d \in Packet, Numbered(d), OnRequest(d), UNCHANGED <<reqs, reconnects>>
  PROVE  StandInv'
<1> DEFINE f == d.flow
           n == d.req
<1>0. /\ d.sent_seq = reqs[f][n] /\ d.sent_seq \in Words /\ d.sent_seq > 0
      /\ n \in 1 .. Len(reqs[f]) /\ n \in 1 .. MaxReqs /\ f \in Flows
  BY RequestNumber DEF OnRequest
<1>1. PICK pos \in Places :
        /\ \/ f \in DOMAIN slot /\ pos = slot[f] /\ slot' = slot
           \/ f \notin DOMAIN slot /\ Full /\ pos = ENOSPC /\ slot' = slot
           \/ /\ f \notin DOMAIN slot /\ ~Full
              /\ pos \in Positions /\ \A g \in DOMAIN slot : slot[g] # pos
              /\ DOMAIN slot' = DOMAIN slot \cup {f} /\ slot'[f] = pos
              /\ \A g \in DOMAIN slot : slot'[g] = slot[g]
        /\ \A g \in DOMAIN slot : g # f => slot'[g] = slot[g] /\ slot[g] # pos
        /\ \/ IsNew(pos, d) /\ Stamped(pos, d)
           \/ ~IsNew(pos, d) /\ UNCHANGED <<Maxseq, req_out_if>>
  BY RequestCases
<1>2. /\ \A g \in Flows : g # f => seen'[g] = seen[g]
      /\ \A k \in 1 .. MaxReqs : k # n => seen'[f][k] = seen[f][k]
      /\ seen'[f][n] = IF seen[f][n] = Never THEN d.ts ELSE seen[f][n]
      /\ d.ts # Never
  BY RequestCases
<1>3. ASSUME NEW g \in Flows, g # f
      PROVE  /\ g \in DOMAIN slot' => Stands(g)'
             /\ g \notin DOMAIN slot' /\ ~Full' => NoneSeen(g)'
  <2>1. seen'[g] = seen[g]  BY <1>2, <1>3
  <2>2. ASSUME g \in DOMAIN slot' PROVE Stands(g)'
    <3>1. g \in DOMAIN slot /\ slot'[g] = slot[g] /\ slot[g] # pos
      BY <1>1, <1>3, <2>2
    <3>2. Stands(g) /\ slot[g] \in Places
      BY <1>3, <3>1, PlaceFacts DEF StandInv, TypeInv, SlotInv
    <3>3. Maxseq'[slot[g]] = Maxseq[slot[g]] /\ req_out_if'[slot[g]] = req_out_if[slot[g]]
      BY <1>1, <3>1, <3>2 DEF Stamped
    <3> QED  BY <1>3, <2>1, <3>1, <3>2, <3>3, StandKept
  <2>3. ASSUME g \notin DOMAIN slot', ~Full' PROVE NoneSeen(g)'
    <3>1. g \notin DOMAIN slot /\ ~Full  BY <1>1, <1>3, <2>3 DEF Full
    <3>2. NoneSeen(g)  BY <1>3, <3>1 DEF StandInv
    <3> QED  BY <2>1, <3>2 DEF NoneSeen
  <2> QED  BY <2>2, <2>3
<1>4. ASSUME f \in DOMAIN slot' PROVE Stands(f)'
  <2>1. slot'[f] = pos /\ (f \in DOMAIN slot => pos = slot[f] /\ Stands(f))
    BY <1>0, <1>1, <1>4 DEF StandInv
  <2>2. f \notin DOMAIN slot => NoneSeen(f) /\ Maxseq[pos].req_sent_seq = 0 /\ IsNew(pos, d)
    <3> SUFFICES ASSUME f \notin DOMAIN slot
                 PROVE  NoneSeen(f) /\ Maxseq[pos].req_sent_seq = 0 /\ IsNew(pos, d)
      OBVIOUS
    <3>1. ~Full /\ pos \in Positions /\ \A g \in DOMAIN slot : slot[g] # pos
      BY <1>1, <1>4
    <3>2. NoneSeen(f)  BY <1>0, <3>1 DEF StandInv
    <3>3. Maxseq[pos].req_sent_seq = 0  BY <3>1 DEF FreshInv
    <3> QED  BY <1>0, <3>2, <3>3 DEF IsNew
  <2>3. CASE IsNew(pos, d) /\ Stamped(pos, d)
    <3>1. /\ Maxseq'[pos].req_sent_seq = d.sent_seq /\ Maxseq'[pos].payload_len = Payload
          /\ req_out_if'[pos] = d.ts
      BY <2>3 DEF Stamped
    <3>2. Maxseq[pos].req_sent_seq < d.sent_seq  BY <2>3 DEF IsNew
    <3>3. Maxseq[pos].req_sent_seq \in Words  BY DEF TypeInv, TableTypes
    <3>4. \A a, b, c \in Words : (a <= b /\ b < c => a <= c) /\ ~(c <= b /\ b < c) /\ a <= a
      BY Known DEF Words
    <3>5. seen[f][n] = Never
      <4>1. CASE f \in DOMAIN slot
        <5>1. seen[f][n] # Never => d.sent_seq <= Maxseq[pos].req_sent_seq
          BY <1>0, <2>1, <4>1 DEF Stands
        <5> QED  BY <1>0, <3>2, <3>3, <3>4, <5>1
      <4>2. CASE f \notin DOMAIN slot  BY <1>0, <2>2, <4>2 DEF NoneSeen
      <4> QED  BY <4>1, <4>2
    <3>6. seen'[f][n] = d.ts  BY <1>2, <3>5
    <3>7. ASSUME NEW k \in 1 .. MaxReqs, seen'[f][k] # Never PROVE reqs[f][k] <= d.sent_seq
      <4>1. CASE k = n
        <5>1. d.sent_seq <= d.sent_seq  BY <1>0, <3>4
        <5> QED  BY <1>0, <4>1, <5>1
      <4>2. CASE k # n
        <5>1. seen[f][k] # Never  BY <1>2, <3>7, <4>2
        <5>2. f \in DOMAIN slot  BY <2>2, <5>1 DEF NoneSeen
        <5>3. reqs[f][k] <= Maxseq[pos].req_sent_seq  BY <2>1, <5>1, <5>2 DEF Stands
        <5>4. reqs[f][k] \in Words
          <6>1. Len(reqs[f]) \in 0 .. MaxReqs  BY <1>0, RequestFacts DEF TypeInv
          <6>2. k \in 1 .. Len(reqs[f])  BY <1>0, <5>1, <6>1, Known DEF MadeInv
          <6> QED  BY <1>0, <6>2, RequestFacts DEF TypeInv
        <5> QED  BY <1>0, <3>2, <3>3, <3>4, <5>3, <5>4
      <4> QED  BY <4>1, <4>2
    <3> HIDE DEF f, n
    <3>8. \E k \in 1 .. Len(reqs'[f]) :
            /\ Maxseq'[pos].req_sent_seq = reqs'[f][k] /\ seen'[f][k] # Never
            /\ req_out_if'[pos] = seen'[f][k]
      <4>1. /\ Maxseq'[pos].req_sent_seq = reqs[f][n] /\ seen'[f][n] # Never
            /\ req_out_if'[pos] = seen'[f][n] /\ n \in 1 .. Len(reqs[f])
        BY <1>0, <1>2, <3>1, <3>6
      <4> QED  BY <4>1
    <3> QED  BY <2>1, <3>1, <3>7, <3>8 DEF Stands
  <2>4. CASE ~IsNew(pos, d) /\ UNCHANGED <<Maxseq, req_out_if>>
    <3>1. f \in DOMAIN slot /\ pos = slot[f] /\ Stands(f)  BY <2>1, <2>2, <2>4
    <3>2. d.sent_seq <= Maxseq[pos].req_sent_seq
      <4>1. Maxseq[pos].req_sent_seq \in Words  BY DEF TypeInv, TableTypes
      <4>2. \A a, b \in Words : ~(a < b) => b <= a  BY Known DEF Words
      <4> QED  BY <1>0, <2>4, <4>1, <4>2 DEF IsNew
    <3>3. ASSUME NEW k \in 1 .. MaxReqs, seen'[f][k] # Never
          PROVE  reqs[f][k] <= Maxseq[pos].req_sent_seq
      <4>1. CASE k = n  BY <1>0, <3>2, <4>1
      <4>2. CASE k # n
        <5>1. seen[f][k] # Never  BY <1>2, <3>3, <4>2
        <5> QED  BY <3>1, <5>1 DEF Stands
      <4> QED  BY <4>1, <4>2
    <3>4. PICK k \in 1 .. Len(reqs[f]) :
            /\ Maxseq[pos].req_sent_seq = reqs[f][k] /\ seen[f][k] # Never
            /\ req_out_if[pos] = seen[f][k]
      BY <3>1 DEF Stands
    <3>5. seen'[f][k] = seen[f][k]
      <4>1. Len(reqs[f]) \in 0 .. MaxReqs  BY <1>0, RequestFacts DEF TypeInv
      <4>2. k \in 1 .. MaxReqs  BY <4>1, Known
      <4> QED  BY <1>2, <3>4, <4>2
    <3>6. \E j \in 1 .. Len(reqs'[f]) :
            /\ Maxseq'[pos].req_sent_seq = reqs'[f][j] /\ seen'[f][j] # Never
            /\ req_out_if'[pos] = seen'[f][j]
      BY <2>4, <3>4, <3>5
    <3> HIDE DEF f, n
    <3> QED  BY <2>1, <2>4, <3>1, <3>3, <3>6 DEF Stands
  <2> QED  BY <1>1, <2>3, <2>4
<1>5. f \notin DOMAIN slot' => Full'
  BY <1>1 DEF Full
<1> HIDE DEF f, n
<1> QED  BY <1>3, <1>4, <1>5 DEF StandInv

LEMMA StandInit == Init => StandInv
<1> SUFFICES ASSUME Init, NEW f \in Flows PROVE f \notin DOMAIN slot /\ NoneSeen(f)
  BY DEF StandInv
<1>1. f \notin DOMAIN slot  BY DEF Init
<1>2. NoneSeen(f)  BY DEF Init, NoneSeen
<1> QED  BY <1>1, <1>2

\* Connections are never taken back.
LEMMA ReconnectsGrow ==
  ASSUME TypeInv, [Next]_vars, reconnects' = 0
  PROVE  reconnects = 0
<1>1. reconnects' = reconnects \/ reconnects' = reconnects + 1
  BY DEF Next, Environment, Tick, Request, RequestAgain, Reply, ReplyAgain, Reconnect, Lose,
         Monitor, vars, clientVars
<1> QED  BY <1>1 DEF TypeInv, ClientTypes

LEMMA StandStep ==
  ASSUME TypeInv, [Next]_vars, SeqInv, FreshInv, MadeInv, StandInv
  PROVE  StandInv'
<1> SUFFICES ASSUME reconnects' = 0, OnePass PROVE StandInv'
  BY DEF StandInv
<1>0. reconnects = 0  BY ReconnectsGrow
<1>1. ASSUME UNCHANGED <<slot, req_out_if, seen>>,
             \A p \in Places : /\ Maxseq'[p].req_sent_seq = Maxseq[p].req_sent_seq
                               /\ Maxseq'[p].payload_len = Maxseq[p].payload_len
      PROVE  StandInv'
  <2>1. ASSUME NEW f \in Flows, f \in DOMAIN slot' PROVE Stands(f)'
    <3>1. f \in DOMAIN slot /\ Stands(f) /\ slot[f] \in Places
      BY <1>0, <1>1, <2>1, PlaceFacts DEF StandInv, TypeInv, SlotInv
    <3>2. slot'[f] = slot[f] /\ seen'[f] = seen[f] /\ req_out_if'[slot[f]] = req_out_if[slot[f]]
      BY <1>1
    <3> QED  BY <1>1, <3>1, <3>2, StandKept
  <2>2. ASSUME NEW f \in Flows, f \notin DOMAIN slot', ~Full' PROVE NoneSeen(f)'
    <3>1. NoneSeen(f)  BY <1>0, <1>1, <2>2 DEF StandInv, Full
    <3> QED  BY <1>1, <3>1 DEF NoneSeen
  <2> QED  BY <2>1, <2>2 DEF StandInv
<1>2. CASE Environment \/ UNCHANGED vars
  <2>1. UNCHANGED <<slot, req_out_if, seen, Maxseq>>
    BY <1>2, EnvironmentKeeps DEF monitorVars, tableVars, requestStats
  <2> QED  BY <1>1, <2>1
<1>3. ASSUME NEW q \in Rings, Monitor(q), NEW d, d = Head(net[q]), OnRequest(d)
      PROVE  StandInv'
  <2>1. d \in Packet /\ Numbered(d) /\ UNCHANGED <<reqs, reconnects>>
    BY <1>3, MonitorTakes DEF clientVars
  <2> QED  BY <1>0, <1>3, <2>1, StandRequest
<1>4. ASSUME NEW q \in Rings, Monitor(q), NEW d, d = Head(net[q]), OnResponse(d)
      PROVE  StandInv'
  <2>1. d \in Packet  BY <1>4, MonitorTakes
  <2> QED  BY <1>1, <1>4, <2>1, ResponseKeepsRequests
<1> QED  BY <1>2, <1>3, <1>4, MonitorTakes DEF Next

\* A client that waits for each response: what waits or was taken of a later
\* request is not older than a response that waits.
LateInv ==
  Window = 1 =>
    /\ \A f \in Flows : Len(reqs[f]) <= replied[f] + 1
    /\ \A d \in Waiting : d.type = "M_RSP" =>
         /\ \A e \in Waiting :
              e.type = "M_REQ" /\ e.flow = d.flow /\ e.req > d.req => d.ts <= e.ts
         /\ \A k \in 1 .. MaxReqs :
              k > d.req /\ seen[d.flow][k] # Never => d.ts <= seen[d.flow][k]

LEMMA LateInit == Init => LateInv
<1> SUFFICES ASSUME Init PROVE LateInv
  OBVIOUS
<1>1. \A r \in Rings : net[r] = <<>> /\ Len(net[r]) = 0  BY DEF Init
<1>2. Waiting = {}  BY <1>1 DEF Waiting
<1>3. \A f \in Flows : Len(reqs[f]) <= replied[f] + 1
  <2>1. \A f \in Flows : reqs[f] = <<>> /\ replied[f] = 0  BY DEF Init
  <2>2. Len(<<>>) = 0  OBVIOUS
  <2> QED  BY <2>1, <2>2
<1> QED  BY <1>2, <1>3 DEF LateInv

\* A packet that joins is about the last request, or is a new request.
LEMMA LateSend ==
  ASSUME TypeInv, [Next]_vars, MadeInv, LateInv, Window = 1, NEW d, Sends(d),
         d.type = "M_RSP" => d.req = Len(reqs[d.flow]),
         UNCHANGED seen, \A f \in Flows : Len(reqs'[f]) <= replied'[f] + 1
  PROVE  LateInv'
<1>0. net \in [Rings -> Seq(Packet)] /\ ts \in Nat /\ d \in Packet /\ d.ts = ts
  BY Known DEF TypeInv, PacketInv, ClientTypes, Sends
<1>1. Waiting' = Waiting \cup {d}  BY <1>0, SendNet
<1>2. ASSUME NEW e \in Waiting
      PROVE  e \in Packet /\ e.ts \in Nat /\ e.ts <= ts /\ e.req <= Len(reqs[e.flow]) /\ e.flow \in Flows
  <2>1. e \in Packet /\ Numbered(e)  BY <1>0, WaitingPackets DEF TypeInv, PacketInv
  <2> QED  BY <2>1, Known DEF Packet, Numbered
<1>3. \A f \in Flows : Len(reqs[f]) \in 0 .. MaxReqs  BY RequestFacts DEF TypeInv
<1>4. ASSUME NEW e \in Waiting', e.type = "M_RSP", NEW g \in Waiting',
             g.type = "M_REQ", g.flow = e.flow, g.req > e.req
      PROVE  e.ts <= g.ts
  <2>1. CASE e \in Waiting /\ g \in Waiting  BY <1>4, <2>1 DEF LateInv
  <2>2. CASE e = d /\ g \in Waiting
    <3>1. e.req = Len(reqs[e.flow]) /\ g.req <= Len(reqs[e.flow]) /\ e.flow \in Flows /\ g.req \in Nat
      BY <1>2, <1>4, <2>2, Known DEF Packet
    <3> QED  BY <1>3, <1>4, <3>1
  <2>3. CASE e \in Waiting /\ g = d  BY <1>0, <1>2, <2>3
  <2>4. CASE e = d /\ g = d  BY <1>4, <2>4
  <2> QED  BY <1>1, <2>1, <2>2, <2>3, <2>4
<1>5. ASSUME NEW e \in Waiting', e.type = "M_RSP", NEW k \in 1 .. MaxReqs,
             k > e.req, seen[e.flow][k] # Never
      PROVE  e.ts <= seen[e.flow][k]
  <2>1. CASE e \in Waiting  BY <1>5, <2>1 DEF LateInv
  <2>2. CASE e = d
    <3>1. e.flow \in Flows /\ e.req = Len(reqs[e.flow])  BY <1>0, <1>5, <2>2 DEF Packet
    <3>2. k <= Len(reqs[e.flow])  BY <1>5, <3>1 DEF MadeInv
    <3> QED  BY <1>3, <1>5, <3>1, <3>2
  <2> QED  BY <1>1, <2>1, <2>2
<1> QED  BY <1>4, <1>5 DEF LateInv

LEMMA LateStep ==
  ASSUME TypeInv, [Next]_vars, MadeInv, LateInv
  PROVE  LateInv'
<1> SUFFICES ASSUME Window = 1 PROVE LateInv'
  BY DEF LateInv
<1>0. /\ net \in [Rings -> Seq(Packet)] /\ ClientTypes
      /\ \A f \in Flows : Len(reqs[f]) \in 0 .. MaxReqs /\ replied[f] \in 0 .. Len(reqs[f])
      /\ \A f \in Flows : Len(reqs[f]) <= replied[f] + 1
  BY RequestFacts DEF TypeInv, PacketInv, LateInv
<1>1. ASSUME UNCHANGED <<seen, reqs, replied>>, Waiting' \subseteq Waiting PROVE LateInv'
  BY <1>1 DEF LateInv
<1>2. CASE UNCHANGED vars
  <2>1. UNCHANGED <<seen, reqs, replied, net>>
    BY <1>2 DEF vars, clientVars, monitorVars, requestStats
  <2>2. Waiting' = Waiting  BY <2>1 DEF Waiting
  <2> QED  BY <1>1, <2>1, <2>2
<1>3. CASE Environment
  <2>0. UNCHANGED seen  BY <1>3, EnvironmentKeeps DEF monitorVars, requestStats
  <2>1. CASE Tick \/ \E f \in Flows : Reconnect(f)
    <3>1. UNCHANGED <<reqs, replied, net>>  BY <2>1 DEF Tick, Reconnect
    <3>2. Waiting' = Waiting  BY <3>1 DEF Waiting
    <3> QED  BY <1>1, <2>0, <3>1, <3>2
  <2>2. ASSUME NEW r \in Rings, Lose(r) PROVE LateInv'
    <3>1. Take(r) /\ UNCHANGED <<reqs, replied>>  BY <2>2 DEF Lose, clientVars
    <3>2. Waiting' \subseteq Waiting  BY <1>0, <3>1, TakeNet
    <3> QED  BY <1>1, <2>0, <3>1, <3>2
  <2>3. ASSUME NEW f \in Flows, Request(f) PROVE LateInv'
    <3>1. PICK d : Sends(d) /\ d.type = "M_REQ"  BY <2>3, RequestSends
    <3>2. /\ Len(reqs[f]) - replied[f] < 1 /\ replied' = replied
      BY <2>3 DEF Request
    <3>3. /\ Len(reqs'[f]) = Len(reqs[f]) + 1
          /\ \A g \in Flows : g # f => reqs'[g] = reqs[g]
      BY <1>0, <2>3, RequestSends DEF ClientTypes
    <3>4. \A g \in Flows : Len(reqs'[g]) <= replied'[g] + 1
      BY <1>0, <3>2, <3>3
    <3>5. d.type # "M_RSP"  BY <3>1
    <3> QED  BY <2>0, <3>1, <3>4, <3>5, LateSend
  <2>4. ASSUME NEW f \in Flows, RequestAgain(f) \/ Reply(f) \/ ReplyAgain(f) PROVE LateInv'
    <3>1. PICK d : /\ Sends(d) /\ d.flow = f
                   /\ RequestAgain(f) => d.type = "M_REQ"
                   /\ Reply(f) => d.type = "M_RSP" /\ d.req = replied[f] + 1
                   /\ ReplyAgain(f) => d.type = "M_RSP" /\ d.req = Len(reqs[f])
      BY <2>4, OtherSends
    <3>2. d.type = "M_RSP" => d.req = Len(reqs[d.flow])
      <4>1. CASE RequestAgain(f)  BY <3>1, <4>1
      <4>2. CASE Reply(f)
        <5>1. replied[f] < Len(reqs[f])  BY <4>2 DEF Reply
        <5> QED  BY <1>0, <3>1, <4>2, <5>1
      <4>3. CASE ReplyAgain(f)  BY <3>1, <4>3
      <4> QED  BY <2>4, <4>1, <4>2, <4>3
    <3>3. \A g \in Flows : Len(reqs'[g]) <= replied'[g] + 1
      <4>1. UNCHANGED reqs /\ (replied' = replied \/ replied' = [replied EXCEPT ![f] = replied[f] + 1])
        BY <2>4 DEF RequestAgain, Reply, ReplyAgain
      <4> QED  BY <1>0, <4>1 DEF ClientTypes
    <3> QED  BY <2>0, <3>1, <3>2, <3>3, LateSend
  <2> QED  BY <1>3, <2>1, <2>2, <2>3, <2>4 DEF Environment
<1>4. ASSUME NEW q \in Rings, Monitor(q), NEW d, d = Head(net[q]) PROVE LateInv'
  <2>0. /\ d \in Packet /\ d \in Waiting /\ UNCHANGED <<reqs, replied>>
        /\ OnRequest(d) \/ OnResponse(d)
    BY <1>4, MonitorTakes DEF clientVars
  <2>1. Waiting' \subseteq Waiting  BY <1>0, <1>4, MonitorTakes, TakeNet
  <2>2. CASE OnResponse(d)
    <3>1. UNCHANGED seen  BY <2>2 DEF OnResponse, requestStats
    <3> QED  BY <1>1, <2>0, <2>1, <3>1
  <2>3. CASE OnRequest(d)
    <3>1. d.type = "M_REQ"  BY <2>3 DEF OnRequest
    <3>2. ASSUME NEW e \in Waiting, e.type = "M_RSP", NEW k \in 1 .. MaxReqs,
                 k > e.req, seen'[e.flow][k] # Never
          PROVE  e.ts <= seen'[e.flow][k]
      <4>1. CASE e.flow = d.flow /\ k = d.req /\ seen[d.flow][d.req] = Never
        <5>1. seen'[e.flow][k] = d.ts  BY <2>0, <2>3, <4>1, RequestCases
        <5>2. e.ts <= d.ts  BY <2>0, <3>1, <3>2, <4>1 DEF LateInv
        <5> QED  BY <5>1, <5>2
      <4>2. CASE ~(e.flow = d.flow /\ k = d.req /\ seen[d.flow][d.req] = Never)
        <5>0. e.flow \in Flows  BY <1>0, WaitingPackets DEF Packet
        <5>1. seen'[e.flow][k] = seen[e.flow][k]
          <6>1. CASE e.flow # d.flow
            <7>1. seen'[e.flow] = seen[e.flow]  BY <2>0, <2>3, <5>0, <6>1, RequestCases
            <7> QED  BY <7>1
          <6>2. CASE e.flow = d.flow /\ k # d.req
            <7>1. seen'[d.flow][k] = seen[d.flow][k]  BY <2>0, <2>3, <6>2, RequestCases
            <7> QED  BY <6>2, <7>1
          <6>3. CASE e.flow = d.flow /\ k = d.req /\ seen[d.flow][d.req] # Never
            <7>1. seen'[d.flow][d.req] = seen[d.flow][d.req]  BY <2>0, <2>3, <6>3, RequestCases
            <7> QED  BY <6>3, <7>1
          <6> QED  BY <4>2, <6>1, <6>2, <6>3
        <5> QED  BY <3>2, <5>1 DEF LateInv
      <4> QED  BY <4>1, <4>2
    <3> QED  BY <1>0, <2>0, <2>1, <3>2 DEF LateInv
  <2> QED  BY <2>0, <2>2, <2>3
<1> QED  BY <1>2, <1>3, <1>4 DEF Next

\* A sample is the time from the first capture of its request.
Right(s) == seen[s.flow][s.req] # Never /\ s.time = s.ts - seen[s.flow][s.req]

\* The position that a response passes the tests at has its own request.
LEMMA OwnRequest ==
  ASSUME TypeInv, SeqInv, MadeInv, StandInv, LateInv, OnePass, Window = 1, reconnects = 0,
         NEW d \in Waiting, d.type = "M_RSP", TimedResponse(d)
  PROVE  seen[d.flow][d.req] # Never /\ req_out_if[slot[d.flow]] = seen[d.flow][d.req]
<1>1. d \in Packet /\ Numbered(d)
  BY WaitingPackets DEF TypeInv, PacketInv
<1>2. /\ d.flow \in Flows /\ d.req \in 1 .. MaxReqs /\ d.ts \in Nat
      /\ Len(reqs[d.flow]) \in 0 .. MaxReqs
  BY <1>1, RequestFacts, Known DEF Packet, TypeInv
<1>3. /\ d.flow \in DOMAIN slot /\ slot[d.flow] \in Places
      /\ InWindow(slot[d.flow], d) /\ d.ts - req_out_if[slot[d.flow]] > 0
  BY <1>1, TimedCases, PlaceFacts
<1>4. Stands(d.flow)  BY <1>2, <1>3 DEF StandInv
<1>5. PICK j \in 1 .. Len(reqs[d.flow]) :
        /\ Maxseq[slot[d.flow]].req_sent_seq = reqs[d.flow][j]
        /\ seen[d.flow][j] # Never /\ req_out_if[slot[d.flow]] = seen[d.flow][j]
  BY <1>4 DEF Stands
<1>6. j \in 1 .. MaxReqs  BY <1>2, Known
<1>7. PICK a \in FirstSeqs : FromFirst(d.flow, a)  BY <1>2 DEF SeqInv
<1>8. a \in Words  BY Known DEF Words
<1>9. d.req \in 1 .. Len(reqs[d.flow])  BY <1>1, <1>2, Known DEF Numbered
<1>10. reqs[d.flow][j] = SeqNo(a, j) /\ reqs[d.flow][d.req] = SeqNo(a, d.req)
  BY <1>7, <1>9 DEF FromFirst
<1>11. Minus(Plus(SeqNo(a, d.req), Payload), SeqNo(a, j)) <= Payload
  <2>1. d.sent_seq = Plus(SeqNo(a, d.req), Payload)  BY <1>1, <1>10 DEF Numbered, Ack
  <2>2. Maxseq[slot[d.flow]].payload_len = Payload  BY <1>4 DEF Stands
  <2> QED  BY <1>3, <1>5, <1>10, <2>1, <2>2 DEF InWindow
<1>12. d.req = j \/ d.req + 1 = j  BY <1>2, <1>6, <1>8, <1>11, WindowExact
<1>13. d.req + 1 # j
  <2> SUFFICES ASSUME d.req + 1 = j PROVE FALSE
    OBVIOUS
  <2>1. j > d.req  BY <1>2
  <2>2. d.ts <= seen[d.flow][j]  BY <1>5, <1>6, <2>1 DEF LateInv
  <2>3. req_out_if[slot[d.flow]] \in Nat  BY <1>3, Known DEF TypeInv, TableTypes
  <2> QED  BY <1>2, <1>3, <1>5, <2>2, <2>3
<1> QED  BY <1>5, <1>12, <1>13

\* The time a request was first taken is not changed any more.
LEMMA SeenStays ==
  ASSUME TypeInv, [Next]_vars, NEW f \in Flows, NEW k \in 1 .. MaxReqs, seen[f][k] # Never
  PROVE  seen'[f][k] = seen[f][k]
<1>1. CASE Environment \/ UNCHANGED vars
  BY <1>1, EnvironmentKeeps DEF monitorVars, requestStats
<1>2. ASSUME NEW q \in Rings, Monitor(q), OnResponse(Head(net[q]))
      PROVE  seen'[f][k] = seen[f][k]
  BY <1>2 DEF OnResponse, requestStats
<1>3. ASSUME NEW q \in Rings, Monitor(q), NEW d, d = Head(net[q]), OnRequest(d)
      PROVE  seen'[f][k] = seen[f][k]
  <2>0. d \in Packet  BY <1>3, MonitorTakes
  <2>1. CASE f # d.flow
    <3>1. seen'[f] = seen[f]  BY <1>3, <2>0, <2>1, RequestCases
    <3> QED  BY <3>1
  <2>2. CASE f = d.flow /\ k # d.req
    <3>1. seen'[d.flow][k] = seen[d.flow][k]  BY <1>3, <2>0, <2>2, RequestCases
    <3> QED  BY <2>2, <3>1
  <2>3. CASE f = d.flow /\ k = d.req
    <3>1. seen'[d.flow][d.req] = seen[d.flow][d.req]  BY <1>3, <2>0, <2>3, RequestCases
    <3> QED  BY <2>3, <3>1
  <2> QED  BY <2>1, <2>2, <2>3
<1> QED  BY <1>1, <1>2, <1>3, MonitorTakes DEF Next

RightInv == OnePass /\ Window = 1 /\ reconnects = 0 => \A s \in Samples : Right(s)

LEMMA RightStep ==
  ASSUME TypeInv, [Next]_vars, SeqInv, MadeInv, StandInv, LateInv, RightInv
  PROVE  RightInv'
<1> SUFFICES ASSUME OnePass, Window = 1, reconnects' = 0, NEW s \in Samples'
             PROVE  Right(s)'
  BY DEF RightInv
<1>0. reconnects = 0 /\ TypeInv'  BY ReconnectsGrow, TypeStep
<1>1. ack_time \in Seq(Sample) /\ ack_time' \in Seq(Sample)
      /\ Len(ack_time) \in Nat /\ DOMAIN ack_time = 1 .. Len(ack_time)
  BY <1>0 DEF TypeInv, SampleTypes
<1>2. ASSUME s \in Samples PROVE Right(s)'
  <2>1. Right(s) /\ s \in Sample  BY <1>0, <1>1, <1>2 DEF RightInv, Samples
  <2>2. s.flow \in Flows /\ s.req \in 1 .. MaxReqs  BY <2>1 DEF Sample
  <2>3. seen'[s.flow][s.req] = seen[s.flow][s.req]  BY <2>1, <2>2, SeenStays DEF Right
  <2> QED  BY <2>1, <2>3 DEF Right
<1>3. CASE UNCHANGED ack_time  BY <1>2, <1>3 DEF Samples
<1>4. ASSUME NEW d, NEW pri, d.type = "M_RSP", d \in Waiting, d \in Packet,
             TimedResponse(d), OnResponse(d),
             Len(ack_time') = Len(ack_time) + 1,
             ack_time'[Len(ack_time) + 1] = NewSample(d, pri),
             \A i \in 1 .. Len(ack_time) : ack_time'[i] = ack_time[i]
      PROVE  Right(s)'
  <2>1. s \in Samples \/ s = NewSample(d, pri)
    <3>1. DOMAIN ack_time' = 1 .. Len(ack_time) + 1  BY <1>1, <1>4
    <3> QED  BY <1>1, <1>4, <3>1 DEF Samples
  <2>2. CASE s = NewSample(d, pri)
    <3>1. /\ s.flow = d.flow /\ s.req = d.req /\ s.ts = d.ts
          /\ s.time = d.ts - req_out_if[slot[d.flow]]
      BY <2>2 DEF NewSample
    <3>2. seen[d.flow][d.req] # Never /\ req_out_if[slot[d.flow]] = seen[d.flow][d.req]
      BY <1>0, <1>4, OwnRequest
    <3>3. seen' = seen  BY <1>4 DEF OnResponse, requestStats
    <3> QED  BY <3>1, <3>2, <3>3 DEF Right
  <2> QED  BY <1>2, <2>1, <2>2
<1> QED  BY <1>3, <1>4, SampleCases

\* Everything the proof of the samples' accuracy rests on.
TimingInv == TypeInv /\ SeqInv /\ FreshInv /\ MadeInv /\ StandInv /\ LateInv /\ RightInv

LEMMA TimingInit == Init => TimingInv
<1>1. Init => RightInv
  <2>1. Init => Samples = {}  BY DEF Init, Samples
  <2> QED  BY <2>1 DEF RightInv
<1> QED  BY <1>1, TypeInit, SeqInit, FreshInit, MadeInit, StandInit, LateInit DEF TimingInv

LEMMA TimingStep == TimingInv /\ [Next]_vars => TimingInv'
  BY TypeStep, SeqStep, FreshStep, MadeStep, StandStep, LateStep, RightStep DEF TimingInv

\* Of clients that wait for each response, every sample is the time between
\* the first capture of a request and that of its own response, with any
\* number of losses and copies and with the directions on different queues,
\* as long as the payload of a flow's requests does not fill the sequence
\* space and none of them starts at sequence number 0.
THEOREM SamplesAreAccurate == Spec => [](OnePass => SamplesAccurate)
<1>1. Spec => []TimingInv  BY TimingInit, TimingStep, PTL DEF Spec
<1>2. TimingInv => (OnePass => SamplesAccurate)
  BY DEF TimingInv, RightInv, Right, SamplesAccurate
<1> QED  BY <1>1, <1>2, PTL

(* When no number wraps, and the hash has room for all clients.            *)

\* All numbers of a flow's first connection are above 0 and below SeqMod.
NoWrap ==
  /\ 0 \notin FirstSeqs
  /\ \A a \in FirstSeqs \cup {0} : a + MaxReqs * Payload < SeqMod

\* Traffic the counters of missed and repeated packets can be trusted for:
\* one request under way per client, on its first connection, without a wrap,
\* and a hash that can hold every client.
Calm ==
  /\ Window = 1 /\ reconnects = 0 /\ NoWrap
  /\ Cardinality(Flows) <= REQ_HASH_ENTRIES

LEMMA NumberNoWrap ==
  ASSUME NoWrap, NEW a \in FirstSeqs, NEW k \in 1 .. MaxReqs
  PROVE  /\ a \in Nat \ {0} /\ (k - 1) * Payload \in Nat
         /\ SeqNo(a, k) = a + (k - 1) * Payload
         /\ Plus(SeqNo(a, k), Payload) = a + (k - 1) * Payload + Payload
         /\ a + (k - 1) * Payload + Payload < SeqMod
<1>1. /\ k \in Nat \ {0} /\ MaxReqs \in Nat /\ k <= MaxReqs /\ Payload \in Nat \ {0}
      /\ SeqMod \in Nat \ {0} /\ a \in Words /\ a \in Nat
  BY Known DEF Words
<1>2. a # 0  BY DEF NoWrap
<1> DEFINE x == (k - 1) * Payload
           y == k * Payload
           z == MaxReqs * Payload
<1>3. x \in Nat /\ y = x + Payload /\ Plus(SeqNo(a, k), Payload) = Plus(a, y)
  BY <1>1, SeqNoFacts
<1>4. y <= z /\ z \in Nat  BY <1>1, Monotone
<1>5. a + z < SeqMod  BY DEF NoWrap
<1> HIDE DEF x, y, z
<1>6. a + x + Payload < SeqMod  BY <1>1, <1>3, <1>4, <1>5
<1> DEFINE u == a + x
           v == a + y
<1>7. u \in 0 .. SeqMod - 1 /\ v \in 0 .. SeqMod - 1  BY <1>1, <1>3, <1>6
<1>8. u % SeqMod = u /\ v % SeqMod = v
  <2> HIDE DEF u, v
  <2> QED  BY <1>1, <1>7
<1>9. SeqNo(a, k) = u  BY <1>8, Zenon DEF SeqNo, Plus, x, u
<1>10. Plus(a, y) = v  BY <1>8, Zenon DEF Plus, v
<1>11. v = a + x + Payload  BY <1>1, <1>3
<1> QED  BY <1>1, <1>2, <1>3, <1>6, <1>9, <1>10, <1>11 DEF x

\* Then the numbers of a flow's requests rise, and its own response is within
\* each request's window.
LEMMA CalmNumbers ==
  ASSUME TypeInv, SeqInv, NoWrap, reconnects = 0, NEW f \in Flows,
         NEW j \in 1 .. Len(reqs[f]), NEW k \in 1 .. Len(reqs[f])
  PROVE  /\ reqs[f][j] \in Nat /\ reqs[f][k] \in Nat /\ reqs[f][k] > 0
         /\ Ack(f, j) = reqs[f][j] + Payload /\ Ack(f, k) = reqs[f][k] + Payload
         /\ j < k => reqs[f][j] < reqs[f][k]
         /\ Minus(Ack(f, k), reqs[f][k]) = Payload
<1>1. Len(reqs[f]) \in 0 .. MaxReqs  BY RequestFacts DEF TypeInv
<1>2. j \in 1 .. MaxReqs /\ k \in 1 .. MaxReqs /\ Payload \in 1 .. SeqMod - 1 /\ SeqMod \in Nat \ {0}
  BY <1>1, Known
<1>3. PICK a \in FirstSeqs : FromFirst(f, a)  BY DEF SeqInv
<1>4. reqs[f][j] = SeqNo(a, j) /\ reqs[f][k] = SeqNo(a, k)  BY <1>3 DEF FromFirst
<1> DEFINE x == (j - 1) * Payload
           y == (k - 1) * Payload
<1>5. /\ a \in Nat \ {0} /\ x \in Nat /\ y \in Nat
      /\ reqs[f][j] = a + x /\ reqs[f][k] = a + y
      /\ Ack(f, j) = a + x + Payload /\ Ack(f, k) = a + y + Payload
  BY <1>2, <1>3, <1>4, NumberNoWrap DEF Ack
<1>6. j < k => x + Payload <= y
  <2> SUFFICES ASSUME j < k PROVE x + Payload <= y
    OBVIOUS
  <2> DEFINE m == j - 1
             n == k - 1
  <2>1. m \in Nat /\ n \in Nat /\ m + 1 <= n /\ Payload \in Nat  BY <1>2
  <2> HIDE DEF m, n
  <2>2. (m + 1) * Payload <= n * Payload  BY <2>1, Monotone
  <2>3. (m + 1) * Payload = m * Payload + Payload  BY <2>1, SMT
  <2> QED  BY <2>2, <2>3 DEF m, n
<1> HIDE DEF x, y
<1>7. Minus(Ack(f, k), reqs[f][k]) = Payload
  <2>1. Ack(f, k) - reqs[f][k] = Payload  BY <1>2, <1>5
  <2>2. Payload % SeqMod = Payload  BY <1>2
  <2> QED  BY <2>1, <2>2, Zenon DEF Minus
<1> QED  BY <1>2, <1>5, <1>6, <1>7

(* What a step does to the queues, for clients that wait for responses.    *)

\* Packets are only ever sent about a flow's last request.
SendsRequest(d) ==
  /\ d.type = "M_REQ" /\ d.req = Len(reqs[d.flow]) + 1
  /\ UNCHANGED <<replied, again>>
SendsReply(d) ==
  /\ d.type = "M_RSP" /\ d.req = replied[d.flow] + 1
  /\ replied' = [replied EXCEPT ![d.flow] = d.req] /\ UNCHANGED <<reqs, again>>
SendsCopy(d) ==
  /\ d.type = "M_RSP" => d.req = replied[d.flow]
  /\ again' = again + 1 /\ UNCHANGED <<reqs, replied>>

SendsLast(d) ==
  /\ Sends(d) /\ UNCHANGED <<monitorVars, lost>>
  /\ d.req = Len(reqs'[d.flow])
  /\ SendsRequest(d) \/ SendsReply(d) \/ SendsCopy(d)

LEMMA NetCases ==
  ASSUME TypeInv, LateInv, Window = 1, [Next]_vars
  PROVE  \/ UNCHANGED <<net, monitorVars, reqs, replied, again, lost>>
         \/ \E d : SendsLast(d)
         \/ \E q \in Rings : Lose(q) \/ Monitor(q)
<1>0. /\ ClientTypes
      /\ \A f \in Flows : /\ Len(reqs[f]) \in Nat /\ replied[f] \in Nat /\ replied[f] <= Len(reqs[f])
                          /\ Len(reqs[f]) <= replied[f] + 1
  <2>1. \A f \in Flows : Len(reqs[f]) \in Nat /\ replied[f] \in Nat /\ replied[f] <= Len(reqs[f])
    BY DEF TypeInv, ClientTypes
  <2> QED  BY <2>1 DEF TypeInv, LateInv
<1>1. ASSUME NEW f \in Flows, Request(f) PROVE \E d : SendsLast(d)
  <2>1. PICK d : Sends(d) /\ d.type = "M_REQ" /\ d.flow = f /\ d.req = Len(reqs[f]) + 1
    BY <1>1, RequestSends
  <2>2. Len(reqs'[f]) = Len(reqs[f]) + 1  BY <1>1, RequestSends
  <2>3. UNCHANGED <<monitorVars, lost, replied, again>>  BY <1>1 DEF Request
  <2>4. SendsRequest(d)  BY <2>1, <2>3 DEF SendsRequest
  <2> QED  BY <2>1, <2>2, <2>3, <2>4 DEF SendsLast
<1>2. ASSUME NEW f \in Flows, RequestAgain(f) \/ Reply(f) \/ ReplyAgain(f)
      PROVE  \E d : SendsLast(d)
  <2>1. PICK d : /\ Sends(d) /\ d.flow = f /\ d.req \in 1 .. Len(reqs[f])
                 /\ RequestAgain(f) => d.type = "M_REQ" /\ d.req > replied[f]
                 /\ Reply(f) => d.type = "M_RSP" /\ d.req = replied[f] + 1
                 /\ ReplyAgain(f) => d.type = "M_RSP" /\ d.req = Len(reqs[f])
    BY <1>2, OtherSends
  <2>2. UNCHANGED <<monitorVars, lost, reqs>>
    BY <1>2 DEF RequestAgain, Reply, ReplyAgain
  <2>3. CASE RequestAgain(f)
    <3>1. d.req = Len(reqs[f])  BY <1>0, <2>1, <2>3
    <3>2. SendsCopy(d)  BY <2>1, <2>2, <2>3 DEF RequestAgain, SendsCopy
    <3> QED  BY <2>1, <2>2, <3>1, <3>2 DEF SendsLast
  <2>4. CASE Reply(f)
    <3>1. d.req = Len(reqs[f])  BY <1>0, <2>1, <2>4
    <3>2. SendsReply(d)  BY <2>1, <2>2, <2>4 DEF Reply, SendsReply
    <3> QED  BY <2>1, <2>2, <3>1, <3>2 DEF SendsLast
  <2>5. CASE ReplyAgain(f)
    <3>1. SendsCopy(d)  BY <2>1, <2>2, <2>5 DEF ReplyAgain, SendsCopy
    <3> QED  BY <2>1, <2>2, <2>5, <3>1 DEF SendsLast
  <2> QED  BY <1>2, <2>3, <2>4, <2>5
<1>3. CASE Tick \/ (\E f \in Flows : Reconnect(f)) \/ UNCHANGED vars
  BY <1>3 DEF Tick, Reconnect, vars, clientVars
<1> QED  BY <1>1, <1>2, <1>3 DEF Next, Environment

\* Every packet is on its own queue, and there behind all earlier requests of
\* its flow.
HomeInv ==
  \A r \in Rings : \A i \in 1 .. Len(net[r]) : RingOf(net[r][i].type, net[r][i].flow) = r

OrderInv ==
  \A r \in Rings : \A i, j \in 1 .. Len(net[r]) :
    i < j /\ net[r][i].flow = net[r][j].flow => net[r][i].req <= net[r][j].req

\* What waits is not about a request before one that was taken or sampled.
FrontInv ==
  \A d \in Waiting :
    /\ d.type = "M_REQ" \/ d.flow \notin Split =>
         \A k \in 1 .. MaxReqs : seen[d.flow][k] # Never => k <= d.req
    /\ d.type = "M_RSP" =>
         \A s \in Samples : s.flow = d.flow => s.req <= d.req

\* Nothing is answered before it is replied to.
RepliedInv ==
  /\ \A d \in Waiting : d.type = "M_RSP" => d.req <= replied[d.flow]
  /\ \A s \in Samples : s.req <= replied[s.flow]

LineInv == Window = 1 => HomeInv /\ OrderInv /\ FrontInv /\ RepliedInv

LEMMA LineInit == Init => LineInv
<1> SUFFICES ASSUME Init PROVE LineInv
  OBVIOUS
<1>1. \A r \in Rings : net[r] = <<>> /\ Len(net[r]) = 0  BY DEF Init
<1>2. \A r \in Rings : 1 .. Len(net[r]) = {}  BY <1>1
<1>3. Waiting = {}  BY <1>2 DEF Waiting
<1>4. Samples = {}  BY DEF Init, Samples
<1> QED  BY <1>2, <1>3, <1>4 DEF LineInv, HomeInv, OrderInv, FrontInv, RepliedInv

LEMMA SampleFacts ==
  ASSUME TypeInv
  PROVE  /\ DOMAIN ack_time = 1 .. Len(ack_time) /\ Len(ack_time) \in Nat
         /\ \A s \in Samples : s \in Sample /\ s.flow \in Flows /\ s.req \in 1 .. MaxReqs
<1>1. ack_time \in Seq(Sample)  BY DEF TypeInv, SampleTypes
<1>2. \A s \in Samples : s \in Sample  BY <1>1 DEF Samples
<1> QED  BY <1>1, <1>2 DEF Sample

\* A packet joins behind everything else of its flow.
LEMMA LineSend ==
  ASSUME TypeInv, [Next]_vars, MadeInv, AckInv, HomeInv, OrderInv, FrontInv, RepliedInv,
         NEW d, SendsLast(d)
  PROVE  HomeInv' /\ OrderInv' /\ FrontInv' /\ RepliedInv'
<1> DEFINE q == RingOf(d.type, d.flow)
           n == Len(net[q])
<1>0. net \in [Rings -> Seq(Packet)] /\ d \in Packet /\ Sends(d) /\ ClientTypes
  BY DEF TypeInv, PacketInv, SendsLast, Sends
<1>1. /\ q \in Rings /\ Waiting' = Waiting \cup {d}
      /\ Len(net'[q]) = n + 1 /\ net'[q][n + 1] = d
      /\ \A i \in 1 .. n : net'[q][i] = net[q][i]
      /\ \A r \in Rings \ {q} : net'[r] = net[r]
  BY <1>0, SendNet
<1>2. n \in Nat /\ 1 .. n + 1 = 1 .. n \cup {n + 1}  BY <1>0, <1>1
<1>3. d.flow \in Flows /\ d.req \in 1 .. MaxReqs /\ UNCHANGED <<seen, ack_time>>
  BY <1>0 DEF Packet, SendsLast, monitorVars, requestStats, responseStats
<1>4. ASSUME NEW f \in Flows
      PROVE  Len(reqs[f]) \in Nat /\ Len(reqs'[f]) \in Nat /\ Len(reqs[f]) <= Len(reqs'[f])
  <2>1. ClientTypes'  BY TypeStep DEF TypeInv
  <2> QED  BY <1>0, <2>1, EnvironmentRequests DEF ClientTypes, MoreRequests
<1>5. ASSUME NEW e \in Waiting
      PROVE  e \in Packet /\ e.flow \in Flows /\ e.req \in Nat /\ e.req <= Len(reqs[e.flow])
  <2>1. e \in Packet /\ Numbered(e)  BY <1>0, WaitingPackets DEF TypeInv, PacketInv
  <2> QED  BY <2>1, Known DEF Packet, Numbered
<1>6. d.req = Len(reqs'[d.flow])  BY DEF SendsLast
<1>7. HomeInv'
  <2> SUFFICES ASSUME NEW r \in Rings, NEW i \in 1 .. Len(net'[r])
               PROVE  RingOf(net'[r][i].type, net'[r][i].flow) = r
    BY DEF HomeInv
  <2>1. CASE r # q  BY <1>1, <2>1 DEF HomeInv
  <2>2. CASE r = q /\ i = n + 1  BY <1>1, <2>2
  <2>3. CASE r = q /\ i \in 1 .. n  BY <1>1, <2>3 DEF HomeInv
  <2> HIDE DEF n, q
  <2> QED  BY <1>1, <1>2, <2>1, <2>2, <2>3
<1>8. OrderInv'
  <2> SUFFICES ASSUME NEW r \in Rings, NEW i \in 1 .. Len(net'[r]), NEW j \in 1 .. Len(net'[r]),
                      i < j, net'[r][i].flow = net'[r][j].flow
               PROVE  net'[r][i].req <= net'[r][j].req
    BY DEF OrderInv
  <2> HIDE DEF n, q
  <2>1. CASE r # q  BY <1>1, <2>1 DEF OrderInv
  <2>2. CASE r = q /\ j = n + 1
    <3>1. i \in 1 .. n  BY <1>1, <1>2, <2>2
    <3>2. net'[r][i] = net[q][i] /\ net'[r][j] = d  BY <1>1, <2>2, <3>1
    <3>3. net[q][i] \in Waiting  BY <1>1, <3>1 DEF Waiting, n
    <3> QED  BY <1>3, <1>4, <1>5, <1>6, <3>2, <3>3, SMTT(20)
  <2>3. CASE r = q /\ j \in 1 .. n
    <3>1. i \in 1 .. n  BY <1>1, <1>2, <2>3
    <3>2. net'[r][i] = net[q][i] /\ net'[r][j] = net[q][j]  BY <1>1, <2>3, <3>1
    <3> QED  BY <1>1, <2>3, <3>1, <3>2 DEF OrderInv, n
  <2> QED  BY <1>1, <1>2, <2>1, <2>2, <2>3
<1>9. FrontInv'
  <2>1. Samples' = Samples  BY <1>3 DEF Samples
  <2>2. ASSUME NEW k \in 1 .. MaxReqs, seen[d.flow][k] # Never PROVE k <= d.req
    BY <1>3, <1>4, <1>6, <2>2 DEF MadeInv
  <2>3. ASSUME NEW s \in Samples, s.flow = d.flow PROVE s.req <= d.req
    <3>1. s.req <= Len(reqs[d.flow]) /\ s.req \in 1 .. MaxReqs
      BY <2>3, SampleFacts DEF AckInv, Acked
    <3> QED  BY <1>3, <1>4, <1>6, <3>1
  <2> QED  BY <1>1, <1>3, <2>1, <2>2, <2>3 DEF FrontInv
<1>10. RepliedInv'
  <2>1. Samples' = Samples  BY <1>3 DEF Samples
  <2>2. \A f \in Flows : replied[f] \in Nat /\ replied'[f] \in Nat /\ replied[f] <= replied'[f]
    <3>1. \A f \in Flows : replied[f] \in Nat  BY <1>0 DEF ClientTypes
    <3>2. replied' = replied \/ (d.req = replied[d.flow] + 1 /\ replied' = [replied EXCEPT ![d.flow] = d.req])
      BY DEF SendsLast, SendsRequest, SendsReply, SendsCopy
    <3>3. replied \in [Flows -> Nat] /\ d.req \in Nat
      BY <1>0, <1>3, Known DEF ClientTypes
    <3>4. CASE replied' = replied  BY <3>1, <3>4
    <3>5. CASE d.req = replied[d.flow] + 1 /\ replied' = [replied EXCEPT ![d.flow] = d.req]
      <4>1. \A f \in Flows : replied'[f] = IF f = d.flow THEN d.req ELSE replied[f]
        BY <3>3, <3>5
      <4> QED  BY <3>1, <3>3, <3>5, <4>1
    <3> QED  BY <3>2, <3>4, <3>5
  <2>3. d.type = "M_RSP" => d.req <= replied'[d.flow]
    <3>1. CASE SendsRequest(d)  BY <3>1 DEF SendsRequest
    <3>2. CASE SendsReply(d)  BY <1>0, <1>3, <3>2 DEF SendsReply, ClientTypes
    <3>3. CASE SendsCopy(d)  BY <1>3, <2>2, <3>3 DEF SendsCopy
    <3> QED  BY <3>1, <3>2, <3>3 DEF SendsLast
  <2>4. ASSUME NEW e \in Waiting, e.type = "M_RSP" PROVE e.req <= replied'[e.flow]
    BY <1>5, <2>2, <2>4 DEF RepliedInv
  <2>5. ASSUME NEW s \in Samples PROVE s.req <= replied'[s.flow]
    <3>1. s.req <= replied[s.flow]  BY DEF RepliedInv
    <3>2. s.flow \in Flows /\ s.req \in 1 .. MaxReqs  BY SampleFacts
    <3> QED  BY <2>2, <3>1, <3>2
  <2> QED  BY <1>1, <2>1, <2>3, <2>4, <2>5 DEF RepliedInv
<1> QED  BY <1>7, <1>8, <1>9, <1>10

\* The packet taken is not about a later request than one behind it.
LEMMA TakenFirst ==
  ASSUME TypeInv, HomeInv, OrderInv, NEW q \in Rings, Take(q), NEW e \in Waiting',
         e.flow = Head(net[q]).flow,
         RingOf(e.type, e.flow) = RingOf(Head(net[q]).type, Head(net[q]).flow)
  PROVE  /\ Head(net[q]).req <= e.req
         /\ \E i \in 2 .. Len(net[q]) : e = net[q][i]
<1>0. net \in [Rings -> Seq(Packet)]  BY DEF TypeInv, PacketInv
<1>1. /\ Head(net[q]) = net[q][1] /\ Len(net[q]) \in Nat \ {0}
      /\ Len(net'[q]) = Len(net[q]) - 1
      /\ \A i \in 1 .. Len(net'[q]) : net'[q][i] = net[q][i + 1]
      /\ \A r \in Rings \ {q} : net'[r] = net[r]
  BY <1>0, TakeNet
<1>2. PICK r \in Rings : \E j \in 1 .. Len(net'[r]) : e = net'[r][j]  BY DEF Waiting
<1>2a. PICK i \in 1 .. Len(net'[r]) : e = net'[r][i]  BY <1>2
<1>3. 1 \in 1 .. Len(net[q]) /\ RingOf(net[q][1].type, net[q][1].flow) = q
  BY <1>1 DEF HomeInv
<1>4. r = q
  <2> SUFFICES ASSUME r # q PROVE FALSE
    OBVIOUS
  <2>1. RingOf(e.type, e.flow) = r  BY <1>1, <1>2a DEF HomeInv
  <2> QED  BY <1>1, <1>3, <2>1
<1>5. /\ i + 1 \in 1 .. Len(net[q]) /\ 1 < i + 1 /\ e = net[q][i + 1]
      /\ i + 1 \in 2 .. Len(net[q])
  BY <1>1, <1>2a, <1>4
<1>6. net[q][1].req <= net[q][i + 1].req  BY <1>1, <1>3, <1>5 DEF OrderInv
<1> QED  BY <1>1, <1>5, <1>6

\* What is seen or sampled by a step was taken by it.
LEMMA SeenCases ==
  ASSUME TypeInv, NEW q \in Rings, Monitor(q), NEW f \in Flows, NEW k \in 1 .. MaxReqs,
         seen'[f][k] # Never, seen[f][k] = Never
  PROVE  OnRequest(Head(net[q])) /\ f = Head(net[q]).flow /\ k = Head(net[q]).req
<1> DEFINE d == Head(net[q])
<1>1. d \in Packet /\ (OnRequest(d) \/ OnResponse(d))  BY MonitorTakes
<1> HIDE DEF d
<1>2. OnRequest(d)
  <2>1. OnResponse(d) => seen' = seen  BY DEF OnResponse, requestStats
  <2> QED  BY <1>1, <2>1
<1>3. f = d.flow
  <2> SUFFICES ASSUME f # d.flow PROVE FALSE
    OBVIOUS
  <2>1. seen'[f] = seen[f]  BY <1>1, <1>2, RequestCases
  <2> QED  BY <2>1
<1>4. k = d.req  BY <1>1, <1>2, <1>3, RequestCases
<1> QED  BY <1>2, <1>3, <1>4 DEF d

LEMMA LineTake ==
  ASSUME TypeInv, HomeInv, OrderInv, FrontInv, RepliedInv, NEW q \in Rings, Take(q),
         NEW d, d = Head(net[q]), UNCHANGED replied,
         \A f \in Flows : \A k \in 1 .. MaxReqs :
           seen'[f][k] # Never => \/ seen[f][k] # Never
                                  \/ d.type = "M_REQ" /\ f = d.flow /\ k = d.req,
         \A s \in Samples' : s \in Samples \/ (d.type = "M_RSP" /\ s.flow = d.flow /\ s.req = d.req)
  PROVE  HomeInv' /\ OrderInv' /\ FrontInv' /\ RepliedInv'
<1>0. net \in [Rings -> Seq(Packet)]  BY DEF TypeInv, PacketInv
<1>1. /\ Head(net[q]) = net[q][1] /\ Len(net[q]) \in Nat \ {0}
      /\ Len(net'[q]) = Len(net[q]) - 1
      /\ \A i \in 1 .. Len(net'[q]) : net'[q][i] = net[q][i + 1]
      /\ \A r \in Rings \ {q} : net'[r] = net[r]
      /\ Waiting' \subseteq Waiting /\ d \in Waiting /\ d \in Packet
  BY <1>0, TakeNet
<1>2. \A i \in 1 .. Len(net'[q]) : i \in Nat /\ i + 1 \in 1 .. Len(net[q])  BY <1>1
<1>3. HomeInv'
  <2> SUFFICES ASSUME NEW r \in Rings, NEW i \in 1 .. Len(net'[r])
               PROVE  RingOf(net'[r][i].type, net'[r][i].flow) = r
    BY DEF HomeInv
  <2>1. CASE r # q  BY <1>1, <2>1 DEF HomeInv
  <2>2. CASE r = q
    <3>1. net'[q][i] = net[q][i + 1] /\ i + 1 \in 1 .. Len(net[q])  BY <1>1, <1>2, <2>2
    <3>2. RingOf(net[q][i + 1].type, net[q][i + 1].flow) = q  BY <3>1 DEF HomeInv
    <3> QED  BY <2>2, <3>1, <3>2
  <2> QED  BY <2>1, <2>2
<1>4. OrderInv'
  <2> SUFFICES ASSUME NEW r \in Rings, NEW i \in 1 .. Len(net'[r]), NEW j \in 1 .. Len(net'[r]),
                      i < j, net'[r][i].flow = net'[r][j].flow
               PROVE  net'[r][i].req <= net'[r][j].req
    BY DEF OrderInv
  <2>1. CASE r # q  BY <1>1, <2>1 DEF OrderInv
  <2>2. CASE r = q
    <3>1. i + 1 \in 1 .. Len(net[q]) /\ j + 1 \in 1 .. Len(net[q]) /\ i + 1 < j + 1
      BY <1>2, <2>2
    <3>2. net'[r][i] = net[q][i + 1] /\ net'[r][j] = net[q][j + 1]  BY <1>1, <2>2
    <3> QED  BY <3>1, <3>2 DEF OrderInv
  <2> QED  BY <2>1, <2>2
<1>5. ASSUME NEW e \in Waiting' PROVE e \in Waiting /\ e \in Packet /\ e.flow \in Flows
  <2>1. e \in Waiting /\ e \in Packet  BY <1>0, <1>1, WaitingPackets
  <2> QED  BY <2>1 DEF Packet
<1>6. FrontInv'
  <2>1. ASSUME NEW e \in Waiting', e.type = "M_REQ" \/ e.flow \notin Split,
               NEW k \in 1 .. MaxReqs, seen'[e.flow][k] # Never
        PROVE  k <= e.req
    <3>1. CASE seen[e.flow][k] # Never  BY <1>5, <2>1, <3>1 DEF FrontInv
    <3>2. CASE d.type = "M_REQ" /\ e.flow = d.flow /\ k = d.req
      <4>1. RingOf(e.type, e.flow) = RingOf(d.type, d.flow)  BY <2>1, <3>2 DEF RingOf
      <4> QED  BY <3>2, <4>1, TakenFirst
    <3> QED  BY <1>5, <2>1, <3>1, <3>2
  <2>2. ASSUME NEW e \in Waiting', e.type = "M_RSP", NEW s \in Samples', s.flow = e.flow
        PROVE  s.req <= e.req
    <3>1. CASE s \in Samples  BY <1>5, <2>2, <3>1 DEF FrontInv
    <3>2. CASE d.type = "M_RSP" /\ s.flow = d.flow /\ s.req = d.req
      <4>1. RingOf(e.type, e.flow) = RingOf(d.type, d.flow) /\ e.flow = d.flow
        BY <2>2, <3>2
      <4> QED  BY <3>2, <4>1, TakenFirst
    <3> QED  BY <2>2, <3>1, <3>2
  <2> QED  BY <2>1, <2>2 DEF FrontInv
<1>7. RepliedInv'
  <2>1. ASSUME NEW s \in Samples' PROVE s.req <= replied[s.flow]
    BY <1>1 DEF RepliedInv
  <2> QED  BY <1>1, <2>1 DEF RepliedInv
<1> QED  BY <1>3, <1>4, <1>6, <1>7

\* What joins the samples in a step is about the response taken.
LEMMA SampledByStep ==
  ASSUME TypeInv, [Next]_vars, NEW s \in Samples', s \notin Samples
  PROVE  \E q \in Rings : \E d, pri :
           /\ Monitor(q) /\ d = Head(net[q]) /\ d.type = "M_RSP" /\ d \in Packet
           /\ TimedResponse(d) /\ Sampled(d) /\ OnResponse(d)
           /\ s = NewSample(d, pri) /\ Samples' = Samples \cup {s}
<1>0. DOMAIN ack_time = 1 .. Len(ack_time) /\ Len(ack_time) \in Nat
  BY SampleFacts
<1>1. CASE UNCHANGED ack_time  BY <1>1 DEF Samples
<1>2. ASSUME NEW q \in Rings, NEW d, NEW pri,
             Monitor(q), d = Head(net[q]), d.type = "M_RSP",
             d \in Packet, TimedResponse(d), Sampled(d), OnResponse(d),
             ack_time' \in Seq(Sample), Len(ack_time') = Len(ack_time) + 1,
             ack_time'[Len(ack_time) + 1] = NewSample(d, pri),
             \A i \in 1 .. Len(ack_time) : ack_time'[i] = ack_time[i]
      PROVE  s = NewSample(d, pri) /\ Samples' = Samples \cup {s}
  <2> DEFINE n == Len(ack_time)
             new == NewSample(d, pri)
  <2>1. DOMAIN ack_time' = 1 .. n \cup {n + 1}  BY <1>0, <1>2
  <2> HIDE DEF n, new
  <2>2. Samples' = Samples \cup {new}
    BY <1>0, <1>2, <2>1 DEF Samples, n, new
  <2> QED  BY <2>2 DEF new
<1> QED  BY <1>1, <1>2, SampleCases

LEMMA OneQueue ==
  ASSUME TypeInv, NEW p \in Rings, NEW q \in Rings, Take(p), Take(q)
  PROVE  p = q
<1> SUFFICES ASSUME p # q PROVE FALSE
  OBVIOUS
<1>1. net \in [Rings -> Seq(Packet)]  BY DEF TypeInv, PacketInv
<1>2. Len(net[q]) \in Nat /\ Len(net'[q]) = Len(net[q]) - 1  BY <1>1, TakeNet
<1>3. net'[q] = net[q]  BY <1>1, TakeNet
<1> QED  BY <1>2, <1>3

LEMMA LineStep ==
  ASSUME TypeInv, [Next]_vars, MadeInv, AckInv, LateInv, LineInv
  PROVE  LineInv'
<1> SUFFICES ASSUME Window = 1 PROVE HomeInv' /\ OrderInv' /\ FrontInv' /\ RepliedInv'
  BY DEF LineInv
<1>0. HomeInv /\ OrderInv /\ FrontInv /\ RepliedInv  BY DEF LineInv
<1>1. CASE UNCHANGED <<net, monitorVars, reqs, replied, again, lost>>
  <2>1. UNCHANGED <<net, seen, ack_time, replied>>
    BY <1>1 DEF monitorVars, requestStats, responseStats
  <2>2. Waiting' = Waiting /\ Samples' = Samples  BY <2>1 DEF Waiting, Samples
  <2> QED  BY <1>0, <2>1, <2>2 DEF HomeInv, OrderInv, FrontInv, RepliedInv
<1>2. CASE \E d : SendsLast(d)  BY <1>0, <1>2, LineSend
<1>3. ASSUME NEW q \in Rings, Lose(q) PROVE HomeInv' /\ OrderInv' /\ FrontInv' /\ RepliedInv'
  <2>1. Take(q) /\ UNCHANGED <<replied, seen, ack_time>>
    BY <1>3 DEF Lose, clientVars, monitorVars, requestStats, responseStats
  <2>2. \A s \in Samples' : s \in Samples  BY <2>1 DEF Samples
  <2>3. \A f \in Flows : \A k \in 1 .. MaxReqs : seen'[f][k] # Never => seen[f][k] # Never
    BY <2>1
  <2> DEFINE d == Head(net[q])
  <2>4. d = Head(net[q])  OBVIOUS
  <2> HIDE DEF d
  <2> QED  BY <1>0, <2>1, <2>2, <2>3, <2>4, LineTake
<1>4. ASSUME NEW q \in Rings, Monitor(q), NEW d, d = Head(net[q])
      PROVE  HomeInv' /\ OrderInv' /\ FrontInv' /\ RepliedInv'
  <2>1. Take(q) /\ UNCHANGED replied  BY <1>4, MonitorTakes DEF clientVars
  <2>2. ASSUME NEW f \in Flows, NEW k \in 1 .. MaxReqs, seen'[f][k] # Never, seen[f][k] = Never
        PROVE  d.type = "M_REQ" /\ f = d.flow /\ k = d.req
    <3>1. OnRequest(d) /\ f = d.flow /\ k = d.req  BY <1>4, <2>2, SeenCases
    <3> QED  BY <3>1 DEF OnRequest
  <2>3. ASSUME NEW s \in Samples', s \notin Samples
        PROVE  d.type = "M_RSP" /\ s.flow = d.flow /\ s.req = d.req
    <3>1. PICK p \in Rings : \E e, pri : /\ Monitor(p) /\ e = Head(net[p]) /\ e.type = "M_RSP"
                                         /\ s = NewSample(e, pri)
      BY <2>3, SampledByStep
    <3>2. p = q
      <4>1. Take(p)  BY <3>1, MonitorTakes
      <4> QED  BY <2>1, <4>1, OneQueue
    <3> QED  BY <1>4, <3>1, <3>2 DEF NewSample
  <2>4. \A f \in Flows : \A k \in 1 .. MaxReqs :
          seen'[f][k] # Never => \/ seen[f][k] # Never
                                 \/ d.type = "M_REQ" /\ f = d.flow /\ k = d.req
    BY <2>2
  <2>5. \A s \in Samples' : s \in Samples \/ (d.type = "M_RSP" /\ s.flow = d.flow /\ s.req = d.req)
    BY <2>3
  <2> QED  BY <1>0, <1>4, <2>1, <2>4, <2>5, LineTake
<1> QED  BY <1>1, <1>2, <1>3, <1>4, NetCases

(* Nothing is missed.                                                      *)

\* A request has been seen, or waits at one of the first n places.
Ahead(f, k, n) ==
  \E j \in 1 .. n : net[0][j].type = "M_REQ" /\ net[0][j].flow = f /\ net[0][j].req = k

\* While nothing is lost, each request made has been seen or waits, and in
\* front of its response.
LossInv ==
  Window = 1 /\ lost = 0 /\ Split = {} =>
    /\ \A f \in Flows : \A k \in 1 .. Len(reqs[f]) : seen[f][k] # Never \/ Ahead(f, k, Len(net[0]))
    /\ \A i \in 1 .. Len(net[0]) : net[0][i].type = "M_RSP" =>
         \/ seen[net[0][i].flow][net[0][i].req] # Never
         \/ Ahead(net[0][i].flow, net[0][i].req, i - 1)

LEMMA LossInit == Init => LossInv
<1> SUFFICES ASSUME Init PROVE LossInv
  OBVIOUS
<1>1. net[0] = <<>> /\ Len(net[0]) = 0  BY DEF Init, Rings
<1>2. \A f \in Flows : reqs[f] = <<>> /\ Len(reqs[f]) = 0  BY DEF Init
<1>3. 1 .. 0 = {}  OBVIOUS
<1> QED  BY <1>1, <1>2, <1>3 DEF LossInv

\* A packet that joins keeps those in front of it; a response joins behind
\* its request.
LEMMA LossSend ==
  ASSUME TypeInv, [Next]_vars, MadeInv, LossInv, Window = 1, lost = 0, Split = {},
         NEW d, SendsLast(d)
  PROVE  LossInv'
<1>0. net \in [Rings -> Seq(Packet)] /\ d \in Packet /\ Sends(d) /\ ClientTypes
  BY DEF TypeInv, PacketInv, SendsLast, Sends
<1>1. RingOf(d.type, d.flow) = 0 /\ 0 \in Rings  BY DEF RingOf, Rings
<1>n. PICK n \in Nat : n = Len(net[0])  BY <1>0, <1>1
<1>2. /\ Len(net'[0]) = n + 1 /\ net'[0][n + 1] = d
      /\ \A i \in 1 .. n : net'[0][i] = net[0][i]
      /\ n \in Nat
  <2> DEFINE q == RingOf(d.type, d.flow)
  <2>1. /\ Len(net'[q]) = Len(net[q]) + 1 /\ net'[q][Len(net[q]) + 1] = d
        /\ \A i \in 1 .. Len(net[q]) : net'[q][i] = net[q][i]
    BY <1>0, SendNet
  <2>2. q = 0  BY <1>1
  <2> HIDE DEF q
  <2> QED  BY <1>n, <2>1, <2>2
<1>3. d.flow \in Flows /\ d.req \in 1 .. MaxReqs /\ UNCHANGED seen /\ d.type \in {"M_REQ", "M_RSP"}
  BY <1>0 DEF Packet, SendsLast, monitorVars, requestStats
<1>4. ASSUME NEW f, NEW k, NEW m \in 0 .. n, Ahead(f, k, m) PROVE Ahead(f, k, m)'
  <2>1. \A j \in 1 .. m : j \in 1 .. n  BY <1>2
  <2> QED  BY <1>2, <1>4, <2>1 DEF Ahead
<1>5. ASSUME NEW f, NEW k, Ahead(f, k, n) PROVE Ahead(f, k, n + 1)'
  <2>1. \A j \in 1 .. n : j \in 1 .. n + 1  BY <1>2
  <2> QED  BY <1>2, <1>5, <2>1 DEF Ahead
<1>6. ASSUME d.type = "M_REQ" PROVE Ahead(d.flow, d.req, n + 1)'
  <2>1. n + 1 \in 1 .. n + 1  BY <1>2
  <2> QED  BY <1>2, <1>6, <2>1 DEF Ahead
<1>7. \A f \in Flows : \A k \in 1 .. Len(reqs'[f]) :
        k \in 1 .. Len(reqs[f]) \/ (f = d.flow /\ k = d.req /\ d.type = "M_REQ")
  <2>1. CASE UNCHANGED reqs  BY <2>1
  <2>2. CASE \E f \in Flows : Request(f)
    <3>1. PICK f \in Flows : Request(f)  BY <2>2
    <3>2. /\ Len(reqs'[f]) = Len(reqs[f]) + 1 /\ Len(reqs[f]) \in Nat
          /\ \A g \in Flows : g # f => reqs'[g] = reqs[g]
      BY <1>0, <3>1, RequestSends DEF ClientTypes
    <3>3. PICK e : Sends(e) /\ e.type = "M_REQ" /\ e.flow = f /\ e.req = Len(reqs[f]) + 1
      BY <3>1, RequestSends
    <3>4. e = d
      <4>1. RingOf(e.type, e.flow) = 0  BY DEF RingOf
      <4>2. net'[0][n + 1] = e  BY <1>0, <3>3, <4>1, <1>n, SendNet
      <4> QED  BY <1>2, <4>2
    <3> QED  BY <3>2, <3>3, <3>4
  <2> QED  BY <2>1, <2>2
      DEF Next, Environment, Tick, RequestAgain, Reply, ReplyAgain, Reconnect, Lose, Monitor,
          vars, clientVars
<1>8. ASSUME NEW f \in Flows, NEW k \in 1 .. Len(reqs'[f])
      PROVE  seen[f][k] # Never \/ Ahead(f, k, n + 1)'
  <2>1. CASE k \in 1 .. Len(reqs[f])  BY <1>5, <1>n, <2>1 DEF LossInv
  <2>2. CASE f = d.flow /\ k = d.req /\ d.type = "M_REQ"  BY <1>6, <2>2
  <2> QED  BY <1>7, <2>1, <2>2
<1>9. ASSUME NEW i \in 1 .. n + 1, NEW e, e = net'[0][i], e.type = "M_RSP"
      PROVE  seen[e.flow][e.req] # Never \/ Ahead(e.flow, e.req, i - 1)'
  <2>1. CASE i \in 1 .. n
    <3>1. i - 1 \in 0 .. n /\ e = net[0][i]  BY <1>2, <1>9, <2>1
    <3>2. seen[e.flow][e.req] # Never \/ Ahead(e.flow, e.req, i - 1)
      BY <1>n, <1>9, <2>1, <3>1 DEF LossInv
    <3> QED  BY <1>4, <3>1, <3>2
  <2>2. CASE i = n + 1
    <3>1. e = d  BY <1>2, <1>9, <2>2
    <3>2. d.req \in 1 .. Len(reqs[d.flow])
      <4>1. d.req = Len(reqs'[d.flow]) /\ d.req \in Nat \ {0}
        BY <1>3, Known DEF SendsLast
      <4>2. d.req \in 1 .. Len(reqs'[d.flow])  BY <4>1
      <4> QED  BY <1>3, <1>7, <1>9, <3>1, <4>2
    <3>3. seen[d.flow][d.req] # Never \/ Ahead(d.flow, d.req, n)
      BY <1>n, <1>3, <3>2 DEF LossInv
    <3>4. i - 1 = n /\ n \in 0 .. n  BY <1>2, <2>2
    <3> QED  BY <1>4, <3>1, <3>3, <3>4
  <2> QED  BY <1>2, <2>1, <2>2
<1>10. \A i \in 1 .. n + 1 : net'[0][i].type = "M_RSP" =>
         \/ seen[net'[0][i].flow][net'[0][i].req] # Never
         \/ \E j \in 1 .. i - 1 : /\ net'[0][j].type = "M_REQ" /\ net'[0][j].flow = net'[0][i].flow
                                 /\ net'[0][j].req = net'[0][i].req
  BY <1>9 DEF Ahead
<1> QED  BY <1>2, <1>3, <1>8, <1>10 DEF LossInv, Ahead

\* What waits in front is one place nearer, or has just been seen.
LEMMA AheadShift ==
  ASSUME TypeInv, Monitor(0), NEW f \in Flows, NEW k \in 1 .. MaxReqs,
         NEW m \in Nat, m <= Len(net[0]), Ahead(f, k, m)
  PROVE  seen'[f][k] # Never \/ Ahead(f, k, m - 1)'
<1>0. net \in [Rings -> Seq(Packet)] /\ 0 \in Rings  BY DEF TypeInv, PacketInv, Rings
<1>1. /\ Take(0) /\ Head(net[0]) \in Packet
      /\ OnRequest(Head(net[0])) \/ OnResponse(Head(net[0]))
  BY <1>0, MonitorTakes
<1>2. /\ Head(net[0]) = net[0][1] /\ Len(net[0]) \in Nat \ {0}
      /\ Len(net'[0]) = Len(net[0]) - 1
      /\ \A i \in 1 .. Len(net'[0]) : net'[0][i] = net[0][i + 1]
  BY <1>0, <1>1, TakeNet
<1>3. PICK j \in 1 .. m : net[0][j].type = "M_REQ" /\ net[0][j].flow = f /\ net[0][j].req = k
  BY DEF Ahead
<1>4. CASE j = 1
  <2> DEFINE d == Head(net[0])
  <2>1. d \in Packet /\ d.type = "M_REQ" /\ d.flow = f /\ d.req = k
    BY <1>1, <1>2, <1>3, <1>4
  <2>2. OnRequest(d)  BY <1>1, <2>1 DEF OnResponse
  <2> HIDE DEF d
  <2>3. /\ seen'[d.flow][d.req] = IF seen[d.flow][d.req] = Never THEN d.ts ELSE seen[d.flow][d.req]
        /\ d.ts # Never
    BY <2>1, <2>2, RequestCases
  <2> QED  BY <2>1, <2>3
<1>5. CASE j # 1
  <2>1. j - 1 \in 1 .. m - 1 /\ j - 1 \in 1 .. Len(net'[0]) /\ (j - 1) + 1 = j
    BY <1>2, <1>3, <1>5
  <2>2. net'[0][j - 1] = net[0][j]  BY <1>2, <2>1
  <2> QED  BY <1>3, <2>1, <2>2 DEF Ahead
<1> QED  BY <1>4, <1>5

LEMMA LossTake ==
  ASSUME TypeInv, [Next]_vars, HomeInv, LossInv, Window = 1, lost = 0, Split = {},
         NEW q \in Rings, Monitor(q)
  PROVE  LossInv'
<1>0. net \in [Rings -> Seq(Packet)] /\ 0 \in Rings  BY DEF TypeInv, PacketInv, Rings
<1>1. Take(q) /\ UNCHANGED reqs  BY MonitorTakes DEF clientVars
<1>2. q = 0
  <2>1. 1 \in 1 .. Len(net[q])
    <3>1. Len(net[q]) \in Nat \ {0}  BY <1>0, <1>1, TakeNet
    <3> QED  BY <3>1
  <2>2. RingOf(net[q][1].type, net[q][1].flow) = q  BY <2>1 DEF HomeInv
  <2> QED  BY <2>2 DEF RingOf
<1>3. Monitor(0)  BY <1>2
<1>4. PICK n \in Nat : n = Len(net[0])  BY <1>0
<1>5. n # 0 /\ Len(net'[0]) = n - 1 /\ \A i \in 1 .. n - 1 : net'[0][i] = net[0][i + 1]
  BY <1>0, <1>1, <1>2, <1>4, TakeNet
<1>6. ASSUME NEW f \in Flows, NEW k \in 1 .. Len(reqs[f])
      PROVE  seen'[f][k] # Never \/ Ahead(f, k, n - 1)'
  <2>1. k \in 1 .. MaxReqs
    <3>1. Len(reqs[f]) \in 0 .. MaxReqs  BY RequestFacts DEF TypeInv
    <3> QED  BY <3>1, Known
  <2>2. CASE seen[f][k] # Never
    <3>1. seen'[f][k] = seen[f][k]  BY <2>1, <2>2, SeenStays
    <3> QED  BY <2>2, <3>1
  <2>3. CASE Ahead(f, k, n)
    <3>1. n <= Len(net[0])  BY <1>4
    <3> QED  BY <1>3, <2>1, <2>3, <3>1, AheadShift
  <2> QED  BY <1>4, <2>2, <2>3 DEF LossInv
<1>7. ASSUME NEW i \in 1 .. n - 1, NEW e, e = net'[0][i], e.type = "M_RSP"
      PROVE  seen'[e.flow][e.req] # Never \/ Ahead(e.flow, e.req, i - 1)'
  <2>1. i + 1 \in 1 .. Len(net[0]) /\ e = net[0][i + 1] /\ i + 1 - 1 = i /\ i \in Nat
        /\ i <= Len(net[0])
    BY <1>4, <1>5, <1>7
  <2>2. e \in Packet  BY <1>0, <2>1
  <2>3. e.flow \in Flows /\ e.req \in 1 .. MaxReqs  BY <2>2 DEF Packet
  <2>4. seen[e.flow][e.req] # Never \/ Ahead(e.flow, e.req, i)
    BY <1>7, <2>1 DEF LossInv
  <2>5. CASE seen[e.flow][e.req] # Never
    <3>1. seen'[e.flow][e.req] = seen[e.flow][e.req]  BY <2>3, <2>5, SeenStays
    <3> QED  BY <2>5, <3>1
  <2>6. CASE Ahead(e.flow, e.req, i)  BY <1>3, <2>1, <2>3, <2>6, AheadShift
  <2> QED  BY <2>4, <2>5, <2>6
<1>8. \A i \in 1 .. n - 1 : net'[0][i].type = "M_RSP" =>
         \/ seen'[net'[0][i].flow][net'[0][i].req] # Never
         \/ \E j \in 1 .. i - 1 : /\ net'[0][j].type = "M_REQ" /\ net'[0][j].flow = net'[0][i].flow
                                 /\ net'[0][j].req = net'[0][i].req
  BY <1>7 DEF Ahead
<1> QED  BY <1>1, <1>5, <1>6, <1>8 DEF LossInv, Ahead

LEMMA LossStep ==
  ASSUME TypeInv, [Next]_vars, MadeInv, LateInv, LineInv, LossInv
  PROVE  LossInv'
<1> SUFFICES ASSUME Window = 1, lost' = 0, Split = {} PROVE LossInv'
  BY DEF LossInv
<1>0. lost \in Nat  BY DEF TypeInv, ClientTypes
<1>1. CASE UNCHANGED <<net, monitorVars, reqs, replied, again, lost>>
  <2>1. UNCHANGED <<net, seen, reqs, lost>>  BY <1>1 DEF monitorVars, requestStats
  <2> QED  BY <2>1 DEF LossInv, Ahead
<1>2. ASSUME NEW d, SendsLast(d) PROVE LossInv'
  <2>1. lost = 0  BY <1>2 DEF SendsLast
  <2> QED  BY <1>2, <2>1, LossSend
<1>3. ASSUME NEW q \in Rings, Lose(q) PROVE FALSE
  <2>1. lost' = lost + 1  BY <1>3 DEF Lose
  <2> QED  BY <1>0, <2>1
<1>4. ASSUME NEW q \in Rings, Monitor(q) PROVE LossInv'
  <2>1. lost = 0  BY <1>4, MonitorTakes
  <2>2. HomeInv  BY DEF LineInv
  <2> QED  BY <1>4, <2>1, <2>2, LossTake
<1> QED  BY <1>1, <1>2, <1>3, <1>4, NetCases

LEMMA CalmOnePass == Calm => OnePass
<1> SUFFICES ASSUME Calm PROVE OnePass
  OBVIOUS
<1>1. NoWrap  BY DEF Calm
<1> DEFINE z == MaxReqs * Payload
<1>2. z < SeqMod
  <2>1. 0 + z < SeqMod  BY <1>1 DEF NoWrap
  <2>2. MaxReqs \in Nat /\ Payload \in Nat  BY Known
  <2>3. z \in Nat  BY <2>2, SMT
  <2> HIDE DEF z
  <2> QED  BY <2>1, <2>3
<1>3. ASSUME NEW a \in FirstSeqs, NEW k \in 0 .. MaxReqs - 1 PROVE Plus(a, k * Payload) # 0
  <2> DEFINE j == k + 1
  <2>1. j \in 1 .. MaxReqs /\ j - 1 = k  BY Known
  <2> HIDE DEF j
  <2>2. /\ a \in Nat \ {0} /\ (j - 1) * Payload \in Nat
        /\ SeqNo(a, j) = a + (j - 1) * Payload
    BY <1>1, <2>1, NumberNoWrap
  <2>3. SeqNo(a, j) = Plus(a, k * Payload)  BY <2>1 DEF SeqNo
  <2> DEFINE x == (j - 1) * Payload
  <2>4. a + x # 0
    <3>1. x \in Nat /\ a \in Nat \ {0}  BY <2>2
    <3> HIDE DEF x
    <3> QED  BY <3>1
  <2> QED  BY <2>2, <2>3, <2>4
<1> QED  BY <1>2, <1>3 DEF OnePass

\* A hash with room for all clients is not full while one has no position.
LEMMA RoomLeft ==
  ASSUME SlotInv, Cardinality(Flows) <= REQ_HASH_ENTRIES, NEW f \in Flows, f \notin DOMAIN slot
  PROVE  ~Full
<1>1. IsFiniteSet(Flows) /\ DOMAIN slot \subseteq Flows  BY Known DEF SlotInv
<1>2. IsFiniteSet(DOMAIN slot) /\ IsFiniteSet(DOMAIN slot \cup {f})
  BY <1>1, FS_Subset, FS_AddElement
<1>3. Cardinality(DOMAIN slot \cup {f}) = Cardinality(DOMAIN slot) + 1
  BY <1>2, FS_AddElement
<1>4. DOMAIN slot \cup {f} \subseteq Flows  BY <1>1
<1>5. Cardinality(DOMAIN slot \cup {f}) <= Cardinality(Flows)
  BY <1>1, <1>4, FS_Subset
<1>6. /\ Cardinality(DOMAIN slot) \in Nat /\ Cardinality(Flows) \in Nat
  BY <1>1, <1>2, FS_CardinalityType
<1> QED  BY <1>3, <1>5, <1>6, Known DEF Full

\* A flow's position stands at the last request seen: if that is request k,
\* none after it having been seen, its number is the position's; if request
\* k has not been seen, its number is above it.
LEMMA CalmSlot ==
  ASSUME TypeInv, SeqInv, MadeInv, StandInv, Calm, NEW f \in Flows, NEW k \in 1 .. Len(reqs[f]),
         \A j \in 1 .. MaxReqs : seen[f][j] # Never => j <= k
  PROVE  /\ f \notin DOMAIN slot => ~Full /\ seen[f][k] = Never
         /\ f \in DOMAIN slot => Maxseq[slot[f]].payload_len = Payload
         /\ f \in DOMAIN slot /\ seen[f][k] # Never => Maxseq[slot[f]].req_sent_seq = reqs[f][k]
         /\ f \in DOMAIN slot /\ seen[f][k] = Never => Maxseq[slot[f]].req_sent_seq < reqs[f][k]
<1>0. /\ OnePass /\ reconnects = 0 /\ NoWrap /\ Cardinality(Flows) <= REQ_HASH_ENTRIES
      /\ Len(reqs[f]) \in 0 .. MaxReqs /\ k \in 1 .. MaxReqs
  <2>1. Len(reqs[f]) \in 0 .. MaxReqs  BY RequestFacts DEF TypeInv
  <2> QED  BY <2>1, CalmOnePass, Known DEF Calm
<1>1. ASSUME f \notin DOMAIN slot PROVE ~Full /\ seen[f][k] = Never
  <2>1. ~Full  BY <1>0, <1>1, RoomLeft DEF TypeInv
  <2> QED  BY <1>0, <1>1, <2>1 DEF StandInv, NoneSeen
<1>2. ASSUME f \in DOMAIN slot
      PROVE  /\ Maxseq[slot[f]].payload_len = Payload
             /\ seen[f][k] # Never => Maxseq[slot[f]].req_sent_seq = reqs[f][k]
             /\ seen[f][k] = Never => Maxseq[slot[f]].req_sent_seq < reqs[f][k]
  <2>1. Stands(f)  BY <1>0, <1>2 DEF StandInv
  <2>2. PICK j \in 1 .. Len(reqs[f]) : Maxseq[slot[f]].req_sent_seq = reqs[f][j] /\ seen[f][j] # Never
    BY <2>1 DEF Stands
  <2>3. j \in 1 .. MaxReqs /\ j <= k
    <3>1. j \in 1 .. MaxReqs  BY <1>0, <2>2, Known
    <3> QED  BY <2>2, <3>1
  <2>4. /\ reqs[f][j] \in Nat /\ reqs[f][k] \in Nat
        /\ j < k => reqs[f][j] < reqs[f][k]
    BY <1>0, CalmNumbers
  <2>5. seen[f][k] # Never => reqs[f][k] <= reqs[f][j]  BY <1>0, <2>1, <2>2 DEF Stands
  <2>6. Maxseq[slot[f]].payload_len = Payload  BY <2>1 DEF Stands
  <2>7. j < k \/ j = k  BY <2>3, <1>0
  <2> QED  BY <2>2, <2>4, <2>5, <2>6, <2>7
<1> QED  BY <1>1, <1>2

\* The oldest packet of a queue is about a request made, with none after it
\* seen unless it is a response from another queue.
LEMMA HeadFacts ==
  ASSUME TypeInv, FrontInv, NEW d \in Waiting
  PROVE  /\ d \in Packet /\ d.flow \in Flows /\ d.req \in 1 .. Len(reqs[d.flow])
         /\ d.req \in 1 .. MaxReqs
         /\ d.sent_seq = IF d.type = "M_REQ" THEN reqs[d.flow][d.req] ELSE Ack(d.flow, d.req)
         /\ d.type = "M_REQ" \/ d.flow \notin Split =>
              \A k \in 1 .. MaxReqs : seen[d.flow][k] # Never => k <= d.req
<1>1. d \in Packet /\ Numbered(d)  BY WaitingPackets DEF TypeInv, PacketInv
<1>2. d.flow \in Flows /\ d.req \in 1 .. MaxReqs  BY <1>1 DEF Packet
<1>3. Len(reqs[d.flow]) \in 0 .. MaxReqs  BY <1>2, RequestFacts DEF TypeInv
<1>4. d.req \in 1 .. Len(reqs[d.flow])  BY <1>1, <1>2, <1>3, Known DEF Numbered
<1> QED  BY <1>1, <1>2, <1>4 DEF Numbered, FrontInv

MissInv == Calm /\ lost = 0 /\ Split = {} => miss_rep = rsp_recount

LEMMA MissInit == Init => MissInv
  BY DEF Init, MissInv

LEMMA MissStep ==
  ASSUME TypeInv, [Next]_vars, SeqInv, MadeInv, StandInv, LineInv, LossInv, MissInv
  PROVE  MissInv'
<1> SUFFICES ASSUME Calm', lost' = 0, Split = {} PROVE miss_rep' = rsp_recount'
  BY DEF MissInv
<1>0. /\ Window = 1 /\ reconnects = 0 /\ Calm
  <2>1. Window = 1 /\ reconnects' = 0  BY DEF Calm
  <2>2. reconnects = 0  BY <2>1, ReconnectsGrow
  <2> QED  BY <2>1, <2>2 DEF Calm, NoWrap
<1>1. lost = 0
  <2>1. lost' = lost \/ lost' = lost + 1
    BY DEF Next, Environment, Tick, Request, RequestAgain, Reply, ReplyAgain, Reconnect, Lose,
           Monitor, vars
  <2> QED  BY <2>1 DEF TypeInv, ClientTypes
<1>2. miss_rep = rsp_recount /\ miss_rep \in Nat
  BY <1>0, <1>1 DEF MissInv, TypeInv, CounterTypes
<1>3. CASE Environment \/ UNCHANGED vars
  BY <1>2, <1>3, EnvironmentKeeps DEF monitorVars, responseStats
<1>4. ASSUME NEW q \in Rings, Monitor(q), OnRequest(Head(net[q])) PROVE miss_rep' = rsp_recount'
  BY <1>2, <1>4 DEF OnRequest, responseStats
<1>5. ASSUME NEW q \in Rings, Monitor(q), NEW d, d = Head(net[q]), OnResponse(d)
      PROVE  miss_rep' = rsp_recount'
  <2>0. d \in Packet /\ d \in Waiting /\ d.type = "M_RSP" /\ Take(q)
    BY <1>5, MonitorTakes DEF OnResponse
  <2>1. CASE TimedResponse(d)
    <3>1. Sampled(d) \/ Recounted(d)  BY <2>0, <2>1, TimedCases
    <3> QED  BY <1>2, <3>1 DEF Sampled, Recounted
  <2>2. CASE UntimedResponse(d)  BY <1>2, <2>2 DEF UntimedResponse
  <2>3. ASSUME MissedResponse(d) PROVE FALSE
    <3>1. HomeInv /\ FrontInv  BY <1>0 DEF LineInv
    <3>2. net \in [Rings -> Seq(Packet)]  BY DEF TypeInv, PacketInv
    <3>3. d = net[q][1] /\ 1 \in 1 .. Len(net[q]) /\ q = 0
      <4>1. d = net[q][1] /\ Len(net[q]) \in Nat \ {0}  BY <1>5, <2>0, <3>2, TakeNet
      <4>2. 1 \in 1 .. Len(net[q])  BY <4>1
      <4>3. RingOf(net[q][1].type, net[q][1].flow) = q  BY <3>1, <4>2 DEF HomeInv
      <4> QED  BY <4>1, <4>2, <4>3 DEF RingOf
    <3>4. seen[d.flow][d.req] # Never
      <4>1. seen[d.flow][d.req] # Never \/ Ahead(d.flow, d.req, 1 - 1)
        BY <1>0, <1>1, <2>0, <3>3 DEF LossInv
      <4>2. \A j \in 1 .. 1 - 1 : FALSE  OBVIOUS
      <4> QED  BY <4>1, <4>2 DEF Ahead
    <3>5. /\ d.flow \in Flows /\ d.req \in 1 .. Len(reqs[d.flow])
          /\ d.sent_seq = Ack(d.flow, d.req)
          /\ \A k \in 1 .. MaxReqs : seen[d.flow][k] # Never => k <= d.req
      BY <2>0, <3>1, HeadFacts
    <3>6. /\ d.flow \in DOMAIN slot /\ Maxseq[slot[d.flow]].payload_len = Payload
          /\ Maxseq[slot[d.flow]].req_sent_seq = reqs[d.flow][d.req]
      BY <1>0, <3>4, <3>5, CalmSlot
    <3>7. Minus(d.sent_seq, Maxseq[slot[d.flow]].req_sent_seq) = Payload
      BY <1>0, <3>5, <3>6, CalmNumbers DEF Calm
    <3>8. InWindow(slot[d.flow], d)
      <4>1. Payload <= Payload  BY Known
      <4> QED  BY <3>6, <3>7, <4>1 DEF InWindow
    <3> QED  BY <2>3, <3>6, <3>8 DEF MissedResponse
  <2> QED  BY <1>5, <2>1, <2>2, <2>3 DEF OnResponse
<1> QED  BY <1>3, <1>4, <1>5, MonitorTakes DEF Next

\* Calm clients whose packets all arrive, both directions on one queue: no
\* response is ever counted as missed but a second copy.
THEOREM NoResponseMissed == Spec => [](Calm => NothingMissed)
<1> DEFINE Inv == TimingInv /\ AckInv /\ LineInv /\ LossInv /\ MissInv
<1>1. Init => Inv
  <2>1. Init => AckInv
    <3>1. Init => ack_time = <<>>  BY DEF Init
    <3> QED  BY <3>1 DEF AckInv, Samples
  <2> QED  BY <2>1, TimingInit, LineInit, LossInit, MissInit
<1>2. Inv /\ [Next]_vars => Inv'
  BY TimingStep, AckStep, LineStep, LossStep, MissStep DEF TimingInv
<1>3. Inv => (Calm => NothingMissed)  BY DEF MissInv, NothingMissed
<1> QED  BY <1>1, <1>2, <1>3, PTL DEF Spec

(* No false retransmissions.                                               *)

\* What a position last answered is the acknowledgement of a sample.
RspInv ==
  \A f \in DOMAIN slot :
    \/ Maxseq[slot[f]].rsp_sent_seq = 0
    \/ \E s \in Samples : s.flow = f /\ Maxseq[slot[f]].rsp_sent_seq = Ack(f, s.req)

LEMMA SamplesStay ==
  ASSUME TypeInv, [Next]_vars, NEW s \in Samples
  PROVE  s \in Samples'
<1>0. DOMAIN ack_time = 1 .. Len(ack_time) /\ Len(ack_time) \in Nat
  BY SampleFacts
<1>1. CASE UNCHANGED ack_time  BY <1>1 DEF Samples
<1>2. CASE /\ ack_time' \in Seq(Sample) /\ Len(ack_time') = Len(ack_time) + 1
           /\ \A i \in 1 .. Len(ack_time) : ack_time'[i] = ack_time[i]
  <2>1. PICK i \in 1 .. Len(ack_time) : s = ack_time[i]  BY <1>0 DEF Samples
  <2>2. i \in DOMAIN ack_time' /\ ack_time'[i] = s  BY <1>0, <1>2, <2>1
  <2> QED  BY <2>2 DEF Samples
<1> QED  BY <1>1, <1>2, SampleCases

LEMMA RspInit == Init => RspInv
<1> SUFFICES ASSUME Init PROVE DOMAIN slot = {}
  BY DEF RspInv
<1> QED  BY DEF Init

LEMMA RspStep ==
  ASSUME TypeInv, [Next]_vars, FreshInv, AckInv, RspInv
  PROVE  RspInv'
<1> SUFFICES ASSUME NEW f \in DOMAIN slot', NEW p, p = slot'[f]
             PROVE  \/ Maxseq'[p].rsp_sent_seq = 0
                    \/ \E s \in Samples' : s.flow = f /\ Maxseq'[p].rsp_sent_seq = Ack(f, s.req)'
  BY DEF RspInv
<1>1. ASSUME f \in DOMAIN slot, p = slot[f], Maxseq'[p].rsp_sent_seq = Maxseq[p].rsp_sent_seq
      PROVE  \/ Maxseq'[p].rsp_sent_seq = 0
             \/ \E s \in Samples' : s.flow = f /\ Maxseq'[p].rsp_sent_seq = Ack(f, s.req)'
  <2>1. ASSUME NEW s \in Samples, s.flow = f, Maxseq[p].rsp_sent_seq = Ack(f, s.req)
        PROVE  s \in Samples' /\ Maxseq'[p].rsp_sent_seq = Ack(f, s.req)'
    <3>1. s.flow \in Flows /\ s.req \in 1 .. MaxReqs /\ s.req <= Len(reqs[f])
      BY <2>1, SampleFacts DEF AckInv, Acked
    <3>2. Len(reqs[f]) \in 0 .. MaxReqs  BY <2>1, <3>1, RequestFacts DEF TypeInv
    <3>3. f \in Flows /\ s.req \in 1 .. Len(reqs[f])  BY <2>1, <3>1, <3>2
    <3>4. Ack(f, s.req)' = Ack(f, s.req)  BY <3>3, AckKept
    <3> QED  BY <1>1, <2>1, <3>4, SamplesStay
  <2> QED  BY <1>1, <2>1 DEF RspInv
<1>2. CASE Environment \/ UNCHANGED vars
  <2>1. UNCHANGED <<slot, Maxseq>>  BY <1>2, EnvironmentKeeps DEF monitorVars, tableVars
  <2> QED  BY <1>1, <2>1
<1>3. ASSUME NEW q \in Rings, Monitor(q), NEW d, d = Head(net[q]), OnRequest(d)
      PROVE  \/ Maxseq'[p].rsp_sent_seq = 0
             \/ \E s \in Samples' : s.flow = f /\ Maxseq'[p].rsp_sent_seq = Ack(f, s.req)'
  <2>1. d \in Packet /\ d.flow \in Flows  BY <1>3, MonitorTakes DEF Packet
  <2>2. PICK pos \in Places :
              /\ \/ d.flow \in DOMAIN slot /\ pos = slot[d.flow] /\ slot' = slot
                 \/ d.flow \notin DOMAIN slot /\ Full /\ pos = ENOSPC /\ slot' = slot
                 \/ /\ d.flow \notin DOMAIN slot /\ ~Full
                    /\ pos \in Positions /\ \A g \in DOMAIN slot : slot[g] # pos
                    /\ DOMAIN slot' = DOMAIN slot \cup {d.flow} /\ slot'[d.flow] = pos
                    /\ \A g \in DOMAIN slot : slot'[g] = slot[g]
              /\ Stamped(pos, d) \/ UNCHANGED Maxseq
    BY <1>3, <2>1, RequestCases
  <2>3. ASSUME NEW r \in Places PROVE Maxseq'[r].rsp_sent_seq = Maxseq[r].rsp_sent_seq
    <3>1. CASE Stamped(pos, d) /\ r = pos  BY <3>1 DEF Stamped
    <3>2. CASE Stamped(pos, d) /\ r # pos
      <4>1. Maxseq'[r] = Maxseq[r]  BY <3>2 DEF Stamped
      <4> QED  BY <4>1
    <3>3. CASE UNCHANGED Maxseq  BY <3>3
    <3> QED  BY <2>2, <3>1, <3>2, <3>3
  <2>4. CASE f \in DOMAIN slot
    <3>1. slot[f] \in Places /\ slot'[f] = slot[f]
      BY <2>2, <2>4, PlaceFacts DEF TypeInv, SlotInv
    <3> QED  BY <1>1, <2>3, <2>4, <3>1
  <2>5. CASE f \notin DOMAIN slot
    <3>1. p = pos /\ pos \in Positions /\ \A g \in DOMAIN slot : slot[g] # pos
      BY <2>2, <2>5
    <3>2. Maxseq[pos].rsp_sent_seq = 0  BY <3>1 DEF FreshInv
    <3> QED  BY <2>3, <3>1, <3>2
  <2> QED  BY <2>4, <2>5
<1>4. ASSUME NEW q \in Rings, Monitor(q), NEW d, d = Head(net[q]), OnResponse(d)
      PROVE  \/ Maxseq'[p].rsp_sent_seq = 0
             \/ \E s \in Samples' : s.flow = f /\ Maxseq'[p].rsp_sent_seq = Ack(f, s.req)'
  <2>1. d \in Packet /\ Numbered(d) /\ slot' = slot /\ d.type = "M_RSP" /\ UNCHANGED reqs
    BY <1>4, MonitorTakes DEF OnResponse, clientVars
  <2>2. f \in DOMAIN slot /\ p = slot[f] /\ p \in Places
    BY <2>1, PlaceFacts DEF TypeInv, SlotInv
  <2>3. CASE UNCHANGED Maxseq  BY <1>1, <2>2, <2>3
  <2>4. CASE TimedResponse(d) /\ Sampled(d)
    <3>1. /\ Maxseq'[slot[d.flow]] = [Maxseq[slot[d.flow]] EXCEPT !.rsp_sent_seq = d.sent_seq]
          /\ \A r \in Places : r # slot[d.flow] => Maxseq'[r] = Maxseq[r]
      BY <2>1, <2>4, SampledFacts
    <3>2. d.flow \in DOMAIN slot /\ slot[d.flow] \in Places
      BY <2>1, <2>4, TimedCases, PlaceFacts
    <3>3. CASE f # d.flow
      <4>1. p # slot[d.flow]  BY <2>2, <3>2, <3>3 DEF TypeInv, SlotInv
      <4>2. Maxseq'[p] = Maxseq[p]  BY <2>2, <3>1, <4>1
      <4> QED  BY <1>1, <2>2, <4>2
    <3>4. CASE f = d.flow
      <4>1. Maxseq[p] \in [req_sent_seq : Words, payload_len : {0, Payload}, rsp_sent_seq : Words]
        BY <2>2 DEF TypeInv, TableTypes
      <4>2. Maxseq'[p].rsp_sent_seq = d.sent_seq  BY <2>2, <3>1, <3>4, <4>1
      <4>3. d.sent_seq = Ack(f, d.req)'  BY <2>1, <3>4 DEF Numbered, Ack
      <4>4. PICK pri \in {0, 1} :
              /\ ack_time' \in Seq(Sample) /\ Len(ack_time') = Len(ack_time) + 1
              /\ ack_time'[Len(ack_time) + 1] = NewSample(d, pri)
        BY <2>1, <2>4, SampledFacts
      <4>5. Len(ack_time) + 1 \in DOMAIN ack_time'
        <5>1. Len(ack_time) \in Nat  BY SampleFacts
        <5> QED  BY <4>4, <5>1
      <4>6. NewSample(d, pri) \in Samples'  BY <4>4, <4>5 DEF Samples
      <4>7. NewSample(d, pri).flow = f /\ NewSample(d, pri).req = d.req
        BY <3>4 DEF NewSample
      <4> QED  BY <4>2, <4>3, <4>6, <4>7
    <3> QED  BY <3>3, <3>4
  <2>5. UNCHANGED Maxseq \/ (TimedResponse(d) /\ Sampled(d))
    <3>1. CASE TimedResponse(d)  BY <2>1, <3>1, TimedCases DEF Recounted
    <3>2. CASE MissedResponse(d) \/ UntimedResponse(d)
      BY <3>2 DEF MissedResponse, UntimedResponse
    <3> QED  BY <1>4, <3>1, <3>2 DEF OnResponse
  <2> QED  BY <2>3, <2>4, <2>5
<1> QED  BY <1>2, <1>3, <1>4, MonitorTakes DEF Next

\* What the packet is about has been counted, or sampled, before.
Done(d) ==
  IF d.type = "M_REQ" THEN seen[d.flow][d.req] # Never
  ELSE \E s \in Samples : s.flow = d.flow /\ s.req = d.req

Alike(d, e) == d.type = e.type /\ d.flow = e.flow /\ d.req = e.req

\* The packets of a queue that may be counted as retransmissions.
Copies(r) ==
  {i \in 1 .. Len(net[r]) : Done(net[r][i]) \/ \E j \in 1 .. i - 1 : Alike(net[r][j], net[r][i])}

\* What was counted, or may still be, is no more than what was sent again.
RetransInv ==
  Calm => req_recount + rsp_recount + Cardinality(Copies(0)) + Cardinality(Copies(1)) <= again

LEMMA CopiesFinite ==
  ASSUME net \in [Rings -> Seq(Packet)], NEW r \in Rings
  PROVE  /\ Copies(r) \subseteq 1 .. Len(net[r]) /\ Len(net[r]) \in Nat
         /\ IsFiniteSet(Copies(r)) /\ Cardinality(Copies(r)) \in Nat
<1>1. Copies(r) \subseteq 1 .. Len(net[r])  BY DEF Copies
<1>2. Len(net[r]) \in Nat  OBVIOUS
<1>3. IsFiniteSet(1 .. Len(net[r]))  BY <1>2, FS_Interval
<1>4. IsFiniteSet(Copies(r))  BY <1>1, <1>3, FS_Subset
<1> QED  BY <1>1, <1>2, <1>4, FS_CardinalityType

\* Places that move one forward, the first of which may leave.
LEMMA ShiftedPlaces ==
  ASSUME NEW A, NEW B, IsFiniteSet(A), B \subseteq Nat \ {0}, \A i \in B : i + 1 \in A
  PROVE  /\ Cardinality(B) <= Cardinality(A)
         /\ 1 \in A => Cardinality(B) + 1 <= Cardinality(A)
<1> DEFINE C == A \ {1}
           f == [i \in B |-> i + 1]
<1>1. /\ IsFiniteSet(C) /\ Cardinality(C) = IF 1 \in A THEN Cardinality(A) - 1 ELSE Cardinality(A)
  BY FS_RemoveElement
<1>2. f \in Injection(B, C)
  <2>1. \A i \in B : i + 1 \in C  OBVIOUS
  <2>2. f \in [B -> C]  BY <2>1
  <2>3. \A i, j \in B : f[i] = f[j] => i = j  OBVIOUS
  <2> QED  BY <2>2, <2>3 DEF Injection, IsInjective
<1> HIDE DEF f, C
<1>3. IsFiniteSet(B) /\ Cardinality(B) <= Cardinality(C)  BY <1>1, <1>2, FS_Injection
<1>4. Cardinality(A) \in Nat /\ Cardinality(B) \in Nat /\ Cardinality(C) \in Nat
  BY <1>1, <1>3, FS_CardinalityType
<1> QED  BY <1>1, <1>3, <1>4

\* Taking a packet makes no more copies of those that wait, and one less if
\* it was itself a copy.
LEMMA TakeCopies ==
  ASSUME net \in [Rings -> Seq(Packet)], HomeInv, NEW q \in Rings, Take(q),
         NEW d, d = Head(net[q]),
         \A e \in Waiting' : Done(e)' => Done(e) \/ Alike(d, e),
         NEW r \in Rings
  PROVE  /\ Cardinality(Copies(r)') <= Cardinality(Copies(r))
         /\ r = q /\ Done(d) => Cardinality(Copies(r)') + 1 <= Cardinality(Copies(r))
<1>1. /\ net' \in [Rings -> Seq(Packet)]
      /\ Len(net[q]) \in Nat \ {0} /\ d = net[q][1]
      /\ Len(net'[q]) = Len(net[q]) - 1
      /\ \A i \in 1 .. Len(net'[q]) : net'[q][i] = net[q][i + 1]
      /\ \A p \in Rings \ {q} : net'[p] = net[p]
  BY TakeNet
<1>2. IsFiniteSet(Copies(r)) /\ Cardinality(Copies(r)) \in Nat  BY CopiesFinite
<1>3. ASSUME NEW i \in Copies(r)'
      PROVE  /\ i \in 1 .. Len(net'[r])
             /\ \/ Done(net'[r][i]) \/ Alike(d, net'[r][i])
                \/ \E j \in 1 .. i - 1 : Alike(net'[r][j], net'[r][i])
  <2>1. /\ i \in 1 .. Len(net'[r])
        /\ \/ Done(net[r][i])'
           \/ \E j \in 1 .. i - 1 : Alike(net'[r][j], net'[r][i])
    BY DEF Copies, Alike
  <2>2. net'[r][i] \in Waiting'  BY <2>1 DEF Waiting
  <2>3. ASSUME NEW e, e = net'[r][i], Done(net[r][i])' PROVE Done(e) \/ Alike(d, e)
    <3>1. Done(e)'  BY <2>3 DEF Done
    <3> QED  BY <2>2, <2>3, <3>1
  <2> QED  BY <2>1, <2>3
<1>4. CASE r # q
  <2>1. net'[r] = net[r]  BY <1>1, <1>4
  <2>2. ASSUME NEW i \in Copies(r)' PROVE i \in Copies(r)
    <3>1. i \in 1 .. Len(net[r])  BY <1>3, <2>1
    <3>2. ~Alike(d, net[r][i])
      <4>1. RingOf(net[r][i].type, net[r][i].flow) = r  BY <3>1 DEF HomeInv
      <4>2. 1 \in 1 .. Len(net[q])  BY <1>1
      <4>3. RingOf(d.type, d.flow) = q  BY <1>1, <4>2 DEF HomeInv
      <4> QED  BY <1>4, <4>1, <4>3 DEF Alike
    <3>3. Done(net[r][i]) \/ \E j \in 1 .. i - 1 : Alike(net[r][j], net[r][i])
      BY <1>3, <2>1, <3>2
    <3> QED  BY <3>1, <3>3 DEF Copies
  <2>3. Copies(r)' \subseteq Copies(r)  BY <2>2
  <2> QED  BY <1>2, <1>4, <2>3, FS_Subset
<1>5. CASE r = q
  <2>1. ASSUME NEW i \in Copies(r)' PROVE i + 1 \in Copies(r)
    <3>1. i \in Nat \ {0} /\ i + 1 \in 1 .. Len(net[r]) /\ net'[r][i] = net[r][i + 1]
      BY <1>1, <1>3, <1>5
    <3>2. CASE Done(net'[r][i])  BY <3>1, <3>2 DEF Copies
    <3>3. CASE Alike(d, net'[r][i])
      <4>1. 1 \in 1 .. (i + 1) - 1 /\ Alike(net[r][1], net[r][i + 1])
        BY <1>1, <1>5, <3>1, <3>3
      <4> QED  BY <3>1, <4>1 DEF Copies
    <3>4. ASSUME NEW j \in 1 .. i - 1, Alike(net'[r][j], net'[r][i])
          PROVE  i + 1 \in Copies(r)
      <4>1. j \in 1 .. Len(net'[r]) /\ j + 1 \in 1 .. (i + 1) - 1
        BY <1>1, <1>5, <3>1
      <4>2. Alike(net[r][j + 1], net[r][i + 1])  BY <1>1, <1>5, <3>1, <3>4, <4>1
      <4> QED  BY <3>1, <4>1, <4>2 DEF Copies
    <3> QED  BY <1>3, <3>2, <3>3, <3>4
  <2>2. Copies(r)' \subseteq Nat \ {0}  BY <1>3
  <2>3. Done(d) => 1 \in Copies(r)
    <3>1. 1 \in 1 .. Len(net[r])  BY <1>1, <1>5
    <3> QED  BY <1>1, <1>5, <3>1 DEF Copies
  <2> QED  BY <1>2, <2>1, <2>2, <2>3, ShiftedPlaces
<1> QED  BY <1>4, <1>5

\* Only a packet sent again can be a copy as it joins its queue.
LEMMA SendCopies ==
  ASSUME TypeInv, MadeInv, RepliedInv, NEW d, SendsLast(d)
  PROVE  /\ Cardinality(Copies(0)') + Cardinality(Copies(1)') + again
              <= Cardinality(Copies(0)) + Cardinality(Copies(1)) + again'
<1>0. net \in [Rings -> Seq(Packet)] /\ Sends(d)  BY DEF TypeInv, PacketInv, SendsLast
<1> DEFINE q == RingOf(d.type, d.flow)
<1>1. PICK n \in Nat : n = Len(net[q])  BY <1>0, RingOfRings
<1>2. /\ q \in Rings /\ net' \in [Rings -> Seq(Packet)]
      /\ Len(net'[q]) = n + 1 /\ net'[q][n + 1] = d
      /\ \A i \in 1 .. n : net'[q][i] = net[q][i]
      /\ \A r \in Rings \ {q} : net'[r] = net[r]
  BY <1>0, <1>1, SendNet
<1>3. UNCHANGED <<seen, ack_time>> /\ d \in Packet /\ d.flow \in Flows /\ d.req \in 1 .. MaxReqs
  BY <1>0 DEF SendsLast, Sends, Packet, monitorVars, requestStats, responseStats
<1>4. \A e : Done(e)' <=> Done(e)  BY <1>3 DEF Done, Samples
<1> HIDE DEF q
<1>5. \A r \in Rings \ {q} : Copies(r)' = Copies(r)
  <2> SUFFICES ASSUME NEW r \in Rings \ {q} PROVE Copies(r)' = Copies(r)
    OBVIOUS
  <2>1. net'[r] = net[r]  BY <1>2
  <2> QED  BY <1>3, <2>1 DEF Copies, Done, Alike, Samples
<1>6. ASSUME NEW i \in Copies(q)'
      PROVE  /\ i \in 1 .. n \/ i = n + 1
             /\ Done(net'[q][i]) \/ \E j \in 1 .. i - 1 : Alike(net'[q][j], net'[q][i])
  <2>1. /\ i \in 1 .. n + 1
        /\ Done(net[q][i])' \/ \E j \in 1 .. i - 1 : Alike(net'[q][j], net'[q][i])
    BY <1>2 DEF Copies, Alike, q
  <2>2. Done(net[q][i])' => Done(net'[q][i])  BY <1>3 DEF Done, Samples, q
  <2> QED  BY <1>1, <2>1, <2>2
<1>7. Copies(q)' \subseteq Copies(q) \cup {n + 1}
  <2> SUFFICES ASSUME NEW i \in Copies(q)', i # n + 1 PROVE i \in Copies(q)
    OBVIOUS
  <2>1. i \in 1 .. n /\ net'[q][i] = net[q][i]  BY <1>2, <1>6
  <2>2. \A j \in 1 .. i - 1 : net'[q][j] = net[q][j]  BY <1>1, <1>2, <2>1
  <2> QED  BY <1>1, <1>6, <2>1, <2>2 DEF Copies
<1>8. ~SendsCopy(d) => n + 1 \notin Copies(q)'
  <2> SUFFICES ASSUME ~SendsCopy(d), n + 1 \in Copies(q)' PROVE FALSE
    OBVIOUS
  <2>1. Done(d) \/ \E j \in 1 .. n : Alike(net[q][j], d)
    <3>1. n + 1 - 1 = n  BY <1>1
    <3> QED  BY <1>2, <1>6, <3>1
  <2>2. \A j \in 1 .. n : net[q][j] \in Waiting  BY <1>1, <1>2 DEF Waiting
  <2>3. \A s \in Samples : s.req <= replied[s.flow]  BY DEF RepliedInv
  <2>4. Len(reqs[d.flow]) \in Nat /\ replied[d.flow] \in Nat
    BY <1>3 DEF TypeInv, ClientTypes
  <2>5. CASE SendsRequest(d)
    <3>1. d.type = "M_REQ" /\ d.req = Len(reqs[d.flow]) + 1  BY <2>5 DEF SendsRequest
    <3>2. ~Done(d)  BY <1>3, <2>4, <3>1 DEF Done, MadeInv
    <3>3. PICK j \in 1 .. n : Alike(net[q][j], d)  BY <2>1, <3>2
    <3>4. net[q][j].req <= Len(reqs[d.flow])
      <4>1. net[q][j] \in Packet /\ Numbered(net[q][j])
        BY <1>0, <2>2, WaitingPackets DEF TypeInv, PacketInv
      <4> QED  BY <3>3, <4>1 DEF Alike, Numbered
    <3> QED  BY <2>4, <3>1, <3>3, <3>4 DEF Alike
  <2>6. CASE SendsReply(d)
    <3>1. d.type = "M_RSP" /\ d.req = replied[d.flow] + 1  BY <2>6 DEF SendsReply
    <3>2. ~Done(d)  BY <2>3, <2>4, <3>1 DEF Done
    <3>3. PICK j \in 1 .. n : Alike(net[q][j], d)  BY <2>1, <3>2
    <3>4. net[q][j].req <= replied[d.flow]  BY <2>2, <3>1, <3>3 DEF Alike, RepliedInv
    <3> QED  BY <2>4, <3>1, <3>3, <3>4 DEF Alike
  <2> QED  BY <2>5, <2>6 DEF SendsLast
<1>9. /\ again \in Nat
      /\ SendsCopy(d) => again' = again + 1
      /\ ~SendsCopy(d) => again' = again
  BY DEF TypeInv, ClientTypes, SendsLast, SendsRequest, SendsReply, SendsCopy
<1>10. /\ IsFiniteSet(Copies(q)) /\ Cardinality(Copies(q)) \in Nat
       /\ \A r \in Rings : Cardinality(Copies(r)) \in Nat
  BY <1>0, <1>2, CopiesFinite
<1>11. Cardinality(Copies(q)') + again <= Cardinality(Copies(q)) + again'
       /\ Cardinality(Copies(q)') \in Nat
  <2>1. CASE SendsCopy(d)
    <3>1. /\ IsFiniteSet(Copies(q) \cup {n + 1})
          /\ Cardinality(Copies(q) \cup {n + 1}) <= Cardinality(Copies(q)) + 1
      BY <1>10, FS_AddElement
    <3>2. /\ IsFiniteSet(Copies(q)')
          /\ Cardinality(Copies(q)') <= Cardinality(Copies(q) \cup {n + 1})
      BY <1>7, <3>1, FS_Subset
    <3>3. Cardinality(Copies(q)') \in Nat /\ Cardinality(Copies(q) \cup {n + 1}) \in Nat
      BY <3>1, <3>2, FS_CardinalityType
    <3> QED  BY <1>9, <1>10, <2>1, <3>1, <3>2, <3>3
  <2>2. CASE ~SendsCopy(d)
    <3>1. Copies(q)' \subseteq Copies(q)  BY <1>7, <1>8, <2>2
    <3>2. IsFiniteSet(Copies(q)') /\ Cardinality(Copies(q)') <= Cardinality(Copies(q))
      BY <1>10, <3>1, FS_Subset
    <3>3. Cardinality(Copies(q)') \in Nat  BY <3>2, FS_CardinalityType
    <3> QED  BY <1>9, <1>10, <2>2, <3>2, <3>3
  <2> QED  BY <2>1, <2>2
<1>12. (q = 0 /\ Copies(1)' = Copies(1)) \/ (q = 1 /\ Copies(0)' = Copies(0))
  BY <1>2, <1>5 DEF Rings
<1>13. 0 \in Rings /\ 1 \in Rings  BY DEF Rings
<1> QED  BY <1>9, <1>10, <1>11, <1>12, <1>13

LEMMA TakeBoth ==
  ASSUME net \in [Rings -> Seq(Packet)], HomeInv, NEW q \in Rings, Take(q),
         NEW d, d = Head(net[q]),
         \A e \in Waiting' : Done(e)' => Done(e) \/ Alike(d, e)
  PROVE  /\ Cardinality(Copies(0)') \in Nat /\ Cardinality(Copies(1)') \in Nat
         /\ Cardinality(Copies(0)) \in Nat /\ Cardinality(Copies(1)) \in Nat
         /\ Cardinality(Copies(0)') + Cardinality(Copies(1)')
              <= Cardinality(Copies(0)) + Cardinality(Copies(1))
         /\ Done(d) => Cardinality(Copies(0)') + Cardinality(Copies(1)') + 1
                         <= Cardinality(Copies(0)) + Cardinality(Copies(1))
<1>1. 0 \in Rings /\ 1 \in Rings /\ (q = 0 \/ q = 1)  BY DEF Rings
<1>2. /\ Cardinality(Copies(0)') <= Cardinality(Copies(0))
      /\ 0 = q /\ Done(d) => Cardinality(Copies(0)') + 1 <= Cardinality(Copies(0))
  BY <1>1, TakeCopies
<1>3. /\ Cardinality(Copies(1)') <= Cardinality(Copies(1))
      /\ 1 = q /\ Done(d) => Cardinality(Copies(1)') + 1 <= Cardinality(Copies(1))
  BY <1>1, TakeCopies
<1>4. net' \in [Rings -> Seq(Packet)]  BY TakeNet
<1>5. \A r \in Rings : Cardinality(Copies(r)) \in Nat  BY CopiesFinite
<1>6. \A r \in Rings : Cardinality(Copies(r)') \in Nat
  <2> SUFFICES ASSUME NEW r \in Rings PROVE Cardinality(Copies(r)') \in Nat
    OBVIOUS
  <2>1. Copies(r)' \subseteq 1 .. Len(net'[r]) /\ Len(net'[r]) \in Nat  BY <1>4 DEF Copies
  <2>2. IsFiniteSet(1 .. Len(net'[r]))  BY <2>1, FS_Interval
  <2>3. IsFiniteSet(Copies(r)')  BY <2>1, <2>2, FS_Subset
  <2> QED  BY <2>3, FS_CardinalityType
<1> QED  BY <1>1, <1>2, <1>3, <1>5, <1>6

\* A request that is not new at its position has been seen.
LEMMA OldRequestSeen ==
  ASSUME TypeInv, SeqInv, FreshInv, MadeInv, StandInv, FrontInv, Calm,
         NEW d \in Waiting, OnRequest(d), req_recount' # req_recount
  PROVE  Done(d) /\ req_recount' = req_recount + 1
<1>0. d.type = "M_REQ"  BY DEF OnRequest
<1>1. /\ d \in Packet /\ d.flow \in Flows /\ d.req \in 1 .. Len(reqs[d.flow])
      /\ d.sent_seq = reqs[d.flow][d.req]
      /\ \A k \in 1 .. MaxReqs : seen[d.flow][k] # Never => k <= d.req
  BY <1>0, HeadFacts
<1>2. PICK pos \in Places :
        /\ \/ d.flow \in DOMAIN slot /\ pos = slot[d.flow]
           \/ d.flow \notin DOMAIN slot /\ Full
           \/ /\ d.flow \notin DOMAIN slot
              /\ pos \in Positions /\ \A g \in DOMAIN slot : slot[g] # pos
        /\ \/ IsNew(pos, d) /\ req_recount' = req_recount
           \/ ~IsNew(pos, d) /\ req_recount' = req_recount + 1
  BY <1>1, RequestCases
<1>3. ~IsNew(pos, d) /\ req_recount' = req_recount + 1  BY <1>2
<1>4. d.sent_seq \in Nat /\ d.sent_seq > 0  BY <1>1, CalmNumbers DEF Calm
<1>5. d.flow \in DOMAIN slot /\ pos = slot[d.flow]
  <2>1. CASE d.flow \notin DOMAIN slot /\ Full  BY <1>1, <2>1, CalmSlot
  <2>2. CASE pos \in Positions /\ \A g \in DOMAIN slot : slot[g] # pos
    <3>1. Maxseq[pos].req_sent_seq = 0  BY <2>2 DEF FreshInv
    <3> QED  BY <1>3, <1>4, <3>1 DEF IsNew
  <2> QED  BY <1>2, <2>1, <2>2
<1>6. seen[d.flow][d.req] # Never
  <2> SUFFICES ASSUME seen[d.flow][d.req] = Never PROVE FALSE
    OBVIOUS
  <2>1. Maxseq[slot[d.flow]].req_sent_seq < reqs[d.flow][d.req]  BY <1>1, <1>5, CalmSlot
  <2> QED  BY <1>1, <1>3, <1>5, <2>1 DEF IsNew
<1> QED  BY <1>0, <1>3, <1>6 DEF Done

\* A response not above the last one of its position gave a sample before.
LEMMA OldResponseSampled ==
  ASSUME TypeInv, SeqInv, AckInv, FrontInv, RspInv, Calm,
         NEW d \in Waiting, d.type = "M_RSP", d.flow \in DOMAIN slot,
         ~IsNewResponse(slot[d.flow], d)
  PROVE  Done(d)
<1>1. /\ d \in Packet /\ d.flow \in Flows /\ d.req \in 1 .. Len(reqs[d.flow])
      /\ d.sent_seq = Ack(d.flow, d.req) /\ Len(reqs[d.flow]) \in Nat
  <2>1. d.flow \in Flows  BY HeadFacts
  <2>2. Len(reqs[d.flow]) \in Nat  BY <2>1 DEF TypeInv, ClientTypes
  <2> QED  BY <2>2, HeadFacts
<1>2. reconnects = 0 /\ NoWrap /\ Payload \in Nat \ {0}  BY Known DEF Calm
<1>3. reqs[d.flow][d.req] \in Nat /\ d.sent_seq = reqs[d.flow][d.req] + Payload
  BY <1>1, <1>2, CalmNumbers
<1>4. d.sent_seq <= Maxseq[slot[d.flow]].rsp_sent_seq
  <2>1. slot[d.flow] \in Places  BY PlaceFacts DEF TypeInv, SlotInv
  <2>2. Maxseq[slot[d.flow]].rsp_sent_seq \in Nat
    BY <2>1, Known DEF TypeInv, TableTypes, Words
  <2> QED  BY <1>2, <1>3, <2>2 DEF IsNewResponse
<1>5. PICK s \in Samples :
        s.flow = d.flow /\ Maxseq[slot[d.flow]].rsp_sent_seq = Ack(d.flow, s.req)
  <2>1. Maxseq[slot[d.flow]].rsp_sent_seq # 0  BY <1>2, <1>3, <1>4
  <2> QED  BY <2>1 DEF RspInv
<1>6. s.req <= d.req  BY <1>5 DEF FrontInv
<1>7. s.req \in 1 .. Len(reqs[d.flow])
  <2>1. s.req \in 1 .. MaxReqs /\ s.req <= Len(reqs[d.flow])
    BY <1>5, SampleFacts DEF AckInv, Acked
  <2> QED  BY <1>1, <2>1, Known
<1>8. /\ reqs[d.flow][s.req] \in Nat
      /\ Ack(d.flow, s.req) = reqs[d.flow][s.req] + Payload
      /\ s.req < d.req => reqs[d.flow][s.req] < reqs[d.flow][d.req]
  BY <1>1, <1>2, <1>7, CalmNumbers
<1>9. s.req = d.req
  <2>1. reqs[d.flow][d.req] <= reqs[d.flow][s.req]  BY <1>2, <1>3, <1>4, <1>5, <1>8
  <2>2. ~(s.req < d.req)  BY <1>3, <1>8, <2>1
  <2> QED  BY <1>1, <1>6, <1>7, <2>2
<1> QED  BY <1>5, <1>9 DEF Done

LEMMA RetransInit == Init => RetransInv
<1> SUFFICES ASSUME Init PROVE RetransInv
  OBVIOUS
<1>1. net[0] = <<>> /\ net[1] = <<>>  BY DEF Init, Rings
<1>2. Copies(0) = {} /\ Copies(1) = {}  BY <1>1 DEF Copies
<1>3. req_recount = 0 /\ rsp_recount = 0 /\ again = 0  BY DEF Init
<1> QED  BY <1>2, <1>3, FS_EmptySet DEF RetransInv

LEMMA RetransStep ==
  ASSUME TypeInv, [Next]_vars, SeqInv, FreshInv, MadeInv, StandInv, LateInv,
         AckInv, LineInv, RspInv, RetransInv
  PROVE  RetransInv'
<1> DEFINE Bound == req_recount + rsp_recount + Cardinality(Copies(0)) + Cardinality(Copies(1)) <= again
<1> SUFFICES ASSUME Calm' PROVE Bound'
  BY DEF RetransInv
<1>0. Window = 1 /\ reconnects = 0 /\ Calm
  <2>1. Window = 1 /\ reconnects' = 0  BY DEF Calm
  <2>2. reconnects = 0  BY <2>1, ReconnectsGrow
  <2> QED  BY <2>1, <2>2 DEF Calm, NoWrap
<1>1. /\ req_recount + rsp_recount + Cardinality(Copies(0)) + Cardinality(Copies(1)) <= again
      /\ req_recount \in Nat /\ rsp_recount \in Nat /\ again \in Nat
      /\ net \in [Rings -> Seq(Packet)]
      /\ HomeInv /\ FrontInv /\ RepliedInv
  BY <1>0 DEF RetransInv, TypeInv, CounterTypes, ClientTypes, PacketInv, LineInv
<1>2. CASE UNCHANGED <<net, monitorVars, reqs, replied, again, lost>>
  <2>1. UNCHANGED <<net, seen, ack_time, req_recount, rsp_recount, again>>
    BY <1>2 DEF monitorVars, requestStats, responseStats
  <2>2. Copies(0)' = Copies(0) /\ Copies(1)' = Copies(1)
    BY <2>1 DEF Copies, Done, Alike, Samples
  <2> QED  BY <1>1, <2>1, <2>2
<1>3. ASSUME NEW d, SendsLast(d) PROVE Bound'
  <2>1. UNCHANGED <<req_recount, rsp_recount>>
    BY <1>3 DEF SendsLast, monitorVars, requestStats, responseStats
  <2>2. Cardinality(Copies(0)') + Cardinality(Copies(1)') + again
          <= Cardinality(Copies(0)) + Cardinality(Copies(1)) + again'
    BY <1>1, <1>3, SendCopies
  <2>3. /\ Cardinality(Copies(0)) \in Nat /\ Cardinality(Copies(1)) \in Nat
        /\ Cardinality(Copies(0)') \in Nat /\ Cardinality(Copies(1)') \in Nat /\ again' \in Nat
    <3>1. TypeInv'  BY TypeStep
    <3>2. net' \in [Rings -> Seq(Packet)] /\ again' \in Nat  BY <3>1 DEF TypeInv, PacketInv, ClientTypes
    <3>3. ASSUME NEW r \in Rings PROVE Cardinality(Copies(r)') \in Nat
      <4>1. Copies(r)' \subseteq 1 .. Len(net'[r]) /\ Len(net'[r]) \in Nat  BY <3>2 DEF Copies
      <4>2. IsFiniteSet(1 .. Len(net'[r]))  BY <4>1, FS_Interval
      <4>3. IsFiniteSet(Copies(r)')  BY <4>1, <4>2, FS_Subset
      <4> QED  BY <4>3, FS_CardinalityType
    <3>4. 0 \in Rings /\ 1 \in Rings  BY DEF Rings
    <3> QED  BY <1>1, <3>2, <3>3, <3>4, CopiesFinite
  <2> QED  BY <1>1, <2>1, <2>2, <2>3
<1>4. ASSUME NEW q \in Rings, Lose(q) PROVE Bound'
  <2>1. Take(q) /\ UNCHANGED <<seen, ack_time, req_recount, rsp_recount, again>>
    BY <1>4 DEF Lose, clientVars, monitorVars, requestStats, responseStats
  <2> DEFINE d == Head(net[q])
  <2>2. d = Head(net[q])  OBVIOUS
  <2>3. ASSUME NEW e \in Waiting', Done(e)' PROVE Done(e) \/ Alike(d, e)
    BY <2>1, <2>3 DEF Done, Samples
  <2> HIDE DEF d
  <2>4. /\ Cardinality(Copies(0)') \in Nat /\ Cardinality(Copies(1)') \in Nat
        /\ Cardinality(Copies(0)) \in Nat /\ Cardinality(Copies(1)) \in Nat
        /\ Cardinality(Copies(0)') + Cardinality(Copies(1)')
             <= Cardinality(Copies(0)) + Cardinality(Copies(1))
    BY <1>1, <2>1, <2>2, <2>3, TakeBoth
  <2> QED  BY <1>1, <2>1, <2>4
<1>5. ASSUME NEW q \in Rings, Monitor(q), NEW d, d = Head(net[q]) PROVE Bound'
  <2>0. /\ Take(q) /\ d \in Waiting /\ d \in Packet /\ UNCHANGED again
        /\ OnRequest(d) \/ OnResponse(d)
    BY <1>5, MonitorTakes DEF clientVars
  <2>1. ASSUME NEW e \in Waiting', Done(e)', ~Done(e) PROVE Alike(d, e)
    <3>1. e \in Packet /\ e.flow \in Flows /\ e.req \in 1 .. MaxReqs
      <4>1. e \in Waiting  BY <1>1, <2>0, TakeNet
      <4>2. e \in Packet  BY <1>1, <4>1, WaitingPackets
      <4> QED  BY <4>2 DEF Packet
    <3>2. CASE e.type = "M_REQ"
      <4>1. seen'[e.flow][e.req] # Never /\ seen[e.flow][e.req] = Never
        BY <2>1, <3>2 DEF Done
      <4>2. OnRequest(d) /\ e.flow = d.flow /\ e.req = d.req
        BY <1>5, <3>1, <4>1, SeenCases
      <4> QED  BY <3>2, <4>2 DEF OnRequest, Alike
    <3>3. CASE e.type # "M_REQ"
      <4>1. PICK s \in Samples' : s.flow = e.flow /\ s.req = e.req /\ s \notin Samples
        BY <2>1, <3>3 DEF Done
      <4>2. PICK p \in Rings : \E h, pri : /\ Monitor(p) /\ h = Head(net[p]) /\ h.type = "M_RSP"
                                           /\ s = NewSample(h, pri)
        BY <4>1, SampledByStep
      <4>3. p = q
        <5>1. Take(p)  BY <4>2, MonitorTakes
        <5> QED  BY <2>0, <5>1, OneQueue
      <4>4. d.type = "M_RSP" /\ s.flow = d.flow /\ s.req = d.req
        BY <1>5, <4>2, <4>3 DEF NewSample
      <4>5. e.type = "M_RSP"  BY <3>1, <3>3 DEF Packet
      <4> QED  BY <4>1, <4>4, <4>5 DEF Alike
    <3> QED  BY <3>2, <3>3
  <2>2. \A e \in Waiting' : Done(e)' => Done(e) \/ Alike(d, e)  BY <2>1
  <2>3. /\ Cardinality(Copies(0)') \in Nat /\ Cardinality(Copies(1)') \in Nat
        /\ Cardinality(Copies(0)) \in Nat /\ Cardinality(Copies(1)) \in Nat
        /\ Cardinality(Copies(0)') + Cardinality(Copies(1)')
             <= Cardinality(Copies(0)) + Cardinality(Copies(1))
        /\ Done(d) => Cardinality(Copies(0)') + Cardinality(Copies(1)') + 1
                        <= Cardinality(Copies(0)) + Cardinality(Copies(1))
    BY <1>1, <1>5, <2>0, <2>2, TakeBoth
  <2>4. CASE OnRequest(d)
    <3>1. rsp_recount' = rsp_recount  BY <2>4 DEF OnRequest, responseStats
    <3>2. req_recount' # req_recount => Done(d) /\ req_recount' = req_recount + 1
      BY <1>0, <1>1, <2>0, <2>4, OldRequestSeen
    <3>3. CASE req_recount' = req_recount  BY <1>1, <2>0, <2>3, <3>1, <3>3
    <3>4. CASE Done(d) /\ req_recount' = req_recount + 1
      BY <1>1, <2>0, <2>3, <3>1, <3>4
    <3> QED  BY <3>2, <3>3, <3>4
  <2>5. CASE OnResponse(d)
    <3>1. req_recount' = req_recount /\ d.type = "M_RSP"  BY <2>5 DEF OnResponse, requestStats
    <3>2. rsp_recount' = rsp_recount \/ (Done(d) /\ rsp_recount' = rsp_recount + 1)
      <4>1. CASE TimedResponse(d)
        <5>1. Sampled(d) => rsp_recount' = rsp_recount  BY DEF Sampled
        <5>2. ASSUME Recounted(d) PROVE Done(d) /\ rsp_recount' = rsp_recount + 1
          <6>1. d.flow \in DOMAIN slot /\ ~IsNewResponse(slot[d.flow], d)
            BY <2>0, <4>1, <5>2, TimedCases DEF Recounted
          <6>2. Done(d)  BY <1>0, <1>1, <2>0, <3>1, <6>1, OldResponseSampled
          <6> QED  BY <5>2, <6>2 DEF Recounted
        <5> QED  BY <2>0, <4>1, <5>1, <5>2, TimedCases
      <4>2. CASE MissedResponse(d) \/ UntimedResponse(d)
        BY <4>2 DEF MissedResponse, UntimedResponse
      <4> QED  BY <2>5, <4>1, <4>2 DEF OnResponse
    <3>3. CASE rsp_recount' = rsp_recount  BY <1>1, <2>0, <2>3, <3>1, <3>3
    <3>4. CASE Done(d) /\ rsp_recount' = rsp_recount + 1
      BY <1>1, <2>0, <2>3, <3>1, <3>4
    <3> QED  BY <3>2, <3>3, <3>4
  <2> QED  BY <2>0, <2>4, <2>5
<1> QED  BY <1>0, <1>2, <1>3, <1>4, <1>5, NetCases

\* Calm clients, with any number of losses and copies and the directions on
\* any queues: what is counted as sent again was sent again.
THEOREM OnlyCopiesCounted == Spec => [](Calm => NoFalseRetrans)
<1> DEFINE Inv == TimingInv /\ AckInv /\ LineInv /\ RspInv /\ RetransInv
<1>1. Init => Inv
  <2>1. Init => AckInv
    <3>1. Init => ack_time = <<>>  BY DEF Init
    <3> QED  BY <3>1 DEF AckInv, Samples
  <2> QED  BY <2>1, TimingInit, LineInit, RspInit, RetransInit
<1>2. Inv /\ [Next]_vars => Inv'
  BY TimingStep, AckStep, LineStep, RspStep, RetransStep DEF TimingInv
<1>3. Inv => (Calm => NoFalseRetrans)
  <2> SUFFICES ASSUME Inv, Calm PROVE NoFalseRetrans
    OBVIOUS
  <2>1. /\ req_recount + rsp_recount + Cardinality(Copies(0)) + Cardinality(Copies(1)) <= again
        /\ req_recount \in Nat /\ rsp_recount \in Nat /\ again \in Nat
        /\ net \in [Rings -> Seq(Packet)]
    BY DEF RetransInv, TimingInv, TypeInv, CounterTypes, ClientTypes, PacketInv
  <2>2. Cardinality(Copies(0)) \in Nat /\ Cardinality(Copies(1)) \in Nat
    BY <2>1, CopiesFinite DEF Rings
  <2> QED  BY <2>1, <2>2 DEF NoFalseRetrans
<1> QED  BY <1>1, <1>2, <1>3, PTL DEF Spec
=============================================================================
