------------------------------ MODULE SsdRing -------------------------------
(***************************************************************************)
(* The packet path of HCMonitor from the NIC to the process lcores:        *)
(* RX lcore r polls its NIC queue, copies the rte_mbuf header of every     *)
(* packet longer than 70 bytes into a slot of SSD_Ring[r], stamps it and   *)
(* frees the mbuf; a process lcore goes round the rings it serves and      *)
(* parses one packet per visit (main.c, l2fwd_main_loop).                  *)
(*                                                                         *)
(* The two kinds of lcore share occupy, deque and the slots and hold no    *)
(* lock, so each access to shared memory is a step of its own.  The code   *)
(* is built with -O0 for x86: the stores of one lcore reach the others in  *)
(* program order, and a late look at the other side's index only makes a   *)
(* ring look fuller to its producer or emptier to its consumer.            *)
(*                                                                         *)
(* A packet is known by its arrival number on its ring.  A slot's time     *)
(* stamp `now' is abstracted to the number of the packet it was taken for. *)
(* The packet's bytes stay in the mbuf's data buffer, which the slot's     *)
(* header copy only points to.                                             *)
(***************************************************************************)
EXTENDS Lcores, Sequences, FiniteSets

CONSTANTS
  BufferLen,            \* conf->buffer_len: slots of a ring
  MaxBurst,             \* MAX_PKT_BURST
  NB_MBUF,              \* mbufs of a NIC queue's mempool
  NoMbuf,               \* the zeroed header a slot holds before its first copy
  MaxPkts               \* bound: packets that arrive on one NIC queue

ASSUME RingAssumption ==
  /\ BufferLen \in Nat \ {0}
  /\ MaxBurst \in Nat \ {0}
  /\ MaxPkts \in Nat
  /\ NB_MBUF \in Nat

\* The mbufs of l2fwd_pktmbuf_pool[q], one mempool per NIC queue.
Mbufs == {<<q, k>> : q \in Rings, k \in 1 .. NB_MBUF}
ASSUME MbufAssumption == NoMbuf \notin Mbufs

VARIABLES
  SSD_Ring,             \* "null", "struct" (header allocated) or "ring"
  occupy, deque,        \* write and read index of each ring
  ring,                 \* slots of each ring: [m, now]
  rxpc, burst,          \* RX lcore: next step, mbufs of pkts_burst not yet freed
  ppc, cur, got,        \* process lcore: next step, ring visited; packet last
                        \* parsed from each ring: [now, pkt]
  queue_states, pkt_free,    \* statistics: mbufs received and freed per lcore
  nic, pool, data, arrived   \* NIC queues, free mbufs, packet in each data
                             \* buffer: [pkt, long]; packets arrived per queue

rxVars == <<rxpc, burst, queue_states, pkt_free>>
prVars == <<ppc, cur, got>>
extVars == <<nic, pool, data, arrived>>
ringVars == <<SSD_Ring, occupy, deque, ring>>
vars == <<ringVars, rxVars, prVars, extVars>>

Numbers == 0 .. MaxPkts         \* arrival numbers; 0 is no packet
RingSlots == 0 .. BufferLen - 1

Init ==
  /\ SSD_Ring = [r \in Rings |-> "null"]
  /\ occupy = [r \in Rings |-> 0]
  /\ deque = [r \in Rings |-> 0]
  /\ ring = [r \in Rings |-> [i \in RingSlots |-> [m |-> NoMbuf, now |-> 0]]]
  /\ rxpc = [r \in Rings |-> "launch"]
  /\ burst = [r \in Rings |-> <<>>]
  /\ ppc = [p \in Procs |-> "test"]
  /\ cur = [p \in Procs |-> pos(p)]
  /\ got = [r \in Rings |-> [now |-> 0, pkt |-> 0]]
  /\ queue_states = [r \in Rings |-> 0]
  /\ pkt_free = [r \in Rings |-> 0]
  /\ nic = [r \in Rings |-> <<>>]
  /\ pool = Mbufs
  /\ data = [m \in Mbufs |-> [pkt |-> 0, long |-> FALSE]]
  /\ arrived = [r \in Rings |-> 0]
-----------------------------------------------------------------------------
(* The NIC: RSS picks the queue, the packet lands in an mbuf of its pool.   *)

Arrive(r) ==
  /\ arrived[r] < MaxPkts
  /\ \E m \in pool, long \in BOOLEAN :
       /\ m[1] = r
       /\ data' = [data EXCEPT ![m] = [pkt |-> arrived[r] + 1, long |-> long]]
       /\ nic' = [nic EXCEPT ![r] = Append(@, m)]
       /\ pool' = pool \ {m}
  /\ arrived' = [arrived EXCEPT ![r] = @ + 1]
  /\ UNCHANGED <<ringVars, rxVars, prVars>>
-----------------------------------------------------------------------------
(* RX lcore r.                                                             *)

HasRoomNoWrap(r) == occupy[r] + 1 # deque[r]    \* mutant: forgets the wrap
HasRoom(r) == (occupy[r] + 1) % BufferLen # deque[r]

\* calloc of the ring header, visible to the process lcores at once.
Launch(r) ==
  /\ rxpc[r] = "launch"
  /\ SSD_Ring' = [SSD_Ring EXCEPT ![r] = "struct"]
  /\ rxpc' = [rxpc EXCEPT ![r] = "alloc"]
  /\ UNCHANGED <<occupy, deque, ring, burst, queue_states, pkt_free, prVars, extVars>>

Alloc(r) ==
  /\ rxpc[r] = "alloc"
  /\ occupy' = [occupy EXCEPT ![r] = 0]
  /\ deque' = [deque EXCEPT ![r] = 0]
  /\ SSD_Ring' = [SSD_Ring EXCEPT ![r] = "ring"]
  /\ rxpc' = [rxpc EXCEPT ![r] = "poll"]
  /\ UNCHANGED <<ring, burst, queue_states, pkt_free, prVars, extVars>>

RxBurst(r) ==
  /\ rxpc[r] = "poll"
  /\ \E nb \in 1 .. Len(nic[r]) :
       /\ nb <= MaxBurst
       /\ burst' = [burst EXCEPT ![r] = SubSeq(nic[r], 1, nb)]
       /\ nic' = [nic EXCEPT ![r] = SubSeq(@, nb + 1, Len(@))]
       /\ queue_states' = [queue_states EXCEPT ![r] = @ + nb]
  /\ rxpc' = [rxpc EXCEPT ![r] = "pkt"]
  /\ UNCHANGED <<ringVars, pkt_free, prVars, pool, data, arrived>>

\* Mutant: waits for the process lcore when the ring is full.
ExamineWaits(r) ==
  /\ rxpc[r] = "pkt"
  /\ data[Head(burst[r])].long => HasRoom(r)
  /\ rxpc' = [rxpc EXCEPT ![r] = IF data[Head(burst[r])].long THEN "store" ELSE "free"]
  /\ UNCHANGED <<ringVars, burst, queue_states, pkt_free, prVars, extVars>>

\* A packet of at most 70 bytes, or one that finds the ring full, is dropped.
Examine(r) ==
  /\ rxpc[r] = "pkt"
  /\ rxpc' = [rxpc EXCEPT ![r] =
                IF data[Head(burst[r])].long /\ HasRoom(r) THEN "store" ELSE "free"]
  /\ UNCHANGED <<ringVars, burst, queue_states, pkt_free, prVars, extVars>>

\* Mutant: off by one, fills the slot after the one it publishes.
StoreAhead(r) ==
  /\ rxpc[r] = "store"
  /\ ring' = [ring EXCEPT ![r][(occupy[r] + 1) % BufferLen] =
                [m |-> Head(burst[r]), now |-> data[Head(burst[r])].pkt]]
  /\ rxpc' = [rxpc EXCEPT ![r] = "publish"]
  /\ UNCHANGED <<SSD_Ring, occupy, deque, burst, queue_states, pkt_free, prVars, extVars>>

Store(r) ==
  /\ rxpc[r] = "store"
  /\ ring' = [ring EXCEPT ![r][occupy[r]] =
                [m |-> Head(burst[r]), now |-> data[Head(burst[r])].pkt]]
  /\ rxpc' = [rxpc EXCEPT ![r] = "publish"]
  /\ UNCHANGED <<SSD_Ring, occupy, deque, burst, queue_states, pkt_free, prVars, extVars>>

PublishNoWrap(r) ==     \* mutant: the index runs off the ring
  /\ rxpc[r] = "publish"
  /\ occupy' = [occupy EXCEPT ![r] = @ + 1]
  /\ rxpc' = [rxpc EXCEPT ![r] = "free"]
  /\ UNCHANGED <<SSD_Ring, deque, ring, burst, queue_states, pkt_free, prVars, extVars>>

Publish(r) ==
  /\ rxpc[r] = "publish"
  /\ occupy' = [occupy EXCEPT ![r] = (@ + 1) % BufferLen]
  /\ rxpc' = [rxpc EXCEPT ![r] = "free"]
  /\ UNCHANGED <<SSD_Ring, deque, ring, burst, queue_states, pkt_free, prVars, extVars>>

FreeLeaks(r) ==         \* mutant: counts the mbuf but does not free it
  /\ rxpc[r] = "free"
  /\ burst' = [burst EXCEPT ![r] = Tail(@)]
  /\ pkt_free' = [pkt_free EXCEPT ![r] = @ + 1]
  /\ rxpc' = [rxpc EXCEPT ![r] = IF Len(burst[r]) = 1 THEN "poll" ELSE "pkt"]
  /\ UNCHANGED <<ringVars, queue_states, prVars, nic, pool, data, arrived>>

Free(r) ==
  /\ rxpc[r] = "free"
  /\ pool' = pool \cup {Head(burst[r])}
  /\ burst' = [burst EXCEPT ![r] = Tail(@)]
  /\ pkt_free' = [pkt_free EXCEPT ![r] = @ + 1]
  /\ rxpc' = [rxpc EXCEPT ![r] = IF Len(burst[r]) = 1 THEN "poll" ELSE "pkt"]
  /\ UNCHANGED <<ringVars, queue_states, prVars, nic, data, arrived>>

RxLcore(r) ==
  \/ Launch(r)
  \/ Alloc(r)
  \/ RxBurst(r)
  \/ Examine(r)
  \/ Store(r)
  \/ Publish(r)
  \/ Free(r)
-----------------------------------------------------------------------------
(* Process lcore p; rings outside every pos .. end - 1 have none.          *)

NonEmpty(r) == SSD_Ring[r] # "null" /\ occupy[r] # deque[r]

\* Mutant: off by one, the last ring has no turn.
NextRingShort(p) == IF cur[p] + 2 < end(p) THEN cur[p] + 1 ELSE pos(p)

NextRing(p) == IF cur[p] + 1 < end(p) THEN cur[p] + 1 ELSE pos(p)

Skip(p) ==
  /\ ppc[p] = "test" /\ cur[p] < end(p)
  /\ ~NonEmpty(cur[p])
  /\ cur' = [cur EXCEPT ![p] = NextRing(p)]
  /\ UNCHANGED <<ringVars, rxVars, extVars, ppc, got>>

Take(p) ==
  /\ ppc[p] = "test" /\ cur[p] < end(p)
  /\ NonEmpty(cur[p])
  /\ ppc' = [ppc EXCEPT ![p] = "parse"]
  /\ UNCHANGED <<ringVars, rxVars, extVars, cur, got>>

ParseAfterRelease(p) ==         \* mutant: gives the slot back before it is read
  /\ ppc[p] = "parse"
  /\ LET slot == ring[cur[p]][deque[cur[p]]] IN
     got' = [got EXCEPT ![cur[p]] = [now |-> slot.now, pkt |-> data[slot.m].pkt]]
  /\ deque' = [deque EXCEPT ![cur[p]] = (@ + 1) % BufferLen]
  /\ ppc' = [ppc EXCEPT ![p] = "deque"]
  /\ UNCHANGED <<SSD_Ring, occupy, ring, rxVars, extVars, cur>>

\* The slot's header copy leads to the data buffer of the mbuf it came from.
Parse(p) ==
  /\ ppc[p] = "parse"
  /\ LET slot == ring[cur[p]][deque[cur[p]]] IN
     got' = [got EXCEPT ![cur[p]] = [now |-> slot.now, pkt |-> data[slot.m].pkt]]
  /\ ppc' = [ppc EXCEPT ![p] = "deque"]
  /\ UNCHANGED <<ringVars, rxVars, extVars, cur>>

Dequeue(p) ==
  /\ ppc[p] = "deque"
  /\ deque' = [deque EXCEPT ![cur[p]] = (@ + 1) % BufferLen]
  /\ cur' = [cur EXCEPT ![p] = NextRing(p)]
  /\ ppc' = [ppc EXCEPT ![p] = "test"]
  /\ UNCHANGED <<SSD_Ring, occupy, ring, rxVars, extVars, got>>

ProcessLcore(p) == Skip(p) \/ Take(p) \/ Parse(p) \/ Dequeue(p)
-----------------------------------------------------------------------------
Next ==
  \/ \E r \in Rings : Arrive(r) \/ RxLcore(r)
  \/ \E p \in Procs : ProcessLcore(p)

Spec == Init /\ [][Next]_vars

\* Each lcore is a thread of its own on a core of its own, spinning for ever.
RxFairness == \A r \in Rings : WF_vars(RxLcore(r))
PrFairness == \A p \in Procs : WF_vars(ProcessLcore(p))

\* The RX lcores run, the process lcores may stop.
RxSpec == Spec /\ RxFairness
-----------------------------------------------------------------------------
(* Correctness.                                                            *)

\* Type invariant: every index stays inside its ring, every process lcore on
\* a ring it serves.
TypeOK ==
  /\ SSD_Ring \in [Rings -> {"null", "struct", "ring"}]
  /\ occupy \in [Rings -> RingSlots]
  /\ deque \in [Rings -> RingSlots]
  /\ ring \in [Rings -> [RingSlots -> [m : Mbufs \cup {NoMbuf}, now : Numbers]]]
  /\ rxpc \in [Rings -> {"launch", "alloc", "poll", "pkt", "store", "publish", "free"}]
  /\ burst \in [Rings -> Seq(Mbufs)]
  /\ \A r \in Rings : rxpc[r] \in {"pkt", "store", "publish", "free"} <=> burst[r] # <<>>
  /\ ppc \in [Procs -> {"test", "parse", "deque"}]
  /\ cur \in [Procs -> Nat]
  /\ \A p \in Procs : pos(p) <= cur[p] /\ (cur[p] < end(p) \/ ppc[p] = "test")
  /\ got \in [Rings -> [now : Numbers, pkt : Numbers]]
  /\ queue_states \in [Rings -> Nat]
  /\ pkt_free \in [Rings -> Nat]
  /\ nic \in [Rings -> Seq(Mbufs)]
  /\ pool \in SUBSET Mbufs
  /\ data \in [Mbufs -> [pkt : Numbers, long : BOOLEAN]]
  /\ arrived \in [Rings -> Numbers]

\* A process lcore is inside the slot at deque of ring r.
Reading(p, r) == ppc[p] \in {"parse", "deque"} /\ cur[p] = r

\* Without a lock, an RX lcore never fills the slot a process lcore is reading,
\* no two process lcores read the same ring, and nothing reads a slot before
\* the slot array exists.
SpscExclusion ==
  \A r \in Rings, p \in Procs :
    Reading(p, r) =>
      /\ SSD_Ring[r] = "ring"
      /\ rxpc[r] \in {"store", "publish"} => occupy[r] # deque[r]
      /\ \A q \in Procs \ {p} : ~Reading(q, r)

\* The slots that hold packets not parsed yet.
Unread(r) ==
  {i \in RingSlots : IF deque[r] <= occupy[r] THEN deque[r] <= i /\ i < occupy[r]
                                              ELSE deque[r] <= i \/ i < occupy[r]}

\* Why SpscExclusion holds (the inductive invariant of SsdRingProofs): the RX
\* lcore keeps the room it found until it has published, for only it moves
\* occupy and the process lcore only adds room; the packet a process lcore
\* found stays, for only it moves deque; and every unread slot was filled.
RxInv(r) ==
  /\ SSD_Ring[r] = "ring" <=> rxpc[r] \notin {"launch", "alloc"}
  /\ SSD_Ring[r] # "ring" => occupy[r] = 0 /\ deque[r] = 0
  /\ rxpc[r] \in {"store", "publish"} => HasRoom(r)
  /\ rxpc[r] = "publish" => ring[r][occupy[r]].m \in Mbufs
  /\ \A i \in Unread(r) : ring[r][i].m \in Mbufs

RingInv ==
  /\ TypeOK
  /\ \A r \in Rings : RxInv(r)
  /\ \A r \in Rings, p \in Procs : Reading(p, r) => occupy[r] # deque[r]

\* Every mbuf is at one place only, in its pool, or on the NIC queue or in the
\* burst of its own lcore, and the lcore's statistics differ by what it still has to free.
MbufsConserved ==
  /\ \A r \in Rings : queue_states[r] = pkt_free[r] + Len(burst[r])
  /\ LET Held(s) == {s[i] : i \in DOMAIN s} IN
     /\ \A m \in Mbufs :
          Cardinality({r \in Rings : m \in Held(nic[r])})
            + Cardinality({r \in Rings : m \in Held(burst[r])})
            + (IF m \in pool THEN 1 ELSE 0) = 1
     /\ \A r \in Rings : \A m \in Held(nic[r]) \cup Held(burst[r]) : m[1] = r

\* The numbers stamped into the slots that still wait to be parsed.
Waiting(r) ==
  LET count == (occupy[r] - deque[r]) % BufferLen
      first == IF \E p \in Procs : Reading(p, r) /\ ppc[p] = "deque" THEN 1 ELSE 0
  IN [k \in 1 .. count - first |-> ring[r][(deque[r] + first + k - 1) % BufferLen].now]

Fifo == INSTANCE PacketFifo WITH
  Queues <- Rings, Packets <- 1 .. MaxPkts, Capacity <- BufferLen - 1,
  queue <- [r \in Rings |-> Waiting(r)], out <- [r \in Rings |-> got[r].now]

\* Each ring hands its packets on in arrival order, none twice, and loses none
\* that it took, whatever the relative speed of the two lcores.
RingIsFifo == Fifo!Spec

\* The RX lcore never waits for the process lcore: even if that one stops with
\* the ring full, every mbuf comes back to the pool to be received into again.
EveryMbufReturns == \A m \in Mbufs : (m \notin pool) ~> (m \in pool)

\* No ring of those a process lcore serves is starved by the others: if the
\* process lcores run, every packet that got a slot is parsed in the end.
EveryPacketParsed ==
  PrFairness => \A r \in Rings, n \in 1 .. MaxPkts :
    (\E k \in DOMAIN Waiting(r) : Waiting(r)[k] = n) ~> (got[r].now = n)

\* What setting.cfg says of the ring's slots: they hold "packets copied from
\* rte_mbuf".  Then the packet parsed is the one the slot was filled for.
ParsedIsReceived == \A r \in Rings : got[r].pkt = got[r].now
=============================================================================
