--------------------------- MODULE SsdRingProofs ----------------------------
(***************************************************************************)
(* Proofs about the division of labour (Lcores) and about SsdRing, for     *)
(* every number of lcores, ring length, burst and mempool.                 *)
(***************************************************************************)
EXTENDS SsdRing, DataLemmas, FiniteSetTheorems

(* The division of labour (Lcores).                                        *)

\* The rings a process lcore visits exist.
LEMMA ServedExists ==
  ASSUME NEW p \in Procs
  PROVE  pos(p) \in Nat /\ end(p) \in Nat /\ end(p) <= RxQue
  BY ShareFits, LcoreAssumption DEF Procs, pos, end, dive

\* No ring is served by two process lcores.
LEMMA ServedOnce ==
  ASSUME NEW p \in Procs, NEW q \in Procs, p # q, NEW c \in Nat,
         pos(p) <= c, c < end(p)
  PROVE  ~(pos(q) <= c /\ c < end(q))
<1>1. p \in Nat /\ q \in Nat  BY LcoreAssumption DEF Procs
<1>2. dive \in Nat  BY LcoreAssumption, SMT DEF dive
<1> QED  BY <1>1, <1>2, SharesApart DEF pos, end

\* Every lcore that main numbers plays exactly one part, and no part is played
\* by a wrong lcore, although each test of l2fwd_main_loop stands alone.
THEOREM OneRole ==
  ASSUME NEW l \in 0 .. TSTAMP_LCORE
  PROVE  /\ \E role : Enters(l, role)
         /\ \A role1, role2 : Enters(l, role1) /\ Enters(l, role2) => role1 = role2
<1>1. /\ RxQue \in Nat \ {0} /\ MONITOR_LCORE = RxQue + PrQue /\ PrQue \in Nat \ {0}
      /\ TIMER_LCORE = MONITOR_LCORE + 1
      /\ CDF_LCORE = MONITOR_LCORE + 2
      /\ TSTAMP_LCORE = MONITOR_LCORE + 3
  BY LcoreAssumption
     DEF RX_LCORE, PCAP_LCORE, MONITOR_LCORE, TIMER_LCORE, CDF_LCORE, TSTAMP_LCORE
<1>2. \/ l < RxQue
      \/ l >= RxQue /\ l < MONITOR_LCORE
      \/ l \in {MONITOR_LCORE, TIMER_LCORE, CDF_LCORE, TSTAMP_LCORE}
  BY <1>1
<1>3. HasPort(l) <=> l < RxQue  BY <1>1 DEF HasPort
<1>4. \E role : Enters(l, role)  BY <1>2, <1>3 DEF Enters
<1>5. \A role1, role2 : Enters(l, role1) /\ Enters(l, role2) => role1 = role2
  BY <1>1, <1>3 DEF Enters
<1> QED  BY <1>4, <1>5

\* setting.cfg: "rx_queues/pr_queues must be divisible".  Then, and this is what
\* the restriction is for, no ring is left without a process lcore.
THEOREM EveryRingServed ==
  ASSUME NEW k \in Nat, RxQue = PrQue * k, NEW r \in Rings
  PROVE  \E p \in Procs : pos(p) <= r /\ r < end(p)
<1>1. k > 0 /\ r \in Nat /\ r < PrQue * k
  BY LcoreAssumption, SMT DEF Rings
<1>2. dive = k
  BY <1>1, LcoreAssumption, SMT DEF dive
<1>3. DEFINE p == r \div k
<1>4. p \in Nat /\ p * k <= r /\ r < (p + 1) * k
  BY <1>1, SMT
<1>5. p < PrQue
  <2>1. SUFFICES ASSUME PrQue <= p PROVE FALSE
    BY <1>4, LcoreAssumption
  <2>2. PrQue * k <= p * k  BY <1>1, <1>4, <2>1, Monotone, LcoreAssumption
  <2>3. PrQue * k \in Nat /\ p * k \in Nat  BY <1>1, <1>4, LcoreAssumption, Monotone, <2>1
  <2> QED  BY <1>1, <1>4, <2>2, <2>3
<1>6. p \in Procs  BY <1>4, <1>5, LcoreAssumption DEF Procs
<1> HIDE DEF p
<1> QED  BY <1>2, <1>4, <1>6 DEF pos, end
-----------------------------------------------------------------------------
(* The rings.                                                              *)

\* The next index of a ring, as the code's % buffer_len computes it.
LEMMA NextIndex ==
  ASSUME NEW i \in RingSlots
  PROVE  /\ (i + 1) % BufferLen \in RingSlots
         /\ (i + 1) % BufferLen = IF i + 1 = BufferLen THEN 0 ELSE i + 1
  BY RingAssumption, SMT DEF RingSlots

LEMMA InitInv == Init => RingInv
<1> SUFFICES ASSUME Init PROVE RingInv
  OBVIOUS
<1>1. TypeOK
  <2>1. 0 \in RingSlots /\ 0 \in Numbers
    BY RingAssumption, SMT DEF RingSlots, Numbers
  <2>2. \A p \in Procs : pos(p) \in Nat  BY ServedExists
  <2> QED  BY <2>1, <2>2 DEF Init, TypeOK
<1>2. \A r \in Rings : RxInv(r)
  BY RingAssumption DEF Init, RxInv, Unread, HasRoom, RingSlots
<1>3. \A r \in Rings, p \in Procs : ~Reading(p, r)
  BY DEF Init, Reading
<1> QED  BY <1>1, <1>2, <1>3 DEF RingInv

\* A process lcore inside a slot is at a ring it serves, which exists.
LEMMA ReadingServed ==
  ASSUME TypeOK, NEW p \in Procs, ppc[p] \in {"parse", "deque"}
  PROVE  cur[p] \in Rings /\ pos(p) <= cur[p] /\ cur[p] < end(p)
<1>1. cur[p] \in Nat /\ pos(p) <= cur[p] /\ cur[p] < end(p)
  BY DEF TypeOK
<1> QED  BY <1>1, ServedExists, LcoreAssumption DEF Rings

LEMMA OneReader ==
  ASSUME TypeOK, NEW p \in Procs, NEW q \in Procs, NEW r \in Rings,
         Reading(p, r), Reading(q, r)
  PROVE  p = q
<1>1. ppc[p] \in {"parse", "deque"} /\ ppc[q] \in {"parse", "deque"} /\ cur[p] = cur[q]
  BY DEF Reading
<1>2. cur[p] \in Nat  BY DEF TypeOK
<1> QED  BY <1>1, <1>2, ReadingServed, ServedOnce

\* Every step of the system and its environment keeps the types.
LEMMA TypeStep ==
  ASSUME RingInv, [Next]_vars
  PROVE  TypeOK'
<1> USE DEF ringVars, rxVars, prVars, extVars
<1>0. TypeOK  BY DEF RingInv
<1>1. ASSUME NEW r \in Rings, Arrive(r) PROVE TypeOK'
  <2>1. PICK m \in pool, long \in BOOLEAN :
          /\ data' = [data EXCEPT ![m] = [pkt |-> arrived[r] + 1, long |-> long]]
          /\ nic' = [nic EXCEPT ![r] = Append(@, m)]
          /\ pool' = pool \ {m}
    BY <1>1 DEF Arrive
  <2>2. m \in Mbufs /\ arrived[r] + 1 \in Numbers
    BY <1>0, <1>1, RingAssumption DEF TypeOK, Arrive, Numbers
  <2>3. Append(nic[r], m) \in Seq(Mbufs)
    BY <1>0, <2>2 DEF TypeOK
  <2>4. /\ data' \in [Mbufs -> [pkt : Numbers, long : BOOLEAN]]
        /\ nic' \in [Rings -> Seq(Mbufs)]
        /\ pool' \in SUBSET Mbufs
        /\ arrived' \in [Rings -> Numbers]
    BY <1>0, <1>1, <2>1, <2>2, <2>3 DEF TypeOK, Arrive
  <2> QED
    BY <1>0, <1>1, <2>4 DEF TypeOK, Arrive
<1>2. ASSUME NEW r \in Rings, Launch(r) PROVE TypeOK'
  BY <1>0, <1>2 DEF TypeOK, Launch
<1>3. ASSUME NEW r \in Rings, Alloc(r) PROVE TypeOK'
  BY <1>0, <1>3, RingAssumption, SMTT(20) DEF TypeOK, Alloc, RingSlots
<1>4. ASSUME NEW r \in Rings, RxBurst(r) PROVE TypeOK'
  <2>1. PICK nb \in 1 .. Len(nic[r]) :
          /\ burst' = [burst EXCEPT ![r] = SubSeq(nic[r], 1, nb)]
          /\ nic' = [nic EXCEPT ![r] = SubSeq(@, nb + 1, Len(@))]
          /\ queue_states' = [queue_states EXCEPT ![r] = @ + nb]
    BY <1>4 DEF RxBurst
  <2>2. nic[r] \in Seq(Mbufs)
    BY <1>0 DEF TypeOK
  <2>3. nb \in Nat \ {0} /\ nb <= Len(nic[r]) /\ Len(nic[r]) \in Nat
    BY <2>1, <2>2
  <2>4. /\ SubSeq(nic[r], 1, nb) \in Seq(Mbufs)
        /\ SubSeq(nic[r], nb + 1, Len(nic[r])) \in Seq(Mbufs)
        /\ SubSeq(nic[r], 1, nb) # <<>>
    BY <2>2, <2>3, SubSeqProperties
  <2>5. /\ burst' \in [Rings -> Seq(Mbufs)]
        /\ nic' \in [Rings -> Seq(Mbufs)]
        /\ queue_states' \in [Rings -> Nat]
    BY <1>0, <2>1, <2>3, <2>4 DEF TypeOK
  <2>6. burst'[r] # <<>> /\ \A s \in Rings \ {r} : burst'[s] = burst[s]
    BY <1>0, <2>1, <2>4 DEF TypeOK
  <2> QED
    BY <1>0, <1>4, <2>5, <2>6, ZenonT(30) DEF TypeOK, RxBurst
<1>5. ASSUME NEW r \in Rings, Examine(r) PROVE TypeOK'
  BY <1>0, <1>5 DEF TypeOK, Examine
<1>6. ASSUME NEW r \in Rings, Store(r) PROVE TypeOK'
  BY <1>0, <1>6 DEF TypeOK, Store
<1>7. ASSUME NEW r \in Rings, Publish(r) PROVE TypeOK'
  BY <1>0, <1>7, NextIndex DEF TypeOK, Publish
<1>8. ASSUME NEW r \in Rings, Free(r) PROVE TypeOK'
  <2>1. burst[r] \in Seq(Mbufs) /\ burst[r] # <<>>
    BY <1>0, <1>8 DEF TypeOK, Free
  <2>2. /\ Head(burst[r]) \in Mbufs
        /\ Tail(burst[r]) \in Seq(Mbufs)
        /\ Len(burst[r]) = 1 <=> Tail(burst[r]) = <<>>
    <3>1. /\ Head(burst[r]) \in Mbufs
          /\ Tail(burst[r]) \in Seq(Mbufs)
          /\ Len(Tail(burst[r])) = Len(burst[r]) - 1
      BY <2>1, HeadTailProperties
    <3>2. Tail(burst[r]) = <<>> <=> Len(Tail(burst[r])) = 0
      BY <3>1, EmptySeq
    <3>3. Len(burst[r]) \in Nat
      BY <2>1
    <3> QED  BY <3>1, <3>2, <3>3
  <2>3. /\ burst' \in [Rings -> Seq(Mbufs)]
        /\ pkt_free' \in [Rings -> Nat]
        /\ pool' \in SUBSET Mbufs
    BY <1>0, <1>8, <2>2 DEF TypeOK, Free
  <2>4. \A s \in Rings :
          rxpc'[s] \in {"pkt", "store", "publish", "free"} <=> burst'[s] # <<>>
    BY <1>0, <1>8, <2>2 DEF TypeOK, Free
  <2> QED
    BY <1>0, <1>8, <2>3, <2>4 DEF TypeOK, Free
<1>9. ASSUME NEW p \in Procs, Skip(p) PROVE TypeOK'
  BY <1>0, <1>9, ServedExists DEF TypeOK, Skip, NextRing
<1>10. ASSUME NEW p \in Procs, Take(p) PROVE TypeOK'
  BY <1>0, <1>10 DEF TypeOK, Take
<1>11. ASSUME NEW p \in Procs, Parse(p) PROVE TypeOK'
  <2>1. cur[p] \in Rings /\ Reading(p, cur[p])
    BY <1>0, <1>11, ReadingServed DEF Parse, Reading
  <2>2. deque[cur[p]] \in Unread(cur[p])
    BY <1>0, <2>1, RingAssumption DEF RingInv, TypeOK, Unread, RingSlots
  <2>3. ring[cur[p]][deque[cur[p]]] \in [m : Mbufs \cup {NoMbuf}, now : Numbers]
    BY <1>0, <2>1 DEF TypeOK
  <2>4. ring[cur[p]][deque[cur[p]]].m \in Mbufs
    BY <2>1, <2>2 DEF RingInv, RxInv
  <2>5. data[ring[cur[p]][deque[cur[p]]].m].pkt \in Numbers
    BY <1>0, <2>4 DEF TypeOK
  <2>6. got' \in [Rings -> [now : Numbers, pkt : Numbers]]
    BY <1>0, <1>11, <2>1, <2>3, <2>5 DEF TypeOK, Parse
  <2> QED
    BY <1>0, <1>11, <2>6 DEF TypeOK, Parse
<1>12. ASSUME NEW p \in Procs, Dequeue(p) PROVE TypeOK'
  BY <1>0, <1>12, ServedExists, ReadingServed, NextIndex, SMTT(20) DEF TypeOK, Dequeue, NextRing
<1>13. CASE UNCHANGED vars
  BY <1>0, <1>13 DEF TypeOK, vars
<1> QED
  BY <1>1, <1>2, <1>3, <1>4, <1>5, <1>6, <1>7, <1>8, <1>9, <1>10, <1>11,
     <1>12, <1>13 DEF Next, RxLcore, ProcessLcore

\* Only RX lcore r fills, publishes and decides on ring r's slots; the process
\* lcore that moves deque only adds room and gives slots up.
LEMMA RxInvStep ==
  ASSUME RingInv, [Next]_vars, NEW r \in Rings
  PROVE  RxInv(r)'
<1> USE DEF ringVars, rxVars, prVars, extVars
<1>0. TypeOK /\ RxInv(r) /\ TypeOK'
  BY TypeStep DEF RingInv
<1>1. occupy[r] \in RingSlots /\ deque[r] \in RingSlots
  BY <1>0 DEF TypeOK
<1>2. CASE UNCHANGED <<SSD_Ring[r], occupy[r], deque[r], ring[r], rxpc[r]>>
  BY <1>0, <1>2 DEF RxInv, HasRoom, Unread
<1>3. CASE Launch(r)
  <2>1. /\ SSD_Ring'[r] = "struct" /\ rxpc'[r] = "alloc" /\ rxpc[r] = "launch"
        /\ UNCHANGED <<occupy, deque, ring>>
    BY <1>0, <1>3 DEF TypeOK, Launch
  <2> QED  BY <1>0, <2>1 DEF RxInv, Unread
<1>4. CASE Alloc(r)
  <2>1. /\ SSD_Ring'[r] = "ring" /\ rxpc'[r] = "poll"
        /\ occupy'[r] = 0 /\ deque'[r] = 0
    BY <1>0, <1>4 DEF TypeOK, Alloc
  <2>2. Unread(r)' = {}
    BY <2>1 DEF Unread, RingSlots
  <2> QED  BY <2>1, <2>2 DEF RxInv
<1>5. CASE RxBurst(r) \/ Examine(r) \/ Free(r)
  <2>1. /\ rxpc'[r] \in {"poll", "pkt", "store", "free"}
        /\ rxpc'[r] = "store" => HasRoom(r)
        /\ rxpc[r] \in {"poll", "pkt", "free"}
        /\ UNCHANGED <<SSD_Ring, occupy, deque, ring>>
    BY <1>0, <1>5 DEF TypeOK, RxBurst, Examine, Free
  <2> QED  BY <1>0, <2>1 DEF RxInv, HasRoom, Unread
<1>6. CASE Store(r)
  <2>1. /\ rxpc[r] = "store" /\ rxpc'[r] = "publish"
        /\ UNCHANGED <<SSD_Ring, occupy, deque>>
        /\ ring'[r][occupy[r]].m \in Mbufs
        /\ \A i \in RingSlots \ {occupy[r]} : ring'[r][i] = ring[r][i]
    <3>1. Head(burst[r]) \in Mbufs
      BY <1>0, <1>6, HeadTailProperties DEF TypeOK, Store
    <3> QED  BY <1>0, <1>1, <1>6, <3>1 DEF TypeOK, Store
  <2>2. occupy[r] \notin Unread(r) /\ Unread(r) \subseteq RingSlots
    BY <1>1 DEF Unread, RingSlots
  <2> QED  BY <1>0, <2>1, <2>2 DEF RxInv, HasRoom, Unread
<1>7. CASE Publish(r)
  <2>1. /\ rxpc[r] = "publish" /\ rxpc'[r] = "free"
        /\ occupy'[r] = (occupy[r] + 1) % BufferLen
        /\ UNCHANGED <<SSD_Ring, deque, ring>>
    BY <1>0, <1>7 DEF TypeOK, Publish
  <2>2. Unread(r)' \subseteq Unread(r) \cup {occupy[r]}
    BY <1>0, <1>1, <2>1, NextIndex DEF Unread, RingSlots, RxInv, HasRoom
  <2> QED  BY <1>0, <2>1, <2>2 DEF RxInv
<1>8. ASSUME NEW p \in Procs, Dequeue(p), cur[p] = r
      PROVE  RxInv(r)'
  <2>1. /\ deque'[r] = (deque[r] + 1) % BufferLen
        /\ UNCHANGED <<SSD_Ring, occupy, ring, rxpc>>
    BY <1>0, <1>8 DEF TypeOK, Dequeue
  <2>2. Reading(p, r) /\ occupy[r] # deque[r]
    BY <1>8 DEF Dequeue, Reading, RingInv
  <2>3. Unread(r)' \subseteq Unread(r)
    BY <1>1, <2>1, <2>2, NextIndex DEF Unread, RingSlots
  <2>4. HasRoom(r) => HasRoom(r)'
    BY <1>1, <2>1, <2>2, NextIndex DEF HasRoom, RingSlots
  <2> QED  BY <1>0, <2>1, <2>2, <2>3, <2>4 DEF RxInv
<1>9. ASSUME NEW s \in Rings, s # r, Arrive(s) \/ RxLcore(s)
      PROVE  UNCHANGED <<SSD_Ring[r], occupy[r], deque[r], ring[r], rxpc[r]>>
  <2>1. CASE Arrive(s) \/ Examine(s)
    BY <1>0, <1>9, <2>1 DEF TypeOK, Arrive, Examine
  <2>4. CASE RxBurst(s) \/ Free(s)
    BY <1>0, <1>9, <2>4, SMTT(20) DEF TypeOK, RxBurst, Free
  <2>2. CASE Launch(s) \/ Alloc(s)
    BY <1>0, <1>9, <2>2 DEF TypeOK, Launch, Alloc
  <2>3. CASE Store(s) \/ Publish(s)
    BY <1>0, <1>9, <2>3 DEF TypeOK, Store, Publish
  <2> QED  BY <1>9, <2>1, <2>2, <2>3, <2>4 DEF RxLcore
<1>10. ASSUME NEW p \in Procs, ProcessLcore(p), ~(Dequeue(p) /\ cur[p] = r)
       PROVE  UNCHANGED <<SSD_Ring[r], occupy[r], deque[r], ring[r], rxpc[r]>>
  BY <1>0, <1>10 DEF TypeOK, ProcessLcore, Skip, Take, Parse, Dequeue
<1>11. Arrive(r) \/ UNCHANGED vars
         => UNCHANGED <<SSD_Ring[r], occupy[r], deque[r], ring[r], rxpc[r]>>
  BY DEF Arrive, vars
<1> QED
  BY <1>2, <1>3, <1>4, <1>5, <1>6, <1>7, <1>8, <1>9, <1>10, <1>11
     DEF Next, RxLcore, ProcessLcore

\* The ring a process lcore is reading stays non-empty until it dequeues: the
\* RX lcore's next index is never deque.
LEMMA ReadingStep ==
  ASSUME RingInv, [Next]_vars, NEW r \in Rings, NEW p \in Procs, Reading(p, r)'
  PROVE  occupy'[r] # deque'[r]
<1> USE DEF ringVars, rxVars, prVars, extVars
<1>0. TypeOK /\ RxInv(r) /\ (Reading(p, r) => occupy[r] # deque[r])
  BY DEF RingInv
<1>1. CASE Reading(p, r) /\ UNCHANGED <<occupy[r], deque[r]>>
  BY <1>0, <1>1
<1>2. CASE Take(p)
  BY <1>0, <1>2 DEF TypeOK, Take, Reading, NonEmpty
<1>3. CASE Reading(p, r) /\ (Launch(r) \/ Alloc(r))
  BY <1>0, <1>3 DEF TypeOK, RxInv, Launch, Alloc
<1>4. CASE Reading(p, r) /\ Publish(r)
  <2>1. /\ rxpc[r] = "publish"
        /\ occupy'[r] = (occupy[r] + 1) % BufferLen
        /\ deque'[r] = deque[r]
    BY <1>0, <1>4 DEF TypeOK, Publish
  <2> QED  BY <1>0, <2>1 DEF RxInv, HasRoom
<1>5. ASSUME NEW q \in Procs, Dequeue(q), q # p, Reading(p, r)
      PROVE  UNCHANGED <<occupy[r], deque[r]>>
  <2>1. Reading(q, cur[q])  BY <1>5 DEF Dequeue, Reading
  <2>2. cur[q] # r  BY <1>0, <1>5, <2>1, OneReader
  <2> QED  BY <1>0, <1>5, <2>2 DEF TypeOK, Dequeue
<1>6. ~Dequeue(p) /\ ~Skip(p)
  BY <1>0 DEF TypeOK, Dequeue, Skip, Reading
<1>7. ASSUME NEW s \in Rings, Arrive(s) \/ RxLcore(s), ~(s = r /\ (Launch(r) \/ Alloc(r) \/ Publish(r)))
      PROVE  UNCHANGED <<occupy[r], deque[r]>>
  BY <1>0, <1>7 DEF TypeOK, Arrive, RxLcore, Launch, Alloc, RxBurst, Examine, Store, Publish, Free
<1>8. ASSUME NEW s \in Rings, Arrive(s) \/ RxLcore(s)
      PROVE  Reading(p, r)
  BY <1>8 DEF Reading, Arrive, RxLcore, Launch, Alloc, RxBurst, Examine, Store, Publish, Free
<1>9. ASSUME NEW q \in Procs, q # p, ProcessLcore(q)
      PROVE  Reading(p, r)
  BY <1>0, <1>9 DEF TypeOK, Reading, ProcessLcore, Skip, Take, Parse, Dequeue
<1>10. ASSUME NEW q \in Procs, Skip(q) \/ Take(q) \/ Parse(q)
       PROVE  UNCHANGED <<occupy[r], deque[r]>>
  BY <1>10 DEF Skip, Take, Parse
<1>11. CASE UNCHANGED vars
  BY <1>0, <1>11 DEF vars, Reading
<1>12. CASE Parse(p)
  <2>1. Reading(p, r)
    BY <1>0, <1>12 DEF TypeOK, Parse, Reading
  <2> QED  BY <1>0, <1>12, <2>1 DEF Parse
<1>13. ASSUME NEW q \in Procs, ProcessLcore(q)
       PROVE  occupy'[r] # deque'[r]
  BY <1>1, <1>2, <1>5, <1>6, <1>9, <1>10, <1>12, <1>13 DEF ProcessLcore
<1>14. ASSUME NEW s \in Rings, Arrive(s) \/ RxLcore(s)
       PROVE  occupy'[r] # deque'[r]
  BY <1>1, <1>3, <1>4, <1>7, <1>8, <1>14
<1> QED
  BY <1>11, <1>13, <1>14 DEF Next

\* The inductive invariant holds for every number of lcores and every ring
\* length: the full check and the emptiness test are all the code needs.
THEOREM RingInvariant == Spec => []RingInv
<1>1. RingInv /\ [Next]_vars => RingInv'
  <2> SUFFICES ASSUME RingInv, [Next]_vars PROVE RingInv'
    OBVIOUS
  <2>1. TypeOK'  BY TypeStep
  <2>2. \A r \in Rings : RxInv(r)'  BY RxInvStep
  <2>3. \A r \in Rings, p \in Procs : Reading(p, r)' => occupy'[r] # deque'[r]
    BY ReadingStep
  <2> QED  BY <2>1, <2>2, <2>3 DEF RingInv
<1> QED  BY InitInv, <1>1, PTL DEF Spec

\* Every index, pointer and counter keeps its type: no lcore ever indexes
\* outside a ring, or parses a slot that was never filled.
THEOREM RingTypes == Spec => []TypeOK
<1>1. RingInv => TypeOK  BY DEF RingInv
<1> QED  BY RingInvariant, <1>1, PTL

\* No RX lcore writes the slot a process lcore reads, no two process lcores
\* read the same ring, and no ring is read before it exists.
THEOREM RingExclusion == Spec => []SpscExclusion
<1>1. RingInv => SpscExclusion
  <2> SUFFICES ASSUME RingInv, NEW r \in Rings, NEW p \in Procs, Reading(p, r)
               PROVE  /\ SSD_Ring[r] = "ring"
                      /\ rxpc[r] \in {"store", "publish"} => occupy[r] # deque[r]
                      /\ \A q \in Procs \ {p} : ~Reading(q, r)
    BY DEF SpscExclusion
  <2>1. TypeOK /\ RxInv(r) /\ occupy[r] # deque[r]  BY DEF RingInv
  <2>2. SSD_Ring[r] = "ring"  BY <2>1 DEF RxInv
  <2>3. \A q \in Procs \ {p} : ~Reading(q, r)  BY <2>1, OneReader
  <2> QED  BY <2>1, <2>2, <2>3
<1> QED  BY RingInvariant, <1>1, PTL
-----------------------------------------------------------------------------
(* What waits in a ring, as a function of its slots and indices; f is 1    *)
(* between the read of the slot at deque and the move of deque.            *)

Taken(r) == IF \E p \in Procs : Reading(p, r) /\ ppc[p] = "deque" THEN 1 ELSE 0

WaitingIn(slots, o, d, f) ==
  [k \in 1 .. ((o - d) % BufferLen) - f |-> slots[(d + f + k - 1) % BufferLen].now]

LEMMA WaitingDef ==
  ASSUME NEW r
  PROVE  /\ Waiting(r) = WaitingIn(ring[r], occupy[r], deque[r], Taken(r))
         /\ Waiting(r)' = WaitingIn(ring'[r], occupy'[r], deque'[r], Taken(r)')
  BY DEF Waiting, WaitingIn, Taken

Slots == [RingSlots -> [m : Mbufs \cup {NoMbuf}, now : Numbers]]

LEMMA RingIndex == RingSlots = Index(BufferLen) /\ BufferLen \in Nat \ {0}
  BY RingAssumption DEF RingSlots, Index

\* The lemmas about ring buffers are about the numbers of the packets in the slots.
Nows(slots) == [i \in RingSlots |-> slots[i].now]

LEMMA NowsHold ==
  ASSUME NEW s \in Slots
  PROVE  Holds(Nows(s), BufferLen, Numbers)
  BY RingIndex DEF Holds, Nows, Slots

LEMMA WaitingInRing ==
  ASSUME NEW s, NEW o \in RingSlots, NEW d \in RingSlots, NEW f \in {0, 1},
         f <= Filled(BufferLen, o, d)
  PROVE  WaitingIn(s, o, d, f) = RingSeq(Nows(s), BufferLen, o, d, f)
<1> DEFINE n == (o - d) % BufferLen
           a(k) == (d + f + k - 1) % BufferLen
<1>1. n = Filled(BufferLen, o, d) /\ n \in 0 .. BufferLen - 1
  BY RingIndex, FilledFacts
<1>2. \A k \in 1 .. n - f : a(k) \in RingSlots
  <2> TAKE k \in 1 .. n - f
  <2> DEFINE j == f + k - 1
  <2>1. j \in 0 .. BufferLen - 1  BY <1>1, RingAssumption
  <2>2. d + f + k - 1 = d + j  BY RingAssumption DEF RingSlots
  <2> HIDE DEF j
  <2>3. (d + j) % BufferLen \in RingSlots  BY <2>1, RingIndex, SlotAfterFacts
  <2> QED  BY <2>2, <2>3
<1>3. \A k \in 1 .. n - f : s[a(k)].now = Nows(s)[a(k)]
  BY <1>2 DEF Nows
<1> QED  BY <1>3 DEF WaitingIn, RingSeq

LEMMA WaitingInFacts ==
  ASSUME NEW s \in Slots, NEW o \in RingSlots, NEW d \in RingSlots, NEW f \in {0, 1},
         f <= Filled(BufferLen, o, d)
  PROVE  /\ WaitingIn(s, o, d, f) \in Seq(Numbers)
         /\ Len(WaitingIn(s, o, d, f)) = Filled(BufferLen, o, d) - f
  BY RingIndex, NowsHold, WaitingInRing, RingSeqFacts

\* The RX lcore publishes a slot: one more waits, and there was room for it.
LEMMA WaitingAppend ==
  ASSUME NEW s \in Slots, NEW o \in RingSlots, NEW d \in RingSlots, NEW f \in {0, 1},
         f <= Filled(BufferLen, o, d), (o + 1) % BufferLen # d
  PROVE  /\ WaitingIn(s, (o + 1) % BufferLen, d, f) = Append(WaitingIn(s, o, d, f), s[o].now)
         /\ Len(WaitingIn(s, o, d, f)) < BufferLen - 1
<1> DEFINE e == (o + 1) % BufferLen
<1>1. e \in RingSlots /\ f <= Filled(BufferLen, e, d)
  <2>1. e \in RingSlots /\ e = IF o + 1 = BufferLen THEN 0 ELSE o + 1
    BY NextIndex
  <2> HIDE DEF e
  <2> QED  BY <2>1, RingAssumption DEF RingSlots, Filled, e
<1>2. WaitingIn(s, e, d, f) = RingSeq(Nows(s), BufferLen, e, d, f)
  <2> HIDE DEF e
  <2> QED  BY <1>1, WaitingInRing
<1>3. /\ RingSeq(Nows(s), BufferLen, e, d, f)
             = Append(RingSeq(Nows(s), BufferLen, o, d, f), Nows(s)[o])
      /\ Len(RingSeq(Nows(s), BufferLen, o, d, f)) < BufferLen - 1
  BY RingIndex, NowsHold, RingSeqAppend
<1>4. Nows(s)[o] = s[o].now  BY DEF Nows
<1> QED  BY <1>2, <1>3, <1>4, WaitingInRing

\* The process lcore reads the slot at deque: the oldest waits no longer.
LEMMA WaitingTail ==
  ASSUME NEW s \in Slots, NEW o \in RingSlots, NEW d \in RingSlots, o # d
  PROVE  /\ WaitingIn(s, o, d, 0) # <<>>
         /\ Head(WaitingIn(s, o, d, 0)) = s[d].now
         /\ WaitingIn(s, o, d, 1) = Tail(WaitingIn(s, o, d, 0))
<1> DEFINE n == Nows(s)
<1>1. 0 <= Filled(BufferLen, o, d) /\ 1 <= Filled(BufferLen, o, d)
  BY RingIndex, FilledFacts
<1>2. /\ WaitingIn(s, o, d, 0) = RingSeq(n, BufferLen, o, d, 0)
      /\ WaitingIn(s, o, d, 1) = RingSeq(n, BufferLen, o, d, 1)
  BY <1>1, WaitingInRing
<1>3. n[d] = s[d].now  BY DEF Nows
<1>4. /\ RingSeq(n, BufferLen, o, d, 0) # <<>>
      /\ Head(RingSeq(n, BufferLen, o, d, 0)) = n[d]
      /\ RingSeq(n, BufferLen, o, d, 1) = Tail(RingSeq(n, BufferLen, o, d, 0))
  BY RingIndex, NowsHold, RingSeqTail
<1> QED  BY <1>2, <1>3, <1>4

\* The process lcore moves deque on: nothing changes for those that wait.
LEMMA WaitingDequeue ==
  ASSUME NEW s \in Slots, NEW o \in RingSlots, NEW d \in RingSlots, o # d
  PROVE  WaitingIn(s, o, (d + 1) % BufferLen, 0) = WaitingIn(s, o, d, 1)
<1> DEFINE e == (d + 1) % BufferLen
<1>1. /\ e \in RingSlots /\ 0 <= Filled(BufferLen, o, e)
      /\ 1 <= Filled(BufferLen, o, d)
  BY RingIndex, NextInRing, FilledFacts
<1>2. RingSeq(Nows(s), BufferLen, o, e, 0) = RingSeq(Nows(s), BufferLen, o, d, 1)
  BY RingIndex, NowsHold, RingSeqDequeue
<1> HIDE DEF e
<1>3. /\ WaitingIn(s, o, e, 0) = RingSeq(Nows(s), BufferLen, o, e, 0)
      /\ WaitingIn(s, o, d, 1) = RingSeq(Nows(s), BufferLen, o, d, 1)
  BY <1>1, WaitingInRing
<1> QED  BY <1>2, <1>3 DEF e

\* The RX lcore fills the slot at occupy, which waits for nobody yet.
LEMMA WaitingStore ==
  ASSUME NEW s \in Slots, NEW t \in Slots, NEW o \in RingSlots, NEW d \in RingSlots,
         NEW f \in {0, 1}, f <= Filled(BufferLen, o, d), \A i \in RingSlots \ {o} : t[i] = s[i]
  PROVE  WaitingIn(t, o, d, f) = WaitingIn(s, o, d, f)
<1>1. \A i \in Index(BufferLen) \ {o} : Nows(t)[i] = Nows(s)[i]
  BY RingIndex DEF Nows
<1>2. RingSeq(Nows(t), BufferLen, o, d, f) = RingSeq(Nows(s), BufferLen, o, d, f)
  BY <1>1, RingIndex, NowsHold, RingSeqStore
<1> QED  BY <1>2, WaitingInRing

-----------------------------------------------------------------------------
(* The way of an mbuf: taken from its pool by the NIC, through the queue   *)
(* and the burst of its own lcore, and back.                               *)

\* The mbufs lcore r will free, oldest packet first.
Path(r) == burst[r] \o nic[r]
Pkt(r, i) == data[Path(r)[i]].pkt

\* They are of r's own mempool and not in it, and their packets are in the
\* order of their arrival, so that no two of them are the same mbuf.
PathInv(r) ==
  /\ \A i \in 1 .. Len(Path(r)) :
       Path(r)[i][1] = r /\ Path(r)[i] \notin pool /\ Pkt(r, i) <= arrived[r]
  /\ \A i, j \in 1 .. Len(Path(r)) : i < j => Pkt(r, i) < Pkt(r, j)
  /\ queue_states[r] = pkt_free[r] + Len(burst[r])

\* No mbuf is lost: out of its pool means on the way back to it.
OnPath(m) == \E i \in 1 .. Len(Path(m[1])) : Path(m[1])[i] = m
NoneLost == \A m \in Mbufs \ pool : OnPath(m)

MbufInv == NoneLost /\ \A r \in Rings : PathInv(r)

LEMMA PathFacts ==
  ASSUME TypeOK, NEW r \in Rings
  PROVE  /\ burst[r] \in Seq(Mbufs) /\ nic[r] \in Seq(Mbufs) /\ Path(r) \in Seq(Mbufs)
         /\ Len(burst[r]) \in Nat /\ Len(nic[r]) \in Nat
         /\ Len(Path(r)) = Len(burst[r]) + Len(nic[r])
         /\ \A i \in 1 .. Len(Path(r)) :
              Path(r)[i] = IF i <= Len(burst[r]) THEN burst[r][i]
                                                 ELSE nic[r][i - Len(burst[r])]
         /\ \A i \in 1 .. Len(Path(r)) : Path(r)[i] \in Mbufs /\ Pkt(r, i) \in Numbers
<1>1. burst[r] \in Seq(Mbufs) /\ nic[r] \in Seq(Mbufs)
  BY DEF TypeOK
<1>2. /\ Path(r) \in Seq(Mbufs)
      /\ Len(Path(r)) = Len(burst[r]) + Len(nic[r])
      /\ \A i \in 1 .. Len(Path(r)) :
           Path(r)[i] = IF i <= Len(burst[r]) THEN burst[r][i]
                                              ELSE nic[r][i - Len(burst[r])]
  BY <1>1, ConcatProperties, ZenonT(30) DEF Path
<1>3. \A i \in 1 .. Len(Path(r)) : Path(r)[i] \in Mbufs
  BY <1>2, ElementOfSeq
<1>4. \A i \in 1 .. Len(Path(r)) : Pkt(r, i) \in Numbers
  BY <1>3 DEF TypeOK, Pkt
<1>5. Len(burst[r]) \in Nat /\ Len(nic[r]) \in Nat
  BY <1>1, LenProperties
<1> QED  BY <1>1, <1>2, <1>3, <1>4, <1>5

\* While the RX lcore works on a packet, it is the first of its path.
LEMMA PathHead ==
  ASSUME TypeOK, NEW r \in Rings, rxpc[r] \in {"pkt", "store", "publish", "free"}
  PROVE  /\ Len(burst[r]) >= 1 /\ Len(Path(r)) >= 1
         /\ Path(r)[1] = Head(burst[r]) /\ Head(burst[r]) \in Mbufs
<1>1. burst[r] # <<>>  BY DEF TypeOK
<1>2. Len(burst[r]) >= 1  BY <1>1, PathFacts, EmptySeq
<1>3. Head(burst[r]) = burst[r][1]  BY PathFacts
<1>4. Head(burst[r]) \in Mbufs  BY <1>1, PathFacts, HeadTailProperties
<1>5. /\ Len(Path(r)) = Len(burst[r]) + Len(nic[r])
      /\ Len(burst[r]) \in Nat /\ Len(nic[r]) \in Nat
  BY PathFacts
<1>6. Len(Path(r)) >= 1 /\ 1 \in 1 .. Len(Path(r))
  <2> DEFINE l == Len(Path(r))
             b == Len(burst[r])
             n == Len(nic[r])
  <2>1. b >= 1 /\ l = b + n /\ b \in Nat /\ n \in Nat  BY <1>2, <1>5
  <2> HIDE DEF l, b, n
  <2>2. l >= 1 /\ 1 \in 1 .. l  BY <2>1
  <2> QED  BY <2>2 DEF l
<1>7. Path(r)[1] = burst[r][1]
  <2>1. \A i \in 1 .. Len(Path(r)) : i <= Len(burst[r]) => Path(r)[i] = burst[r][i]
    BY PathFacts
  <2> QED  BY <1>2, <1>6, <2>1
<1> QED  BY <1>2, <1>3, <1>4, <1>6, <1>7

\* A packet arrives: its mbuf leaves the pool for the end of the path.
LEMMA PathArrive ==
  ASSUME TypeOK, NEW r \in Rings, Arrive(r)
  PROVE  \E m \in pool :
           /\ m[1] = r /\ m \in Mbufs
           /\ Path(r)' = Append(Path(r), m)
           /\ pool' = pool \ {m}
           /\ data'[m].pkt = arrived[r] + 1 /\ arrived'[r] = arrived[r] + 1
           /\ \A n \in Mbufs \ {m} : data'[n] = data[n]
           /\ \A s \in Rings \ {r} : Path(s)' = Path(s) /\ arrived'[s] = arrived[s]
           /\ burst' = burst /\ queue_states' = queue_states /\ pkt_free' = pkt_free
<1>1. PICK m \in pool, long \in BOOLEAN :
        /\ m[1] = r
        /\ data' = [data EXCEPT ![m] = [pkt |-> arrived[r] + 1, long |-> long]]
        /\ nic' = [nic EXCEPT ![r] = Append(@, m)]
        /\ pool' = pool \ {m}
  BY DEF Arrive
<1>2. /\ burst' = burst /\ queue_states' = queue_states /\ pkt_free' = pkt_free
      /\ arrived'[r] = arrived[r] + 1 /\ \A s \in Rings \ {r} : arrived'[s] = arrived[s]
  BY DEF Arrive, TypeOK, rxVars
<1>3. m \in Mbufs  BY DEF TypeOK
<1>4. nic'[r] = Append(nic[r], m) /\ \A s \in Rings \ {r} : nic'[s] = nic[s]
  BY <1>1 DEF TypeOK
<1>5. Path(r)' = Append(Path(r), m)
  <2>1. Path(r)' = burst[r] \o Append(nic[r], m)  BY <1>2, <1>4 DEF Path
  <2> DEFINE b == burst[r]
             n == nic[r]
  <2>2. b \in Seq(Mbufs) /\ n \in Seq(Mbufs)  BY PathFacts
  <2> HIDE DEF b, n
  <2>3. b \o Append(n, m) = Append(b \o n, m)
    BY <1>3, <2>2, ConcatAppend
  <2> QED  BY <2>1, <2>3 DEF Path, b, n
<1>6. \A s \in Rings \ {r} : Path(s)' = Path(s)
  BY <1>2, <1>4 DEF Path
<1>7. data'[m].pkt = arrived[r] + 1 /\ \A n \in Mbufs \ {m} : data'[n] = data[n]
  BY <1>1, <1>3 DEF TypeOK
<1> QED  BY <1>1, <1>2, <1>3, <1>5, <1>6, <1>7

\* An mbuf is freed: the first of the path goes back to the pool.
LEMMA PathFree ==
  ASSUME TypeOK, NEW r \in Rings, Free(r)
  PROVE  /\ Path(r)' = Tail(Path(r)) /\ Path(r) # <<>>
         /\ pool' = pool \cup {Path(r)[1]}
         /\ data' = data /\ arrived' = arrived
         /\ pkt_free'[r] = pkt_free[r] + 1 /\ Len(burst'[r]) = Len(burst[r]) - 1
         /\ \A s \in Rings \ {r} :
              Path(s)' = Path(s) /\ burst'[s] = burst[s] /\ pkt_free'[s] = pkt_free[s]
         /\ queue_states' = queue_states
<1>1. burst[r] # <<>> /\ burst'[r] = Tail(burst[r]) /\ nic' = nic
  BY DEF Free, TypeOK
<1>2. /\ Len(burst[r]) >= 1 /\ Path(r)[1] = Head(burst[r])
      /\ Path(r) # <<>>
  BY PathHead, PathFacts, EmptySeq DEF Free
<1>3. /\ Tail(burst[r]) \in Seq(Mbufs) /\ Len(Tail(burst[r])) = Len(burst[r]) - 1
      /\ \A i \in 1 .. Len(burst[r]) - 1 : Tail(burst[r])[i] = burst[r][i + 1]
  BY <1>1, PathFacts, HeadTailProperties
<1>5. Path(r)' = Tail(Path(r))
  <2>1. burst[r] \in Seq(Mbufs) /\ nic[r] \in Seq(Mbufs)  BY PathFacts
  <2>2. Tail(burst[r] \o nic[r]) = Tail(burst[r]) \o nic[r]
    BY <1>1, <2>1, ConcatTail
  <2> QED  BY <1>1, <2>2 DEF Path
<1>6. \A s \in Rings \ {r} :
        Path(s)' = Path(s) /\ burst'[s] = burst[s] /\ pkt_free'[s] = pkt_free[s]
  BY DEF Path, Free, TypeOK
<1>7. /\ pool' = pool \cup {Head(burst[r])} /\ data' = data /\ arrived' = arrived
      /\ queue_states' = queue_states
      /\ pkt_free'[r] = pkt_free[r] + 1
  BY DEF Free, TypeOK
<1> QED  BY <1>1, <1>2, <1>3, <1>5, <1>6, <1>7

\* Nothing else moves an mbuf on or off a path; the burst only takes mbufs
\* over from the NIC queue.
LEMMA PathSame ==
  ASSUME TypeOK, [Next]_vars, \A s \in Rings : ~Arrive(s) /\ ~Free(s),
         NEW r \in Rings
  PROVE  /\ Path(r)' = Path(r)
         /\ pool' = pool /\ data' = data /\ arrived' = arrived
         /\ queue_states[r] = pkt_free[r] + Len(burst[r])
              => queue_states'[r] = pkt_free'[r] + Len(burst'[r])
<1> USE DEF ringVars, rxVars, prVars, extVars
<1>1. CASE UNCHANGED <<burst, nic, pool, data, arrived, queue_states, pkt_free>>
  BY <1>1 DEF Path
<1>2. ASSUME NEW s \in Rings, RxBurst(s)
      PROVE  /\ Path(r)' = Path(r)
             /\ pool' = pool /\ data' = data /\ arrived' = arrived
             /\ queue_states[r] = pkt_free[r] + Len(burst[r])
                  => queue_states'[r] = pkt_free'[r] + Len(burst'[r])
  <2>1. PICK nb \in 1 .. Len(nic[s]) :
          /\ burst' = [burst EXCEPT ![s] = SubSeq(nic[s], 1, nb)]
          /\ nic' = [nic EXCEPT ![s] = SubSeq(@, nb + 1, Len(@))]
          /\ queue_states' = [queue_states EXCEPT ![s] = @ + nb]
    BY <1>2 DEF RxBurst
  <2>2. pool' = pool /\ data' = data /\ arrived' = arrived /\ pkt_free' = pkt_free
    BY <1>2 DEF RxBurst
  <2>3. CASE s # r
    BY <2>1, <2>2, <2>3 DEF TypeOK, Path
  <2>4. CASE s = r
    <3>1. burst[r] = <<>>  BY <1>2, <2>4 DEF RxBurst, TypeOK
    <3>2. /\ burst'[r] = SubSeq(nic[r], 1, nb)
          /\ nic'[r] = SubSeq(nic[r], nb + 1, Len(nic[r]))
          /\ queue_states'[r] = queue_states[r] + nb
      BY <2>1, <2>4 DEF TypeOK
    <3>3. nb \in 1 .. Len(nic[r]) /\ Len(nic[r]) \in Nat
      BY <2>1, <2>4, PathFacts
    <3>4. SubSeq(nic[r], 1, nb) \o SubSeq(nic[r], nb + 1, Len(nic[r])) = SubSeq(nic[r], 1, Len(nic[r]))
      BY <3>3, PathFacts, ConcatAdjacentSubSeq
    <3>5. SubSeq(nic[r], 1, Len(nic[r])) = nic[r]
      BY PathFacts, SubSeqFull
    <3>6. Path(r) = nic[r]
      BY <3>1, PathFacts, ConcatEmptySeq DEF Path
    <3>7. Path(r)' = Path(r)
      BY <3>2, <3>4, <3>5, <3>6 DEF Path
    <3>8. Len(burst'[r]) = nb
      <4>1. \A i \in 1 .. nb : nic[r][i] \in Mbufs
        <5>1. nic[r] \in Seq(Mbufs)  BY PathFacts
        <5> QED  BY <3>3, <5>1, ElementOfSeq
      <4>2. Len(SubSeq(nic[r], 1, nb)) = nb
        BY <3>3, <4>1, SubSeqProperties
      <4> QED  BY <3>2, <4>2
    <3>9. Len(burst[r]) = 0 /\ queue_states[r] \in Nat /\ pkt_free[r] \in Nat
      BY <3>1 DEF TypeOK
    <3> QED  BY <2>2, <3>2, <3>3, <3>7, <3>8, <3>9
  <2> QED  BY <2>3, <2>4
<1>3. ASSUME NEW s \in Rings, Launch(s) \/ Alloc(s) \/ Examine(s) \/ Store(s) \/ Publish(s)
      PROVE  UNCHANGED <<burst, nic, pool, data, arrived, queue_states, pkt_free>>
  BY <1>3 DEF Launch, Alloc, Examine, Store, Publish
<1>4. ASSUME NEW p \in Procs, ProcessLcore(p)
      PROVE  UNCHANGED <<burst, nic, pool, data, arrived, queue_states, pkt_free>>
  BY <1>4 DEF ProcessLcore, Skip, Take, Parse, Dequeue
<1>5. CASE UNCHANGED vars
  BY <1>1, <1>5 DEF vars
<1> QED
  BY <1>1, <1>2, <1>3, <1>4, <1>5 DEF Next, RxLcore
LEMMA MbufInit == Init => MbufInv
<1> SUFFICES ASSUME Init PROVE MbufInv
  OBVIOUS
<1>1. \A r \in Rings : burst[r] = <<>> /\ nic[r] = <<>>
  BY DEF Init
<1>2. \A r \in Rings : Path(r) = <<>> /\ Len(Path(r)) = 0
  <2>1. <<>> \in Seq(Mbufs) /\ Len(<<>>) = 0  OBVIOUS
  <2>2. <<>> \o <<>> = <<>>  BY <2>1, ConcatEmptySeq
  <2> QED  BY <1>1, <2>1, <2>2 DEF Path
<1>3. \A r \in Rings : queue_states[r] = pkt_free[r] + Len(burst[r])
  BY DEF Init
<1>4. NoneLost  BY DEF Init, NoneLost
<1>5. \A r \in Rings : 1 .. Len(Path(r)) = {}  BY <1>2
<1>6. \A r \in Rings : PathInv(r)  BY <1>3, <1>5 DEF PathInv
<1> QED  BY <1>4, <1>6 DEF MbufInv

\* The mbufs of two queues are different, and so are those of one path.
LEMMA PathInjective ==
  ASSUME TypeOK, NEW r \in Rings, PathInv(r),
         NEW i \in 1 .. Len(Path(r)), NEW j \in 1 .. Len(Path(r)), Path(r)[i] = Path(r)[j]
  PROVE  i = j
<1>1. i \in Int /\ j \in Int  OBVIOUS
<1>2. Pkt(r, i) = Pkt(r, j)  BY DEF Pkt
<1>3. Pkt(r, i) \in Int /\ Pkt(r, j) \in Int
  <2>1. Pkt(r, i) \in Numbers /\ Pkt(r, j) \in Numbers  BY PathFacts
  <2> QED  BY <2>1, RingAssumption DEF Numbers
<1>4. i < j => Pkt(r, i) < Pkt(r, j)  BY DEF PathInv
<1>5. j < i => Pkt(r, j) < Pkt(r, i)  BY DEF PathInv
<1> QED  BY <1>1, <1>2, <1>3, <1>4, <1>5

LEMMA MbufStepArrive ==
  ASSUME TypeOK, MbufInv, NEW s \in Rings, Arrive(s)
  PROVE  MbufInv'
<1>1. PICK m \in pool :
        /\ m[1] = s /\ m \in Mbufs
        /\ Path(s)' = Append(Path(s), m)
        /\ pool' = pool \ {m}
        /\ data'[m].pkt = arrived[s] + 1 /\ arrived'[s] = arrived[s] + 1
        /\ \A n \in Mbufs \ {m} : data'[n] = data[n]
        /\ \A r \in Rings \ {s} : Path(r)' = Path(r) /\ arrived'[r] = arrived[r]
        /\ burst' = burst /\ queue_states' = queue_states /\ pkt_free' = pkt_free
  BY PathArrive
<1> DEFINE P == Path(s)
           l == Len(P)
           Q == Path(s)'
<1>2. P \in Seq(Mbufs) /\ \A i \in 1 .. l : P[i] \in Mbufs /\ data[P[i]].pkt \in Numbers
  BY PathFacts DEF Pkt
<1>3. /\ \A i \in 1 .. l : P[i][1] = s /\ P[i] \notin pool /\ data[P[i]].pkt <= arrived[s]
      /\ \A i, j \in 1 .. l : i < j => data[P[i]].pkt < data[P[j]].pkt
  BY DEF MbufInv, PathInv, Pkt
<1>4. l \in Nat  BY <1>2, LenProperties
<1> HIDE DEF P
<1>5. Q = Append(P, m)  BY <1>1 DEF P
<1>6. Q \in Seq(Mbufs) /\ Len(Q) = l + 1 /\ Q[l + 1] = m /\ \A i \in 1 .. l : Q[i] = P[i]
  BY <1>1, <1>2, <1>5, AppendProperties
<1> HIDE DEF l, Q
<1>7. arrived[s] \in Nat  BY RingAssumption DEF TypeOK, Numbers
<1>8. \A i \in 1 .. l + 1 : Q[i][1] = s /\ Q[i] \notin pool' /\ data'[Q[i]].pkt <= arrived'[s]
  <2> TAKE i \in 1 .. l + 1
  <2>1. CASE i = l + 1  BY <1>1, <1>6, <1>7, <2>1
  <2>2. CASE i \in 1 .. l
    <3>1. P[i] # m /\ P[i] \in Mbufs  BY <1>2, <1>3, <2>2
    <3>2. data'[P[i]].pkt = data[P[i]].pkt  BY <1>1, <3>1
    <3>3. data[P[i]].pkt <= arrived[s] /\ data[P[i]].pkt \in Int
      BY <1>2, <1>3, <2>2, RingAssumption DEF Numbers
    <3> QED  BY <1>1, <1>3, <1>6, <1>7, <2>2, <3>2, <3>3
  <2> QED  BY <1>4, <2>1, <2>2
<1>9. \A i, j \in 1 .. l + 1 : i < j => data'[Q[i]].pkt < data'[Q[j]].pkt
  <2> SUFFICES ASSUME NEW i \in 1 .. l + 1, NEW j \in 1 .. l + 1, i < j
               PROVE  data'[Q[i]].pkt < data'[Q[j]].pkt
    OBVIOUS
  <2>1. i \in 1 .. l  BY <1>4
  <2>2. P[i] # m /\ P[i] \in Mbufs  BY <1>2, <1>3, <2>1
  <2>3. data'[Q[i]].pkt = data[P[i]].pkt  BY <1>1, <1>6, <2>1, <2>2
  <2>4. data[P[i]].pkt <= arrived[s] /\ data[P[i]].pkt \in Int
    BY <1>2, <1>3, <2>1, RingAssumption DEF Numbers
  <2>5. CASE j = l + 1
    <3>1. data'[Q[j]].pkt = arrived[s] + 1  BY <1>1, <1>6, <2>5
    <3> QED  BY <1>7, <2>3, <2>4, <3>1
  <2>6. CASE j \in 1 .. l
    <3>1. P[j] # m /\ P[j] \in Mbufs  BY <1>2, <1>3, <2>6
    <3>2. data'[Q[j]].pkt = data[P[j]].pkt  BY <1>1, <1>6, <2>6, <3>1
    <3> QED  BY <1>3, <2>1, <2>3, <2>6, <3>2
  <2> QED  BY <1>4, <2>5, <2>6
<1>10. PathInv(s)'
  <2>1. queue_states[s] = pkt_free[s] + Len(burst[s])  BY DEF MbufInv, PathInv
  <2>2. (queue_states[s] = pkt_free[s] + Len(burst[s]))'  BY <1>1, <2>1
  <2>3. Q = Path(s)' /\ Len(Q) = l + 1  BY <1>6 DEF Q
  <2> QED  BY <1>8, <1>9, <2>2, <2>3 DEF PathInv, Pkt
<1>11. ASSUME NEW r \in Rings, r # s PROVE PathInv(r)'
  <2>1. PathInv(r)  BY DEF MbufInv
  <2>2. Path(r)' = Path(r) /\ arrived'[r] = arrived[r]  BY <1>1, <1>11
  <2>3. \A i \in 1 .. Len(Path(r)) : Path(r)[i] \in Mbufs \ {m}
    BY <1>1, <1>11, <2>1, PathFacts DEF PathInv
  <2>4. \A i \in 1 .. Len(Path(r)) : Pkt(r, i)' = Pkt(r, i)
    BY <1>1, <2>2, <2>3 DEF Pkt
  <2>5. (queue_states[r] = pkt_free[r] + Len(burst[r]))'  BY <1>1, <2>1 DEF PathInv
  <2>6. \A i \in 1 .. Len(Path(r)) : Path(r)[i] \notin pool'
    BY <1>1, <2>1 DEF PathInv
  <2> QED  BY <2>1, <2>2, <2>4, <2>5, <2>6 DEF PathInv
<1>12. ASSUME NEW n \in Mbufs, n \notin pool' PROVE OnPath(n)'
  <2>1. n[1] \in Rings  BY DEF Mbufs
  <2>2. CASE n = m
    <3>1. l + 1 \in 1 .. Len(Q) /\ Q[l + 1] = n  BY <1>4, <1>6, <2>2
    <3>2. Path(n[1])' = Q  BY <1>1, <2>2 DEF Q
    <3> QED  BY <3>1, <3>2 DEF OnPath
  <2>3. CASE n # m
    <3>1. n \notin pool  BY <1>1, <1>12, <2>3
    <3>2. PICK i \in 1 .. Len(Path(n[1])) : Path(n[1])[i] = n
      BY <3>1 DEF MbufInv, NoneLost, OnPath
    <3>3. CASE n[1] = s
      <4>1. i \in 1 .. l /\ P[i] = n  BY <3>2, <3>3 DEF P, l
      <4>2. i \in 1 .. Len(Q) /\ Q[i] = n  BY <1>4, <1>6, <4>1
      <4> QED  BY <3>3, <4>2 DEF OnPath, Q
    <3>4. CASE n[1] # s
      <4>1. Path(n[1])' = Path(n[1])  BY <1>1, <2>1, <3>4
      <4> QED  BY <3>2, <4>1 DEF OnPath
    <3> QED  BY <3>3, <3>4
  <2> QED  BY <2>2, <2>3
<1> QED  BY <1>10, <1>11, <1>12 DEF MbufInv, NoneLost

LEMMA MbufStepFree ==
  ASSUME TypeOK, MbufInv, NEW s \in Rings, Free(s)
  PROVE  MbufInv'
<1>1. /\ Path(s)' = Tail(Path(s)) /\ Path(s) # <<>>
      /\ pool' = pool \cup {Path(s)[1]}
      /\ data' = data /\ arrived' = arrived
      /\ pkt_free'[s] = pkt_free[s] + 1 /\ Len(burst'[s]) = Len(burst[s]) - 1
      /\ \A r \in Rings \ {s} :
           Path(r)' = Path(r) /\ burst'[r] = burst[r] /\ pkt_free'[r] = pkt_free[r]
      /\ queue_states' = queue_states
  BY PathFree
<1> DEFINE P == Path(s)
           l == Len(P)
           Q == Path(s)'
<1>2. P \in Seq(Mbufs) /\ \A i \in 1 .. l : P[i] \in Mbufs
  BY PathFacts
<1>3. \A i \in 1 .. l : P[i][1] = s /\ P[i] \notin pool
  BY DEF MbufInv, PathInv
<1>4. \A i \in 1 .. l : P[i] = P[1] => i = 1
  <2>1. PathInv(s)  BY DEF MbufInv
  <2> QED  BY <2>1, PathInjective
<1> HIDE DEF P
<1>5. l \in Nat \ {0}  BY <1>1, <1>2, EmptySeq DEF P
<1>6. Len(Q) = l - 1 /\ \A i \in 1 .. l - 1 : Q[i] = P[i + 1]
  BY <1>1, <1>2, HeadTailProperties DEF P
<1> HIDE DEF l, Q
<1>7. pool' = pool \cup {P[1]}  BY <1>1 DEF P
<1>8. PathInv(s)'
  <2>1. \A i \in 1 .. l - 1 : Q[i][1] = s /\ Q[i] \notin pool'
    BY <1>3, <1>4, <1>5, <1>6, <1>7
  <2>2. \A i \in 1 .. l : data[P[i]].pkt <= arrived[s]
    BY DEF MbufInv, PathInv, Pkt, P, l
  <2>3. \A i \in 1 .. l - 1 : data'[Q[i]].pkt <= arrived'[s]
    BY <1>1, <1>5, <1>6, <2>2
  <2>4. \A i, j \in 1 .. l : i < j => data[P[i]].pkt < data[P[j]].pkt
    BY DEF MbufInv, PathInv, Pkt, P, l
  <2>5. \A i, j \in 1 .. l - 1 : i < j => data'[Q[i]].pkt < data'[Q[j]].pkt
    BY <1>1, <1>5, <1>6, <2>4, SMTT(20)
  <2>6. (queue_states[s] = pkt_free[s] + Len(burst[s]))'
    <3>1. queue_states[s] = pkt_free[s] + Len(burst[s])  BY DEF MbufInv, PathInv
    <3>2. pkt_free[s] \in Nat /\ Len(burst[s]) \in Nat  BY PathFacts DEF TypeOK
    <3>3. pkt_free[s] + Len(burst[s]) = (pkt_free[s] + 1) + (Len(burst[s]) - 1)  BY <3>2
    <3> QED  BY <1>1, <3>1, <3>3
  <2>7. Q = Path(s)' /\ Len(Q) = l - 1  BY <1>6 DEF Q
  <2> QED  BY <2>1, <2>3, <2>5, <2>6, <2>7 DEF PathInv, Pkt
<1>9. ASSUME NEW r \in Rings, r # s PROVE PathInv(r)'
  <2>1. PathInv(r)  BY DEF MbufInv
  <2>2. /\ Path(r)' = Path(r) /\ burst'[r] = burst[r] /\ pkt_free'[r] = pkt_free[r]
        /\ \A i \in 1 .. Len(Path(r)) : Pkt(r, i)' = Pkt(r, i)
    BY <1>1, <1>9 DEF Pkt
  <2>3. P[1][1] = s  BY <1>3, <1>5
  <2>4. \A i \in 1 .. Len(Path(r)) : Path(r)[i] \notin pool'
    BY <1>7, <1>9, <2>1, <2>3 DEF PathInv
  <2> QED  BY <1>1, <2>1, <2>2, <2>4 DEF PathInv
<1>10. ASSUME NEW n \in Mbufs, n \notin pool' PROVE OnPath(n)'
  <2>1. n[1] \in Rings  BY DEF Mbufs
  <2>2. n \notin pool /\ n # P[1]  BY <1>7, <1>10
  <2>3. PICK i \in 1 .. Len(Path(n[1])) : Path(n[1])[i] = n
    BY <2>2 DEF MbufInv, NoneLost, OnPath
  <2>4. CASE n[1] = s
    <3>1. i \in 1 .. l /\ P[i] = n  BY <2>3, <2>4 DEF P, l
    <3>2. i # 1  BY <2>2, <3>1
    <3>3. i - 1 \in 1 .. l - 1 /\ Q[i - 1] = P[(i - 1) + 1] /\ (i - 1) + 1 = i
      BY <1>5, <1>6, <3>1, <3>2
    <3>4. i - 1 \in 1 .. Len(Q) /\ Q[i - 1] = n  BY <1>6, <3>1, <3>3
    <3> QED  BY <2>4, <3>4 DEF OnPath, Q
  <2>5. CASE n[1] # s
    <3>1. Path(n[1])' = Path(n[1])  BY <1>1, <2>1, <2>5
    <3> QED  BY <2>3, <3>1 DEF OnPath
  <2> QED  BY <2>4, <2>5
<1> QED  BY <1>8, <1>9, <1>10 DEF MbufInv, NoneLost

LEMMA MbufStep ==
  ASSUME TypeOK, MbufInv, [Next]_vars
  PROVE  MbufInv'
<1>1. CASE \A s \in Rings : ~Arrive(s) /\ ~Free(s)
  <2>1. \A r \in Rings : /\ Path(r)' = Path(r)
                         /\ (queue_states[r] = pkt_free[r] + Len(burst[r]))'
    BY <1>1, PathSame DEF MbufInv, PathInv
  <2>2. ASSUME NEW r \in Rings PROVE PathInv(r)'
    <3>1. PathInv(r) /\ pool' = pool /\ data' = data /\ arrived' = arrived
      BY <1>1, PathSame DEF MbufInv
    <3> QED  BY <2>1, <3>1 DEF PathInv, Pkt
  <2>3. ASSUME NEW n \in Mbufs, n \notin pool' PROVE OnPath(n)'
    <3>1. n[1] \in Rings  BY DEF Mbufs
    <3>2. OnPath(n)  BY <1>1, <2>3, <3>1, PathSame DEF MbufInv, NoneLost
    <3> QED  BY <2>1, <3>1, <3>2 DEF OnPath
  <2> QED  BY <2>2, <2>3 DEF MbufInv, NoneLost
<1> QED  BY <1>1, MbufStepArrive, MbufStepFree
Held(s) == {s[i] : i \in DOMAIN s}

LEMMA HeldOnPath ==
  ASSUME TypeOK, NEW r \in Rings, PathInv(r)
  PROVE  /\ \A m \in Held(nic[r]) \cup Held(burst[r]) : m[1] = r /\ m \notin pool
         /\ Held(nic[r]) \cap Held(burst[r]) = {}
         /\ \A i \in 1 .. Len(Path(r)) : Path(r)[i] \in Held(nic[r]) \cup Held(burst[r])
<1> DEFINE B == burst[r]
           N == nic[r]
           P == Path(r)
           b == Len(B)
           n == Len(N)
<1>1. /\ b \in Nat /\ n \in Nat /\ Len(P) = b + n
      /\ DOMAIN B = 1 .. b /\ DOMAIN N = 1 .. n
  <2>1. B \in Seq(Mbufs) /\ N \in Seq(Mbufs)  BY PathFacts
  <2> HIDE DEF B, N
  <2>2. b \in Nat /\ n \in Nat /\ DOMAIN B = 1 .. b /\ DOMAIN N = 1 .. n
    BY <2>1, LenProperties
  <2> QED  BY <2>2, PathFacts DEF B, N
<1>2. \A i \in 1 .. Len(P) : P[i] = IF i <= b THEN B[i] ELSE N[i - b]
  BY PathFacts
<1>3. \A i \in 1 .. Len(P) : P[i][1] = r /\ P[i] \notin pool
  BY DEF PathInv
<1>4. \A i, j \in 1 .. Len(P) : P[i] = P[j] => i = j
  BY PathInjective
<1> HIDE DEF B, N, P, b, n
<1>5. \A i \in 1 .. b : i \in 1 .. Len(P) /\ B[i] = P[i]
  BY <1>1, <1>2
<1>6. \A i \in 1 .. n : b + i \in 1 .. Len(P) /\ N[i] = P[b + i]
  <2> TAKE i \in 1 .. n
  <2> DEFINE j == b + i
  <2>1. j \in 1 .. Len(P) /\ ~(j <= b) /\ j - b = i  BY <1>1
  <2> HIDE DEF j
  <2>2. P[j] = N[i]  BY <1>2, <2>1
  <2> QED  BY <2>1, <2>2 DEF j
<1>7. Held(B) = {B[i] : i \in 1 .. b} /\ Held(N) = {N[i] : i \in 1 .. n}
  BY <1>1 DEF Held
<1>8. \A m \in Held(N) \cup Held(B) : m[1] = r /\ m \notin pool
  BY <1>3, <1>5, <1>6, <1>7
<1>9. ASSUME NEW m \in Held(N), m \in Held(B) PROVE FALSE
  <2>1. PICK i \in 1 .. n : m = N[i]  BY <1>7, <1>9
  <2>2. PICK j \in 1 .. b : m = B[j]  BY <1>7, <1>9
  <2>3. b + i \in 1 .. Len(P) /\ j \in 1 .. Len(P) /\ P[b + i] = P[j]
    BY <1>5, <1>6, <2>1, <2>2
  <2>4. b + i = j  BY <1>4, <2>3
  <2> QED  BY <1>1, <2>4
<1>10. \A i \in 1 .. Len(P) : P[i] \in Held(N) \cup Held(B)
  <2> TAKE i \in 1 .. Len(P)
  <2>1. CASE i <= b
    <3>1. i \in 1 .. b  BY <1>1, <2>1
    <3> QED  BY <1>5, <1>7, <3>1
  <2>2. CASE ~(i <= b)
    <3>1. i - b \in 1 .. n  BY <1>1, <2>2
    <3>2. P[i] = N[i - b]  BY <1>2, <2>2
    <3> QED  BY <1>7, <3>1, <3>2
  <2> QED  BY <2>1, <2>2
<1> QED  BY <1>8, <1>9, <1>10 DEF B, N, P

\* Every mbuf is at exactly one place, whatever the interleaving: no mempool
\* ever runs dry for good, and no mbuf is received into twice.
THEOREM NoMbufLeaks == Spec => []MbufsConserved
<1>1. TypeOK /\ MbufInv => MbufsConserved
  <2> SUFFICES ASSUME TypeOK, MbufInv PROVE MbufsConserved
    OBVIOUS
  <2>1. \A r \in Rings : PathInv(r)  BY DEF MbufInv
  <2>2. \A r \in Rings : \A m \in Held(nic[r]) \cup Held(burst[r]) : m[1] = r /\ m \notin pool
    BY <2>1, HeldOnPath
  <2>3. ASSUME NEW m \in Mbufs
        PROVE  Cardinality({r \in Rings : m \in Held(nic[r])})
                 + Cardinality({r \in Rings : m \in Held(burst[r])})
                 + (IF m \in pool THEN 1 ELSE 0) = 1
    <3> DEFINE N == {r \in Rings : m \in Held(nic[r])}
               B == {r \in Rings : m \in Held(burst[r])}
    <3>1. N \subseteq {m[1]} /\ B \subseteq {m[1]} /\ m[1] \in Rings
      BY <2>2 DEF Mbufs
    <3>2. Cardinality({}) = 0 /\ Cardinality({m[1]}) = 1
      BY FS_EmptySet, FS_Singleton
    <3>3. CASE m \in pool
      <4>1. N = {} /\ B = {}  BY <2>2, <3>3
      <4> QED  BY <3>2, <3>3, <4>1
    <3>4. CASE m \notin pool
      <4>1. PICK i \in 1 .. Len(Path(m[1])) : Path(m[1])[i] = m
        BY <3>4 DEF MbufInv, NoneLost, OnPath
      <4>2. m \in Held(nic[m[1]]) \cup Held(burst[m[1]])
        BY <2>1, <3>1, <4>1, HeldOnPath
      <4>3. m \notin Held(nic[m[1]]) \/ m \notin Held(burst[m[1]])
        BY <2>1, <3>1, HeldOnPath
      <4>4. \/ N = {m[1]} /\ B = {}
            \/ N = {} /\ B = {m[1]}
        BY <3>1, <4>2, <4>3
      <4> HIDE DEF N, B
      <4>5. \/ Cardinality(N) = 1 /\ Cardinality(B) = 0
            \/ Cardinality(N) = 0 /\ Cardinality(B) = 1
        BY <3>2, <4>4, Zenon
      <4> QED  BY <3>4, <4>5 DEF N, B
    <3> QED  BY <3>3, <3>4
  <2>4. \A r \in Rings : queue_states[r] = pkt_free[r] + Len(burst[r])
    BY <2>1 DEF PathInv
  <2> QED  BY <2>2, <2>3, <2>4 DEF MbufsConserved, Held
<1>2. TypeOK /\ MbufInv /\ [Next]_vars => MbufInv'  BY MbufStep
<1> QED  BY RingTypes, MbufInit, <1>1, <1>2, PTL DEF Spec
-----------------------------------------------------------------------------
(* The way of a packet through its ring.                                   *)

\* What the indices and the process lcores say about ring r.
LEMMA RingFacts ==
  ASSUME RingInv, NEW r \in Rings
  PROVE  /\ ring[r] \in Slots /\ occupy[r] \in RingSlots /\ deque[r] \in RingSlots
         /\ Taken(r) \in {0, 1} /\ Taken(r) <= Filled(BufferLen, occupy[r], deque[r])
<1>1. ring[r] \in Slots /\ occupy[r] \in RingSlots /\ deque[r] \in RingSlots
  BY DEF RingInv, TypeOK, Slots
<1>2. Taken(r) = 1 => occupy[r] # deque[r]
  BY DEF Taken, RingInv
<1>3. Filled(BufferLen, occupy[r], deque[r]) \in Nat
  BY <1>1, RingIndex, FilledFacts, RingAssumption
<1>4. Filled(BufferLen, occupy[r], deque[r]) = 0 <=> occupy[r] = deque[r]
  BY <1>1, RingIndex, FilledFacts
<1>5. Taken(r) \in {0, 1}  BY DEF Taken
<1> QED  BY <1>1, <1>2, <1>3, <1>4, <1>5

LEMMA WaitingType ==
  ASSUME RingInv, NEW r \in Rings
  PROVE  Waiting(r) \in Seq(Numbers)
  BY RingFacts, WaitingInFacts, WaitingDef

\* Publish is the step with which a packet enters the queue of its ring ...
LEMMA WaitingPublish ==
  ASSUME RingInv, NEW r \in Rings, Publish(r)
  PROVE  /\ Waiting(r)' = Append(Waiting(r), ring[r][occupy[r]].now)
         /\ Len(Waiting(r)) < BufferLen - 1
         /\ got' = got
<1>1. /\ ring' = ring /\ deque' = deque /\ got' = got
      /\ occupy'[r] = (occupy[r] + 1) % BufferLen /\ Taken(r)' = Taken(r)
  BY DEF RingInv, TypeOK, Publish, prVars, Taken, Reading
<1>2. (occupy[r] + 1) % BufferLen # deque[r]
  BY DEF RingInv, RxInv, HasRoom, Publish
<1>3. /\ WaitingIn(ring[r], (occupy[r] + 1) % BufferLen, deque[r], Taken(r))
           = Append(WaitingIn(ring[r], occupy[r], deque[r], Taken(r)), ring[r][occupy[r]].now)
      /\ Len(WaitingIn(ring[r], occupy[r], deque[r], Taken(r))) < BufferLen - 1
  BY <1>2, RingFacts, WaitingAppend
<1> QED  BY <1>1, <1>3, WaitingDef

\* ... and Parse the one with which it leaves: the oldest, once.
LEMMA WaitingParse ==
  ASSUME RingInv, NEW p \in Procs, NEW r \in Rings, Parse(p), cur[p] = r
  PROVE  /\ Waiting(r) # <<>>
         /\ Waiting(r)' = Tail(Waiting(r))
         /\ got'[r].now = Head(Waiting(r))
<1>1. TypeOK /\ Reading(p, r) /\ occupy[r] # deque[r]
  BY DEF RingInv, Reading, Parse
<1>2. Taken(r) = 0
  <2>1. \A q \in Procs : Reading(q, r) => q = p  BY <1>1, OneReader
  <2> QED  BY <2>1 DEF Taken, Parse
<1>3. Taken(r)' = 1
  <2>1. ppc'[p] = "deque" /\ cur' = cur  BY <1>1 DEF Parse, TypeOK
  <2> QED  BY <2>1 DEF Taken, Reading
<1>4. /\ ring' = ring /\ deque' = deque /\ occupy' = occupy
      /\ got'[r].now = ring[r][deque[r]].now
  BY <1>1 DEF Parse, TypeOK, ringVars
<1>5. /\ WaitingIn(ring[r], occupy[r], deque[r], 0) # <<>>
      /\ Head(WaitingIn(ring[r], occupy[r], deque[r], 0)) = ring[r][deque[r]].now
      /\ WaitingIn(ring[r], occupy[r], deque[r], 1) = Tail(WaitingIn(ring[r], occupy[r], deque[r], 0))
  BY <1>1, RingFacts, WaitingTail
<1> QED  BY <1>2, <1>3, <1>4, <1>5, WaitingDef

\* Every other step leaves the queue of ring r and its last packet alone.
LEMMA WaitingSame ==
  ASSUME RingInv, [Next]_vars, NEW r \in Rings, ~Publish(r),
         \A p \in Procs : ~(Parse(p) /\ cur[p] = r)
  PROVE  Waiting(r)' = Waiting(r) /\ got'[r] = got[r]
<1> USE DEF ringVars, rxVars, prVars, extVars
<1>0. TypeOK /\ RxInv(r)  BY DEF RingInv
<1>1. CASE UNCHANGED <<ring[r], occupy[r], deque[r], Taken(r), got[r]>>
  BY <1>1, WaitingDef
<1>2. CASE UNCHANGED vars
  <2>1. Taken(r)' = Taken(r)  BY <1>2 DEF vars, Taken, Reading
  <2> QED  BY <1>1, <1>2, <2>1 DEF vars
<1>3. ASSUME NEW s \in Rings, Arrive(s) \/ RxLcore(s) PROVE UNCHANGED <<Taken(r), got[r]>>
  <2>1. UNCHANGED <<ppc, cur, got>>
    BY <1>3 DEF Arrive, RxLcore, Launch, Alloc, RxBurst, Examine, Store, Publish, Free
  <2> QED  BY <2>1 DEF Taken, Reading
<1>4. ASSUME NEW s \in Rings, Arrive(s) \/ Launch(s) \/ RxBurst(s) \/ Examine(s) \/ Free(s)
      PROVE  UNCHANGED <<ring[r], occupy[r], deque[r]>>
  BY <1>4 DEF Arrive, Launch, RxBurst, Examine, Free
<1>5. ASSUME NEW s \in Rings, Alloc(s) PROVE UNCHANGED <<ring[r], occupy[r], deque[r]>>
  <2>1. RxInv(s)  BY DEF RingInv
  <2>2. occupy[s] = 0 /\ deque[s] = 0  BY <1>5, <2>1 DEF RxInv, Alloc
  <2> QED  BY <1>0, <1>5, <2>2 DEF Alloc, TypeOK
<1>6. ASSUME NEW s \in Rings, s # r, Store(s) \/ Publish(s)
      PROVE  UNCHANGED <<ring[r], occupy[r], deque[r]>>
  BY <1>0, <1>6 DEF Store, Publish, TypeOK
<1>7. ASSUME Store(r) PROVE Waiting(r)' = Waiting(r)
  <2>1. /\ occupy' = occupy /\ deque' = deque /\ Taken(r)' = Taken(r)
        /\ \A i \in RingSlots \ {occupy[r]} : ring'[r][i] = ring[r][i]
    BY <1>0, <1>7 DEF Store, TypeOK, Taken, Reading
  <2>2. ring'[r] \in Slots
    <3>1. TypeOK'  BY TypeStep
    <3> QED  BY <3>1 DEF TypeOK, Slots
  <2>3. WaitingIn(ring'[r], occupy[r], deque[r], Taken(r))
          = WaitingIn(ring[r], occupy[r], deque[r], Taken(r))
    BY <2>1, <2>2, RingFacts, WaitingStore
  <2> QED  BY <2>1, <2>3, WaitingDef
<1>8. ASSUME NEW s \in Rings, Arrive(s) \/ RxLcore(s) PROVE Waiting(r)' = Waiting(r) /\ got'[r] = got[r]
  BY <1>1, <1>3, <1>4, <1>5, <1>6, <1>7, <1>8 DEF RxLcore
<1>9. ASSUME NEW p \in Procs, Skip(p) \/ Take(p)
      PROVE  UNCHANGED <<ring[r], occupy[r], deque[r], Taken(r), got[r]>>
  <2>1. UNCHANGED <<ring, occupy, deque, got>>  BY <1>9 DEF Skip, Take
  <2>2. \A q \in Procs : (Reading(q, r) /\ ppc[q] = "deque")' <=> Reading(q, r) /\ ppc[q] = "deque"
    BY <1>0, <1>9 DEF TypeOK, Skip, Take, Reading
  <2> QED  BY <2>1, <2>2 DEF Taken
<1>10. ASSUME NEW p \in Procs, Parse(p) \/ Dequeue(p), cur[p] # r
       PROVE  UNCHANGED <<ring[r], occupy[r], deque[r], Taken(r), got[r]>>
  <2>1. UNCHANGED <<ring[r], occupy[r], deque[r], got[r]>>
    <3>1. cur[p] \in Rings  BY <1>0, <1>10, ReadingServed DEF Parse, Dequeue
    <3> QED  BY <1>0, <1>10, <3>1 DEF Parse, Dequeue, TypeOK
  <2>2. \A q \in Procs : (Reading(q, r) /\ ppc[q] = "deque")' <=> Reading(q, r) /\ ppc[q] = "deque"
    BY <1>0, <1>10 DEF TypeOK, Parse, Dequeue, Reading
  <2> QED  BY <2>1, <2>2 DEF Taken
<1>11. ASSUME NEW p \in Procs, Dequeue(p), cur[p] = r
       PROVE  Waiting(r)' = Waiting(r) /\ got'[r] = got[r]
  <2>1. Reading(p, r) /\ occupy[r] # deque[r]
    BY <1>11 DEF Dequeue, Reading, RingInv
  <2>2. Taken(r) = 1  BY <1>11 DEF Taken, Dequeue, Reading
  <2>3. Taken(r)' = 0
    <3>1. \A q \in Procs : Reading(q, r) => q = p  BY <1>0, <2>1, OneReader
    <3>2. \A q \in Procs : q # p => ppc'[q] = ppc[q] /\ cur'[q] = cur[q]
      BY <1>0, <1>11 DEF Dequeue, TypeOK
    <3>3. ppc'[p] = "test"  BY <1>0, <1>11 DEF Dequeue, TypeOK
    <3> QED  BY <3>1, <3>2, <3>3 DEF Taken, Reading
  <2>4. /\ ring' = ring /\ occupy' = occupy /\ got' = got
        /\ deque'[r] = (deque[r] + 1) % BufferLen
    BY <1>0, <1>11 DEF Dequeue, TypeOK
  <2>5. WaitingIn(ring[r], occupy[r], (deque[r] + 1) % BufferLen, 0)
          = WaitingIn(ring[r], occupy[r], deque[r], 1)
    BY <2>1, RingFacts, WaitingDequeue
  <2> QED  BY <2>2, <2>3, <2>4, <2>5, WaitingDef
<1>12. ASSUME NEW p \in Procs, ProcessLcore(p) PROVE Waiting(r)' = Waiting(r) /\ got'[r] = got[r]
  BY <1>1, <1>9, <1>10, <1>11, <1>12 DEF ProcessLcore
<1> QED  BY <1>2, <1>8, <1>12 DEF Next
-----------------------------------------------------------------------------
(* Order: the packets of a ring that are parsed or wait are older than     *)
(* those their RX lcore still has to publish.                              *)

\* What ring r has taken and not handed on, and what it handed on last.
Passed(r) == {got[r].now} \cup {Waiting(r)[k] : k \in 1 .. Len(Waiting(r))}

OrderInv(r) ==
  /\ InOrder(Waiting(r), got[r].now)
  /\ \A n \in Passed(r) : n <= arrived[r]
  /\ \A n \in Passed(r) : \A i \in 1 .. Len(Path(r)) :
       n < Pkt(r, i) \/ (i = 1 /\ rxpc[r] = "free" /\ n = Pkt(r, i))
  /\ rxpc[r] = "publish" => ring[r][occupy[r]].now = Pkt(r, 1)

FifoInv == MbufInv /\ \A r \in Rings : OrderInv(r)

LEMMA PassedTypes ==
  ASSUME RingInv, NEW r \in Rings
  PROVE  Passed(r) \subseteq Numbers /\ got[r].now \in Numbers
<1>1. \A k \in 1 .. Len(Waiting(r)) : Waiting(r)[k] \in Numbers
  BY WaitingType, ElementOfSeq
<1>2. got[r].now \in Numbers  BY DEF RingInv, TypeOK
<1> QED  BY <1>1, <1>2 DEF Passed

LEMMA OrderInit == Init => FifoInv
<1> SUFFICES ASSUME Init, NEW r \in Rings PROVE OrderInv(r)
  BY MbufInit DEF FifoInv
<1>1. RingInv  BY InitInv
<1>2. Taken(r) = 0 /\ occupy[r] = 0 /\ deque[r] = 0 /\ got[r].now = 0 /\ arrived[r] = 0
      /\ rxpc[r] = "launch"
  BY DEF Init, Taken, Reading
<1>3. Len(Waiting(r)) = 0
  <2>1. Filled(BufferLen, 0, 0) = 0  BY DEF Filled
  <2>2. /\ ring[r] \in Slots /\ 0 \in RingSlots /\ 0 \in {0, 1} /\ 0 <= Filled(BufferLen, 0, 0)
    BY <1>1, <1>2, <2>1, RingFacts
  <2>3. Len(WaitingIn(ring[r], 0, 0, 0)) = Filled(BufferLen, 0, 0) - 0
    BY <2>2, WaitingInFacts
  <2> QED  BY <1>2, <2>1, <2>3, WaitingDef
<1>4. Len(Path(r)) = 0
  <2>1. <<>> \in Seq(Mbufs) /\ Len(<<>>) = 0  OBVIOUS
  <2>2. <<>> \o <<>> = <<>>  BY <2>1, ConcatEmptySeq
  <2> QED  BY <2>1, <2>2 DEF Path, Init
<1>5. 1 .. Len(Waiting(r)) = {} /\ 1 .. Len(Path(r)) = {}  BY <1>3, <1>4
<1>6. Passed(r) = {0}  BY <1>2, <1>5 DEF Passed
<1> QED  BY <1>2, <1>5, <1>6 DEF OrderInv, InOrder

\* But for an arrival and a free of its own, path r keeps its packets.
LEMMA PathOther ==
  ASSUME TypeOK, MbufInv, [Next]_vars, NEW r \in Rings, ~Arrive(r), ~Free(r)
  PROVE  /\ Path(r)' = Path(r) /\ arrived'[r] = arrived[r]
         /\ \A i \in 1 .. Len(Path(r)) : Pkt(r, i)' = Pkt(r, i)
<1>1. CASE \A s \in Rings : ~Arrive(s) /\ ~Free(s)
  BY <1>1, PathSame DEF Pkt
<1>2. ASSUME NEW s \in Rings, Free(s)
      PROVE  Path(r)' = Path(r) /\ arrived' = arrived /\ data' = data
  <2>1. s # r  BY <1>2
  <2> QED  BY <1>2, <2>1, PathFree
<1>3. ASSUME NEW s \in Rings, Arrive(s)
      PROVE  /\ Path(r)' = Path(r) /\ arrived'[r] = arrived[r]
             /\ \A i \in 1 .. Len(Path(r)) : Pkt(r, i)' = Pkt(r, i)
  <2>1. s # r  BY <1>3
  <2>2. PICK m \in pool :
          /\ m[1] = s
          /\ \A n \in Mbufs \ {m} : data'[n] = data[n]
          /\ \A t \in Rings \ {s} : Path(t)' = Path(t) /\ arrived'[t] = arrived[t]
    BY <1>3, PathArrive
  <2>3. \A i \in 1 .. Len(Path(r)) : Path(r)[i] \in Mbufs \ {m}
    <3>1. PathInv(r)  BY DEF MbufInv
    <3> QED  BY <2>2, <3>1, PathFacts DEF PathInv
  <2>4. Path(r)' = Path(r) /\ arrived'[r] = arrived[r]  BY <2>1, <2>2
  <2> QED  BY <2>2, <2>3, <2>4 DEF Pkt
<1> QED  BY <1>1, <1>2, <1>3 DEF Pkt

LEMMA OrderPublish ==
  ASSUME RingInv, MbufInv, NEW r \in Rings, OrderInv(r), Publish(r)
  PROVE  /\ OrderInv(r)'
         /\ \A n \in Passed(r) : n < ring[r][occupy[r]].now
         /\ ring[r][occupy[r]].now \in Numbers
<1> DEFINE x == ring[r][occupy[r]].now
<1>0. TypeOK  BY DEF RingInv
<1>1. /\ rxpc[r] = "publish" /\ rxpc'[r] = "free"
      /\ UNCHANGED <<burst, nic, data, arrived, got>>
  BY <1>0 DEF Publish, TypeOK, extVars, prVars
<1>2. Path(r)' = Path(r) /\ \A i : Pkt(r, i)' = Pkt(r, i)
  BY <1>1 DEF Path, Pkt
<1>3. x = Pkt(r, 1)  BY <1>1 DEF OrderInv
<1>4. Len(Path(r)) \in Nat /\ 1 \in 1 .. Len(Path(r))
  <2>1. Len(Path(r)) >= 1  BY <1>0, <1>1, PathHead
  <2>2. Len(Path(r)) \in Nat  BY <1>0, PathFacts, LenProperties
  <2> QED  BY <2>1, <2>2
<1>5. x \in Numbers  BY <1>0, <1>3, <1>4, PathFacts
<1> HIDE DEF x
<1>6. \A n \in Passed(r) : n < x
  BY <1>1, <1>3, <1>4 DEF OrderInv
<1>7. PathInv(r)  BY DEF MbufInv
<1>8. x <= arrived[r]  BY <1>3, <1>4, <1>7 DEF PathInv
<1>9. Waiting(r)' = Append(Waiting(r), x)  BY WaitingPublish DEF x
<1>10. InOrder(Waiting(r), got[r].now)'
  <2>1. Waiting(r) \in Seq(Numbers) /\ got[r].now \in Numbers  BY WaitingType, PassedTypes
  <2>2. got[r].now < x /\ \A k \in 1 .. Len(Waiting(r)) : Waiting(r)[k] < x
    BY <1>6 DEF Passed
  <2>3. InOrder(Append(Waiting(r), x), got[r].now)
    BY <1>5, <2>1, <2>2, InOrderAppend DEF OrderInv
  <2> QED  BY <1>1, <1>9, <2>3 DEF InOrder
<1>11. Passed(r)' \subseteq Passed(r) \cup {x}
  <2> DEFINE w == Waiting(r)
             v == Append(w, x)
  <2>1. w \in Seq(Numbers)  BY WaitingType
  <2> HIDE DEF w
  <2>2. Len(w) \in Nat  BY <2>1, LenProperties
  <2>3. Len(v) = Len(w) + 1 /\ v[Len(w) + 1] = x /\ \A k \in 1 .. Len(w) : v[k] = w[k]
    BY <1>5, <2>1, AppendProperties
  <2> HIDE DEF v
  <2>4. {v[k] : k \in 1 .. Len(v)} \subseteq {w[k] : k \in 1 .. Len(w)} \cup {x}
    <3>1. \A k \in 1 .. Len(w) + 1 : k \in 1 .. Len(w) \/ k = Len(w) + 1  BY <2>2
    <3> QED  BY <2>3, <3>1
  <2>5. Waiting(r)' = v /\ got' = got  BY <1>1, <1>9 DEF v, w
  <2> QED  BY <2>4, <2>5 DEF Passed, w
<1>12. \A n \in Passed(r) \cup {x} : n <= arrived'[r]
  BY <1>1, <1>8 DEF OrderInv
<1>13. \A n \in Passed(r) \cup {x} : \A i \in 1 .. Len(Path(r)) :
         n < Pkt(r, i) \/ (i = 1 /\ n = Pkt(r, i))
  <2>1. \A n \in Passed(r) : \A i \in 1 .. Len(Path(r)) : n < Pkt(r, i)
    BY <1>1 DEF OrderInv
  <2>2. \A i \in 1 .. Len(Path(r)) : i = 1 \/ 1 < i
    BY <1>4
  <2>3. \A i \in 1 .. Len(Path(r)) : x < Pkt(r, i) \/ (i = 1 /\ x = Pkt(r, i))
    BY <1>3, <1>4, <1>7, <2>2 DEF PathInv
  <2> QED  BY <2>1, <2>3
<1>14. OrderInv(r)'
  BY <1>1, <1>2, <1>10, <1>11, <1>12, <1>13, SMTT(20) DEF OrderInv
<1> QED  BY <1>5, <1>6, <1>14 DEF x

LEMMA OrderParse ==
  ASSUME RingInv, NEW p \in Procs, NEW r \in Rings, OrderInv(r), Parse(p), cur[p] = r
  PROVE  OrderInv(r)'
<1> DEFINE w == Waiting(r)
           v == Waiting(r)'
           h == got'[r].now
<1>1. UNCHANGED <<burst, nic, data, arrived, rxpc, ring, occupy>>
  BY DEF Parse, rxVars, extVars, ringVars
<1>2. Path(r)' = Path(r) /\ \A i : Pkt(r, i)' = Pkt(r, i)
  BY <1>1 DEF Path, Pkt
<1>3. w \in Seq(Numbers) /\ w # <<>> /\ v = Tail(w) /\ h = Head(w)
  BY WaitingType, WaitingParse
<1>4. InOrder(w, got[r].now)  BY DEF OrderInv
<1> HIDE DEF w
<1>5. InOrder(v, h)
  <2>1. InOrder(Tail(w), Head(w))  BY <1>3, <1>4, InOrderTail
  <2> QED  BY <1>3, <2>1
<1>6. {h} \cup {v[k] : k \in 1 .. Len(v)} \subseteq {w[k] : k \in 1 .. Len(w)}
  <2>1. Len(w) \in Nat \ {0}  BY <1>3, EmptySeq
  <2>2. Len(v) = Len(w) - 1 /\ (\A k \in 1 .. Len(v) : v[k] = w[k + 1]) /\ h = w[1]
    BY <1>3, HeadTailProperties
  <2> HIDE DEF v, h
  <2>3. 1 \in 1 .. Len(w) /\ \A k \in 1 .. Len(v) : k + 1 \in 1 .. Len(w)
    BY <2>1, <2>2
  <2> QED  BY <2>2, <2>3
<1>7. Passed(r)' \subseteq Passed(r)
  BY <1>6 DEF Passed, w
<1> QED  BY <1>1, <1>2, <1>5, <1>7 DEF OrderInv, InOrder

LEMMA OrderArrive ==
  ASSUME RingInv, MbufInv, NEW r \in Rings, OrderInv(r), Arrive(r),
         Waiting(r)' = Waiting(r), got'[r] = got[r]
  PROVE  OrderInv(r)'
<1> DEFINE P == Path(r)
           l == Len(P)
           Q == Path(r)'
<1>0. TypeOK  BY DEF RingInv
<1>1. PICK m \in pool :
        /\ m \in Mbufs /\ Path(r)' = Append(Path(r), m)
        /\ data'[m].pkt = arrived[r] + 1 /\ arrived'[r] = arrived[r] + 1
        /\ \A n \in Mbufs \ {m} : data'[n] = data[n]
  BY <1>0, PathArrive
<1>2. P \in Seq(Mbufs) /\ \A i \in 1 .. l : P[i] \in Mbufs
  BY <1>0, PathFacts
<1>3. \A i \in 1 .. l : P[i] \notin pool
  BY DEF MbufInv, PathInv
<1>4. l \in Nat  BY <1>2, LenProperties
<1>5. UNCHANGED <<rxpc, ring, occupy>> /\ arrived[r] \in Nat
  BY <1>0, RingAssumption DEF Arrive, rxVars, ringVars, TypeOK, Numbers
<1> HIDE DEF P
<1>6. Len(Q) = l + 1 /\ Q[l + 1] = m /\ \A i \in 1 .. l : Q[i] = P[i]
  BY <1>1, <1>2, AppendProperties DEF P
<1> HIDE DEF l, Q
<1>7. \A i \in 1 .. l : data'[Q[i]].pkt = data[P[i]].pkt
  BY <1>1, <1>2, <1>3, <1>6
<1>8. \A n \in Passed(r) : n \in Int /\ n <= arrived[r]
  BY PassedTypes, RingAssumption DEF OrderInv, Numbers
<1>9. \A n \in Passed(r) : \A i \in 1 .. l + 1 :
        n < data'[Q[i]].pkt \/ (i = 1 /\ rxpc[r] = "free" /\ n = data'[Q[i]].pkt)
  <2> TAKE n \in Passed(r)
  <2> TAKE i \in 1 .. l + 1
  <2>1. CASE i \in 1 .. l
    <3>1. n < data[P[i]].pkt \/ (i = 1 /\ rxpc[r] = "free" /\ n = data[P[i]].pkt)
      BY <2>1 DEF OrderInv, Pkt, P, l
    <3> QED  BY <1>7, <2>1, <3>1
  <2>2. CASE i = l + 1
    BY <1>1, <1>5, <1>6, <1>8, <2>2
  <2> QED  BY <1>4, <2>1, <2>2
<1>10. rxpc[r] = "publish" => ring[r][occupy[r]].now = data'[Q[1]].pkt
  <2> SUFFICES ASSUME rxpc[r] = "publish" PROVE ring[r][occupy[r]].now = data'[Q[1]].pkt
    OBVIOUS
  <2>1. ring[r][occupy[r]].now = data[P[1]].pkt  BY DEF OrderInv, Pkt, P
  <2>2. l >= 1  BY <1>0, PathHead DEF l, P
  <2> QED  BY <1>4, <1>7, <2>1, <2>2
<1>11. Passed(r)' = Passed(r)  BY DEF Passed
<1>12. \A n \in Passed(r) : n <= arrived'[r]  BY <1>1, <1>5, <1>8
<1>13. Q = Path(r)' /\ Len(Q) = l + 1  BY <1>6 DEF Q
<1>14. InOrder(Waiting(r), got[r].now)'  BY DEF OrderInv, InOrder
<1>15. rxpc' = rxpc /\ ring' = ring /\ occupy' = occupy  BY <1>5
<1> QED  BY <1>9, <1>10, <1>11, <1>12, <1>13, <1>14, <1>15 DEF OrderInv, Pkt

LEMMA OrderFree ==
  ASSUME RingInv, MbufInv, NEW r \in Rings, OrderInv(r), Free(r),
         Waiting(r)' = Waiting(r), got'[r] = got[r]
  PROVE  OrderInv(r)'
<1> DEFINE P == Path(r)
           l == Len(P)
           Q == Path(r)'
<1>0. TypeOK  BY DEF RingInv
<1>1. Q = Tail(P) /\ P # <<>> /\ data' = data /\ arrived' = arrived
  BY <1>0, PathFree
<1>2. P \in Seq(Mbufs)  BY <1>0, PathFacts
<1>3. rxpc'[r] \in {"poll", "pkt"}  BY <1>0 DEF Free, TypeOK
<1> HIDE DEF P
<1>4. l \in Nat \ {0}  BY <1>1, <1>2, EmptySeq
<1>5. Len(Q) = l - 1 /\ \A i \in 1 .. l - 1 : Q[i] = P[i + 1]
  BY <1>1, <1>2, HeadTailProperties
<1> HIDE DEF l, Q
<1>6. \A n \in Passed(r) : \A i \in 1 .. l : i # 1 => n < data[P[i]].pkt
  BY DEF OrderInv, Pkt, P, l
<1>7. \A i \in 1 .. l - 1 : i + 1 \in 1 .. l /\ i + 1 # 1
  BY <1>4
<1>8. \A n \in Passed(r) : \A i \in 1 .. l - 1 : n < data'[Q[i]].pkt
  BY <1>1, <1>5, <1>6, <1>7
<1>9. Passed(r)' = Passed(r)  BY DEF Passed
<1>10. Q = Path(r)' /\ Len(Q) = l - 1  BY <1>5 DEF Q
<1>11. InOrder(Waiting(r), got[r].now)'  BY DEF OrderInv, InOrder
<1> QED  BY <1>1, <1>3, <1>8, <1>9, <1>10, <1>11 DEF OrderInv, Pkt

LEMMA OrderStep ==
  ASSUME RingInv, MbufInv, [Next]_vars, NEW r \in Rings, OrderInv(r)
  PROVE  OrderInv(r)'
<1>0. TypeOK  BY DEF RingInv
<1>1. CASE Publish(r) \/ \E p \in Procs : Parse(p) /\ cur[p] = r
  BY <1>1, OrderPublish, OrderParse
<1>2. CASE ~Publish(r) /\ \A p \in Procs : ~(Parse(p) /\ cur[p] = r)
  <2>1. Waiting(r)' = Waiting(r) /\ got'[r] = got[r]  BY <1>2, WaitingSame
  <2>2. CASE Arrive(r) \/ Free(r)
    BY <2>1, <2>2, OrderArrive, OrderFree
  <2>3. CASE ~Arrive(r) /\ ~Free(r)
    <3>1. /\ Path(r)' = Path(r) /\ arrived'[r] = arrived[r]
          /\ \A i \in 1 .. Len(Path(r)) : Pkt(r, i)' = Pkt(r, i)
      BY <1>0, <2>3, PathOther
    <3>2. /\ rxpc[r] = "free" => rxpc'[r] = "free"
          /\ rxpc'[r] = "publish" =>
               Store(r) \/ (rxpc[r] = "publish" /\ UNCHANGED <<ring[r], occupy[r]>>)
      <4>1. CASE UNCHANGED <<rxpc[r], ring[r], occupy[r]>>
        BY <4>1
      <4>2. ASSUME RxLcore(r) PROVE Store(r) \/ (rxpc[r] # "free" /\ rxpc'[r] # "publish")
        BY <1>0, <1>2, <2>3, <4>2
           DEF RxLcore, Launch, Alloc, RxBurst, Examine, Publish, TypeOK
      <4>3. ASSUME NEW s \in Rings, s # r, Arrive(s) \/ RxLcore(s)
            PROVE  UNCHANGED <<rxpc[r], ring[r], occupy[r]>>
        <5>1. CASE Arrive(s) \/ Launch(s) \/ Alloc(s) \/ RxBurst(s)
          BY <1>0, <4>3, <5>1 DEF Arrive, Launch, Alloc, RxBurst, TypeOK, ringVars, rxVars
        <5>2. CASE Examine(s) \/ Store(s) \/ Publish(s) \/ Free(s)
          BY <1>0, <4>3, <5>2 DEF Examine, Store, Publish, Free, TypeOK, ringVars
        <5> QED  BY <4>3, <5>1, <5>2 DEF RxLcore
      <4>4. ASSUME NEW p \in Procs, ProcessLcore(p)
            PROVE  UNCHANGED <<rxpc[r], ring[r], occupy[r]>>
        BY <4>4 DEF ProcessLcore, Skip, Take, Parse, Dequeue, ringVars, rxVars
      <4>5. UNCHANGED vars => UNCHANGED <<rxpc[r], ring[r], occupy[r]>>
        BY DEF vars, ringVars, rxVars
      <4>6. Store(r) => rxpc[r] # "free"  BY DEF Store
      <4> QED  BY <2>3, <4>1, <4>2, <4>3, <4>4, <4>5, <4>6 DEF Next
    <3>3. rxpc'[r] = "publish" => (ring[r][occupy[r]].now)' = Pkt(r, 1)'
      <4>1. ASSUME Store(r) PROVE ring'[r][occupy'[r]].now = Pkt(r, 1)
        <5>1. Path(r)[1] = Head(burst[r])  BY <1>0, <4>1, PathHead DEF Store
        <5>2. ring'[r][occupy'[r]].now = data[Head(burst[r])].pkt
          BY <1>0, <4>1 DEF Store, TypeOK
        <5> QED  BY <5>1, <5>2 DEF Pkt
      <4>2. rxpc[r] \in {"store", "publish"} => 1 \in 1 .. Len(Path(r))
        <5>1. Path(r) \in Seq(Mbufs)  BY <1>0, PathFacts
        <5>2. Len(Path(r)) \in Nat  BY <5>1, LenProperties
        <5>3. rxpc[r] \in {"store", "publish"} => Len(Path(r)) >= 1  BY <1>0, PathHead
        <5> QED  BY <5>2, <5>3
      <4>3. rxpc[r] \in {"store", "publish"} => Pkt(r, 1)' = Pkt(r, 1)  BY <3>1, <4>2
      <4>4. rxpc[r] = "publish" => ring[r][occupy[r]].now = Pkt(r, 1)  BY DEF OrderInv
      <4> QED  BY <3>2, <4>1, <4>3, <4>4 DEF Store
    <3>4. Passed(r)' = Passed(r)  BY <2>1 DEF Passed
    <3>5. InOrder(Waiting(r), got[r].now)'  BY <2>1 DEF OrderInv, InOrder
    <3>6. \A n \in Passed(r) : n <= arrived'[r]  BY <3>1 DEF OrderInv
    <3>7. \A n \in Passed(r) : \A i \in 1 .. Len(Path(r)) :
            n < Pkt(r, i)' \/ (i = 1 /\ rxpc'[r] = "free" /\ n = Pkt(r, i)')
      BY <3>1, <3>2 DEF OrderInv
    <3> QED  BY <3>1, <3>3, <3>4, <3>5, <3>6, <3>7 DEF OrderInv
  <2> QED  BY <2>2, <2>3
<1> QED  BY <1>1, <1>2
-----------------------------------------------------------------------------
(* The refinement.                                                         *)

queueBar == [r \in Rings |-> Waiting(r)]
outBar == [r \in Rings |-> got[r].now]

LEMMA FifoInit == Init => Fifo!Init
<1> SUFFICES ASSUME Init PROVE Fifo!Init
  OBVIOUS
<1>1. ASSUME NEW r \in Rings PROVE Waiting(r) = <<>>
  <2>1. RingInv  BY InitInv
  <2>2. Taken(r) = 0 /\ occupy[r] = 0 /\ deque[r] = 0  BY DEF Init, Taken, Reading
  <2>3. Filled(BufferLen, 0, 0) = 0  BY DEF Filled
  <2>4. /\ ring[r] \in Slots /\ 0 \in RingSlots /\ 0 \in {0, 1} /\ 0 <= Filled(BufferLen, 0, 0)
    BY <2>1, <2>2, <2>3, RingFacts
  <2>5. Len(WaitingIn(ring[r], 0, 0, 0)) = Filled(BufferLen, 0, 0) - 0
    BY <2>4, WaitingInFacts
  <2>6. Waiting(r) \in Seq(Numbers) /\ Len(Waiting(r)) = 0
    BY <2>1, <2>2, <2>3, <2>5, WaitingType, WaitingDef
  <2> QED  BY <2>6, EmptySeq
<1>2. \A r \in Rings : got[r].now = 0  BY DEF Init
<1> QED  BY <1>1, <1>2 DEF Fifo!Init

\* Publish is Accept, Parse is Deliver, everything else stutters.
LEMMA FifoStep ==
  ASSUME RingInv, FifoInv, [Next]_vars
  PROVE  [Fifo!Next]_Fifo!fifoVars
<1>0. TypeOK /\ MbufInv /\ \A r \in Rings : OrderInv(r)
  BY DEF RingInv, FifoInv
<1>1. ASSUME NEW r \in Rings, Publish(r) PROVE Fifo!Next
  <2> DEFINE x == ring[r][occupy[r]].now
  <2>1. \A s \in Rings \ {r} : Waiting(s)' = Waiting(s)
    <3>1. \A s \in Rings \ {r} : ~Publish(s)
      BY <1>0, <1>1 DEF Publish, TypeOK
    <3>2. \A p \in Procs : ~Parse(p)
      BY <1>0, <1>1 DEF Publish, Parse, TypeOK, prVars
    <3> QED  BY <3>1, <3>2, WaitingSame
  <2>2. /\ Waiting(r)' = Append(Waiting(r), x) /\ Len(Waiting(r)) < BufferLen - 1 /\ got' = got
    BY <1>1, WaitingPublish
  <2>3. (\A n \in Passed(r) : n < x) /\ x \in Numbers
    BY <1>0, <1>1, OrderPublish
  <2> HIDE DEF x
  <2>4. x \in 1 .. MaxPkts
    <3>1. got[r].now \in Numbers /\ got[r].now < x  BY <2>3, PassedTypes DEF Passed
    <3> QED  BY <2>3, <3>1, RingAssumption DEF Numbers
  <2>5. x > (IF Waiting(r) = <<>> THEN got[r].now ELSE Waiting(r)[Len(Waiting(r))])
    <3> DEFINE w == Waiting(r)
    <3>1. w \in Seq(Numbers)  BY WaitingType
    <3> HIDE DEF w
    <3>2. CASE w # <<>>
      <4>1. Len(w) \in 1 .. Len(w)  BY <3>1, <3>2, EmptySeq
      <4>2. w[Len(w)] \in Passed(r)  BY <4>1 DEF Passed, w
      <4>3. w[Len(w)] < x /\ w[Len(w)] \in Int /\ x \in Int
        BY <2>3, <4>2, PassedTypes, RingAssumption DEF Numbers
      <4>4. x > w[Len(w)]  BY <4>3
      <4> QED  BY <3>2, <4>4 DEF w
    <3>3. CASE w = <<>>
      <4>1. got[r].now \in Passed(r)  BY DEF Passed
      <4>2. got[r].now < x /\ got[r].now \in Int /\ x \in Int
        BY <2>3, <4>1, PassedTypes, RingAssumption DEF Numbers
      <4>3. x > got[r].now  BY <4>2
      <4> QED  BY <3>3, <4>3 DEF w
    <3> QED  BY <3>2, <3>3
  <2>6. queueBar' = [queueBar EXCEPT ![r] = Append(@, x)] /\ outBar' = outBar
    BY <2>1, <2>2 DEF queueBar, outBar
  <2>7. queueBar[r] = Waiting(r) /\ outBar[r] = got[r].now  BY DEF queueBar, outBar
  <2>8. Fifo!Accept(r, x)
    BY <2>2, <2>5, <2>6, <2>7 DEF Fifo!Accept, Fifo!Newest, queueBar, outBar
  <2> QED  BY <2>4, <2>8 DEF Fifo!Next
<1>2. ASSUME NEW p \in Procs, NEW r \in Rings, Parse(p), cur[p] = r PROVE Fifo!Next
  <2>2. \A s \in Rings \ {r} : Waiting(s)' = Waiting(s) /\ got'[s] = got[s]
    <3>1. \A s \in Rings : ~Publish(s)
      BY <1>0, <1>2 DEF Publish, Parse, TypeOK, rxVars
    <3>2. \A q \in Procs : Parse(q) => q = p
      BY <1>0, <1>2 DEF Parse, TypeOK
    <3>3. \A s \in Rings \ {r} : \A q \in Procs : ~(Parse(q) /\ cur[q] = s)
      BY <1>2, <3>2
    <3> QED  BY <3>1, <3>3, WaitingSame
  <2>3. Waiting(r) # <<>> /\ Waiting(r)' = Tail(Waiting(r)) /\ got'[r].now = Head(Waiting(r))
    BY <1>2, WaitingParse
  <2>4. /\ queueBar' = [queueBar EXCEPT ![r] = Tail(@)]
        /\ outBar' = [outBar EXCEPT ![r] = Head(queueBar[r])]
        /\ queueBar[r] # <<>>
    BY <2>2, <2>3 DEF queueBar, outBar
  <2>5. Fifo!Deliver(r)  BY <2>4 DEF Fifo!Deliver, queueBar, outBar
  <2> QED  BY <2>5 DEF Fifo!Next
<1>3. CASE (\A r \in Rings : ~Publish(r)) /\ \A p \in Procs : ~Parse(p)
  <2>1. \A r \in Rings : Waiting(r)' = Waiting(r) /\ got'[r] = got[r]
    BY <1>3, WaitingSame
  <2> QED  BY <2>1 DEF Fifo!fifoVars
<1>4. ASSUME NEW p \in Procs, Parse(p) PROVE cur[p] \in Rings
  BY <1>0, <1>4, ReadingServed DEF Parse
<1> QED  BY <1>1, <1>2, <1>3, <1>4

\* The refinement: behind the lock-free indices, the wrap around the end of
\* the ring and the late read of the slot, every ring is a bounded queue.
THEOREM RingImplementsFifo == Spec => RingIsFifo
<1>1. RingInv /\ FifoInv /\ [Next]_vars => FifoInv'
  BY MbufStep, OrderStep DEF FifoInv, RingInv
<1>2. RingInv /\ FifoInv /\ [Next]_vars => [Fifo!Next]_Fifo!fifoVars
  BY FifoStep
<1> QED  BY RingInvariant, OrderInit, FifoInit, <1>1, <1>2, PTL DEF Spec, RingIsFifo, Fifo!Spec
=============================================================================
