--------------------------- MODULE PrQueueProofs ----------------------------
(***************************************************************************)
(* Proofs about the metadata queues, for every number of lcores, size of   *)
(* the arrays, growth and number of packets.                               *)
(***************************************************************************)
EXTENDS PrQueue, DataLemmas, FiniteSetTheorems

(* Types.  What takes an argument is that the modulus stays below MaxSize: *)
(* each growth adds REBUFF to a value read before, and there are as many   *)
(* growths as pairs of a queue and a reallocation of it.                   *)

Growths == Queues \X (1 .. MaxGrowth)
Size(S) == QUESIZE + Cardinality(S) * REBUFF

\* Queue r is between the store of the modulus and its reallocation.
Pending(r) == \E p \in Procs : ppc[p] = "realloc" /\ at[p] = r

Grown == {g \in Growths : \/ g[2] <= RxQue_gen[g[1]]
                          \/ g[2] = RxQue_gen[g[1]] + 1 /\ Pending(g[1])}

GrowthInv ==
  /\ max_size <= Size(Grown)
  /\ \A p \in Procs :
       /\ loaded[p] <= Size(Grown)
       /\ ppc[p] = "store" => loaded[p] >= QUESIZE
       /\ ppc[p] \in {"load", "store", "realloc"} => RxQue_gen[at[p]] < MaxGrowth
       /\ ppc[p] \in {"load", "store", "realloc", "fill"} => offered[at[p]] < MaxPkts

TypeInv == TypeOK /\ GrowthInv

LEMMA GrowthsFinite ==
  /\ IsFiniteSet(Growths)
  /\ Cardinality(Growths) = RxQue * MaxGrowth
<1>1. IsFiniteSet(Queues) /\ Cardinality(Queues) = RxQue
  BY LcoreAssumption, FS_Interval DEF Queues, Rings
<1>2. IsFiniteSet(1 .. MaxGrowth) /\ Cardinality(1 .. MaxGrowth) = MaxGrowth
  BY QueueAssumption, FS_Interval
<1> QED  BY <1>1, <1>2, FS_Product DEF Growths

LEMMA SizeFacts ==
  ASSUME NEW S \in SUBSET Growths
  PROVE  Size(S) \in Nat /\ QUESIZE <= Size(S) /\ Size(S) <= MaxSize
<1> DEFINE c == Cardinality(S)
           m == RxQue * MaxGrowth
<1>1. c \in Nat /\ m \in Nat /\ c <= m
  <2>1. Cardinality(Growths) \in Nat  BY GrowthsFinite, FS_CardinalityType
  <2>2. IsFiniteSet(S) /\ c <= Cardinality(Growths)  BY GrowthsFinite, FS_Subset
  <2>3. c \in Nat  BY <2>2, FS_CardinalityType
  <2> QED  BY <2>1, <2>2, <2>3, GrowthsFinite
<1> HIDE DEF c, m
<1>2. c * REBUFF \in Nat /\ m * REBUFF \in Nat /\ c * REBUFF <= m * REBUFF
  BY <1>1, QueueAssumption, Monotone
<1>3. Size(S) = QUESIZE + c * REBUFF /\ MaxSize = QUESIZE + m * REBUFF
  BY DEF Size, MaxSize, c, m
<1> QED  BY <1>2, <1>3, QueueAssumption

LEMMA SizeGrows ==
  ASSUME NEW S \in SUBSET Growths, NEW g \in Growths \ S
  PROVE  Size(S \cup {g}) = Size(S) + REBUFF
<1>1. IsFiniteSet(S)  BY GrowthsFinite, FS_Subset
<1>2. Cardinality(S) \in Nat /\ Cardinality(S \cup {g}) = Cardinality(S) + 1
  BY <1>1, FS_CardinalityType, FS_AddElement
<1> DEFINE c == Cardinality(S)
<1>3. c \in Nat /\ Size(S \cup {g}) = QUESIZE + (c + 1) * REBUFF /\ Size(S) = QUESIZE + c * REBUFF
  BY <1>2 DEF Size
<1> HIDE DEF c
<1>4. (c + 1) * REBUFF = c * REBUFF + REBUFF /\ c * REBUFF \in Nat
  BY <1>3, QueueAssumption, SMT
<1> QED  BY <1>3, <1>4, QueueAssumption

LEMMA MaxSizeFacts == MaxSize \in Nat \ {0} /\ QUESIZE <= MaxSize /\ 0 \in Indices /\ 0 \in Entries
<1>1. MaxSize \in Nat /\ QUESIZE <= MaxSize
  <2>1. {} \in SUBSET Growths  OBVIOUS
  <2>2. Cardinality({}) = 0  BY FS_EmptySet
  <2>3. MaxSize = QUESIZE + (RxQue * MaxGrowth) * REBUFF  BY DEF MaxSize
  <2>4. RxQue * MaxGrowth \in Nat  BY LcoreAssumption, QueueAssumption, SMT
  <2> DEFINE m == RxQue * MaxGrowth
  <2>5. m * REBUFF \in Nat  BY <2>4, QueueAssumption, Monotone
  <2> QED  BY <2>3, <2>5, QueueAssumption
<1> QED  BY <1>1, QueueAssumption DEF Indices, Entries

\* The wrap-around keeps an index below the modulus.
LEMMA IndexMod ==
  ASSUME NEW m \in QUESIZE .. MaxSize, NEW i \in Nat
  PROVE  i % m \in 0 .. m - 1 /\ i % m \in Indices
<1>1. m \in Nat \ {0} /\ m <= MaxSize  BY QueueAssumption, MaxSizeFacts
<1>2. i % m \in 0 .. m - 1  BY <1>1, SMT
<1> QED  BY <1>1, <1>2, MaxSizeFacts DEF Indices

LEMMA ServedQueue ==
  ASSUME NEW p \in Procs, NEW r \in Served(p)
  PROVE  r \in Queues
<1>1. pos(p) \in Nat /\ end(p) \in Nat /\ end(p) <= RxQue
  BY ShareFits, LcoreAssumption DEF Procs, pos, end, dive
<1> QED  BY <1>1, LcoreAssumption DEF Served, Queues, Rings

\* A queue has one writer.
LEMMA OneWriter ==
  ASSUME TypeOK, NEW p \in Procs, NEW o \in Procs, ppc[p] # "idle", ppc[o] # "idle", at[p] = at[o]
  PROVE  p = o
<1>1. at[p] \in Served(p) /\ at[o] \in Served(o) /\ at[p] \in Nat
  BY LcoreAssumption DEF TypeOK, Queues, Rings
<1>2. p \in Nat /\ o \in Nat  BY LcoreAssumption DEF Procs
<1>3. dive \in Nat  BY LcoreAssumption, SMT DEF dive
<1> QED  BY <1>1, <1>2, <1>3, SharesApart DEF Served, pos, end

LEMMA TypeInit == Init => TypeInv
<1> SUFFICES ASSUME Init PROVE TypeInv
  OBVIOUS
<1>1. TypeOK
  BY MaxSizeFacts, QueueAssumption, LcoreAssumption DEF Init, TypeOK, Queues, Rings
<1>2. Grown \in SUBSET Growths  BY DEF Grown
<1>3. GrowthInv
  BY <1>2, SizeFacts, QueueAssumption DEF Init, GrowthInv
<1> QED  BY <1>1, <1>3 DEF TypeInv

LEMMA TypeStep ==
  ASSUME TypeInv, [Next]_vars
  PROVE  TypeOK'
<1> USE DEF memVars, prVars, monVars
<1>0. TypeOK /\ GrowthInv  BY DEF TypeInv
<1>1. ASSUME NEW p \in Procs, Enter(p) PROVE TypeOK'
  <2>1. PICK r \in Served(p) :
          /\ at' = [at EXCEPT ![p] = r]
          /\ ppc' = [ppc EXCEPT ![p] = IF IsFull(r) THEN "load" ELSE "fill"]
    BY <1>1 DEF Enter
  <2>2. r \in Queues  BY ServedQueue
  <2>3. /\ at' \in [Procs -> Queues]
        /\ ppc' \in [Procs -> {"idle", "load", "store", "realloc", "fill", "publish"}]
        /\ \A o \in Procs : ppc'[o] # "idle" => at'[o] \in Served(o)
    BY <1>0, <2>1, <2>2 DEF TypeOK
  <2> QED  BY <1>0, <1>1, <2>3 DEF TypeOK, Enter, Served
<1>2. ASSUME NEW p \in Procs, LoadMaxSize(p) PROVE TypeOK'
  BY <1>0, <1>2, QueueAssumption DEF TypeOK, LoadMaxSize, Served
<1>3. ASSUME NEW p \in Procs, StoreMaxSize(p) PROVE TypeOK'
  <2> DEFINE g == <<at[p], RxQue_gen[at[p]] + 1>>
  <2>1. g \in Growths /\ RxQue_gen[at[p]] \in Nat
    BY <1>0, <1>3, QueueAssumption DEF TypeOK, GrowthInv, Growths, StoreMaxSize
  <2>2. g \notin Grown
    <3>1. ~Pending(at[p])
      <4> SUFFICES ASSUME NEW o \in Procs, ppc[o] = "realloc", at[o] = at[p] PROVE FALSE
        BY DEF Pending
      <4>1. o = p  BY <1>0, <1>3, OneWriter DEF StoreMaxSize
      <4> QED  BY <1>3, <4>1 DEF StoreMaxSize
    <3> QED  BY <2>1, <3>1 DEF Grown
  <2>3. Grown \in SUBSET Growths /\ Grown \cup {g} \in SUBSET Growths  BY <2>1 DEF Grown
  <2> HIDE DEF g
  <2>4. Size(Grown \cup {g}) = Size(Grown) + REBUFF  BY <2>1, <2>2, <2>3, SizeGrows
  <2>5. Size(Grown) \in Nat /\ Size(Grown) + REBUFF <= MaxSize
    BY <2>3, <2>4, SizeFacts
  <2>6. loaded[p] \in Nat /\ loaded[p] <= Size(Grown) /\ loaded[p] >= QUESIZE
    BY <1>0, <1>3 DEF TypeOK, GrowthInv, StoreMaxSize
  <2>7. max_size' \in QUESIZE .. MaxSize
    BY <1>3, <2>5, <2>6, QueueAssumption, MaxSizeFacts DEF StoreMaxSize
  <2>8. /\ damage' \subseteq {"moved", "outside", "dangling"}
        /\ ppc' \in [Procs -> {"idle", "load", "store", "realloc", "fill", "publish"}]
        /\ \A o \in Procs : ppc'[o] # "idle" => at'[o] \in Served(o)
    BY <1>0, <1>3 DEF TypeOK, StoreMaxSize
  <2> QED  BY <1>0, <1>3, <2>7, <2>8 DEF TypeOK, StoreMaxSize, Served
<1>4. ASSUME NEW p \in Procs, Realloc(p) PROVE TypeOK'
  <2>1. at[p] \in Queues /\ RxQue_gen[at[p]] \in Nat /\ RxQue_gen[at[p]] < MaxGrowth
    BY <1>0, <1>4 DEF TypeOK, GrowthInv, Realloc
  <2>2. RxQue_gen' \in [Queues -> 0 .. MaxGrowth] /\ RxQue_size' \in [Queues -> QUESIZE .. MaxSize]
    BY <1>0, <1>4, <2>1, QueueAssumption DEF TypeOK, Realloc
  <2>3. array' \in [Queues -> [Indices -> Entries]]
    BY <1>0, <1>4, <2>1, MaxSizeFacts DEF TypeOK, Realloc
  <2>4. /\ ppc' \in [Procs -> {"idle", "load", "store", "realloc", "fill", "publish"}]
        /\ \A o \in Procs : ppc'[o] # "idle" => at'[o] \in Served(o)
    BY <1>0, <1>4 DEF TypeOK, Realloc
  <2> QED  BY <1>0, <1>4, <2>2, <2>3, <2>4 DEF TypeOK, Realloc, Served
<1>5. ASSUME NEW p \in Procs, Extract(p) PROVE TypeOK'
  <2> DEFINE r == at[p]
  <2>1. r \in Queues /\ offered[r] + 1 \in Entries
    BY <1>0, <1>5, QueueAssumption DEF TypeOK, GrowthInv, Extract, Entries
  <2>2. offered' \in [Queues -> Entries]
    BY <1>0, <1>5, <2>1 DEF TypeOK, Extract
  <2>3. array' \in [Queues -> [Indices -> Entries]]
    <3>1. CASE occupy[r] < RxQue_size[r]
      BY <1>0, <1>5, <2>1, <3>1 DEF TypeOK, Extract
    <3>2. CASE ~(occupy[r] < RxQue_size[r])
      BY <1>0, <1>5, <3>2 DEF TypeOK, Extract
    <3> QED  BY <3>1, <3>2
  <2>4. damage' \subseteq {"moved", "outside", "dangling"}
    BY <1>0, <1>5 DEF TypeOK, Extract
  <2>5. /\ ppc' \in [Procs -> {"idle", "load", "store", "realloc", "fill", "publish"}]
        /\ \A o \in Procs : ppc'[o] # "idle" => at'[o] \in Served(o)
    BY <1>0, <1>5 DEF TypeOK, Extract
  <2> QED  BY <1>0, <1>5, <2>2, <2>3, <2>4, <2>5 DEF TypeOK, Extract, Served
<1>6. ASSUME NEW p \in Procs, NoLabel(p) PROVE TypeOK'
  BY <1>0, <1>6 DEF TypeOK, NoLabel, Served
<1>7. ASSUME NEW p \in Procs, Publish(p) PROVE TypeOK'
  <2>1. at[p] \in Queues /\ occupy[at[p]] + 1 \in Nat /\ max_size \in QUESIZE .. MaxSize
    BY <1>0, MaxSizeFacts DEF TypeOK, Indices
  <2>2. (occupy[at[p]] + 1) % max_size \in Indices  BY <2>1, IndexMod
  <2> DEFINE i == (occupy[at[p]] + 1) % max_size
  <2>3. i \in Indices /\ occupy' = [occupy EXCEPT ![at[p]] = i]
    BY <1>7, <2>2 DEF Publish
  <2> HIDE DEF i
  <2> QED  BY <1>0, <1>7, <2>3 DEF TypeOK, Publish, Served
<1>8. ASSUME Skip \/ Dequeue PROVE TypeOK'
  <2>1. mi' \in Queues
    <3>1. mi + 1 \in Nat /\ RxQue \in Nat \ {0}  BY <1>0, LcoreAssumption DEF TypeOK, Queues, Rings
    <3>2. (mi + 1) % RxQue \in 0 .. RxQue - 1  BY <3>1, SMT
    <3> QED  BY <1>8, <3>2 DEF Skip, Dequeue, NextQueue, Queues, Rings
  <2>2. CASE Skip  BY <1>0, <2>1, <2>2 DEF TypeOK, Skip, Served
  <2>3. CASE Dequeue
    <3>1. deque[mi] + 1 \in Nat /\ max_size \in QUESIZE .. MaxSize
      BY <1>0, MaxSizeFacts DEF TypeOK, Indices
    <3> DEFINE i == (deque[mi] + 1) % max_size
    <3>2. i \in Indices /\ deque' = [deque EXCEPT ![mi] = i]
      BY <2>3, <3>1, IndexMod DEF Dequeue
    <3> HIDE DEF i
    <3> QED  BY <1>0, <2>1, <2>3, <3>2 DEF TypeOK, Dequeue, Served
  <2> QED  BY <1>8, <2>2, <2>3
<1>9. ASSUME Take PROVE TypeOK'
  BY <1>0, <1>9 DEF TypeOK, Take, Served
<1>10. ASSUME Measure PROVE TypeOK'
  <2>1. array[mi][q.idx] \in Entries
    BY <1>0 DEF TypeOK
  <2>2. out' \in [Queues -> Entries]
    BY <1>0, <1>10, <2>1, MaxSizeFacts DEF TypeOK, Measure
  <2>3. damage' \subseteq {"moved", "outside", "dangling"}
    BY <1>0, <1>10 DEF TypeOK, Measure
  <2> QED  BY <1>0, <1>10, <2>2, <2>3 DEF TypeOK, Measure, Served
<1>11. CASE UNCHANGED vars
  BY <1>0, <1>11 DEF TypeOK, vars, Served
<1> QED
  BY <1>1, <1>2, <1>3, <1>4, <1>5, <1>6, <1>7, <1>8, <1>9, <1>10, <1>11
  DEF Next, ProcessLcore, Monitor

\* What the growths count stays as it is unless a process lcore stores the
\* modulus; the reallocation then only closes what the store opened.
LEMMA GrownSame ==
  ASSUME TypeInv, [Next]_vars, \A p \in Procs : ~StoreMaxSize(p)
  PROVE  Grown' = Grown
<1> USE DEF memVars, prVars, monVars
<1>0. TypeOK /\ GrowthInv  BY DEF TypeInv
<1>1. ASSUME NEW p \in Procs, NEW r \in Queues, at[p] = r, Realloc(p)
      PROVE  Grown' = Grown
  <2>1. RxQue_gen[r] \in Nat /\ Pending(r) /\ RxQue_gen'[r] = RxQue_gen[r] + 1
    BY <1>0, <1>1 DEF TypeOK, Realloc, Pending
  <2>2. ~Pending(r)'
    <3> SUFFICES ASSUME NEW o \in Procs, ppc'[o] = "realloc", at'[o] = r PROVE FALSE
      BY DEF Pending
    <3>1. o # p /\ ppc[o] = "realloc" /\ at[o] = r  BY <1>0, <1>1 DEF TypeOK, Realloc
    <3> QED  BY <1>0, <1>1, <3>1, OneWriter DEF Realloc
  <2>3. ASSUME NEW s \in Queues, s # r
        PROVE  RxQue_gen'[s] = RxQue_gen[s] /\ (Pending(s)' <=> Pending(s))
    BY <1>0, <1>1, <2>3 DEF TypeOK, Realloc, Pending
  <2>4. ASSUME NEW g \in Growths PROVE g \in Grown' <=> g \in Grown
    <3>1. g[1] \in Queues /\ g[2] \in Nat  BY DEF Growths
    <3>2. CASE g[1] = r  BY <2>1, <2>2, <3>1, <3>2 DEF Grown
    <3>3. CASE g[1] # r  BY <2>3, <3>1, <3>3 DEF Grown
    <3> QED  BY <3>2, <3>3
  <2> QED  BY <2>4 DEF Grown
<1>2. ASSUME RxQue_gen' = RxQue_gen, \A r \in Queues : Pending(r)' <=> Pending(r)
      PROVE  Grown' = Grown
  <2>1. \A g \in Growths : g[1] \in Queues  BY DEF Growths
  <2> QED  BY <1>2, <2>1 DEF Grown
<1>3. ASSUME NEW p \in Procs, Enter(p) \/ LoadMaxSize(p) \/ Extract(p) \/ NoLabel(p) \/ Publish(p)
      PROVE  Grown' = Grown
  <2>1. RxQue_gen' = RxQue_gen
    BY <1>3 DEF Enter, LoadMaxSize, Extract, NoLabel, Publish
  <2>2. ppc[p] # "realloc" /\ ppc'[p] # "realloc"
    BY <1>0, <1>3 DEF TypeOK, Enter, LoadMaxSize, Extract, NoLabel, Publish
  <2>3. \A o \in Procs \ {p} : ppc'[o] = ppc[o] /\ at'[o] = at[o]
    BY <1>0, <1>3 DEF TypeOK, Enter, LoadMaxSize, Extract, NoLabel, Publish
  <2>4. \A r \in Queues : Pending(r)' <=> Pending(r)
    BY <2>2, <2>3 DEF Pending
  <2> QED  BY <1>2, <2>1, <2>4
<1>4. ASSUME Monitor \/ UNCHANGED vars PROVE Grown' = Grown
  <2>1. UNCHANGED <<RxQue_gen, ppc, at>>
    BY <1>4 DEF Monitor, Skip, Take, Measure, Dequeue, vars
  <2> QED  BY <1>2, <2>1 DEF Pending
<1>5. \A p \in Procs : at[p] \in Queues  BY <1>0 DEF TypeOK
<1> QED  BY <1>1, <1>3, <1>4, <1>5 DEF Next, ProcessLcore

LEMMA GrownByStore ==
  ASSUME TypeInv, NEW p \in Procs, NEW r \in Queues, at[p] = r, StoreMaxSize(p)
  PROVE  Size(Grown)' = Size(Grown) + REBUFF
<1> USE DEF memVars, prVars, monVars
<1>0. TypeOK /\ GrowthInv  BY DEF TypeInv
<1> DEFINE g == <<r, RxQue_gen[r] + 1>>
<1>1. g \in Growths /\ RxQue_gen[r] \in Nat
  BY <1>0, QueueAssumption DEF TypeOK, GrowthInv, Growths, StoreMaxSize
<1>2. ~Pending(r)
  <2> SUFFICES ASSUME NEW o \in Procs, ppc[o] = "realloc", at[o] = r PROVE FALSE
    BY DEF Pending
  <2>1. o = p  BY <1>0, OneWriter DEF StoreMaxSize
  <2> QED  BY <2>1 DEF StoreMaxSize
<1>3. Pending(r)' /\ \A s \in Queues \ {r} : Pending(s)' <=> Pending(s)
  BY <1>0 DEF TypeOK, StoreMaxSize, Pending
<1>4. RxQue_gen' = RxQue_gen  BY DEF StoreMaxSize
<1>5. Grown' = Grown \cup {g}
  <2>1. ASSUME NEW h \in Growths PROVE h \in Grown' <=> h \in Grown \/ h = g
    <3>1. h[1] \in Queues /\ h[2] \in Nat /\ h = <<h[1], h[2]>>  BY DEF Growths
    <3>2. CASE h[1] = r  BY <1>1, <1>2, <1>3, <1>4, <3>1, <3>2 DEF Grown
    <3>3. CASE h[1] # r  BY <1>3, <1>4, <3>1, <3>3 DEF Grown
    <3> QED  BY <3>2, <3>3
  <2> QED  BY <1>1, <2>1 DEF Grown
<1>6. g \in Growths \ Grown /\ Grown \in SUBSET Growths
  BY <1>1, <1>2 DEF Grown
<1> HIDE DEF g
<1> QED  BY <1>5, <1>6, SizeGrows DEF Size

LEMMA GrowthStep ==
  ASSUME TypeInv, [Next]_vars
  PROVE  GrowthInv'
<1> USE DEF memVars, prVars, monVars
<1>0. TypeOK /\ GrowthInv  BY DEF TypeInv
<1>s. Size(Grown) \in Nat /\ QUESIZE <= Size(Grown)  BY SizeFacts DEF Grown
<1>w. ASSUME NEW p \in Procs, NEW o \in Procs, o # p, ppc[p] # "idle", ppc[o] # "idle"
      PROVE  at[o] # at[p]
  BY <1>0, <1>w, OneWriter
<1>1. ASSUME NEW p \in Procs, StoreMaxSize(p) PROVE GrowthInv'
  <2>1. max_size' <= Size(Grown)' /\ \A o \in Procs : loaded'[o] <= Size(Grown)'
    <3>1. Size(Grown)' = Size(Grown) + REBUFF
      <4>1. at[p] \in Queues  BY <1>0 DEF TypeOK
      <4> QED  BY <1>1, <4>1, GrownByStore
    <3>2. \A o \in Procs : loaded[o] \in Nat /\ loaded[o] <= Size(Grown)
      BY <1>0, MaxSizeFacts DEF TypeOK, GrowthInv
    <3>3. max_size' = loaded[p] + REBUFF /\ loaded' = loaded  BY <1>1 DEF StoreMaxSize
    <3> QED  BY <1>s, <3>1, <3>2, <3>3, QueueAssumption
  <2>2. ASSUME NEW o \in Procs
        PROVE  /\ ppc'[o] = "store" => loaded'[o] >= QUESIZE
               /\ ppc'[o] \in {"load", "store", "realloc"} => RxQue_gen'[at'[o]] < MaxGrowth
               /\ ppc'[o] \in {"load", "store", "realloc", "fill"} => offered'[at'[o]] < MaxPkts
    BY <1>0, <1>1 DEF TypeOK, GrowthInv, StoreMaxSize
  <2> QED  BY <2>1, <2>2 DEF GrowthInv
<1>2. ASSUME \A p \in Procs : ~StoreMaxSize(p)
      PROVE  max_size' <= Size(Grown)' /\ \A o \in Procs : loaded'[o] <= Size(Grown)'
  <2>1. Size(Grown)' = Size(Grown)  BY <1>2, GrownSame DEF Size
  <2>2. max_size' = max_size
    BY <1>2 DEF Next, ProcessLcore, Monitor, Enter, LoadMaxSize, Realloc, Extract, NoLabel, Publish,
                Skip, Take, Measure, Dequeue, vars
  <2>3. \A o \in Procs : loaded'[o] \in {loaded[o], max_size}
    BY <1>0, <1>2 DEF TypeOK, Next, ProcessLcore, Monitor, Enter, LoadMaxSize, Realloc, Extract, NoLabel,
                Publish, Skip, Take, Measure, Dequeue, vars
  <2> QED  BY <1>0, <2>1, <2>2, <2>3 DEF GrowthInv
<1> DEFINE Pc == \A o \in Procs :
               /\ ppc[o] = "store" => loaded[o] >= QUESIZE
               /\ ppc[o] \in {"load", "store", "realloc"} => RxQue_gen[at[o]] < MaxGrowth
               /\ ppc[o] \in {"load", "store", "realloc", "fill"} => offered[at[o]] < MaxPkts
<1>3. ASSUME NEW p \in Procs, Enter(p) PROVE Pc'
  <2>1. PICK r \in Served(p) :
          /\ offered[r] < MaxPkts
          /\ IsFull(r) => RxQue_gen[r] < MaxGrowth
          /\ at' = [at EXCEPT ![p] = r]
          /\ ppc' = [ppc EXCEPT ![p] = IF IsFull(r) THEN "load" ELSE "fill"]
    BY <1>3 DEF Enter
  <2>2. UNCHANGED <<RxQue_gen, offered, loaded>>  BY <1>3 DEF Enter
  <2> QED  BY <1>0, <2>1, <2>2 DEF TypeOK, GrowthInv
<1>4. ASSUME NEW p \in Procs, LoadMaxSize(p) \/ NoLabel(p) \/ Publish(p) PROVE Pc'
  BY <1>0, <1>4 DEF TypeOK, GrowthInv, LoadMaxSize, NoLabel, Publish
<1>5. ASSUME NEW p \in Procs, Realloc(p) PROVE Pc'
  <2> SUFFICES ASSUME NEW o \in Procs
               PROVE  /\ ppc'[o] = "store" => loaded'[o] >= QUESIZE
                      /\ ppc'[o] \in {"load", "store", "realloc"} => RxQue_gen'[at'[o]] < MaxGrowth
                      /\ ppc'[o] \in {"load", "store", "realloc", "fill"} => offered'[at'[o]] < MaxPkts
    OBVIOUS
  <2>1. CASE o = p  BY <1>0, <1>5, <2>1 DEF TypeOK, GrowthInv, Realloc
  <2>2. CASE o # p
    <3>1. ppc'[o] = ppc[o] /\ UNCHANGED <<at, loaded, offered>>  BY <1>0, <1>5, <2>2 DEF TypeOK, Realloc
    <3>2. ppc[o] # "idle" => RxQue_gen'[at[o]] = RxQue_gen[at[o]]
      BY <1>0, <1>5, <1>w, <2>2 DEF TypeOK, Realloc
    <3> QED  BY <1>0, <3>1, <3>2 DEF GrowthInv
  <2> QED  BY <2>1, <2>2
<1>6. ASSUME NEW p \in Procs, Extract(p) PROVE Pc'
  <2> SUFFICES ASSUME NEW o \in Procs
               PROVE  /\ ppc'[o] = "store" => loaded'[o] >= QUESIZE
                      /\ ppc'[o] \in {"load", "store", "realloc"} => RxQue_gen'[at'[o]] < MaxGrowth
                      /\ ppc'[o] \in {"load", "store", "realloc", "fill"} => offered'[at'[o]] < MaxPkts
    OBVIOUS
  <2>1. CASE o = p  BY <1>0, <1>6, <2>1 DEF TypeOK, Extract
  <2>2. CASE o # p
    <3>1. ppc'[o] = ppc[o] /\ UNCHANGED <<at, loaded, RxQue_gen>>  BY <1>0, <1>6, <2>2 DEF TypeOK, Extract
    <3>2. ppc[o] # "idle" => offered'[at[o]] = offered[at[o]]
      BY <1>0, <1>6, <1>w, <2>2 DEF TypeOK, Extract
    <3> QED  BY <1>0, <3>1, <3>2 DEF GrowthInv
  <2> QED  BY <2>1, <2>2
<1>7. ASSUME Monitor \/ UNCHANGED vars PROVE Pc'
  <2>1. UNCHANGED <<ppc, at, loaded, offered, RxQue_gen>>
    BY <1>7 DEF Monitor, Skip, Take, Measure, Dequeue, vars
  <2> QED  BY <1>0, <2>1 DEF GrowthInv
<1>8. CASE \A p \in Procs : ~StoreMaxSize(p)
  <2>1. Pc'  BY <1>3, <1>4, <1>5, <1>6, <1>7, <1>8 DEF Next, ProcessLcore
  <2> QED  BY <1>2, <1>8, <2>1 DEF GrowthInv
<1> QED  BY <1>1, <1>8

LEMMA TypesAlways == Spec => []TypeInv
<1>1. TypeInv /\ [Next]_vars => TypeInv'
  BY TypeStep, GrowthStep DEF TypeInv
<1> QED  BY TypeInit, <1>1, PTL DEF Spec

\* The indices, counters and numbers of the queues stay in their ranges: the
\* shared modulus in particular grows no further than the growths there were,
\* although each is the sum of REBUFF and a value that may be out of date.
THEOREM QueueTypes == Spec => []TypeOK
<1>1. TypeInv => TypeOK  BY DEF TypeInv
<1> QED  BY TypesAlways, <1>1, PTL
-----------------------------------------------------------------------------
(* Before the first growth.                                                *)

\* As long as the modulus is what main gave it, no array was reallocated, no
\* lcore is about to, and all indices are inside arrays of that size.
UngrownInv ==
  max_size = QUESIZE =>
    /\ damage = {}
    /\ \A p \in Procs : ppc[p] # "realloc"
    /\ \A r \in Queues : /\ RxQue_size[r] = QUESIZE /\ RxQue_gen[r] = 0
                         /\ occupy[r] < QUESIZE /\ deque[r] < QUESIZE
    /\ mpc = "read" => q.gen = 0 /\ q.idx < QUESIZE

LEMMA UngrownStep ==
  ASSUME TypeInv, UngrownInv, [Next]_vars
  PROVE  UngrownInv'
<1> USE DEF memVars, prVars, monVars
<1>0. TypeOK /\ GrowthInv  BY DEF TypeInv
<1>1. ASSUME NEW p \in Procs, StoreMaxSize(p) PROVE UngrownInv'
  <2>1. max_size' = loaded[p] + REBUFF /\ loaded[p] >= QUESIZE /\ loaded[p] \in Nat
    BY <1>0, <1>1, MaxSizeFacts DEF TypeOK, GrowthInv, StoreMaxSize
  <2>2. max_size' # QUESIZE  BY <2>1, QueueAssumption
  <2> QED  BY <2>2 DEF UngrownInv
<1>2. CASE \A p \in Procs : ~StoreMaxSize(p)
  <2>1. max_size' = max_size
    BY <1>2 DEF Next, ProcessLcore, Monitor, Enter, LoadMaxSize, Realloc, Extract, NoLabel, Publish,
                Skip, Take, Measure, Dequeue, vars
  <2> SUFFICES ASSUME max_size = QUESIZE PROVE UngrownInv'
    BY <2>1 DEF UngrownInv
  <2>2. /\ damage = {}
        /\ \A p \in Procs : ppc[p] # "realloc"
        /\ \A r \in Queues : /\ RxQue_size[r] = QUESIZE /\ RxQue_gen[r] = 0
                             /\ occupy[r] < QUESIZE /\ deque[r] < QUESIZE
        /\ mpc = "read" => q.gen = 0 /\ q.idx < QUESIZE
    BY DEF UngrownInv
  <2>3. \A i \in Nat : i % max_size < QUESIZE /\ i % max_size \in Nat
    BY QueueAssumption, SMT
  <2>4. ASSUME NEW p \in Procs, Enter(p) \/ LoadMaxSize(p) \/ NoLabel(p) PROVE UngrownInv'
    BY <1>0, <2>2, <2>4 DEF TypeOK, UngrownInv, Enter, LoadMaxSize, NoLabel
  <2>5. ASSUME NEW p \in Procs, Extract(p) PROVE UngrownInv'
    <3>1. at[p] \in Queues /\ occupy[at[p]] < RxQue_size[at[p]]
      BY <1>0, <2>2 DEF TypeOK
    <3> QED  BY <1>0, <2>2, <2>5, <3>1 DEF TypeOK, UngrownInv, Extract
  <2>6. ASSUME NEW p \in Procs, Publish(p) PROVE UngrownInv'
    <3>1. at[p] \in Queues /\ occupy[at[p]] + 1 \in Nat
      BY <1>0, MaxSizeFacts DEF TypeOK, Indices
    <3> DEFINE i == (occupy[at[p]] + 1) % max_size
    <3>2. i < QUESIZE /\ occupy' = [occupy EXCEPT ![at[p]] = i]
      BY <2>3, <2>6, <3>1 DEF Publish
    <3> HIDE DEF i
    <3> QED  BY <1>0, <2>2, <2>6, <3>2 DEF TypeOK, UngrownInv, Publish
  <2>7. CASE Skip \/ UNCHANGED vars  BY <2>2, <2>7 DEF UngrownInv, Skip, vars
  <2>8. CASE Take
    <3>1. mi \in Queues  BY <1>0 DEF TypeOK
    <3> QED  BY <2>2, <2>8, <3>1 DEF UngrownInv, Take
  <2>9. CASE Measure
    <3>1. mi \in Queues /\ q.idx \in Nat /\ RxQue_size[mi] = QUESIZE /\ RxQue_gen[mi] = 0
      BY <1>0, <2>2, MaxSizeFacts DEF TypeOK, Indices
    <3>2. q.gen = RxQue_gen[mi] /\ ~(q.idx >= RxQue_size[mi])
      BY <2>2, <2>9, <3>1, QueueAssumption DEF Measure
    <3> QED  BY <2>2, <2>9, <3>2 DEF UngrownInv, Measure
  <2>10. CASE Dequeue
    <3>1. mi \in Queues /\ deque[mi] + 1 \in Nat
      BY <1>0, MaxSizeFacts DEF TypeOK, Indices
    <3> DEFINE i == (deque[mi] + 1) % max_size
    <3>2. i < QUESIZE /\ deque' = [deque EXCEPT ![mi] = i]
      BY <2>3, <2>10, <3>1 DEF Dequeue
    <3> HIDE DEF i
    <3> QED  BY <1>0, <2>2, <2>10, <3>2 DEF TypeOK, UngrownInv, Dequeue
  <2>11. ASSUME NEW p \in Procs, Realloc(p) PROVE UngrownInv'
    BY <2>2, <2>11 DEF Realloc
  <2> QED  BY <1>2, <2>4, <2>5, <2>6, <2>7, <2>8, <2>9, <2>10, <2>11 DEF Next, ProcessLcore, Monitor
<1> QED  BY <1>1, <1>2

\* Until a queue first fills up no lcore reaches outside an array, none uses a
\* pointer from before a reallocation and no entry moves.
THEOREM NothingBreaksUngrown == Spec => []SoundUntilGrowth
<1>1. Init => UngrownInv
  BY QueueAssumption DEF Init, UngrownInv
<1>2. TypeInv /\ UngrownInv /\ [Next]_vars => UngrownInv'
  BY UngrownStep
<1>3. UngrownInv => SoundUntilGrowth
  BY DEF UngrownInv, SoundUntilGrowth
<1> QED  BY TypesAlways, <1>1, <1>2, <1>3, PTL DEF Spec
-----------------------------------------------------------------------------
(* The queues as FIFOs, through growths too.                               *)

Taken(r) == IF mpc = "deque" /\ mi = r THEN 1 ELSE 0

\* The argument is about what waits as a function of the array and the indices.
LEMMA WaitingIs ==
  ASSUME NEW r
  PROVE  /\ Waiting(r) = RingSeq(array[r], max_size, occupy[r], deque[r], Taken(r))
         /\ Waiting(r)' = RingSeq(array'[r], max_size', occupy'[r], deque'[r], Taken(r)')
  BY DEF Waiting, RingSeq, Taken

HasRoom(r) == (occupy[r] + 1) % max_size # deque[r]

\* The indices are below the modulus, and an entry the monitor has in hand is
\* the oldest there is.
IndexInv(r) ==
  /\ occupy[r] < max_size /\ deque[r] < max_size
  /\ mpc # "test" /\ mi = r => occupy[r] # deque[r]
  /\ mpc = "read" /\ mi = r => q.idx = deque[r]

\* What waits or was handed on was extracted.
EntryInv(r) ==
  /\ out[r] <= offered[r]
  /\ \A k \in 1 .. Len(Waiting(r)) : Waiting(r)[k] <= offered[r]

QueueInv(r) == IndexInv(r) /\ EntryInv(r)

\* A process lcore that will use the modulus it read makes room with it: its
\* own index is below that value, however old it is.  Past the growth there is
\* room for the entry, and the entry is newer than all that went before it.
WriterInv(p) ==
  LET r == at[p] IN
  /\ ppc[p] = "store" => occupy[r] < loaded[p]
  /\ ppc[p] \in {"realloc", "fill", "publish"} => HasRoom(r)
  /\ ppc[p] = "publish" =>
       /\ array[r][occupy[r]] = offered[r]
       /\ out[r] < offered[r]
       /\ \A k \in 1 .. Len(Waiting(r)) : Waiting(r)[k] < offered[r]

Sound == (\A r \in Queues : QueueInv(r)) /\ (\A p \in Procs : WriterInv(p))
SoundInv == damage = {} => Sound

\* Nothing takes back what went wrong.
LEMMA DamageStays ==
  ASSUME [Next]_vars, damage' = {}
  PROVE  damage = {}
  BY DEF Next, ProcessLcore, Monitor, Enter, LoadMaxSize, StoreMaxSize, Realloc, Extract,
         NoLabel, Publish, Skip, Take, Measure, Dequeue, vars, memVars, prVars, monVars

LEMMA QueueFacts ==
  ASSUME TypeOK, NEW r \in Queues, QueueInv(r)
  PROVE  /\ max_size \in Nat \ {0} /\ max_size <= MaxSize
         /\ occupy[r] \in Index(max_size) /\ deque[r] \in Index(max_size)
         /\ Holds(array[r], max_size, Entries)
         /\ Taken(r) \in {0, 1} /\ Taken(r) <= Filled(max_size, occupy[r], deque[r])
         /\ Waiting(r) \in Seq(Entries)
<1>1. max_size \in Nat \ {0} /\ max_size <= MaxSize
  BY QueueAssumption, MaxSizeFacts DEF TypeOK
<1>2. occupy[r] \in Index(max_size) /\ deque[r] \in Index(max_size)
  BY <1>1, MaxSizeFacts DEF TypeOK, QueueInv, IndexInv, Indices, Index
<1>3. Holds(array[r], max_size, Entries)
  BY <1>1, MaxSizeFacts DEF TypeOK, Indices, Holds, Index
<1>4. Filled(max_size, occupy[r], deque[r]) \in Nat /\
      (Filled(max_size, occupy[r], deque[r]) = 0 <=> occupy[r] = deque[r])
  BY <1>1, <1>2, FilledFacts
<1>5. Taken(r) \in {0, 1} /\ (Taken(r) = 1 => occupy[r] # deque[r])
  BY DEF Taken, QueueInv, IndexInv
<1>6. Taken(r) <= Filled(max_size, occupy[r], deque[r])
  BY <1>4, <1>5
<1>7. Waiting(r) \in Seq(Entries)
  BY <1>1, <1>2, <1>3, <1>5, <1>6, RingSeqFacts, WaitingIs
<1> QED  BY <1>1, <1>2, <1>3, <1>5, <1>6, <1>7

\* A process lcore publishes: its entry joins those that wait.
LEMMA WaitingPublish ==
  ASSUME TypeOK, Sound, NEW p \in Procs, NEW r \in Queues, at[p] = r, Publish(p)
  PROVE  /\ Waiting(r)' = Append(Waiting(r), offered[r])
         /\ Len(Waiting(r)) < MaxSize - 1
         /\ occupy'[r] # deque[r] /\ occupy'[r] < max_size
<1>1. QueueInv(r) /\ HasRoom(r) /\ array[r][occupy[r]] = offered[r]
  BY DEF Sound, WriterInv, Publish
<1>2. /\ array' = array /\ max_size' = max_size /\ deque' = deque /\ Taken(r)' = Taken(r)
      /\ occupy'[r] = (occupy[r] + 1) % max_size
  BY DEF TypeOK, Publish, memVars, monVars, Taken
<1>3. /\ RingSeq(array[r], max_size, (occupy[r] + 1) % max_size, deque[r], Taken(r))
           = Append(RingSeq(array[r], max_size, occupy[r], deque[r], Taken(r)), array[r][occupy[r]])
      /\ Len(RingSeq(array[r], max_size, occupy[r], deque[r], Taken(r))) < max_size - 1
  BY <1>1, QueueFacts, RingSeqAppend DEF HasRoom
<1>4. Waiting(r)' = Append(Waiting(r), offered[r])
  BY <1>1, <1>2, <1>3, WaitingIs
<1>5. Len(Waiting(r)) < MaxSize - 1
  <2>1. Len(Waiting(r)) < max_size - 1  BY <1>3, WaitingIs
  <2>2. Len(Waiting(r)) \in Nat  BY <1>1, QueueFacts, LenProperties
  <2> QED  BY <1>1, <2>1, <2>2, QueueFacts, MaxSizeFacts
<1>6. occupy'[r] # deque[r]  BY <1>1, <1>2 DEF HasRoom
<1>7. occupy'[r] < max_size
  <2>1. (occupy[r] + 1) % max_size \in Index(max_size)  BY <1>1, QueueFacts, NextInRing
  <2> QED  BY <1>1, <1>2, <2>1, QueueFacts DEF Index
<1> QED  BY <1>4, <1>5, <1>6, <1>7

\* The monitor reads: the oldest that waits is handed on.
LEMMA WaitingMeasure ==
  ASSUME TypeOK, Sound, damage' = {}, NEW r \in Queues, mi = r, Measure
  PROVE  /\ Waiting(r) # <<>>
         /\ out'[r] = Head(Waiting(r))
         /\ Waiting(r)' = Tail(Waiting(r))
<1>1. QueueInv(r) /\ occupy[r] # deque[r] /\ q.idx = deque[r]
  BY DEF Sound, QueueInv, IndexInv, Measure
<1>2. Taken(r) = 0 /\ Taken(r)' = 1
  BY DEF Measure, Taken, prVars
<1>3. out'[r] = array[r][deque[r]]
  BY <1>1 DEF TypeOK, Measure
<1>4. array' = array /\ max_size' = max_size /\ occupy' = occupy /\ deque' = deque
  BY DEF Measure, memVars
<1>5. /\ RingSeq(array[r], max_size, occupy[r], deque[r], 0) # <<>>
      /\ Head(RingSeq(array[r], max_size, occupy[r], deque[r], 0)) = array[r][deque[r]]
      /\ RingSeq(array[r], max_size, occupy[r], deque[r], 1)
           = Tail(RingSeq(array[r], max_size, occupy[r], deque[r], 0))
  BY <1>1, QueueFacts, RingSeqTail
<1> QED  BY <1>2, <1>3, <1>4, <1>5, WaitingIs

\* Every other step that damages nothing leaves queue r as it is.
LEMMA WaitingSame ==
  ASSUME TypeInv, Sound, [Next]_vars, damage' = {}, NEW r \in Queues,
         \A p \in Procs : ~(Publish(p) /\ at[p] = r), ~(Measure /\ mi = r)
  PROVE  Waiting(r)' = Waiting(r) /\ out'[r] = out[r]
<1> USE DEF memVars, prVars, monVars
<1>0. TypeOK /\ QueueInv(r)  BY DEF TypeInv, Sound
<1>1. CASE UNCHANGED <<array[r], max_size, occupy[r], deque[r], Taken(r), out[r]>>
  BY <1>1, WaitingIs
<1>2. ASSUME NEW p \in Procs, Enter(p) \/ LoadMaxSize(p) \/ NoLabel(p)
      PROVE  UNCHANGED <<array[r], max_size, occupy[r], deque[r], Taken(r), out[r]>>
  BY <1>2 DEF Enter, LoadMaxSize, NoLabel, Taken
<1>3. CASE Skip \/ Take \/ UNCHANGED vars
  <2>1. UNCHANGED <<array[r], max_size, occupy[r], deque[r], Taken(r), out[r]>>
    BY <1>3 DEF Skip, Take, vars, Taken
  <2> QED  BY <1>1, <2>1
<1>4. ASSUME NEW p \in Procs, StoreMaxSize(p) PROVE Waiting(r)' = Waiting(r) /\ out'[r] = out[r]
  <2>1. ~Moves(max_size')  BY <1>4 DEF StoreMaxSize
  <2>2. max_size' \in Nat \ {0} /\ max_size <= max_size' /\ deque[r] <= occupy[r] /\ max_size' <= MaxSize
    <3>1. TypeOK'  BY TypeStep
    <3>2. max_size \in Nat /\ max_size' \in Nat \ {0} /\ max_size' <= MaxSize
      BY <1>0, <3>1, QueueAssumption, MaxSizeFacts DEF TypeOK
    <3>3. deque[r] \in Nat /\ occupy[r] \in Nat  BY <1>0, MaxSizeFacts DEF TypeOK, Indices
    <3> QED  BY <2>1, <3>2, <3>3 DEF Moves
  <2>3. UNCHANGED <<array, occupy, deque, Taken(r), out>>
    BY <1>4 DEF StoreMaxSize, Taken
  <2> DEFINE M == max_size'
  <2>4. Holds(array[r], M, Entries)
    <3>1. M \in Nat \ {0} /\ M <= MaxSize  BY <2>2
    <3> HIDE DEF M
    <3>2. \A i \in Index(M) : i \in Indices  BY <3>1, MaxSizeFacts DEF Indices, Index
    <3> QED  BY <1>0, <3>2 DEF TypeOK, Holds
  <2>5. RingSeq(array[r], M, occupy[r], deque[r], Taken(r))
          = RingSeq(array[r], max_size, occupy[r], deque[r], Taken(r))
    <3>1. M \in Nat \ {0} /\ max_size <= M /\ deque[r] <= occupy[r]  BY <2>2
    <3> HIDE DEF M
    <3> QED  BY <1>0, <2>4, <3>1, QueueFacts, RingSeqGrow
  <2> QED  BY <2>3, <2>5, WaitingIs
<1>5. ASSUME NEW p \in Procs, Realloc(p) \/ Extract(p)
      PROVE  Waiting(r)' = Waiting(r) /\ out'[r] = out[r]
  <2>1. UNCHANGED <<max_size, occupy, deque, Taken(r), out>>
    BY <1>5 DEF Realloc, Extract, Taken
  <2>2. \A i \in Index(max_size) \ {occupy[r]} : array'[r][i] = array[r][i]
    <3>1. \A i \in Index(max_size) : i \in Indices /\ i < max_size
      BY <1>0, QueueFacts, MaxSizeFacts DEF Indices, Index
    <3>2. CASE Realloc(p)  BY <1>0, <3>1, <3>2 DEF TypeOK, Realloc
    <3>3. CASE Extract(p)
      <4>1. \/ array' = array
            \/ array' = [array EXCEPT ![at[p]][occupy[at[p]]] = offered[at[p]] + 1]
        BY <3>3 DEF Extract
      <4> QED  BY <1>0, <3>1, <4>1 DEF TypeOK
    <3> QED  BY <1>5, <3>2, <3>3
  <2>3. Holds(array'[r], max_size, Entries)
    <3>1. TypeOK'  BY TypeStep
    <3>2. \A i \in Index(max_size) : i \in Indices
      BY <1>0, QueueFacts, MaxSizeFacts DEF Indices, Index
    <3> QED  BY <3>1, <3>2 DEF TypeOK, Holds
  <2>4. RingSeq(array'[r], max_size, occupy[r], deque[r], Taken(r))
          = RingSeq(array[r], max_size, occupy[r], deque[r], Taken(r))
    BY <1>0, <2>2, <2>3, QueueFacts, RingSeqStore
  <2> QED  BY <2>1, <2>4, WaitingIs
<1>6. ASSUME NEW p \in Procs, Publish(p)
      PROVE  UNCHANGED <<array[r], max_size, occupy[r], deque[r], Taken(r), out[r]>>
  BY <1>0, <1>6 DEF TypeOK, Publish, Taken
<1>7. CASE Measure
  <2>1. mi # r  BY <1>7
  <2>2. UNCHANGED <<array[r], max_size, occupy[r], deque[r], Taken(r), out[r]>>
    BY <1>0, <1>7, <2>1 DEF TypeOK, Measure, Taken
  <2> QED  BY <1>1, <2>2
<1>8. CASE Dequeue
  <2>1. CASE mi # r
    <3>1. UNCHANGED <<array[r], max_size, occupy[r], deque[r], Taken(r), out[r]>>
      BY <1>0, <1>8, <2>1 DEF TypeOK, Dequeue, Taken
    <3> QED  BY <1>1, <3>1
  <2>2. CASE mi = r
    <3>1. /\ UNCHANGED <<array, max_size, occupy, out>>
          /\ deque'[r] = (deque[r] + 1) % max_size
          /\ Taken(r) = 1 /\ Taken(r)' = 0 /\ occupy[r] # deque[r]
      BY <1>0, <1>8, <2>2 DEF TypeOK, Dequeue, Taken, QueueInv, IndexInv
    <3>2. RingSeq(array[r], max_size, occupy[r], (deque[r] + 1) % max_size, 0)
            = RingSeq(array[r], max_size, occupy[r], deque[r], 1)
      BY <1>0, <3>1, QueueFacts, RingSeqDequeue
    <3> QED  BY <3>1, <3>2, WaitingIs
  <2> QED  BY <2>1, <2>2
<1> QED
  BY <1>1, <1>2, <1>3, <1>4, <1>5, <1>6, <1>7, <1>8 DEF Next, ProcessLcore, Monitor

LEMMA SoundInit == Init => SoundInv
<1> SUFFICES ASSUME Init PROVE Sound
  BY DEF SoundInv
<1>1. TypeOK  BY TypeInit DEF TypeInv
<1>2. ASSUME NEW r \in Queues PROVE QueueInv(r)
  <2>1. Waiting(r) = <<>>
    <3>1. max_size \in Nat \ {0} /\ 0 \in Index(max_size)
      BY QueueAssumption DEF Init, Index
    <3>2. Filled(max_size, 0, 0) = 0  BY DEF Filled
    <3>3. Holds(array[r], max_size, {0})
      BY QueueAssumption, MaxSizeFacts DEF Init, Holds, Index, Indices
    <3>4. RingSeq(array[r], max_size, 0, 0, 0) \in Seq({0}) /\ Len(RingSeq(array[r], max_size, 0, 0, 0)) = 0
      BY <3>1, <3>2, <3>3, RingSeqFacts
    <3>5. Waiting(r) = RingSeq(array[r], max_size, 0, 0, 0)
      BY WaitingIs DEF Init, Taken
    <3> QED  BY <3>4, <3>5, EmptySeq
  <2>2. Len(Waiting(r)) = 0  BY <2>1
  <2>3. occupy[r] < max_size /\ deque[r] < max_size  BY QueueAssumption DEF Init
  <2> QED  BY <2>2, <2>3 DEF Init, QueueInv, IndexInv, EntryInv
<1>3. \A p \in Procs : WriterInv(p)
  BY DEF Init, WriterInv
<1> QED  BY <1>2, <1>3 DEF Sound

\* Whether it publishes, reads or does something else: what a step means for
\* the entries of a queue.
LEMMA QueueStep ==
  ASSUME TypeInv, Sound, [Next]_vars, damage' = {}
  PROVE  \A r \in Queues : QueueInv(r)'
<1> USE DEF memVars, prVars, monVars
<1>0. TypeOK /\ TypeOK'  BY TypeStep DEF TypeInv
<1> SUFFICES ASSUME NEW r \in Queues PROVE QueueInv(r)'
  OBVIOUS
<1>1. /\ QueueInv(r) /\ Waiting(r) \in Seq(Entries) /\ offered[r] \in Nat /\ out[r] \in Nat
      /\ occupy[r] \in Nat /\ deque[r] \in Nat /\ max_size \in Nat
  <2>1. QueueInv(r)  BY DEF Sound
  <2>2. offered[r] \in Nat /\ out[r] \in Nat
    BY <1>0 DEF TypeOK, Entries
  <2>3. occupy[r] \in Nat /\ deque[r] \in Nat /\ max_size \in Nat
    BY <1>0, QueueAssumption, MaxSizeFacts DEF TypeOK, Indices
  <2> QED  BY <1>0, <2>1, <2>2, <2>3, QueueFacts
<1>2. offered'[r] \in Nat /\ offered[r] <= offered'[r]
  <2>1. offered'[r] \in {offered[r], offered[r] + 1}
    <3>1. ASSUME NEW p \in Procs, Extract(p) PROVE offered'[r] \in {offered[r], offered[r] + 1}
      BY <1>0, <3>1 DEF TypeOK, Extract
    <3>2. CASE \A p \in Procs : ~Extract(p)
      <4>1. offered' = offered
        BY <3>2 DEF Next, ProcessLcore, Monitor, Enter, LoadMaxSize, StoreMaxSize, Realloc,
           NoLabel, Publish, Skip, Take, Measure, Dequeue, vars
      <4> QED  BY <4>1
    <3> QED  BY <3>1, <3>2
  <2> QED  BY <1>1, <2>1
<1>3. IndexInv(r) /\ EntryInv(r)  BY <1>1 DEF QueueInv
<1>4. ASSUME NEW p \in Procs, Publish(p), at[p] = r PROVE IndexInv(r)' /\ EntryInv(r)'
  <2>1. /\ Waiting(r)' = Append(Waiting(r), offered[r])
        /\ occupy'[r] # deque[r] /\ occupy'[r] < max_size
    BY <1>0, <1>4, WaitingPublish
  <2>2. UNCHANGED <<max_size, deque, mpc, mi, q, out, offered>>  BY <1>4 DEF Publish
  <2>3. IndexInv(r)'  BY <1>3, <2>1, <2>2 DEF IndexInv
  <2>4. ASSUME NEW k \in 1 .. Len(Waiting(r)) + 1
        PROVE  Append(Waiting(r), offered[r])[k] <= offered[r]
    <3>1. CASE k \in 1 .. Len(Waiting(r))
      BY <1>1, <1>3, <3>1, AppendProperties DEF EntryInv
    <3>2. CASE k = Len(Waiting(r)) + 1
      BY <1>0, <1>1, <3>2, AppendProperties DEF TypeOK
    <3> QED  BY <1>1, <3>1, <3>2, LenProperties
  <2>5. Len(Append(Waiting(r), offered[r])) = Len(Waiting(r)) + 1
    BY <1>0, <1>1, AppendProperties DEF TypeOK
  <2>6. EntryInv(r)'  BY <1>3, <2>1, <2>2, <2>4, <2>5 DEF EntryInv
  <2> QED  BY <2>3, <2>6
<1>5. ASSUME Measure, mi = r PROVE IndexInv(r)' /\ EntryInv(r)'
  <2>1. /\ Waiting(r) # <<>> /\ out'[r] = Head(Waiting(r))
        /\ Waiting(r)' = Tail(Waiting(r))
    BY <1>0, <1>5, WaitingMeasure
  <2>2. UNCHANGED <<max_size, occupy, deque, mi, offered>> /\ mpc' = "deque" /\ mpc = "read"
    BY <1>5 DEF Measure
  <2>3. IndexInv(r)'  BY <1>3, <1>5, <2>2 DEF IndexInv
  <2>4. Len(Waiting(r)) \in Nat \ {0}  BY <1>1, <2>1, EmptySeq
  <2>5. /\ Head(Waiting(r)) = Waiting(r)[1]
        /\ Len(Tail(Waiting(r))) = Len(Waiting(r)) - 1
        /\ \A k \in 1 .. Len(Tail(Waiting(r))) : Tail(Waiting(r))[k] = Waiting(r)[k + 1]
    BY <1>1, <2>1, HeadTailProperties
  <2>6. 1 \in 1 .. Len(Waiting(r)) /\ \A k \in 1 .. Len(Waiting(r)) - 1 : k + 1 \in 1 .. Len(Waiting(r))
    BY <2>4
  <2>7. EntryInv(r)'  BY <1>3, <2>1, <2>2, <2>5, <2>6 DEF EntryInv
  <2> QED  BY <2>3, <2>7
<1>6. ASSUME \A p \in Procs : ~(Publish(p) /\ at[p] = r), ~(Measure /\ mi = r)
      PROVE  IndexInv(r)' /\ EntryInv(r)'
  <2>1. Waiting(r)' = Waiting(r) /\ out'[r] = out[r]  BY <1>6, WaitingSame
  <2>2. \A k \in 1 .. Len(Waiting(r)) : Waiting(r)[k] \in Nat
    <3>1. \A k \in 1 .. Len(Waiting(r)) : Waiting(r)[k] \in Entries
      BY <1>1, ElementOfSeq
    <3> QED  BY <3>1, QueueAssumption DEF Entries
  <2>3. EntryInv(r)'  BY <1>1, <1>2, <1>3, <2>1, <2>2 DEF EntryInv
  <2>4. ASSUME NEW p \in Procs, Enter(p) \/ LoadMaxSize(p) \/ Realloc(p) \/ Extract(p) \/ NoLabel(p)
        PROVE  IndexInv(r)'
    BY <1>3, <2>4 DEF IndexInv, Enter, LoadMaxSize, Realloc, Extract, NoLabel
  <2>5. ASSUME NEW p \in Procs, Publish(p) PROVE IndexInv(r)'
    <3>1. occupy'[r] = occupy[r]  BY <1>0, <1>6, <2>5 DEF TypeOK, Publish
    <3> QED  BY <1>3, <2>5, <3>1 DEF IndexInv, Publish
  <2>6. ASSUME NEW p \in Procs, StoreMaxSize(p) PROVE IndexInv(r)'
    <3>1. ~Moves(max_size') /\ UNCHANGED <<occupy, deque, mpc, mi, q>>  BY <2>6 DEF StoreMaxSize
    <3>2. max_size' \in Nat  BY <1>0, MaxSizeFacts, QueueAssumption DEF TypeOK
    <3>3. max_size <= max_size'  BY <1>1, <3>1, <3>2 DEF Moves
    <3> QED  BY <1>1, <1>3, <3>1, <3>2, <3>3 DEF IndexInv
  <2>7. ASSUME Skip \/ Measure \/ UNCHANGED vars PROVE IndexInv(r)'
    <3>1. UNCHANGED <<occupy, deque, max_size>>  BY <2>7 DEF Skip, Measure, vars
    <3>2. \/ mpc' = "test"
          \/ mpc' = "deque" /\ mi' = mi /\ mi # r
          \/ mpc' = mpc /\ mi' = mi /\ q' = q
      BY <1>6, <2>7 DEF Skip, Measure, vars
    <3> QED  BY <1>3, <3>1, <3>2 DEF IndexInv
  <2>8. ASSUME Take PROVE IndexInv(r)'
    <3>1. UNCHANGED <<occupy, deque, max_size, mi>> /\ q'.idx = deque[mi] /\ occupy[mi] # deque[mi]
      BY <2>8 DEF Take
    <3> QED  BY <1>3, <3>1 DEF IndexInv
  <2>9. ASSUME Dequeue PROVE IndexInv(r)'
    <3>1. mpc' = "test" /\ UNCHANGED <<occupy, max_size>>  BY <2>9 DEF Dequeue
    <3>2. deque'[r] < max_size
      <4>1. CASE mi = r
        <5>1. deque'[r] = (deque[r] + 1) % max_size  BY <1>0, <2>9, <4>1 DEF TypeOK, Dequeue
        <5>2. (deque[r] + 1) % max_size \in Index(max_size)
          BY <1>0, <1>1, QueueFacts, NextInRing
        <5> QED  BY <1>1, <5>1, <5>2 DEF Index
      <4>2. CASE mi # r  BY <1>0, <1>3, <2>9, <4>2 DEF TypeOK, Dequeue, IndexInv
      <4> QED  BY <4>1, <4>2
    <3> QED  BY <1>3, <3>1, <3>2 DEF IndexInv
  <2>10. IndexInv(r)'
    BY <2>4, <2>5, <2>6, <2>7, <2>8, <2>9 DEF Next, ProcessLcore, Monitor
  <2> QED  BY <2>3, <2>10
<1>7. IndexInv(r)' /\ EntryInv(r)'
  BY <1>4, <1>5, <1>6
<1> QED  BY <1>7 DEF QueueInv

\* Room in a buffer that has not wrapped stays when the modulus grows.
LEMMA RoomGrows ==
  ASSUME NEW N \in Nat \ {0}, NEW M \in Nat \ {0}, N <= M, NEW o \in Index(N), NEW d \in Index(N),
         d <= o, (o + 1) % N # d
  PROVE  (o + 1) % M # d
<1>1. (o + 1) % N = IF o + 1 = N THEN 0 ELSE o + 1  BY NextInRing
<1>2. o \in Index(M)  BY DEF Index
<1>3. (o + 1) % M = IF o + 1 = M THEN 0 ELSE o + 1  BY <1>2, NextInRing
<1> DEFINE a == (o + 1) % N
           b == (o + 1) % M
<1>4. (a = IF o + 1 = N THEN 0 ELSE o + 1) /\ (b = IF o + 1 = M THEN 0 ELSE o + 1) /\ a # d
  BY <1>1, <1>3
<1> HIDE DEF a, b
<1>5. b # d  BY <1>4 DEF Index
<1> QED  BY <1>5 DEF b

\* A modulus that leaves a slot behind the write index makes room.
LEMMA RoomBeyond ==
  ASSUME NEW M \in Nat \ {0}, NEW o \in Nat, NEW d \in Nat, d <= o, o + 1 < M
  PROVE  (o + 1) % M # d
<1>1. o \in Index(M)  BY DEF Index
<1>2. (o + 1) % M = o + 1  BY <1>1, NextInRing
<1> QED  BY <1>2

\* A reader that gives back a slot takes no room from the writer.
LEMMA RoomDequeue ==
  ASSUME NEW N \in Nat \ {0}, NEW o \in Index(N), NEW d \in Index(N), o # d
  PROVE  (o + 1) % N # (d + 1) % N
<1> DEFINE a == (o + 1) % N
           b == (d + 1) % N
<1>1. (a = IF o + 1 = N THEN 0 ELSE o + 1) /\ (b = IF d + 1 = N THEN 0 ELSE d + 1)
  BY NextInRing
<1> HIDE DEF a, b
<1>2. a # b  BY <1>1 DEF Index
<1> QED  BY <1>2 DEF a, b

\* What process lcore p relies on outlasts its own steps ...
LEMMA WriterOwnStep ==
  ASSUME TypeInv, Sound, [Next]_vars, damage' = {}, NEW p \in Procs, ProcessLcore(p)
  PROVE  WriterInv(p)'
<1> USE DEF memVars, prVars, monVars
<1>0. TypeOK /\ TypeOK' /\ WriterInv(p)  BY TypeStep DEF TypeInv, Sound
<1>1. CASE Enter(p)
  <2>1. PICK r \in Served(p) :
          /\ at' = [at EXCEPT ![p] = r]
          /\ ppc' = [ppc EXCEPT ![p] = IF IsFull(r) THEN "load" ELSE "fill"]
    BY <1>1 DEF Enter
  <2>2. at'[p] = r /\ (ppc'[p] = IF IsFull(r) THEN "load" ELSE "fill")  BY <1>0, <2>1 DEF TypeOK
  <2>3. UNCHANGED <<occupy, deque, max_size>>  BY <1>1 DEF Enter
  <2> QED  BY <2>2, <2>3 DEF WriterInv, HasRoom, IsFull
<1>2. CASE LoadMaxSize(p)
  <2>1. ppc'[p] = "store" /\ loaded'[p] = max_size /\ at' = at /\ occupy' = occupy
    BY <1>0, <1>2 DEF TypeOK, LoadMaxSize
  <2>2. occupy[at[p]] < max_size  BY <1>0 DEF TypeOK, Sound, QueueInv, IndexInv
  <2> QED  BY <2>1, <2>2 DEF WriterInv
<1>3. ASSUME NEW r \in Queues, at[p] = r, StoreMaxSize(p) PROVE WriterInv(p)'
  <2>1. ppc'[p] = "realloc" /\ at'[p] = r /\ UNCHANGED <<occupy, deque>>
    BY <1>0, <1>3 DEF TypeOK, StoreMaxSize
  <2>2. max_size' = loaded[p] + REBUFF /\ occupy[r] < loaded[p] /\ ~Moves(max_size')
    BY <1>0, <1>3 DEF StoreMaxSize, WriterInv
  <2>3. occupy[r] \in Nat /\ deque[r] \in Nat /\ loaded[p] \in Nat /\ max_size' \in Nat
    BY <1>0, QueueAssumption, MaxSizeFacts DEF TypeOK, Indices
  <2>4. deque[r] <= occupy[r]  BY <2>2, <2>3 DEF Moves
  <2> DEFINE M == max_size'
             o == occupy[r]
             d == deque[r]
  <2>5. M \in Nat \ {0} /\ o \in Nat /\ d \in Nat /\ d <= o /\ o + 1 < M
    BY <2>2, <2>3, <2>4, QueueAssumption
  <2> HIDE DEF M, o, d
  <2>6. (o + 1) % M # d  BY <2>5, RoomBeyond
  <2>7. HasRoom(r)'  BY <2>1, <2>6 DEF HasRoom, M, o, d
  <2> QED  BY <2>1, <2>7 DEF WriterInv
<1>4. ASSUME NEW r \in Queues, at[p] = r, Realloc(p) PROVE WriterInv(p)'
  <2>1. /\ ppc'[p] = "fill" /\ ppc[p] = "realloc" /\ at'[p] = r
        /\ UNCHANGED <<occupy, deque, max_size>>
    BY <1>0, <1>4 DEF TypeOK, Realloc
  <2>2. HasRoom(r)'  BY <1>0, <1>4, <2>1 DEF WriterInv, HasRoom
  <2> QED  BY <2>1, <2>2 DEF WriterInv
<1>5. ASSUME NEW r \in Queues, at[p] = r, Extract(p) PROVE WriterInv(p)'
  <2>1. /\ ppc'[p] = "publish" /\ ppc[p] = "fill" /\ at'[p] = r
        /\ UNCHANGED <<occupy, deque, max_size, out>>
        /\ offered'[r] = offered[r] + 1
    BY <1>0, <1>5 DEF TypeOK, Extract
  <2>2. HasRoom(r)'  BY <1>0, <1>5, <2>1 DEF WriterInv, HasRoom
  <2>3. occupy[r] < RxQue_size[r]  BY <1>5 DEF Extract
  <2>4. array'[r][occupy[r]] = offered[r] + 1
    BY <1>0, <1>5, <2>3 DEF TypeOK, Extract
  <2>5. Waiting(r)' = Waiting(r)
    <3>1. \A o \in Procs : ~(Publish(o) /\ at[o] = r)
      <4> SUFFICES ASSUME NEW o \in Procs, Publish(o), at[o] = r PROVE FALSE
        OBVIOUS
      <4>1. o = p  BY <1>0, <1>5, OneWriter DEF Publish, Extract
      <4> QED  BY <1>5, <4>1 DEF Publish, Extract
    <3>2. ~Measure  BY <1>0, <1>5, <2>1 DEF Measure
    <3> QED  BY <3>1, <3>2, WaitingSame
  <2>6. QueueInv(r) /\ offered[r] \in Nat /\ out[r] \in Nat /\ Waiting(r) \in Seq(Entries)
    <3>1. QueueInv(r)  BY DEF Sound
    <3>2. offered[r] \in Nat /\ out[r] \in Nat  BY <1>0 DEF TypeOK, Entries
    <3> QED  BY <1>0, <3>1, <3>2, QueueFacts
  <2>7. \A k \in 1 .. Len(Waiting(r)) : Waiting(r)[k] \in Nat
    <3>1. \A k \in 1 .. Len(Waiting(r)) : Waiting(r)[k] \in Entries  BY <2>6, ElementOfSeq
    <3> QED  BY <3>1, QueueAssumption DEF Entries
  <2>8. \A k \in 1 .. Len(Waiting(r)) : Waiting(r)[k] < offered[r] + 1
    BY <2>6, <2>7 DEF QueueInv, EntryInv
  <2>9. out[r] < offered[r] + 1  BY <2>6 DEF QueueInv, EntryInv
  <2> QED  BY <2>1, <2>2, <2>4, <2>5, <2>8, <2>9 DEF WriterInv
<1>6. CASE NoLabel(p) \/ Publish(p)
  <2>1. ppc'[p] = "idle"  BY <1>0, <1>6 DEF TypeOK, NoLabel, Publish
  <2> QED  BY <2>1 DEF WriterInv
<1>7. at[p] \in Queues  BY <1>0 DEF TypeOK
<1> QED  BY <1>1, <1>2, <1>3, <1>4, <1>5, <1>6, <1>7 DEF ProcessLcore

\* ... and those of the others.
LEMMA WriterOtherStep ==
  ASSUME TypeInv, Sound, [Next]_vars, damage' = {}, NEW p \in Procs, NEW r \in Queues, at[p] = r,
         ppc[p] # "idle", ~ProcessLcore(p)
  PROVE  WriterInv(p)'
<1> USE DEF memVars, prVars, monVars
<1>0. TypeOK /\ TypeOK' /\ WriterInv(p) /\ QueueInv(r)  BY TypeStep DEF TypeInv, Sound
<1>1. ASSUME NEW o \in Procs, ProcessLcore(o), ppc[o] # "idle" PROVE at[o] # r
  <2>1. o # p  BY <1>1
  <2> QED  BY <1>0, <1>1, <2>1, OneWriter
<1>2. ppc'[p] = ppc[p] /\ at'[p] = r /\ loaded'[p] = loaded[p]
  <2>1. CASE Monitor \/ UNCHANGED vars
    BY <2>1 DEF Monitor, Skip, Take, Measure, Dequeue, vars
  <2>2. ASSUME NEW o \in Procs, ProcessLcore(o)
        PROVE  ppc'[p] = ppc[p] /\ at'[p] = r /\ loaded'[p] = loaded[p]
    <3>1. o # p  BY <2>2
    <3>2. UNCHANGED <<at, loaded>> \/ (\E s \in Queues : at' = [at EXCEPT ![o] = s] /\ loaded' = loaded)
            \/ (at' = at /\ loaded' = [loaded EXCEPT ![o] = max_size])
      BY <2>2, ServedQueue DEF ProcessLcore, Enter, LoadMaxSize, StoreMaxSize, Realloc, Extract, NoLabel, Publish
    <3>3. \E s : ppc' = [ppc EXCEPT ![o] = s]
      BY <2>2 DEF ProcessLcore, Enter, LoadMaxSize, StoreMaxSize, Realloc, Extract, NoLabel, Publish
    <3> QED  BY <1>0, <3>1, <3>2, <3>3 DEF TypeOK
  <2> QED  BY <2>1, <2>2 DEF Next
<1>3. occupy'[r] = occupy[r] /\ offered'[r] = offered[r] /\ array'[r][occupy[r]] = array[r][occupy[r]]
  <2>1. CASE Monitor \/ UNCHANGED vars
    BY <2>1 DEF Monitor, Skip, Take, Measure, Dequeue, vars
  <2>2. ASSUME NEW o \in Procs, Enter(o) \/ LoadMaxSize(o) \/ StoreMaxSize(o) \/ NoLabel(o)
        PROVE  UNCHANGED <<occupy, offered, array>>
    BY <2>2 DEF Enter, LoadMaxSize, StoreMaxSize, NoLabel
  <2>3. ASSUME NEW o \in Procs, Realloc(o) \/ Extract(o) \/ Publish(o)
        PROVE  occupy'[r] = occupy[r] /\ offered'[r] = offered[r] /\ array'[r] = array[r]
    <3>1. at[o] # r /\ at[o] \in Queues
      BY <1>0, <1>1, <2>3 DEF TypeOK, ProcessLcore, Realloc, Extract, Publish
    <3>2. CASE Realloc(o)  BY <1>0, <3>1, <3>2 DEF TypeOK, Realloc
    <3>3. CASE Extract(o)  BY <1>0, <3>1, <3>3 DEF TypeOK, Extract
    <3>4. CASE Publish(o)  BY <1>0, <3>1, <3>4 DEF TypeOK, Publish
    <3> QED  BY <2>3, <3>2, <3>3, <3>4
  <2> QED  BY <2>1, <2>2, <2>3 DEF Next, ProcessLcore
<1>4. HasRoom(r) => HasRoom(r)'
  <2> SUFFICES ASSUME HasRoom(r) PROVE HasRoom(r)'
    OBVIOUS
  <2>1. ASSUME NEW o \in Procs, StoreMaxSize(o) PROVE HasRoom(r)'
    <3> DEFINE M == max_size'
    <3>1. deque' = deque /\ ~Moves(M)  BY <2>1 DEF StoreMaxSize
    <3>2. M \in Nat \ {0}  BY <1>0, QueueAssumption, MaxSizeFacts DEF TypeOK
    <3>3. /\ max_size \in Nat \ {0} /\ occupy[r] \in Index(max_size) /\ deque[r] \in Index(max_size)
      BY <1>0, QueueFacts
    <3>4. max_size <= M /\ deque[r] <= occupy[r]
      BY <3>1, <3>2, <3>3 DEF Moves, Index
    <3> HIDE DEF M
    <3>5. (occupy[r] + 1) % M # deque[r]
      BY <3>2, <3>3, <3>4, RoomGrows DEF HasRoom
    <3> QED  BY <1>3, <3>1, <3>5 DEF HasRoom, M
  <2>2. ASSUME Dequeue, mi = r PROVE HasRoom(r)'
    <3>1. max_size' = max_size /\ deque'[r] = (deque[r] + 1) % max_size /\ occupy[r] # deque[r]
      BY <1>0, <2>2 DEF TypeOK, Dequeue, QueueInv, IndexInv
    <3>2. (occupy[r] + 1) % max_size # (deque[r] + 1) % max_size
      BY <1>0, <3>1, QueueFacts, RoomDequeue
    <3> QED  BY <1>3, <3>1, <3>2 DEF HasRoom
  <2>3. ASSUME Dequeue, mi # r PROVE UNCHANGED <<deque[r], max_size>>
    BY <1>0, <2>3 DEF TypeOK, Dequeue
  <2>4. ASSUME Skip \/ Take \/ Measure \/ UNCHANGED vars PROVE UNCHANGED <<deque[r], max_size>>
    BY <2>4 DEF Skip, Take, Measure, vars
  <2>5. ASSUME NEW o \in Procs,
               Enter(o) \/ LoadMaxSize(o) \/ Realloc(o) \/ Extract(o) \/ NoLabel(o) \/ Publish(o)
        PROVE  UNCHANGED <<deque[r], max_size>>
    BY <2>5 DEF Enter, LoadMaxSize, Realloc, Extract, NoLabel, Publish
  <2>6. CASE UNCHANGED <<deque[r], max_size>>  BY <1>3, <2>6 DEF HasRoom
  <2> QED  BY <2>1, <2>2, <2>3, <2>4, <2>5, <2>6 DEF Next, ProcessLcore, Monitor
<1> DEFINE Newer == out[r] < offered[r] /\ \A k \in 1 .. Len(Waiting(r)) : Waiting(r)[k] < offered[r]
<1>5. ASSUME Newer PROVE Newer'
  <2>1. CASE Measure /\ mi = r
    <3>1. /\ Waiting(r) # <<>> /\ out'[r] = Head(Waiting(r))
          /\ Waiting(r)' = Tail(Waiting(r))
      BY <1>0, <2>1, WaitingMeasure
    <3>2. Waiting(r) \in Seq(Entries)  BY <1>0, QueueFacts
    <3>3. Len(Waiting(r)) \in Nat \ {0}  BY <3>1, <3>2, EmptySeq
    <3>4. /\ Head(Waiting(r)) = Waiting(r)[1]
          /\ Len(Tail(Waiting(r))) = Len(Waiting(r)) - 1
          /\ \A k \in 1 .. Len(Tail(Waiting(r))) : Tail(Waiting(r))[k] = Waiting(r)[k + 1]
      BY <3>1, <3>2, HeadTailProperties
    <3>5. 1 \in 1 .. Len(Waiting(r)) /\ \A k \in 1 .. Len(Waiting(r)) - 1 : k + 1 \in 1 .. Len(Waiting(r))
      BY <3>3
    <3> QED  BY <1>3, <1>5, <3>1, <3>4, <3>5
  <2>2. CASE ~(Measure /\ mi = r)
    <3>1. \A o \in Procs : ~(Publish(o) /\ at[o] = r)
      BY <1>1 DEF ProcessLcore, Publish
    <3>2. Waiting(r)' = Waiting(r) /\ out'[r] = out[r]  BY <2>2, <3>1, WaitingSame
    <3> QED  BY <1>3, <1>5, <3>2
  <2> QED  BY <2>1, <2>2
<1> DEFINE Inv == /\ ppc[p] = "store" => occupy[r] < loaded[p]
                  /\ ppc[p] \in {"realloc", "fill", "publish"} => HasRoom(r)
                  /\ ppc[p] = "publish" => array[r][occupy[r]] = offered[r] /\ Newer
<1>6. Inv  BY <1>0 DEF WriterInv
<1>7. ppc[p] = "publish" => Newer  BY <1>6
<1>8. ppc[p] = "publish" => Newer'  BY <1>5, <1>7
<1>9. ppc[p] \in {"realloc", "fill", "publish"} => HasRoom(r)'  BY <1>4, <1>6
<1> QED  BY <1>2, <1>3, <1>6, <1>8, <1>9 DEF WriterInv

LEMMA SoundStep ==
  ASSUME TypeInv, SoundInv, [Next]_vars
  PROVE  SoundInv'
<1> SUFFICES ASSUME damage' = {} PROVE Sound'
  BY DEF SoundInv
<1>1. Sound /\ TypeOK  BY DamageStays DEF SoundInv, TypeInv
<1>2. \A r \in Queues : QueueInv(r)'  BY <1>1, QueueStep
<1>3. ASSUME NEW p \in Procs PROVE WriterInv(p)'
  <2>1. CASE ProcessLcore(p)  BY <1>1, <2>1, WriterOwnStep
  <2>2. CASE ~ProcessLcore(p) /\ ppc[p] # "idle"
    <3>1. at[p] \in Queues  BY <1>1 DEF TypeOK
    <3> QED  BY <1>1, <2>2, <3>1, WriterOtherStep
  <2>3. CASE ~ProcessLcore(p) /\ ppc[p] = "idle"
    <3>1. ppc'[p] = "idle"
      <4>1. CASE Monitor \/ UNCHANGED vars
        BY <2>3, <4>1 DEF Monitor, Skip, Take, Measure, Dequeue, vars, prVars
      <4>2. ASSUME NEW o \in Procs, ProcessLcore(o) PROVE ppc'[p] = "idle"
        <5>1. o # p  BY <2>3, <4>2
        <5>2. \E s : ppc' = [ppc EXCEPT ![o] = s]
          BY <4>2 DEF ProcessLcore, Enter, LoadMaxSize, StoreMaxSize, Realloc, Extract, NoLabel, Publish
        <5> QED  BY <1>1, <2>3, <5>1, <5>2 DEF TypeOK
      <4> QED  BY <4>1, <4>2 DEF Next
    <3> QED  BY <3>1 DEF WriterInv
  <2> QED  BY <2>1, <2>2, <2>3
<1> QED  BY <1>2, <1>3 DEF Sound

\* The state of the abstract queues.
queueBar == [r \in Queues |-> Waiting(r)]

LEMMA FifoInit == Init => Fifo!Init
<1> SUFFICES ASSUME Init PROVE Fifo!Init
  OBVIOUS
<1>1. damage = {} /\ TypeOK  BY TypeInit DEF Init, TypeInv
<1>2. ASSUME NEW r \in Queues PROVE Waiting(r) = <<>>
  <2>1. QueueInv(r)  BY <1>1, SoundInit DEF SoundInv, Sound
  <2>2. Waiting(r) \in Seq(Entries)  BY <1>1, <2>1, QueueFacts
  <2>3. Waiting(r) = RingSeq(array[r], max_size, 0, 0, 0)  BY WaitingIs DEF Init, Taken
  <2>4. Filled(max_size, 0, 0) = 0  BY DEF Filled
  <2>5. Len(RingSeq(array[r], max_size, 0, 0, 0)) = 0
    <3>1. /\ max_size \in Nat \ {0} /\ 0 \in Index(max_size) /\ Holds(array[r], max_size, Entries)
          /\ 0 \in {0, 1} /\ 0 <= Filled(max_size, 0, 0)
      BY <1>1, <2>1, <2>4, QueueFacts DEF Init
    <3>2. Len(RingSeq(array[r], max_size, 0, 0, 0)) = Filled(max_size, 0, 0) - 0
      BY <3>1, RingSeqFacts
    <3> QED  BY <2>4, <3>2
  <2> QED  BY <2>2, <2>3, <2>5, EmptySeq
<1>3. out = [r \in Queues |-> 0]  BY DEF Init
<1> QED  BY <1>2, <1>3 DEF Fifo!Init

\* Publish is Accept, Measure is Deliver, all others stutter.
LEMMA FifoStep ==
  ASSUME TypeInv, SoundInv, [Next]_vars, damage' = {}
  PROVE  Fifo!Next \/ UNCHANGED Fifo!fifoVars
<1>0. TypeOK /\ TypeOK' /\ Sound
  BY DamageStays, TypeStep DEF TypeInv, SoundInv
<1>1. ASSUME NEW p \in Procs, NEW r \in Queues, at[p] = r, Publish(p) PROVE Fifo!Next
  <2>1. \A s \in Queues \ {r} : Waiting(s)' = Waiting(s)
    <3>1. \A s \in Queues \ {r} : \A o \in Procs : ~(Publish(o) /\ at[o] = s)
      <4> SUFFICES ASSUME NEW o \in Procs, Publish(o), at[o] # r PROVE FALSE
        OBVIOUS
      <4>1. ppc[p] = "publish" /\ ppc'[p] = "idle" /\ o # p
        BY <1>0, <1>1 DEF TypeOK, Publish
      <4> QED  BY <1>0, <4>1 DEF TypeOK, Publish
    <3>2. ~Measure
      <4>1. ppc[p] = "publish" /\ ppc'[p] = "idle"  BY <1>0, <1>1 DEF TypeOK, Publish
      <4> QED  BY <4>1 DEF Measure, prVars
    <3> QED  BY <1>0, <3>1, <3>2, WaitingSame
  <2>2. Waiting(r)' = Append(Waiting(r), offered[r]) /\ Len(Waiting(r)) < MaxSize - 1 /\ out' = out
    BY <1>0, <1>1, WaitingPublish DEF Publish, monVars
  <2> DEFINE x == offered[r]
             w == Waiting(r)
  <2>3. /\ out[r] < x /\ x \in Nat /\ x <= MaxPkts /\ out[r] \in Nat
        /\ w \in Seq(Entries) /\ \A k \in 1 .. Len(w) : w[k] < x
    <3>1. WriterInv(p) /\ QueueInv(r) /\ ppc[p] = "publish"  BY <1>0, <1>1 DEF Sound, Publish
    <3>2. out[r] < x /\ \A k \in 1 .. Len(w) : w[k] < x  BY <1>1, <3>1 DEF WriterInv
    <3>3. x \in Nat /\ x <= MaxPkts /\ out[r] \in Nat  BY <1>0, QueueAssumption DEF TypeOK, Entries
    <3>4. w \in Seq(Entries)  BY <1>0, <3>1, QueueFacts
    <3> QED  BY <3>2, <3>3, <3>4
  <2>4. x > (IF w = <<>> THEN out[r] ELSE w[Len(w)])
    <3> HIDE DEF x, w
    <3>1. CASE w # <<>>
      <4>1. Len(w) \in 1 .. Len(w)  BY <2>3, <3>1, EmptySeq
      <4>2. w[Len(w)] \in Nat
        <5>1. w[Len(w)] \in Entries  BY <2>3, <4>1, ElementOfSeq
        <5> QED  BY <5>1, QueueAssumption DEF Entries
      <4>3. w[Len(w)] < x  BY <2>3, <4>1
      <4>4. x > w[Len(w)]  BY <2>3, <4>2, <4>3
      <4> QED  BY <3>1, <4>4
    <3>2. CASE w = <<>>
      <4>1. x > out[r]  BY <2>3
      <4> QED  BY <3>2, <4>1
    <3> QED  BY <3>1, <3>2
  <2>5. queueBar' = [queueBar EXCEPT ![r] = Append(@, x)] /\ queueBar[r] = w
    BY <2>1, <2>2 DEF queueBar
  <2>6. x \in 1 .. MaxPkts  BY <2>3
  <2>7. Fifo!Accept(r, x)
    <3>1. Len(queueBar[r]) < MaxSize - 1  BY <2>2, <2>5
    <3>2. x > (IF queueBar[r] = <<>> THEN out[r] ELSE queueBar[r][Len(queueBar[r])])
      BY <2>4, <2>5
    <3> HIDE DEF x, w
    <3> QED  BY <2>2, <2>5, <3>1, <3>2 DEF Fifo!Accept, Fifo!Newest, queueBar
  <2> HIDE DEF x
  <2> QED  BY <2>6, <2>7 DEF Fifo!Next
<1>2. ASSUME NEW r \in Queues, Measure, mi = r PROVE Fifo!Next
  <2>1. \A s \in Queues \ {r} : Waiting(s)' = Waiting(s) /\ out'[s] = out[s]
    <3>1. \A p \in Procs : ~Publish(p)
      <4> SUFFICES ASSUME NEW p \in Procs, Publish(p) PROVE FALSE
        OBVIOUS
      <4>1. ppc[p] = "publish" /\ ppc'[p] = "idle"  BY <1>0 DEF TypeOK, Publish
      <4> QED  BY <1>2, <4>1 DEF Measure, prVars
    <3> QED  BY <1>0, <1>2, <3>1, WaitingSame
  <2>2. Waiting(r) # <<>> /\ out'[r] = Head(Waiting(r)) /\ Waiting(r)' = Tail(Waiting(r))
    BY <1>0, <1>2, WaitingMeasure
  <2>3. /\ queueBar' = [queueBar EXCEPT ![r] = Tail(@)] /\ queueBar[r] # <<>>
        /\ out' = [out EXCEPT ![r] = Head(queueBar[r])]
    BY <1>0, <2>1, <2>2 DEF queueBar, TypeOK
  <2>4. Fifo!Deliver(r)  BY <2>3 DEF Fifo!Deliver, queueBar
  <2> QED  BY <2>4 DEF Fifo!Next
<1>3. CASE ~Measure /\ \A p \in Procs : ~Publish(p)
  <2>1. \A r \in Queues : Waiting(r)' = Waiting(r) /\ out'[r] = out[r]
    BY <1>0, <1>3, WaitingSame
  <2>2. out' = out  BY <1>0, <2>1 DEF TypeOK
  <2> QED  BY <2>1, <2>2 DEF Fifo!fifoVars
<1>4. mi \in Queues /\ \A p \in Procs : at[p] \in Queues  BY <1>0 DEF TypeOK
<1> QED  BY <1>1, <1>2, <1>3, <1>4

\* The metadata queues are bounded FIFOs, each entry handed on once and in order,
\* and stay so through every growth and every interleaving of the lcores, up to
\* the step in which entries move, an lcore reaches outside an array or the
\* monitor uses a pointer from before a reallocation.
THEOREM QueuesImplementFifo == Spec => FifoWhileSound
<1>1. TypeInv /\ SoundInv /\ [Next]_vars
        => [damage' = {} => Fifo!Next \/ UNCHANGED Fifo!fifoVars]_vars
  BY FifoStep
<1>2. TypeInv /\ SoundInv /\ [Next]_vars => SoundInv'
  BY SoundStep
<1> QED  BY TypesAlways, SoundInit, FifoInit, <1>1, <1>2, PTL DEF Spec, FifoWhileSound
=============================================================================
