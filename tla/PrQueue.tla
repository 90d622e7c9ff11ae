------------------------------ MODULE PrQueue -------------------------------
(***************************************************************************)
(* The metadata queues of HCMonitor: a process lcore appends what it       *)
(* parsed from ring r to PrQue[r] (monitor.c, packet_process and           *)
(* key_extract), the MONITOR lcore goes round all queues and hands one     *)
(* entry per visit to response_time_process (main.c, l2fwd_main_loop).     *)
(*                                                                         *)
(* A full queue is not refused: packet_process enlarges max_size, which    *)
(* ALL queues use for their wrap-around, and reallocates the array of this *)
(* queue only.  The lcores hold no lock, so the read and the write of      *)
(* max_size and the monitor's use of a pointer it computed are steps of    *)
(* their own.  (The full check reads max_size and deque in one step: the   *)
(* lcore's own index is the third operand, and a deque read late only      *)
(* makes the queue look fuller.)                                           *)
(*                                                                         *)
(* An entry is known by the number of its packet among the labelled        *)
(* packets of its ring, 0 is memory nothing was stored in.  What the code  *)
(* does to memory it does not own is undefined: a write outside the array  *)
(* is lost, a read returns anything the array ever held or 0, and the      *)
(* ghost `damage' remembers that it happened.                              *)
(***************************************************************************)
EXTENDS Lcores, Sequences, FiniteSets

CONSTANTS
  QUESIZE,              \* elements each array starts with (BUFSIZE / rx_que)
  REBUFF,               \* elements a growth adds to max_size
  MaxPkts,              \* bound: labelled packets per queue
  MaxGrowth             \* bound: reallocations per queue

ASSUME QueueAssumption ==
  /\ QUESIZE \in Nat \ {0} /\ REBUFF \in Nat \ {0}
  /\ MaxPkts \in Nat /\ MaxGrowth \in Nat

Queues == Rings
Served(p) == pos(p) .. end(p) - 1

VARIABLES
  max_size,             \* the modulus every queue uses
  RxQue_size,           \* elements allocated to each queue's array
  RxQue_gen,            \* reallocations of each array so far
  array,                \* contents of each array
  occupy, deque,        \* write and read index of each queue
  ppc, at, loaded,      \* process lcore: next step, its queue, max_size read
  offered,              \* labelled packets of each ring so far
  mpc, mi, q,           \* monitor: next step, queue, pointer [gen, idx]
  out,                  \* entry last handed to response_time_process, per queue
  damage                \* ghost, see above: "moved", "outside", "dangling"

prVars == <<ppc, at, loaded, offered>>
monVars == <<mpc, mi, q, out>>
memVars == <<RxQue_size, RxQue_gen, array>>
vars == <<max_size, memVars, occupy, deque, prVars, monVars, damage>>

MaxSize == QUESIZE + RxQue * MaxGrowth * REBUFF
Indices == 0 .. MaxSize - 1
Entries == 0 .. MaxPkts

Init ==
  /\ max_size = QUESIZE
  /\ RxQue_size = [r \in Queues |-> QUESIZE]
  /\ RxQue_gen = [r \in Queues |-> 0]
  /\ array = [r \in Queues |-> [i \in Indices |-> 0]]
  /\ occupy = [r \in Queues |-> 0]
  /\ deque = [r \in Queues |-> 0]
  /\ ppc = [p \in Procs |-> "idle"]
  /\ at = [p \in Procs |-> 0]
  /\ loaded = [p \in Procs |-> 0]
  /\ offered = [r \in Queues |-> 0]
  /\ mpc = "test" /\ mi = 0 /\ q = [gen |-> 0, idx |-> 0]
  /\ out = [r \in Queues |-> 0]
  /\ damage = {}
-----------------------------------------------------------------------------
(* Process lcore p: packet_process for a packet of a ring it serves.       *)

IsFullLate(r) == occupy[r] + 1 = deque[r]      \* mutant: forgets the wrap
IsFull(r) == (occupy[r] + 1) % max_size = deque[r]

EnterAny(p) ==                  \* mutant: not only the rings of its share
  /\ ppc[p] = "idle"
  /\ \E r \in Queues :
       /\ offered[r] < MaxPkts
       /\ IsFull(r) => RxQue_gen[r] < MaxGrowth
       /\ at' = [at EXCEPT ![p] = r]
       /\ ppc' = [ppc EXCEPT ![p] = IF IsFull(r) THEN "load" ELSE "fill"]
  /\ UNCHANGED <<max_size, memVars, occupy, deque, loaded, offered, monVars, damage>>

Enter(p) ==
  /\ ppc[p] = "idle"
  /\ \E r \in Served(p) :
       /\ offered[r] < MaxPkts
       /\ IsFull(r) => RxQue_gen[r] < MaxGrowth
       /\ at' = [at EXCEPT ![p] = r]
       /\ ppc' = [ppc EXCEPT ![p] = IF IsFull(r) THEN "load" ELSE "fill"]
  /\ UNCHANGED <<max_size, memVars, occupy, deque, loaded, offered, monVars, damage>>

LoadMaxSize(p) ==
  /\ ppc[p] = "load"
  /\ loaded' = [loaded EXCEPT ![p] = max_size]
  /\ ppc' = [ppc EXCEPT ![p] = "store"]
  /\ UNCHANGED <<max_size, memVars, occupy, deque, at, offered, monVars, damage>>

\* A new modulus moves the entries of every queue that has wrapped around,
\* and a smaller one (the sum was taken from an older value) of any queue.
Moves(newSize) ==
  newSize < max_size \/ \E r \in Queues : deque[r] > occupy[r]

StoreMaxSize(p) ==
  /\ ppc[p] = "store"
  /\ max_size' = loaded[p] + REBUFF
  /\ damage' = damage \cup (IF Moves(max_size') THEN {"moved"} ELSE {})
  /\ ppc' = [ppc EXCEPT ![p] = "realloc"]
  /\ UNCHANGED <<memVars, occupy, deque, at, loaded, offered, monVars>>

Realloc(p) ==
  /\ ppc[p] = "realloc"
  /\ LET r == at[p] IN
       /\ RxQue_size' = [RxQue_size EXCEPT ![r] = max_size]
       /\ RxQue_gen' = [RxQue_gen EXCEPT ![r] = @ + 1]
       /\ array' = [array EXCEPT ![r] =
                      [i \in Indices |-> IF i < max_size THEN @[i] ELSE 0]]
  /\ ppc' = [ppc EXCEPT ![p] = "fill"]
  /\ UNCHANGED <<max_size, occupy, deque, at, loaded, offered, monVars, damage>>

\* key_extract finds a request or response label and fills the entry.
Extract(p) ==
  /\ ppc[p] = "fill"
  /\ LET r == at[p]
         inside == occupy[r] < RxQue_size[r]
     IN /\ offered' = [offered EXCEPT ![r] = @ + 1]
        /\ array' = IF inside THEN [array EXCEPT ![r][occupy[r]] = offered[r] + 1]
                              ELSE array
        /\ damage' = damage \cup (IF inside THEN {} ELSE {"outside"})
  /\ ppc' = [ppc EXCEPT ![p] = "publish"]
  /\ UNCHANGED <<max_size, RxQue_size, RxQue_gen, occupy, deque, at, loaded, monVars>>

\* Neither label: packet_process returns 0, the queue may have grown anyway.
NoLabel(p) ==
  /\ ppc[p] = "fill"
  /\ ppc' = [ppc EXCEPT ![p] = "idle"]
  /\ UNCHANGED <<max_size, memVars, occupy, deque, at, loaded, offered, monVars, damage>>

PublishNoWrap(p) ==             \* mutant: the index runs off the array
  /\ ppc[p] = "publish"
  /\ occupy' = [occupy EXCEPT ![at[p]] = @ + 1]
  /\ ppc' = [ppc EXCEPT ![p] = "idle"]
  /\ UNCHANGED <<max_size, memVars, deque, at, loaded, offered, monVars, damage>>

Publish(p) ==
  /\ ppc[p] = "publish"
  /\ occupy' = [occupy EXCEPT ![at[p]] = (@ + 1) % max_size]
  /\ ppc' = [ppc EXCEPT ![p] = "idle"]
  /\ UNCHANGED <<max_size, memVars, deque, at, loaded, offered, monVars, damage>>

ProcessLcore(p) ==
  \/ Enter(p)
  \/ LoadMaxSize(p)
  \/ StoreMaxSize(p)
  \/ Realloc(p)
  \/ Extract(p)
  \/ NoLabel(p)
  \/ Publish(p)
-----------------------------------------------------------------------------
(* The MONITOR lcore.                                                      *)

NextQueueShort == (mi + 1) % (IF RxQue > 1 THEN RxQue - 1 ELSE 1)  \* mutant: off by one
NextQueue == (mi + 1) % RxQue

Skip ==
  /\ mpc = "test"
  /\ occupy[mi] = deque[mi]
  /\ mi' = NextQueue
  /\ UNCHANGED <<max_size, memVars, occupy, deque, prVars, mpc, q, out, damage>>

Take ==
  /\ mpc = "test"
  /\ occupy[mi] # deque[mi]
  /\ q' = [gen |-> RxQue_gen[mi], idx |-> deque[mi]]
  /\ mpc' = "read"
  /\ UNCHANGED <<max_size, memVars, occupy, deque, prVars, mi, out, damage>>

\* response_time_process reads the entry through the pointer taken before.
Measure ==
  /\ mpc = "read"
  /\ LET dangling == q.gen # RxQue_gen[mi]
         outside == q.idx >= RxQue_size[mi]
         wild == dangling \/ outside
     IN /\ \E n \in {array[mi][q.idx]} \cup (IF wild THEN {0} ELSE {}) :
             out' = [out EXCEPT ![mi] = n]
        /\ damage' = damage \cup (IF dangling THEN {"dangling"} ELSE {})
                            \cup (IF outside THEN {"outside"} ELSE {})
  /\ mpc' = "deque"
  /\ UNCHANGED <<max_size, memVars, occupy, deque, prVars, mi, q>>

Dequeue ==
  /\ mpc = "deque"
  /\ deque' = [deque EXCEPT ![mi] = (@ + 1) % max_size]
  /\ mi' = NextQueue
  /\ mpc' = "test"
  /\ UNCHANGED <<max_size, memVars, occupy, prVars, q, out, damage>>

Monitor == Skip \/ Take \/ Measure \/ Dequeue
-----------------------------------------------------------------------------
Next == Monitor \/ \E p \in Procs : ProcessLcore(p)

Spec == Init /\ [][Next]_vars

\* The MONITOR lcore spins for ever on a core of its own.
FairSpec == Spec /\ WF_vars(Monitor)
-----------------------------------------------------------------------------
(* Correctness.                                                            *)

\* Type invariant.
TypeOK ==
  /\ max_size \in QUESIZE .. MaxSize
  /\ RxQue_size \in [Queues -> QUESIZE .. MaxSize]
  /\ RxQue_gen \in [Queues -> 0 .. MaxGrowth]
  /\ array \in [Queues -> [Indices -> Entries]]
  /\ occupy \in [Queues -> Indices]
  /\ deque \in [Queues -> Indices]
  /\ ppc \in [Procs -> {"idle", "load", "store", "realloc", "fill", "publish"}]
  /\ at \in [Procs -> Queues]
  /\ \A p \in Procs : ppc[p] # "idle" => at[p] \in Served(p)
  /\ loaded \in [Procs -> 0 .. MaxSize]
  /\ offered \in [Queues -> Entries]
  /\ mpc \in {"test", "read", "deque"}
  /\ mi \in Queues
  /\ q \in [gen : 0 .. MaxGrowth, idx : Indices]
  /\ out \in [Queues -> Entries]
  /\ damage \subseteq {"moved", "outside", "dangling"}

\* The entries of queue r that wait to be measured.
Waiting(r) ==
  LET count == (occupy[r] - deque[r]) % max_size
      first == IF mpc = "deque" /\ mi = r THEN 1 ELSE 0
  IN [k \in 1 .. count - first |-> array[r][(deque[r] + first + k - 1) % max_size]]

Fifo == INSTANCE PacketFifo WITH
  Queues <- Queues, Packets <- 1 .. MaxPkts, Capacity <- MaxSize - 1,
  queue <- [r \in Queues |-> Waiting(r)]

\* The queues are FIFOs, through growths too, as long as no growth moved
\* entries, no lcore reached outside an array and the monitor used no pointer
\* from before a reallocation: these three are all that can go wrong.
FifoWhileSound ==
  Fifo!Init /\ [][damage' = {} => Fifo!Next \/ UNCHANGED Fifo!fifoVars]_vars

\* Until a queue first fills up nothing can go wrong at all, for the index
\* arithmetic of both sides then agrees with the size of every array.
SoundUntilGrowth == max_size = QUESIZE => damage = {}

\* The monitor's round serves every queue: whatever was published is measured,
\* unless the memory was damaged first.
EveryEntryMeasured ==
  \A r \in Queues, n \in 1 .. MaxPkts :
    (\E k \in DOMAIN Waiting(r) : Waiting(r)[k] = n) ~> (out[r] = n \/ damage # {})

\* README.md: "Accurate measurement of per-request latency".  Then the monitor
\* leaves out none of the requests and responses queued for it, at the very
\* least as long as both lcores stay inside valid arrays.
NoEntrySkipped ==
  [][\A r \in Queues :
       out'[r] # out[r] /\ damage' \subseteq {"moved"} => out'[r] = out[r] + 1]_vars
=============================================================================
