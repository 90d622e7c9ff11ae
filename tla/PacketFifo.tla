----------------------------- MODULE PacketFifo -----------------------------
(***************************************************************************)
(* What a set of bounded single-producer single-consumer packet queues     *)
(* promises: each queue hands out its packets, named by their arrival      *)
(* numbers, in the order they went in, each once, and never lets more than *)
(* Capacity of them wait.  SsdRing implements this module; PrQueue         *)
(* does so until one of its arrays has to grow.                            *)
(***************************************************************************)
EXTENDS Naturals, Sequences

CONSTANTS
  Queues,               \* the queues
  Packets,              \* arrival numbers, a set of positive naturals
  Capacity              \* packets that may wait in a queue at the same time

VARIABLES
  queue,                \* arrival numbers that wait in each queue, oldest first
  out                   \* packet each queue delivered last, 0 before the first

fifoVars == <<queue, out>>

Newest(r) == IF queue[r] = <<>> THEN out[r] ELSE queue[r][Len(queue[r])]

Init ==
  /\ queue = [r \in Queues |-> <<>>]
  /\ out = [r \in Queues |-> 0]

Accept(r, n) ==
  /\ n > Newest(r)
  /\ Len(queue[r]) < Capacity
  /\ queue' = [queue EXCEPT ![r] = Append(@, n)]
  /\ UNCHANGED out

Deliver(r) ==
  /\ queue[r] # <<>>
  /\ out' = [out EXCEPT ![r] = Head(queue[r])]
  /\ queue' = [queue EXCEPT ![r] = Tail(@)]

Next == \E r \in Queues : Deliver(r) \/ \E n \in Packets : Accept(r, n)

Spec == Init /\ [][Next]_fifoVars
=============================================================================
