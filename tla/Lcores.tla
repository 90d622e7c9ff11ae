------------------------------- MODULE Lcores -------------------------------
(***************************************************************************)
(* Who does what in HCMonitor: the numbering of the lcores that main hands *)
(* out, the loop each lcore enters in l2fwd_main_loop, and the rings each  *)
(* process lcore serves (main.c).                                          *)
(***************************************************************************)
EXTENDS Integers

CONSTANTS
  RxQue,                \* conf->rx_que: RX lcores, NIC queues, rings and queues
  PrQue                 \* conf->pr_que: process lcores

ASSUME LcoreAssumption == RxQue \in Nat \ {0} /\ PrQue \in Nat \ {0}

RX_LCORE == 0
PCAP_LCORE == RX_LCORE + RxQue
MONITOR_LCORE == PCAP_LCORE + PrQue
TIMER_LCORE == MONITOR_LCORE + 1
CDF_LCORE == TIMER_LCORE + 1
TSTAMP_LCORE == CDF_LCORE + 1

\* lcore_queue_conf: main gives a port to the lcores 0 .. rx_que - 1.
HasPort(lcore_id) == lcore_id \in 0 .. RxQue - 1

\* The loops whose tests lcore_id passes, in the order of the code.  None
\* ends, so an lcore of two roles would only ever play the first.
Enters(lcore_id, role) ==
  \/ role = "process" /\ lcore_id >= RxQue /\ lcore_id < MONITOR_LCORE
  \/ role = "monitor" /\ lcore_id = MONITOR_LCORE
  \/ role = "tstamp" /\ lcore_id = TSTAMP_LCORE
  \/ role = "timer" /\ lcore_id = TIMER_LCORE
  \/ role = "cdf" /\ lcore_id = CDF_LCORE
  \/ role = "rx" /\ HasPort(lcore_id)

Rings == 0 .. RxQue - 1
Procs == 0 .. PrQue - 1                 \* idx = lcore_id - PCAP_LCORE

\* The rings pos .. end - 1 that process lcore p visits in turn.
dive == RxQue \div PrQue
pos(p) == p * dive
end(p) == (p + 1) * dive
=============================================================================
