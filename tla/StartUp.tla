------------------------------ MODULE StartUp -------------------------------
(***************************************************************************)
(* main() of HCMonitor up to the launch of the lcores: configuration file, *)
(* command line, ports, allocations and the wait for the links (main.c,    *)
(* config.c, and res_setup_hash of monitor.c).                             *)
(*                                                                         *)
(* Until it waits main is alone, so a loop of it is one step.  Every DPDK  *)
(* call may fail and then ends the program.  Links come up and go down.    *)
(* The pairing of the ports (l2fwd_dst_ports) and the output rings, which  *)
(* no code that runs reads, are left out.                                  *)
(***************************************************************************)
EXTENDS Integers, FiniteSets, FiniteSetsExt

CONSTANTS
  MaxPorts,             \* RTE_MAX_ETHPORTS
  MAX_CHECK_TIME,       \* looks at the links before main gives up
  MaxQueues,            \* bound: rx_queues of setting.cfg
  NoPort                \* an element of rx_port_list never written

ASSUME StartUpAssumption ==
  /\ {MaxPorts, MAX_CHECK_TIME, MaxQueues} \subseteq Nat \ {0} /\ NoPort \notin Nat

VARIABLES
  pc,                   \* next step of main, "launched" or "exit"
  USE_HTTP,             \* built with the HTTP parsers
  conf,
  lcores,               \* lcores of the core mask
  l2fwd_enabled_port_mask, nb_ports,
  lcore_queue_conf,     \* per RX lcore: [rx_port_list, n_rx_port]
  ready,                \* ports configured and started
  key_len,              \* of the request hash: the type whose size it is
  link,                 \* ports whose link is up
  portid, count, all_ports_up, print_flag,      \* check_all_ports_link_status
  waited,               \* ghost: rte_delay_ms calls so far
  printed               \* ghost: how often the link of each port was printed

confVars == <<USE_HTTP, conf, lcores, l2fwd_enabled_port_mask, nb_ports>>
setVars == <<lcore_queue_conf, ready, key_len>>
checkVars == <<portid, count, all_ports_up, print_flag, waited, printed>>
startVars == <<pc, confVars, setVars, link, checkVars>>

Ports == 0 .. MaxPorts - 1
Enabled == l2fwd_enabled_port_mask \cap 0 .. nb_ports - 1
RxLcores == 0 .. conf.rx_que - 1

\* The roles of the lcores, with one process lcore.
Layout(rx_que) == INSTANCE Lcores WITH RxQue <- rx_que, PrQue <- 1

initConfig == [rx_que |-> 1, enable_http |-> TRUE, enable_https |-> FALSE,
               enable_mcc |-> FALSE, req_label |-> {0}, resp_label |-> {0}]

Settings == [rx_que : 1 .. MaxQueues, enable_http : BOOLEAN, enable_https : BOOLEAN,
             enable_mcc : BOOLEAN, req_label : {{0, 2}}, resp_label : {{1, 3}}]

StartInit ==
  /\ pc = "config" /\ USE_HTTP \in BOOLEAN /\ conf = initConfig
  /\ lcores \in {{0}, 0 .. Layout(MaxQueues)!TSTAMP_LCORE}
  /\ l2fwd_enabled_port_mask = {} /\ nb_ports = 0
  /\ lcore_queue_conf = [q \in 0 .. MaxQueues - 1 |->
                           [rx_port_list |-> [i \in 0 .. 1 |-> NoPort], n_rx_port |-> 0]]
  /\ ready = {} /\ key_len = "none" /\ link = {}
  /\ portid = 0 /\ count = 0 /\ all_ports_up = TRUE /\ print_flag = FALSE
  /\ waited = 0 /\ printed = [p \in Ports |-> 0]
-----------------------------------------------------------------------------
Main(at, next) == pc = at /\ pc' = next

\* A call or a test fails.
Exit(at) == Main(at, "exit") /\ UNCHANGED <<confVars, setVars, link, checkVars>>

\* getConfig fails on a file it cannot read; nobody looks at its result.
getConfig ==
  /\ Main("config", "args")
  /\ conf' \in Settings \cup {conf}
  /\ UNCHANGED <<USE_HTTP, lcores, l2fwd_enabled_port_mask, nb_ports, setVars, link, checkVars>>

\* A port mask that cannot be parsed is -1, every port; without -p there is
\* none.  Other options are refused.
l2fwd_parse_args ==
  \/ Exit("args")
  \/ /\ Main("args", "pools")
     /\ l2fwd_enabled_port_mask' \in SUBSET Ports
     /\ UNCHANGED <<USE_HTTP, conf, lcores, nb_ports, setVars, link, checkVars>>

\* The mempools, then the number of ports: with none, the end.
CountPorts ==
  \/ Exit("pools")
  \/ /\ Main("pools", "ports")
     /\ nb_ports' \in 1 .. MaxPorts
     /\ UNCHANGED <<USE_HTTP, conf, lcores, l2fwd_enabled_port_mask, setVars, link, checkVars>>

\* Mutant: each port takes the place of the one before.
AddPortFirst(qconf, port) ==
  [rx_port_list |-> [qconf.rx_port_list EXCEPT ![0] = port], n_rx_port |-> 1]

\* A further port is written behind the first, but not counted.
AddPort(qconf, port) ==
  [rx_port_list |-> [qconf.rx_port_list EXCEPT ![qconf.n_rx_port] = port], n_rx_port |-> 1]

\* An RX lcore's list after the loop over the ports.
PortList(q) ==
  LET after[n \in 0 .. nb_ports] ==
        IF n = 0 THEN lcore_queue_conf[q]
        ELSE IF n - 1 \in Enabled THEN AddPort(after[n - 1], n - 1) ELSE after[n - 1]
  IN  after[nb_ports]

\* Each enabled port goes to all RX lcores.
PortLists ==
  [q \in DOMAIN lcore_queue_conf |-> IF q \in RxLcores THEN PortList(q) ELSE lcore_queue_conf[q]]

\* The RX lcores have to be in the core mask; each enabled port is configured
\* with a queue and a mempool for each of them, and started.
InitPorts ==
  \/ Exit("ports")
  \/ /\ Main("ports", "alloc")
     /\ Enabled # {} /\ RxLcores \subseteq lcores
     /\ lcore_queue_conf' = PortLists
     /\ ready' = Enabled
     /\ UNCHANGED <<confVars, key_len, link, checkVars>>

\* The size of the hash key follows the configuration, not the build.
KeyType == IF conf.enable_http THEN "http_tuple" ELSE "ipv4_2tuple"

\* InitQueue, res_setup_hash and the numbers of the lcores.
Allocate ==
  \/ Exit("alloc")
  \/ /\ Main("alloc", "look")
     /\ key_len' = KeyType
     /\ UNCHANGED <<confVars, lcore_queue_conf, ready, link, checkVars>>
-----------------------------------------------------------------------------
(* check_all_ports_link_status.                                            *)

Links ==
  /\ pc \in {"look", "round"}
  /\ \E p \in Ports : link' = IF p \in link THEN link \ {p} ELSE link \cup {p}
  /\ UNCHANGED <<pc, confVars, setVars, checkVars>>

\* One port of a round: the first link that is down ends a round that does
\* not print.
Look ==
  /\ all_ports_up' = (print_flag \/ portid \in link \cup (Ports \ Enabled))
  /\ Main("look", IF portid + 1 >= nb_ports \/ ~all_ports_up' THEN "round" ELSE "look")
  /\ portid' = portid + 1
  /\ printed' = [printed EXCEPT ![portid] = @ + IF print_flag /\ portid \in Enabled THEN 1 ELSE 0]
  /\ UNCHANGED <<confVars, setVars, link, count, print_flag, waited>>

LastRoundLate == count = MAX_CHECK_TIME         \* mutant: off by one
LastRound == count = MAX_CHECK_TIME - 1

NextRound ==
  /\ ~print_flag
  /\ Main("round", IF count < MAX_CHECK_TIME THEN "look" ELSE "launched")
  /\ waited' = waited + IF all_ports_up THEN 0 ELSE 1
  /\ print_flag' = (all_ports_up \/ LastRound)
  /\ count' = count + 1 /\ portid' = 0 /\ all_ports_up' = TRUE
  /\ UNCHANGED <<confVars, setVars, link, printed>>

\* All links have been printed; rte_eal_mp_remote_launch.
Launch ==
  /\ print_flag
  /\ Main("round", "launched")
  /\ UNCHANGED <<confVars, setVars, link, checkVars>>

StartStep ==
  \/ getConfig \/ l2fwd_parse_args \/ CountPorts \/ InitPorts \/ Allocate
  \/ Links \/ Look \/ NextRound \/ Launch

StartSpec == StartInit /\ [][StartStep]_startVars
-----------------------------------------------------------------------------
(* Correctness.                                                            *)

Started == pc = "launched"

\* The port an RX lcore polls.
Polled(q) == {lcore_queue_conf[q].rx_port_list[i] : i \in 0 .. lcore_queue_conf[q].n_rx_port - 1}

\* What the loops of the RX lcores rely on is there when they are launched: an
\* lcore for every queue of the first enabled port, and that port, which is
\* the only one anybody polls, configured and started.
FirstPortServed ==
  Started => \A q \in RxLcores : q \in lcores /\ Polled(q) = {Min(Enabled)} /\ Polled(q) \subseteq ready

\* Whatever the links do, main waits at most MAX_CHECK_TIME times ("in up to
\* 9s") and prints the link of every enabled port once, and of no other.
LinksPrintedOnce ==
  /\ waited <= MAX_CHECK_TIME
  /\ Started => \A p \in Ports : printed[p] = IF p \in Enabled THEN 1 ELSE 0
=============================================================================
