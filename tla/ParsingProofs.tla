---------------------------- MODULE ParsingProofs ----------------------------
(***************************************************************************)
(* Proofs about the start-up and about parsing and measuring, in every     *)
(* configuration: for every number of ports and of looks, every size of    *)
(* the queue and of the hash, every number of exchanges and whatever the   *)
(* links and the clients do meanwhile.                                     *)
(***************************************************************************)
EXTENDS Parsing, DataLemmas, FiniteSetTheorems

(* The wait for the links.                                                 *)

Before == {"config", "args", "pools", "ports", "alloc", "exit"}

WaitTypes ==
  /\ pc \in Before \cup {"look", "round", "launched"}
  /\ nb_ports \in 0 .. MaxPorts
  /\ l2fwd_enabled_port_mask \in SUBSET Ports
  /\ portid \in Nat /\ count \in Nat /\ waited \in Nat
  /\ print_flag \in BOOLEAN /\ all_ports_up \in BOOLEAN
  /\ printed \in [Ports -> Nat]

\* Nothing of check_all_ports_link_status has happened yet.
NotWaiting ==
  /\ portid = 0 /\ count = 0 /\ waited = 0 /\ ~print_flag
  /\ \A p \in Ports : printed[p] = 0

\* Rounds that do not print: one look each at most, and one is left.
Waiting == count < MAX_CHECK_TIME /\ waited <= count /\ \A p \in Ports : printed[p] = 0

\* The round that prints has printed the enabled ports it has passed.
Printing ==
  /\ waited <= MAX_CHECK_TIME
  /\ \A p \in Ports : printed[p] = IF p \in Enabled /\ p < portid THEN 1 ELSE 0

\* The inductive invariant.
WaitInv ==
  /\ WaitTypes
  /\ pc \in Before => NotWaiting
  /\ pc \in {"ports", "alloc", "look", "round"} => nb_ports > 0
  /\ pc \in {"look", "round"} /\ ~print_flag => Waiting
  /\ print_flag => Printing
  /\ pc = "look" => portid < nb_ports
  /\ pc = "round" /\ print_flag => portid = nb_ports
  /\ pc = "launched" => print_flag /\ portid = nb_ports
-----------------------------------------------------------------------------
\* There is room for a port, and at least one look at the links.
LEMMA Bounds == MaxPorts \in Nat \ {0} /\ MAX_CHECK_TIME \in Nat \ {0}
  BY StartUpAssumption

\* main starts before the wait.
LEMMA WaitStart == StartInit => WaitInv
<1> SUFFICES ASSUME StartInit PROVE WaitInv
  OBVIOUS
<1>1. /\ pc = "config" /\ nb_ports = 0 /\ l2fwd_enabled_port_mask = {}
      /\ portid = 0 /\ count = 0 /\ waited = 0
      /\ print_flag = FALSE /\ all_ports_up = TRUE
      /\ printed = [p \in Ports |-> 0]
  BY DEF StartInit
<1>2. /\ printed \in [Ports -> Nat]
      /\ \A p \in Ports : printed[p] = 0
  BY <1>1
<1>3. WaitTypes
  <2>1. nb_ports \in 0 .. MaxPorts /\ portid \in Nat /\ count \in Nat /\ waited \in Nat
    BY <1>1, Bounds
  <2>2. print_flag \in BOOLEAN /\ all_ports_up \in BOOLEAN  BY <1>1
  <2>3. l2fwd_enabled_port_mask \in SUBSET Ports  BY <1>1
  <2> QED  BY <1>1, <1>2, <2>1, <2>2, <2>3 DEF WaitTypes, Before
<1>4. NotWaiting /\ ~print_flag  BY <1>1, <1>2 DEF NotWaiting
<1> QED  BY <1>1, <1>3, <1>4 DEF WaitInv

\* A phase before the wait leaves the wait's variables alone.
LEMMA BeforeStep ==
  ASSUME WaitInv, getConfig \/ l2fwd_parse_args \/ CountPorts \/ InitPorts \/ Allocate
  PROVE  WaitInv'
<1>1. /\ pc \in {"config", "args", "pools", "ports", "alloc"}
      /\ pc' \in Before \cup {"look"}
      /\ pc' \in {"ports", "alloc", "look"} => nb_ports' > 0
      /\ nb_ports' \in 0 .. MaxPorts
      /\ l2fwd_enabled_port_mask' \in SUBSET Ports
      /\ UNCHANGED checkVars
  <2>1. CASE getConfig
    BY <2>1 DEF getConfig, WaitInv, WaitTypes, Before, Main
  <2>2. CASE l2fwd_parse_args
    BY <2>2 DEF l2fwd_parse_args, WaitInv, WaitTypes, Before, Main, Exit, confVars
  <2>3. CASE CountPorts
    BY <2>3, Bounds DEF CountPorts, WaitInv, WaitTypes, Before, Main, Exit, confVars
  <2>4. CASE InitPorts
    BY <2>4 DEF InitPorts, WaitInv, WaitTypes, Before, Main, Exit, confVars
  <2>5. CASE Allocate
    BY <2>5 DEF Allocate, WaitInv, WaitTypes, Before, Main, Exit, confVars
  <2> QED  BY <2>1, <2>2, <2>3, <2>4, <2>5
<1> QED
  BY <1>1, Bounds
     DEF WaitInv, WaitTypes, Before, NotWaiting, Waiting, Printing, checkVars

\* One port of a round: printed if the round prints and the port is enabled, and
\* the last one ends the round.
LEMMA LookStep ==
  ASSUME WaitInv, Look
  PROVE  WaitInv'
<1>1. /\ pc = "look" /\ pc' \in {"look", "round"}
      /\ portid \in 0 .. nb_ports - 1 /\ portid \in Ports /\ portid' = portid + 1
      /\ UNCHANGED <<nb_ports, l2fwd_enabled_port_mask, count, waited, print_flag>>
      /\ Enabled' = Enabled
  BY Bounds DEF WaitInv, WaitTypes, Look, Main, confVars, Ports, Enabled
<1>2. all_ports_up' \in BOOLEAN /\ printed' \in [Ports -> Nat]
  BY <1>1 DEF WaitInv, WaitTypes, Look
<1>3. pc' = "look" => portid' < nb_ports
  BY <1>1, Bounds DEF WaitInv, WaitTypes, Look, Main
<1>4. pc' = "round" /\ print_flag => portid' = nb_ports
  <2>1. SUFFICES ASSUME pc' = "round", print_flag PROVE portid' = nb_ports
    OBVIOUS
  <2>2. all_ports_up'  BY <2>1 DEF Look
  <2>3. portid + 1 >= nb_ports  BY <2>1, <2>2 DEF Look, Main
  <2>4. nb_ports \in Nat /\ portid \in Nat /\ portid < nb_ports
    BY <1>1, Bounds DEF WaitInv, WaitTypes
  <2> QED  BY <1>1, <2>3, <2>4
<1>5. ~print_flag => Waiting'
  BY <1>1 DEF WaitInv, WaitTypes, Waiting, Look
<1>6. print_flag => Printing'
  <2>1. SUFFICES ASSUME print_flag, NEW p \in Ports
                 PROVE  printed'[p] = IF p \in Enabled /\ p < portid + 1 THEN 1 ELSE 0
    BY <1>1 DEF WaitInv, Printing
  <2>2. printed[p] = IF p \in Enabled /\ p < portid THEN 1 ELSE 0
    BY <2>1 DEF WaitInv, Printing
  <2>3. p \in Nat /\ portid \in Nat  BY Bounds DEF Ports, WaitInv, WaitTypes
  <2>4. CASE p = portid
    BY <1>1, <2>1, <2>2, <2>3, <2>4 DEF Look, WaitInv, WaitTypes
  <2>5. CASE p # portid
    BY <1>1, <2>1, <2>2, <2>3, <2>5 DEF Look, WaitInv, WaitTypes
  <2> QED  BY <2>4, <2>5
<1> QED
  BY <1>1, <1>2, <1>3, <1>4, <1>5, <1>6 DEF WaitInv, WaitTypes, Before

\* A round that did not print ends; if it was the last that may, or found all
\* links up, the next one prints.
LEMMA RoundStep ==
  ASSUME WaitInv, NextRound
  PROVE  WaitInv'
<1>1. /\ pc = "round" /\ ~print_flag /\ Waiting /\ nb_ports > 0
      /\ count \in Nat /\ waited \in Nat
      /\ UNCHANGED <<nb_ports, l2fwd_enabled_port_mask, printed>>
      /\ count' = count + 1 /\ portid' = 0 /\ all_ports_up' = TRUE
  BY DEF WaitInv, WaitTypes, NextRound, Main, confVars
<1>2. pc' = "look" /\ count < MAX_CHECK_TIME
  BY <1>1, Bounds DEF Waiting, NextRound, Main
<1>3. waited' \in Nat /\ waited' <= count'
  BY <1>1 DEF Waiting, NextRound
<1>4. print_flag' \in BOOLEAN /\ (~print_flag' => count # MAX_CHECK_TIME - 1)
  BY <1>1 DEF WaitInv, WaitTypes, NextRound, LastRound
<1>5. ~print_flag' => Waiting'
  BY <1>1, <1>2, <1>3, <1>4, Bounds DEF Waiting
<1>6. Printing'
  <2>1. waited' <= MAX_CHECK_TIME
    BY <1>1, <1>2, <1>3, Bounds
  <2>2. \A p \in Ports : printed'[p] = 0 /\ ~(p < portid')
    BY <1>1, Bounds DEF Waiting, Ports
  <2> QED  BY <2>1, <2>2 DEF Printing
<1> QED
  BY <1>1, <1>2, <1>3, <1>4, <1>5, <1>6 DEF WaitInv, WaitTypes, Before

\* Every step of main, and of the links, keeps the invariant.
LEMMA WaitStep == WaitInv /\ [StartStep]_startVars => WaitInv'
<1> SUFFICES ASSUME WaitInv, [StartStep]_startVars PROVE WaitInv'
  OBVIOUS
<1>1. CASE getConfig \/ l2fwd_parse_args \/ CountPorts \/ InitPorts \/ Allocate
  BY <1>1, BeforeStep
<1>2. CASE Links
  BY <1>2 DEF Links, WaitInv, WaitTypes, Before, NotWaiting, Waiting, Printing, Enabled,
              confVars, setVars, checkVars
<1>3. CASE Look
  BY <1>3, LookStep
<1>4. CASE NextRound
  BY <1>4, RoundStep
<1>5. CASE Launch
  BY <1>5 DEF Launch, Main, WaitInv, WaitTypes, Before, NotWaiting, Waiting, Printing, Enabled,
              confVars, setVars, checkVars
<1>6. CASE UNCHANGED startVars
  BY <1>6 DEF startVars, WaitInv, WaitTypes, Before, NotWaiting, Waiting, Printing, Enabled,
              confVars, setVars, checkVars
<1> QED  BY <1>1, <1>2, <1>3, <1>4, <1>5, <1>6 DEF StartStep

\* The lcores are launched when the printing round has passed all ports.
LEMMA WaitGoal == WaitInv => LinksPrintedOnce
<1> SUFFICES ASSUME WaitInv PROVE LinksPrintedOnce
  OBVIOUS
<1>1. waited <= MAX_CHECK_TIME
  BY Bounds DEF WaitInv, WaitTypes, NotWaiting, Waiting, Printing
<1>2. ASSUME Started, NEW p \in Ports
      PROVE  printed[p] = IF p \in Enabled THEN 1 ELSE 0
  BY <1>2, Bounds DEF Started, WaitInv, WaitTypes, Printing, Enabled
<1> QED  BY <1>1, <1>2 DEF LinksPrintedOnce

-----------------------------------------------------------------------------
(* The ports the RX lcores poll.                                           *)

NewList == [rx_port_list |-> [i \in 0 .. 1 |-> NoPort], n_rx_port |-> 0]
PortConf == [rx_port_list : [0 .. 1 -> Nat \cup {NoPort}], n_rx_port : {0, 1}]

\* The inductive invariant.
ServeInv ==
  /\ conf \in Settings \cup {initConfig}
  /\ nb_ports \in 0 .. MaxPorts
  /\ pc \in {"config", "args", "pools", "ports"} =>
       lcore_queue_conf = [q \in 0 .. MaxQueues - 1 |-> NewList]
  /\ pc \in {"alloc", "look", "round", "launched"} =>
       /\ ready = Enabled
       /\ \A q \in RxLcores :
            /\ q \in lcores /\ lcore_queue_conf[q].n_rx_port = 1
            /\ lcore_queue_conf[q].rx_port_list[0] = Min(Enabled)
            /\ Min(Enabled) \in Enabled

\* Min of a set of naturals is its least member.
LEMMA MinIsLeast ==
  ASSUME NEW S \in SUBSET Nat, NEW x \in S, \A y \in S : x <= y
  PROVE  Min(S) = x
<1> DEFINE P(m) == m \in S /\ \A y \in S : m =< y
<1>1. P(x)  OBVIOUS
<1>2. \A m : P(m) => m = x
  <2> SUFFICES ASSUME NEW m, P(m) PROVE m = x
    OBVIOUS
  <2>1. m \in Nat /\ x \in Nat /\ m <= x /\ x <= m  OBVIOUS
  <2> QED  BY <2>1
<1>3. Min(S) = CHOOSE m : P(m)  BY DEF Min
<1> HIDE DEF P
<1> QED  BY <1>1, <1>2, <1>3

\* The loop over the ports leaves the first enabled one in front, and counts one.
LEMMA FirstPortListed ==
  ASSUME NEW q, lcore_queue_conf[q] = NewList, nb_ports \in Nat, Enabled # {}
  PROVE  /\ PortList(q).n_rx_port = 1
         /\ PortList(q).rx_port_list[0] = Min(Enabled)
         /\ Min(Enabled) \in Enabled
<1> DEFINE next(c, n) == IF n - 1 \in Enabled THEN AddPort(c, n - 1) ELSE c
           Eq(f) == f = [n \in 0 .. nb_ports |-> IF n = 0 THEN lcore_queue_conf[q]
                                                ELSE next(f[n - 1], n)]
           after == CHOOSE f : Eq(f)
<1>1. NewList \in PortConf  BY DEF NewList, PortConf
<1>2. ASSUME NEW c \in PortConf, NEW n \in Nat PROVE next(c, n) \in PortConf
  <2>1. CASE n - 1 \in Enabled
    BY <2>1 DEF AddPort, PortConf, Enabled
  <2>2. CASE n - 1 \notin Enabled
    BY <2>2
  <2> QED  BY <2>1, <2>2
<1> HIDE DEF next
<1> DEFINE step == [n \in Nat |-> [c \in PortConf |-> next(c, n)]]
<1>3. step \in [Nat -> [PortConf -> PortConf]]  BY <1>2
<1>4. \A n \in Nat, c \in PortConf : step[n][c] = next(c, n)  OBVIOUS
<1> HIDE DEF step
<1>5. PICK g \in [0 .. nb_ports -> PortConf] : Unfolds(g, NewList, step, nb_ports)
  BY <1>1, <1>3, Recursion
<1>6. Eq(g)
  <2>1. \A n \in 0 .. nb_ports : g[n] = IF n = 0 THEN lcore_queue_conf[q] ELSE next(g[n - 1], n)
    <3> TAKE n \in 0 .. nb_ports
    <3>1. CASE n = 0  BY <1>5, <3>1 DEF Unfolds
    <3>2. CASE n # 0
      <4>1. n \in 1 .. nb_ports /\ n - 1 \in 0 .. nb_ports /\ n \in Nat  BY <3>2
      <4>2. g[n] = step[n][g[n - 1]] /\ g[n - 1] \in PortConf  BY <1>5, <4>1 DEF Unfolds
      <4> QED  BY <1>4, <3>2, <4>1, <4>2
    <3> QED  BY <3>1, <3>2
  <2> QED  BY <2>1
<1> HIDE DEF Eq
<1>7. Eq(after)  BY <1>6
<1>8. PortList(q) = after[nb_ports]
  BY DEF PortList, Eq, next
<1> HIDE DEF after
<1>9. after[0] = NewList
  BY <1>7 DEF Eq
<1>10. \A n \in 1 .. nb_ports : after[n] = next(after[n - 1], n)
  <2> SUFFICES ASSUME NEW n \in 1 .. nb_ports PROVE after[n] = next(after[n - 1], n)
    OBVIOUS
  <2>1. n \in 0 .. nb_ports /\ n # 0  OBVIOUS
  <2> QED  BY <1>7, <2>1 DEF Eq
<1>11. PICK first \in Enabled : \A p \in Enabled : first <= p
  <2>1. Enabled \in SUBSET Nat  BY DEF Enabled
  <2> QED  BY <2>1, LeastMember
<1>12. Min(Enabled) = first
  <2>1. Enabled \in SUBSET Nat  BY DEF Enabled
  <2> QED  BY <1>11, <2>1, MinIsLeast
<1> DEFINE Upto == {n \in Nat : n <= nb_ports =>
                     /\ n <= first => after[n] = NewList
                     /\ n > first => /\ after[n] \in PortConf /\ after[n].n_rx_port = 1
                                     /\ after[n].rx_port_list[0] = first}
<1>13. 0 \in Upto
  <2>1. 0 <= first  BY DEF Enabled
  <2>2. first \in Nat  BY DEF Enabled
  <2> QED  BY <1>9, <2>1, <2>2
<1>14. ASSUME NEW n \in Nat, n \in Upto PROVE n + 1 \in Upto
  <2> SUFFICES ASSUME n + 1 <= nb_ports
               PROVE  /\ n + 1 <= first => after[n + 1] = NewList
                      /\ n + 1 > first =>
                           /\ after[n + 1] \in PortConf /\ after[n + 1].n_rx_port = 1
                           /\ after[n + 1].rx_port_list[0] = first
    OBVIOUS
  <2>1. n <= nb_ports /\ n + 1 \in 1 .. nb_ports /\ (n + 1) - 1 = n /\ first \in Nat
    BY DEF Enabled
  <2>2. after[n + 1] = next(after[n], n + 1)  BY <1>10, <2>1
  <2>3. after[n + 1] = IF n \in Enabled THEN AddPort(after[n], n) ELSE after[n]
    BY <2>1, <2>2 DEF next
  <2>4. CASE n < first
    <3>1. n \notin Enabled  BY <1>11, <2>1, <2>4
    <3> QED  BY <1>14, <2>1, <2>3, <2>4, <3>1
  <2>5. CASE n = first
    <3>1. after[n + 1] = AddPort(NewList, n)  BY <1>14, <2>1, <2>3, <2>5
    <3>2. AddPort(NewList, n) = [rx_port_list |-> [[i \in 0 .. 1 |-> NoPort] EXCEPT ![0] = n],
                                n_rx_port |-> 1]
      BY DEF AddPort, NewList
    <3> QED  BY <2>1, <2>5, <3>1, <3>2 DEF PortConf
  <2>6. CASE n > first
    <3>1. after[n] \in PortConf /\ after[n].n_rx_port = 1 /\ after[n].rx_port_list[0] = first
      BY <1>14, <2>1, <2>6
    <3>2. AddPort(after[n], n) = [rx_port_list |-> [after[n].rx_port_list EXCEPT ![1] = n],
                                  n_rx_port |-> 1]
      BY <3>1 DEF AddPort
    <3> QED  BY <2>1, <2>3, <2>6, <3>1, <3>2 DEF PortConf
  <2> QED  BY <2>1, <2>4, <2>5, <2>6
<1> HIDE DEF Upto
<1>15. nb_ports \in Upto  BY <1>13, <1>14, Induction
<1>16. nb_ports > first /\ nb_ports <= nb_ports  BY <1>11 DEF Enabled
<1> QED  BY <1>8, <1>11, <1>12, <1>15, <1>16 DEF Upto
\* What a step of main before its wait leaves alone.
LEMMA ServeStep == ServeInv /\ [StartStep]_startVars => ServeInv'
<1> SUFFICES ASSUME ServeInv, [StartStep]_startVars PROVE ServeInv'
  OBVIOUS
<1>1. CASE getConfig
  BY <1>1 DEF getConfig, Main, ServeInv, setVars
<1>2. CASE l2fwd_parse_args
  BY <1>2 DEF l2fwd_parse_args, Main, Exit, ServeInv, confVars, setVars
<1>3. CASE CountPorts
  <2>1. nb_ports' \in 0 .. MaxPorts
    BY <1>3, Bounds DEF CountPorts, Exit, ServeInv, confVars
  <2> QED  BY <1>3, <2>1 DEF CountPorts, Main, Exit, ServeInv, confVars, setVars
<1>4. CASE InitPorts
  <2>1. CASE Exit("ports")
    BY <2>1 DEF Main, Exit, ServeInv, confVars, setVars
  <2>2. CASE ~Exit("ports")
    <3>1. /\ pc = "ports" /\ pc' = "alloc" /\ Enabled # {} /\ RxLcores \subseteq lcores
          /\ lcore_queue_conf' = PortLists /\ ready' = Enabled
          /\ UNCHANGED <<conf, lcores, l2fwd_enabled_port_mask, nb_ports>>
      BY <1>4, <2>2 DEF InitPorts, Main, confVars
    <3>2. Enabled' = Enabled /\ RxLcores' = RxLcores
      BY <3>1 DEF Enabled, RxLcores
    <3>3. nb_ports \in Nat /\ conf.rx_que \in 1 .. MaxQueues
      BY <3>1, StartUpAssumption DEF ServeInv, Settings, initConfig
    <3>4. ASSUME NEW q \in RxLcores
          PROVE  /\ lcore_queue_conf'[q].n_rx_port = 1
                 /\ lcore_queue_conf'[q].rx_port_list[0] = Min(Enabled)
                 /\ Min(Enabled) \in Enabled
      <4>1. q \in 0 .. MaxQueues - 1  BY <3>3, StartUpAssumption DEF RxLcores
      <4>2. lcore_queue_conf = [p \in 0 .. MaxQueues - 1 |-> NewList]  BY <3>1 DEF ServeInv
      <4>3. lcore_queue_conf[q] = NewList /\ q \in DOMAIN lcore_queue_conf  BY <4>1, <4>2
      <4>4. lcore_queue_conf'[q] = PortList(q)  BY <3>1, <4>3 DEF PortLists
      <4> QED  BY <3>1, <3>3, <4>3, <4>4, FirstPortListed
    <3>5. \A q \in RxLcores : q \in lcores'  BY <3>1
    <3> QED  BY <3>1, <3>2, <3>4, <3>5 DEF ServeInv
  <2> QED  BY <2>1, <2>2
<1>5. CASE Allocate \/ Links \/ Look \/ NextRound \/ Launch \/ UNCHANGED startVars
  <2>1. /\ UNCHANGED <<conf, lcores, l2fwd_enabled_port_mask, nb_ports, lcore_queue_conf, ready>>
        /\ \/ pc' = pc
           \/ pc = "alloc" /\ pc' = "exit"
           \/ pc \in {"alloc", "look", "round"} /\ pc' \in {"look", "round", "launched"}
    BY <1>5 DEF Allocate, Links, Look, NextRound, Launch, Main, Exit, confVars, setVars, startVars
  <2>2. Enabled' = Enabled /\ RxLcores' = RxLcores  BY <2>1 DEF Enabled, RxLcores
  <2> QED  BY <2>1, <2>2 DEF ServeInv
<1> QED  BY <1>1, <1>2, <1>3, <1>4, <1>5 DEF StartStep

LEMMA ServeStart == StartInit => ServeInv
<1> SUFFICES ASSUME StartInit PROVE ServeInv
  OBVIOUS
<1>1. pc = "config" /\ nb_ports = 0 /\ conf = initConfig
      /\ lcore_queue_conf = [q \in 0 .. MaxQueues - 1 |->
                               [rx_port_list |-> [i \in 0 .. 1 |-> NoPort], n_rx_port |-> 0]]
  BY DEF StartInit
<1>2. nb_ports \in 0 .. MaxPorts  BY <1>1, Bounds
<1> QED  BY <1>1, <1>2 DEF ServeInv, NewList

LEMMA ServeGoal == ServeInv => FirstPortServed
<1> SUFFICES ASSUME ServeInv, Started, NEW q \in RxLcores
             PROVE  q \in lcores /\ Polled(q) = {Min(Enabled)} /\ Polled(q) \subseteq ready
  BY DEF FirstPortServed
<1>1. /\ ready = Enabled /\ q \in lcores /\ lcore_queue_conf[q].n_rx_port = 1
      /\ lcore_queue_conf[q].rx_port_list[0] = Min(Enabled) /\ Min(Enabled) \in Enabled
  BY DEF ServeInv, Started
<1>2. 0 .. 1 - 1 = {0}  OBVIOUS
<1>3. Polled(q) = {lcore_queue_conf[q].rx_port_list[0]}
  BY <1>1, <1>2 DEF Polled
<1> QED  BY <1>1, <1>3

\* main's part of the whole program is the start-up specification: traffic and
\* measurement do not disturb it.
LEMMA StartsUp == Spec => StartSpec
<1>1. Init => StartInit  BY DEF Init
<1>2. [Next]_vars => [StartStep]_startVars
  BY DEF Next, Traffic, Monitor, vars
<1> QED  BY <1>1, <1>2, PTL DEF Spec, StartSpec

\* check_all_ports_link_status returns after at most MAX_CHECK_TIME delays, and
\* by then has printed each enabled port's link once, however the links flap.
THEOREM LinksPrinted == Spec => []LinksPrintedOnce
<1>1. StartInit => WaitInv  BY WaitStart
<1>2. WaitInv /\ [StartStep]_startVars => WaitInv'  BY WaitStep
<1>3. WaitInv => LinksPrintedOnce  BY WaitGoal
<1> QED  BY <1>1, <1>2, <1>3, StartsUp, PTL DEF StartSpec

\* Every port an RX lcore polls is the first enabled one, and it was configured
\* and started, whatever ports, options and failures the start-up met.
THEOREM PolledPortRuns == Spec => []FirstPortServed
<1>1. StartInit => ServeInv  BY ServeStart
<1>2. ServeInv /\ [StartStep]_startVars => ServeInv'  BY ServeStep
<1>3. ServeInv => FirstPortServed  BY ServeGoal
<1> QED  BY <1>1, <1>2, <1>3, StartsUp, PTL DEF StartSpec
-----------------------------------------------------------------------------
(* Types of the slots, the traffic and the tables.                         *)

Slots == Index(QUESIZE)

Entry ==
  [type : {0, M_REQ, M_RSP}, status : Statuses, ip : Addresses, port : Numbers, kstatus : Statuses,
   sent_seq : Nat, total_len : Nat, ts : 0 .. MaxTime, pri : {0, 1}, req : Nat]

Packet ==
  [src : Ends, dst : Ends, begins : Requests \cup Responses \cup {"text"}, sent_seq : Nat,
   recv_ack : Nat, len : {1, 2}, pri : {0, 1}, req : Nat]

Exchange ==
  [client : Clients, begins : Requests, seq : Nat \ {0}, asked : 1 .. MaxTime, last : 1 .. MaxTime,
   segments : {1, 2}, status : Responses \cup {"none"}, answered : 0 .. MaxTime, rest : BOOLEAN]

TrafficTypes ==
  /\ ts \in 1 .. MaxTime
  /\ exchange \in Seq(Exchange) /\ Len(exchange) <= MaxReqs
  /\ occupy \in Slots /\ deque \in Slots
  /\ array \in [Slots -> Entry]

Sample == [time : Int, pri : {0, 1}, flow : Keys, req : Nat, ts : Nat]

\* No two keys share a position, and what no key uses was never written.
TableTypes ==
  /\ slot \in [DOMAIN slot -> RT!Positions] /\ DOMAIN slot \subseteq Keys
  /\ IsFiniteSet(DOMAIN slot) /\ Cardinality(DOMAIN slot) <= REQ_HASH_ENTRIES
  /\ \A g, h \in DOMAIN slot : slot[g] = slot[h] => g = h
  /\ Maxseq \in [RT!Places -> [req_sent_seq : Nat, payload_len : Nat, rsp_sent_seq : Nat]]
  /\ req_out_if \in [RT!Places -> Nat]
  /\ req_hy_count \in [RT!Places -> [count : {0, 1}, pri : {-1, 0, 1}]]
  /\ ack_time \in Seq(Sample)
  /\ \A pos \in RT!Positions :
       (\A g \in DOMAIN slot : slot[g] # pos) => /\ Maxseq[pos].req_sent_seq = 0
                                                 /\ Maxseq[pos].rsp_sent_seq = 0

\* Before the lcores are launched there is nothing to parse.
Quiet ==
  /\ exchange = <<>> /\ occupy = 0 /\ deque = 0 /\ array = [i \in Slots |-> Fresh]
  /\ slot = <<>> /\ ack_time = <<>>

SettingTypes ==
  /\ conf \in Settings \cup {initConfig}
  /\ key_len \in {"none", "http_tuple", "ipv4_2tuple"}

ParseTypes ==
  /\ SettingTypes
  /\ TrafficTypes /\ TableTypes
  /\ Started \/ Quiet

\* What waits for the MONITOR lcore.
Line == RingSeq(array, QUESIZE, occupy, deque, 0)

LEMMA Sizes ==
  /\ QUESIZE \in Nat \ {0} /\ TicksPerSec \in Nat \ {0} /\ SeqMod \in Nat \ {0}
  /\ REQ_HASH_ENTRIES \in Nat \ {0} /\ MaxReqs \in Nat \ {0} /\ MaxTime \in Nat \ {0}
  /\ rsp_pri \in BOOLEAN
  BY ParsingAssumption

LEMMA Begins ==
  /\ Requests # {} /\ Responses # {}
  /\ \A b \in Requests : b \notin Responses /\ b \notin {"200", "404", "text"}
  /\ \A b \in Responses : b \notin DOMAIN Method /\ b # "text" /\ b # "none"
  BY ParsingAssumption

LEMMA EndsTyped ==
  /\ Clients \subseteq Ends /\ Server \in Ends /\ Server \notin Clients
  /\ \A e \in Ends : e.ip \in Addresses /\ e.port \in Numbers
  /\ Addresses \subseteq Nat /\ Numbers \subseteq Nat /\ 0 \in Addresses /\ 0 \in Numbers
  /\ \A e \in Clients : e = [ip |-> e.ip, port |-> e.port]
<1>1. /\ Clients \subseteq Ends /\ Server \in Ends
      /\ \A e \in Ends : e.ip \in Addresses /\ e.port \in Numbers
  BY DEF Ends, Addresses, Numbers
<1>2. Server.ip = 0 /\ Server.port = 0  BY DEF Server
<1>3. \A e \in Clients : e.ip # 0  BY DEF Clients
<1>4. \A e \in Ends : e.ip \in Nat /\ e.port \in Nat
  BY DEF Ends, Clients, Server
<1>5. Addresses \subseteq Nat /\ Numbers \subseteq Nat  BY <1>4 DEF Addresses, Numbers
<1>6. \A e \in Clients : e = [ip |-> e.ip, port |-> e.port]  BY DEF Clients
<1> QED  BY <1>1, <1>2, <1>3, <1>5, <1>6

\* The status that the HTTP parser gives.
LEMMA StatusTyped ==
  ASSUME NEW b \in Requests \cup Responses \cup {"text"}, NEW d \in Entry, NEW p \in Packet, p.begins = b
  PROVE  /\ http_status(d, p) \in Statuses
         /\ http_status(d, p) = GET <=> b \in {"GET", "200", "404"}
         /\ b \in DOMAIN Method => b \in Requests
<1>1. b \in DOMAIN Method => b \in Requests  BY Begins DEF Method
<1>2. \A m \in DOMAIN Method : Method[m] = GET <=> m = "GET"
  BY DEF Method, GET
<1>3. "200" \notin DOMAIN Method /\ "404" \notin DOMAIN Method /\ "GET" \in DOMAIN Method
  BY DEF Method
<1>4. GET # -1  BY DEF GET
<1> QED  BY <1>1, <1>2, <1>3, <1>4 DEF http_status, Statuses

LEMMA FillTyped ==
  ASSUME NEW d \in Entry, NEW type \in {M_REQ, M_RSP}, NEW p \in Packet, ts \in 1 .. MaxTime
  PROVE  LET f == Fill(d, type, p)  end == ClientOf(type, p) IN
         /\ f \in Entry
         /\ f.type = type /\ f.ip = end.ip /\ f.port = end.port /\ f.ts = ts /\ f.req = p.req
         /\ f.total_len = p.len /\ f.status = d.status /\ f.kstatus = d.kstatus
         /\ f.sent_seq = IF type = M_REQ THEN p.sent_seq ELSE p.recv_ack
<1>1. ClientOf(type, p) \in Ends  BY DEF ClientOf, Packet
<1>2. ClientOf(type, p).ip \in Addresses /\ ClientOf(type, p).port \in Numbers  BY <1>1, EndsTyped
<1>3. ts \in 0 .. MaxTime  BY Sizes
<1> DEFINE f == Fill(d, type, p)
          end == ClientOf(type, p)
          seq == IF type = M_REQ THEN p.sent_seq ELSE p.recv_ack
<1>4. f = [d EXCEPT !.type = type, !.ip = end.ip, !.port = end.port, !.total_len = p.len, !.ts = ts,
                    !.sent_seq = seq, !.req = p.req]
  BY DEF Fill
<1>5. seq \in Nat /\ p.len \in Nat /\ p.req \in Nat  BY DEF Packet
<1> HIDE DEF f, end, seq
<1>6. f.type = type /\ f.ip = end.ip /\ f.port = end.port /\ f.ts = ts /\ f.req = p.req
      /\ f.total_len = p.len /\ f.status = d.status /\ f.kstatus = d.kstatus /\ f.sent_seq = seq
      /\ f.pri = d.pri
  BY <1>4 DEF Entry
<1>7. f \in Entry
  <2>1. end.ip \in Addresses /\ end.port \in Numbers  BY <1>2 DEF end
  <2>2. d.status \in Statuses /\ d.kstatus \in Statuses /\ d.pri \in {0, 1}  BY DEF Entry
  <2>3. f = [type |-> type, status |-> d.status, ip |-> end.ip, port |-> end.port,
             kstatus |-> d.kstatus, sent_seq |-> seq, total_len |-> p.len, ts |-> ts,
             pri |-> d.pri, req |-> p.req]
    BY <1>4 DEF Entry
  <2> QED  BY <1>3, <1>5, <2>1, <2>2, <2>3 DEF Entry
<1> QED  BY <1>6, <1>7 DEF f, end, seq
\* d tells of packet p, as one of the type.
About(d, type, p) ==
  /\ d \in Entry /\ d.type = type
  /\ d.ip = ClientOf(type, p).ip /\ d.port = ClientOf(type, p).port
  /\ d.sent_seq = (IF type = M_REQ THEN p.sent_seq ELSE p.recv_ack)
  /\ d.total_len = p.len /\ d.ts = ts /\ d.req = p.req

LEMMA FillAbout ==
  ASSUME NEW d \in Entry, NEW type \in {M_REQ, M_RSP}, NEW p \in Packet, ts \in 1 .. MaxTime
  PROVE  /\ About(Fill(d, type, p), type, p)
         /\ Fill(d, type, p).status = d.status /\ Fill(d, type, p).kstatus = d.kstatus
  BY FillTyped DEF About

\* The parsers write the priority and the status of the key last.
WithPri(d, x) == [d EXCEPT !.pri = x]
WithKstatus(d, x) == [d EXCEPT !.kstatus = x]

LEMMA SetPri ==
  ASSUME NEW type, NEW p, NEW d, About(d, type, p), NEW x \in {0, 1}
  PROVE  LET e == WithPri(d, x) IN
         About(e, type, p) /\ e.pri = x /\ e.status = d.status /\ e.kstatus = d.kstatus
<1> DEFINE e == WithPri(d, x)
<1>1. d \in Entry  BY DEF About
<1>2. e \in Entry  BY <1>1 DEF Entry, WithPri
<1>3. /\ e.pri = x /\ e.status = d.status /\ e.kstatus = d.kstatus /\ e.type = d.type
      /\ e.ip = d.ip /\ e.port = d.port /\ e.sent_seq = d.sent_seq /\ e.total_len = d.total_len
      /\ e.ts = d.ts /\ e.req = d.req
  BY <1>1 DEF Entry, WithPri
<1> HIDE DEF e
<1>4. About(e, type, p)  BY <1>2, <1>3 DEF About
<1> QED  BY <1>3, <1>4 DEF e

LEMMA SetKstatus ==
  ASSUME NEW type, NEW p, NEW d, About(d, type, p), NEW x \in Statuses
  PROVE  LET e == WithKstatus(d, x) IN
         About(e, type, p) /\ e.pri = d.pri /\ e.status = d.status /\ e.kstatus = x
<1> DEFINE e == WithKstatus(d, x)
<1>1. d \in Entry  BY DEF About
<1>2. e \in Entry  BY <1>1 DEF Entry, WithKstatus
<1>3. /\ e.pri = d.pri /\ e.status = d.status /\ e.kstatus = x /\ e.type = d.type
      /\ e.ip = d.ip /\ e.port = d.port /\ e.sent_seq = d.sent_seq /\ e.total_len = d.total_len
      /\ e.ts = d.ts /\ e.req = d.req
  BY <1>1 DEF Entry, WithKstatus
<1> HIDE DEF e
<1>4. About(e, type, p)  BY <1>2, <1>3 DEF About
<1> QED  BY <1>3, <1>4 DEF e

LEMMA ByLabel ==
  ASSUME SettingTypes, ts \in 1 .. MaxTime, NEW d \in Entry, NEW p \in Packet
  PROVE  LET out == key_extract(d, p) IN
         /\ out.la_key \in {0, 1} /\ out.data \in Entry
         /\ p.begins = "text" => out.la_key = 0
         /\ p.begins \in Requests =>
              out.la_key = 1 /\ About(out.data, M_REQ, p) /\ out.data.pri = p.pri
         /\ p.begins \in Responses =>
              IF 1 \in conf.resp_label
              THEN out.la_key = 1 /\ About(out.data, M_RSP, p) /\ out.data.pri = p.pri
              ELSE out.la_key = 0
<1>1. /\ conf.req_label \in {{0}, {0, 2}} /\ conf.resp_label \in {{0}, {1, 3}}
      /\ conf.req_label = {0} <=> conf.resp_label = {0}
  BY DEF SettingTypes, Settings, initConfig
<1>2. p.pri \in {0, 1} /\ p.begins \in Requests \cup Responses \cup {"text"}  BY DEF Packet
<1>3. /\ About(WithPri(Fill(d, M_REQ, p), p.pri), M_REQ, p)
      /\ WithPri(Fill(d, M_REQ, p), p.pri).pri = p.pri
      /\ About(WithPri(Fill(d, M_RSP, p), p.pri), M_RSP, p)
      /\ WithPri(Fill(d, M_RSP, p), p.pri).pri = p.pri
  <2>1. About(Fill(d, M_REQ, p), M_REQ, p) /\ About(Fill(d, M_RSP, p), M_RSP, p)
    BY FillAbout
  <2> QED  BY <1>2, <2>1, SetPri
<1>4. \A type : About(WithPri(Fill(d, type, p), p.pri), type, p)
                  => WithPri(Fill(d, type, p), p.pri) \in Entry
  BY DEF About
<1>5. CASE p.begins \in Requests
  <2>1. Label(p) = 0 /\ p.begins \notin Responses /\ p.begins # "text"  BY <1>5, Begins DEF Label
  <2>2. Label(p) \in conf.req_label  BY <1>1, <2>1
  <2> QED  BY <1>3, <1>4, <1>5, <2>1, <2>2 DEF key_extract, WithPri
<1>6. CASE p.begins \in Responses
  <2>1. Label(p) = 1 /\ p.begins \notin Requests /\ p.begins # "text"  BY <1>6, Begins DEF Label
  <2>2. Label(p) \notin conf.req_label  BY <1>1, <2>1
  <2> QED  BY <1>3, <1>4, <1>6, <2>1, <2>2 DEF key_extract, WithPri
<1>7. CASE p.begins = "text"
  <2>1. p.begins \notin Requests /\ p.begins \notin Responses  BY <1>7, Begins
  <2>2. Label(p) = 9  BY <2>1 DEF Label
  <2>3. 9 \notin conf.req_label /\ 9 \notin conf.resp_label  BY <1>1
  <2> QED  BY <2>1, <2>2, <2>3 DEF key_extract, WithPri
<1> QED  BY <1>2, <1>5, <1>6, <1>7

LEMMA AsHttps ==
  ASSUME ts \in 1 .. MaxTime, NEW d \in Entry, NEW p \in Packet
  PROVE  LET out == https_parse(d, p)
             type == IF p.dst = Server THEN M_REQ ELSE M_RSP
         IN /\ out.la_key = 1 /\ About(out.data, type, p) /\ out.data \in Entry
            /\ out.data.status = d.status
            /\ out.data.kstatus \in {d.kstatus, d.status}
<1>1. p.pri \in {0, 1} /\ d.status \in Statuses  BY DEF Packet, Entry
<1>2. LET e == WithPri(Fill(d, M_REQ, p), p.pri) IN
      About(e, M_REQ, p) /\ e.status = d.status /\ e.kstatus = d.kstatus
  BY <1>1, FillAbout, SetPri
<1>3. LET e == WithKstatus(Fill(d, M_RSP, p), d.status) IN
      About(e, M_RSP, p) /\ e.status = d.status /\ e.kstatus = d.status
  BY <1>1, FillAbout, SetKstatus
<1>4. M_REQ # M_RSP  BY DEF M_REQ, M_RSP
<1> QED  BY <1>2, <1>3, <1>4 DEF https_parse, About, WithPri, WithKstatus

\* As HTTP only a GET and a good response get the status of a GET.
LEMMA AsHttp ==
  ASSUME ts \in 1 .. MaxTime, NEW d \in Entry, NEW p \in Packet
  PROVE  LET out == http_parse(d, p)
             type == http_type(d, p)
         IN /\ out.la_key \in {0, 1} /\ out.data \in Entry
            /\ out.la_key = 1 =>
                 /\ About(out.data, type, p)
                 /\ out.data.kstatus = GET <=> p.begins \in {"GET", "200", "404"}
            /\ p.begins = "GET" => type = M_REQ
            /\ p.begins \in {"200", "404"} => type = M_RSP
            /\ p.begins \in {"GET", "200", "404"} => out.la_key = 1
<1> DEFINE type == http_type(d, p)
           status == http_status(d, p)
           typed == [d EXCEPT !.status = status, !.type = type]
<1>1. status \in Statuses /\ (status = GET <=> p.begins \in {"GET", "200", "404"})
  BY StatusTyped DEF Packet
<1>2. /\ type \in {0, M_REQ, M_RSP}
      /\ p.begins = "GET" => type = M_REQ
      /\ p.begins \in {"200", "404"} => type = M_RSP
  BY DEF http_type, Entry, Method
<1> HIDE DEF type, status
<1>3. typed \in Entry /\ typed.status = status /\ typed.pri = d.pri /\ d.pri \in {0, 1}
  BY <1>1, <1>2 DEF Entry
<1> HIDE DEF typed
<1> DEFINE out == http_parse(d, p)
<1>4. out = IF type \notin {M_REQ, M_RSP} THEN [la_key |-> 0, data |-> typed]
            ELSE [la_key |-> 1,
                  data |-> [Fill(typed, type, p) EXCEPT !.kstatus = typed.status,
                                                        !.pri = IF type = M_REQ THEN p.pri ELSE @]]
  BY DEF http_parse, type, status, typed
<1>5. CASE type \in {M_REQ, M_RSP}
  <2> DEFINE f == Fill(typed, type, p)
             g == WithKstatus(f, typed.status)
             x == IF type = M_REQ THEN p.pri ELSE g.pri
             h == WithPri(g, x)
  <2>1. About(f, type, p) /\ f.status = status  BY <1>3, <1>5, FillAbout
  <2> HIDE DEF f
  <2>2. About(g, type, p) /\ g.kstatus = status  BY <1>1, <1>3, <2>1, SetKstatus
  <2>3. x \in {0, 1}  BY <2>2 DEF Packet, About, Entry
  <2>4. [f EXCEPT !.kstatus = typed.status, !.pri = IF type = M_REQ THEN p.pri ELSE @] = h
    BY <2>1 DEF About, Entry, WithPri, WithKstatus
  <2>5. out.la_key = 1 /\ out.data = h  BY <1>4, <1>5, <2>4 DEF f
  <2> HIDE DEF g, x
  <2>6. About(h, type, p) /\ h.kstatus = status  BY <2>2, <2>3, SetPri
  <2> HIDE DEF h, out
  <2>7. h \in Entry  BY <2>6 DEF About
  <2> QED  BY <1>1, <1>2, <2>5, <2>6, <2>7 DEF out, type
<1>6. CASE type \notin {M_REQ, M_RSP}
  BY <1>2, <1>3, <1>4, <1>6 DEF type
<1> QED  BY <1>5, <1>6

\* The MCC mode writes no type.
LEMMA AsMcc ==
  ASSUME NEW d \in Entry, NEW p \in Packet
  PROVE  LET out == burst_count(d, p) IN
         out.la_key = 1 /\ out.data \in Entry /\ out.data.type = d.type
<1>1. p.src.ip \in Addresses /\ d.ip \in Addresses  BY EndsTyped DEF Packet, Entry
<1> DEFINE x == IF Label(p) \in conf.req_label THEN p.src.ip ELSE d.ip
<1>2. x \in Addresses  BY <1>1
<1>3. burst_count(d, p) = [la_key |-> 1, data |-> [d EXCEPT !.ip = x]]
  BY DEF burst_count, Entry
<1> HIDE DEF x
<1> QED  BY <1>2, <1>3 DEF Entry
-----------------------------------------------------------------------------
(* What a packet does to the queue.                                        *)

Parsed(p) ==
  CASE Parser = "https" -> https_parse(array[occupy], p)
    [] Parser = "http" -> http_parse(array[occupy], p)
    [] Parser = "mcc" -> burst_count(array[occupy], p)
    [] Parser = "label" -> key_extract(array[occupy], p)

LEMMA Parsers == Parser \in {"https", "http", "mcc", "label"}
  BY DEF Parser

LEMMA ParsedTyped ==
  ASSUME SettingTypes, TrafficTypes, NEW p \in Packet
  PROVE  Parsed(p).la_key \in {0, 1} /\ Parsed(p).data \in Entry
<1> DEFINE d == array[occupy]
<1>1. d \in Entry /\ ts \in 1 .. MaxTime  BY DEF TrafficTypes
<1> HIDE DEF d
<1>2. CASE Parser = "https"
  <2>1. Parsed(p) = https_parse(d, p)  BY <1>2 DEF Parsed, d
  <2>2. Parsed(p).la_key = 1 /\ Parsed(p).data \in Entry  BY <1>1, <2>1, AsHttps
  <2> QED  BY <2>2
<1>3. CASE Parser = "http"
  <2>1. Parsed(p) = http_parse(d, p)  BY <1>3 DEF Parsed, d
  <2> QED  BY <1>1, <2>1, AsHttp
<1>4. CASE Parser = "mcc"
  <2>1. Parsed(p) = burst_count(d, p)  BY <1>4 DEF Parsed, d
  <2>2. Parsed(p).la_key = 1 /\ Parsed(p).data \in Entry  BY <1>1, <2>1, AsMcc
  <2> QED  BY <2>2
<1>5. CASE Parser = "label"
  <2>1. Parsed(p) = key_extract(d, p)  BY <1>5 DEF Parsed, d
  <2> QED  BY <1>1, <2>1, ByLabel
<1> QED  BY <1>2, <1>3, <1>4, <1>5, Parsers

\* The parsed slot joins the line when it is queued; the line never has it else.
LEMMA Processed ==
  ASSUME SettingTypes, TrafficTypes, NEW p \in Packet, packet_process(p), UNCHANGED deque
  PROVE  /\ array' \in [Slots -> Entry] /\ occupy' \in Slots
         /\ array'[occupy] = Parsed(p).data
         /\ \A i \in Slots \ {occupy} : array'[i] = array[i]
         /\ Parsed(p).la_key = 1 => Line' = Append(Line, Parsed(p).data) /\ occupy' # deque
         /\ Parsed(p).la_key = 0 => Line' = Line /\ occupy' = occupy
<1> DEFINE out == Parsed(p)
<1>1. /\ out.la_key \in {0, 1} /\ out.data \in Entry
  BY ParsedTyped
<1>2. /\ NextSlot(occupy) # deque
      /\ array' = [array EXCEPT ![occupy] = out.data]
      /\ occupy' = IF out.la_key > 0 THEN NextSlot(occupy) ELSE occupy
  BY DEF packet_process, Parsed
<1> HIDE DEF out
<1>3. /\ QUESIZE \in Nat \ {0} /\ occupy \in Index(QUESIZE) /\ deque \in Index(QUESIZE)
      /\ array \in [Index(QUESIZE) -> Entry]
  BY Sizes DEF TrafficTypes, Slots
<1>4. /\ array' \in [Index(QUESIZE) -> Entry] /\ array'[occupy] = out.data
      /\ \A i \in Index(QUESIZE) \ {occupy} : array'[i] = array[i]
  BY <1>1, <1>2, <1>3
<1>5. /\ Holds(array, QUESIZE, Entry) /\ Holds(array', QUESIZE, Entry)
      /\ 0 \in {0, 1} /\ 0 <= Filled(QUESIZE, occupy, deque)
  BY <1>3, <1>4, FilledFacts DEF Holds
<1>6. RingSeq(array', QUESIZE, occupy, deque, 0) = Line
  BY <1>3, <1>4, <1>5, RingSeqStore DEF Line
<1>7. (occupy + 1) % QUESIZE \in Index(QUESIZE)  BY <1>3, NextInRing
<1>8. CASE out.la_key = 1
  <2>1. occupy' = (occupy + 1) % QUESIZE /\ (occupy + 1) % QUESIZE # deque
    BY <1>2, <1>8 DEF NextSlot
  <2>2. RingSeq(array', QUESIZE, (occupy + 1) % QUESIZE, deque, 0) = Append(Line, out.data)
    <3> DEFINE t == array'
    <3>1. /\ Holds(t, QUESIZE, Entry) /\ t[occupy] = out.data
          /\ RingSeq(t, QUESIZE, occupy, deque, 0) = Line
      BY <1>4, <1>5, <1>6
    <3> HIDE DEF t
    <3>2. RingSeq(t, QUESIZE, (occupy + 1) % QUESIZE, deque, 0)
            = Append(RingSeq(t, QUESIZE, occupy, deque, 0), t[occupy])
      BY <1>3, <1>5, <2>1, <3>1, RingSeqAppend
    <3> QED  BY <3>1, <3>2 DEF t
  <2>3. Line' = Append(Line, out.data)  BY <2>1, <2>2 DEF Line
  <2> QED  BY <1>4, <1>7, <1>8, <2>1, <2>3 DEF out, Slots
<1>9. CASE out.la_key = 0
  <2>1. occupy' = occupy  BY <1>2, <1>9
  <2>2. Line' = Line  BY <1>6, <2>1 DEF Line
  <2> QED  BY <1>3, <1>4, <1>9, <2>1, <2>2 DEF out, Slots
<1> QED  BY <1>1, <1>8, <1>9

LEMMA LineTyped ==
  ASSUME TrafficTypes
  PROVE  Line \in Seq(Entry) /\ (Line = <<>> <=> occupy = deque)
<1>1. /\ QUESIZE \in Nat \ {0} /\ occupy \in Index(QUESIZE) /\ deque \in Index(QUESIZE)
      /\ Holds(array, QUESIZE, Entry)
  BY Sizes DEF TrafficTypes, Slots, Holds
<1> QED  BY <1>1, RingSeqWhole DEF Line

\* The MONITOR lcore takes the oldest entry.
LEMMA Taken ==
  ASSUME TrafficTypes, occupy # deque, deque' = NextSlot(deque), UNCHANGED queueVars
  PROVE  /\ deque' \in Slots /\ Line # <<>>
         /\ Head(Line) = array[deque] /\ Line' = Tail(Line)
<1>1. /\ QUESIZE \in Nat \ {0} /\ occupy \in Index(QUESIZE) /\ deque \in Index(QUESIZE)
      /\ Holds(array, QUESIZE, Entry)
  BY Sizes DEF TrafficTypes, Slots, Holds
<1>2. (deque + 1) % QUESIZE \in Index(QUESIZE)  BY <1>1, NextInRing
<1>3. /\ Line # <<>> /\ Head(Line) = array[deque]
      /\ RingSeq(array, QUESIZE, occupy, deque, 1) = Tail(Line)
  BY <1>1, RingSeqTail DEF Line
<1>4. RingSeq(array, QUESIZE, occupy, (deque + 1) % QUESIZE, 0)
        = RingSeq(array, QUESIZE, occupy, deque, 1)
  BY <1>1, RingSeqDequeue
<1>5. Line' = Tail(Line)
  BY <1>3, <1>4 DEF Line, NextSlot, queueVars
<1> QED  BY <1>2, <1>3, <1>5 DEF NextSlot, Slots
-----------------------------------------------------------------------------
(* The packets of clients and server.                                      *)

LEMMA MaxMember ==
  ASSUME NEW N \in Nat, NEW S \in SUBSET (0 .. N), S # {}
  PROVE  Max(S) \in S /\ \A y \in S : y <= Max(S)
<1> DEFINE T == {N - x : x \in S}
<1>1. T \in SUBSET Nat /\ T # {}  OBVIOUS
<1> HIDE DEF T
<1>2. PICK t \in T : \A u \in T : t <= u  BY <1>1, LeastMember
<1>3. PICK x \in S : t = N - x  BY <1>2 DEF T
<1>4. \A y \in S : x >= y
  <2> TAKE y \in S
  <2>1. N - y \in T  BY DEF T
  <2>2. N - x <= N - y  BY <1>2, <1>3, <2>1
  <2> QED  BY <2>2
<1> DEFINE P(m) == \A y \in S : m >= y
<1>5. Max(S) = CHOOSE m \in S : P(m)  BY DEF Max
<1>6. \E m \in S : P(m)  BY <1>4
<1> HIDE DEF P
<1>7. Max(S) \in S /\ P(Max(S))  BY <1>5, <1>6
<1> QED  BY <1>7 DEF P

LEMMA OfClient ==
  ASSUME TrafficTypes, NEW c
  PROVE  /\ Of(c) \subseteq DOMAIN exchange
         /\ Of(c) # {} => /\ Max(Of(c)) \in Of(c)
                          /\ \A m \in Of(c) : m <= Max(Of(c))
<1>1. DOMAIN exchange = 1 .. Len(exchange) /\ Len(exchange) \in Nat  BY DEF TrafficTypes
<1>2. Of(c) \in SUBSET (0 .. Len(exchange))  BY <1>1 DEF Of
<1> QED  BY <1>1, <1>2, MaxMember DEF Of

LEMMA LatestOf ==
  ASSUME TrafficTypes, NEW n \in Latest
  PROVE  /\ n \in DOMAIN exchange
         /\ \A m \in DOMAIN exchange : exchange[m].client = exchange[n].client => m <= n
<1>1. PICK e \in Range(exchange) : n = Max(Of(e.client))  BY DEF Latest
<1>2. PICK k \in DOMAIN exchange : e = exchange[k]  BY <1>1 DEF Range
<1>3. k \in Of(e.client)  BY <1>2 DEF Of
<1>4. n \in Of(e.client) /\ \A m \in Of(e.client) : m <= n  BY <1>1, <1>3, OfClient
<1> QED  BY <1>4 DEF Of

LEMMA ExchangeFacts ==
  ASSUME TrafficTypes, NEW n \in DOMAIN exchange
  PROVE  /\ exchange[n] \in Exchange /\ n \in 1 .. Len(exchange) /\ Len(exchange) \in Nat
         /\ n \in Nat \ {0} /\ n <= MaxReqs
         /\ End(n) \in Nat /\ End(n) = exchange[n].seq + 1 + exchange[n].segments
         /\ exchange[n].seq \in Nat \ {0} /\ exchange[n].segments \in {1, 2}
         /\ exchange[n].client \in Clients
<1>1. exchange[n] \in Exchange /\ n \in 1 .. Len(exchange) /\ Len(exchange) \in Nat /\ Len(exchange) <= MaxReqs
  BY DEF TrafficTypes
<1>2. exchange[n].seq \in Nat \ {0} /\ exchange[n].segments \in {1, 2} /\ exchange[n].client \in Clients
  BY <1>1 DEF Exchange
<1> QED  BY <1>1, <1>2, Sizes DEF End

LEMMA PriorityTyped == \A n \in Nat : Priority(n) \in {0, 1}
<1> SUFFICES ASSUME NEW n \in Nat PROVE Priority(n) \in {0, 1}
  OBVIOUS
<1>1. n % 2 \in 0 .. 1  OBVIOUS
<1> QED  BY <1>1 DEF Priority

\* Bounds of what a new request is numbered with.
NextSeq(c) == IF Of(c) = {} THEN 1 ELSE End(Max(Of(c)))

LEMMA AskFacts ==
  ASSUME TrafficTypes, NEW c \in Clients, Ask(c)
  PROVE  LET n == Len(exchange) + 1 IN
         /\ NextSeq(c) \in Nat \ {0} /\ n \in Nat \ {0} /\ n <= MaxReqs
         /\ \A m \in Of(c) : ~Open(m)
         /\ \E begins \in Requests :
              LET p == Up(n, NextSeq(c), begins) IN
              /\ exchange' = Append(exchange,
                   [client |-> c, begins |-> begins, seq |-> NextSeq(c), asked |-> ts, last |-> ts,
                    segments |-> 1, status |-> "none", answered |-> 0, rest |-> FALSE])
              /\ exchange'[n].client = c
              /\ p \in Packet /\ p.src = c /\ p.dst = Server /\ p.begins = begins
              /\ p.sent_seq = NextSeq(c) /\ p.len = 2 /\ p.pri = Priority(n) /\ p.req = n
              /\ packet_process(p)
         /\ ts' = ts
<1> DEFINE n == Len(exchange) + 1
<1>1. NextSeq(c) \in Nat \ {0}
  BY OfClient, ExchangeFacts DEF NextSeq
<1>2. Len(exchange) \in Nat /\ Len(exchange) < MaxReqs  BY DEF TrafficTypes, Ask
<1>3. n \in Nat \ {0} /\ n <= MaxReqs  BY <1>2, Sizes
<1>4. PICK begins \in Beginnings(Requests) :
        /\ exchange' = Append(exchange,
             [client |-> c, begins |-> begins, seq |-> NextSeq(c), asked |-> ts, last |-> ts,
              segments |-> 1, status |-> "none", answered |-> 0, rest |-> FALSE])
        /\ packet_process(Up(n, NextSeq(c), begins))
  BY DEF Ask, NextSeq
<1>5. begins \in Requests  BY Begins DEF Beginnings
<1>6. exchange'[n].client = c
  BY <1>4, <1>2 DEF TrafficTypes
<1> DEFINE p == Up(n, NextSeq(c), begins)
<1>7. p = [src |-> c, dst |-> Server, begins |-> begins, sent_seq |-> NextSeq(c), recv_ack |-> 1,
           len |-> IF begins = "text" THEN 1 ELSE 2, pri |-> Priority(n), req |-> n]
  BY <1>6 DEF Up
<1>8. begins # "text"  BY <1>5, Begins
<1>9. Priority(n) \in {0, 1}  BY <1>3, PriorityTyped
<1>10. c \in Ends /\ Server \in Ends  BY EndsTyped
<1> HIDE DEF p, n
<1>11. p \in Packet  BY <1>1, <1>3, <1>5, <1>7, <1>8, <1>9, <1>10 DEF Packet
<1>12. /\ p.src = c /\ p.dst = Server /\ p.begins = begins
       /\ p.sent_seq = NextSeq(c) /\ p.len = 2 /\ p.pri = Priority(n) /\ p.req = n
  BY <1>7, <1>8
<1>13. ts' = ts /\ \A m \in Of(c) : ~Open(m)  BY DEF Ask
<1> QED  BY <1>1, <1>3, <1>4, <1>5, <1>6, <1>11, <1>12, <1>13 DEF p, n

LEMMA AskMoreFacts ==
  ASSUME TrafficTypes, NEW n \in DOMAIN exchange, AskMore(n)
  PROVE  LET p == Up(n, End(n), "text") IN
         /\ Open(n) /\ exchange[n].segments = 1 /\ End(n) = exchange[n].seq + 2
         /\ exchange' = [exchange EXCEPT ![n].segments = 2, ![n].last = ts]
         /\ p \in Packet /\ p.src = exchange[n].client /\ p.dst = Server /\ p.begins = "text"
         /\ p.sent_seq = End(n) /\ p.len = 1 /\ p.pri = Priority(n) /\ p.req = n
         /\ packet_process(p)
         /\ ts' = ts
<1> DEFINE p == Up(n, End(n), "text")
<1>1. /\ Open(n) /\ exchange[n].segments = 1
      /\ exchange' = [exchange EXCEPT ![n].segments = 2, ![n].last = ts]
      /\ packet_process(p) /\ ts' = ts
  BY DEF AskMore
<1>2. exchange'[n].client = exchange[n].client  BY <1>1, ExchangeFacts DEF Exchange
<1>3. p = [src |-> exchange[n].client, dst |-> Server, begins |-> "text", sent_seq |-> End(n),
           recv_ack |-> 1, len |-> 1, pri |-> Priority(n), req |-> n]
  BY <1>2 DEF Up
<1>4. /\ Priority(n) \in {0, 1} /\ End(n) \in Nat /\ n \in Nat /\ End(n) = exchange[n].seq + 2
      /\ exchange[n].client \in Ends /\ Server \in Ends
  BY <1>1, ExchangeFacts, PriorityTyped, EndsTyped
<1> HIDE DEF p
<1>5. p \in Packet  BY <1>3, <1>4 DEF Packet
<1> QED  BY <1>1, <1>3, <1>4, <1>5 DEF p

\* A segment of the response to exchange n.
LEMMA DownFacts ==
  ASSUME TrafficTypes, NEW n \in DOMAIN exchange, NEW begins \in Responses \cup {"text"}
  PROVE  LET p == Down(n, begins) IN
         /\ p \in Packet /\ p.src = Server /\ p.dst = exchange[n].client /\ p.begins = begins
         /\ p.recv_ack = End(n) /\ p.pri = Priority(n) /\ p.req = n /\ p.dst # Server
<1> DEFINE p == Down(n, begins)
<1>1. p = [src |-> Server, dst |-> exchange[n].client, begins |-> begins, sent_seq |-> 1,
           recv_ack |-> End(n), len |-> 2, pri |-> Priority(n), req |-> n]
  BY DEF Down
<1>2. /\ Priority(n) \in {0, 1} /\ End(n) \in Nat /\ n \in Nat
      /\ exchange[n].client \in Ends /\ Server \in Ends /\ exchange[n].client # Server
  BY ExchangeFacts, PriorityTyped, EndsTyped
<1> HIDE DEF p
<1>3. p \in Packet  BY <1>1, <1>2 DEF Packet
<1> QED  BY <1>1, <1>2, <1>3 DEF p

LEMMA AnswerFacts ==
  ASSUME TrafficTypes, NEW n \in DOMAIN exchange, Answer(n)
  PROVE  /\ Open(n) /\ ts' = ts
         /\ \E begins \in Responses :
              /\ exchange' = [exchange EXCEPT ![n].status = begins, ![n].answered = ts]
              /\ packet_process(Down(n, begins))
<1>1. Beginnings(Responses) \subseteq Responses  BY Begins DEF Beginnings
<1> QED  BY <1>1 DEF Answer

LEMMA AnswerMoreFacts ==
  ASSUME NEW n, AnswerMore(n)
  PROVE  /\ ~Open(n) /\ ts' = ts
         /\ exchange' = [exchange EXCEPT ![n].rest = TRUE]
         /\ packet_process(Down(n, "text"))
  BY DEF AnswerMore

\* What is settled about an exchange stays so.
Kept ==
  \A n \in DOMAIN exchange :
    LET e == exchange[n]  f == exchange'[n] IN
    /\ n \in DOMAIN exchange'
    /\ f.client = e.client /\ f.begins = e.begins /\ f.seq = e.seq /\ f.asked = e.asked
    /\ e.segments = 2 => f.segments = 2 /\ f.last = e.last
    /\ ~Open(n) => f.status = e.status /\ f.answered = e.answered /\ f.segments = e.segments
                   /\ f.last = e.last

LEMMA AskStep ==
  ASSUME SettingTypes, TrafficTypes, NEW c \in Clients, Ask(c), UNCHANGED deque
  PROVE  TrafficTypes' /\ Kept /\ Len(exchange') = Len(exchange) + 1
<1> DEFINE n == Len(exchange) + 1
<1>1. PICK begins \in Requests :
        /\ exchange' = Append(exchange,
             [client |-> c, begins |-> begins, seq |-> NextSeq(c), asked |-> ts, last |-> ts,
              segments |-> 1, status |-> "none", answered |-> 0, rest |-> FALSE])
        /\ Up(n, NextSeq(c), begins) \in Packet
        /\ packet_process(Up(n, NextSeq(c), begins))
  BY AskFacts
<1>2. NextSeq(c) \in Nat \ {0} /\ n <= MaxReqs /\ ts' = ts  BY AskFacts
<1> DEFINE e == [client |-> c, begins |-> begins, seq |-> NextSeq(c), asked |-> ts, last |-> ts,
                 segments |-> 1, status |-> "none", answered |-> 0, rest |-> FALSE]
<1>3. e \in Exchange  BY <1>2, Sizes DEF Exchange, TrafficTypes
<1>4. exchange' = Append(exchange, e)  BY <1>1
<1> HIDE DEF e
<1>5. exchange \in Seq(Exchange)  BY DEF TrafficTypes
<1>6. /\ exchange' \in Seq(Exchange) /\ Len(exchange') = n
      /\ \A m \in DOMAIN exchange : m \in DOMAIN exchange' /\ exchange'[m] = exchange[m]
  BY <1>3, <1>4, <1>5, AppendProperties
<1>7. array' \in [Slots -> Entry] /\ occupy' \in Slots  BY <1>1, Processed
<1>8. TrafficTypes'  BY <1>2, <1>6, <1>7 DEF TrafficTypes
<1> QED  BY <1>6, <1>8 DEF Kept

LEMMA AskMoreStep ==
  ASSUME SettingTypes, TrafficTypes, NEW n \in DOMAIN exchange, AskMore(n), UNCHANGED deque
  PROVE  TrafficTypes' /\ Kept /\ DOMAIN exchange' = DOMAIN exchange
<1>1. /\ Open(n) /\ exchange[n].segments = 1
      /\ exchange' = [exchange EXCEPT ![n].segments = 2, ![n].last = ts]
      /\ Up(n, End(n), "text") \in Packet /\ packet_process(Up(n, End(n), "text")) /\ ts' = ts
  BY AskMoreFacts
<1>2. ts \in 1 .. MaxTime /\ exchange \in Seq(Exchange) /\ exchange[n] \in Exchange
  BY ExchangeFacts DEF TrafficTypes
<1>3. /\ exchange' \in Seq(Exchange) /\ Len(exchange') = Len(exchange)
      /\ DOMAIN exchange' = DOMAIN exchange
      /\ \A m \in DOMAIN exchange \ {n} : exchange'[m] = exchange[m]
      /\ exchange'[n] = [exchange[n] EXCEPT !.segments = 2, !.last = ts]
  <2> DEFINE e == [exchange[n] EXCEPT !.segments = 2, !.last = ts]
  <2>1. e \in Exchange  BY <1>2 DEF Exchange
  <2>2. exchange' = [exchange EXCEPT ![n] = e]  BY <1>1, <1>2 DEF Exchange
  <2> HIDE DEF e
  <2> QED  BY <1>2, <2>1, <2>2, ExceptSeq DEF e
<1>4. array' \in [Slots -> Entry] /\ occupy' \in Slots  BY <1>1, Processed
<1>5. TrafficTypes'  BY <1>1, <1>3, <1>4 DEF TrafficTypes
<1>6. /\ exchange'[n].client = exchange[n].client /\ exchange'[n].begins = exchange[n].begins
      /\ exchange'[n].seq = exchange[n].seq /\ exchange'[n].asked = exchange[n].asked
  BY <1>2, <1>3 DEF Exchange
<1>7. Kept  BY <1>1, <1>3, <1>6 DEF Kept
<1> QED  BY <1>3, <1>5, <1>7

LEMMA AnswerStep ==
  ASSUME SettingTypes, TrafficTypes, NEW n \in DOMAIN exchange, Answer(n), UNCHANGED deque
  PROVE  TrafficTypes' /\ Kept /\ DOMAIN exchange' = DOMAIN exchange
<1>1. PICK begins \in Responses :
        /\ exchange' = [exchange EXCEPT ![n].status = begins, ![n].answered = ts]
        /\ packet_process(Down(n, begins))
  BY AnswerFacts
<1>2. /\ ts \in 1 .. MaxTime /\ ts' = ts /\ Open(n)
      /\ exchange \in Seq(Exchange) /\ exchange[n] \in Exchange
  BY ExchangeFacts, AnswerFacts DEF TrafficTypes
<1>3. /\ exchange' \in Seq(Exchange) /\ Len(exchange') = Len(exchange)
      /\ DOMAIN exchange' = DOMAIN exchange
      /\ \A m \in DOMAIN exchange \ {n} : exchange'[m] = exchange[m]
      /\ exchange'[n] = [exchange[n] EXCEPT !.status = begins, !.answered = ts]
  <2> DEFINE e == [exchange[n] EXCEPT !.status = begins, !.answered = ts]
  <2>1. e \in Exchange
      <3>1. ts \in 0 .. MaxTime /\ begins \in Responses \cup {"none"}  BY <1>1, <1>2
      <3> QED  BY <1>2, <3>1 DEF Exchange
  <2>2. exchange' = [exchange EXCEPT ![n] = e]  BY <1>1, <1>2 DEF Exchange
  <2> HIDE DEF e
  <2> QED  BY <1>2, <2>1, <2>2, ExceptSeq DEF e
<1>4. array' \in [Slots -> Entry] /\ occupy' \in Slots  BY <1>1, DownFacts, Processed
<1>5. TrafficTypes'  BY <1>2, <1>3, <1>4 DEF TrafficTypes
<1>6. /\ exchange'[n].client = exchange[n].client /\ exchange'[n].begins = exchange[n].begins
      /\ exchange'[n].seq = exchange[n].seq /\ exchange'[n].asked = exchange[n].asked
      /\ exchange'[n].segments = exchange[n].segments /\ exchange'[n].last = exchange[n].last
  BY <1>2, <1>3 DEF Exchange
<1>7. Kept  BY <1>2, <1>3, <1>6 DEF Kept
<1> QED  BY <1>3, <1>5, <1>7

LEMMA AnswerMoreStep ==
  ASSUME SettingTypes, TrafficTypes, NEW n \in DOMAIN exchange, AnswerMore(n), UNCHANGED deque
  PROVE  TrafficTypes' /\ Kept /\ DOMAIN exchange' = DOMAIN exchange
<1>1. /\ ~Open(n) /\ ts' = ts
      /\ exchange' = [exchange EXCEPT ![n].rest = TRUE]
      /\ packet_process(Down(n, "text"))
  BY AnswerMoreFacts
<1>2. ts \in 1 .. MaxTime /\ exchange \in Seq(Exchange) /\ exchange[n] \in Exchange
  BY ExchangeFacts DEF TrafficTypes
<1>3. /\ exchange' \in Seq(Exchange) /\ Len(exchange') = Len(exchange)
      /\ DOMAIN exchange' = DOMAIN exchange
      /\ \A m \in DOMAIN exchange \ {n} : exchange'[m] = exchange[m]
      /\ exchange'[n] = [exchange[n] EXCEPT !.rest = TRUE]
  <2> DEFINE e == [exchange[n] EXCEPT !.rest = TRUE]
  <2>1. e \in Exchange  BY <1>2 DEF Exchange
  <2>2. exchange' = [exchange EXCEPT ![n] = e]  BY <1>1, <1>2 DEF Exchange
  <2> HIDE DEF e
  <2> QED  BY <1>2, <2>1, <2>2, ExceptSeq DEF e
<1>4. array' \in [Slots -> Entry] /\ occupy' \in Slots  BY <1>1, DownFacts, Processed
<1>5. TrafficTypes'  BY <1>1, <1>2, <1>3, <1>4 DEF TrafficTypes
<1>6. /\ exchange'[n].client = exchange[n].client /\ exchange'[n].begins = exchange[n].begins
      /\ exchange'[n].seq = exchange[n].seq /\ exchange'[n].asked = exchange[n].asked
      /\ exchange'[n].segments = exchange[n].segments /\ exchange'[n].last = exchange[n].last
      /\ exchange'[n].status = exchange[n].status /\ exchange'[n].answered = exchange[n].answered
  BY <1>2, <1>3 DEF Exchange
<1>7. Kept  BY <1>2, <1>3, <1>6 DEF Kept
<1> QED  BY <1>3, <1>5, <1>7
-----------------------------------------------------------------------------
(* What the MONITOR lcore does to the tables.                              *)

LEMMA KeyTyped ==
  ASSUME NEW d \in Entry
  PROVE  Key(d) \in Keys
<1>1. /\ d.ip \in Addresses /\ d.port \in Numbers /\ d.kstatus \in Statuses /\ d.ts \in 0 .. MaxTime
  BY DEF Entry
<1>2. Sec(d.ts) \in Sec(0) .. Sec(MaxTime)
  <2>1. d.ts \in Nat /\ 0 <= d.ts /\ d.ts <= MaxTime /\ MaxTime \in Nat /\ TicksPerSec \in Nat \ {0}
    BY <1>1, Sizes
  <2>2. /\ 0 \div TicksPerSec \in Nat /\ d.ts \div TicksPerSec \in Nat /\ MaxTime \div TicksPerSec \in Nat
    BY <2>1, DivMod
  <2>3. 0 \div TicksPerSec <= d.ts \div TicksPerSec
    BY <2>1, DivMonotone
  <2>4. d.ts \div TicksPerSec <= MaxTime \div TicksPerSec
    BY <2>1, DivMonotone
  <2> QED  BY <2>2, <2>3, <2>4 DEF Sec
<1>3. CASE USE_HTTP
  BY <1>1, <1>3 DEF Key, Keys
<1>4. CASE ~USE_HTTP
  BY <1>1, <1>2, <1>4 DEF Key, Keys
<1> QED  BY <1>3, <1>4

\* What response_time_process is given.
Given(d) ==
  [type |-> IF d.type = M_REQ THEN "M_REQ" ELSE "M_RSP", flow |-> Key(d), sent_seq |-> d.sent_seq,
   total_len |-> d.total_len, ts |-> d.ts, pri |-> d.pri, req |-> d.req]

Full == Cardinality(DOMAIN slot) = REQ_HASH_ENTRIES

\* The same operators by the names they have in RT.
LEMMA SameNames ==
  ASSUME NEW S
  PROVE  RT!Cardinality(S) = Cardinality(S) /\ RT!Min(S) = Min(S)
  BY DEF RT!Cardinality, Cardinality, RT!Min, Min

LEMMA FreePlace ==
  ASSUME TableTypes, ~Full
  PROVE  RT!FreePosition({slot[g] : g \in DOMAIN slot})
           \in RT!Positions \ {slot[g] : g \in DOMAIN slot}
<1> DEFINE used == {slot[g] : g \in DOMAIN slot}
           free == RT!Positions \ used
<1>1. IsFiniteSet(DOMAIN slot) /\ Cardinality(DOMAIN slot) \in Nat
  BY FS_CardinalityType DEF TableTypes
<1>2. Cardinality(used) <= Cardinality(DOMAIN slot) /\ IsFiniteSet(used)
  <2>1. [g \in DOMAIN slot |-> slot[g]] \in Surjection(DOMAIN slot, used)
    BY DEF Surjection
  <2> QED  BY <1>1, <2>1, FS_Surjection
<1>3. Cardinality(used) \in Nat  BY <1>2, FS_CardinalityType
<1>4. RT!Positions = 0 .. REQ_HASH_ENTRIES - 1  BY DEF RT!Positions
<1>5. Cardinality(RT!Positions) = REQ_HASH_ENTRIES
  <2>1. Cardinality(0 .. REQ_HASH_ENTRIES - 1) = REQ_HASH_ENTRIES
    BY Sizes, FS_Interval
  <2> QED  BY <1>4, <2>1
<1>6. Cardinality(DOMAIN slot) < REQ_HASH_ENTRIES  BY <1>1, Sizes DEF TableTypes, Full
<1>7. free # {}
  <2> SUFFICES ASSUME free = {} PROVE FALSE
    OBVIOUS
  <2>1. RT!Positions \subseteq used  OBVIOUS
  <2>2. Cardinality(RT!Positions) <= Cardinality(used)
    BY <1>2, <2>1, FS_Subset
  <2> QED  BY <1>1, <1>2, <1>3, <1>5, <1>6, <2>2, Sizes
<1>8. free \in SUBSET Nat  BY <1>4, Sizes
<1> HIDE DEF used, free
<1>9. PICK x \in free : \A y \in free : x <= y  BY <1>7, <1>8, LeastMember
<1>10. Min(free) = x  BY <1>8, <1>9, MinIsLeast
<1>11. RT!FreePosition(used) = Min(free)  BY SameNames DEF RT!FreePosition, free
<1> QED  BY <1>9, <1>10, <1>11 DEF free, used

HashTypes ==
  /\ slot \in [DOMAIN slot -> RT!Positions] /\ DOMAIN slot \subseteq Keys
  /\ IsFiniteSet(DOMAIN slot) /\ Cardinality(DOMAIN slot) <= REQ_HASH_ENTRIES
  /\ \A g, h \in DOMAIN slot : slot[g] = slot[h] => g = h

\* The position of a key: its own, or none, or a new one.
Placed(k, pos) ==
  \/ k \in DOMAIN slot /\ pos = slot[k] /\ slot' = slot
  \/ k \notin DOMAIN slot /\ Full /\ pos = RT!ENOSPC /\ slot' = slot
  \/ /\ k \notin DOMAIN slot /\ ~Full
     /\ pos \in RT!Positions /\ \A g \in DOMAIN slot : slot[g] # pos
     /\ DOMAIN slot' = DOMAIN slot \cup {k} /\ slot'[k] = pos
     /\ \A g \in DOMAIN slot : slot'[g] = slot[g]

LEMMA HashAdd ==
  ASSUME TableTypes, NEW k \in Keys, NEW pos \in RT!Places, RT!AddKey(k, pos)
  PROVE  HashTypes' /\ Placed(k, pos)
<1>0. HashTypes  BY DEF TableTypes, HashTypes
<1>1. CASE slot' = slot /\ (k \in DOMAIN slot \/ Full)
  <2>1. HashTypes'  BY <1>0, <1>1 DEF HashTypes
  <2>2. CASE k \in DOMAIN slot
    <3>1. pos = slot[k]  BY <2>2 DEF RT!AddKey
    <3> QED  BY <1>1, <2>1, <2>2, <3>1 DEF Placed
  <2>3. CASE k \notin DOMAIN slot
    <3>1. pos = RT!ENOSPC  BY <1>1, <2>3, SameNames DEF RT!AddKey, Full
    <3> QED  BY <1>1, <2>1, <2>3, <3>1 DEF Placed
  <2> QED  BY <2>2, <2>3
<1>2. CASE k \notin DOMAIN slot /\ ~Full
  <2>1. /\ pos = RT!FreePosition({slot[g] : g \in DOMAIN slot})
        /\ slot' = [g \in DOMAIN slot \cup {k} |-> IF g = k THEN pos ELSE slot[g]]
    BY <1>2, SameNames DEF RT!AddKey, Full
  <2>2. pos \in RT!Positions /\ \A g \in DOMAIN slot : slot[g] # pos
    BY <1>2, <2>1, FreePlace
  <2>3. DOMAIN slot' = DOMAIN slot \cup {k} /\ slot'[k] = pos
        /\ \A g \in DOMAIN slot : slot'[g] = slot[g]
    BY <1>2, <2>1
  <2>4. slot' \in [DOMAIN slot' -> RT!Positions] /\ DOMAIN slot' \subseteq Keys
    BY <1>0, <2>1, <2>2, <2>3 DEF HashTypes
  <2>5. IsFiniteSet(DOMAIN slot') /\ Cardinality(DOMAIN slot') <= REQ_HASH_ENTRIES
    <3>1. IsFiniteSet(DOMAIN slot) /\ Cardinality(DOMAIN slot) \in Nat
      BY <1>0, FS_CardinalityType DEF HashTypes
    <3>2. /\ Cardinality(DOMAIN slot \cup {k}) = Cardinality(DOMAIN slot) + 1
          /\ IsFiniteSet(DOMAIN slot \cup {k})
      BY <1>2, <3>1, FS_AddElement
    <3> QED  BY <1>0, <1>2, <2>3, <3>1, <3>2, Sizes DEF HashTypes, Full
  <2>6. \A g, h \in DOMAIN slot' : slot'[g] = slot'[h] => g = h
    BY <1>0, <2>2, <2>3 DEF HashTypes
  <2> QED  BY <1>2, <2>2, <2>3, <2>4, <2>5, <2>6 DEF HashTypes, Placed
<1>3. (slot' = slot /\ (k \in DOMAIN slot \/ Full)) \/ (k \notin DOMAIN slot /\ ~Full)
  BY SameNames DEF RT!AddKey, Full
<1> QED  BY <1>1, <1>2, <1>3
\* What the tables hold at a position but the hash.
Cells ==
  /\ Maxseq \in [RT!Places -> [req_sent_seq : Nat, payload_len : Nat, rsp_sent_seq : Nat]]
  /\ req_out_if \in [RT!Places -> Nat]
  /\ req_hy_count \in [RT!Places -> [count : {0, 1}, pri : {-1, 0, 1}]]

Elsewhere(pos) ==
  \A q \in RT!Places \ {pos} :
    Maxseq'[q] = Maxseq[q] /\ req_out_if'[q] = req_out_if[q] /\ req_hy_count'[q] = req_hy_count[q]

\* A request: its position gets its number, length and time if the number is above
\* the one there, and its priority in any case.
LEMMA RequestTable ==
  ASSUME TableTypes, NEW d \in Entry, d.type = M_REQ, RT!OnRequest(Given(d))
  PROVE  \E pos \in RT!Places :
           /\ HashTypes' /\ Placed(Key(d), pos) /\ Cells' /\ Elsewhere(pos)
           /\ IF Maxseq[pos].req_sent_seq < d.sent_seq
              THEN Maxseq'[pos].req_sent_seq = d.sent_seq /\ Maxseq'[pos].payload_len = d.total_len
                   /\ req_out_if'[pos] = d.ts
              ELSE Maxseq'[pos] = Maxseq[pos] /\ req_out_if'[pos] = req_out_if[pos]
           /\ Maxseq'[pos].rsp_sent_seq = Maxseq[pos].rsp_sent_seq
           /\ ~rsp_pri => req_hy_count'[pos].pri = d.pri
           /\ ack_time' = ack_time
<1> DEFINE g == Given(d)
<1>1. /\ g.type = "M_REQ" /\ g.flow = Key(d) /\ g.sent_seq = d.sent_seq /\ g.total_len = d.total_len
      /\ g.ts = d.ts /\ g.pri = d.pri
  BY DEF Given
<1>2. /\ d.sent_seq \in Nat /\ d.total_len \in Nat /\ d.ts \in Nat /\ d.pri \in {0, 1}
      /\ Key(d) \in Keys
  BY KeyTyped, Sizes DEF Entry
<1> HIDE DEF g
<1>3. RT!OnRequest(g)  BY DEF g
<1>4. PICK pos \in RT!Places :
        /\ RT!AddKey(g.flow, pos)
        /\ RT!NewRequest(pos, g) \/ RT!RepeatedRequest(pos, g)
        /\ LET counted == IF RT!IsNew(pos, g) THEN [req_hy_count EXCEPT ![pos].count = 1] ELSE req_hy_count
           IN IF rsp_pri THEN req_hy_count' = counted
              ELSE req_hy_count' = [counted EXCEPT ![pos].pri = g.pri]
  BY <1>3 DEF RT!OnRequest
<1>5. ack_time' = ack_time  BY <1>3 DEF RT!OnRequest, RT!responseStats
<1>6. HashTypes' /\ Placed(Key(d), pos)  BY <1>1, <1>2, <1>4, HashAdd
<1>7. Cells  BY DEF TableTypes, Cells
<1>8. /\ req_hy_count' \in [RT!Places -> [count : {0, 1}, pri : {-1, 0, 1}]]
      /\ \A q \in RT!Places \ {pos} : req_hy_count'[q] = req_hy_count[q]
      /\ ~rsp_pri => req_hy_count'[pos].pri = d.pri
  <2> DEFINE counted == IF RT!IsNew(pos, g) THEN [req_hy_count EXCEPT ![pos].count = 1] ELSE req_hy_count
  <2>1. /\ counted \in [RT!Places -> [count : {0, 1}, pri : {-1, 0, 1}]]
        /\ \A q \in RT!Places \ {pos} : counted[q] = req_hy_count[q]
    BY <1>7 DEF Cells
  <2>2. IF rsp_pri THEN req_hy_count' = counted ELSE req_hy_count' = [counted EXCEPT ![pos].pri = d.pri]
    BY <1>1, <1>4
  <2> HIDE DEF counted
  <2>3. CASE rsp_pri  BY <2>1, <2>2, <2>3
  <2>4. CASE ~rsp_pri
    <3>1. req_hy_count' = [counted EXCEPT ![pos].pri = d.pri]  BY <2>2, <2>4
    <3>2. d.pri \in {-1, 0, 1}  BY <1>2
    <3> QED  BY <2>1, <3>1, <3>2
  <2> QED  BY <2>3, <2>4
<1>9. CASE RT!NewRequest(pos, g)
  <2>1. /\ Maxseq[pos].req_sent_seq < d.sent_seq
        /\ Maxseq' = [Maxseq EXCEPT ![pos].req_sent_seq = d.sent_seq, ![pos].payload_len = d.total_len]
        /\ req_out_if' = [req_out_if EXCEPT ![pos] = d.ts]
    BY <1>1, <1>9 DEF RT!NewRequest, RT!IsNew
  <2>2. /\ Maxseq' \in [RT!Places -> [req_sent_seq : Nat, payload_len : Nat, rsp_sent_seq : Nat]]
        /\ Maxseq'[pos].req_sent_seq = d.sent_seq /\ Maxseq'[pos].payload_len = d.total_len
        /\ Maxseq'[pos].rsp_sent_seq = Maxseq[pos].rsp_sent_seq
        /\ \A q \in RT!Places \ {pos} : Maxseq'[q] = Maxseq[q]
    BY <1>2, <1>7, <2>1 DEF Cells
  <2>3. /\ req_out_if' \in [RT!Places -> Nat] /\ req_out_if'[pos] = d.ts
        /\ \A q \in RT!Places \ {pos} : req_out_if'[q] = req_out_if[q]
    BY <1>2, <1>7, <2>1 DEF Cells
  <2> QED  BY <1>5, <1>6, <1>8, <2>1, <2>2, <2>3 DEF Cells, Elsewhere
<1>10. CASE RT!RepeatedRequest(pos, g)
  <2>1. /\ ~(Maxseq[pos].req_sent_seq < d.sent_seq) /\ Maxseq' = Maxseq /\ req_out_if' = req_out_if
    BY <1>1, <1>10 DEF RT!RepeatedRequest, RT!IsNew
  <2> QED  BY <1>5, <1>6, <1>7, <1>8, <2>1 DEF Cells, Elsewhere
<1> QED  BY <1>4, <1>9, <1>10

\* A response that finds no request, or comes too early.
Unmatched(d) ==
  /\ Maxseq' = Maxseq /\ req_hy_count' = req_hy_count /\ ack_time' = ack_time
  /\ Key(d) \in DOMAIN slot =>
       LET pos == slot[Key(d)] IN
       (d.sent_seq - Maxseq[pos].req_sent_seq) % SeqMod > Maxseq[pos].payload_len \/ d.ts <= req_out_if[pos]

\* One that finds its request.
Matched(d) ==
  LET pos == slot[Key(d)] IN
  /\ Key(d) \in DOMAIN slot /\ Elsewhere(pos)
  /\ (d.sent_seq - Maxseq[pos].req_sent_seq) % SeqMod <= Maxseq[pos].payload_len
  /\ Maxseq'[pos].req_sent_seq = Maxseq[pos].req_sent_seq
  /\ Maxseq'[pos].payload_len = Maxseq[pos].payload_len
  /\ ~rsp_pri => req_hy_count' = req_hy_count

\* The sample of a response.
SampleOfResponse(d, pri) ==
  [time |-> d.ts - req_out_if[slot[Key(d)]], pri |-> pri, flow |-> Key(d), req |-> d.req, ts |-> d.ts]

Sampled(d, pri) ==
  LET pos == slot[Key(d)] IN
  /\ Matched(d) /\ d.sent_seq > Maxseq[pos].rsp_sent_seq
  /\ Maxseq'[pos].rsp_sent_seq = d.sent_seq
  /\ rsp_pri => pri = d.pri
  /\ ~rsp_pri /\ req_hy_count[pos].pri \in {0, 1} => pri = req_hy_count[pos].pri
  /\ ack_time' = Append(ack_time, SampleOfResponse(d, pri))

SampledBefore(d) ==
  LET pos == slot[Key(d)] IN
  /\ Matched(d) /\ ~(d.sent_seq > Maxseq[pos].rsp_sent_seq)
  /\ Maxseq'[pos].rsp_sent_seq = Maxseq[pos].rsp_sent_seq /\ ack_time' = ack_time

\* A response: its number and priority are noted at its position if it comes in
\* the window and after its request, and it is a sample if it is new there.
LEMMA ResponseTable ==
  ASSUME TableTypes, NEW d \in Entry, d.type = M_RSP, RT!OnResponse(Given(d))
  PROVE  /\ slot' = slot /\ req_out_if' = req_out_if /\ Cells'
         /\ Unmatched(d) \/ SampledBefore(d) \/ \E pri \in {0, 1} : Sampled(d, pri)
<1> DEFINE g == Given(d)
           k == Key(d)
           pos == slot[k]
<1>1. /\ g.flow = k /\ g.sent_seq = d.sent_seq /\ g.total_len = d.total_len
      /\ g.ts = d.ts /\ g.pri = d.pri /\ g.req = d.req
  BY DEF Given
<1>2. /\ d.sent_seq \in Nat /\ d.ts \in Nat /\ d.pri \in {0, 1} /\ k \in Keys
  BY KeyTyped, Sizes DEF Entry
<1> HIDE DEF g
<1>3. RT!OnResponse(g)  BY DEF g
<1>4. slot' = slot /\ req_out_if' = req_out_if
  BY <1>3 DEF RT!OnResponse
<1>5. Cells  BY DEF TableTypes, Cells
<1>6. k \in DOMAIN slot => pos \in RT!Places /\ req_out_if[pos] \in Nat
  BY <1>5 DEF TableTypes, RT!Places, Cells
<1> HIDE DEF k, pos
<1>7. CASE RT!MissedResponse(g)
  <2>1. /\ k \in DOMAIN slot => ~((d.sent_seq - Maxseq[pos].req_sent_seq) % SeqMod <= Maxseq[pos].payload_len)
        /\ Maxseq' = Maxseq /\ req_hy_count' = req_hy_count /\ ack_time' = ack_time
    BY <1>1, <1>7 DEF RT!MissedResponse, RT!InWindow, RT!Minus, RT!priStats, pos
  <2>2. k \in DOMAIN slot => (d.sent_seq - Maxseq[pos].req_sent_seq) % SeqMod > Maxseq[pos].payload_len
    <3> SUFFICES ASSUME k \in DOMAIN slot
                 PROVE  (d.sent_seq - Maxseq[pos].req_sent_seq) % SeqMod > Maxseq[pos].payload_len
      OBVIOUS
    <3>1. Maxseq[pos].req_sent_seq \in Nat /\ Maxseq[pos].payload_len \in Nat  BY <1>5, <1>6 DEF Cells
    <3> DEFINE m == d.sent_seq - Maxseq[pos].req_sent_seq
    <3>2. m \in Int  BY <1>2, <3>1
    <3> HIDE DEF m
    <3>3. m % SeqMod \in Nat  BY <3>2, Sizes, SMT
    <3>4. ~(m % SeqMod <= Maxseq[pos].payload_len)  BY <2>1 DEF m
    <3>5. m % SeqMod > Maxseq[pos].payload_len  BY <3>1, <3>3, <3>4
    <3> QED  BY <3>5 DEF m
  <2> QED  BY <1>4, <1>5, <2>1, <2>2 DEF Cells, Unmatched, k, pos
<1>8. CASE RT!UntimedResponse(g)
  <2>1. /\ k \in DOMAIN slot /\ d.ts - req_out_if[pos] <= 0
        /\ Maxseq' = Maxseq /\ req_hy_count' = req_hy_count /\ ack_time' = ack_time
    BY <1>1, <1>8 DEF RT!UntimedResponse, RT!Latency, RT!priStats, pos
  <2>2. d.ts <= req_out_if[pos]  BY <1>2, <1>6, <2>1
  <2> QED  BY <1>4, <1>5, <2>1, <2>2 DEF Cells, Unmatched, k, pos
<1>9. CASE RT!TimedResponse(g)
  <2> DEFINE pri == IF (IF rsp_pri THEN d.pri ELSE req_hy_count[pos].pri) = 0 THEN 0 ELSE 1
  <2>1. /\ k \in DOMAIN slot
        /\ (d.sent_seq - Maxseq[pos].req_sent_seq) % SeqMod <= Maxseq[pos].payload_len
        /\ IF rsp_pri THEN req_hy_count' = [req_hy_count EXCEPT ![pos].pri = d.pri]
           ELSE req_hy_count' = req_hy_count
        /\ IF d.sent_seq > Maxseq[pos].rsp_sent_seq
           THEN /\ Maxseq' = [Maxseq EXCEPT ![pos].rsp_sent_seq = d.sent_seq]
                /\ ack_time' = Append(ack_time, [time |-> d.ts - req_out_if[pos], pri |-> pri,
                                                 flow |-> k, req |-> d.req, ts |-> d.ts])
           ELSE Maxseq' = Maxseq /\ ack_time' = ack_time
    BY <1>1, <1>9 DEF RT!TimedResponse, RT!InWindow, RT!Minus, RT!IsNewResponse, RT!Latency, RT!priStats, pos, k
  <2>2. /\ pri \in {0, 1}
        /\ rsp_pri => pri = d.pri
        /\ ~rsp_pri /\ req_hy_count[pos].pri \in {0, 1} => pri = req_hy_count[pos].pri
    BY <1>2
  <2> HIDE DEF pri
  <2>3. pos \in RT!Places /\ d.pri \in {-1, 0, 1}  BY <1>2, <1>6, <2>1
  <2>4. /\ req_hy_count' \in [RT!Places -> [count : {0, 1}, pri : {-1, 0, 1}]]
        /\ \A q \in RT!Places \ {pos} : req_hy_count'[q] = req_hy_count[q]
        /\ ~rsp_pri => req_hy_count' = req_hy_count
    BY <1>5, <2>1, <2>3 DEF Cells
  <2>5. /\ Maxseq' \in [RT!Places -> [req_sent_seq : Nat, payload_len : Nat, rsp_sent_seq : Nat]]
        /\ \A q \in RT!Places \ {pos} : Maxseq'[q] = Maxseq[q]
        /\ Maxseq'[pos].req_sent_seq = Maxseq[pos].req_sent_seq
        /\ Maxseq'[pos].payload_len = Maxseq[pos].payload_len
        /\ IF d.sent_seq > Maxseq[pos].rsp_sent_seq THEN Maxseq'[pos].rsp_sent_seq = d.sent_seq
           ELSE Maxseq'[pos].rsp_sent_seq = Maxseq[pos].rsp_sent_seq
    BY <1>2, <1>5, <2>1, <2>3, SMTT(20) DEF Cells
  <2>6. Cells' /\ Elsewhere(pos)  BY <1>4, <1>5, <2>4, <2>5 DEF Cells, Elsewhere
  <2>7. Matched(d)  BY <2>1, <2>4, <2>5, <2>6 DEF Matched, k, pos
  <2>8. CASE d.sent_seq > Maxseq[pos].rsp_sent_seq
    <3>1. Sampled(d, pri)
      BY <2>1, <2>2, <2>5, <2>7, <2>8 DEF Sampled, SampleOfResponse, k, pos
    <3> QED  BY <1>4, <2>2, <2>6, <3>1
  <2>9. CASE ~(d.sent_seq > Maxseq[pos].rsp_sent_seq)
    <3>1. SampledBefore(d)  BY <2>1, <2>5, <2>7, <2>9 DEF SampledBefore, k, pos
    <3> QED  BY <1>4, <2>6, <3>1
  <2> QED  BY <2>8, <2>9
<1> QED  BY <1>3, <1>7, <1>8, <1>9 DEF RT!OnResponse
tables == <<slot, Maxseq, req_out_if, req_hy_count, ack_time>>

LEMMA MonitorFacts ==
  ASSUME TrafficTypes, Monitor
  PROVE  LET d == array[deque] IN
         /\ d \in Entry /\ Line # <<>> /\ d = Head(Line) /\ Line' = Tail(Line)
         /\ \/ d.type = 0 /\ UNCHANGED tables
            \/ d.type = M_REQ /\ RT!OnRequest(Given(d))
            \/ d.type = M_RSP /\ RT!OnResponse(Given(d))
         /\ TrafficTypes' /\ UNCHANGED <<startVars, trafficVars, queueVars>>
<1> DEFINE d == array[deque]
<1>1. d \in Entry  BY DEF TrafficTypes
<1>2. occupy # deque /\ deque' = NextSlot(deque) /\ UNCHANGED <<startVars, trafficVars, queueVars>>
  BY DEF Monitor
<1>3. /\ deque' \in Slots /\ Line # <<>> /\ Head(Line) = d /\ Line' = Tail(Line)
  BY <1>2, Taken
<1>4. TrafficTypes'  BY <1>2, <1>3 DEF TrafficTypes, trafficVars, queueVars
<1>5. IF d.type \in {M_REQ, M_RSP} THEN RT!OnRequest(Given(d)) \/ RT!OnResponse(Given(d))
      ELSE UNCHANGED monitorVars
  BY DEF Monitor, Given
<1>6. d.type \in {0, M_REQ, M_RSP} /\ M_REQ # M_RSP /\ M_REQ # 0 /\ M_RSP # 0
  BY <1>1 DEF Entry, M_REQ, M_RSP
<1> HIDE DEF d
<1>7. CASE d.type = 0  BY <1>1, <1>2, <1>3, <1>4, <1>5, <1>6, <1>7 DEF monitorVars, tables, d
<1>8. CASE d.type = M_REQ
  <2>1. Given(d).type = "M_REQ"  BY <1>8 DEF Given
  <2>2. ~RT!OnResponse(Given(d))  BY <2>1 DEF RT!OnResponse
  <2> QED  BY <1>1, <1>2, <1>3, <1>4, <1>5, <1>8, <2>2 DEF d
<1>9. CASE d.type = M_RSP
  <2>1. Given(d).type = "M_RSP"  BY <1>6, <1>9 DEF Given
  <2>2. ~RT!OnRequest(Given(d))  BY <2>1 DEF RT!OnRequest
  <2> QED  BY <1>1, <1>2, <1>3, <1>4, <1>5, <1>9, <2>2 DEF d
<1> QED  BY <1>6, <1>7, <1>8, <1>9

LEMMA MonitorTypes ==
  ASSUME TrafficTypes, TableTypes, Monitor
  PROVE  TableTypes'
<1> DEFINE d == array[deque]
<1>1. /\ d \in Entry
      /\ \/ d.type = 0 /\ UNCHANGED tables
         \/ d.type = M_REQ /\ RT!OnRequest(Given(d))
         \/ d.type = M_RSP /\ RT!OnResponse(Given(d))
  BY MonitorFacts
<1> HIDE DEF d
<1>2. CASE UNCHANGED tables  BY <1>2 DEF TableTypes, tables
<1>3. CASE d.type = M_REQ /\ RT!OnRequest(Given(d))
  <2>1. PICK pos \in RT!Places :
          /\ HashTypes' /\ Placed(Key(d), pos) /\ Cells' /\ Elsewhere(pos)
          /\ Maxseq'[pos].rsp_sent_seq = Maxseq[pos].rsp_sent_seq /\ ack_time' = ack_time
    BY <1>1, <1>3, RequestTable
  <2>2. ASSUME NEW q \in RT!Positions, \A g \in DOMAIN slot' : slot'[g] # q
        PROVE  Maxseq'[q].req_sent_seq = 0 /\ Maxseq'[q].rsp_sent_seq = 0
    <3>1. q # pos
      <4>1. RT!ENOSPC \notin RT!Positions  BY DEF RT!ENOSPC, RT!Positions
      <4> QED  BY <2>1, <2>2, <4>1 DEF Placed
    <3>2. \A g \in DOMAIN slot : slot[g] # q  BY <2>1, <2>2 DEF Placed
    <3>3. Maxseq'[q] = Maxseq[q]  BY <2>1, <3>1 DEF Elsewhere, RT!Places
    <3> QED  BY <3>2, <3>3 DEF TableTypes
  <2> QED  BY <2>1, <2>2 DEF TableTypes, HashTypes, Cells
<1>4. CASE d.type = M_RSP /\ RT!OnResponse(Given(d))
  <2> DEFINE k == Key(d)
             pos == slot[k]
  <2>0. /\ slot' = slot /\ req_out_if' = req_out_if /\ Cells'
        /\ Unmatched(d) \/ SampledBefore(d) \/ \E pri \in {0, 1} : Sampled(d, pri)
    BY <1>1, <1>4, ResponseTable
  <2>1. /\ Maxseq' = Maxseq \/ (k \in DOMAIN slot /\ Elsewhere(pos))
        /\ \/ ack_time' = ack_time
           \/ /\ k \in DOMAIN slot
              /\ \E pri \in {0, 1} :
                   ack_time' = Append(ack_time,
                     [time |-> d.ts - req_out_if[pos], pri |-> pri, flow |-> k,
                      req |-> d.req, ts |-> d.ts])
    BY <2>0 DEF Unmatched, SampledBefore, Sampled, Matched, SampleOfResponse
  <2>2. /\ d.ts \in Nat /\ d.req \in Nat /\ k \in Keys
        /\ k \in DOMAIN slot => pos \in RT!Positions /\ req_out_if[pos] \in Nat
    BY <1>1, KeyTyped, Sizes DEF TableTypes, RT!Places, Entry
  <2> HIDE DEF k, pos
  <2>3. ack_time' \in Seq(Sample)
    <3>1. ack_time \in Seq(Sample)  BY DEF TableTypes
    <3>2. ASSUME NEW pri \in {0, 1}, k \in DOMAIN slot
          PROVE  [time |-> d.ts - req_out_if[pos], pri |-> pri, flow |-> k,
                  req |-> d.req, ts |-> d.ts] \in Sample
      BY <2>2, <3>2 DEF Sample
    <3> QED  BY <2>1, <3>1, <3>2, AppendProperties
  <2>4. ASSUME NEW q \in RT!Positions, \A g \in DOMAIN slot : slot[g] # q
        PROVE  Maxseq'[q].req_sent_seq = 0 /\ Maxseq'[q].rsp_sent_seq = 0
    <3>1. k \in DOMAIN slot => q # pos  BY <2>4 DEF pos
    <3>2. Maxseq'[q] = Maxseq[q]  BY <2>1, <3>1 DEF Elsewhere, RT!Places
    <3> QED  BY <2>4, <3>2 DEF TableTypes
  <2> QED  BY <2>0, <2>3, <2>4 DEF TableTypes, Cells
<1> QED  BY <1>1, <1>2, <1>3, <1>4
-----------------------------------------------------------------------------
(* The type invariant.                                                     *)

\* The bounds of the wait for the links that LinksPrintedOnce does not need.
CountInv ==
  /\ portid <= nb_ports /\ count <= MAX_CHECK_TIME
  /\ key_len \in {"none", "http_tuple", "ipv4_2tuple"}

LEMMA CountStep == WaitInv /\ CountInv /\ [StartStep]_startVars => CountInv'
<1> SUFFICES ASSUME WaitInv, CountInv, [StartStep]_startVars PROVE CountInv'
  OBVIOUS
<1>1. CASE getConfig \/ l2fwd_parse_args \/ CountPorts \/ InitPorts
  <2>1. /\ UNCHANGED <<portid, count, key_len>>
        /\ pc = "pools" \/ UNCHANGED nb_ports
        /\ nb_ports' \in Nat
    BY <1>1, Bounds DEF getConfig, l2fwd_parse_args, CountPorts, InitPorts, Main, Exit, confVars,
                        setVars, checkVars, WaitInv, WaitTypes
  <2>2. pc = "pools" => portid = 0  BY DEF WaitInv, NotWaiting, Before
  <2> QED  BY <2>1, <2>2 DEF CountInv
<1>2. CASE Allocate
  BY <1>2 DEF Allocate, Main, Exit, confVars, setVars, checkVars, CountInv, KeyType
<1>3. CASE Links \/ Launch \/ UNCHANGED startVars
  BY <1>3 DEF Links, Launch, Main, confVars, setVars, checkVars, startVars, CountInv
<1>4. CASE Look
  <2>1. pc = "look" /\ portid' = portid + 1 /\ UNCHANGED <<nb_ports, count, key_len>>
    BY <1>4 DEF Look, Main, confVars, setVars
  <2>2. portid < nb_ports /\ portid \in Nat /\ nb_ports \in Nat
    BY <2>1, Bounds DEF WaitInv, WaitTypes
  <2> QED  BY <2>1, <2>2 DEF CountInv
<1>5. CASE NextRound
  <2>1. pc = "round" /\ ~print_flag /\ portid' = 0 /\ count' = count + 1 /\ UNCHANGED <<nb_ports, key_len>>
    BY <1>5 DEF NextRound, Main, confVars, setVars
  <2>2. count < MAX_CHECK_TIME /\ count \in Nat /\ nb_ports \in Nat
    BY <2>1, Bounds DEF WaitInv, WaitTypes, Waiting
  <2> QED  BY <2>1, <2>2, Bounds DEF CountInv
<1> QED  BY <1>1, <1>2, <1>3, <1>4, <1>5 DEF StartStep
\* The inductive invariant for the types.
TypeInv == WaitInv /\ CountInv /\ ServeInv /\ ParseTypes

LEMMA TypesStart == Init => TypeInv
<1> SUFFICES ASSUME Init PROVE TypeInv
  OBVIOUS
<1>1. StartInit  BY DEF Init
<1>2. WaitInv /\ ServeInv  BY <1>1, WaitStart, ServeStart
<1>3. CountInv /\ SettingTypes  BY <1>1, Bounds DEF StartInit, CountInv, SettingTypes
<1>4. Fresh \in Entry
  <2>1. 0 \in Addresses /\ 0 \in Numbers /\ 0 \in Statuses  BY EndsTyped DEF Statuses
  <2> QED  BY <2>1, Sizes DEF Fresh, Entry
<1>5. TrafficTypes
  <2>1. ts = 1 /\ exchange = <<>> /\ array = [i \in 0 .. QUESIZE - 1 |-> Fresh] /\ occupy = 0 /\ deque = 0
    BY DEF Init
  <2>2. exchange \in Seq(Exchange) /\ Len(exchange) = 0  BY <2>1, EmptySeq
  <2> QED  BY <1>4, <2>1, <2>2, Sizes DEF TrafficTypes, Slots, Index
<1>6. /\ slot = <<>> /\ ack_time = <<>>
      /\ Maxseq = [i \in RT!Places |-> [req_sent_seq |-> 0, payload_len |-> 0, rsp_sent_seq |-> 0]]
      /\ req_out_if = [i \in RT!Places |-> 0]
      /\ req_hy_count = [i \in RT!Places |-> [count |-> 0, pri |-> -1]]
  BY DEF Init, RT!Init
<1>7. TableTypes
  <2>1. DOMAIN slot = {} /\ slot \in [DOMAIN slot -> RT!Positions]  BY <1>6
  <2>2. IsFiniteSet(DOMAIN slot) /\ Cardinality(DOMAIN slot) <= REQ_HASH_ENTRIES
    BY <2>1, FS_EmptySet, Sizes
  <2>3. ack_time \in Seq(Sample)  BY <1>6, EmptySeq
  <2>4. \A pos \in RT!Positions : Maxseq[pos].req_sent_seq = 0 /\ Maxseq[pos].rsp_sent_seq = 0
    BY <1>6 DEF RT!Places
  <2> QED  BY <1>6, <2>1, <2>2, <2>3, <2>4 DEF TableTypes
<1>8. Quiet  BY <1>6 DEF Quiet, Init, Slots, Index
<1> QED  BY <1>2, <1>3, <1>5, <1>7, <1>8 DEF TypeInv, ParseTypes

\* The start-up leaves what is parsed and measured alone, and ends before it begins.
LEMMA StartTypes ==
  ASSUME TypeInv, StartStep, UNCHANGED <<trafficVars, queueVars, deque, monitorVars>>
  PROVE  TypeInv' /\ Quiet /\ Quiet'
<1>1. WaitInv' /\ CountInv' /\ ServeInv'
  BY WaitStep, CountStep, ServeStep DEF TypeInv
<1>2. ~Started
  BY DEF StartStep, getConfig, l2fwd_parse_args, CountPorts, InitPorts, Allocate, Links, Look, NextRound,
         Launch, Main, Exit, Started
<1>3. Quiet  BY <1>2 DEF TypeInv, ParseTypes
<1>4. Quiet'  BY <1>3 DEF Quiet, trafficVars, queueVars, monitorVars
<1>5. SettingTypes'  BY <1>1 DEF SettingTypes, CountInv, ServeInv
<1>6. TrafficTypes' /\ TableTypes'
  BY DEF TypeInv, ParseTypes, TrafficTypes, TableTypes, trafficVars, queueVars, monitorVars
<1> QED  BY <1>1, <1>3, <1>4, <1>5, <1>6 DEF TypeInv, ParseTypes

LEMMA SameSettings ==
  ASSUME UNCHANGED startVars
  PROVE  /\ SettingTypes' = SettingTypes /\ WaitInv' = WaitInv /\ CountInv' = CountInv
         /\ ServeInv' = ServeInv /\ Parser' = Parser /\ Keyed' = Keyed
         /\ Started' = Started /\ UNCHANGED <<conf, USE_HTTP, key_len>>
<1>1. UNCHANGED <<pc, USE_HTTP, conf, lcores, l2fwd_enabled_port_mask, nb_ports, lcore_queue_conf,
                  ready, key_len, link, portid, count, all_ports_up, print_flag, waited, printed>>
  BY DEF startVars, confVars, setVars, checkVars
<1>2. Parser' = Parser /\ Keyed' = Keyed /\ Started' = Started
  BY <1>1 DEF Parser, Keyed, Started
<1>3. SettingTypes' = SettingTypes  BY <1>1 DEF SettingTypes
<1>4. CountInv' = CountInv  BY <1>1 DEF CountInv
<1>5. Enabled' = Enabled /\ RxLcores' = RxLcores  BY <1>1 DEF Enabled, RxLcores
<1>6. ServeInv' = ServeInv  BY <1>1, <1>5 DEF ServeInv
<1>7. WaitTypes' = WaitTypes /\ NotWaiting' = NotWaiting /\ Waiting' = Waiting /\ Printing' = Printing
  BY <1>1, <1>5 DEF WaitTypes, NotWaiting, Waiting, Printing
<1>8. WaitInv' = WaitInv  BY <1>1, <1>7 DEF WaitInv
<1> QED  BY <1>1, <1>2, <1>3, <1>4, <1>6, <1>8

LEMMA TrafficStep ==
  ASSUME SettingTypes, TrafficTypes, Traffic
  PROVE  TrafficTypes' /\ Kept /\ UNCHANGED <<startVars, deque, monitorVars>>
<1>1. UNCHANGED <<startVars, deque, monitorVars>>  BY DEF Traffic
<1>2. CASE Tick
  <2>1. ts' \in 1 .. MaxTime /\ UNCHANGED <<exchange, queueVars>>
    BY <1>2, Sizes DEF Tick, TrafficTypes
  <2> QED  BY <1>1, <2>1 DEF TrafficTypes, queueVars, Kept
<1>3. CASE \E c \in Clients : Ask(c)  BY <1>1, <1>3, AskStep
<1>4. CASE \E n \in Latest : AskMore(n) \/ Answer(n) \/ AnswerMore(n)
  BY <1>1, <1>4, LatestOf, AskMoreStep, AnswerStep, AnswerMoreStep
<1> QED  BY <1>2, <1>3, <1>4 DEF Traffic

LEMMA TypesStep == TypeInv /\ [Next]_vars => TypeInv'
<1> SUFFICES ASSUME TypeInv, [Next]_vars PROVE TypeInv'
  OBVIOUS
<1>1. CASE StartStep /\ UNCHANGED <<trafficVars, queueVars, deque, monitorVars>>
  BY <1>1, StartTypes
<1>2. CASE Traffic
  <2>1. SettingTypes /\ TrafficTypes /\ TableTypes /\ Started
    BY <1>2 DEF TypeInv, ParseTypes, Traffic, Running
  <2>2. TrafficTypes' /\ UNCHANGED <<startVars, monitorVars>>  BY <1>2, <2>1, TrafficStep
  <2>3. TableTypes'  BY <2>1, <2>2 DEF TableTypes, monitorVars
  <2> QED  BY <2>1, <2>2, <2>3, SameSettings DEF TypeInv, ParseTypes
<1>3. CASE Monitor
  <2>1. SettingTypes /\ TrafficTypes /\ TableTypes  BY DEF TypeInv, ParseTypes
  <2>2. TrafficTypes' /\ UNCHANGED startVars  BY <1>3, <2>1, MonitorFacts
  <2>3. TableTypes'  BY <1>3, <2>1, MonitorTypes
  <2>4. Started  BY <1>3 DEF Monitor, TypeInv, ParseTypes, Quiet
  <2> QED  BY <2>1, <2>2, <2>3, <2>4, SameSettings DEF TypeInv, ParseTypes
<1>4. CASE UNCHANGED vars
  <2>1. UNCHANGED startVars /\ UNCHANGED trafficVars /\ UNCHANGED queueVars /\ UNCHANGED deque
        /\ UNCHANGED monitorVars
    BY <1>4 DEF vars
  <2>2. TrafficTypes' = TrafficTypes /\ TableTypes' = TableTypes /\ Quiet' = Quiet
    BY <2>1 DEF TrafficTypes, TableTypes, Quiet, trafficVars, queueVars, monitorVars
  <2> QED  BY <2>1, <2>2, SameSettings DEF TypeInv, ParseTypes
<1> QED  BY <1>1, <1>2, <1>3, <1>4 DEF Next

LEMMA TypesGoal == TypeInv => TypeOK
<1> SUFFICES ASSUME TypeInv PROVE TypeOK
  OBVIOUS
<1>1. pc \in {"config", "args", "pools", "ports", "alloc", "look", "round", "launched", "exit"}
  BY DEF TypeInv, WaitInv, WaitTypes, Before
<1>2. portid \in 0 .. MaxPorts /\ count \in 0 .. MAX_CHECK_TIME + 1
  BY Bounds DEF TypeInv, WaitInv, WaitTypes, CountInv
<1>3. {occupy, deque} \subseteq DOMAIN array  BY DEF TypeInv, ParseTypes, TrafficTypes
<1>4. ASSUME NEW i \in DOMAIN array PROVE array[i].type \in {0, M_REQ, M_RSP} /\ Key(array[i]) \in Keys
  <2>1. array[i] \in Entry  BY <1>4 DEF TypeInv, ParseTypes, TrafficTypes
  <2> QED  BY <2>1, KeyTyped DEF Entry
<1> QED  BY <1>1, <1>2, <1>3, <1>4 DEF TypeOK, TypeInv, ParseTypes, SettingTypes, TableTypes

\* Slots, queue and hash keep their types through the whole program, whatever the
\* configuration, the build and the traffic.
THEOREM ParsingTypes == Spec => []TypeOK
<1>1. Init => TypeInv  BY TypesStart
<1>2. TypeInv /\ [Next]_vars => TypeInv'  BY TypesStep
<1>3. TypeInv => TypeOK  BY TypesGoal
<1> QED  BY <1>1, <1>2, <1>3, PTL DEF Spec
-----------------------------------------------------------------------------
(* What is measured is measured right.                                     *)

\* The numbers of all exchanges are below the modulus: the window test need not
\* look across a wrap.
NoWrap == 3 * MaxReqs + 1 < SeqMod

\* An exchange is asked, then answered, in the time so far.
Paced(n) ==
  LET e == exchange[n] IN
  /\ e.seq <= 3 * n - 2
  /\ e.asked <= e.last /\ e.last <= ts /\ (e.segments = 1 => e.last = e.asked)
  /\ IF Open(n) THEN e.answered = 0 ELSE e.last <= e.answered /\ e.answered <= ts

\* It begins where its client's one before ends, or after it.
After(m, n) ==
  exchange[m].client = exchange[n].client /\ m < n => ~Open(m) /\ End(m) <= exchange[n].seq

ExchangeInv ==
  /\ \A n \in DOMAIN exchange : Paced(n)
  /\ \A m, n \in DOMAIN exchange : After(m, n)

\* The modes that measure, with a key of the right size; of HTTP the GETs.
Fits == Parser = "label" \/ (Parser \in {"http", "https"} /\ Keyed)
Measured(d) == Parser = "http" => d.kstatus = GET
MeasuredKey(k) == Parser = "http" => k[1] = GET

\* The client that a slot or a key tells of.
EndOf(d) == [ip |-> d.ip, port |-> d.port]
KeyEnd(k) == IF USE_HTTP THEN [ip |-> k[3], port |-> k[2]] ELSE [ip |-> k[1], port |-> k[2]]

\* A request of exchange n with this number, length and time: its first segment,
\* or, over HTTPS, the second.
RequestOf(n, seq, len, t) ==
  /\ n \in DOMAIN exchange
  /\ LET e == exchange[n] IN
     /\ \/ seq = e.seq /\ len = 2 /\ t = e.asked
        \/ Parser = "https" /\ e.segments = 2 /\ seq = e.seq + 2 /\ len = 1 /\ t = e.last
     /\ Parser = "http" => e.begins = "GET"

IsRequest(d, n) ==
  /\ d.type = M_REQ /\ d.req = n
  /\ RequestOf(n, d.sent_seq, d.total_len, d.ts) /\ EndOf(d) = exchange[n].client

IsResponse(d, n) ==
  /\ d.type = M_RSP /\ d.req = n /\ n \in DOMAIN exchange /\ EndOf(d) = exchange[n].client
  /\ ~Open(n) /\ d.sent_seq = End(n) /\ d.ts >= exchange[n].answered
  /\ Parser # "https" => d.ts = exchange[n].answered
  /\ Parser = "http" => exchange[n].status \in {"200", "404"}

\* What waits is about an exchange, with its priority.
Tells(d) ==
  /\ IsRequest(d, d.req) \/ IsResponse(d, d.req)
  /\ Parser = "label" => d.pri = Priority(d.req)

\* Of one client, in the order sent.
SentInOrder(c, d) ==
  Measured(c) /\ Measured(d) /\ EndOf(c) = EndOf(d) =>
    c.sent_seq <= d.sent_seq /\ (c.type = M_REQ => c.sent_seq < d.sent_seq)

LineInv ==
  /\ \A i \in 1 .. Len(Line) : Measured(Line[i]) => Tells(Line[i])
  /\ \A i, j \in 1 .. Len(Line) : i < j => SentInOrder(Line[i], Line[j])

SampleOf(n) == \E s \in Samples : s.req = n

\* A position stands at a request of its client, and its last sample is of one.
StandsAt(k) ==
  LET x == Maxseq[slot[k]] IN
  /\ \E n \in DOMAIN exchange :
       /\ exchange[n].client = KeyEnd(k)
       /\ RequestOf(n, x.req_sent_seq, x.payload_len, req_out_if[slot[k]])
       /\ Parser = "label" /\ ~rsp_pri => req_hy_count[slot[k]].pri = Priority(n)
  /\ x.rsp_sent_seq # 0 => \E n \in DOMAIN exchange :
       exchange[n].client = KeyEnd(k) /\ x.rsp_sent_seq = End(n) /\ ~Open(n) /\ SampleOf(n)

\* It is behind what still waits of the client.
Behind(k, d) ==
  Measured(d) /\ EndOf(d) = KeyEnd(k) =>
    Maxseq[slot[k]].req_sent_seq < d.sent_seq /\ Maxseq[slot[k]].rsp_sent_seq <= d.sent_seq

BehindLine(k) == \A i \in 1 .. Len(Line) : Behind(k, Line[i])

TableInv == \A k \in DOMAIN slot : MeasuredKey(k) => StandsAt(k) /\ BehindLine(k)

RightSample(s) ==
  /\ s.req \in DOMAIN exchange /\ ~Open(s.req)
  /\ LET own == exchange[s.req] IN
     /\ Parser = "label" => s.time = s.ts - own.asked /\ s.pri = Priority(s.req)
     /\ Parser = "http" => own.begins = "GET" /\ own.status \in {"200", "404"}
                           /\ s.time = s.ts - own.asked
     /\ Parser = "https" => s.time = s.ts - own.last

SampleInv == \A s \in Samples : MeasuredKey(s.flow) => RightSample(s)

\* In the MCC mode nothing gives a slot a type.
MccInv == Parser = "mcc" => ack_time = <<>> /\ \A i \in Slots : array[i].type = 0

AccuracyInv ==
  /\ ExchangeInv /\ MccInv
  /\ Fits => LineInv /\ TableInv /\ SampleInv

-----------------------------------------------------------------------------

LEMMA KeyFacts ==
  ASSUME Fits, NEW d \in Entry
  PROVE  KeyEnd(Key(d)) = EndOf(d) /\ (MeasuredKey(Key(d)) <=> Measured(d))
<1>1. CASE Parser = "label"
  <2>1. ~USE_HTTP  BY <1>1 DEF Parser
  <2>2. Key(d) = <<d.ip, d.port, Sec(d.ts)>> \/ Key(d) = <<d.ip, d.port>>
    BY <2>1 DEF Key
  <2>3. Key(d)[1] = d.ip /\ Key(d)[2] = d.port  BY <2>2
  <2> QED  BY <1>1, <2>1, <2>3 DEF KeyEnd, EndOf, MeasuredKey, Measured
<1>2. CASE Parser \in {"http", "https"} /\ Keyed
  <2>1. USE_HTTP  BY <1>2 DEF Parser
  <2>2. key_len = "http_tuple"  BY <1>2, <2>1 DEF Keyed
  <2>3. Key(d) = <<d.kstatus, d.port, d.ip>>  BY <2>1, <2>2 DEF Key
  <2>4. Key(d)[1] = d.kstatus /\ Key(d)[2] = d.port /\ Key(d)[3] = d.ip  BY <2>3
  <2> QED  BY <2>1, <2>4 DEF KeyEnd, EndOf, MeasuredKey, Measured
<1> QED  BY <1>1, <1>2 DEF Fits

\* Facts about an exchange stay true while the exchanges go on.
LEMMA KeptFacts ==
  ASSUME TrafficTypes, TrafficTypes', Kept, UNCHANGED startVars
  PROVE  /\ \A n \in DOMAIN exchange :
              n \in DOMAIN exchange' /\ exchange'[n].client = exchange[n].client
         /\ \A n, seq, len, t : RequestOf(n, seq, len, t) => RequestOf(n, seq, len, t)'
         /\ \A n \in DOMAIN exchange : ~Open(n) => Open(n)' = FALSE /\ End(n)' = End(n)
         /\ \A n, d : IsRequest(d, n) => IsRequest(d, n)'
         /\ \A n, d : IsResponse(d, n) => IsResponse(d, n)'
         /\ \A d : Tells(d) => Tells(d)'
         /\ \A s : RightSample(s) => RightSample(s)'
<1>1. Parser' = Parser  BY SameSettings
<1>2. \A n \in DOMAIN exchange :
        n \in DOMAIN exchange' /\ exchange'[n].client = exchange[n].client
  BY DEF Kept
<1>3. ASSUME NEW n, NEW seq, NEW len, NEW t, RequestOf(n, seq, len, t) PROVE RequestOf(n, seq, len, t)'
  BY <1>1, <1>3 DEF RequestOf, Kept
<1>4. ASSUME NEW n \in DOMAIN exchange, ~Open(n) PROVE Open(n)' = FALSE /\ End(n)' = End(n)
  <2>1. exchange[n].status # "none"  BY <1>4 DEF Open
  <2>2. exchange'[n].status = exchange[n].status /\ exchange'[n].seq = exchange[n].seq
        /\ exchange'[n].segments = exchange[n].segments
    BY <1>4 DEF Kept
  <2> QED  BY <2>1, <2>2 DEF Open, End
<1>5. ASSUME NEW n, NEW d, IsRequest(d, n) PROVE IsRequest(d, n)'
  <2>1. n \in DOMAIN exchange  BY <1>5 DEF IsRequest, RequestOf
  <2> QED  BY <1>2, <1>3, <1>5, <2>1 DEF IsRequest, EndOf
<1>6. ASSUME NEW n, NEW d, IsResponse(d, n) PROVE IsResponse(d, n)'
  <2>1. n \in DOMAIN exchange /\ ~Open(n)  BY <1>6 DEF IsResponse
  <2>2. exchange'[n].status = exchange[n].status /\ exchange'[n].answered = exchange[n].answered
    BY <2>1 DEF Kept
  <2> QED  BY <1>1, <1>2, <1>4, <1>6, <2>1, <2>2 DEF IsResponse, EndOf
<1>7. ASSUME NEW d, Tells(d) PROVE Tells(d)'
  BY <1>1, <1>5, <1>6, <1>7 DEF Tells, Priority
<1>8. ASSUME NEW s, RightSample(s) PROVE RightSample(s)'
  <2>1. s.req \in DOMAIN exchange /\ ~Open(s.req)  BY <1>8 DEF RightSample
  <2>2. LET e == exchange[s.req]  f == exchange'[s.req] IN
        f.asked = e.asked /\ f.last = e.last /\ f.begins = e.begins /\ f.status = e.status
    BY <2>1 DEF Kept
  <2> QED  BY <1>1, <1>2, <1>4, <1>8, <2>1, <2>2 DEF RightSample, Priority
<1> QED  BY <1>2, <1>3, <1>4, <1>5, <1>6, <1>7, <1>8
-----------------------------------------------------------------------------
(* The exchanges.                                                          *)

LEMMA AskPaced ==
  ASSUME SettingTypes, TrafficTypes, ExchangeInv, NEW c \in Clients, Ask(c), UNCHANGED deque
  PROVE  ExchangeInv'
<1>9. PICK n : n = Len(exchange) + 1
  OBVIOUS
<1>0. Len(exchange) \in Nat /\ DOMAIN exchange = 1 .. Len(exchange) /\ exchange \in Seq(Exchange)
      /\ ts \in 1 .. MaxTime /\ Len(exchange) <= MaxReqs
  BY DEF TrafficTypes
<1>1. PICK begins \in Requests :
        exchange' = Append(exchange,
          [client |-> c, begins |-> begins, seq |-> NextSeq(c), asked |-> ts, last |-> ts,
           segments |-> 1, status |-> "none", answered |-> 0, rest |-> FALSE])
  BY AskFacts
<1>2. ts' = ts /\ NextSeq(c) \in Nat \ {0} /\ \A m \in Of(c) : ~Open(m)  BY AskFacts
<1>3. /\ DOMAIN exchange' = 1 .. n
      /\ \A m \in DOMAIN exchange : exchange'[m] = exchange[m]
      /\ exchange'[n] = [client |-> c, begins |-> begins, seq |-> NextSeq(c), asked |-> ts, last |-> ts,
                         segments |-> 1, status |-> "none", answered |-> 0, rest |-> FALSE]
  BY <1>0, <1>1, <1>9, AppendProperties
<1>4. \A m \in Of(c) : End(m) <= NextSeq(c)
  <2> SUFFICES ASSUME NEW m \in Of(c) PROVE End(m) <= NextSeq(c)
    OBVIOUS
  <2> DEFINE x == Max(Of(c))
  <2>1. x \in Of(c) /\ m <= x  BY OfClient
  <2>2. NextSeq(c) = End(x)  BY DEF NextSeq
  <2>3. /\ m \in DOMAIN exchange /\ x \in DOMAIN exchange
        /\ exchange[m].client = exchange[x].client
    BY <2>1 DEF Of
  <2> HIDE DEF x
  <2>4. m = x \/ m < x  BY <1>0, <2>1, <2>3
  <2>5. CASE m < x
    <3>1. End(m) <= exchange[x].seq  BY <2>3, <2>5 DEF ExchangeInv, After
    <3>2. /\ End(m) \in Nat /\ End(x) = exchange[x].seq + 1 + exchange[x].segments
          /\ exchange[x].seq \in Nat /\ exchange[x].segments \in {1, 2}
      BY <2>3, ExchangeFacts
    <3> QED  BY <2>2, <3>1, <3>2
  <2>6. CASE m = x
    <3>1. End(x) \in Nat  BY <2>3, ExchangeFacts
    <3> QED  BY <2>2, <2>6, <3>1
  <2> QED  BY <2>4, <2>5, <2>6
<1>5. NextSeq(c) <= 3 * n - 2
  <2>1. CASE Of(c) = {}  BY <1>0, <1>9, <2>1 DEF NextSeq
  <2>2. CASE Of(c) # {}
    <3> DEFINE x == Max(Of(c))
    <3>1. x \in DOMAIN exchange /\ NextSeq(c) = End(x)  BY <2>2, OfClient DEF NextSeq
    <3> HIDE DEF x
    <3>2. exchange[x].seq <= 3 * x - 2  BY <3>1 DEF ExchangeInv, Paced
    <3>3. /\ End(x) = exchange[x].seq + 1 + exchange[x].segments
          /\ exchange[x].seq \in Nat /\ exchange[x].segments \in {1, 2} /\ x \in Nat
      BY <3>1, ExchangeFacts
    <3>4. x <= Len(exchange)  BY <1>0, <3>1
    <3> QED  BY <1>0, <1>9, <3>1, <3>2, <3>3, <3>4
  <2> QED  BY <2>1, <2>2
<1>6. ASSUME NEW m \in DOMAIN exchange PROVE Open(m)' = Open(m) /\ End(m)' = End(m) /\ m < n /\ m \in 1 .. n
  BY <1>0, <1>3, <1>6, <1>9 DEF Open, End
<1>7. ASSUME NEW m \in 1 .. n PROVE Paced(m)'
  <2>1. CASE m = n
    <3>1. Open(n)'  BY <1>3 DEF Open
    <3> QED  BY <1>0, <1>2, <1>3, <1>5, <2>1, <3>1 DEF Paced
  <2>2. CASE m # n
    <3>1. m \in DOMAIN exchange  BY <1>0, <1>7, <1>9, <2>2
    <3>2. Paced(m)  BY <3>1 DEF ExchangeInv
    <3> QED  BY <1>2, <1>3, <1>6, <3>1, <3>2 DEF Paced
  <2> QED  BY <2>1, <2>2
<1>8. ASSUME NEW l \in 1 .. n, NEW m \in 1 .. n PROVE After(l, m)'
  <2>0. \A x \in 1 .. n : x = n \/ x \in DOMAIN exchange  BY <1>0, <1>9
  <2>1. CASE l = n
    <3>1. n \in Nat  BY <1>0, <1>9
    <3>2. ~(l < m)  BY <1>8, <2>1, <3>1
    <3> QED  BY <3>2 DEF After
  <2>2. CASE l # n /\ m = n
    <3>1. l \in DOMAIN exchange  BY <2>0, <2>2
    <3>2. SUFFICES ASSUME exchange[l].client = c PROVE ~Open(l) /\ End(l) <= NextSeq(c)
      BY <1>3, <1>6, <2>2, <3>1 DEF After
    <3>3. l \in Of(c)  BY <3>1, <3>2 DEF Of
    <3> QED  BY <1>2, <1>4, <3>3
  <2>3. CASE l # n /\ m # n
    <3>1. l \in DOMAIN exchange /\ m \in DOMAIN exchange  BY <2>0, <2>3
    <3>2. After(l, m)  BY <3>1 DEF ExchangeInv
    <3> QED  BY <1>3, <1>6, <3>1, <3>2 DEF After
  <2> QED  BY <2>1, <2>2, <2>3
<1> QED  BY <1>3, <1>7, <1>8 DEF ExchangeInv

\* An exchange that its client has not gone on from may change.
LEMMA LatestPaced ==
  ASSUME TrafficTypes, ExchangeInv, NEW n \in Latest, DOMAIN exchange' = DOMAIN exchange, ts' = ts,
         \A m \in DOMAIN exchange \ {n} : exchange'[m] = exchange[m],
         exchange'[n].client = exchange[n].client, exchange'[n].seq = exchange[n].seq,
         Paced(n)'
  PROVE  ExchangeInv'
<1>1. n \in DOMAIN exchange
      /\ \A m \in DOMAIN exchange : exchange[m].client = exchange[n].client => m <= n
  BY LatestOf
<1>2. ASSUME NEW m \in DOMAIN exchange, m # n
      PROVE  Open(m)' = Open(m) /\ End(m)' = End(m)
  BY <1>2 DEF Open, End
<1>3. ASSUME NEW m \in DOMAIN exchange PROVE Paced(m)'
  <2>1. CASE m # n
    <3>1. Paced(m)  BY DEF ExchangeInv
    <3> QED  BY <1>2, <2>1, <3>1 DEF Paced
  <2> QED  BY <2>1
<1>4. ASSUME NEW l \in DOMAIN exchange, NEW m \in DOMAIN exchange PROVE After(l, m)'
  <2>1. After(l, m)  BY DEF ExchangeInv
  <2>2. CASE l # n  BY <1>2, <2>1, <2>2 DEF After
  <2>3. CASE l = n
    <3>1. exchange'[m].client = exchange[m].client  BY DEF ExchangeInv
    <3>2. l \in Nat /\ m \in Nat  BY ExchangeFacts
    <3> QED  BY <1>1, <2>3, <3>1, <3>2 DEF After
  <2> QED  BY <2>2, <2>3
<1> QED  BY <1>3, <1>4 DEF ExchangeInv

LEMMA ExchangeStep ==
  ASSUME SettingTypes, TrafficTypes, ExchangeInv, Traffic
  PROVE  ExchangeInv'
<1>0. UNCHANGED deque  BY DEF Traffic
<1>1. CASE Tick
  <2>1. ts' = ts + 1 /\ exchange' = exchange /\ ts \in Nat  BY <1>1 DEF Tick, TrafficTypes
  <2>2. ASSUME NEW n \in DOMAIN exchange PROVE Paced(n)'
    <3>1. Paced(n) /\ exchange[n] \in Exchange  BY ExchangeFacts DEF ExchangeInv
    <3>2. exchange[n].last \in Nat /\ exchange[n].answered \in Nat  BY <3>1, Sizes DEF Exchange
    <3> QED  BY <2>1, <3>1, <3>2 DEF Paced, Open
  <2> QED  BY <2>1, <2>2 DEF ExchangeInv, After, Open, End
<1>2. CASE \E c \in Clients : Ask(c)  BY <1>0, <1>2, AskPaced
<1>3. ASSUME NEW n \in Latest, AskMore(n) \/ Answer(n) \/ AnswerMore(n) PROVE ExchangeInv'
  <2>0. n \in DOMAIN exchange  BY LatestOf
  <2>1. /\ Paced(n) /\ exchange[n] \in Exchange /\ exchange \in Seq(Exchange)
        /\ ts \in 1 .. MaxTime
    <3>1. exchange[n] \in Exchange  BY <2>0, ExchangeFacts
    <3> QED  BY <2>0, <3>1 DEF ExchangeInv, TrafficTypes
  <2>2. exchange[n].last \in Nat /\ exchange[n].asked \in Nat /\ ts \in Nat
    <3>1. exchange[n].last \in 1 .. MaxTime /\ exchange[n].asked \in 1 .. MaxTime  BY <2>1 DEF Exchange
    <3> QED  BY <2>1, <3>1
  <2>3. CASE AskMore(n)
    <3>1. /\ Open(n) /\ ts' = ts
          /\ exchange' = [exchange EXCEPT ![n].segments = 2, ![n].last = ts]
      BY <2>0, <2>3, AskMoreFacts
    <3> DEFINE e == [exchange[n] EXCEPT !.segments = 2, !.last = ts]
    <3>2. /\ DOMAIN exchange' = DOMAIN exchange /\ exchange'[n] = e
          /\ \A m \in DOMAIN exchange \ {n} : exchange'[m] = exchange[m]
      BY <2>0, <2>1, <3>1 DEF Exchange
    <3>3. /\ e.client = exchange[n].client /\ e.seq = exchange[n].seq /\ e.status = exchange[n].status
          /\ e.asked = exchange[n].asked /\ e.last = ts /\ e.segments = 2
          /\ e.answered = exchange[n].answered
      BY <2>1 DEF Exchange
    <3> HIDE DEF e
    <3>4. Paced(n)'
      <4>1. Open(n)'  BY <3>1, <3>2, <3>3 DEF Open
      <4> QED  BY <2>1, <2>2, <3>1, <3>2, <3>3, <4>1 DEF Paced
    <3> QED  BY <3>1, <3>2, <3>3, <3>4, LatestPaced
  <2>4. CASE Answer(n)
    <3>1. PICK begins \in Responses : exchange' = [exchange EXCEPT ![n].status = begins, ![n].answered = ts]
      BY <2>0, <2>4, AnswerFacts
    <3>2. ts' = ts  BY <2>0, <2>4, AnswerFacts
    <3> DEFINE e == [exchange[n] EXCEPT !.status = begins, !.answered = ts]
    <3>3. /\ DOMAIN exchange' = DOMAIN exchange /\ exchange'[n] = e
          /\ \A m \in DOMAIN exchange \ {n} : exchange'[m] = exchange[m]
      BY <2>0, <2>1, <3>1 DEF Exchange
    <3>4. /\ e.client = exchange[n].client /\ e.seq = exchange[n].seq /\ e.answered = ts
          /\ e.asked = exchange[n].asked /\ e.last = exchange[n].last
          /\ e.segments = exchange[n].segments /\ e.status # "none"
      BY <2>1, Begins DEF Exchange
    <3> HIDE DEF e
    <3>5. Paced(n)'
      <4>1. ~Open(n)' /\ Open(n)  BY <2>0, <2>4, <3>3, <3>4, AnswerFacts DEF Open
      <4>2. exchange[n].last <= ts  BY <2>1 DEF Paced
      <4> QED  BY <2>1, <2>2, <3>2, <3>3, <3>4, <4>1, <4>2 DEF Paced
    <3> QED  BY <3>2, <3>3, <3>4, <3>5, LatestPaced
  <2>5. CASE AnswerMore(n)
    <3>1. exchange' = [exchange EXCEPT ![n].rest = TRUE] /\ ts' = ts  BY <2>5, AnswerMoreFacts
    <3> DEFINE e == [exchange[n] EXCEPT !.rest = TRUE]
    <3>2. /\ DOMAIN exchange' = DOMAIN exchange /\ exchange'[n] = e
          /\ \A m \in DOMAIN exchange \ {n} : exchange'[m] = exchange[m]
      BY <2>0, <2>1, <3>1 DEF Exchange
    <3>3. /\ e.client = exchange[n].client /\ e.seq = exchange[n].seq /\ e.answered = exchange[n].answered
          /\ e.asked = exchange[n].asked /\ e.last = exchange[n].last
          /\ e.segments = exchange[n].segments /\ e.status = exchange[n].status
      BY <2>1 DEF Exchange
    <3> HIDE DEF e
    <3>4. Paced(n)'  BY <2>1, <3>1, <3>2, <3>3 DEF Paced, Open
    <3> QED  BY <3>1, <3>2, <3>3, <3>4, LatestPaced
  <2> QED  BY <1>3, <2>3, <2>4, <2>5
<1> QED  BY <1>1, <1>2, <1>3 DEF Traffic
-----------------------------------------------------------------------------
(* A new entry of the line.                                                *)

\* Nothing of the client is beyond q.
Above(c, q) ==
  \A m \in DOMAIN exchange : exchange[m].client = c =>
    /\ ~Open(m) => End(m) <= q
    /\ \A seq, len, t : RequestOf(m, seq, len, t) => seq < q

LEMMA AboveEnd ==
  ASSUME TrafficTypes, ExchangeInv, NEW n \in DOMAIN exchange,
         \A m \in DOMAIN exchange : exchange[m].client = exchange[n].client => m <= n
  PROVE  Above(exchange[n].client, End(n))
<1> SUFFICES ASSUME NEW m \in DOMAIN exchange, exchange[m].client = exchange[n].client
             PROVE  /\ End(m) <= End(n)
                    /\ \A seq, len, t : RequestOf(m, seq, len, t) => seq < End(n)
  BY DEF Above
<1>1. /\ End(m) = exchange[m].seq + 1 + exchange[m].segments /\ exchange[m].seq \in Nat
      /\ exchange[m].segments \in {1, 2}
      /\ End(n) = exchange[n].seq + 1 + exchange[n].segments /\ exchange[n].seq \in Nat
      /\ exchange[n].segments \in {1, 2}
      /\ m \in Nat /\ n \in Nat
  BY ExchangeFacts
<1>2. End(m) <= End(n)
  <2>1. CASE m = n  BY <1>1, <2>1
  <2>2. CASE m < n
    <3>1. End(m) <= exchange[n].seq  BY <2>2 DEF ExchangeInv, After
    <3> QED  BY <1>1, <3>1
  <2> QED  BY <1>1, <2>1, <2>2
<1>3. ASSUME NEW seq, NEW len, NEW t, RequestOf(m, seq, len, t) PROVE seq < End(n)
  <2>1. seq = exchange[m].seq \/ (seq = exchange[m].seq + 2 /\ exchange[m].segments = 2)
    BY <1>3 DEF RequestOf
  <2> QED  BY <1>1, <1>2, <2>1
<1> QED  BY <1>2, <1>3

\* A request goes to the server, a response comes from it.
Directed(p) ==
  IF p.dst = Server THEN p.begins \in Requests \cup {"text"} ELSE p.begins \in Responses \cup {"text"}
TypeOf(p) == IF p.dst = Server THEN M_REQ ELSE M_RSP

ParsedRight(d, p) ==
  /\ About(d, TypeOf(p), p)
  /\ Parser = "label" => p.begins # "text" /\ d.pri = p.pri
  /\ Parser = "http" => p.begins \in {"GET", "200", "404"}

LEMMA ParsedAsMeasured ==
  ASSUME SettingTypes, TrafficTypes, Fits, NEW p \in Packet, Directed(p),
         Parsed(p).la_key = 1, Measured(Parsed(p).data)
  PROVE  ParsedRight(Parsed(p).data, p)
<1> DEFINE d == array[occupy]
<1>1. d \in Entry /\ ts \in 1 .. MaxTime  BY DEF TrafficTypes
<1> HIDE DEF d
<1>2. CASE Parser = "https"
  <2>1. Parsed(p) = https_parse(d, p)  BY <1>2 DEF Parsed, d
  <2>2. About(Parsed(p).data, TypeOf(p), p)  BY <1>1, <2>1, AsHttps DEF TypeOf
  <2> QED  BY <1>2, <2>2 DEF ParsedRight
<1>3. CASE Parser = "http"
  <2>1. Parsed(p) = http_parse(d, p)  BY <1>3 DEF Parsed, d
  <2>2. Parsed(p).data.kstatus = GET  BY <1>3 DEF Measured
  <2>3. /\ About(Parsed(p).data, http_type(d, p), p)
        /\ p.begins \in {"GET", "200", "404"}
        /\ p.begins = "GET" => http_type(d, p) = M_REQ
        /\ p.begins \in {"200", "404"} => http_type(d, p) = M_RSP
    BY <1>1, <2>1, <2>2, AsHttp
  <2>4. p.dst = Server <=> p.begins = "GET"
    <3>1. "GET" \in DOMAIN Method  BY DEF Method
    <3>2. "GET" \notin Responses /\ "GET" # "text"  BY <3>1, Begins
    <3>3. \A b \in {"200", "404"} : b \notin Requests /\ b # "text"  BY Begins
    <3> QED  BY <2>3, <3>2, <3>3 DEF Directed
  <2>5. http_type(d, p) = TypeOf(p)  BY <2>3, <2>4 DEF TypeOf
  <2> QED  BY <1>3, <2>3, <2>5 DEF ParsedRight
<1>4. CASE Parser = "mcc"  BY <1>4 DEF Fits
<1>5. CASE Parser = "label"
  <2>1. Parsed(p) = key_extract(d, p)  BY <1>5 DEF Parsed, d
  <2>2. p.begins # "text"  BY <1>1, <2>1, ByLabel
  <2>3. CASE p.dst = Server
    <3>1. p.begins \in Requests  BY <2>2, <2>3 DEF Directed
    <3>2. About(Parsed(p).data, M_REQ, p) /\ Parsed(p).data.pri = p.pri  BY <1>1, <2>1, <3>1, ByLabel
    <3> QED  BY <1>5, <2>2, <2>3, <3>2 DEF ParsedRight, TypeOf
  <2>4. CASE p.dst # Server
    <3>1. p.begins \in Responses  BY <2>2, <2>4 DEF Directed
    <3>2. About(Parsed(p).data, M_RSP, p) /\ Parsed(p).data.pri = p.pri
      BY <1>1, <2>1, <3>1, ByLabel
    <3> QED  BY <1>5, <2>2, <2>4, <3>2 DEF ParsedRight, TypeOf
  <2> QED  BY <2>3, <2>4
<1> QED  BY <1>2, <1>3, <1>4, <1>5, Parsers

\* What joins the line is told right and is beyond what its client did before.
Joins ==
  \/ Line' = Line
  \/ \E d \in Entry :
       Line' = Append(Line, d) /\ (Measured(d) => Tells(d)' /\ Above(EndOf(d), d.sent_seq))

LEMMA JoinsAs ==
  ASSUME SettingTypes, TrafficTypes, Fits, UNCHANGED deque, NEW p \in Packet, Directed(p), packet_process(p),
         \A d \in Entry : ParsedRight(d, p) => Tells(d)' /\ Above(EndOf(d), d.sent_seq)
  PROVE  Joins
<1> DEFINE out == Parsed(p)
<1>1. out.la_key \in {0, 1} /\ out.data \in Entry  BY ParsedTyped
<1>2. /\ out.la_key = 1 => Line' = Append(Line, out.data)
      /\ out.la_key = 0 => Line' = Line
  BY Processed
<1>3. out.la_key = 1 /\ Measured(out.data) => ParsedRight(out.data, p)  BY ParsedAsMeasured
<1> HIDE DEF out
<1> QED  BY <1>1, <1>2, <1>3 DEF Joins

LEMMA AskJoins ==
  ASSUME SettingTypes, TrafficTypes, ExchangeInv, Fits, UNCHANGED <<startVars, deque>>,
         NEW c \in Clients, Ask(c)
  PROVE  Joins
<1>1. PICK n : n = Len(exchange) + 1
  OBVIOUS
<1>2. PICK begins \in Requests :
        LET p == Up(n, NextSeq(c), begins) IN
        /\ exchange' = Append(exchange,
             [client |-> c, begins |-> begins, seq |-> NextSeq(c), asked |-> ts, last |-> ts,
              segments |-> 1, status |-> "none", answered |-> 0, rest |-> FALSE])
        /\ p \in Packet /\ p.src = c /\ p.dst = Server /\ p.begins = begins
        /\ p.sent_seq = NextSeq(c) /\ p.len = 2 /\ p.pri = Priority(n) /\ p.req = n
        /\ packet_process(p)
  BY <1>1, AskFacts
<1> DEFINE p == Up(n, NextSeq(c), begins)
<1>3. /\ p \in Packet /\ p.src = c /\ p.dst = Server /\ p.begins = begins
      /\ p.sent_seq = NextSeq(c) /\ p.len = 2 /\ p.pri = Priority(n) /\ p.req = n
      /\ packet_process(p)
  BY <1>2
<1>4. /\ n \in DOMAIN exchange'
      /\ exchange'[n] = [client |-> c, begins |-> begins, seq |-> NextSeq(c), asked |-> ts, last |-> ts,
                         segments |-> 1, status |-> "none", answered |-> 0, rest |-> FALSE]
  <2>1. exchange \in Seq(Exchange)  BY DEF TrafficTypes
  <2> QED  BY <1>1, <1>2, <2>1, AppendProperties, LenProperties
<1> HIDE DEF p
<1>5. Above(c, NextSeq(c))
  <2>1. CASE Of(c) = {}  BY <2>1 DEF Above, Of
  <2>2. CASE Of(c) # {}
    <3> DEFINE x == Max(Of(c))
    <3>1. /\ x \in DOMAIN exchange /\ exchange[x].client = c /\ NextSeq(c) = End(x)
          /\ \A m \in DOMAIN exchange : exchange[m].client = c => m <= x
      BY <2>2, OfClient DEF NextSeq, Of
    <3> HIDE DEF x
    <3> QED  BY <3>1, AboveEnd
  <2> QED  BY <2>1, <2>2
<1>6. Parser' = Parser  BY SameSettings
<1>7. ASSUME NEW d \in Entry, ParsedRight(d, p) PROVE Tells(d)' /\ Above(EndOf(d), d.sent_seq)
  <2>1. /\ d.type = M_REQ /\ d.ip = c.ip /\ d.port = c.port /\ d.sent_seq = NextSeq(c)
        /\ d.total_len = 2 /\ d.ts = ts /\ d.req = n
    BY <1>3, <1>7 DEF ParsedRight, About, TypeOf, ClientOf
  <2>2. EndOf(d) = c  BY <2>1, EndsTyped DEF EndOf
  <2>3. RequestOf(n, d.sent_seq, d.total_len, d.ts)'
    <3>1. Parser = "http" => begins = "GET"
      <4>1. begins \notin {"200", "404"}  BY Begins
      <4> QED  BY <1>3, <1>7, <4>1 DEF ParsedRight
    <3> QED  BY <1>4, <1>6, <2>1, <3>1 DEF RequestOf
  <2>4. IsRequest(d, n)'  BY <1>4, <2>1, <2>2, <2>3 DEF IsRequest, EndOf
  <2>5. Parser = "label" => d.pri = Priority(n)  BY <1>3, <1>7 DEF ParsedRight
  <2>6. Tells(d)'  BY <1>6, <2>1, <2>4, <2>5 DEF Tells, Priority
  <2> QED  BY <1>5, <2>1, <2>2, <2>6
<1>8. Directed(p)  BY <1>3 DEF Directed
<1> QED  BY <1>3, <1>7, <1>8, JoinsAs

LEMMA AskMoreJoins ==
  ASSUME SettingTypes, TrafficTypes, ExchangeInv, Fits, UNCHANGED <<startVars, deque>>,
         NEW n \in Latest, AskMore(n)
  PROVE  Joins
<1>0. n \in DOMAIN exchange
      /\ \A m \in DOMAIN exchange : exchange[m].client = exchange[n].client => m <= n
  BY LatestOf
<1> DEFINE p == Up(n, End(n), "text")
<1>1. /\ Open(n) /\ exchange[n].segments = 1 /\ End(n) = exchange[n].seq + 2
      /\ exchange' = [exchange EXCEPT ![n].segments = 2, ![n].last = ts]
      /\ p \in Packet /\ p.src = exchange[n].client /\ p.dst = Server /\ p.begins = "text"
      /\ p.sent_seq = End(n) /\ p.len = 1 /\ p.pri = Priority(n) /\ p.req = n
      /\ packet_process(p)
  BY <1>0, AskMoreFacts
<1> HIDE DEF p
<1>2. /\ n \in DOMAIN exchange' /\ exchange'[n].client = exchange[n].client
      /\ exchange'[n].seq = exchange[n].seq /\ exchange'[n].segments = 2 /\ exchange'[n].last = ts
  BY <1>0, <1>1, ExchangeFacts DEF Exchange
<1>3. Above(exchange[n].client, End(n))  BY <1>0, AboveEnd
<1>4. Parser' = Parser  BY SameSettings
<1>5. exchange[n].client \in Clients  BY <1>0, ExchangeFacts
<1>6. ASSUME NEW d \in Entry, ParsedRight(d, p) PROVE Tells(d)' /\ Above(EndOf(d), d.sent_seq)
  <2>1. /\ d.type = M_REQ /\ d.ip = exchange[n].client.ip /\ d.port = exchange[n].client.port
        /\ d.sent_seq = End(n) /\ d.total_len = 1 /\ d.ts = ts /\ d.req = n
    BY <1>1, <1>6 DEF ParsedRight, About, TypeOf, ClientOf
  <2>2. EndOf(d) = exchange[n].client  BY <1>5, <2>1, EndsTyped DEF EndOf
  <2>3. Parser = "https"  BY <1>1, <1>6, Parsers DEF ParsedRight, Fits
  <2>4. RequestOf(n, d.sent_seq, d.total_len, d.ts)'  BY <1>1, <1>2, <1>4, <2>1, <2>3 DEF RequestOf
  <2>5. IsRequest(d, n)'  BY <1>2, <2>1, <2>2, <2>4 DEF IsRequest, EndOf
  <2>6. Tells(d)'  BY <1>4, <2>1, <2>3, <2>5 DEF Tells
  <2> QED  BY <1>3, <2>1, <2>2, <2>6
<1>7. Directed(p)  BY <1>1 DEF Directed
<1> QED  BY <1>1, <1>6, <1>7, JoinsAs

LEMMA DownJoins ==
  ASSUME SettingTypes, TrafficTypes, ExchangeInv, Fits, UNCHANGED <<startVars, deque>>,
         NEW n \in Latest, NEW begins \in Responses \cup {"text"}, packet_process(Down(n, begins)),
         LET e == exchange[n]  f == exchange'[n] IN
         /\ n \in DOMAIN exchange' /\ f.client = e.client /\ f.seq = e.seq /\ f.segments = e.segments
         /\ f.status # "none" /\ f.answered <= ts
         /\ begins # "text" => f.status = begins /\ f.answered = ts
  PROVE  Joins
<1>0. n \in DOMAIN exchange
      /\ \A m \in DOMAIN exchange : exchange[m].client = exchange[n].client => m <= n
  BY LatestOf
<1> DEFINE p == Down(n, begins)
<1>1. /\ p \in Packet /\ p.src = Server /\ p.dst = exchange[n].client /\ p.begins = begins
      /\ p.recv_ack = End(n) /\ p.pri = Priority(n) /\ p.req = n /\ p.dst # Server
  BY <1>0, DownFacts
<1>2. packet_process(p)  OBVIOUS
<1> HIDE DEF p
<1>3. Above(exchange[n].client, End(n))  BY <1>0, AboveEnd
<1>4. Parser' = Parser  BY SameSettings
<1>5. exchange[n].client \in Clients  BY <1>0, ExchangeFacts
<1>6. ~Open(n)' /\ End(n)' = End(n)  BY DEF Open, End
<1>7. ASSUME NEW d \in Entry, ParsedRight(d, p) PROVE Tells(d)' /\ Above(EndOf(d), d.sent_seq)
  <2>0. M_REQ # M_RSP  BY DEF M_REQ, M_RSP
  <2>1. /\ d.type = M_RSP /\ d.ip = exchange[n].client.ip /\ d.port = exchange[n].client.port
        /\ d.sent_seq = End(n) /\ d.ts = ts /\ d.req = n
    BY <1>1, <1>7, <2>0 DEF ParsedRight, About, TypeOf, ClientOf
  <2>2. EndOf(d) = exchange[n].client  BY <1>5, <2>1, EndsTyped DEF EndOf
  <2>3. /\ Parser = "label" => begins # "text" /\ d.pri = Priority(n)
        /\ Parser = "http" => begins \in {"200", "404"}
    <3>1. "GET" \in DOMAIN Method /\ "GET" # "text"  BY DEF Method
    <3>2. "GET" \notin Responses  BY <3>1, Begins
    <3> QED  BY <1>1, <1>7, <3>1, <3>2 DEF ParsedRight
  <2>4. Parser # "https" => begins # "text"  BY <2>3, Parsers DEF Fits
  <2>5. d.ts >= exchange'[n].answered  BY <2>1
  <2>6. IsResponse(d, n)'  BY <1>4, <1>6, <2>1, <2>2, <2>3, <2>4, <2>5 DEF IsResponse, EndOf
  <2>7. Tells(d)'  BY <1>4, <2>1, <2>3, <2>6 DEF Tells, Priority
  <2> QED  BY <1>3, <2>1, <2>2, <2>7
<1>8. Directed(p)  BY <1>1 DEF Directed
<1> QED  BY <1>1, <1>2, <1>7, <1>8, JoinsAs

LEMMA TrafficJoins ==
  ASSUME SettingTypes, TrafficTypes, ExchangeInv, Fits, Traffic
  PROVE  Joins
<1>0. UNCHANGED <<startVars, deque>>  BY DEF Traffic
<1>1. CASE Tick
  <2>1. Line' = Line  BY <1>0, <1>1 DEF Tick, Line, queueVars
  <2> QED  BY <2>1 DEF Joins
<1>2. CASE \E c \in Clients : Ask(c)  BY <1>0, <1>2, AskJoins
<1>3. ASSUME NEW n \in Latest, AskMore(n) PROVE Joins  BY <1>0, <1>3, AskMoreJoins
<1>4. ASSUME NEW n \in Latest, Answer(n) PROVE Joins
  <2>1. n \in DOMAIN exchange  BY LatestOf
  <2>2. PICK begins \in Responses :
          /\ exchange' = [exchange EXCEPT ![n].status = begins, ![n].answered = ts]
          /\ packet_process(Down(n, begins))
    BY <1>4, <2>1, AnswerFacts
  <2>3. LET e == exchange[n]  f == exchange'[n] IN
        /\ n \in DOMAIN exchange' /\ f.client = e.client /\ f.seq = e.seq /\ f.segments = e.segments
        /\ f.status = begins /\ f.answered = ts
    BY <2>1, <2>2, ExchangeFacts DEF Exchange
  <2>4. begins # "none" /\ ts <= ts  BY Begins DEF TrafficTypes
  <2> QED  BY <1>0, <2>2, <2>3, <2>4, DownJoins
<1>5. ASSUME NEW n \in Latest, AnswerMore(n) PROVE Joins
  <2>1. n \in DOMAIN exchange  BY LatestOf
  <2>2. ~Open(n) /\ exchange' = [exchange EXCEPT ![n].rest = TRUE] /\ packet_process(Down(n, "text"))
    BY <1>5, AnswerMoreFacts
  <2>3. LET e == exchange[n]  f == exchange'[n] IN
        /\ n \in DOMAIN exchange' /\ f.client = e.client /\ f.seq = e.seq /\ f.segments = e.segments
        /\ f.status = e.status /\ f.answered = e.answered
    BY <2>1, <2>2, ExchangeFacts DEF Exchange
  <2>4. exchange[n].status # "none" /\ exchange[n].answered <= ts
    BY <2>1, <2>2 DEF Open, ExchangeInv, Paced
  <2> QED  BY <1>0, <2>2, <2>3, <2>4, DownJoins
<1> QED  BY <1>1, <1>2, <1>3, <1>4, <1>5 DEF Traffic

LEMMA TrafficProcesses ==
  ASSUME SettingTypes, TrafficTypes, Traffic
  PROVE  UNCHANGED <<array, occupy>> \/ \E p \in Packet : packet_process(p)
<1>1. CASE Tick  BY <1>1 DEF Tick, queueVars
<1>2. CASE \E c \in Clients : Ask(c)  BY <1>2, AskFacts
<1>3. CASE \E n \in Latest : AskMore(n) \/ Answer(n) \/ AnswerMore(n)
  BY <1>3, LatestOf, AskMoreFacts, AnswerFacts, AnswerMoreFacts, DownFacts
<1> QED  BY <1>1, <1>2, <1>3 DEF Traffic

LEMMA MccStep ==
  ASSUME SettingTypes, TrafficTypes, MccInv, Traffic \/ Monitor
  PROVE  MccInv'
<1> SUFFICES ASSUME Parser' = "mcc" PROVE ack_time' = <<>> /\ \A i \in Slots : array'[i].type = 0
  BY DEF MccInv
<1>1. CASE Traffic
  <2>1. UNCHANGED <<startVars, deque, ack_time>>  BY <1>1 DEF Traffic, monitorVars
  <2>2. Parser = "mcc"  BY <2>1, SameSettings
  <2>3. ack_time = <<>> /\ \A i \in Slots : array[i].type = 0  BY <2>2 DEF MccInv
  <2>4. CASE UNCHANGED <<array, occupy>>  BY <2>1, <2>3, <2>4
  <2>5. ASSUME NEW p \in Packet, packet_process(p) PROVE \A i \in Slots : array'[i].type = 0
    <3>1. array[occupy] \in Entry /\ occupy \in Slots  BY DEF TrafficTypes
    <3>2. Parsed(p) = burst_count(array[occupy], p)  BY <2>2 DEF Parsed
    <3>3. Parsed(p).data.type = 0  BY <2>3, <3>1, <3>2, AsMcc
    <3>4. array'[occupy] = Parsed(p).data /\ \A i \in Slots \ {occupy} : array'[i] = array[i]
      BY <2>1, <2>5, Processed
    <3> QED  BY <2>3, <3>3, <3>4
  <2> QED  BY <1>1, <2>1, <2>3, <2>4, <2>5, TrafficProcesses
<1>2. CASE Monitor
  <2>1. UNCHANGED <<startVars, queueVars>>  BY <1>2, MonitorFacts
  <2>2. Parser = "mcc"  BY <2>1, SameSettings
  <2>3. ack_time = <<>> /\ \A i \in Slots : array[i].type = 0  BY <2>2 DEF MccInv
  <2>4. array[deque].type = 0  BY <2>3 DEF TrafficTypes
  <2>5. UNCHANGED tables
    <3>1. M_REQ # 0 /\ M_RSP # 0  BY DEF M_REQ, M_RSP
    <3> QED  BY <1>2, <2>4, <3>1, MonitorFacts
  <2> QED  BY <2>1, <2>3, <2>5 DEF queueVars, tables
<1> QED  BY <1>1, <1>2

\* Facts about positions and samples stay true while the exchanges go on.
LEMMA KeptTables ==
  ASSUME TrafficTypes, TrafficTypes', Kept, UNCHANGED <<startVars, monitorVars>>, NEW k, StandsAt(k)
  PROVE  StandsAt(k)'
<1> DEFINE x == Maxseq[slot[k]]
<1>0. /\ UNCHANGED <<slot, Maxseq, req_out_if, req_hy_count, ack_time>> /\ Parser' = Parser
      /\ USE_HTTP' = USE_HTTP
  BY SameSettings DEF monitorVars
<1>1. KeyEnd(k)' = KeyEnd(k) /\ Samples' = Samples  BY <1>0 DEF KeyEnd, Samples
<1>2. PICK n \in DOMAIN exchange :
        /\ exchange[n].client = KeyEnd(k)
        /\ RequestOf(n, x.req_sent_seq, x.payload_len, req_out_if[slot[k]])
        /\ Parser = "label" /\ ~rsp_pri => req_hy_count[slot[k]].pri = Priority(n)
  BY DEF StandsAt
<1>3. x.rsp_sent_seq # 0 => \E m \in DOMAIN exchange :
        exchange[m].client = KeyEnd(k) /\ x.rsp_sent_seq = End(m) /\ ~Open(m) /\ SampleOf(m)
  BY DEF StandsAt
<1>4. /\ n \in DOMAIN exchange' /\ exchange'[n].client = KeyEnd(k)
      /\ RequestOf(n, x.req_sent_seq, x.payload_len, req_out_if[slot[k]])'
  <2>1. n \in DOMAIN exchange' /\ exchange'[n].client = KeyEnd(k)  BY <1>2, KeptFacts
  <2> DEFINE seq == x.req_sent_seq
             len == x.payload_len
             t == req_out_if[slot[k]]
  <2>2. seq' = seq /\ len' = len /\ t' = t  BY <1>0
  <2>3. RequestOf(n, seq, len, t)  BY <1>2
  <2> HIDE DEF seq, len, t
  <2>4. PICK a, b, c : a = seq /\ b = len /\ c = t
    OBVIOUS
  <2>5. RequestOf(n, a, b, c)'  BY <2>3, <2>4, KeptFacts
  <2>6. RequestOf(n, seq, len, t)'  BY <2>2, <2>4, <2>5
  <2> QED  BY <2>1, <2>6 DEF seq, len, t
<1>5. ASSUME NEW m \in DOMAIN exchange, ~Open(m), SampleOf(m)
      PROVE  m \in DOMAIN exchange' /\ exchange'[m].client = exchange[m].client
             /\ ~Open(m)' /\ End(m)' = End(m) /\ SampleOf(m)'
  BY <1>1, <1>5, KeptFacts DEF SampleOf
<1>6. x' = x  BY <1>0
<1> HIDE DEF x
<1>7. x.rsp_sent_seq # 0 => \E m \in DOMAIN exchange' :
        exchange'[m].client = KeyEnd(k) /\ x.rsp_sent_seq = End(m)' /\ ~Open(m)' /\ SampleOf(m)'
  BY <1>3, <1>5
<1> QED  BY <1>0, <1>1, <1>2, <1>4, <1>6, <1>7 DEF StandsAt, Priority, x

LEMMA TrafficAccuracy ==
  ASSUME SettingTypes, TrafficTypes, TableTypes, ExchangeInv, Fits, LineInv, TableInv, SampleInv, Traffic
  PROVE  LineInv' /\ TableInv' /\ SampleInv'
<1>0. TrafficTypes' /\ Kept /\ UNCHANGED <<startVars, monitorVars>>  BY TrafficStep
<1>1. /\ UNCHANGED <<slot, Maxseq, req_out_if, req_hy_count, ack_time>> /\ Parser' = Parser
      /\ USE_HTTP' = USE_HTTP
  BY <1>0, SameSettings DEF monitorVars
<1>2. Joins  BY TrafficJoins
<1>3. Line \in Seq(Entry)  BY LineTyped
<1>4. \A d : Measured(d)' = Measured(d) /\ MeasuredKey(d)' = MeasuredKey(d) /\ EndOf(d)' = EndOf(d)
             /\ KeyEnd(d)' = KeyEnd(d)
  BY <1>1 DEF Measured, MeasuredKey, EndOf, KeyEnd, GET
<1>5. \A c, d \in Entry : Tells(c) /\ Above(EndOf(d), d.sent_seq) => SentInOrder(c, d)
  <2> SUFFICES ASSUME NEW c \in Entry, NEW d \in Entry, Tells(c), Above(EndOf(d), d.sent_seq), EndOf(c) = EndOf(d)
               PROVE  c.sent_seq <= d.sent_seq /\ (c.type = M_REQ => c.sent_seq < d.sent_seq)
    BY DEF SentInOrder
  <2>0. c.sent_seq \in Nat /\ d.sent_seq \in Nat  BY DEF Entry
  <2>1. CASE IsRequest(c, c.req)
    <3>1. c.req \in DOMAIN exchange /\ exchange[c.req].client = EndOf(d)
          /\ RequestOf(c.req, c.sent_seq, c.total_len, c.ts)
      BY <2>1 DEF IsRequest, RequestOf
    <3> QED  BY <2>0, <3>1 DEF Above
  <2>2. CASE IsResponse(c, c.req)
    <3>1. c.req \in DOMAIN exchange /\ exchange[c.req].client = EndOf(d) /\ c.type = M_RSP
          /\ ~Open(c.req) /\ c.sent_seq = End(c.req)
      BY <2>2 DEF IsResponse
    <3>2. M_REQ # M_RSP  BY DEF M_REQ, M_RSP
    <3> QED  BY <2>0, <3>1, <3>2 DEF Above
  <2> QED  BY <2>1, <2>2 DEF Tells
<1>6. LineInv' /\ TableInv'
  <2>1. \A k \in DOMAIN slot : MeasuredKey(k) => StandsAt(k)'
    BY <1>0, KeptTables DEF TableInv
  <2>2. \A c, d : SentInOrder(c, d)' = SentInOrder(c, d)
    BY <1>4 DEF SentInOrder
  <2>3. \A k, d : Behind(k, d)' = Behind(k, d)
    BY <1>1, <1>4 DEF Behind
  <2>4. \A d : Tells(d) => Tells(d)'  BY <1>0, KeptFacts
  <2>5. CASE Line' = Line
    <3>1. LineInv'  BY <1>4, <2>2, <2>4, <2>5 DEF LineInv
    <3>2. TableInv'  BY <1>1, <1>4, <2>1, <2>3, <2>5 DEF TableInv, BehindLine
    <3> QED  BY <3>1, <3>2
  <2>6. ASSUME NEW d \in Entry, Line' = Append(Line, d),
               Measured(d) => Tells(d)' /\ Above(EndOf(d), d.sent_seq)
        PROVE  LineInv' /\ TableInv'
    <3>0. PICK L : L = Line'
      OBVIOUS
    <3>1. /\ Len(L) = Len(Line) + 1 /\ Len(Line) \in Nat
          /\ \A i \in 1 .. Len(Line) : L[i] = Line[i] /\ Line[i] \in Entry
          /\ L[Len(Line) + 1] = d
      BY <1>3, <2>6, <3>0, AppendProperties, ElementOfSeq, LenProperties
    <3>2. \A i \in 1 .. Len(L) : i \in 1 .. Len(Line) \/ i = Len(Line) + 1
      BY <3>1
    <3>3. \A i \in 1 .. Len(L) : Measured(L[i]) => Tells(L[i])'
      BY <2>4, <2>6, <3>1, <3>2 DEF LineInv
    <3>4. ASSUME NEW i \in 1 .. Len(L), NEW j \in 1 .. Len(L), i < j
          PROVE  SentInOrder(L[i], L[j])
      <4>1. i \in 1 .. Len(Line)  BY <3>1, <3>4
      <4>2. CASE j \in 1 .. Len(Line)  BY <3>1, <3>4, <4>1, <4>2 DEF LineInv
      <4>3. CASE j = Len(Line) + 1
        <5>1. Measured(Line[i]) => Tells(Line[i])  BY <4>1 DEF LineInv
        <5>2. Measured(Line[i]) /\ Measured(d) => SentInOrder(Line[i], d)  BY <1>5, <2>6, <3>1, <4>1, <5>1
        <5>3. SentInOrder(Line[i], d)  BY <5>2 DEF SentInOrder
        <5> QED  BY <3>1, <4>1, <4>3, <5>3
      <4> QED  BY <3>2, <4>2, <4>3
    <3>5. LineInv'
      <4>1. \A i \in 1 .. Len(L) : Measured(L[i])' => Tells(L[i])'  BY <1>4, <3>3
      <4>2. \A i, j \in 1 .. Len(L) : i < j => SentInOrder(L[i], L[j])'  BY <2>2, <3>4
      <4> QED  BY <3>0, <4>1, <4>2 DEF LineInv
    <3>6. ASSUME NEW k \in DOMAIN slot, MeasuredKey(k) PROVE \A i \in 1 .. Len(L) : Behind(k, L[i])
      <4>1. \A i \in 1 .. Len(Line) : Behind(k, L[i])  BY <3>1, <3>6 DEF TableInv, BehindLine
      <4>2. Behind(k, d)
        <5>1. SUFFICES ASSUME Measured(d), EndOf(d) = KeyEnd(k)
                       PROVE  /\ Maxseq[slot[k]].req_sent_seq < d.sent_seq
                              /\ Maxseq[slot[k]].rsp_sent_seq <= d.sent_seq
          BY DEF Behind
        <5>2. Above(KeyEnd(k), d.sent_seq)  BY <2>6, <5>1
        <5>3. StandsAt(k)  BY <3>6 DEF TableInv
        <5> DEFINE x == Maxseq[slot[k]]
        <5>4. x.req_sent_seq < d.sent_seq  BY <5>2, <5>3 DEF StandsAt, Above
        <5>5. x.rsp_sent_seq # 0 => x.rsp_sent_seq <= d.sent_seq  BY <5>2, <5>3 DEF StandsAt, Above
        <5>6. d.sent_seq \in Nat  BY DEF Entry
        <5> HIDE DEF x
        <5>7. x.rsp_sent_seq <= d.sent_seq  BY <5>5, <5>6
        <5> QED  BY <5>4, <5>7 DEF x
      <4> QED  BY <3>1, <3>2, <4>1, <4>2
    <3>7. TableInv'
      <4>1. ASSUME NEW k \in DOMAIN slot', MeasuredKey(k)'
            PROVE  StandsAt(k)' /\ BehindLine(k)'
        <5>1. k \in DOMAIN slot /\ MeasuredKey(k)  BY <1>1, <1>4, <4>1
        <5>2. \A i \in 1 .. Len(L) : Behind(k, L[i])'  BY <2>3, <3>6, <5>1
        <5> QED  BY <2>1, <3>0, <5>1, <5>2 DEF BehindLine
      <4> QED  BY <3>0, <4>1 DEF TableInv
    <3> QED  BY <3>5, <3>7
  <2> QED  BY <1>2, <2>5, <2>6 DEF Joins
<1>7. SampleInv'
  <2>1. Samples' = Samples  BY <1>1 DEF Samples
  <2>2. \A s : RightSample(s) => RightSample(s)'  BY <1>0, KeptFacts
  <2> QED  BY <1>4, <2>1, <2>2 DEF SampleInv
<1> QED  BY <1>6, <1>7
-----------------------------------------------------------------------------
(* The MONITOR lcore measures.                                             *)

LEMMA SameTraffic ==
  ASSUME UNCHANGED <<startVars, trafficVars>>
  PROVE  /\ \A n, seq, len, t : RequestOf(n, seq, len, t)' = RequestOf(n, seq, len, t)
         /\ \A n : Open(n)' = Open(n) /\ End(n)' = End(n)
         /\ \A d : Tells(d)' = Tells(d) /\ Measured(d)' = Measured(d) /\ EndOf(d)' = EndOf(d)
         /\ \A k : KeyEnd(k)' = KeyEnd(k) /\ MeasuredKey(k)' = MeasuredKey(k)
         /\ \A c, d : SentInOrder(c, d)' = SentInOrder(c, d)
         /\ \A s : RightSample(s)' = RightSample(s)
         /\ exchange' = exchange /\ Parser' = Parser
<1>1. exchange' = exchange /\ ts' = ts /\ Parser' = Parser /\ USE_HTTP' = USE_HTTP
  BY SameSettings DEF trafficVars
<1>2. \A n, seq, len, t : RequestOf(n, seq, len, t)' = RequestOf(n, seq, len, t)
  BY <1>1 DEF RequestOf
<1>3. \A n : Open(n)' = Open(n) /\ End(n)' = End(n)  BY <1>1 DEF Open, End
<1>4. \A d : Measured(d)' = Measured(d) /\ EndOf(d)' = EndOf(d)  BY <1>1 DEF Measured, EndOf, GET
<1>5. \A k : KeyEnd(k)' = KeyEnd(k) /\ MeasuredKey(k)' = MeasuredKey(k)
  BY <1>1 DEF KeyEnd, MeasuredKey, GET
<1>6. \A c, d : SentInOrder(c, d)' = SentInOrder(c, d)  BY <1>4 DEF SentInOrder
<1>7. \A d : Tells(d)' = Tells(d)
  BY <1>1, <1>2, <1>3, <1>4 DEF Tells, IsRequest, IsResponse, Priority, EndOf
<1>8. \A s : RightSample(s)' = RightSample(s)  BY <1>1, <1>3 DEF RightSample, Priority
<1> QED  BY <1>1, <1>2, <1>3, <1>4, <1>5, <1>6, <1>7, <1>8

Untouched(k) ==
  /\ k \in DOMAIN slot /\ k \in DOMAIN slot' /\ slot'[k] = slot[k]
  /\ Maxseq'[slot[k]] = Maxseq[slot[k]] /\ req_out_if'[slot[k]] = req_out_if[slot[k]]
  /\ req_hy_count'[slot[k]] = req_hy_count[slot[k]]

\* What StandsAt says of the cells of a position.
StandsBy(c, seq, len, t, pri) ==
  \E n \in DOMAIN exchange :
    /\ exchange[n].client = c /\ RequestOf(n, seq, len, t)
    /\ Parser = "label" /\ ~rsp_pri => pri = Priority(n)
AnsweredBy(c, q) ==
  q # 0 => \E n \in DOMAIN exchange : exchange[n].client = c /\ q = End(n) /\ ~Open(n) /\ SampleOf(n)

LEMMA StandsIs ==
  ASSUME NEW k
  PROVE  StandsAt(k) <=>
           /\ StandsBy(KeyEnd(k), Maxseq[slot[k]].req_sent_seq, Maxseq[slot[k]].payload_len,
                       req_out_if[slot[k]], req_hy_count[slot[k]].pri)
           /\ AnsweredBy(KeyEnd(k), Maxseq[slot[k]].rsp_sent_seq)
  BY DEF StandsAt, StandsBy, AnsweredBy

LEMMA SameStands ==
  ASSUME UNCHANGED <<startVars, trafficVars>>, Samples \subseteq Samples'
  PROVE  /\ \A c, seq, len, t, pri : StandsBy(c, seq, len, t, pri) => StandsBy(c, seq, len, t, pri)'
         /\ \A c, q : AnsweredBy(c, q) => AnsweredBy(c, q)'
<1>1. \A n : SampleOf(n) => SampleOf(n)'  BY DEF SampleOf
<1>2. /\ \A n, seq, len, t : RequestOf(n, seq, len, t)' = RequestOf(n, seq, len, t)
      /\ \A n : Open(n)' = Open(n) /\ End(n)' = End(n)
      /\ exchange' = exchange /\ Parser' = Parser
  BY SameTraffic
<1> QED  BY <1>1, <1>2 DEF StandsBy, AnsweredBy, Priority

LEMMA UntouchedStands ==
  ASSUME UNCHANGED <<startVars, trafficVars>>, Samples \subseteq Samples', NEW k, Untouched(k), StandsAt(k)
  PROVE  StandsAt(k)'
<1> DEFINE x == Maxseq[slot[k]]
           t == req_out_if[slot[k]]
           h == req_hy_count[slot[k]].pri
<1>1. x' = x /\ t' = t /\ h' = h /\ KeyEnd(k)' = KeyEnd(k)
  BY SameTraffic DEF Untouched
<1>2. PICK c, seq, len, a, pri, q :
        c = KeyEnd(k) /\ seq = x.req_sent_seq /\ len = x.payload_len /\ a = t /\ pri = h
        /\ q = x.rsp_sent_seq
  OBVIOUS
<1>3. StandsBy(c, seq, len, a, pri) /\ AnsweredBy(c, q)  BY <1>2 DEF StandsAt, StandsBy, AnsweredBy
<1>4. StandsBy(c, seq, len, a, pri)' /\ AnsweredBy(c, q)'  BY <1>3, SameStands
<1>5. c = KeyEnd(k)' /\ seq = x'.req_sent_seq /\ len = x'.payload_len /\ a = t' /\ pri = h'
      /\ q = x'.rsp_sent_seq
  BY <1>1, <1>2
<1> QED  BY <1>4, <1>5 DEF StandsAt, StandsBy, AnsweredBy

\* No request touches another key's position.
LEMMA RequestElsewhere ==
  ASSUME TableTypes, NEW key, NEW pos, Placed(key, pos), Elsewhere(pos), NEW k \in DOMAIN slot', k # key
  PROVE  Untouched(k)
<1>1. k \in DOMAIN slot /\ slot'[k] = slot[k]  BY DEF Placed
<1>2. slot[k] \in RT!Positions  BY <1>1 DEF TableTypes
<1>3. slot[k] # pos
  <2>1. RT!ENOSPC \notin RT!Positions  BY DEF RT!ENOSPC, RT!Positions
  <2>2. \A g \in DOMAIN slot : slot[g] = slot[k] => g = k  BY <1>1 DEF TableTypes
  <2> QED  BY <1>1, <1>2, <2>1, <2>2 DEF Placed
<1> QED  BY <1>1, <1>2, <1>3 DEF Untouched, Elsewhere, RT!Places

LEMMA ResponseElsewhere ==
  ASSUME TableTypes, slot' = slot, req_out_if' = req_out_if, NEW key \in DOMAIN slot, Elsewhere(slot[key]),
         NEW k \in DOMAIN slot, k # key
  PROVE  Untouched(k)
<1>1. slot[k] \in RT!Positions  BY DEF TableTypes
<1>2. slot[k] # slot[key]  BY DEF TableTypes
<1> QED  BY <1>1, <1>2 DEF Untouched, Elsewhere, RT!Places

\* The rest of the line is like the line.
LEMMA LineRest ==
  ASSUME TrafficTypes, NEW R, R = Tail(Line), Line # <<>>
  PROVE  /\ Len(Line) \in Nat \ {0} /\ Len(R) = Len(Line) - 1 /\ Line[1] = Head(Line)
         /\ \A i \in 1 .. Len(R) : R[i] = Line[i + 1] /\ i + 1 \in 1 .. Len(Line) /\ 1 < i + 1
<1>1. Line \in Seq(Entry)  BY LineTyped
<1>2. Len(Line) \in Nat \ {0} /\ Line[1] = Head(Line)  BY <1>1, LenProperties, EmptySeq
<1>3. Len(R) = Len(Line) - 1 /\ \A i \in 1 .. Len(R) : R[i] = Line[i + 1]
  BY <1>1, HeadTailProperties
<1> QED  BY <1>2, <1>3

LEMMA LineTail ==
  ASSUME TrafficTypes, LineInv, Monitor
  PROVE  LineInv'
<1>1. Line # <<>> /\ Line' = Tail(Line) /\ UNCHANGED <<startVars, trafficVars>>  BY MonitorFacts
<1>2. PICK R : R = Line'
  OBVIOUS
<1>3. Len(Line) \in Nat \ {0} /\ Len(R) = Len(Line) - 1
      /\ \A i \in 1 .. Len(R) : R[i] = Line[i + 1] /\ i + 1 \in 1 .. Len(Line)
  BY <1>1, <1>2, LineRest
<1>4. \A i \in 1 .. Len(R) : Measured(R[i]) => Tells(R[i])  BY <1>3 DEF LineInv
<1>5. \A i, j \in 1 .. Len(R) : i < j => SentInOrder(R[i], R[j])  BY <1>3 DEF LineInv
<1>6. /\ \A i \in 1 .. Len(R) : Measured(R[i])' => Tells(R[i])'
      /\ \A i, j \in 1 .. Len(R) : i < j => SentInOrder(R[i], R[j])'
  BY <1>1, <1>4, <1>5, SameTraffic
<1> QED  BY <1>2, <1>6 DEF LineInv
\* An entry that nothing touches the position of keeps what TableInv says.
LEMMA UntouchedTable ==
  ASSUME TrafficTypes, TableInv, Monitor, Samples \subseteq Samples', NEW k, Untouched(k), MeasuredKey(k)
  PROVE  StandsAt(k)' /\ BehindLine(k)'
<1>1. Line # <<>> /\ Line' = Tail(Line) /\ UNCHANGED <<startVars, trafficVars>>  BY MonitorFacts
<1>2. PICK R : R = Line'
  OBVIOUS
<1>3. \A i \in 1 .. Len(R) : R[i] = Line[i + 1] /\ i + 1 \in 1 .. Len(Line)
  BY <1>1, <1>2, LineRest
<1>4. k \in DOMAIN slot  BY DEF Untouched
<1>5. StandsAt(k)'  BY <1>1, <1>4, UntouchedStands DEF TableInv
<1>6. \A i \in 1 .. Len(R) : Behind(k, R[i])  BY <1>3, <1>4 DEF TableInv, BehindLine
<1>7. \A i \in 1 .. Len(R) : Behind(k, R[i])'
  <2>1. Maxseq'[slot'[k]] = Maxseq[slot[k]]  BY DEF Untouched
  <2>2. \A d : Behind(k, d)' = Behind(k, d)  BY <1>1, <2>1, SameTraffic DEF Behind
  <2> QED  BY <1>6, <2>2
<1> QED  BY <1>2, <1>5, <1>7 DEF BehindLine

\* A request to be measured is beyond its position, and stands there.
LEMMA RequestStands ==
  ASSUME TrafficTypes, TableTypes, ExchangeInv, Fits, LineInv, TableInv, Monitor,
         NEW d, d = Head(Line), d \in Entry, d.type = M_REQ, Measured(d),
         NEW k, k = Key(d), NEW pos \in RT!Places, Placed(k, pos), k \in DOMAIN slot', ack_time' = ack_time,
         IF Maxseq[pos].req_sent_seq < d.sent_seq
         THEN Maxseq'[pos].req_sent_seq = d.sent_seq /\ Maxseq'[pos].payload_len = d.total_len
              /\ req_out_if'[pos] = d.ts
         ELSE Maxseq'[pos] = Maxseq[pos] /\ req_out_if'[pos] = req_out_if[pos],
         Maxseq'[pos].rsp_sent_seq = Maxseq[pos].rsp_sent_seq,
         ~rsp_pri => req_hy_count'[pos].pri = d.pri
  PROVE  /\ StandsAt(k)' /\ BehindLine(k)'
         /\ slot'[k] = pos /\ Maxseq'[pos].req_sent_seq = d.sent_seq
<1>1. Line # <<>> /\ Line' = Tail(Line) /\ UNCHANGED <<startVars, trafficVars>>  BY MonitorFacts
<1>2. PICK R : R = Line'
  OBVIOUS
<1>3. /\ Line[1] = d /\ 1 \in 1 .. Len(Line)
      /\ \A i \in 1 .. Len(R) : R[i] = Line[i + 1] /\ i + 1 \in 1 .. Len(Line) /\ 1 < i + 1
  BY <1>1, <1>2, LineRest
<1>5. KeyEnd(k) = EndOf(d) /\ MeasuredKey(k)  BY KeyFacts
<1>6. PICK n : n = d.req /\ IsRequest(d, n) /\ (Parser = "label" => d.pri = Priority(n))
  <2>1. Tells(d)  BY <1>3 DEF LineInv
  <2>2. M_REQ # M_RSP  BY DEF M_REQ, M_RSP
  <2> QED  BY <2>1, <2>2 DEF Tells, IsResponse
<1>7. RequestOf(n, d.sent_seq, d.total_len, d.ts) /\ exchange[n].client = KeyEnd(k)
      /\ n \in DOMAIN exchange
  BY <1>5, <1>6 DEF IsRequest, RequestOf
<1>8. d.sent_seq \in Nat \ {0}
  <2>1. exchange[n].seq \in Nat \ {0}  BY <1>7, ExchangeFacts
  <2> QED  BY <1>7, <2>1 DEF RequestOf
<1>9. slot'[k] = pos /\ \/ k \in DOMAIN slot /\ pos = slot[k]
                        \/ Maxseq[pos].req_sent_seq = 0 /\ Maxseq[pos].rsp_sent_seq = 0
  BY DEF Placed, TableTypes
<1>10. Maxseq[pos].req_sent_seq < d.sent_seq /\ Maxseq[pos].rsp_sent_seq <= d.sent_seq
  <2>1. CASE k \in DOMAIN slot /\ pos = slot[k]
    <3>1. Behind(k, d)  BY <1>3, <1>5, <2>1 DEF TableInv, BehindLine
    <3> QED  BY <1>5, <2>1, <3>1 DEF Behind
  <2>2. CASE Maxseq[pos].req_sent_seq = 0 /\ Maxseq[pos].rsp_sent_seq = 0
    BY <1>8, <2>2
  <2> QED  BY <1>9, <2>1, <2>2
<1>11. /\ Maxseq'[pos].req_sent_seq = d.sent_seq /\ Maxseq'[pos].payload_len = d.total_len
       /\ req_out_if'[pos] = d.ts
  BY <1>10
<1>12. StandsAt(k)'
  <2>1. Samples' = Samples  BY DEF Samples
  <2> DEFINE h == req_hy_count'[pos].pri
  <2>2. StandsBy(KeyEnd(k), d.sent_seq, d.total_len, d.ts, h)  BY <1>6, <1>7 DEF StandsBy
  <2>3. AnsweredBy(KeyEnd(k), Maxseq[pos].rsp_sent_seq)
    <3>1. CASE k \in DOMAIN slot /\ pos = slot[k]
      <4>1. StandsAt(k)  BY <1>5, <3>1 DEF TableInv
      <4> QED  BY <3>1, <4>1 DEF StandsAt, AnsweredBy
    <3>2. CASE Maxseq[pos].rsp_sent_seq = 0  BY <3>2 DEF AnsweredBy
    <3> QED  BY <1>9, <3>1, <3>2
  <2>4. PICK c, b, q : c = KeyEnd(k) /\ b = h /\ q = Maxseq[pos].rsp_sent_seq
    OBVIOUS
  <2>5. StandsBy(c, d.sent_seq, d.total_len, d.ts, b)' /\ AnsweredBy(c, q)'
    BY <1>1, <2>1, <2>2, <2>3, <2>4, SameStands
  <2>6. KeyEnd(k)' = c  BY <1>1, <2>4, SameTraffic
  <2>7. PICK x, t, y : x = Maxseq'[slot'[k]] /\ t = req_out_if'[slot'[k]] /\ y = req_hy_count'[slot'[k]].pri
    OBVIOUS
  <2>8. x.req_sent_seq = d.sent_seq /\ x.payload_len = d.total_len /\ t = d.ts /\ y = b /\ x.rsp_sent_seq = q
    BY <1>9, <1>11, <2>4, <2>7
  <2>9. StandsBy(KeyEnd(k), Maxseq[slot[k]].req_sent_seq, Maxseq[slot[k]].payload_len,
                 req_out_if[slot[k]], req_hy_count[slot[k]].pri)'
        /\ AnsweredBy(KeyEnd(k), Maxseq[slot[k]].rsp_sent_seq)'
    BY <2>5, <2>6, <2>7, <2>8 DEF StandsBy, AnsweredBy
  <2> QED  BY <2>9 DEF StandsAt, StandsBy, AnsweredBy
<1>13. \A i \in 1 .. Len(R) : Behind(k, R[i])'
  <2> SUFFICES ASSUME NEW i \in 1 .. Len(R), Measured(R[i]), EndOf(R[i]) = KeyEnd(k)
               PROVE  /\ Maxseq'[slot'[k]].req_sent_seq < R[i].sent_seq
                      /\ Maxseq'[slot'[k]].rsp_sent_seq <= R[i].sent_seq
    BY <1>1, SameTraffic DEF Behind
  <2>1. SentInOrder(d, R[i])  BY <1>3 DEF LineInv
  <2>2. d.sent_seq < R[i].sent_seq  BY <1>5, <2>1 DEF SentInOrder
  <2>3. R[i] \in Entry
    <3>1. Line \in Seq(Entry)  BY LineTyped
    <3> QED  BY <1>3, <3>1, ElementOfSeq
  <2>4. /\ R[i].sent_seq \in Nat /\ d.sent_seq \in Nat /\ Maxseq[pos].rsp_sent_seq \in Nat
    BY <2>3 DEF Entry, TableTypes
  <2> QED  BY <1>9, <1>10, <1>11, <2>2, <2>4
<1> QED  BY <1>2, <1>9, <1>11, <1>12, <1>13 DEF BehindLine

LEMMA RequestAccuracy ==
  ASSUME TrafficTypes, TableTypes, ExchangeInv, Fits, LineInv, TableInv, SampleInv, Monitor,
         NEW d, d = Head(Line), d \in Entry, d.type = M_REQ, RT!OnRequest(Given(d))
  PROVE  TableInv' /\ SampleInv'
<1>0. UNCHANGED <<startVars, trafficVars>>  BY MonitorFacts
<1>1. PICK pos \in RT!Places :
        /\ Placed(Key(d), pos) /\ Elsewhere(pos)
        /\ IF Maxseq[pos].req_sent_seq < d.sent_seq
           THEN Maxseq'[pos].req_sent_seq = d.sent_seq /\ Maxseq'[pos].payload_len = d.total_len
                /\ req_out_if'[pos] = d.ts
           ELSE Maxseq'[pos] = Maxseq[pos] /\ req_out_if'[pos] = req_out_if[pos]
        /\ Maxseq'[pos].rsp_sent_seq = Maxseq[pos].rsp_sent_seq
        /\ ~rsp_pri => req_hy_count'[pos].pri = d.pri
        /\ ack_time' = ack_time
  BY RequestTable
<1>2. Samples' = Samples  BY <1>1 DEF Samples
<1>3. SampleInv'  BY <1>0, <1>2, SameTraffic DEF SampleInv
<1>4. ASSUME NEW k \in DOMAIN slot', MeasuredKey(k)
      PROVE  StandsAt(k)' /\ BehindLine(k)'
  <2>1. CASE k = Key(d)
    <3>1. Measured(d)  BY <1>4, <2>1, KeyFacts
    <3> QED  BY <1>1, <1>4, <2>1, <3>1, RequestStands
  <2>2. CASE k # Key(d)
    <3>1. Untouched(k)  BY <1>1, <1>4, <2>2, RequestElsewhere
    <3> QED  BY <1>2, <1>4, <3>1, UntouchedTable
  <2> QED  BY <2>1, <2>2
<1>5. TableInv'  BY <1>0, <1>4, SameTraffic DEF TableInv
<1> QED  BY <1>3, <1>5
\* The response finds the request it is to: the window admits no other.
LEMMA WindowIsOwn ==
  ASSUME NoWrap, TrafficTypes, ExchangeInv,
         NEW n \in DOMAIN exchange, NEW m \in DOMAIN exchange, exchange[m].client = exchange[n].client,
         ~Open(n), NEW seq, NEW len, NEW t, RequestOf(m, seq, len, t), seq < End(n),
         (End(n) - seq) % SeqMod <= len
  PROVE  m = n /\ (seq = exchange[n].seq => exchange[n].segments = 1)
<1>1. /\ End(m) = exchange[m].seq + 1 + exchange[m].segments /\ exchange[m].seq \in Nat
      /\ exchange[m].segments \in {1, 2}
      /\ End(n) = exchange[n].seq + 1 + exchange[n].segments /\ exchange[n].seq \in Nat
      /\ exchange[n].segments \in {1, 2}
      /\ m \in Nat /\ n \in Nat /\ n <= MaxReqs
  BY ExchangeFacts
<1>2. \/ seq = exchange[m].seq /\ len = 2
      \/ seq = exchange[m].seq + 2 /\ len = 1 /\ exchange[m].segments = 2
  BY DEF RequestOf
<1>3. End(n) < SeqMod
  <2>1. exchange[n].seq <= 3 * n - 2  BY DEF ExchangeInv, Paced
  <2> QED  BY <1>1, <2>1, Sizes DEF NoWrap
<1>4. (End(n) - seq) % SeqMod = End(n) - seq
  <2> DEFINE x == End(n) - seq
  <2>1. x \in Nat /\ x < SeqMod  BY <1>1, <1>2, <1>3, Sizes
  <2> HIDE DEF x
  <2>2. x % SeqMod = x  BY <2>1, Sizes, ModUnique
  <2> QED  BY <2>2 DEF x
<1>5. End(n) - seq <= len  BY <1>4
<1>6. ~(m < n)
  <2> SUFFICES ASSUME m < n PROVE FALSE
    OBVIOUS
  <2>1. End(m) <= exchange[n].seq  BY DEF ExchangeInv, After
  <2> QED  BY <1>1, <1>2, <1>5, <2>1
<1>7. ~(n < m)
  <2> SUFFICES ASSUME n < m PROVE FALSE
    OBVIOUS
  <2>1. End(n) <= exchange[m].seq  BY DEF ExchangeInv, After
  <2> QED  BY <1>1, <1>2, <2>1
<1>8. m = n  BY <1>1, <1>6, <1>7
<1> QED  BY <1>1, <1>2, <1>5, <1>8

\* A response to be measured that matches is timed from its own request.
LEMMA ResponseRight ==
  ASSUME NoWrap, TrafficTypes, TableTypes, ExchangeInv, Fits, LineInv, TableInv, Monitor,
         NEW d, d = Head(Line), d \in Entry, d.type = M_RSP, Measured(d), Matched(d)
  PROVE  /\ IsResponse(d, d.req)
         /\ \A pri \in {0, 1} : Sampled(d, pri) => RightSample(SampleOfResponse(d, pri))
<1>1. Line # <<>>  BY MonitorFacts
<1>2. Line[1] = d /\ 1 \in 1 .. Len(Line)
  <2>1. PICK R : R = Tail(Line)
    OBVIOUS
  <2> QED  BY <1>1, <2>1, LineRest
<1>3. PICK n : n = d.req
  OBVIOUS
<1>4. IsResponse(d, n) /\ (Parser = "label" => d.pri = Priority(n))
  <2>1. Tells(d)  BY <1>2 DEF LineInv
  <2>2. M_REQ # M_RSP  BY DEF M_REQ, M_RSP
  <2> QED  BY <1>3, <2>1, <2>2 DEF Tells, IsRequest
<1>5. /\ n \in DOMAIN exchange /\ exchange[n].client = EndOf(d) /\ ~Open(n) /\ d.sent_seq = End(n)
      /\ Parser = "http" => exchange[n].status \in {"200", "404"}
  BY <1>4 DEF IsResponse
<1> DEFINE k == Key(d)
           x == Maxseq[slot[k]]
           t == req_out_if[slot[k]]
<1>6. k \in DOMAIN slot /\ KeyEnd(k) = EndOf(d) /\ MeasuredKey(k)
  BY KeyFacts DEF Matched
<1>7. StandsAt(k) /\ Behind(k, d)  BY <1>2, <1>6 DEF TableInv, BehindLine
<1>8. PICK m \in DOMAIN exchange :
        /\ exchange[m].client = KeyEnd(k)
        /\ RequestOf(m, x.req_sent_seq, x.payload_len, t)
        /\ Parser = "label" /\ ~rsp_pri => req_hy_count[slot[k]].pri = Priority(m)
  BY <1>7 DEF StandsAt
<1>9. x.req_sent_seq < End(n) /\ (End(n) - x.req_sent_seq) % SeqMod <= x.payload_len
  BY <1>5, <1>6, <1>7 DEF Behind, Matched
<1>10. m = n /\ (x.req_sent_seq = exchange[n].seq => exchange[n].segments = 1)
  BY <1>5, <1>6, <1>8, <1>9, WindowIsOwn
<1>11. RequestOf(n, x.req_sent_seq, x.payload_len, t)
       /\ (Parser = "label" /\ ~rsp_pri => req_hy_count[slot[k]].pri = Priority(n))
  BY <1>8, <1>10
<1>12. /\ Parser # "https" => t = exchange[n].asked
       /\ Parser = "http" => exchange[n].begins = "GET"
       /\ Parser = "https" => t = exchange[n].last
  <2>1. exchange[n].segments = 1 => exchange[n].last = exchange[n].asked
    BY <1>5 DEF ExchangeInv, Paced
  <2> QED  BY <1>10, <1>11, <2>1 DEF RequestOf
<1>13. ASSUME NEW pri \in {0, 1}, Sampled(d, pri) PROVE RightSample(SampleOfResponse(d, pri))
  <2>1. Parser = "label" => pri = Priority(n)
    <3>1. Priority(n) \in {0, 1}  BY <1>5, ExchangeFacts, PriorityTyped
    <3>2. CASE rsp_pri  BY <1>4, <1>13, <3>2 DEF Sampled
    <3>3. CASE ~rsp_pri  BY <1>11, <1>13, <3>1, <3>3 DEF Sampled
    <3> QED  BY <3>2, <3>3
  <2> DEFINE s == SampleOfResponse(d, pri)
  <2>2. s.time = d.ts - t /\ s.pri = pri /\ s.req = n /\ s.ts = d.ts
    BY <1>3 DEF SampleOfResponse
  <2> HIDE DEF s, t, k, x
  <2>3. RightSample(s)  BY <1>5, <1>12, <2>1, <2>2 DEF RightSample
  <2> QED  BY <2>3 DEF s
<1> QED  BY <1>3, <1>4, <1>13

LEMMA ResponseStands ==
  ASSUME TrafficTypes, TableTypes, Fits, LineInv, TableInv, Monitor,
         NEW d, d = Head(Line), d \in Entry, d.type = M_RSP, Measured(d), IsResponse(d, d.req), Matched(d),
         NEW k, k = Key(d), slot' = slot, req_out_if' = req_out_if, Samples \subseteq Samples',
         \/ Maxseq'[slot[k]].rsp_sent_seq = Maxseq[slot[k]].rsp_sent_seq
         \/ Maxseq'[slot[k]].rsp_sent_seq = d.sent_seq /\ SampleOf(d.req)'
  PROVE  StandsAt(k)' /\ BehindLine(k)'
<1>1. Line # <<>> /\ Line' = Tail(Line) /\ UNCHANGED <<startVars, trafficVars>>  BY MonitorFacts
<1>2. PICK R : R = Line'
  OBVIOUS
<1>3. /\ Line[1] = d /\ 1 \in 1 .. Len(Line)
      /\ \A i \in 1 .. Len(R) : R[i] = Line[i + 1] /\ i + 1 \in 1 .. Len(Line) /\ 1 < i + 1
  BY <1>1, <1>2, LineRest
<1>4. k \in DOMAIN slot /\ KeyEnd(k) = EndOf(d) /\ MeasuredKey(k)
  BY KeyFacts DEF Matched
<1>5. StandsAt(k) /\ BehindLine(k)  BY <1>4 DEF TableInv
<1>6. PICK pos : pos = slot[k]
  OBVIOUS
<1>7. /\ Maxseq'[pos].req_sent_seq = Maxseq[pos].req_sent_seq
      /\ Maxseq'[pos].payload_len = Maxseq[pos].payload_len
      /\ ~rsp_pri => req_hy_count'[pos].pri = req_hy_count[pos].pri
  BY <1>6 DEF Matched
<1>8. PICK c, seq, len, t, pri, q, r :
        /\ c = KeyEnd(k) /\ seq = Maxseq[pos].req_sent_seq /\ len = Maxseq[pos].payload_len
        /\ t = req_out_if[pos] /\ pri = req_hy_count[pos].pri /\ q = Maxseq'[pos].rsp_sent_seq
        /\ r = req_hy_count'[pos].pri
  OBVIOUS
<1>9. StandsBy(c, seq, len, t, r)
  <2>1. StandsBy(c, seq, len, t, pri)  BY <1>5, <1>6, <1>8 DEF StandsAt, StandsBy
  <2> QED  BY <1>7, <1>8, <2>1 DEF StandsBy
<1>10. AnsweredBy(c, q)'
  <2>1. CASE q = Maxseq[pos].rsp_sent_seq
    <3>1. AnsweredBy(c, q)  BY <1>5, <1>6, <1>8, <2>1 DEF StandsAt, AnsweredBy
    <3> QED  BY <1>1, <3>1, SameStands
  <2>2. CASE q = d.sent_seq /\ SampleOf(d.req)'
    <3>1. PICK n : n = d.req
      OBVIOUS
    <3>2. n \in DOMAIN exchange /\ exchange[n].client = c /\ ~Open(n) /\ q = End(n) /\ SampleOf(n)'
      BY <1>4, <1>8, <2>2, <3>1 DEF IsResponse
    <3>3. n \in DOMAIN exchange' /\ exchange'[n].client = c /\ ~Open(n)' /\ q = End(n)'
      BY <1>1, <3>2, SameTraffic
    <3> QED  BY <3>2, <3>3 DEF AnsweredBy
  <2> QED  BY <1>6, <1>8, <2>1, <2>2
<1>11. StandsAt(k)'
  <2>1. StandsBy(c, seq, len, t, r)'  BY <1>1, <1>9, SameStands
  <2>2. KeyEnd(k)' = c  BY <1>1, <1>8, SameTraffic
  <2>3. /\ Maxseq'[slot'[k]].req_sent_seq = seq /\ Maxseq'[slot'[k]].payload_len = len
        /\ req_out_if'[slot'[k]] = t /\ req_hy_count'[slot'[k]].pri = r
        /\ Maxseq'[slot'[k]].rsp_sent_seq = q
    BY <1>6, <1>7, <1>8
  <2>4. StandsBy(KeyEnd(k), Maxseq[slot[k]].req_sent_seq, Maxseq[slot[k]].payload_len,
                 req_out_if[slot[k]], req_hy_count[slot[k]].pri)'
        /\ AnsweredBy(KeyEnd(k), Maxseq[slot[k]].rsp_sent_seq)'
    BY <1>10, <2>1, <2>2, <2>3 DEF StandsBy, AnsweredBy
  <2> QED  BY <2>4 DEF StandsAt, StandsBy, AnsweredBy
<1>12. \A i \in 1 .. Len(R) : Behind(k, R[i])'
  <2> SUFFICES ASSUME NEW i \in 1 .. Len(R), Measured(R[i]), EndOf(R[i]) = KeyEnd(k)
               PROVE  /\ Maxseq'[slot'[k]].req_sent_seq < R[i].sent_seq
                      /\ Maxseq'[slot'[k]].rsp_sent_seq <= R[i].sent_seq
    BY <1>1, SameTraffic DEF Behind
  <2>1. SentInOrder(d, R[i])  BY <1>3 DEF LineInv
  <2>2. d.sent_seq <= R[i].sent_seq  BY <1>4, <2>1 DEF SentInOrder
  <2>3. Behind(k, R[i])  BY <1>3, <1>5 DEF BehindLine
  <2>4. Maxseq[pos].req_sent_seq < R[i].sent_seq /\ Maxseq[pos].rsp_sent_seq <= R[i].sent_seq
    BY <1>6, <2>3 DEF Behind
  <2> QED  BY <1>6, <1>7, <2>2, <2>4
<1> QED  BY <1>2, <1>11, <1>12 DEF BehindLine

LEMMA SampleAdded ==
  ASSUME TableTypes, NEW d, NEW pri, Sampled(d, pri)
  PROVE  /\ Samples' = Samples \cup {SampleOfResponse(d, pri)} /\ Samples \subseteq Samples'
         /\ SampleOf(d.req)'
<1> DEFINE s == SampleOfResponse(d, pri)
<1>1. ack_time' = Append(ack_time, s) /\ ack_time \in Seq(Sample)
  BY DEF Sampled, TableTypes
<1>2. s.req = d.req  BY DEF SampleOfResponse
<1> HIDE DEF s
<1>3. Samples' = Samples \cup {s}
  <2>1. /\ Len(ack_time') = Len(ack_time) + 1 /\ Len(ack_time) \in Nat
        /\ \A i \in 1 .. Len(ack_time) : ack_time'[i] = ack_time[i]
        /\ ack_time'[Len(ack_time) + 1] = s
        /\ DOMAIN ack_time' = 1 .. Len(ack_time) + 1 /\ DOMAIN ack_time = 1 .. Len(ack_time)
    BY <1>1, AppendProperties, LenProperties
  <2>2. \A i : i \in DOMAIN ack_time' <=> i \in DOMAIN ack_time \/ i = Len(ack_time) + 1
    BY <2>1
  <2> QED  BY <2>1, <2>2 DEF Samples, Range
<1> QED  BY <1>2, <1>3 DEF SampleOf, s

LEMMA ResponseAccuracy ==
  ASSUME NoWrap, TrafficTypes, TableTypes, ExchangeInv, Fits, LineInv, TableInv, SampleInv, Monitor,
         NEW d, d = Head(Line), d \in Entry, d.type = M_RSP, RT!OnResponse(Given(d))
  PROVE  TableInv' /\ SampleInv'
<1>0. UNCHANGED <<startVars, trafficVars>>  BY MonitorFacts
<1>1. /\ slot' = slot /\ req_out_if' = req_out_if
      /\ Unmatched(d) \/ SampledBefore(d) \/ \E pri \in {0, 1} : Sampled(d, pri)
  BY ResponseTable
<1>2. ASSUME NEW pri \in {0, 1}, Sampled(d, pri)
      PROVE  /\ Samples' = Samples \cup {SampleOfResponse(d, pri)} /\ Samples \subseteq Samples'
             /\ SampleOf(d.req)'
  BY <1>2, SampleAdded
<1>3. Samples \subseteq Samples'
  <2>1. ack_time' = ack_time => Samples' = Samples  BY DEF Samples
  <2> QED  BY <1>1, <1>2, <2>1 DEF Unmatched, SampledBefore
<1>4. SampleInv'
  <2>1. CASE ack_time' = ack_time
    <3>1. Samples' = Samples  BY <2>1 DEF Samples
    <3> QED  BY <1>0, <3>1, SameTraffic DEF SampleInv
  <2>2. ASSUME NEW pri \in {0, 1}, Sampled(d, pri) PROVE SampleInv'
    <3>1. Samples' = Samples \cup {SampleOfResponse(d, pri)}  BY <1>2, <2>2
    <3>2. SampleOfResponse(d, pri).flow = Key(d)  BY DEF SampleOfResponse
    <3>3. MeasuredKey(Key(d)) => RightSample(SampleOfResponse(d, pri))
      BY <2>2, KeyFacts, ResponseRight DEF Sampled
    <3>4. \A s \in Samples \cup {SampleOfResponse(d, pri)} : MeasuredKey(s.flow) => RightSample(s)
      BY <3>2, <3>3 DEF SampleInv
    <3> QED  BY <1>0, <3>1, <3>4, SameTraffic DEF SampleInv
  <2> QED  BY <1>1, <2>1, <2>2 DEF Unmatched, SampledBefore
<1>5. ASSUME NEW k \in DOMAIN slot, MeasuredKey(k) PROVE StandsAt(k)' /\ BehindLine(k)'
  <2>1. CASE Unmatched(d)
    <3>1. Untouched(k)  BY <1>1, <2>1 DEF Unmatched, Untouched
    <3> QED  BY <1>3, <1>5, <3>1, UntouchedTable
  <2>2. CASE Matched(d) /\ k # Key(d)
    <3>1. Untouched(k)  BY <1>1, <2>2, ResponseElsewhere DEF Matched
    <3> QED  BY <1>3, <1>5, <3>1, UntouchedTable
  <2>3. CASE Matched(d) /\ k = Key(d)
    <3>1. Measured(d)  BY <1>5, <2>3, KeyFacts
    <3>2. IsResponse(d, d.req)  BY <2>3, <3>1, ResponseRight
    <3>3. \/ Maxseq'[slot[k]].rsp_sent_seq = Maxseq[slot[k]].rsp_sent_seq
          \/ Maxseq'[slot[k]].rsp_sent_seq = d.sent_seq /\ SampleOf(d.req)'
      BY <1>1, <1>2, <2>3 DEF Unmatched, SampledBefore, Sampled
    <3> QED  BY <1>1, <1>3, <2>3, <3>1, <3>2, <3>3, ResponseStands
  <2> QED  BY <1>1, <2>1, <2>2, <2>3 DEF SampledBefore, Sampled
<1>6. TableInv'  BY <1>0, <1>1, <1>5, SameTraffic DEF TableInv
<1> QED  BY <1>4, <1>6
-----------------------------------------------------------------------------
(* The accuracy of every mode.                                             *)

LEMMA QuietAccurate == TrafficTypes /\ Quiet => AccuracyInv
<1> SUFFICES ASSUME TrafficTypes, Quiet PROVE AccuracyInv
  OBVIOUS
<1>1. DOMAIN exchange = {} /\ DOMAIN slot = {}  BY DEF Quiet
<1>2. Line = <<>>  BY LineTyped DEF Quiet
<1>3. \A i : i \notin 1 .. Len(Line)
  <2>1. Len(Line) = 0  BY <1>2, EmptySeq
  <2> QED  BY <2>1
<1>4. ack_time = <<>> /\ Samples = {}  BY DEF Quiet, Samples, Range
<1>5. \A i \in Slots : array[i].type = 0  BY DEF Quiet, Fresh
<1>6. ExchangeInv  BY <1>1 DEF ExchangeInv
<1>7. LineInv /\ TableInv /\ SampleInv  BY <1>1, <1>3, <1>4 DEF LineInv, TableInv, SampleInv
<1> QED  BY <1>4, <1>5, <1>6, <1>7 DEF AccuracyInv, MccInv

LEMMA MonitorAccuracy ==
  ASSUME NoWrap, TrafficTypes, TableTypes, ExchangeInv, Fits, LineInv, TableInv, SampleInv, Monitor
  PROVE  LineInv' /\ TableInv' /\ SampleInv'
<1>1. LineInv'  BY LineTail
<1>2. PICK d \in Entry :
        /\ d = Head(Line)
        /\ \/ d.type = 0 /\ UNCHANGED tables
           \/ d.type = M_REQ /\ RT!OnRequest(Given(d))
           \/ d.type = M_RSP /\ RT!OnResponse(Given(d))
  BY MonitorFacts
<1>3. CASE UNCHANGED tables
  <2>1. UNCHANGED <<startVars, trafficVars, slot, Maxseq, req_out_if, req_hy_count, ack_time>>
    BY <1>3, MonitorFacts DEF tables
  <2>2. Samples' = Samples  BY <2>1 DEF Samples
  <2>3. ASSUME NEW k \in DOMAIN slot, MeasuredKey(k) PROVE StandsAt(k)' /\ BehindLine(k)'
    <3>1. Untouched(k)  BY <2>1 DEF Untouched
    <3> QED  BY <2>2, <2>3, <3>1, UntouchedTable
  <2>4. TableInv' /\ SampleInv'  BY <2>1, <2>2, <2>3, SameTraffic DEF TableInv, SampleInv
  <2> QED  BY <1>1, <2>4
<1>4. CASE d.type = M_REQ /\ RT!OnRequest(Given(d))  BY <1>1, <1>2, <1>4, RequestAccuracy
<1>5. CASE d.type = M_RSP /\ RT!OnResponse(Given(d))  BY <1>1, <1>2, <1>5, ResponseAccuracy
<1> QED  BY <1>2, <1>3, <1>4, <1>5

LEMMA AccuracyStep ==
  ASSUME NoWrap, TypeInv, AccuracyInv, [Next]_vars
  PROVE  AccuracyInv'
<1>0. TypeInv' /\ SettingTypes /\ TrafficTypes /\ TableTypes  BY TypesStep DEF TypeInv, ParseTypes
<1>1. CASE StartStep /\ UNCHANGED <<trafficVars, queueVars, deque, monitorVars>>
  <2>1. Quiet'  BY <1>1, StartTypes
  <2>2. TrafficTypes'  BY <1>0 DEF TypeInv, ParseTypes
  <2>3. (TrafficTypes /\ Quiet => AccuracyInv)'  BY QuietAccurate, PTL
  <2> QED  BY <2>1, <2>2, <2>3
<1>2. CASE Traffic
  <2>1. ExchangeInv' /\ MccInv'  BY <1>0, <1>2, ExchangeStep, MccStep DEF AccuracyInv
  <2>2. Fits' = Fits
    <3>1. UNCHANGED startVars  BY <1>2 DEF Traffic
    <3> QED  BY <3>1, SameSettings DEF Fits
  <2>3. Fits => LineInv' /\ TableInv' /\ SampleInv'  BY <1>0, <1>2, TrafficAccuracy DEF AccuracyInv
  <2> QED  BY <2>1, <2>2, <2>3 DEF AccuracyInv
<1>3. CASE Monitor
  <2>1. UNCHANGED <<startVars, trafficVars>>  BY <1>0, <1>3, MonitorFacts
  <2>2. ExchangeInv'  BY <2>1 DEF AccuracyInv, ExchangeInv, Paced, After, Open, End, trafficVars
  <2>3. MccInv'  BY <1>0, <1>3, MccStep DEF AccuracyInv
  <2>4. Fits' = Fits  BY <2>1, SameSettings DEF Fits
  <2>5. Fits => LineInv' /\ TableInv' /\ SampleInv'  BY <1>0, <1>3, MonitorAccuracy DEF AccuracyInv
  <2> QED  BY <2>2, <2>3, <2>4, <2>5 DEF AccuracyInv
<1>4. CASE UNCHANGED vars
  <2>1. UNCHANGED <<startVars, trafficVars>> /\ UNCHANGED queueVars /\ UNCHANGED deque /\ UNCHANGED monitorVars
    BY <1>4 DEF vars
  <2>2. Line' = Line /\ Samples' = Samples  BY <2>1 DEF Line, queueVars, Samples, monitorVars
  <2>3. UNCHANGED <<array, slot, Maxseq, req_out_if, req_hy_count, ack_time>>
    BY <2>1 DEF queueVars, monitorVars
  <2>4. ExchangeInv' = ExchangeInv  BY <2>1 DEF ExchangeInv, Paced, After, Open, End, trafficVars
  <2>5. MccInv' = MccInv /\ Fits' = Fits  BY <2>1, <2>3, SameSettings DEF MccInv, Fits
  <2>6. LineInv' = LineInv /\ SampleInv' = SampleInv  BY <2>1, <2>2, SameTraffic DEF LineInv, SampleInv
  <2>7. ASSUME Fits, TableInv PROVE TableInv'
    <3>1. \A k \in DOMAIN slot : StandsAt(k) => StandsAt(k)'
      BY <2>1, <2>2, <2>3, UntouchedStands DEF Untouched
    <3>2. \A k, d : Behind(k, d)' = Behind(k, d)  BY <2>1, <2>3, SameTraffic DEF Behind
    <3> QED  BY <2>1, <2>2, <2>3, <2>7, <3>1, <3>2, SameTraffic DEF TableInv, BehindLine
  <2> QED  BY <2>4, <2>5, <2>6, <2>7 DEF AccuracyInv
<1> QED  BY <1>1, <1>2, <1>3, <1>4 DEF Next

LEMMA AccuracyGoal == AccuracyInv => SamplesAsConfigured
<1> SUFFICES ASSUME AccuracyInv, NEW s \in Samples
             PROVE  LET own == exchange[s.req] IN
                    /\ Parser # "mcc"
                    /\ Parser = "label" => s.time = s.ts - own.asked /\ s.pri = Priority(s.req)
                    /\ Parser = "http" /\ Keyed /\ s.flow[1] = GET =>
                         own.begins = "GET" /\ own.status \in {"200", "404"} /\ s.time = s.ts - own.asked
                    /\ Parser = "https" /\ Keyed => s.time = s.ts - own.last
  BY DEF SamplesAsConfigured
<1>1. Parser # "mcc"  BY DEF AccuracyInv, MccInv, Samples, Range
<1>2. Fits /\ MeasuredKey(s.flow) => RightSample(s)  BY DEF AccuracyInv, SampleInv
<1>3. CASE Parser = "label"  BY <1>2, <1>3 DEF Fits, MeasuredKey, RightSample
<1>4. CASE Parser = "http"  BY <1>2, <1>4 DEF Fits, MeasuredKey, RightSample
<1>5. CASE Parser = "https"  BY <1>2, <1>5 DEF Fits, MeasuredKey, RightSample
<1> QED  BY <1>1, <1>3, <1>4, <1>5, Parsers

\* In every configuration each sample that the mode promises is the time between a
\* response and the request it is to (for HTTPS, the last segment of that request),
\* with the priority of their exchange, whatever earlier packets left in the slots
\* and whether the hash has room or not: as long as the numbers do not wrap.
THEOREM ParsingAccuracy ==
  ASSUME NoWrap
  PROVE  Spec => []SamplesAsConfigured
<1>1. Init => TypeInv /\ AccuracyInv
  <2>1. Init => TypeInv  BY TypesStart
  <2>2. Init => TrafficTypes /\ Quiet
    <3> SUFFICES ASSUME Init PROVE TrafficTypes /\ Quiet
      OBVIOUS
    <3>1. TrafficTypes  BY TypesStart DEF TypeInv, ParseTypes
    <3>2. Quiet  BY DEF Init, RT!Init, Quiet, Slots, Index
    <3> QED  BY <3>1, <3>2
  <2> QED  BY <2>1, <2>2, QuietAccurate
<1>2. TypeInv /\ AccuracyInv /\ [Next]_vars => TypeInv' /\ AccuracyInv'  BY TypesStep, AccuracyStep
<1>3. TypeInv /\ AccuracyInv => SamplesAsConfigured  BY AccuracyGoal
<1> QED  BY <1>1, <1>2, <1>3, PTL DEF Spec
-----------------------------------------------------------------------------
(* No answer is overlooked.                                                *)

\* What the mode measures of exchange n: the number its request ends with, its key.
Kind(n) == Parser = "http" => exchange[n].begins = "GET"
LastSeq(n) ==
  IF Parser = "https" /\ exchange[n].segments = 2 THEN exchange[n].seq + 2 ELSE exchange[n].seq
RequestKey(n) ==
  LET c == exchange[n].client IN
  CASE Parser = "label" -> IF key_len = "http_tuple" THEN <<c.ip, c.port, Sec(exchange[n].asked)>>
                           ELSE <<c.ip, c.port>>
    [] Parser = "http" -> <<GET, c.port, c.ip>>
    [] OTHER -> <<0, c.port, c.ip>>

RequestIn(d, n) == Measured(d) /\ d.type = M_REQ /\ d.req = n /\ d.sent_seq = LastSeq(n)
ResponseTo(d, n) == Measured(d) /\ d.type = M_RSP /\ d.req = n
IsLatest(n) == \A m \in DOMAIN exchange : exchange[m].client = exchange[n].client => m <= n
ResponseWaits(n) == \E j \in 1 .. Len(Line) : ResponseTo(Line[j], n)

\* The table stands at the request of n, or will before it comes to a response to n.
Stands(n) ==
  RequestKey(n) \in DOMAIN slot /\ Maxseq[slot[RequestKey(n)]].req_sent_seq = LastSeq(n)
RequestWaits(n) ==
  \E i \in 1 .. Len(Line) :
    RequestIn(Line[i], n) /\ \A j \in 1 .. Len(Line) : ResponseTo(Line[j], n) => i < j

ReachInv ==
  \A n \in DOMAIN exchange :
    Kind(n) /\ (IsLatest(n) \/ ResponseWaits(n)) => Stands(n) \/ RequestWaits(n)

MeasuredInv ==
  \A n \in DOMAIN exchange : Measurable(exchange[n]) => SampleOf(n) \/ ResponseWaits(n)

\* HTTPS leaves the status of every slot zero, and so of the key.
HttpsInv == Parser = "https" => \A i \in Slots : array[i].status = 0 /\ array[i].kstatus = 0

CompleteInv == HttpsInv /\ (Fits /\ ~Full => ReachInv /\ MeasuredInv)

LEMMA HttpsStep ==
  ASSUME SettingTypes, TrafficTypes, HttpsInv, Traffic \/ Monitor
  PROVE  HttpsInv'
<1> SUFFICES ASSUME Parser' = "https"
             PROVE  \A i \in Slots : array'[i].status = 0 /\ array'[i].kstatus = 0
  BY DEF HttpsInv
<1>1. CASE Traffic
  <2>1. UNCHANGED <<startVars, deque>>  BY <1>1 DEF Traffic
  <2>2. Parser = "https"  BY <2>1, SameSettings
  <2>3. \A i \in Slots : array[i].status = 0 /\ array[i].kstatus = 0  BY <2>2 DEF HttpsInv
  <2>4. CASE UNCHANGED <<array, occupy>>  BY <2>3, <2>4
  <2>5. ASSUME NEW p \in Packet, packet_process(p)
        PROVE  \A i \in Slots : array'[i].status = 0 /\ array'[i].kstatus = 0
    <3>1. array[occupy] \in Entry /\ occupy \in Slots /\ ts \in 1 .. MaxTime  BY DEF TrafficTypes
    <3>2. Parsed(p) = https_parse(array[occupy], p)  BY <2>2 DEF Parsed
    <3>3. Parsed(p).data.status = array[occupy].status
          /\ Parsed(p).data.kstatus \in {array[occupy].kstatus, array[occupy].status}
      BY <3>1, <3>2, AsHttps
    <3>4. array'[occupy] = Parsed(p).data /\ \A i \in Slots \ {occupy} : array'[i] = array[i]
      BY <2>1, <2>5, Processed
    <3> QED  BY <2>3, <3>1, <3>3, <3>4
  <2> QED  BY <1>1, <2>4, <2>5, TrafficProcesses
<1>2. CASE Monitor
  <2>1. UNCHANGED <<startVars, queueVars>>  BY <1>2, MonitorFacts
  <2>2. Parser = "https"  BY <2>1, SameSettings
  <2> QED  BY <2>1, <2>2 DEF HttpsInv, queueVars
<1> QED  BY <1>1, <1>2

\* The packets that a mode is to measure are queued so that they are.
Due(p) ==
  CASE Parser = "label" -> p.begins \in Requests \/ (p.begins \in Responses /\ 1 \in conf.resp_label)
    [] Parser = "http" -> p.begins \in {"GET", "200", "404"}
    [] Parser = "https" -> TRUE
    [] Parser = "mcc" -> FALSE

LEMMA DueParsed ==
  ASSUME SettingTypes, TrafficTypes, NEW p \in Packet, Due(p)
  PROVE  Parsed(p).la_key = 1 /\ Measured(Parsed(p).data)
<1> DEFINE d == array[occupy]
<1>1. d \in Entry /\ ts \in 1 .. MaxTime  BY DEF TrafficTypes
<1> HIDE DEF d
<1>2. CASE Parser = "https"
  <2>1. Parsed(p) = https_parse(d, p)  BY <1>2 DEF Parsed, d
  <2>2. Parsed(p).la_key = 1  BY <1>1, <2>1, AsHttps
  <2> QED  BY <1>2, <2>2 DEF Measured
<1>3. CASE Parser = "http"
  <2>1. Parsed(p) = http_parse(d, p)  BY <1>3 DEF Parsed, d
  <2>2. p.begins \in {"GET", "200", "404"}  BY <1>3 DEF Due
  <2>3. Parsed(p).la_key = 1 /\ Parsed(p).data.kstatus = GET  BY <1>1, <2>1, <2>2, AsHttp
  <2> QED  BY <2>3 DEF Measured
<1>4. CASE Parser = "mcc"  BY <1>4 DEF Due
<1>5. CASE Parser = "label"
  <2>1. Parsed(p) = key_extract(d, p)  BY <1>5 DEF Parsed, d
  <2>2. p.begins \in Requests \/ (p.begins \in Responses /\ 1 \in conf.resp_label)  BY <1>5 DEF Due
  <2>3. Parsed(p).la_key = 1  BY <1>1, <2>1, <2>2, ByLabel
  <2> QED  BY <1>5, <2>3 DEF Measured
<1> QED  BY <1>2, <1>3, <1>4, <1>5, Parsers

Arrives(d) == d \in Entry /\ Line' = Append(Line, d)

LEMMA ArrivesAs ==
  ASSUME SettingTypes, TrafficTypes, Fits, UNCHANGED deque, NEW p \in Packet, Directed(p), packet_process(p)
  PROVE  /\ Line' = Line \/ \E d : Arrives(d) /\ (Measured(d) => ParsedRight(d, p))
         /\ Due(p) => \E d : Arrives(d) /\ Measured(d) /\ ParsedRight(d, p)
<1> DEFINE out == Parsed(p)
<1>1. out.la_key \in {0, 1} /\ out.data \in Entry  BY ParsedTyped
<1>2. /\ out.la_key = 1 => Line' = Append(Line, out.data)
      /\ out.la_key = 0 => Line' = Line
  BY Processed
<1>3. out.la_key = 1 /\ Measured(out.data) => ParsedRight(out.data, p)  BY ParsedAsMeasured
<1>4. Due(p) => out.la_key = 1 /\ Measured(out.data)  BY DueParsed
<1> HIDE DEF out
<1> QED  BY <1>1, <1>2, <1>3, <1>4 DEF Arrives
\* What a step of the traffic means for what is to be measured: what joins the line
\* as a response is to the last exchange; a request's new number and an answer's
\* measurement come with their entry.
Grows ==
  Line' = Line \/ \E d : Arrives(d) /\ (Measured(d) /\ d.type = M_RSP =>
                                          d.req \in DOMAIN exchange /\ IsLatest(d.req))
Asks(n) ==
  Kind(n)' =>
    \/ n \in DOMAIN exchange /\ LastSeq(n)' = LastSeq(n)
    \/ (n \in DOMAIN exchange => Open(n)) /\ \E d : Arrives(d) /\ RequestIn(d, n)'
Answers(n) ==
  Measurable(exchange'[n]) =>
    \/ n \in DOMAIN exchange /\ Measurable(exchange[n])
    \/ \E d : Arrives(d) /\ ResponseTo(d, n)
Progress == Grows /\ \A n \in DOMAIN exchange' : Asks(n) /\ Answers(n)

LEMMA Unchanging ==
  ASSUME UNCHANGED startVars, NEW n \in DOMAIN exchange, exchange'[n] = exchange[n]
  PROVE  Asks(n) /\ Answers(n)
<1>1. Parser' = Parser  BY SameSettings
<1>2. LastSeq(n)' = LastSeq(n)  BY <1>1 DEF LastSeq
<1> QED  BY <1>2 DEF Asks, Answers

LEMMA AskProgress ==
  ASSUME SettingTypes, TrafficTypes, Fits, UNCHANGED <<startVars, deque>>, NEW c \in Clients, Ask(c)
  PROVE  Progress
<1>1. PICK n : n = Len(exchange) + 1
  OBVIOUS
<1>2. PICK begins \in Requests :
        LET p == Up(n, NextSeq(c), begins) IN
        /\ exchange' = Append(exchange,
             [client |-> c, begins |-> begins, seq |-> NextSeq(c), asked |-> ts, last |-> ts,
              segments |-> 1, status |-> "none", answered |-> 0, rest |-> FALSE])
        /\ p \in Packet /\ p.src = c /\ p.dst = Server /\ p.begins = begins
        /\ p.sent_seq = NextSeq(c) /\ p.req = n
        /\ packet_process(p)
  BY <1>1, AskFacts
<1> DEFINE p == Up(n, NextSeq(c), begins)
<1>3. /\ p \in Packet /\ p.src = c /\ p.dst = Server /\ p.begins = begins
      /\ p.sent_seq = NextSeq(c) /\ p.req = n
      /\ packet_process(p)
  BY <1>2
<1>4. /\ exchange'[n] = [client |-> c, begins |-> begins, seq |-> NextSeq(c), asked |-> ts, last |-> ts,
                         segments |-> 1, status |-> "none", answered |-> 0, rest |-> FALSE]
      /\ n \notin DOMAIN exchange
      /\ \A m \in DOMAIN exchange' : m = n \/ (m \in DOMAIN exchange /\ exchange'[m] = exchange[m])
  <2>1. exchange \in Seq(Exchange)  BY DEF TrafficTypes
  <2>2. /\ DOMAIN exchange = 1 .. Len(exchange) /\ Len(exchange) \in Nat
        /\ DOMAIN exchange' = 1 .. Len(exchange')
        /\ Len(exchange') = Len(exchange) + 1
        /\ \A m \in 1 .. Len(exchange) : exchange'[m] = exchange[m]
    BY <1>2, <2>1, AppendProperties, LenProperties
  <2> QED  BY <1>1, <1>2, <2>1, <2>2, AppendProperties
<1> HIDE DEF p
<1>5. Directed(p)  BY <1>3 DEF Directed
<1>6. Parser' = Parser  BY SameSettings
<1>7. \A d : ParsedRight(d, p) => d.type = M_REQ /\ d.req = n /\ d.sent_seq = NextSeq(c)
  BY <1>3 DEF ParsedRight, About, TypeOf
<1>8. Grows
  <2>1. M_REQ # M_RSP  BY DEF M_REQ, M_RSP
  <2> QED  BY <1>3, <1>5, <1>7, <2>1, ArrivesAs DEF Grows
<1>9. Asks(n)
  <2> SUFFICES ASSUME Kind(n)' PROVE \E d : Arrives(d) /\ RequestIn(d, n)'
    BY <1>4 DEF Asks
  <2>1. Parser = "http" => begins = "GET"  BY <1>4, <1>6 DEF Kind
  <2>2. Due(p)  BY <1>3, <2>1, Parsers DEF Due, Fits
  <2>3. PICK d : Arrives(d) /\ Measured(d) /\ ParsedRight(d, p)  BY <1>3, <1>5, <2>2, ArrivesAs
  <2>4. LastSeq(n)' = NextSeq(c)  BY <1>4 DEF LastSeq
  <2>5. Measured(d)'  BY <1>6, <2>3 DEF Measured, GET
  <2>6. RequestIn(d, n)'  BY <1>7, <2>3, <2>4, <2>5 DEF RequestIn
  <2> QED  BY <2>3, <2>6
<1>10. Answers(n)
  <2>1. ~(exchange'[n].answered > exchange'[n].last)  BY <1>4 DEF TrafficTypes
  <2> QED  BY <2>1 DEF Answers, Measurable
<1> QED  BY <1>4, <1>8, <1>9, <1>10, Unchanging DEF Progress

LEMMA AskMoreProgress ==
  ASSUME SettingTypes, TrafficTypes, ExchangeInv, Fits, UNCHANGED <<startVars, deque>>,
         NEW n \in Latest, AskMore(n)
  PROVE  Progress
<1>0. n \in DOMAIN exchange  BY LatestOf
<1> DEFINE p == Up(n, End(n), "text")
<1>1. /\ Open(n) /\ exchange[n].segments = 1 /\ End(n) = exchange[n].seq + 2
      /\ exchange' = [exchange EXCEPT ![n].segments = 2, ![n].last = ts]
      /\ p \in Packet /\ p.dst = Server /\ p.begins = "text" /\ p.sent_seq = End(n) /\ p.req = n
      /\ packet_process(p)
  BY <1>0, AskMoreFacts
<1> HIDE DEF p
<1>2. /\ exchange'[n].seq = exchange[n].seq /\ exchange'[n].segments = 2 /\ exchange'[n].last = ts
      /\ exchange'[n].answered = exchange[n].answered
      /\ \A m \in DOMAIN exchange' : m = n \/ (m \in DOMAIN exchange /\ exchange'[m] = exchange[m])
  BY <1>0, <1>1, ExchangeFacts DEF Exchange
<1>3. Directed(p)  BY <1>1 DEF Directed
<1>4. Parser' = Parser  BY SameSettings
<1>5. \A d : ParsedRight(d, p) => d.type = M_REQ /\ d.req = n /\ d.sent_seq = End(n)
  BY <1>1 DEF ParsedRight, About, TypeOf
<1>6. Grows
  <2>1. M_REQ # M_RSP  BY DEF M_REQ, M_RSP
  <2> QED  BY <1>1, <1>3, <1>5, <2>1, ArrivesAs DEF Grows
<1>7. Asks(n)
  <2>1. CASE Parser = "https"
    <3>1. Due(p)  BY <2>1 DEF Due
    <3>2. PICK d : Arrives(d) /\ Measured(d) /\ ParsedRight(d, p)  BY <1>1, <1>3, <3>1, ArrivesAs
    <3>3. LastSeq(n)' = End(n)  BY <1>1, <1>2, <1>4, <2>1 DEF LastSeq
    <3>4. Measured(d)'  BY <1>4, <2>1 DEF Measured
    <3>5. RequestIn(d, n)'  BY <1>5, <3>2, <3>3, <3>4 DEF RequestIn
    <3> QED  BY <1>1, <3>2, <3>5 DEF Asks
  <2>2. CASE Parser # "https"
    <3>1. LastSeq(n)' = LastSeq(n)  BY <1>2, <1>4, <2>2 DEF LastSeq
    <3> QED  BY <1>0, <3>1 DEF Asks
  <2> QED  BY <2>1, <2>2
<1>8. Answers(n)
  <2>1. exchange[n].answered = 0  BY <1>0, <1>1 DEF ExchangeInv, Paced
  <2>2. ~(exchange'[n].answered > exchange'[n].last)  BY <1>2, <2>1 DEF TrafficTypes
  <2> QED  BY <2>2 DEF Answers, Measurable
<1> QED  BY <1>2, <1>6, <1>7, <1>8, Unchanging DEF Progress

LEMMA DownProgress ==
  ASSUME SettingTypes, TrafficTypes, Fits, UNCHANGED <<startVars, deque>>,
         NEW n \in Latest, NEW begins \in Responses \cup {"text"}, packet_process(Down(n, begins)),
         exchange'[n].seq = exchange[n].seq, exchange'[n].segments = exchange[n].segments,
         \A m \in DOMAIN exchange' : m = n \/ (m \in DOMAIN exchange /\ exchange'[m] = exchange[m]),
         Measurable(exchange'[n]) =>
           Measurable(exchange[n]) \/ (begins \in Responses /\ exchange'[n].status = begins)
  PROVE  Progress
<1>0. n \in DOMAIN exchange /\ IsLatest(n)  BY LatestOf DEF IsLatest
<1> DEFINE p == Down(n, begins)
<1>1. p \in Packet /\ p.begins = begins /\ p.req = n /\ p.dst # Server  BY <1>0, DownFacts
<1>2. packet_process(p)  OBVIOUS
<1> HIDE DEF p
<1>3. Directed(p)  BY <1>1 DEF Directed
<1>4. \A d : ParsedRight(d, p) => d.type = M_RSP /\ d.req = n
  BY <1>1 DEF ParsedRight, About, TypeOf
<1>5. Grows  BY <1>0, <1>1, <1>2, <1>3, <1>4, ArrivesAs DEF Grows
<1>6. Asks(n)
  <2>1. Parser' = Parser  BY SameSettings
  <2>2. LastSeq(n)' = LastSeq(n)  BY <2>1 DEF LastSeq
  <2> QED  BY <1>0, <2>2 DEF Asks
<1>7. Answers(n)
  <2>1. CASE ~Measurable(exchange'[n]) \/ Measurable(exchange[n])  BY <1>0, <2>1 DEF Answers
  <2>2. CASE Measurable(exchange'[n]) /\ begins \in Responses /\ exchange'[n].status = begins
    <3>1. Due(p)  BY <1>1, <2>2, Parsers DEF Due, Measurable
    <3>2. PICK d : Arrives(d) /\ Measured(d) /\ ParsedRight(d, p)  BY <1>1, <1>2, <1>3, <3>1, ArrivesAs
    <3> QED  BY <1>4, <3>2 DEF Answers, ResponseTo
  <2> QED  BY <2>1, <2>2
<1> QED  BY <1>5, <1>6, <1>7, Unchanging DEF Progress

LEMMA TrafficProgress ==
  ASSUME SettingTypes, TrafficTypes, ExchangeInv, Fits, Traffic
  PROVE  Progress
<1>0. UNCHANGED <<startVars, deque>>  BY DEF Traffic
<1>1. CASE Tick
  <2>1. Line' = Line /\ exchange' = exchange  BY <1>0, <1>1 DEF Tick, Line, queueVars
  <2> QED  BY <1>0, <2>1, Unchanging DEF Progress, Grows
<1>2. CASE \E c \in Clients : Ask(c)  BY <1>0, <1>2, AskProgress
<1>3. ASSUME NEW n \in Latest, AskMore(n) PROVE Progress  BY <1>0, <1>3, AskMoreProgress
<1>4. ASSUME NEW n \in Latest, Answer(n) PROVE Progress
  <2>1. n \in DOMAIN exchange  BY LatestOf
  <2>2. PICK begins \in Responses :
          /\ exchange' = [exchange EXCEPT ![n].status = begins, ![n].answered = ts]
          /\ packet_process(Down(n, begins))
    BY <1>4, <2>1, AnswerFacts
  <2>3. /\ exchange'[n].seq = exchange[n].seq /\ exchange'[n].segments = exchange[n].segments
        /\ exchange'[n].status = begins
        /\ \A m \in DOMAIN exchange' : m = n \/ (m \in DOMAIN exchange /\ exchange'[m] = exchange[m])
    BY <2>1, <2>2, ExchangeFacts DEF Exchange
  <2> QED  BY <1>0, <2>2, <2>3, DownProgress
<1>5. ASSUME NEW n \in Latest, AnswerMore(n) PROVE Progress
  <2>1. n \in DOMAIN exchange  BY LatestOf
  <2>2. exchange' = [exchange EXCEPT ![n].rest = TRUE] /\ packet_process(Down(n, "text"))
    BY <1>5, AnswerMoreFacts
  <2>3. LET e == exchange[n]  f == exchange'[n] IN
        /\ f.seq = e.seq /\ f.segments = e.segments /\ f.status = e.status /\ f.answered = e.answered
        /\ f.begins = e.begins /\ f.asked = e.asked /\ f.last = e.last
    BY <2>1, <2>2, ExchangeFacts DEF Exchange
  <2>4. \A m \in DOMAIN exchange' : m = n \/ (m \in DOMAIN exchange /\ exchange'[m] = exchange[m])
    BY <2>1, <2>2
  <2>5. Measurable(exchange'[n]) => Measurable(exchange[n])  BY <2>3 DEF Measurable
  <2> QED  BY <1>0, <2>2, <2>3, <2>4, <2>5, DownProgress
<1> QED  BY <1>1, <1>2, <1>3, <1>4, <1>5 DEF Traffic

LEMMA TrafficComplete ==
  ASSUME SettingTypes, TrafficTypes, ExchangeInv, Fits, LineInv, ReachInv, MeasuredInv, Traffic
  PROVE  ReachInv' /\ MeasuredInv'
<1>0. TrafficTypes' /\ Kept /\ UNCHANGED <<startVars, monitorVars>>  BY TrafficStep
<1>1. /\ UNCHANGED <<slot, Maxseq, ack_time, USE_HTTP, conf, key_len>> /\ Parser' = Parser /\ Keyed' = Keyed
  BY <1>0, SameSettings DEF monitorVars
<1>2. Progress  BY TrafficProgress
<1>3. PICK L : L = Line'
  OBVIOUS
<1>4. /\ Line \in Seq(Entry) /\ Len(Line) \in Nat /\ Len(L) \in Nat
      /\ Len(L) = Len(Line) \/ Len(L) = Len(Line) + 1
      /\ \A i \in 1 .. Len(Line) : i \in 1 .. Len(L) /\ L[i] = Line[i]
      /\ \A d : Arrives(d) => Len(L) = Len(Line) + 1 /\ L[Len(L)] = d /\ Len(L) \in 1 .. Len(L)
      /\ Len(L) = Len(Line) + 1 => \E d : Arrives(d)
  <2>1. Line \in Seq(Entry)  BY LineTyped
  <2>2. ASSUME NEW d, Arrives(d)
        PROVE  /\ Len(L) = Len(Line) + 1 /\ Len(Line) \in Nat /\ L[Len(L)] = d
               /\ \A i \in 1 .. Len(Line) : L[i] = Line[i]
    BY <1>3, <2>1, <2>2, AppendProperties, LenProperties DEF Arrives
  <2>3. CASE Line' = Line
    <3>1. L = Line /\ Len(Line) \in Nat  BY <1>3, <2>1, <2>3, LenProperties
    <3>2. \A d : ~Arrives(d)  BY <2>2, <3>1
    <3> QED  BY <2>1, <3>1, <3>2
  <2>4. CASE \E d : Arrives(d)  BY <2>1, <2>2, <2>4, LenProperties
  <2> QED  BY <1>2, <2>3, <2>4 DEF Progress, Grows
<1>5. \A d, n : ResponseTo(d, n)' = ResponseTo(d, n)  BY <1>1 DEF ResponseTo, Measured, GET, M_RSP
<1>6. ASSUME NEW n, ResponseWaits(n) PROVE n \in DOMAIN exchange /\ ~Open(n)
  <2>1. PICK j \in 1 .. Len(Line) : ResponseTo(Line[j], n)  BY <1>6 DEF ResponseWaits
  <2>2. Tells(Line[j])  BY <2>1 DEF LineInv, ResponseTo
  <2>3. M_REQ # M_RSP  BY DEF M_REQ, M_RSP
  <2> QED  BY <2>1, <2>2, <2>3 DEF Tells, IsRequest, IsResponse, ResponseTo
<1>7. ASSUME NEW n \in DOMAIN exchange', Kind(n)', IsLatest(n)' \/ ResponseWaits(n)'
      PROVE  Stands(n)' \/ RequestWaits(n)'
  <2>1. CASE n \in DOMAIN exchange /\ LastSeq(n)' = LastSeq(n)
    <3>1. exchange'[n].client = exchange[n].client /\ exchange'[n].asked = exchange[n].asked
          /\ exchange'[n].begins = exchange[n].begins
      BY <1>0, <2>1 DEF Kept
    <3>2. Kind(n)  BY <1>1, <1>7, <3>1 DEF Kind
    <3>3. IsLatest(n)' => IsLatest(n)
      <4>1. \A m \in DOMAIN exchange : m \in DOMAIN exchange' /\ exchange'[m].client = exchange[m].client
        BY <1>0 DEF Kept
      <4> QED  BY <2>1, <3>1, <4>1 DEF IsLatest
    <3>4. ResponseWaits(n)' => ResponseWaits(n) \/ IsLatest(n)
      <4> SUFFICES ASSUME ResponseWaits(n)' PROVE ResponseWaits(n) \/ IsLatest(n)
        OBVIOUS
      <4>1. \E j \in 1 .. Len(L) : ResponseTo(L[j], n)'  BY <1>3 DEF ResponseWaits
      <4>2. PICK j \in 1 .. Len(L) : ResponseTo(L[j], n)  BY <1>5, <4>1
      <4>3. CASE j \in 1 .. Len(Line)  BY <1>4, <4>2, <4>3 DEF ResponseWaits
      <4>4. CASE j \notin 1 .. Len(Line)
        <5>1. Len(L) = Len(Line) + 1 /\ j = Len(L)  BY <1>4, <4>4
        <5>2. Line' # Line
          <6>1. Len(L) # Len(Line)  BY <1>4, <5>1
          <6> QED  BY <1>3, <6>1
        <5>3. PICK d : Arrives(d) /\ (Measured(d) /\ d.type = M_RSP => IsLatest(d.req))
          BY <1>2, <5>2 DEF Progress, Grows
        <5>4. L[j] = d  BY <1>4, <5>1, <5>3
        <5> QED  BY <4>2, <5>3, <5>4 DEF ResponseTo
      <4> QED  BY <4>3, <4>4
    <3>5. Stands(n) \/ RequestWaits(n)  BY <1>7, <2>1, <3>2, <3>3, <3>4 DEF ReachInv
    <3>6. CASE Stands(n)
      <4>1. RequestKey(n)' = RequestKey(n)  BY <1>1, <3>1 DEF RequestKey, Sec, GET
      <4> QED  BY <1>1, <2>1, <3>6, <4>1 DEF Stands
    <3>7. CASE RequestWaits(n)
      <4>1. PICK i \in 1 .. Len(Line) :
              RequestIn(Line[i], n) /\ \A j \in 1 .. Len(Line) : ResponseTo(Line[j], n) => i < j
        BY <3>7 DEF RequestWaits
      <4>2. i \in 1 .. Len(L) /\ L[i] = Line[i]  BY <1>4
      <4>3. RequestIn(L[i], n)'  BY <1>1, <2>1, <4>1, <4>2 DEF RequestIn, Measured, GET, M_REQ
      <4>4. ASSUME NEW j \in 1 .. Len(L), ResponseTo(L[j], n)' PROVE i < j
        <5>1. ResponseTo(L[j], n)  BY <1>5, <4>4
        <5>2. CASE j \in 1 .. Len(Line)  BY <1>4, <4>1, <5>1, <5>2
        <5>3. CASE j \notin 1 .. Len(Line)  BY <1>4, <4>1, <5>3
        <5> QED  BY <5>2, <5>3
      <4> QED  BY <1>3, <4>2, <4>3, <4>4 DEF RequestWaits
    <3> QED  BY <3>5, <3>6, <3>7
  <2>2. CASE (n \in DOMAIN exchange => Open(n)) /\ \E d : Arrives(d) /\ RequestIn(d, n)'
    <3>1. PICK d : Arrives(d) /\ RequestIn(d, n)'  BY <2>2
    <3>2. Len(L) = Len(Line) + 1 /\ L[Len(L)] = d /\ Len(L) \in 1 .. Len(L)  BY <1>4, <3>1
    <3>3. RequestIn(L[Len(L)], n)'  BY <3>1, <3>2
    <3>4. ASSUME NEW j \in 1 .. Len(L) PROVE ~ResponseTo(L[j], n)'
      <4>1. SUFFICES ASSUME ResponseTo(L[j], n) PROVE FALSE
        BY <1>5
      <4>2. CASE j \in 1 .. Len(Line)
        <5>1. ResponseWaits(n)  BY <1>4, <4>1, <4>2 DEF ResponseWaits
        <5> QED  BY <1>6, <2>2, <5>1
      <4>3. CASE j \notin 1 .. Len(Line)
        <5>1. L[j] = d  BY <1>4, <3>2, <4>3
        <5>2. d.type = M_REQ /\ M_REQ # M_RSP  BY <3>1 DEF RequestIn, M_REQ, M_RSP
        <5> QED  BY <4>1, <5>1, <5>2 DEF ResponseTo
      <4> QED  BY <4>2, <4>3
    <3> QED  BY <1>3, <3>2, <3>3, <3>4 DEF RequestWaits
  <2> QED  BY <1>2, <1>7, <2>1, <2>2 DEF Progress, Asks
<1>8. ASSUME NEW n \in DOMAIN exchange', Measurable(exchange[n])' PROVE SampleOf(n)' \/ ResponseWaits(n)'
  <2>1. Measurable(exchange'[n])  BY <1>1, <1>8 DEF Measurable, Sec
  <2>2. CASE n \in DOMAIN exchange /\ Measurable(exchange[n])
    <3>1. SampleOf(n) \/ ResponseWaits(n)  BY <2>2 DEF MeasuredInv
    <3>2. SampleOf(n) => SampleOf(n)'  BY <1>1 DEF SampleOf, Samples
    <3>3. ResponseWaits(n) => ResponseWaits(n)'
      <4>1. ResponseWaits(n) => \E j \in 1 .. Len(L) : ResponseTo(L[j], n)'
        BY <1>4, <1>5 DEF ResponseWaits
      <4> QED  BY <1>3, <4>1 DEF ResponseWaits
    <3> QED  BY <3>1, <3>2, <3>3
  <2>3. CASE \E d : Arrives(d) /\ ResponseTo(d, n)
    <3>1. \E j \in 1 .. Len(L) : ResponseTo(L[j], n)'  BY <1>4, <1>5, <2>3
    <3> QED  BY <1>3, <3>1 DEF ResponseWaits
  <2> QED  BY <1>2, <2>1, <2>2, <2>3 DEF Progress, Answers
<1> QED  BY <1>7, <1>8 DEF ReachInv, MeasuredInv

LEMMA RequestKeyFacts ==
  ASSUME TrafficTypes, Fits, NEW n \in DOMAIN exchange
  PROVE  KeyEnd(RequestKey(n)) = exchange[n].client /\ MeasuredKey(RequestKey(n))
<1> DEFINE c == exchange[n].client
           k == RequestKey(n)
<1>1. c = [ip |-> c.ip, port |-> c.port]  BY ExchangeFacts, EndsTyped
<1>2. CASE Parser = "label"
  <2>1. ~USE_HTTP  BY <1>2 DEF Parser
  <2>2. k[1] = c.ip /\ k[2] = c.port  BY <1>2 DEF RequestKey
  <2> QED  BY <1>1, <1>2, <2>1, <2>2 DEF KeyEnd, MeasuredKey
<1>3. CASE Parser \in {"http", "https"}
  <2>1. USE_HTTP  BY <1>3 DEF Parser
  <2>2. k[3] = c.ip /\ k[2] = c.port /\ (Parser = "http" => k[1] = GET)  BY <1>3 DEF RequestKey
  <2> QED  BY <1>1, <2>1, <2>2 DEF KeyEnd, MeasuredKey
<1> QED  BY <1>2, <1>3 DEF Fits

\* An entry that tells of exchange n's client has its key.
LEMMA KeyOf ==
  ASSUME Fits, NEW d \in Entry, Measured(d), NEW n \in DOMAIN exchange, EndOf(d) = exchange[n].client,
         Parser = "https" => d.kstatus = 0,
         Parser = "label" /\ key_len = "http_tuple" => Sec(d.ts) = Sec(exchange[n].asked)
  PROVE  Key(d) = RequestKey(n)
<1>1. d.ip = exchange[n].client.ip /\ d.port = exchange[n].client.port
  <2>1. EndOf(d).ip = d.ip /\ EndOf(d).port = d.port  BY DEF EndOf
  <2> QED  BY <2>1
<1>2. CASE Parser = "label"
  <2>1. ~USE_HTTP  BY <1>2 DEF Parser
  <2> QED  BY <1>1, <1>2, <2>1 DEF Key, RequestKey
<1>3. CASE Parser = "http"
  <2>1. USE_HTTP /\ key_len = "http_tuple"  BY <1>3 DEF Parser, Fits, Keyed
  <2>2. d.kstatus = GET  BY <1>3 DEF Measured
  <2> QED  BY <1>1, <1>3, <2>1, <2>2 DEF Key, RequestKey
<1>4. CASE Parser = "https"
  <2>1. USE_HTTP /\ key_len = "http_tuple"  BY <1>4 DEF Parser, Fits, Keyed
  <2> QED  BY <1>1, <1>4, <2>1 DEF Key, RequestKey
<1> QED  BY <1>2, <1>3, <1>4 DEF Fits

\* A full hash stays full.
LEMMA FullStays ==
  ASSUME TrafficTypes, TableTypes, Monitor, Full
  PROVE  Full'
<1>1. PICK d \in Entry :
        \/ UNCHANGED tables
        \/ d.type = M_REQ /\ RT!OnRequest(Given(d))
        \/ d.type = M_RSP /\ RT!OnResponse(Given(d))
  BY MonitorFacts
<1>2. slot' = slot
  <2>1. CASE UNCHANGED tables  BY <2>1 DEF tables
  <2>2. CASE d.type = M_REQ /\ RT!OnRequest(Given(d))
    <3>1. PICK pos \in RT!Places : Placed(Key(d), pos)  BY <2>2, RequestTable
    <3> QED  BY <3>1 DEF Placed
  <2>3. CASE d.type = M_RSP /\ RT!OnResponse(Given(d))  BY <2>3, ResponseTable
  <2> QED  BY <1>1, <2>1, <2>2, <2>3
<1> QED  BY <1>2 DEF Full

\* The numbers of a request end with LastSeq, below the end of the exchange.
LEMMA LastSeqFacts ==
  ASSUME TrafficTypes, NEW n \in DOMAIN exchange
  PROVE  /\ LastSeq(n) \in Nat \ {0} /\ exchange[n].seq <= LastSeq(n) /\ LastSeq(n) < End(n)
         /\ \A seq, len, t : RequestOf(n, seq, len, t) => seq \in Nat /\ exchange[n].seq <= seq /\ seq <= LastSeq(n)
<1>1. /\ exchange[n].seq \in Nat \ {0} /\ exchange[n].segments \in {1, 2}
      /\ End(n) = exchange[n].seq + 1 + exchange[n].segments
  BY ExchangeFacts
<1>2. CASE Parser = "https" /\ exchange[n].segments = 2
  <2>1. LastSeq(n) = exchange[n].seq + 2  BY <1>2 DEF LastSeq
  <2> QED  BY <1>1, <1>2, <2>1 DEF RequestOf
<1>3. CASE ~(Parser = "https" /\ exchange[n].segments = 2)
  <2>1. LastSeq(n) = exchange[n].seq  BY <1>3 DEF LastSeq
  <2> QED  BY <1>1, <1>3, <2>1 DEF RequestOf
<1> QED  BY <1>2, <1>3

\* Requests of one client do not overlap: a number beyond the last of exchange n, and
\* not beyond its end, is of none.
LEMMA BeyondRequest ==
  ASSUME TrafficTypes, ExchangeInv, NEW n \in DOMAIN exchange, NEW m \in DOMAIN exchange,
         exchange[m].client = exchange[n].client, NEW seq, NEW len, NEW t, RequestOf(m, seq, len, t),
         LastSeq(n) < seq
  PROVE  n < m /\ ~Open(n) /\ End(n) <= seq
<1>1. /\ m \in Nat /\ n \in Nat /\ End(n) \in Nat /\ exchange[m].seq \in Nat /\ exchange[n].seq \in Nat
      /\ End(m) \in Nat
  BY ExchangeFacts
<1>2. /\ LastSeq(n) \in Nat /\ exchange[n].seq <= LastSeq(n)
      /\ seq \in Nat /\ exchange[m].seq <= seq /\ seq <= LastSeq(m) /\ LastSeq(m) < End(m)
      /\ LastSeq(m) \in Nat
  BY LastSeqFacts
<1>3. ~(m < n)
  <2> SUFFICES ASSUME m < n PROVE FALSE
    OBVIOUS
  <2>1. End(m) <= exchange[n].seq  BY DEF ExchangeInv, After
  <2> QED  BY <1>1, <1>2, <2>1
<1>4. m # n  BY <1>2
<1>5. n < m  BY <1>1, <1>3, <1>4
<1>6. ~Open(n) /\ End(n) <= exchange[m].seq  BY <1>5 DEF ExchangeInv, After
<1> QED  BY <1>1, <1>2, <1>5, <1>6

\* A response that waits is told of rightly.
LEMMA WaitingResponse ==
  ASSUME TrafficTypes, LineInv, NEW j \in 1 .. Len(Line), NEW n, ResponseTo(Line[j], n)
  PROVE  IsResponse(Line[j], n) /\ Line[j] \in Entry
<1>1. Line[j] \in Entry
  <2>1. Line \in Seq(Entry)  BY LineTyped
  <2> QED  BY <2>1, ElementOfSeq
<1>2. Tells(Line[j])  BY DEF LineInv, ResponseTo
<1>3. M_REQ # M_RSP  BY DEF M_REQ, M_RSP
<1> QED  BY <1>1, <1>2, <1>3 DEF Tells, IsRequest, ResponseTo

\* The head of the line moves no position on that a waiting response needs.
LEMMA StandsStays ==
  ASSUME TrafficTypes, TableTypes, ExchangeInv, Fits, LineInv, TableInv, Monitor,
         NEW n \in DOMAIN exchange, Stands(n), NEW R, R = Line',
         IsLatest(n) \/ \E j \in 1 .. Len(R) : ResponseTo(R[j], n)
  PROVE  Stands(n)'
<1>0. /\ Line # <<>> /\ Line' = Tail(Line) /\ UNCHANGED <<startVars, trafficVars>>
  BY MonitorFacts
<1>1. /\ Line[1] = Head(Line) /\ 1 \in 1 .. Len(Line)
      /\ \A i \in 1 .. Len(R) : R[i] = Line[i + 1] /\ i + 1 \in 1 .. Len(Line) /\ 1 < i + 1
  BY <1>0, LineRest
<1>2. PICK d \in Entry :
        /\ d = Head(Line)
        /\ \/ d.type = 0 /\ UNCHANGED tables
           \/ d.type = M_REQ /\ RT!OnRequest(Given(d))
           \/ d.type = M_RSP /\ RT!OnResponse(Given(d))
  BY MonitorFacts
<1>3. PICK k : k = RequestKey(n)
  OBVIOUS
<1>4. /\ k \in DOMAIN slot /\ Maxseq[slot[k]].req_sent_seq = LastSeq(n)
      /\ KeyEnd(k) = exchange[n].client /\ MeasuredKey(k)
  BY <1>3, RequestKeyFacts DEF Stands
<1>5. RequestKey(n)' = k /\ LastSeq(n)' = LastSeq(n)
  <2>1. exchange' = exchange /\ Parser' = Parser /\ key_len' = key_len  BY <1>0, SameTraffic, SameSettings
  <2> QED  BY <1>3, <2>1 DEF RequestKey, LastSeq, Sec, GET
<1>6. SUFFICES k \in DOMAIN slot' /\ Maxseq'[slot'[k]].req_sent_seq = LastSeq(n)
  BY <1>5 DEF Stands
<1>7. CASE UNCHANGED tables  BY <1>4, <1>7 DEF tables
<1>8. CASE d.type = M_RSP /\ RT!OnResponse(Given(d))
  <2>1. slot' = slot /\ req_out_if' = req_out_if
        /\ (Unmatched(d) \/ SampledBefore(d) \/ \E pri \in {0, 1} : Sampled(d, pri))
    BY <1>8, ResponseTable
  <2>2. CASE Unmatched(d)  BY <1>4, <2>1, <2>2 DEF Unmatched
  <2>3. CASE Matched(d)
    <3>1. CASE k = Key(d)  BY <1>4, <2>1, <2>3, <3>1 DEF Matched
    <3>2. CASE k # Key(d)
      <4>1. Untouched(k)  BY <1>4, <2>1, <2>3, <3>2, ResponseElsewhere DEF Matched
      <4> QED  BY <1>4, <4>1 DEF Untouched
    <3> QED  BY <3>1, <3>2
  <2> QED  BY <2>1, <2>2, <2>3 DEF SampledBefore, Sampled
<1>9. CASE d.type = M_REQ /\ RT!OnRequest(Given(d))
  <2>1. PICK pos \in RT!Places : Placed(Key(d), pos) /\ Elsewhere(pos)  BY <1>9, RequestTable
  <2>2. k \in DOMAIN slot'  BY <1>4, <2>1 DEF Placed
  <2>3. k # Key(d)
    <3> SUFFICES ASSUME k = Key(d) PROVE FALSE
      OBVIOUS
    <3>1. Measured(d) /\ KeyEnd(k) = EndOf(d)  BY <1>4, KeyFacts
    <3>2. Tells(d)  BY <1>1, <1>2, <3>1 DEF LineInv
    <3>3. PICK m : m = d.req /\ IsRequest(d, m)
      <4>1. M_REQ # M_RSP  BY DEF M_REQ, M_RSP
      <4> QED  BY <1>9, <3>2, <4>1 DEF Tells, IsResponse
    <3>4. /\ m \in DOMAIN exchange /\ exchange[m].client = exchange[n].client
          /\ RequestOf(m, d.sent_seq, d.total_len, d.ts)
      BY <1>4, <3>1, <3>3 DEF IsRequest, RequestOf
    <3>5. LastSeq(n) < d.sent_seq
      <4>1. Behind(k, d)  BY <1>1, <1>2, <1>4 DEF TableInv, BehindLine
      <4> QED  BY <1>4, <3>1, <4>1 DEF Behind
    <3>6. n < m /\ End(n) <= d.sent_seq  BY <3>4, <3>5, BeyondRequest
    <3>7. CASE IsLatest(n)
      <4>1. m <= n  BY <3>4, <3>7 DEF IsLatest
      <4> QED  BY <3>4, <3>6, <4>1, ExchangeFacts
    <3>8. ASSUME NEW j \in 1 .. Len(R), ResponseTo(R[j], n) PROVE FALSE
      <4>1. IsResponse(R[j], n) /\ R[j] \in Entry  BY <1>1, <3>8, WaitingResponse
      <4>2. SentInOrder(d, R[j])  BY <1>1, <1>2 DEF LineInv
      <4>3. d.sent_seq < R[j].sent_seq
        <5>1. Measured(R[j]) /\ EndOf(R[j]) = EndOf(d)
          BY <1>4, <3>1, <3>8, <4>1 DEF IsResponse, ResponseTo
        <5> QED  BY <1>9, <3>1, <4>2, <5>1 DEF SentInOrder
      <4>4. R[j].sent_seq = End(n)  BY <4>1 DEF IsResponse
      <4>5. d.sent_seq \in Nat /\ End(n) \in Nat  BY ExchangeFacts DEF Entry
      <4> QED  BY <3>6, <4>3, <4>4, <4>5
    <3> QED  BY <3>7, <3>8
  <2>4. Untouched(k)  BY <2>1, <2>2, <2>3, RequestElsewhere
  <2> QED  BY <1>4, <2>4 DEF Untouched
<1> QED  BY <1>2, <1>7, <1>8, <1>9
\* The table stands at a request that the MONITOR lcore takes, if the hash has room.
LEMMA RequestReaches ==
  ASSUME TrafficTypes, TableTypes, ExchangeInv, Fits, HttpsInv, LineInv, TableInv, ~(Full'), Monitor,
         NEW n \in DOMAIN exchange, RequestIn(Head(Line), n)
  PROVE  Stands(n)'
<1>1. PICK d \in Entry :
        /\ d = array[deque] /\ d = Head(Line) /\ Line # <<>>
        /\ \/ d.type = 0 /\ UNCHANGED tables
           \/ d.type = M_REQ /\ RT!OnRequest(Given(d))
           \/ d.type = M_RSP /\ RT!OnResponse(Given(d))
  BY MonitorFacts
<1>2. UNCHANGED <<startVars, trafficVars>>  BY MonitorFacts
<1>3. /\ Measured(d) /\ d.type = M_REQ /\ d.req = n /\ d.sent_seq = LastSeq(n) /\ M_REQ # M_RSP /\ M_REQ # 0
  BY <1>1 DEF RequestIn, M_REQ, M_RSP
<1>4. IsRequest(d, n)
  <2>1. Line[1] = d /\ 1 \in 1 .. Len(Line)
    <3>1. Tail(Line) = Tail(Line)  OBVIOUS
    <3> QED  BY <1>1, <3>1, LineRest
  <2>2. Tells(d)  BY <1>3, <2>1 DEF LineInv
  <2> QED  BY <1>3, <2>2 DEF Tells, IsResponse
<1>5. PICK k : k = Key(d)
  OBVIOUS
<1>6. k = RequestKey(n)
  <2>1. EndOf(d) = exchange[n].client  BY <1>4 DEF IsRequest
  <2>2. Parser = "https" => d.kstatus = 0  BY <1>1 DEF HttpsInv, TrafficTypes
  <2>3. Parser = "label" => d.ts = exchange[n].asked  BY <1>4 DEF IsRequest, RequestOf
  <2> QED  BY <1>3, <1>5, <2>1, <2>2, <2>3, KeyOf
<1>7. PICK pos \in RT!Places :
        /\ Placed(k, pos)
        /\ IF Maxseq[pos].req_sent_seq < d.sent_seq
           THEN Maxseq'[pos].req_sent_seq = d.sent_seq /\ Maxseq'[pos].payload_len = d.total_len
                /\ req_out_if'[pos] = d.ts
           ELSE Maxseq'[pos] = Maxseq[pos] /\ req_out_if'[pos] = req_out_if[pos]
        /\ Maxseq'[pos].rsp_sent_seq = Maxseq[pos].rsp_sent_seq
        /\ ~rsp_pri => req_hy_count'[pos].pri = d.pri
        /\ ack_time' = ack_time
  BY <1>1, <1>3, <1>5, RequestTable
<1>8. k \in DOMAIN slot'  BY <1>7 DEF Placed, Full
<1>9. slot'[k] = pos /\ Maxseq'[pos].req_sent_seq = d.sent_seq
  BY <1>1, <1>3, <1>5, <1>7, <1>8, RequestStands
<1>10. RequestKey(n)' = k /\ LastSeq(n)' = LastSeq(n)
  <2>1. exchange' = exchange /\ Parser' = Parser /\ key_len' = key_len  BY <1>2, SameTraffic, SameSettings
  <2> QED  BY <1>6, <2>1 DEF RequestKey, LastSeq, Sec, GET
<1> QED  BY <1>3, <1>8, <1>9, <1>10 DEF Stands

LEMMA MonitorReach ==
  ASSUME TrafficTypes, TableTypes, ExchangeInv, Fits, HttpsInv, LineInv, TableInv, ~(Full'), ReachInv, Monitor
  PROVE  ReachInv'
<1>1. Line # <<>> /\ Line' = Tail(Line) /\ UNCHANGED <<startVars, trafficVars>>  BY MonitorFacts
<1>2. PICK R : R = Line'
  OBVIOUS
<1>3. /\ Len(Line) \in Nat \ {0} /\ Len(R) = Len(Line) - 1 /\ Line[1] = Head(Line)
      /\ \A i \in 1 .. Len(R) : R[i] = Line[i + 1] /\ i + 1 \in 1 .. Len(Line) /\ 1 < i + 1
  BY <1>1, <1>2, LineRest
<1>4. /\ exchange' = exchange /\ Parser' = Parser
      /\ \A n : LastSeq(n)' = LastSeq(n) /\ Kind(n)' = Kind(n) /\ IsLatest(n)' = IsLatest(n)
      /\ \A d, n : ResponseTo(d, n)' = ResponseTo(d, n) /\ RequestIn(d, n)' = RequestIn(d, n)
  <2>1. exchange' = exchange /\ Parser' = Parser /\ \A d : Measured(d)' = Measured(d)
    BY <1>1, SameTraffic
  <2>2. \A n : LastSeq(n)' = LastSeq(n) /\ Kind(n)' = Kind(n) /\ IsLatest(n)' = IsLatest(n)
    BY <2>1 DEF LastSeq, Kind, IsLatest
  <2> QED  BY <2>1, <2>2 DEF ResponseTo, RequestIn, M_REQ, M_RSP
<1>5. ASSUME NEW n \in DOMAIN exchange, Kind(n), IsLatest(n) \/ \E j \in 1 .. Len(R) : ResponseTo(R[j], n)
      PROVE  Stands(n)' \/ RequestWaits(n)'
  <2>1. IsLatest(n) \/ ResponseWaits(n)  BY <1>3, <1>5 DEF ResponseWaits
  <2>2. Stands(n) \/ RequestWaits(n)  BY <1>5, <2>1 DEF ReachInv
  <2>3. CASE Stands(n)  BY <1>2, <1>5, <2>3, StandsStays
  <2>4. CASE RequestWaits(n)
    <3>1. PICK i \in 1 .. Len(Line) :
            RequestIn(Line[i], n) /\ \A j \in 1 .. Len(Line) : ResponseTo(Line[j], n) => i < j
      BY <2>4 DEF RequestWaits
    <3>2. CASE i = 1  BY <1>3, <3>1, <3>2, RequestReaches
    <3>3. CASE i # 1
      <4>1. i - 1 \in 1 .. Len(R) /\ (i - 1) + 1 = i  BY <1>3, <3>3
      <4>2. RequestIn(R[i - 1], n)  BY <1>3, <3>1, <4>1
      <4>3. ASSUME NEW j \in 1 .. Len(R), ResponseTo(R[j], n) PROVE i - 1 < j
        <5>1. R[j] = Line[j + 1] /\ j + 1 \in 1 .. Len(Line)  BY <1>3
        <5>2. i < j + 1  BY <3>1, <4>3, <5>1
        <5> QED  BY <1>3, <5>2
      <4>4. RequestIn(R[i - 1], n)' /\ \A j \in 1 .. Len(R) : ResponseTo(R[j], n)' => i - 1 < j
        BY <1>4, <4>2, <4>3
      <4>5. \E h \in 1 .. Len(R) : RequestIn(R[h], n)' /\ \A j \in 1 .. Len(R) : ResponseTo(R[j], n)' => h < j
        BY <4>1, <4>4
      <4> QED  BY <1>2, <4>5 DEF RequestWaits
    <3> QED  BY <3>2, <3>3
  <2> QED  BY <2>2, <2>3, <2>4
<1>6. ASSUME NEW n \in DOMAIN exchange', Kind(n)', IsLatest(n)' \/ ResponseWaits(n)'
      PROVE  Stands(n)' \/ RequestWaits(n)'
  <2>1. ResponseWaits(n)' => \E j \in 1 .. Len(R) : ResponseTo(R[j], n)'  BY <1>2 DEF ResponseWaits
  <2> QED  BY <1>4, <1>5, <1>6, <2>1
<1> QED  BY <1>6 DEF ReachInv
\* Exchanges of one client whose requests end alike, or that end alike, are one.
LEMMA SameExchange ==
  ASSUME TrafficTypes, ExchangeInv, NEW n \in DOMAIN exchange, NEW m \in DOMAIN exchange,
         exchange[m].client = exchange[n].client,
         End(m) = End(n) \/ \E len, t : RequestOf(m, LastSeq(n), len, t)
  PROVE  m = n
<1>1. /\ m \in Nat /\ n \in Nat /\ End(n) \in Nat /\ exchange[m].seq \in Nat /\ exchange[n].seq \in Nat
      /\ End(m) \in Nat
  BY ExchangeFacts
<1>2. /\ LastSeq(n) \in Nat /\ exchange[n].seq <= LastSeq(n) /\ LastSeq(n) < End(n)
      /\ LastSeq(m) \in Nat /\ exchange[m].seq <= LastSeq(m) /\ LastSeq(m) < End(m)
  BY LastSeqFacts
<1>3. End(m) = End(n) \/ (exchange[m].seq <= LastSeq(n) /\ LastSeq(n) <= LastSeq(m))
  <2>1. \A seq, a, b : RequestOf(m, seq, a, b) => exchange[m].seq <= seq /\ seq <= LastSeq(m)
    BY LastSeqFacts
  <2>2. (\E len, t : RequestOf(m, LastSeq(n), len, t)) =>
          exchange[m].seq <= LastSeq(n) /\ LastSeq(n) <= LastSeq(m)
    BY <2>1
  <2> QED  BY <2>2
<1>4. m < n => End(m) <= exchange[n].seq  BY DEF ExchangeInv, After
<1>5. n < m => End(n) <= exchange[m].seq  BY DEF ExchangeInv, After
<1>6. ~(m < n)  BY <1>1, <1>2, <1>3, <1>4
<1>7. ~(n < m)  BY <1>1, <1>2, <1>3, <1>5
<1> QED  BY <1>1, <1>6, <1>7

\* Its request's window and time admit a response to be measured.
LEMMA OwnMatches ==
  ASSUME NoWrap, TrafficTypes, ExchangeInv, NEW n \in DOMAIN exchange, Measurable(exchange[n]), ~Open(n),
         NEW len, NEW t, RequestOf(n, LastSeq(n), len, t)
  PROVE  (End(n) - LastSeq(n)) % SeqMod <= len /\ t \in Nat /\ t < exchange[n].answered
<1> DEFINE e == exchange[n]
<1>1. /\ e.seq \in Nat /\ e.segments \in {1, 2} /\ End(n) = e.seq + 1 + e.segments
      /\ e.asked \in Nat /\ e.last \in Nat /\ e.answered \in Nat /\ n \in Nat /\ n <= MaxReqs
  <2>1. e \in Exchange  BY ExchangeFacts
  <2>2. e.asked \in Nat /\ e.last \in Nat /\ e.answered \in Nat  BY <2>1, Sizes DEF Exchange
  <2> QED  BY <2>2, ExchangeFacts
<1>2. /\ e.seq <= 3 * n - 2 /\ e.asked <= e.last  BY DEF ExchangeInv, Paced
<1>3. e.answered > e.last /\ (Parser # "https" => e.segments = 1) /\ Parser # "mcc"
  BY Parsers DEF Measurable
<1>4. LastSeq(n) = IF e.segments = 2 THEN e.seq + 2 ELSE e.seq
  BY <1>1, <1>3 DEF LastSeq
<1>5. \/ e.segments = 1 /\ len = 2 /\ t = e.asked
      \/ e.segments = 2 /\ len = 1 /\ t = e.last
  BY <1>1, <1>4 DEF RequestOf
<1> HIDE DEF e
<1>6. PICK x : x = End(n) - LastSeq(n)
  OBVIOUS
<1>7. x \in {1, 2} /\ x <= len  BY <1>1, <1>4, <1>5, <1>6
<1>8. x < SeqMod
  <2>1. End(n) < SeqMod  BY <1>1, <1>2, Sizes DEF NoWrap
  <2>2. End(n) = e.seq + 1 + e.segments /\ x <= End(n)  BY <1>1, <1>4, <1>6
  <2> QED  BY <1>1, <1>7, <2>1, <2>2, Sizes
<1>9. x % SeqMod = x  BY <1>7, <1>8, Sizes, ModUnique
<1> QED  BY <1>1, <1>2, <1>3, <1>5, <1>6, <1>7, <1>9 DEF e

\* A response to be measured is a sample, if it was none before.
LEMMA ResponseMeasured ==
  ASSUME NoWrap, TrafficTypes, TableTypes, ExchangeInv, Fits, HttpsInv, LineInv, TableInv, ReachInv, Monitor,
         NEW n \in DOMAIN exchange, Measurable(exchange[n]), ResponseTo(Head(Line), n)
  PROVE  SampleOf(n)'
<1>1. PICK d \in Entry :
        /\ d = array[deque] /\ d = Head(Line) /\ Line # <<>>
        /\ \/ d.type = 0 /\ UNCHANGED tables
           \/ d.type = M_REQ /\ RT!OnRequest(Given(d))
           \/ d.type = M_RSP /\ RT!OnResponse(Given(d))
  BY MonitorFacts
<1>2. Measured(d) /\ d.type = M_RSP /\ d.req = n /\ M_RSP # M_REQ /\ M_RSP # 0
  BY <1>1 DEF ResponseTo, M_REQ, M_RSP
<1>3. Line[1] = d /\ 1 \in 1 .. Len(Line) /\ \A i \in 1 .. Len(Line) : ~(i < 1)
  <2>1. PICK R : R = Tail(Line)
    OBVIOUS
  <2> QED  BY <1>1, <2>1, LineRest
<1>4. IsResponse(d, n)  BY <1>1, <1>3, WaitingResponse
<1>5. /\ EndOf(d) = exchange[n].client /\ ~Open(n) /\ d.sent_seq = End(n) /\ d.ts >= exchange[n].answered
      /\ Parser # "https" => d.ts = exchange[n].answered
  BY <1>4 DEF IsResponse
<1>6. Stands(n)
  <2>1. Kind(n)  BY DEF Measurable, Kind
  <2>2. ResponseWaits(n)  BY <1>1, <1>3 DEF ResponseWaits
  <2>3. ~RequestWaits(n)  BY <1>1, <1>3 DEF RequestWaits
  <2> QED  BY <2>1, <2>2, <2>3 DEF ReachInv
<1>7. PICK k : k = Key(d)
  OBVIOUS
<1>8. k = RequestKey(n)
  <2>1. Parser = "https" => d.kstatus = 0  BY <1>1 DEF HttpsInv, TrafficTypes
  <2>2. Parser = "label" /\ key_len = "http_tuple" => Sec(d.ts) = Sec(exchange[n].asked)
    <3> SUFFICES ASSUME Parser = "label", key_len = "http_tuple" PROVE Sec(d.ts) = Sec(exchange[n].asked)
      OBVIOUS
    <3>1. ~Keyed  BY DEF Parser, Keyed
    <3>2. Sec(exchange[n].asked) = Sec(exchange[n].answered)  BY <3>1 DEF Measurable
    <3> QED  BY <1>5, <3>2
  <2> QED  BY <1>2, <1>5, <1>7, <2>1, <2>2, KeyOf
<1>9. k \in DOMAIN slot /\ KeyEnd(k) = exchange[n].client /\ MeasuredKey(k)
  BY <1>6, <1>8, RequestKeyFacts DEF Stands
<1>10. PICK x, t : x = Maxseq[slot[k]] /\ t = req_out_if[slot[k]]
  OBVIOUS
<1>11. StandsAt(k) /\ Behind(k, d)  BY <1>3, <1>9 DEF TableInv, BehindLine
<1>12. x.req_sent_seq = LastSeq(n)  BY <1>6, <1>8, <1>10 DEF Stands
<1>13. RequestOf(n, LastSeq(n), x.payload_len, t)
  <2>1. PICK m \in DOMAIN exchange :
          exchange[m].client = exchange[n].client /\ RequestOf(m, LastSeq(n), x.payload_len, t)
    BY <1>9, <1>10, <1>11, <1>12 DEF StandsAt
  <2>2. m = n  BY <2>1, SameExchange
  <2> QED  BY <2>1, <2>2
<1>14. (d.sent_seq - x.req_sent_seq) % SeqMod <= x.payload_len /\ t \in Nat /\ t < exchange[n].answered
  BY <1>5, <1>12, <1>13, OwnMatches
<1>15. ~Unmatched(d)
  <2>1. ~(d.ts <= t)
    <3>1. exchange[n] \in Exchange  BY ExchangeFacts
    <3>2. d.ts \in Nat /\ exchange[n].answered \in Nat  BY <3>1, Sizes DEF Entry, Exchange
    <3> QED  BY <1>5, <1>14, <3>2
  <2>2. ~((d.sent_seq - x.req_sent_seq) % SeqMod > x.payload_len)
    <3>1. x.payload_len \in Nat /\ (d.sent_seq - x.req_sent_seq) % SeqMod \in Int
      <4>1. x.payload_len \in Nat  BY <1>9, <1>10 DEF TableTypes, RT!Places
      <4>2. d.sent_seq \in Nat /\ x.req_sent_seq \in Nat  BY <1>9, <1>10 DEF Entry, TableTypes, RT!Places
      <4> QED  BY <4>1, <4>2, Sizes
    <3> QED  BY <1>14, <3>1
  <2> QED  BY <1>7, <1>9, <1>10, <2>1, <2>2 DEF Unmatched
<1>16. SampledBefore(d) \/ \E pri \in {0, 1} : Sampled(d, pri)
  BY <1>1, <1>2, <1>15, ResponseTable
<1>17. ASSUME NEW pri \in {0, 1}, Sampled(d, pri) PROVE SampleOf(n)'
  BY <1>2, <1>17, SampleAdded
<1>18. CASE SampledBefore(d)
  <2>1. ~(d.sent_seq > x.rsp_sent_seq) /\ ack_time' = ack_time
    BY <1>7, <1>10, <1>18 DEF SampledBefore
  <2>2. x.rsp_sent_seq <= d.sent_seq  BY <1>2, <1>5, <1>9, <1>10, <1>11 DEF Behind
  <2>3. x.rsp_sent_seq = End(n) /\ x.rsp_sent_seq # 0
    <3>1. x.rsp_sent_seq \in Nat /\ d.sent_seq \in Nat  BY <1>9, <1>10 DEF Entry, TableTypes, RT!Places
    <3>2. End(n) # 0  BY LastSeqFacts, ExchangeFacts
    <3> QED  BY <1>5, <2>1, <2>2, <3>1, <3>2
  <2>4. PICK m \in DOMAIN exchange : exchange[m].client = exchange[n].client /\ End(m) = End(n) /\ SampleOf(m)
    BY <1>9, <1>10, <1>11, <2>3 DEF StandsAt
  <2>5. m = n  BY <2>4, SameExchange
  <2> QED  BY <2>1, <2>4, <2>5 DEF SampleOf, Samples
<1> QED  BY <1>16, <1>17, <1>18

LEMMA SamplesStay ==
  ASSUME TrafficTypes, TableTypes, Monitor
  PROVE  Samples \subseteq Samples'
<1>1. PICK d \in Entry :
        \/ UNCHANGED tables
        \/ d.type = M_REQ /\ RT!OnRequest(Given(d))
        \/ d.type = M_RSP /\ RT!OnResponse(Given(d))
  BY MonitorFacts
<1>2. CASE ack_time' = ack_time  BY <1>2 DEF Samples
<1>3. UNCHANGED tables => ack_time' = ack_time  BY DEF tables
<1>4. d.type = M_REQ /\ RT!OnRequest(Given(d)) => ack_time' = ack_time  BY RequestTable
<1>5. d.type = M_RSP /\ RT!OnResponse(Given(d)) =>
        ack_time' = ack_time \/ \E pri \in {0, 1} : Sampled(d, pri)
  BY ResponseTable DEF Unmatched, SampledBefore
<1>6. ASSUME NEW pri \in {0, 1}, Sampled(d, pri) PROVE Samples \subseteq Samples'
  BY <1>6, SampleAdded
<1> QED  BY <1>1, <1>2, <1>3, <1>4, <1>5, <1>6

LEMMA MonitorMeasured ==
  ASSUME NoWrap, TrafficTypes, TableTypes, ExchangeInv, Fits, HttpsInv, LineInv, TableInv, ReachInv,
         MeasuredInv, Monitor
  PROVE  MeasuredInv'
<1>1. Line # <<>> /\ Line' = Tail(Line) /\ UNCHANGED <<startVars, trafficVars>>  BY MonitorFacts
<1>2. PICK R : R = Line'
  OBVIOUS
<1>3. /\ Len(Line) \in Nat \ {0} /\ Len(R) = Len(Line) - 1 /\ Line[1] = Head(Line)
      /\ \A i \in 1 .. Len(R) : R[i] = Line[i + 1]
  BY <1>1, <1>2, LineRest
<1>4. exchange' = exchange /\ Parser' = Parser /\ Keyed' = Keyed /\ UNCHANGED <<conf, key_len>>
      /\ \A d, n : ResponseTo(d, n)' = ResponseTo(d, n)
  <2>1. exchange' = exchange /\ Parser' = Parser /\ Keyed' = Keyed /\ UNCHANGED <<conf, key_len>>
    BY <1>1, SameTraffic, SameSettings
  <2>2. \A d : Measured(d)' = Measured(d)  BY <1>1, SameTraffic
  <2> QED  BY <2>1, <2>2 DEF ResponseTo, M_RSP
<1>5. \A n : Measurable(exchange[n])' = Measurable(exchange[n])
  BY <1>4 DEF Measurable, Sec
<1>6. ASSUME NEW n \in DOMAIN exchange, Measurable(exchange[n]) PROVE SampleOf(n)' \/ ResponseWaits(n)'
  <2>1. CASE SampleOf(n)  BY <2>1, SamplesStay DEF SampleOf
  <2>2. CASE ResponseWaits(n)
    <3>1. PICK j \in 1 .. Len(Line) : ResponseTo(Line[j], n)  BY <2>2 DEF ResponseWaits
    <3>2. CASE j = 1  BY <1>3, <1>6, <3>1, <3>2, ResponseMeasured
    <3>3. CASE j # 1
      <4>1. j - 1 \in 1 .. Len(R) /\ (j - 1) + 1 = j  BY <1>3, <3>3
      <4>2. ResponseTo(R[j - 1], n)'  BY <1>3, <1>4, <3>1, <4>1
      <4>3. \E i \in 1 .. Len(R) : ResponseTo(R[i], n)'  BY <4>1, <4>2
      <4> QED  BY <1>2, <4>3 DEF ResponseWaits
    <3> QED  BY <3>2, <3>3
  <2> QED  BY <1>6, <2>1, <2>2 DEF MeasuredInv
<1> QED  BY <1>4, <1>5, <1>6 DEF MeasuredInv
-----------------------------------------------------------------------------
(* The completeness of every mode.                                         *)

LEMMA QuietComplete == TrafficTypes /\ Quiet => CompleteInv
<1> SUFFICES ASSUME TrafficTypes, Quiet PROVE CompleteInv
  OBVIOUS
<1>1. DOMAIN exchange = {}  BY DEF Quiet
<1>2. HttpsInv  BY DEF Quiet, HttpsInv, Fresh
<1> QED  BY <1>1, <1>2 DEF CompleteInv, ReachInv, MeasuredInv

LEMMA CompleteStep ==
  ASSUME NoWrap, TypeInv, AccuracyInv, CompleteInv, [Next]_vars
  PROVE  CompleteInv'
<1>0. TypeInv' /\ SettingTypes /\ TrafficTypes /\ TableTypes  BY TypesStep DEF TypeInv, ParseTypes
<1>1. CASE StartStep /\ UNCHANGED <<trafficVars, queueVars, deque, monitorVars>>
  <2>1. Quiet'  BY <1>1, StartTypes
  <2>2. TrafficTypes'  BY <1>0 DEF TypeInv, ParseTypes
  <2>3. (TrafficTypes /\ Quiet => CompleteInv)'  BY QuietComplete, PTL
  <2> QED  BY <2>1, <2>2, <2>3
<1>2. CASE Traffic
  <2>1. UNCHANGED startVars /\ UNCHANGED monitorVars  BY <1>2 DEF Traffic
  <2>2. Fits' = Fits /\ Full' = Full  BY <2>1, SameSettings DEF Fits, Full, monitorVars
  <2>3. HttpsInv'  BY <1>0, <1>2, HttpsStep DEF CompleteInv
  <2>4. Fits /\ ~Full => ReachInv' /\ MeasuredInv'
    BY <1>0, <1>2, TrafficComplete DEF CompleteInv, AccuracyInv
  <2> QED  BY <2>2, <2>3, <2>4 DEF CompleteInv
<1>3. CASE Monitor
  <2>1. UNCHANGED <<startVars, trafficVars>>  BY <1>0, <1>3, MonitorFacts
  <2>2. Fits' = Fits  BY <2>1, SameSettings DEF Fits
  <2>3. HttpsInv'  BY <1>0, <1>3, HttpsStep DEF CompleteInv
  <2>4. Full => Full'  BY <1>0, <1>3, FullStays
  <2>5. Fits /\ ~(Full') => ReachInv' /\ MeasuredInv'
    BY <1>0, <1>3, <2>4, MonitorReach, MonitorMeasured DEF CompleteInv, AccuracyInv
  <2> QED  BY <2>2, <2>3, <2>5 DEF CompleteInv
<1>4. CASE UNCHANGED vars
  <2>1. UNCHANGED <<startVars, trafficVars>> /\ UNCHANGED queueVars /\ UNCHANGED deque /\ UNCHANGED monitorVars
    BY <1>4 DEF vars
  <2>2. Line' = Line /\ Samples' = Samples  BY <2>1 DEF Line, queueVars, Samples, monitorVars
  <2>3. UNCHANGED <<array, slot, Maxseq>>  BY <2>1 DEF queueVars, monitorVars
  <2>4. exchange' = exchange /\ Parser' = Parser /\ Keyed' = Keyed /\ UNCHANGED <<conf, key_len>>
    BY <2>1, SameSettings, SameTraffic
  <2>5. Fits' = Fits /\ Full' = Full /\ HttpsInv' = HttpsInv  BY <2>3, <2>4 DEF Fits, Full, HttpsInv
  <2>6. ReachInv' = ReachInv
    BY <2>2, <2>3, <2>4 DEF ReachInv, Kind, IsLatest, ResponseWaits, ResponseTo, Measured, Stands, RequestKey,
       LastSeq, Sec, RequestWaits, RequestIn, GET, M_REQ, M_RSP
  <2>7. MeasuredInv' = MeasuredInv
    BY <2>2, <2>4 DEF MeasuredInv, Measurable, Sec, SampleOf, ResponseWaits, ResponseTo, Measured, GET, M_RSP
  <2> QED  BY <2>5, <2>6, <2>7 DEF CompleteInv
<1> QED  BY <1>1, <1>2, <1>3, <1>4 DEF Next

LEMMA CompleteGoal == TypeInv /\ CompleteInv => (~Full => AnswersMeasured)
<1> SUFFICES ASSUME TypeInv, CompleteInv, ~Full, occupy = deque, NEW n \in DOMAIN exchange,
                    Measurable(exchange[n])
             PROVE  SampleOf(n)
  BY DEF AnswersMeasured, SampleOf
<1>1. Fits  BY Parsers DEF Measurable, Fits
<1>2. TrafficTypes  BY DEF TypeInv, ParseTypes
<1>3. Len(Line) = 0
  <2>1. Line = <<>>  BY <1>2, LineTyped
  <2> QED  BY <2>1, EmptySeq
<1>4. ~ResponseWaits(n)  BY <1>3 DEF ResponseWaits
<1> QED  BY <1>1, <1>4 DEF CompleteInv, MeasuredInv

\* In every configuration, as long as the hash has room for another key (and the
\* numbers do not wrap), no answer that the mode promises to measure is overlooked:
\* when the MONITOR lcore has caught up, each has its sample.
THEOREM ParsingComplete ==
  ASSUME NoWrap
  PROVE  Spec => [](~Full => AnswersMeasured)
<1>1. Init => TypeInv /\ AccuracyInv /\ CompleteInv
  <2>1. Init => TypeInv  BY TypesStart
  <2>2. Init => TrafficTypes /\ Quiet
    <3> SUFFICES ASSUME Init PROVE TrafficTypes /\ Quiet
      OBVIOUS
    <3>1. TrafficTypes  BY TypesStart DEF TypeInv, ParseTypes
    <3>2. Quiet  BY DEF Init, RT!Init, Quiet, Slots, Index
    <3> QED  BY <3>1, <3>2
  <2> QED  BY <2>1, <2>2, QuietAccurate, QuietComplete
<1>2. TypeInv /\ AccuracyInv /\ CompleteInv /\ [Next]_vars => TypeInv' /\ AccuracyInv' /\ CompleteInv'
  BY TypesStep, AccuracyStep, CompleteStep
<1>3. TypeInv /\ CompleteInv => (~Full => AnswersMeasured)  BY CompleteGoal
<1> QED  BY <1>1, <1>2, <1>3, PTL DEF Spec
=============================================================================
