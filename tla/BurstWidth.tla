----------------------------- MODULE BurstWidth -----------------------------
(***************************************************************************)
(* burst_width: sorts the packets of one file into a group per /24 network *)
(* and measures how long each group's burst lasts                          *)
(* (pcap_analyse/burst_width.c).                                           *)
(*                                                                         *)
(* `add' counts a packet before it stores its time stamp, so a group's     *)
(* stamps are at 1 .. len and the element 0 that malloc left is never      *)
(* written: reading it yields any time stamp.  process_pcap passes `add' a *)
(* field of *pkt_header_last, a pointer it never sets: whether the read    *)
(* crashes is up to what the stack held, and the first packet that does    *)
(* not crash shows that none will.  The gap arrays feed only output that   *)
(* is compiled out and are left out.                                       *)
(***************************************************************************)
EXTENDS SplitPcap

CONSTANTS
  MaxGroups             \* elements of bursts_global, 10 in the code

ASSUME WidthAssumption == MaxGroups \in Nat \ {0}

VARIABLES
  stage,                \* "split", "read", "compute", "done", "exit" (-1) or "crash"
  input,                \* packets of the file not read yet
  groups,               \* bursts_global: [net, times] per network, in order of creation
  widths                \* milliseconds of the groups computed so far

widthVars == <<stage, input, groups, widths>>
toolVars == <<splitVars, widthVars>>

WidthInit ==
  /\ stage = "split" /\ input = <<>>
  /\ groups = <<>> /\ widths = <<>>

\* The user runs burst_width on a file that the splitting finished.
Start(k) ==
  /\ stage = "split" /\ k \in DOMAIN files /\ files[k] # <<>>
  /\ stage' = "read"
  /\ input' = files[k]
  /\ UNCHANGED <<splitVars, groups, widths>>

\* Mutant: a group per address, not per network.
existHost(src) == {g \in DOMAIN groups : groups[g].net = src.net /\ groups[g].host = src.host}
exist(src) == {g \in DOMAIN groups : groups[g].net = src.net}

\* create: exits as soon as the last element is in use.
create(src, t) ==
  /\ groups' = Append(groups, [net |-> src.net, host |-> src.host, times |-> <<t>>])
  /\ stage' = IF Len(groups') >= MaxGroups THEN "exit" ELSE "read"

\* The first packet, when the unset pointer is no readable address.
ReadUnset ==
  /\ stage = "read" /\ input # <<>> /\ groups = <<>>
  /\ stage' = "crash"
  /\ UNCHANGED <<splitVars, input, groups, widths>>

add ==
  /\ stage = "read" /\ input # <<>>
  /\ LET packet == Head(input) IN
       \/ /\ exist(packet.src) = {}
          /\ create(packet.src, packet.t)
       \/ \E g \in exist(packet.src) :
            /\ groups' = [groups EXCEPT ![g].times = Append(@, packet.t)]
            /\ UNCHANGED stage
  /\ input' = Tail(input)
  /\ UNCHANGED <<splitVars, widths>>

EndOfFile ==
  /\ stage = "read" /\ input = <<>>
  /\ stage' = "compute"
  /\ UNCHANGED <<splitVars, input, groups, widths>>

\* The element len - 1 of a group's stamps.
LastRead(times) == IF Len(times) = 1 THEN 0 .. MaxTime ELSE {times[Len(times) - 1]}

\* Mutant: forgets that a burst may cross a full second.
WidthNoCarry(sec, usec) == IF sec = 0 /\ usec >= 0 THEN {Quotient(usec, UsecPerMs)} ELSE {}

\* Mutant: looks at the microseconds only.
WidthUsecOnly(sec, usec) == {Quotient(usec, UsecPerMs)}

\* The width in milliseconds, if the code has an answer.
Width(sec, usec) ==
  IF sec = 1 /\ usec <= 0 THEN {MsPerSec + Quotient(usec, UsecPerMs)}
  ELSE IF sec = 0 /\ usec >= 0 THEN {Quotient(usec, UsecPerMs)} ELSE {}

\* compute_data for the next group.
compute_data ==
  /\ stage = "compute"
  /\ LET times == groups[Len(widths) + 1].times IN
     \E last \in LastRead(times) :
       LET width == Width(Ts(last).tv_sec - Ts(times[1]).tv_sec,
                          Ts(last).tv_usec - Ts(times[1]).tv_usec)
       IN \/ \E w \in width :
               /\ widths' = Append(widths, w)
               /\ stage' = IF Len(widths') = Len(groups) THEN "done" ELSE "compute"
          \/ /\ width = {}
             /\ stage' = "exit"
             /\ UNCHANGED widths
  /\ UNCHANGED <<splitVars, input, groups>>

ToolsInit == SplitInit /\ WidthInit

ToolsNext ==
  \/ stage = "split" /\ SplitStep /\ UNCHANGED widthVars
  \/ \E k \in DOMAIN files : Start(k)
  \/ ReadUnset \/ add \/ EndOfFile \/ compute_data

ToolsSpec == ToolsInit /\ [][ToolsNext]_toolVars
-----------------------------------------------------------------------------
(* Correctness.                                                            *)

\* Type invariant.
ToolTypes ==
  /\ pkt_header_0 \in [tv_sec : Nat, tv_usec : 0 .. UsecPerSec - 1]
  /\ stage \in {"split", "read", "compute", "done", "exit", "crash"}
  /\ \A g \in DOMAIN groups : groups[g].times \in Seq(0 .. MaxTime) /\ groups[g].times # <<>>
  /\ widths \in Seq(Nat) /\ Len(widths) <= Len(groups) /\ Len(groups) <= MaxGroups

\* One group per network, and each packet read is in its network's: the n-th
\* packet of the network is the n-th of the group's stamps, and these are all.
GroupsByNetwork ==
  /\ \A g, h \in DOMAIN groups : groups[g].net = groups[h].net => g = h
  /\ stage # "split" => \E k \in DOMAIN files :
       LET Upto(g, i) == {j \in 1 .. i : files[k][j].src.net = groups[g].net}
           read == Len(files[k]) - Len(input)
       IN /\ \A g \in DOMAIN groups : Len(groups[g].times) = Cardinality(Upto(g, read))
          /\ \A i \in 1 .. read : \E g \in DOMAIN groups :
               /\ groups[g].net = files[k][i].src.net
               /\ groups[g].times[Cardinality(Upto(g, i))] = files[k][i].t

\* The two tools fit together: on a file split_pcap_bytime wrote, burst_width
\* gives up only when the file's networks take all elements of bursts_global
\* (the last of them would have fit) or one of them sent a single packet; and a
\* width it finds is no longer than the network's burst, which a file keeps
\* within the limit, and misses no more of it than the last gap.
WidthOfSplitFile ==
  /\ stage = "exit" => Len(groups) = MaxGroups \/ Len(groups[Len(widths) + 1].times) = 1
  /\ \A g \in DOMAIN widths :
       LET times == groups[g].times
           burst == times[Len(times)] - times[1]
           gap == times[Len(times)] - times[Len(times) - 1]
       IN Len(times) > 1 =>
            /\ widths[g] <= Limit + 1
            /\ burst - gap - UsecPerMs < widths[g] * UsecPerMs
            /\ widths[g] * UsecPerMs < burst + UsecPerMs

\* What the tool prints, "burst width is %d ms", and the README promises, the
\* length of a burst: from the network's first packet to its last, to within a
\* millisecond.
WidthIsBurst ==
  \A g \in DOMAIN widths :
    LET times == groups[g].times
        burst == times[Len(times)] - times[1]
    IN Len(times) > 1 =>
         /\ burst - UsecPerMs < widths[g] * UsecPerMs
         /\ widths[g] * UsecPerMs < burst + UsecPerMs
=============================================================================
