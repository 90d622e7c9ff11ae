----------------------------- MODULE SplitPcap ------------------------------
(***************************************************************************)
(* split_pcap_bytime: cuts a capture into files 1s.pcap, 2s.pcap, ... of   *)
(* packets close together in time (pcap_analyse/split_pcap_bytime.c).      *)
(*                                                                         *)
(* The tool reads packet by packet; a packet too short for its headers     *)
(* changes nothing and is left out.  A time stamp is a pair of seconds and *)
(* microseconds, here with MsPerSec * UsecPerMs microseconds in a second;  *)
(* the code's int division truncates towards zero.  Captures are in time   *)
(* order, as tcpdump writes them.                                          *)
(***************************************************************************)
EXTENDS Integers, Sequences, FiniteSets, SequencesExt

CONSTANTS
  MsPerSec, UsecPerMs,  \* 1000 in the code
  Limit,                \* milliseconds a file may span, 700 in the code
  CommentLimit,         \* 600, what the comment on less_second says
  Sources,              \* source addresses, records [net, host]
  MaxPkts, MaxTime      \* bounds: packets of the capture, microseconds it lasts

ASSUME SplitAssumption ==
  /\ {MsPerSec, UsecPerMs} \subseteq Nat \ {0}
  /\ {Limit, CommentLimit} \subseteq 1 .. MsPerSec - 1
  /\ {MaxPkts, MaxTime} \subseteq Nat

VARIABLES
  capture,              \* readable packets read so far: [t, src]
  pkt_header_0,         \* time stamp of the first packet of the current file
  files                 \* packets written to 1s.pcap, 2s.pcap, ...

splitVars == <<capture, pkt_header_0, files>>

UsecPerSec == MsPerSec * UsecPerMs
Ts(t) == [tv_sec |-> t \div UsecPerSec, tv_usec |-> t % UsecPerSec]
Quotient(a, b) == IF a >= 0 THEN a \div b ELSE -((-a) \div b)

SplitInit ==
  /\ capture = <<>>
  /\ pkt_header_0 = Ts(0)
  /\ files = << <<>> >>

less_second(zero, current) ==
  LET sec == current.tv_sec - zero.tv_sec
      msec == Quotient(current.tv_usec - zero.tv_usec, UsecPerMs)
  IN \/ sec = 0 /\ msec <= Limit
     \/ sec = 1 /\ msec <= Limit - MsPerSec

\* Mutant: every file is measured from the capture's first packet.
WriteFromFirst(t, src) ==
  LET zero == IF capture = <<>> THEN Ts(t) ELSE pkt_header_0
      near == less_second(zero, Ts(t))
      packet == [t |-> t, src |-> src]
  IN /\ capture' = Append(capture, packet)
     /\ files' = IF near THEN [files EXCEPT ![Len(files)] = Append(@, packet)]
                         ELSE Append(files, <<packet>>)
     /\ pkt_header_0' = zero

\* Mutant: the packet that opens a file is not written to it.
WriteAfterOpen(t, src) ==
  LET zero == IF capture = <<>> THEN Ts(t) ELSE pkt_header_0
      near == less_second(zero, Ts(t))
      packet == [t |-> t, src |-> src]
  IN /\ capture' = Append(capture, packet)
     /\ files' = IF near THEN [files EXCEPT ![Len(files)] = Append(@, packet)]
                         ELSE Append(files, <<>>)
     /\ pkt_header_0' = IF near THEN zero ELSE Ts(t)

\* A readable packet goes to the current file, or opens the next one.
Write(t, src) ==
  LET zero == IF capture = <<>> THEN Ts(t) ELSE pkt_header_0
      near == less_second(zero, Ts(t))
      packet == [t |-> t, src |-> src]
  IN /\ capture' = Append(capture, packet)
     /\ files' = IF near THEN [files EXCEPT ![Len(files)] = Append(@, packet)]
                         ELSE Append(files, <<packet>>)
     /\ pkt_header_0' = IF near THEN zero ELSE Ts(t)

SplitStep ==
  /\ Len(capture) < MaxPkts
  /\ \E t \in (IF capture = <<>> THEN 0 ELSE Last(capture).t) .. MaxTime, src \in Sources :
       Write(t, src)
-----------------------------------------------------------------------------
(* Correctness.                                                            *)

\* Every readable packet of the capture is in one file, and the files one
\* after the other are the capture.
SplitKeepsCapture == FlattenSeq(files) = capture

\* A file is what follows its first packet by `ms' milliseconds and a fraction
\* at most, on either side of a full second: the next file's first packet is
\* not within ms.
SplitWithin(ms) ==
  \A k \in DOMAIN files :
    /\ \A i \in DOMAIN files[k] : files[k][i].t - files[k][1].t < (ms + 1) * UsecPerMs
    /\ k < Len(files) => files[k + 1][1].t - files[k][1].t > ms * UsecPerMs

\* The arithmetic of less_second cuts where its constants say: a file ends
\* where it has to and no sooner, a full second crossed or not.  That 700 is
\* the limit is the code's; its comments say otherwise (AsDocumented).
FilesAreBursts == SplitWithin(Limit)

\* What the repository says of a file: the comment on less_second, 600 ms; the
\* head of the program, the comment where a packet is written and the README,
\* a second.
AsDocumented == SplitWithin(CommentLimit) \/ SplitWithin(MsPerSec - 1)
=============================================================================
