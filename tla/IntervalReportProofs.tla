------------------------ MODULE IntervalReportProofs ------------------------
(***************************************************************************)
(* Proofs about the MONITOR and the CDF lcore, for every number of flows,  *)
(* requests and copies and every interleaving of the two.                  *)
(***************************************************************************)
EXTENDS IntervalReport, FiniteSetTheorems, TLAPS

(* Where the MONITOR lcore is, and in which packet.                        *)

ReqSteps == {"req_test", "req_count", "conn", "conn_store", "req_seq", "req_stamp",
             "req_recount", "req_recount_store", "req_pri"}
NewSteps == {"rsp_pri", "rsp_pri_store", "pri_write", "idx", "idx_store", "time_write"}
GrowSteps == {"grow_test", "grow_thre", "time", "pri", "time_hy", "pri_hy"}
RspSteps == {"rsp_test", "grow_test", "grow_thre", "time", "pri", "time_hy", "pri_hy",
             "rsp_seq", "rsp_recount", "rsp_recount_store"} \cup NewSteps
CopySteps == {"copy_time", "copy_pri", "idx_reset"}
AfterSteps == {"report", "recount_reset", "clear_count", "clear_seq", "pri_reset"}

\* An odd turn is a request's, an even one a response's.
PacketInv ==
  /\ mpc \in {"idle"} \cup ReqSteps \cup RspSteps
  /\ mpc \in ReqSteps => mflow \in Flows /\ \E k \in 1 .. MaxReqs : turn[mflow] = 2 * k - 1
  /\ mpc \in RspSteps => mflow \in Flows /\ \E k \in 1 .. MaxReqs : turn[mflow] = 2 * k

\* The responses captured: the k-th of flow f is <<f, k>>.
ResponsesOf(t) == UNION {{f} \X (1 .. (t[f] \div 2)) : f \in Flows}
Budget == Cardinality(ResponsesOf(turn)) + again

\* No interval has more samples than responses were captured, and an index
\* that was loaded is not behind the one that is stored.
RoomInv ==
  /\ idx_hy <= Budget /\ idx <= Budget
  /\ mpc \in {"rsp_test", "rsp_seq", "rsp_pri", "rsp_pri_store", "pri_write", "idx"} \cup GrowSteps =>
       idx_hy < Budget
  /\ mpc \in {"idx_store", "time_write"} => mload < Budget
  /\ mpc = "idx_store" => idx_hy <= mload

\* Sequence numbers kept are those of packets captured, and the time stamp is
\* the same request's; clear() may take the numbers away but not exchange them.
SeqInv ==
  /\ \A f \in Flows :
       /\ Maxseq[f].req <= (turn[f] + 1) \div 2
       /\ Maxseq[f].rsp <= (turn[f] \div 2) + 1
       /\ Maxseq[f].req # 0 /\ ~(mpc = "req_stamp" /\ mflow = f) =>
            req_out_if[f] = Maxseq[f].req
  /\ mpc = "req_stamp" => Maxseq[mflow].req \in {0, Number}
  /\ mpc \in NewSteps \cup GrowSteps \cup {"rsp_seq"} => req_out_if[mflow] = Number

\* Only a copy of a packet is counted as a retransmission.
RecountInv ==
  /\ req_recount <= again /\ rsp_recount <= again
  /\ mpc = "req_test" /\ Maxseq[mflow].req >= Number => req_recount < again
  /\ mpc = "req_recount" => req_recount < again
  /\ mpc \in {"req_recount_store", "rsp_recount_store"} => mload < again
  /\ mpc \in {"rsp_test", "rsp_seq"} \cup GrowSteps /\ Maxseq[mflow].rsp >= Number + 1 =>
       rsp_recount < again
  /\ mpc = "rsp_recount" => rsp_recount < again

TypeInv == TypeOK /\ PacketInv /\ RoomInv /\ SeqInv /\ RecountInv
-----------------------------------------------------------------------------
(* What the lcores leave alone.                                            *)

LEMMA Constants ==
  /\ IsFiniteSet(Flows) /\ NoFlow \notin Flows
  /\ HighSize \in Nat /\ LowSize \in Nat /\ MaxReqs \in Nat \ {0} /\ MaxAgain \in Nat
  /\ BufferSizes \subseteq Nat
  BY ReportAssumption

OtherMonitor ==
  \/ ReqTest \/ ReqCount \/ ConnLoad \/ ConnStore \/ ReqSeq \/ ReqStamp
  \/ ReqRecountLoad \/ ReqRecountStore \/ ReqPri
  \/ RspTest \/ GrowTest \/ GrowThre \/ Grow \/ RspSeq \/ RspRecountLoad \/ RspRecountStore \/ PriLoad
  \/ PriStore \/ PriWrite \/ IdxLoad \/ IdxStore \/ TimeWrite

LEMMA StepCases ==
  Next <=> (\E f \in Flows : Packet(f)) \/ OtherMonitor \/ CdfLcore
  BY DEF Next, MonitorLcore, OtherMonitor

\* A step within a packet; the two lists are apart.
LEMMA WithinPacket ==
  ASSUME OtherMonitor
  PROVE  /\ UNCHANGED <<turn, again, mflow, active>>
         /\ \/ mpc \in ReqSteps /\ mpc' \in ReqSteps \cup {"idle"}
            \/ mpc \in RspSteps /\ mpc' \in RspSteps \cup {"idle"}
<1>1. UNCHANGED packet
  BY DEF OtherMonitor, ReqTest, ReqCount, ConnLoad, ConnStore, ReqSeq, ReqStamp, ReqRecountLoad,
         ReqRecountStore, ReqPri, RspTest, GrowTest, GrowThre, Grow, Realloc, RspSeq,
         RspRecountLoad, RspRecountStore, PriLoad, PriStore, PriWrite, IdxLoad, IdxStore, TimeWrite,
         Load
<1>2. CASE \/ ReqTest \/ ReqCount \/ ConnLoad \/ ConnStore \/ ReqSeq \/ ReqStamp
           \/ ReqRecountLoad \/ ReqRecountStore \/ ReqPri
  <2>1. mpc \in ReqSteps /\ mpc' \in ReqSteps \cup {"idle"}
    BY <1>2 DEF ReqTest, ReqCount, ConnLoad, ConnStore, ReqSeq, ReqStamp, ReqRecountLoad,
                ReqRecountStore, ReqPri, Load, Monitor, MonitorStep, ReqSteps
  <2> QED  BY <1>1, <2>1 DEF packet
<1>3. CASE \/ RspTest \/ GrowTest \/ GrowThre \/ Grow \/ RspSeq \/ RspRecountLoad \/ RspRecountStore \/ PriLoad
           \/ PriStore \/ PriWrite \/ IdxLoad \/ IdxStore \/ TimeWrite
  <2>1. mpc \in RspSteps /\ mpc' \in RspSteps \cup {"idle"}
    BY <1>3 DEF RspTest, GrowTest, GrowThre, Grow, Realloc, RspSeq, RspRecountLoad, RspRecountStore,
                PriLoad, PriStore, PriWrite, IdxLoad, IdxStore, TimeWrite, Load, Monitor,
                MonitorStep, RspSteps, NewSteps
  <2> QED  BY <1>1, <2>1 DEF packet
<1> QED  BY <1>2, <1>3 DEF OtherMonitor

LEMMA CdfFrame ==
  CdfLcore => UNCHANGED <<turn, again, mflow, mpc, mload, mhigh>>
  BY DEF CdfLcore, Wake, ConnReset, Snapshot, NothingToReport, CopyTime, CopyPri, IdxReset, Report,
         RecountReset, ClearCounts, ClearSeqs, PriReset, Cdf, register

\* The ghosts say where the two lcores are together.
LEMMA Ghosts ==
  ASSUME Next
  PROVE  /\ ~crossed' =>
              /\ ~crossed
              /\ ~(mpc' \in {"idx_store", "time_write"} /\ cpc' \in CopySteps)
              /\ ~(mpc' \in GrowSteps \cup {"rsp_seq"} /\ cpc' = "pri_reset")
         /\ ~overlap' =>
              /\ ~overlap
              /\ mpc' \in (NewSteps \ {"rsp_pri"}) \cup Arrays => cpc' = "sleep"
         /\ ~outside' => ~outside
<1>1. ASSUME NEW pc, NEW next, MonitorStep(pc, next)
      PROVE  mpc' = next /\ cpc' = cpc /\ Meets(next, cpc) /\ (outside => outside')
  BY <1>1 DEF MonitorStep
<1>2. ASSUME NEW pc, NEW next, Cdf(pc, next)
      PROVE  cpc' = next /\ mpc' = mpc /\ Meets(mpc, next) /\ (outside => outside')
  BY <1>2 DEF Cdf
<1>3. (\E m, c : mpc' = m /\ cpc' = c /\ Meets(m, c)) /\ (outside => outside')
  <2>1. CASE MonitorLcore
    <3>1. \E pc, next : MonitorStep(pc, next)
      BY <2>1, Zenon
      DEF MonitorLcore, Packet, ReqTest, ReqCount, ConnLoad, ConnStore, ReqSeq, ReqStamp,
          ReqRecountLoad, ReqRecountStore, ReqPri, RspTest, GrowTest, GrowThre, Grow, Realloc,
          RspSeq, RspRecountLoad, RspRecountStore, PriLoad, PriStore, PriWrite, IdxLoad, IdxStore,
          TimeWrite, Load, Monitor
    <3> QED  BY <1>1, <3>1, Zenon
  <2>2. CASE CdfLcore
    <3>1. \E pc, next : Cdf(pc, next)
      BY <2>2, Zenon
      DEF CdfLcore, Wake, ConnReset, Snapshot, NothingToReport, CopyTime, CopyPri, IdxReset, Report,
          RecountReset, ClearCounts, ClearSeqs, PriReset
    <3> QED  BY <1>2, <3>1, Zenon
  <2> QED  BY <2>1, <2>2 DEF Next
<1> QED  BY <1>3 DEF Meets, NewSteps, CopySteps, GrowSteps, Arrays
-----------------------------------------------------------------------------
(* Which packet.                                                           *)

LEMMA NumberFacts ==
  ASSUME turn \in [Flows -> 0 .. 2 * MaxReqs], PacketInv
  PROVE  /\ mpc \in ReqSteps => Number \in 1 .. MaxReqs /\ turn[mflow] = 2 * Number - 1
         /\ mpc \in RspSteps => Number \in 1 .. MaxReqs /\ turn[mflow] = 2 * Number
  BY Constants, SMT DEF PacketInv, Number

\* A packet that is taken: the next one of its flow, or its last one again.
LEMMA PacketTaken ==
  ASSUME turn \in [Flows -> 0 .. 2 * MaxReqs], again \in 0 .. MaxAgain,
         NEW f \in Flows, Packet(f)
  PROVE  /\ mpc = "idle" /\ mflow' = f /\ mpc' \in {"req_test", "rsp_test"}
         /\ turn' \in [Flows -> 0 .. 2 * MaxReqs] /\ again' \in 0 .. MaxAgain
         /\ \/ turn[f] < 2 * MaxReqs /\ turn' = [turn EXCEPT ![f] = @ + 1] /\ again' = again
            \/ turn[f] > 0 /\ turn' = turn /\ again' = again + 1
         /\ mpc' = "req_test" => \E k \in 1 .. MaxReqs : turn'[f] = 2 * k - 1
         /\ mpc' = "rsp_test" => \E k \in 1 .. MaxReqs : turn'[f] = 2 * k
<1>1. \/ turn[f] < 2 * MaxReqs /\ turn' = [turn EXCEPT ![f] = @ + 1] /\ again' = again
      \/ turn[f] > 0 /\ again < MaxAgain /\ turn' = turn /\ again' = again + 1
  BY DEF Packet
<1>2. turn' \in [Flows -> 0 .. 2 * MaxReqs] /\ turn'[f] > 0 /\ again' \in 0 .. MaxAgain
  BY <1>1, Constants
<1>3. /\ mflow' = f /\ mpc = "idle"
      /\ mpc' = IF turn'[f] % 2 = 1 THEN "req_test" ELSE "rsp_test"
  BY DEF Packet, Monitor, MonitorStep
<1> DEFINE t == turn'[f]
<1>4. t \in 1 .. 2 * MaxReqs  BY <1>2, Constants
<1> HIDE DEF t
<1>5. CASE t % 2 = 1
  <2>1. \E k \in 1 .. MaxReqs : t = 2 * k - 1
    <3>1. (t + 1) \div 2 \in 1 .. MaxReqs /\ t = 2 * ((t + 1) \div 2) - 1
      BY <1>4, <1>5, Constants, SMT
    <3> QED  BY <3>1
  <2> QED  BY <1>1, <1>2, <1>3, <1>5, <2>1 DEF t
<1>6. CASE t % 2 # 1
  <2>1. \E k \in 1 .. MaxReqs : t = 2 * k
    <3>1. t \div 2 \in 1 .. MaxReqs /\ t = 2 * (t \div 2)
      BY <1>4, <1>6, Constants, SMT
    <3> QED  BY <3>1
  <2> QED  BY <1>1, <1>2, <1>3, <1>6, <2>1 DEF t
<1> QED  BY <1>5, <1>6

LEMMA PacketStep ==
  ASSUME TypeOK, PacketInv, Next
  PROVE  /\ PacketInv'
         /\ turn' \in [Flows -> 0 .. 2 * MaxReqs] /\ again' \in 0 .. MaxAgain
<1>0. turn \in [Flows -> 0 .. 2 * MaxReqs] /\ again \in 0 .. MaxAgain  BY DEF TypeOK
<1>1. ASSUME NEW f \in Flows, Packet(f)
      PROVE  PacketInv' /\ turn' \in [Flows -> 0 .. 2 * MaxReqs] /\ again' \in 0 .. MaxAgain
  BY <1>0, <1>1, PacketTaken DEF PacketInv, ReqSteps, RspSteps, NewSteps
<1>2. CASE OtherMonitor
  BY <1>0, <1>2, WithinPacket DEF PacketInv, ReqSteps, RspSteps, NewSteps
<1>3. CASE CdfLcore  BY <1>0, <1>3, CdfFrame DEF PacketInv
<1> QED  BY <1>1, <1>2, <1>3, StepCases
-----------------------------------------------------------------------------
(* Sequence numbers and time stamps.                                       *)

TableTypes ==
  /\ Maxseq \in [Flows -> [req : 0 .. MaxReqs, len : {0, 1}, rsp : 0 .. MaxReqs + 1]]
  /\ req_out_if \in [Flows -> 0 .. MaxReqs]

LEMMA TableStep ==
  ASSUME TypeOK, PacketInv, TableTypes, Next
  PROVE  TableTypes'
<1>0. turn \in [Flows -> 0 .. 2 * MaxReqs]  BY DEF TypeOK
<1>1. CASE ReqSeq
  <2>1. Number \in 1 .. MaxReqs /\ mflow \in Flows
    BY <1>0, <1>1, NumberFacts DEF PacketInv, ReqSeq, Monitor, MonitorStep, ReqSteps
  <2> HIDE DEF Number
  <2> QED  BY <1>1, <2>1, Constants DEF TableTypes, ReqSeq
<1>2. CASE ReqStamp
  <2>1. Number \in 1 .. MaxReqs /\ mflow \in Flows
    BY <1>0, <1>2, NumberFacts DEF PacketInv, ReqStamp, Monitor, MonitorStep, ReqSteps
  <2> QED  BY <1>2, <2>1, Constants DEF TableTypes, ReqStamp
<1>3. CASE RspSeq
  <2>1. Number \in 1 .. MaxReqs /\ mflow \in Flows
    BY <1>0, <1>3, NumberFacts DEF PacketInv, RspSeq, Monitor, MonitorStep, RspSteps
  <2> QED  BY <1>3, <2>1, Constants DEF TableTypes, RspSeq
<1>4. CASE ClearSeqs  BY <1>4, Constants DEF TableTypes, ClearSeqs, NoEntry
<1>5. ASSUME ~ReqSeq, ~ReqStamp, ~RspSeq, ~ClearSeqs PROVE UNCHANGED <<Maxseq, req_out_if>>
  BY <1>5
  DEF Next, MonitorLcore, Packet, ReqTest, ReqCount, ConnLoad, ConnStore, ReqRecountLoad,
      ReqRecountStore, ReqPri, RspTest, GrowTest, GrowThre, Grow, Realloc, RspRecountLoad,
      RspRecountStore, PriLoad, PriStore, PriWrite, IdxLoad, IdxStore, TimeWrite, Load, CdfLcore,
      Wake, ConnReset, Snapshot, NothingToReport, CopyTime, CopyPri, IdxReset, Report, RecountReset,
      ClearCounts, PriReset, tableVars
<1> QED  BY <1>1, <1>2, <1>3, <1>4, <1>5 DEF TableTypes

\* Which steps touch the sequence numbers, and where they lead.
LEMMA SeqUntouched ==
  ASSUME Next, ~ReqSeq, ~ReqStamp, ~RspSeq, ~ClearSeqs, ~RspTest,
         \A f \in Flows : ~Packet(f)
  PROVE  /\ UNCHANGED <<Maxseq, req_out_if, turn, mflow, again>>
         /\ mpc' = "req_stamp" <=> mpc = "req_stamp"
         /\ mpc' \in NewSteps => mpc \in NewSteps
         /\ mpc' \in GrowSteps \cup {"rsp_seq"} => mpc \in GrowSteps \cup {"rsp_seq"}
<1>1. CASE MonitorLcore
  BY <1>1
  DEF MonitorLcore, ReqTest, ReqCount, ConnLoad, ConnStore, ReqRecountLoad, ReqRecountStore, ReqPri,
      GrowTest, GrowThre, Grow, Realloc, RspRecountLoad, RspRecountStore, PriLoad, PriStore,
      PriWrite, IdxLoad, IdxStore, TimeWrite, Load, Monitor, MonitorStep, packet, tableVars,
      NewSteps, GrowSteps
<1>2. CASE CdfLcore
  <2>1. UNCHANGED <<Maxseq, req_out_if>>
    BY <1>2
    DEF CdfLcore, Wake, ConnReset, Snapshot, NothingToReport, CopyTime, CopyPri, IdxReset, Report,
        RecountReset, ClearCounts, PriReset, tableVars
  <2>2. UNCHANGED <<turn, mflow, again, mpc>>  BY <1>2, CdfFrame
  <2> QED  BY <2>1, <2>2 DEF NewSteps, GrowSteps
<1> QED  BY <1>1, <1>2 DEF Next

LEMMA SeqStep ==
  ASSUME TypeOK, PacketInv, SeqInv, Next
  PROVE  SeqInv'
<1>0. /\ turn \in [Flows -> 0 .. 2 * MaxReqs] /\ again \in 0 .. MaxAgain
      /\ Maxseq \in [Flows -> [req : 0 .. MaxReqs, len : {0, 1}, rsp : 0 .. MaxReqs + 1]]
      /\ req_out_if \in [Flows -> 0 .. MaxReqs]
      /\ MaxReqs \in Nat \ {0}
  BY Constants DEF TypeOK
<1>1. ASSUME NEW f \in Flows, Packet(f) PROVE SeqInv'
  <2>1. /\ mpc = "idle" /\ mflow' = f /\ mpc' \in {"req_test", "rsp_test"}
        /\ turn' \in [Flows -> 0 .. 2 * MaxReqs]
        /\ turn' = [turn EXCEPT ![f] = @ + 1] \/ turn' = turn
    BY <1>0, <1>1, PacketTaken
  <2>2. UNCHANGED <<Maxseq, req_out_if>>  BY <1>1 DEF Packet, tableVars
  <2>3. ASSUME NEW g \in Flows
        PROVE  /\ Maxseq'[g].req <= (turn'[g] + 1) \div 2
               /\ Maxseq'[g].rsp <= (turn'[g] \div 2) + 1
               /\ Maxseq'[g].req # 0 => req_out_if'[g] = Maxseq'[g].req
    <3>1. /\ Maxseq[g].req <= (turn[g] + 1) \div 2
          /\ Maxseq[g].rsp <= (turn[g] \div 2) + 1
          /\ Maxseq[g].req # 0 => req_out_if[g] = Maxseq[g].req
      BY <2>1 DEF SeqInv, GrowSteps
    <3>2. turn[g] \in Nat /\ turn'[g] \in {turn[g], turn[g] + 1}  BY <1>0, <2>1
    <3>3. /\ (turn[g] + 1) \div 2 <= (turn'[g] + 1) \div 2
          /\ turn[g] \div 2 <= turn'[g] \div 2
          /\ {turn[g] \div 2, turn'[g] \div 2, (turn[g] + 1) \div 2, (turn'[g] + 1) \div 2} \subseteq Nat
      BY <3>2, SMT
    <3>4. Maxseq[g].req \in Nat /\ Maxseq[g].rsp \in Nat  BY <1>0
    <3> QED  BY <2>2, <3>1, <3>3, <3>4
  <2>4. mpc' \notin NewSteps \cup GrowSteps \cup {"rsp_seq", "req_stamp"}  BY <2>1 DEF NewSteps, GrowSteps
  <2> QED  BY <2>3, <2>4, Zenon DEF SeqInv
<1>2. CASE ReqSeq
  <2>1. /\ Number \in 1 .. MaxReqs /\ mflow \in Flows /\ mpc = "req_seq" /\ mpc' = "req_stamp"
        /\ turn[mflow] = 2 * Number - 1
    BY <1>0, <1>2, NumberFacts DEF PacketInv, ReqSeq, Monitor, MonitorStep, ReqSteps
  <2>2. /\ Maxseq' = [Maxseq EXCEPT ![mflow].req = Number]
        /\ UNCHANGED <<req_out_if, turn, mflow>>
    BY <1>2 DEF ReqSeq, packet
  <2>3. Number = (turn[mflow] + 1) \div 2  BY DEF Number
  <2> HIDE DEF Number
  <2>4. ASSUME NEW g \in Flows
        PROVE  /\ Maxseq'[g].req <= (turn[g] + 1) \div 2
               /\ Maxseq'[g].rsp <= (turn[g] \div 2) + 1
               /\ Maxseq'[g].req # 0 /\ mflow # g => req_out_if[g] = Maxseq'[g].req
    <3>1. CASE g = mflow
      <4>1. Maxseq'[g].req = Number /\ Maxseq'[g].rsp = Maxseq[g].rsp  BY <1>0, <2>1, <2>2, <3>1
      <4> QED  BY <2>1, <2>3, <3>1, <4>1 DEF SeqInv, GrowSteps
    <3>2. CASE g # mflow
      <4>1. Maxseq'[g] = Maxseq[g]  BY <1>0, <2>2, <3>2
      <4> QED  BY <2>1, <3>2, <4>1 DEF SeqInv, GrowSteps
    <3> QED  BY <3>1, <3>2
  <2>5. mpc' \notin NewSteps \cup GrowSteps \cup {"rsp_seq"}  BY <2>1 DEF NewSteps, GrowSteps
  <2>6. Maxseq'[mflow].req = Number /\ Number' = Number
    <3>1. Maxseq'[mflow].req = Number  BY <1>0, <2>1, <2>2
    <3> QED  BY <2>2, <3>1 DEF Number
  <2> QED  BY <2>1, <2>2, <2>4, <2>5, <2>6, Zenon DEF SeqInv
<1>3. CASE ReqStamp
  <2>1. /\ mflow \in Flows /\ mpc = "req_stamp" /\ mpc' = "req_pri"
        /\ Number \in 1 .. MaxReqs
    BY <1>0, <1>3, NumberFacts DEF PacketInv, ReqStamp, Monitor, MonitorStep, ReqSteps
  <2>2. /\ Maxseq' = [Maxseq EXCEPT ![mflow].len = 1]
        /\ req_out_if' = [req_out_if EXCEPT ![mflow] = Number]
        /\ UNCHANGED <<turn, mflow>>
    BY <1>3 DEF ReqStamp, packet
  <2>3. Maxseq[mflow].req \in {0, Number}  BY <2>1 DEF SeqInv, GrowSteps
  <2> HIDE DEF Number
  <2>4. ASSUME NEW g \in Flows
        PROVE  /\ Maxseq'[g].req <= (turn[g] + 1) \div 2
               /\ Maxseq'[g].rsp <= (turn[g] \div 2) + 1
               /\ Maxseq'[g].req # 0 => req_out_if'[g] = Maxseq'[g].req
    <3>1. Maxseq'[g].req = Maxseq[g].req /\ Maxseq'[g].rsp = Maxseq[g].rsp
      BY <1>0, <2>1, <2>2
    <3>2. CASE g = mflow
      <4>1. req_out_if'[g] = Number  BY <1>0, <2>1, <2>2, <3>2
      <4> QED  BY <2>1, <2>3, <3>1, <3>2, <4>1 DEF SeqInv, GrowSteps
    <3>3. CASE g # mflow
      <4>1. req_out_if'[g] = req_out_if[g]  BY <1>0, <2>2, <3>3
      <4> QED  BY <2>1, <3>1, <3>3, <4>1 DEF SeqInv, GrowSteps
    <3> QED  BY <3>2, <3>3
  <2>5. mpc' \notin NewSteps \cup GrowSteps \cup {"rsp_seq", "req_stamp"}  BY <2>1 DEF NewSteps, GrowSteps
  <2> QED  BY <2>1, <2>2, <2>4, <2>5, Zenon DEF SeqInv
<1>4. CASE RspTest
  <2>1. /\ mflow \in Flows /\ mpc = "rsp_test" /\ mpc' \in {"idle", "grow_test"}
        /\ mpc' = "grow_test" => InWindow
        /\ Number \in 1 .. MaxReqs /\ turn[mflow] = 2 * Number
    BY <1>0, <1>4, NumberFacts DEF PacketInv, RspTest, Monitor, MonitorStep, RspSteps
  <2>2. UNCHANGED <<Maxseq, req_out_if, turn, mflow>>  BY <1>4 DEF RspTest, packet, tableVars
  <2>3. ASSUME mpc' = "grow_test" PROVE req_out_if[mflow] = Number
    <3>1. Number + 1 - Maxseq[mflow].req \in 0 .. Maxseq[mflow].len  BY <2>1, <2>3 DEF InWindow
    <3>2. Maxseq[mflow].req <= Number
      <4>1. Maxseq[mflow].req <= (turn[mflow] + 1) \div 2  BY <2>1 DEF SeqInv, GrowSteps
      <4> QED  BY <4>1 DEF Number
    <3> HIDE DEF Number
    <3>3. Maxseq[mflow].req \in Nat /\ Maxseq[mflow].len \in {0, 1}  BY <1>0, <2>1
    <3>4. Maxseq[mflow].req = Number  BY <2>1, <3>1, <3>2, <3>3
    <3> QED  BY <2>1, <3>4 DEF SeqInv, GrowSteps
  <2>4. Number' = Number  BY <2>2 DEF Number
  <2> HIDE DEF Number
  <2>5. \A f \in Flows :
          /\ Maxseq[f].req <= (turn[f] + 1) \div 2
          /\ Maxseq[f].rsp <= (turn[f] \div 2) + 1
          /\ Maxseq[f].req # 0 => req_out_if[f] = Maxseq[f].req
    BY <2>1 DEF SeqInv, GrowSteps
  <2>6. mpc' \in NewSteps \cup GrowSteps \cup {"rsp_seq", "req_stamp"} => mpc' = "grow_test"
    BY <2>1 DEF NewSteps, GrowSteps
  <2> QED  BY <2>2, <2>3, <2>4, <2>5, <2>6, Zenon DEF SeqInv
<1>5. CASE RspSeq
  <2>1. /\ mflow \in Flows /\ mpc = "rsp_seq" /\ mpc' \in {"rsp_pri", "rsp_recount"}
        /\ Number \in 1 .. MaxReqs /\ turn[mflow] = 2 * Number
    BY <1>0, <1>5, NumberFacts DEF PacketInv, RspSeq, Monitor, MonitorStep, RspSteps
  <2>2. /\ Maxseq' = [Maxseq EXCEPT ![mflow].rsp = IF Number + 1 > Maxseq[mflow].rsp
                                                   THEN Number + 1 ELSE @]
        /\ UNCHANGED <<req_out_if, turn, mflow>>
    BY <1>5 DEF RspSeq, packet
  <2>3. Number' = Number /\ req_out_if[mflow] = Number
    <3>1. Number' = Number  BY <2>2 DEF Number
    <3>2. req_out_if[mflow] = Number  BY <2>1 DEF SeqInv, GrowSteps
    <3> QED  BY <3>1, <3>2
  <2>4. turn[mflow] \div 2 = Number  BY <2>1, SMT
  <2> HIDE DEF Number
  <2>5. ASSUME NEW g \in Flows
        PROVE  /\ Maxseq'[g].req <= (turn[g] + 1) \div 2
               /\ Maxseq'[g].rsp <= (turn[g] \div 2) + 1
               /\ Maxseq'[g].req # 0 => req_out_if[g] = Maxseq'[g].req
    <3>1. Maxseq'[g].req = Maxseq[g].req  BY <1>0, <2>1, <2>2
    <3>2. Maxseq'[g].rsp = Maxseq[g].rsp \/ (g = mflow /\ Maxseq'[g].rsp = Number + 1)
      BY <1>0, <2>1, <2>2
    <3>3. /\ Maxseq[g].req <= (turn[g] + 1) \div 2
          /\ Maxseq[g].rsp <= (turn[g] \div 2) + 1
          /\ Maxseq[g].req # 0 => req_out_if[g] = Maxseq[g].req
      BY <2>1 DEF SeqInv, GrowSteps
    <3> QED  BY <2>1, <2>4, <3>1, <3>2, <3>3
  <2> QED  BY <2>1, <2>2, <2>3, <2>5, Zenon DEF SeqInv
<1>6. CASE ClearSeqs
  <2>1. /\ Maxseq' = [f \in Flows |-> NoEntry]
        /\ UNCHANGED <<req_out_if, turn, mflow, mpc>>
    BY <1>6, CdfFrame DEF ClearSeqs, CdfLcore
  <2>2. \A f \in Flows : Maxseq'[f].req = 0 /\ Maxseq'[f].rsp = 0  BY <2>1 DEF NoEntry
  <2>3. \A f \in Flows : 0 <= (turn[f] + 1) \div 2 /\ 0 <= (turn[f] \div 2) + 1
    BY <1>0, SMT
  <2>4. Number' = Number  BY <2>1 DEF Number
  <2>5. mpc \in ReqSteps => mflow \in Flows  BY DEF PacketInv
  <2> HIDE DEF Number
  <2> QED  BY <2>1, <2>2, <2>3, <2>4, <2>5 DEF SeqInv, GrowSteps, ReqSteps
<1>7. CASE /\ ~ReqSeq /\ ~ReqStamp /\ ~RspSeq /\ ~ClearSeqs /\ ~RspTest
           /\ \A f \in Flows : ~Packet(f)
  <2>1. /\ UNCHANGED <<Maxseq, req_out_if, turn, mflow, again>>
        /\ mpc' = "req_stamp" <=> mpc = "req_stamp"
        /\ mpc' \in NewSteps \cup GrowSteps \cup {"rsp_seq"} => mpc \in NewSteps \cup GrowSteps \cup {"rsp_seq"}
    BY <1>7, SeqUntouched
  <2>2. Number' = Number  BY <2>1 DEF Number
  <2> HIDE DEF Number
  <2> QED  BY <2>1, <2>2 DEF SeqInv, GrowSteps
<1> QED  BY <1>1, <1>2, <1>3, <1>4, <1>5, <1>6, <1>7
-----------------------------------------------------------------------------
(* Retransmissions.                                                        *)

LEMMA RecountStep ==
  ASSUME TypeOK, PacketInv, SeqInv, RecountInv, Next
  PROVE  RecountInv' /\ req_recount' \in Nat /\ rsp_recount' \in Nat
<1>0. /\ turn \in [Flows -> 0 .. 2 * MaxReqs] /\ again \in 0 .. MaxAgain
      /\ Maxseq \in [Flows -> [req : 0 .. MaxReqs, len : {0, 1}, rsp : 0 .. MaxReqs + 1]]
      /\ req_recount \in Nat /\ rsp_recount \in Nat /\ again \in Nat /\ mload \in Nat
      /\ MaxReqs \in Nat \ {0} /\ MaxAgain \in Nat
  BY Constants DEF TypeOK
<1>1. ASSUME NEW f \in Flows, Packet(f)
      PROVE  RecountInv' /\ req_recount' \in Nat /\ rsp_recount' \in Nat
  <2>1. /\ mpc = "idle" /\ mflow' = f /\ mpc' \in {"req_test", "rsp_test"}
        /\ turn' \in [Flows -> 0 .. 2 * MaxReqs]
        /\ \/ turn[f] < 2 * MaxReqs /\ turn' = [turn EXCEPT ![f] = @ + 1] /\ again' = again
           \/ turn[f] > 0 /\ turn' = turn /\ again' = again + 1
        /\ mpc' = "req_test" => \E k \in 1 .. MaxReqs : turn'[f] = 2 * k - 1
        /\ mpc' = "rsp_test" => \E k \in 1 .. MaxReqs : turn'[f] = 2 * k
    BY <1>0, <1>1, PacketTaken
  <2>2. UNCHANGED <<Maxseq, req_recount, rsp_recount>>
    BY <1>1 DEF Packet, tableVars, recountVars
  <2>3. CASE again' = again + 1
    <3>1. req_recount < again' /\ rsp_recount < again'  BY <1>0, <2>3 DEF RecountInv, GrowSteps
    <3> QED  BY <1>0, <2>1, <2>2, <3>1 DEF RecountInv, GrowSteps
  <2>4. CASE again' # again + 1
    <3>1. again' = again /\ turn'[f] = turn[f] + 1  BY <1>0, <2>1, <2>4
    <3>2. /\ Maxseq[f].req <= (turn[f] + 1) \div 2
          /\ Maxseq[f].rsp <= (turn[f] \div 2) + 1
          /\ Maxseq[f].req \in Nat /\ Maxseq[f].rsp \in Nat /\ turn[f] \in Nat
      BY <1>0 DEF SeqInv, GrowSteps
    <3>3. Number' = (turn[f] + 2) \div 2  BY <1>0, <2>1, <3>1 DEF Number
    <3>4. ASSUME mpc' = "req_test" PROVE Maxseq[f].req < Number'
      <4>1. PICK k \in 1 .. MaxReqs : turn[f] = 2 * k - 2  BY <1>0, <2>1, <3>1, <3>2, <3>4
      <4>2. (turn[f] + 1) \div 2 = k - 1 /\ (turn[f] + 2) \div 2 = k  BY <4>1, SMT
      <4> QED  BY <3>2, <3>3, <4>1, <4>2
    <3>5. ASSUME mpc' = "rsp_test" PROVE Maxseq[f].rsp < Number' + 1
      <4>1. PICK k \in 1 .. MaxReqs : turn[f] = 2 * k - 1  BY <1>0, <2>1, <3>1, <3>2, <3>5
      <4>2. turn[f] \div 2 = k - 1 /\ (turn[f] + 2) \div 2 = k  BY <4>1, SMT
      <4> QED  BY <3>2, <3>3, <4>1, <4>2
    <3> DEFINE n == (turn[f] + 2) \div 2
    <3>6. n \in Nat  BY <3>2, SMT
    <3> HIDE DEF n
    <3>7. Number' = n  BY <3>3 DEF n
    <3>8. /\ ~(mpc' = "req_test" /\ Maxseq'[mflow'].req >= Number')
          /\ ~(mpc' = "rsp_test" /\ Maxseq'[mflow'].rsp >= Number' + 1)
      BY <2>1, <2>2, <3>2, <3>4, <3>5, <3>6, <3>7
    <3> QED  BY <1>0, <2>1, <2>2, <3>1, <3>8 DEF RecountInv, GrowSteps
  <2> QED  BY <2>3, <2>4
<1>2. CASE OtherMonitor
  <2>1. UNCHANGED <<turn, again, mflow>> /\ Number' = Number
    <3>1. UNCHANGED <<turn, again, mflow>>  BY <1>2, WithinPacket
    <3> QED  BY <3>1 DEF Number
  <2>2. mflow \in Flows /\ Number \in 1 .. MaxReqs
    <3>1. mpc \in ReqSteps \cup RspSteps  BY <1>2, WithinPacket
    <3> QED  BY <1>0, <3>1, NumberFacts DEF PacketInv
  <2> HIDE DEF Number
  <2>3. Maxseq[mflow].req \in Nat /\ Maxseq[mflow].rsp \in Nat  BY <1>0, <2>2
  <2>4. CASE ReqTest
    BY <1>0, <2>1, <2>2, <2>3, <2>4 DEF RecountInv, GrowSteps, ReqTest, Monitor, MonitorStep,
                                        tableVars, recountVars
  <2>5. CASE ReqRecountLoad \/ RspRecountLoad
    BY <1>0, <2>1, <2>5
    DEF RecountInv, GrowSteps, ReqRecountLoad, RspRecountLoad, Load, Monitor, MonitorStep,
        tableVars, recountVars
  <2>6. CASE ReqRecountStore \/ RspRecountStore
    BY <1>0, <2>1, <2>6 DEF RecountInv, GrowSteps, ReqRecountStore, RspRecountStore, Monitor,
                            MonitorStep, tableVars
  <2>7. CASE RspTest
    <3>1. /\ mpc = "rsp_test" /\ mpc' \in {"idle", "grow_test"}
          /\ UNCHANGED <<Maxseq, req_recount, rsp_recount>>
      BY <2>7 DEF RspTest, Monitor, MonitorStep, tableVars, recountVars
    <3> QED  BY <1>0, <2>1, <3>1 DEF RecountInv, GrowSteps
  <2>8. CASE RspSeq
    BY <1>0, <2>1, <2>2, <2>3, <2>8 DEF RecountInv, GrowSteps, RspSeq, Monitor, MonitorStep,
                                        recountVars
  <2>9. CASE GrowTest \/ GrowThre \/ Grow
    <3>1. /\ mpc \in GrowSteps /\ mpc' \in GrowSteps \cup {"rsp_seq"}
          /\ UNCHANGED <<Maxseq, req_recount, rsp_recount>>
      BY <2>9 DEF GrowTest, GrowThre, Grow, Realloc, Monitor, MonitorStep, GrowSteps, tableVars, recountVars
    <3> QED  BY <1>0, <2>1, <3>1 DEF RecountInv, GrowSteps
  <2>10. CASE /\ ~ReqTest /\ ~ReqRecountLoad /\ ~ReqRecountStore /\ ~RspTest /\ ~RspSeq
              /\ ~RspRecountLoad /\ ~RspRecountStore /\ ~GrowTest /\ ~GrowThre /\ ~Grow
    <3>1. /\ UNCHANGED <<req_recount, rsp_recount>>
          /\ mpc' \notin {"req_test", "req_recount", "req_recount_store", "rsp_recount_store",
                          "rsp_test", "rsp_seq", "rsp_recount"} \cup GrowSteps
      BY <1>2, <2>10
      DEF OtherMonitor, ReqCount, ConnLoad, ConnStore, ReqSeq, ReqStamp, ReqPri, PriLoad, PriStore,
          PriWrite, IdxLoad, IdxStore, TimeWrite, Load, Monitor, MonitorStep, recountVars, GrowSteps
    <3> QED  BY <1>0, <2>1, <3>1 DEF RecountInv, GrowSteps
  <2> QED  BY <2>4, <2>5, <2>6, <2>7, <2>8, <2>9, <2>10
<1>3. CASE CdfLcore
  <2>1. UNCHANGED <<turn, again, mflow, mpc, mload>>  BY <1>3, CdfFrame
  <2>2. Number' = Number  BY <2>1 DEF Number
  <2>3. mpc \in {"req_test", "rsp_test", "rsp_seq"} \cup GrowSteps =>
          mflow \in Flows /\ Number \in 1 .. MaxReqs
    BY <1>0, NumberFacts DEF PacketInv, ReqSteps, RspSteps, GrowSteps
  <2> HIDE DEF Number
  <2>4. CASE RecountReset
    BY <1>0, <2>1, <2>2, <2>4 DEF RecountInv, GrowSteps, RecountReset, tableVars
  <2>5. CASE ClearSeqs
    <3>1. /\ \A f \in Flows : Maxseq'[f].req = 0 /\ Maxseq'[f].rsp = 0
          /\ UNCHANGED <<req_recount, rsp_recount>>
      BY <2>5 DEF ClearSeqs, NoEntry, recountVars
    <3> QED  BY <1>0, <2>1, <2>2, <2>3, <3>1 DEF RecountInv, GrowSteps
  <2>6. CASE ~RecountReset /\ ~ClearSeqs
    <3>1. UNCHANGED <<Maxseq, req_recount, rsp_recount>>
      BY <1>3, <2>6
      DEF CdfLcore, Wake, ConnReset, Snapshot, NothingToReport, CopyTime, CopyPri, IdxReset, Report,
          ClearCounts, PriReset, tableVars, recountVars
    <3> QED  BY <1>0, <2>1, <2>2, <3>1 DEF RecountInv, GrowSteps
  <2> QED  BY <2>4, <2>5, <2>6
<1> QED  BY <1>1, <1>2, <1>3, StepCases
-----------------------------------------------------------------------------
(* Room for the samples.                                                   *)

LEMMA BudgetFacts ==
  ASSUME NEW t \in [Flows -> 0 .. 2 * MaxReqs], NEW a \in 0 .. MaxAgain
  PROVE  /\ IsFiniteSet(ResponsesOf(t))
         /\ Cardinality(ResponsesOf(t)) \in Nat /\ MaxSamples \in Nat
         /\ Cardinality(ResponsesOf(t)) + a <= MaxSamples
<1>1. IsFiniteSet(1 .. MaxReqs) /\ Cardinality(1 .. MaxReqs) = MaxReqs
  <2>1. 1 \in Int /\ MaxReqs \in Int /\ 1 <= MaxReqs  BY Constants
  <2> QED  BY <2>1, FS_Interval, Constants
<1>2. /\ IsFiniteSet(Flows \X (1 .. MaxReqs))
      /\ Cardinality(Flows \X (1 .. MaxReqs)) = Cardinality(Flows) * MaxReqs
  BY <1>1, Constants, FS_Product
<1>3. ResponsesOf(t) \subseteq Flows \X (1 .. MaxReqs)
  <2>1. \A f \in Flows : t[f] \div 2 \in Nat /\ t[f] \div 2 <= MaxReqs  BY Constants, SMT
  <2>2. \A f \in Flows : 1 .. (t[f] \div 2) \subseteq 1 .. MaxReqs  BY <2>1, Constants
  <2> QED  BY <2>2 DEF ResponsesOf
<1>4. /\ IsFiniteSet(ResponsesOf(t))
      /\ Cardinality(ResponsesOf(t)) <= Cardinality(Flows \X (1 .. MaxReqs))
  BY <1>2, <1>3, FS_Subset
<1>5. Cardinality(Flows) \in Nat /\ Cardinality(ResponsesOf(t)) \in Nat
  BY <1>4, Constants, FS_CardinalityType
<1>6. Cardinality(Flows) * MaxReqs \in Nat  BY <1>5, Constants
<1> QED  BY <1>2, <1>4, <1>5, <1>6, Constants DEF MaxSamples

\* A response that is taken, new or again, has room for its sample.
LEMMA BudgetGrows ==
  ASSUME turn \in [Flows -> 0 .. 2 * MaxReqs], again \in 0 .. MaxAgain,
         NEW f \in Flows, Packet(f)
  PROVE  /\ Budget \in Nat /\ Budget' \in Nat /\ Budget <= Budget'
         /\ mpc' = "rsp_test" => Budget < Budget'
<1>1. /\ turn' \in [Flows -> 0 .. 2 * MaxReqs] /\ again' \in 0 .. MaxAgain
      /\ \/ turn[f] < 2 * MaxReqs /\ turn' = [turn EXCEPT ![f] = @ + 1] /\ again' = again
         \/ turn[f] > 0 /\ turn' = turn /\ again' = again + 1
      /\ mpc' \in {"req_test", "rsp_test"}
      /\ mpc' = "req_test" => \E k \in 1 .. MaxReqs : turn'[f] = 2 * k - 1
      /\ mpc' = "rsp_test" => \E k \in 1 .. MaxReqs : turn'[f] = 2 * k
  BY PacketTaken
<1> DEFINE R == ResponsesOf(turn)
           S == ResponsesOf(turn')
<1>2. /\ IsFiniteSet(R) /\ Cardinality(R) \in Nat
      /\ IsFiniteSet(S) /\ Cardinality(S) \in Nat
  BY <1>1, BudgetFacts
<1>3. again \in Nat /\ again' \in Nat  BY <1>1, Constants
<1>4. Budget = Cardinality(R) + again /\ Budget' = Cardinality(S) + again'  BY DEF Budget
<1>5. CASE turn' = turn /\ again' = again + 1
  <2>1. S = R  BY <1>5
  <2> HIDE DEF R, S
  <2> QED  BY <1>2, <1>3, <1>4, <1>5, <2>1
<1>6. CASE turn' = [turn EXCEPT ![f] = @ + 1] /\ again' = again
  <2>0. turn[f] \in Nat /\ turn'[f] = turn[f] + 1 /\ \A g \in Flows : g # f => turn'[g] = turn[g]
    BY <1>6, Constants
  <2>1. CASE mpc' = "req_test"
    <3>1. PICK k \in 1 .. MaxReqs : turn[f] = 2 * k - 2  BY <1>1, <2>0, <2>1, Constants
    <3>2. turn[f] \div 2 = k - 1 /\ turn'[f] \div 2 = k - 1  BY <2>0, <3>1, SMT
    <3>3. \A g \in Flows : turn'[g] \div 2 = turn[g] \div 2  BY <2>0, <3>2
    <3>4. S = R  BY <3>3 DEF ResponsesOf
    <3> HIDE DEF R, S
    <3> QED  BY <1>2, <1>3, <1>4, <1>6, <2>1, <3>4
  <2>2. CASE mpc' = "rsp_test"
    <3>1. PICK k \in 1 .. MaxReqs : turn[f] = 2 * k - 1  BY <1>1, <2>0, <2>2, Constants
    <3>2. turn[f] \div 2 = k - 1 /\ turn'[f] \div 2 = k  BY <2>0, <3>1, SMT
    <3>3. 1 .. k = (1 .. (k - 1)) \cup {k} /\ k \notin 1 .. (k - 1)  BY Constants
    <3>4. S = R \cup {<<f, k>>}  BY <2>0, <3>2, <3>3 DEF ResponsesOf
    <3>5. <<f, k>> \notin R  BY <3>2, <3>3 DEF ResponsesOf
    <3> HIDE DEF R, S
    <3>6. Cardinality(S) = Cardinality(R) + 1  BY <1>2, <3>4, <3>5, FS_AddElement
    <3> QED  BY <1>2, <1>3, <1>4, <1>6, <2>2, <3>6
  <2> QED  BY <1>1, <2>1, <2>2
<1> QED  BY <1>1, <1>5, <1>6

LEMMA RoomStep ==
  ASSUME TypeOK, PacketInv, RoomInv, Next
  PROVE  RoomInv' /\ idx_hy' \in Nat /\ idx' \in Nat
<1>0. /\ turn \in [Flows -> 0 .. 2 * MaxReqs] /\ again \in 0 .. MaxAgain
      /\ idx_hy \in Nat /\ idx \in Nat /\ mload \in Nat
  BY BudgetFacts DEF TypeOK
<1>1. Budget \in Nat
  <2>1. Cardinality(ResponsesOf(turn)) \in Nat  BY <1>0, BudgetFacts
  <2> QED  BY <1>0, <2>1, Constants DEF Budget
<1>2. ASSUME NEW f \in Flows, Packet(f) PROVE RoomInv' /\ idx_hy' \in Nat /\ idx' \in Nat
  <2>1. /\ Budget' \in Nat /\ Budget <= Budget'
        /\ mpc' = "rsp_test" => Budget < Budget'
        /\ mpc' \in {"req_test", "rsp_test"}
    BY <1>0, <1>2, BudgetGrows, PacketTaken
  <2>2. UNCHANGED <<idx_hy, idx>>  BY <1>2 DEF Packet, Monitor, MonitorStep, sampleVars
  <2> HIDE DEF Budget
  <2> QED  BY <1>0, <1>1, <2>1, <2>2 DEF RoomInv, GrowSteps
<1>3. CASE OtherMonitor
  <2>1. Budget' = Budget
    <3>1. UNCHANGED <<turn, again>>  BY <1>3, WithinPacket
    <3> QED  BY <3>1 DEF Budget
  <2> HIDE DEF Budget
  <2>2. CASE IdxLoad
    BY <1>0, <1>1, <2>1, <2>2 DEF RoomInv, GrowSteps, IdxLoad, Load, Monitor, MonitorStep,
                                  sampleVars
  <2>3. CASE IdxStore
    BY <1>0, <1>1, <2>1, <2>3 DEF RoomInv, GrowSteps, IdxStore, Monitor, MonitorStep, register
  <2>4. CASE ~IdxLoad /\ ~IdxStore
    <3>1. /\ UNCHANGED <<idx_hy, idx>> /\ mpc' \notin {"idx_store", "time_write"}
          /\ mpc' \in {"rsp_test", "rsp_seq", "rsp_pri", "rsp_pri_store", "pri_write", "idx"} \cup GrowSteps =>
               mpc \in {"rsp_test", "rsp_seq", "rsp_pri", "rsp_pri_store", "pri_write", "idx"} \cup GrowSteps
      BY <1>3, <2>4
      DEF OtherMonitor, ReqTest, ReqCount, ConnLoad, ConnStore, ReqSeq, ReqStamp, ReqRecountLoad,
          ReqRecountStore, ReqPri, RspTest, GrowTest, GrowThre, Grow, Realloc, RspSeq,
          RspRecountLoad, RspRecountStore, PriLoad, PriStore, PriWrite, TimeWrite, Load, Monitor,
          MonitorStep, GrowSteps, sampleVars
    <3> QED  BY <1>0, <1>1, <2>1, <3>1 DEF RoomInv, GrowSteps
  <2> QED  BY <2>2, <2>3, <2>4
<1>4. CASE CdfLcore
  <2>1. UNCHANGED <<turn, again, mpc, mload>>  BY <1>4, CdfFrame
  <2>2. Budget' = Budget  BY <2>1 DEF Budget
  <2> HIDE DEF Budget
  <2>3. idx_hy' \in {idx_hy, 0} /\ idx' \in {idx, idx_hy}
    BY <1>4
    DEF CdfLcore, Wake, ConnReset, Snapshot, NothingToReport, CopyTime, CopyPri, IdxReset, Report,
        RecountReset, ClearCounts, ClearSeqs, PriReset, sampleVars
  <2> QED  BY <1>0, <1>1, <2>1, <2>2, <2>3 DEF RoomInv, GrowSteps
<1> QED  BY <1>2, <1>3, <1>4, StepCases
-----------------------------------------------------------------------------
(* Types.                                                                  *)

LEMMA CountBelow ==
  ASSUME NEW n \in Nat, NEW S \in SUBSET (0 .. n - 1)
  PROVE  IsFiniteSet(S) /\ Cardinality(S) \in Nat /\ Cardinality(S) <= n
<1>1. IsFiniteSet(0 .. n - 1) /\ Cardinality(0 .. n - 1) = n
  <2>1. CASE n = 0
    <3>1. 0 .. n - 1 = {}  BY <2>1
    <3> QED  BY <2>1, <3>1, FS_EmptySet
  <2>2. CASE n > 0
    <3>1. 0 \in Int /\ n - 1 \in Int /\ 0 <= n - 1 /\ n - 1 - 0 + 1 = n  BY <2>2
    <3> QED  BY <2>2, <3>1, FS_Interval
  <2> QED  BY <2>1, <2>2
<1>2. IsFiniteSet(S) /\ Cardinality(S) <= n  BY <1>1, FS_Subset
<1> QED  BY <1>2, FS_CardinalityType

\* Only a growth changes the sizes of the sample arrays.
LEMMA BuffersStill ==
  ASSUME MonitorLcore, ~GrowThre, ~Grow
  PROVE  UNCHANGED <<thre, size>>
<1>1. \E pc, next : Monitor(pc, next)
  BY Zenon
  DEF MonitorLcore, Packet, ReqTest, ReqCount, ConnLoad, ConnStore, ReqSeq, ReqStamp,
      ReqRecountLoad, ReqRecountStore, ReqPri, RspTest, GrowTest, RspSeq, RspRecountLoad,
      RspRecountStore, PriLoad, PriStore, PriWrite, IdxLoad, IdxStore, TimeWrite, Load
<1> QED  BY <1>1 DEF Monitor, bufferVars

CountTypes ==
  /\ {idx_pri_high, idx_pri_low, conn_active_hy, conn, ph_size, pl_size, high, low} \subseteq Nat
  /\ {req_recount, rsp_recount, idx_hy, mload} \subseteq Nat /\ mhigh \in BOOLEAN
BufferTypes ==
  /\ {time, time_hy} \subseteq [Indices -> Sample \cup {NoSample}]
  /\ {pri, pri_hy} \subseteq [Indices -> {0, 1}]
  /\ recorded \subseteq Sample
FlagTypes ==
  /\ req_hy_count \in [Flows -> [count : {0, 1}, pri : {-1, 0, 1}]]
  /\ active \subseteq Flows /\ reported \in [Sample -> Nat]

LEMMA CountStep ==
  ASSUME CountTypes, idx \in Nat, Next
  PROVE  CountTypes'
<1>1. CASE MonitorLcore
  <2>1. mhigh' \in BOOLEAN
    BY <1>1
    DEF CountTypes, MonitorLcore, Packet, ReqTest, ReqCount, ConnLoad, ConnStore, ReqSeq, ReqStamp,
        ReqRecountLoad, ReqRecountStore, ReqPri, RspTest, GrowTest, GrowThre, Grow, Realloc, RspSeq,
        RspRecountLoad, RspRecountStore, PriLoad, PriStore, PriWrite, IdxLoad, IdxStore, TimeWrite,
        Load, register
  <2>2. UNCHANGED <<conn, ph_size, pl_size, high, low>>
    <3>1. \E pc, next : MonitorStep(pc, next)
      BY <1>1, Zenon
      DEF MonitorLcore, Packet, ReqTest, ReqCount, ConnLoad, ConnStore, ReqSeq, ReqStamp,
          ReqRecountLoad, ReqRecountStore, ReqPri, RspTest, GrowTest, GrowThre, Grow, Realloc,
          RspSeq, RspRecountLoad, RspRecountStore, PriLoad, PriStore, PriWrite, IdxLoad, IdxStore,
          TimeWrite, Load, Monitor
    <3> QED  BY <3>1 DEF Monitor, MonitorStep, reportVars
  <2>3. mload' \in {mload, conn_active_hy, req_recount, rsp_recount, idx_hy, idx_pri_high, idx_pri_low}
    BY <1>1
    DEF MonitorLcore, Packet, ReqTest, ReqCount, ConnLoad, ConnStore, ReqSeq, ReqStamp,
        ReqRecountLoad, ReqRecountStore, ReqPri, RspTest, GrowTest, GrowThre, Grow, Realloc, RspSeq,
        RspRecountLoad, RspRecountStore, PriLoad, PriStore, PriWrite, IdxLoad, IdxStore, TimeWrite,
        Load, register
  <2>4. /\ conn_active_hy' \in {conn_active_hy, mload + 1}
        /\ req_recount' \in {req_recount, mload + 1} /\ rsp_recount' \in {rsp_recount, mload + 1}
    BY <1>1
    DEF MonitorLcore, Packet, ReqTest, ReqCount, ConnLoad, ConnStore, ReqSeq, ReqStamp,
        ReqRecountLoad, ReqRecountStore, ReqPri, RspTest, GrowTest, GrowThre, Grow, Realloc, RspSeq,
        RspRecountLoad, RspRecountStore, PriLoad, PriStore, PriWrite, IdxLoad, IdxStore, TimeWrite,
        Load, recountVars
  <2>5. /\ idx_pri_high' \in {idx_pri_high, mload + 1} /\ idx_pri_low' \in {idx_pri_low, mload + 1}
        /\ idx_hy' \in {idx_hy, mload + 1}
    BY <1>1
    DEF MonitorLcore, Packet, ReqTest, ReqCount, ConnLoad, ConnStore, ReqSeq, ReqStamp,
        ReqRecountLoad, ReqRecountStore, ReqPri, RspTest, GrowTest, GrowThre, Grow, Realloc, RspSeq,
        RspRecountLoad, RspRecountStore, PriLoad, PriStore, PriWrite, IdxLoad, IdxStore, TimeWrite,
        Load, priVars, sampleVars
  <2> QED  BY <2>1, <2>2, <2>3, <2>4, <2>5 DEF CountTypes
<1>2. CASE CdfLcore
  <2>1. UNCHANGED <<mload, mhigh>>  BY <1>2, CdfFrame
  <2>2. CASE Report
    <3>1. /\ ph_size' \in {ph_size, idx_pri_high + 1} /\ pl_size' \in {pl_size, idx_pri_low + 1}
          /\ UNCHANGED <<idx_pri_high, idx_pri_low, conn_active_hy, conn, req_recount, rsp_recount, idx_hy>>
      BY <2>2 DEF Report, Resized, priVars, recountVars, sampleVars
    <3>2. high' = Cardinality({i \in 0 .. idx - 1 : pri_hy[i] # 0}) /\ low' = idx - high'
      BY <2>2 DEF Report
    <3> DEFINE S == {i \in 0 .. idx - 1 : pri_hy[i] # 0}
    <3>3. S \in SUBSET (0 .. idx - 1)  OBVIOUS
    <3> HIDE DEF S
    <3>4. Cardinality(S) \in Nat /\ Cardinality(S) <= idx  BY <3>3, CountBelow
    <3>5. high' \in Nat /\ low' \in Nat  BY <3>2, <3>4 DEF S
    <3> QED  BY <2>1, <3>1, <3>5 DEF CountTypes
  <2>3. CASE ~Report
    <3>1. /\ UNCHANGED <<ph_size, pl_size>> /\ high' \in {high, 0} /\ low' \in {low, 0}
          /\ conn' \in {conn, conn_active_hy}
      BY <1>2, <2>3
      DEF CdfLcore, Wake, ConnReset, Snapshot, NothingToReport, CopyTime, CopyPri, IdxReset,
          RecountReset, ClearCounts, ClearSeqs, PriReset, reportVars
    <3>2. /\ conn_active_hy' \in {conn_active_hy, 0} /\ idx_hy' \in {idx_hy, 0}
          /\ idx_pri_high' \in {idx_pri_high, 0} /\ idx_pri_low' \in {idx_pri_low, 0}
          /\ req_recount' \in {req_recount, 0} /\ rsp_recount' \in {rsp_recount, 0}
      BY <1>2, <2>3
      DEF CdfLcore, Wake, ConnReset, Snapshot, NothingToReport, CopyTime, CopyPri, IdxReset,
          RecountReset, ClearCounts, ClearSeqs, PriReset, sampleVars, priVars, recountVars
    <3> QED  BY <2>1, <3>1, <3>2 DEF CountTypes
  <2> QED  BY <2>2, <2>3
<1> QED  BY <1>1, <1>2 DEF Next

LEMMA BufferStep ==
  ASSUME TypeOK, PacketInv, BufferTypes, Next
  PROVE  BufferTypes'
<1>1. CASE TimeWrite
  <2> DEFINE sample == [flow |-> mflow, req |-> Number, from |-> req_out_if[mflow]]
  <2>1. sample \in Sample
    <3>1. mflow \in Flows /\ Number \in 1 .. MaxReqs /\ req_out_if[mflow] \in 0 .. MaxReqs
      BY <1>1, NumberFacts DEF TypeOK, PacketInv, TimeWrite, Monitor, MonitorStep, RspSteps,
                               NewSteps
    <3> QED  BY <3>1 DEF Sample
  <2>2. /\ time' = [time EXCEPT ![mload] = sample] /\ recorded' = recorded \cup {sample}
        /\ UNCHANGED <<pri, time_hy, pri_hy>>
    BY <1>1 DEF TimeWrite, Monitor, MonitorStep, copyVars
  <2> HIDE DEF sample
  <2> QED  BY <2>1, <2>2 DEF BufferTypes
<1>2. CASE PriWrite
  BY <1>2 DEF BufferTypes, PriWrite, Monitor, MonitorStep, copyVars
<1>3. CASE CopyTime \/ CopyPri
  BY <1>3 DEF BufferTypes, CopyTime, Copied, CopyPri, sampleVars
<1>4. CASE ClearSeqs
  BY <1>4 DEF BufferTypes, ClearSeqs, sampleVars
<1>5. CASE ~TimeWrite /\ ~PriWrite /\ ~CopyTime /\ ~CopyPri /\ ~ClearSeqs
  <2>1. CASE MonitorLcore
    <3>1. UNCHANGED <<time, pri, recorded, time_hy, pri_hy>>
      BY <1>5, <2>1
      DEF MonitorLcore, Packet, ReqTest, ReqCount, ConnLoad, ConnStore, ReqSeq, ReqStamp,
          ReqRecountLoad, ReqRecountStore, ReqPri, RspTest, GrowTest, GrowThre, Grow, Realloc,
          RspSeq, RspRecountLoad, RspRecountStore, PriLoad, PriStore, IdxLoad, IdxStore, Load,
          Monitor, MonitorStep, sampleVars, copyVars
    <3> QED  BY <3>1 DEF BufferTypes
  <2>2. CASE CdfLcore
    <3>1. UNCHANGED <<time, pri, recorded, time_hy, pri_hy>>
      BY <1>5, <2>2
      DEF CdfLcore, Wake, ConnReset, Snapshot, NothingToReport, IdxReset, Report, RecountReset,
          ClearCounts, PriReset, sampleVars, copyVars
    <3> QED  BY <3>1 DEF BufferTypes
  <2> QED  BY <2>1, <2>2 DEF Next
<1> QED  BY <1>1, <1>2, <1>3, <1>4, <1>5

LEMMA FlagStep ==
  ASSUME TypeOK, PacketInv, FlagTypes, Next
  PROVE  FlagTypes'
<1>1. CASE ReqCount \/ ReqPri
  <2>1. mflow \in Flows  BY <1>1 DEF PacketInv, ReqCount, ReqPri, Monitor, MonitorStep, ReqSteps
  <2> QED  BY <1>1, <2>1 DEF FlagTypes, ReqCount, ReqPri, Monitor, MonitorStep, packet, reportVars
<1>2. CASE ClearCounts  BY <1>2 DEF FlagTypes, ClearCounts, reportVars
<1>3. CASE Report
  <2>1. ASSUME NEW s \in Sample
        PROVE  Cardinality({i \in 0 .. idx - 1 : time_hy[i] = s}) \in Nat
    <3> DEFINE S == {i \in 0 .. idx - 1 : time_hy[i] = s}
    <3>1. S \in SUBSET (0 .. idx - 1) /\ idx \in Nat
      BY BudgetFacts DEF TypeOK
    <3> HIDE DEF S
    <3>2. Cardinality(S) \in Nat  BY <3>1, CountBelow
    <3> QED  BY <3>2 DEF S
  <2>2. reported' \in [Sample -> Nat]  BY <1>3, <2>1 DEF FlagTypes, Report
  <2> QED  BY <1>3, <2>2 DEF FlagTypes, Report, tableVars
<1>4. CASE ConnReset  BY <1>4 DEF FlagTypes, ConnReset, tableVars, reportVars
<1>5. ASSUME NEW f \in Flows, Packet(f) PROVE FlagTypes'
  <2>1. active' \subseteq Flows /\ UNCHANGED <<req_hy_count, reported>>
    BY <1>5 DEF FlagTypes, Packet, Monitor, MonitorStep, tableVars, reportVars
  <2> QED  BY <2>1 DEF FlagTypes
<1>6. CASE /\ ~ReqCount /\ ~ReqPri /\ ~ClearCounts /\ ~Report /\ ~ConnReset
           /\ \A f \in Flows : ~Packet(f)
  <2>1. CASE MonitorLcore
    <3>1. UNCHANGED <<req_hy_count, active, reported>>
      BY <1>6, <2>1
      DEF MonitorLcore, ReqTest, ConnLoad, ConnStore, ReqSeq, ReqStamp, ReqRecountLoad,
          ReqRecountStore, RspTest, GrowTest, GrowThre, Grow, Realloc, RspSeq, RspRecountLoad,
          RspRecountStore, PriLoad, PriStore, PriWrite, IdxLoad, IdxStore, TimeWrite, Load, Monitor,
          MonitorStep, packet, tableVars, reportVars
    <3> QED  BY <3>1 DEF FlagTypes
  <2>2. CASE CdfLcore
    <3>1. UNCHANGED <<req_hy_count, active, reported>>
      BY <1>6, <2>2
      DEF CdfLcore, Wake, Snapshot, NothingToReport, CopyTime, CopyPri, IdxReset, RecountReset,
          ClearSeqs, PriReset, tableVars, reportVars
    <3> QED  BY <3>1 DEF FlagTypes
  <2> QED  BY <2>1, <2>2 DEF Next
<1> QED  BY <1>1, <1>2, <1>3, <1>4, <1>5, <1>6
GrowTypes ==
  /\ CAT_BUFF \in Nat /\ thre \in Nat /\ size \in [Arrays -> Nat] /\ outside \in BOOLEAN

LEMMA GrowTypesStep ==
  ASSUME GrowTypes, idx_hy \in Nat, Next
  PROVE  GrowTypes'
<1>1. ASSUME NEW pc, NEW next, MonitorStep(pc, next)
      PROVE  CAT_BUFF' = CAT_BUFF /\ outside' \in BOOLEAN
  BY <1>1, Zenon DEF MonitorStep
<1>2. ASSUME NEW pc, NEW next, Cdf(pc, next)
      PROVE  UNCHANGED <<CAT_BUFF, thre, size>> /\ outside' \in BOOLEAN
  <2>1. UNCHANGED <<CAT_BUFF, thre, size>>  BY <1>2 DEF Cdf, bufferVars
  <2>2. outside' \in BOOLEAN  BY <1>2, Zenon DEF Cdf
  <2> QED  BY <2>1, <2>2
<1>3. CASE MonitorLcore
  <2>1. CAT_BUFF' = CAT_BUFF /\ outside' \in BOOLEAN
    <3>1. \E pc, next : MonitorStep(pc, next)
      BY <1>3, Zenon
      DEF MonitorLcore, Packet, ReqTest, ReqCount, ConnLoad, ConnStore, ReqSeq, ReqStamp,
          ReqRecountLoad, ReqRecountStore, ReqPri, RspTest, GrowTest, GrowThre, Grow, Realloc,
          RspSeq, RspRecountLoad, RspRecountStore, PriLoad, PriStore, PriWrite, IdxLoad, IdxStore,
          TimeWrite, Load, Monitor
    <3> QED  BY <1>1, <3>1, Zenon
  <2>2. thre' \in Nat /\ size' \in [Arrays -> Nat]
    <3>1. CASE GrowThre  BY <3>1 DEF GrowTypes, GrowThre
    <3>2. CASE Grow  BY <3>2 DEF GrowTypes, Grow, Realloc, Arrays
    <3>3. CASE ~GrowThre /\ ~Grow  BY <1>3, <3>3, BuffersStill DEF GrowTypes
    <3> QED  BY <3>1, <3>2, <3>3
  <2> QED  BY <2>1, <2>2 DEF GrowTypes
<1>4. CASE CdfLcore
  <2>1. \E pc, next : Cdf(pc, next)
    BY <1>4, Zenon
    DEF CdfLcore, Wake, ConnReset, Snapshot, NothingToReport, CopyTime, CopyPri, IdxReset, Report,
        RecountReset, ClearCounts, ClearSeqs, PriReset
  <2>2. UNCHANGED <<CAT_BUFF, thre, size>> /\ outside' \in BOOLEAN  BY <1>2, <2>1, Zenon
  <2> QED  BY <2>2 DEF GrowTypes
<1> QED  BY <1>3, <1>4 DEF Next
-----------------------------------------------------------------------------
LEMMA TypeStep ==
  ASSUME TypeInv, [Next]_vars
  PROVE  TypeInv'
<1>0. TypeOK /\ PacketInv /\ RoomInv /\ SeqInv /\ RecountInv  BY DEF TypeInv
<1>1. CASE Next
  <2>1. PacketInv' /\ turn' \in [Flows -> 0 .. 2 * MaxReqs] /\ again' \in 0 .. MaxAgain
    BY <1>0, <1>1, PacketStep
  <2>2. SeqInv'  BY <1>0, <1>1, SeqStep
  <2>3. RecountInv' /\ req_recount' \in Nat /\ rsp_recount' \in Nat  BY <1>0, <1>1, RecountStep
  <2>4. RoomInv' /\ idx_hy' \in Nat /\ idx' \in Nat  BY <1>0, <1>1, RoomStep
  <2>5. TableTypes'  BY <1>0, <1>1, TableStep DEF TableTypes, TypeOK
  <2>6. idx \in Nat /\ {req_recount, rsp_recount, idx_hy} \subseteq Nat
    <3>1. turn \in [Flows -> 0 .. 2 * MaxReqs] /\ again \in 0 .. MaxAgain  BY <1>0 DEF TypeOK
    <3>2. MaxSamples \in Nat  BY <3>1, BudgetFacts
    <3> QED  BY <1>0, <3>2, Constants DEF TypeOK
  <2>7. CountTypes  BY <1>0, <2>6 DEF TypeOK, CountTypes
  <2>8. CountTypes'  BY <1>1, <2>6, <2>7, CountStep
  <2>9. BufferTypes'  BY <1>0, <1>1, BufferStep DEF BufferTypes, TypeOK
  <2>10. FlagTypes'  BY <1>0, <1>1, FlagStep DEF FlagTypes, TypeOK
  <2>11. {idx', idx_hy'} \subseteq 0 .. MaxSamples
    <3>1. Budget' \in Nat /\ Budget' <= MaxSamples /\ MaxSamples \in Nat
      <4>1. /\ Cardinality(ResponsesOf(turn')) + again' <= MaxSamples /\ MaxSamples \in Nat
            /\ Cardinality(ResponsesOf(turn')) \in Nat
        BY <2>1, BudgetFacts
      <4> QED  BY <2>1, <4>1, Constants DEF Budget
    <3> HIDE DEF Budget
    <3> QED  BY <2>4, <3>1 DEF RoomInv, GrowSteps
  <2>12. mflow' \in Flows \cup {NoFlow} /\ (mpc' # "idle" => mflow' \in Flows)
    <3>1. mpc' # "idle" => mflow' \in Flows  BY <2>1 DEF PacketInv
    <3>2. mflow' \in Flows \cup {NoFlow}
      <4>1. CASE \E f \in Flows : Packet(f)  BY <4>1 DEF Packet
      <4>2. CASE OtherMonitor  BY <1>0, <4>2, WithinPacket DEF TypeOK
      <4>3. CASE CdfLcore  BY <1>0, <4>3, CdfFrame DEF TypeOK
      <4> QED  BY <1>1, <4>1, <4>2, <4>3, StepCases
    <3> QED  BY <3>1, <3>2
  <2>13. {req_recount', rsp_recount'} \subseteq 0 .. MaxAgain
    BY <2>1, <2>3, Constants DEF RecountInv, GrowSteps
  <2>14. GrowTypes'  BY <1>0, <1>1, <2>6, GrowTypesStep DEF GrowTypes, TypeOK
  <2>15. TypeOK'
    BY <2>1, <2>5, <2>8, <2>9, <2>10, <2>11, <2>12, <2>13, <2>14
    DEF TypeOK, TableTypes, CountTypes, BufferTypes, FlagTypes, GrowTypes
  <2> QED  BY <2>1, <2>2, <2>3, <2>4, <2>15 DEF TypeInv
<1>2. CASE UNCHANGED vars
  <2>1. TypeOK'
    BY <1>0, <1>2
    DEF TypeOK, vars, packet, register, tableVars, sampleVars, priVars, recountVars, copyVars,
        bufferVars, reportVars
  <2>2. PacketInv' /\ RoomInv'
    BY <1>0, <1>2 DEF PacketInv, RoomInv, GrowSteps, Budget, vars, packet, register, sampleVars
  <2>3. Number' = Number  BY <1>2 DEF Number, vars, packet
  <2> HIDE DEF Number
  <2>4. SeqInv' /\ RecountInv'
    BY <1>0, <1>2, <2>3 DEF SeqInv, GrowSteps, RecountInv, vars, packet, register, tableVars,
                            recountVars
  <2> QED  BY <2>1, <2>2, <2>4 DEF TypeInv
<1> QED  BY <1>1, <1>2

LEMMA TypeInit == Init => TypeInv
<1> SUFFICES ASSUME Init PROVE TypeInv
  OBVIOUS
<1>1. turn = [f \in Flows |-> 0] /\ turn \in [Flows -> 0 .. 2 * MaxReqs] /\ again \in 0 .. MaxAgain
  BY Constants DEF Init
<1>2. /\ Cardinality(ResponsesOf(turn)) \in Nat /\ MaxSamples \in Nat /\ again = 0
  BY <1>1, BudgetFacts DEF Init
<1>3. Maxseq \in [Flows -> [req : 0 .. MaxReqs, len : {0, 1}, rsp : 0 .. MaxReqs + 1]]
  BY Constants DEF Init, NoEntry
<1>4. TypeOK
  <2>1. TableTypes  BY <1>3, Constants DEF Init, TableTypes
  <2>2. CountTypes
    <3>1. /\ idx_pri_high = 0 /\ idx_pri_low = 0 /\ conn_active_hy = 0 /\ conn = 0
          /\ ph_size = HighSize /\ pl_size = LowSize /\ high = 0 /\ low = 0
          /\ req_recount = 0 /\ rsp_recount = 0 /\ idx_hy = 0 /\ mload = 0
      BY DEF Init
    <3>2. mhigh \in BOOLEAN  BY Zenon DEF Init
    <3> QED  BY <3>1, <3>2, Constants DEF CountTypes
  <2>3. BufferTypes  BY DEF Init, BufferTypes
  <2>4. FlagTypes  BY DEF Init, FlagTypes
  <2>5. {idx, idx_hy} \subseteq 0 .. MaxSamples /\ {req_recount, rsp_recount} \subseteq 0 .. MaxAgain
    BY <1>2, Constants DEF Init
  <2>6. mflow = NoFlow /\ mpc = "idle"  BY DEF Init
  <2>7. GrowTypes  BY Constants DEF Init, GrowTypes
  <2> QED
    BY <1>1, <2>1, <2>2, <2>3, <2>4, <2>5, <2>6, <2>7
    DEF TypeOK, TableTypes, CountTypes, BufferTypes, FlagTypes, GrowTypes
<1>5. PacketInv /\ RoomInv
  BY <1>1, <1>2 DEF Init, PacketInv, RoomInv, GrowSteps, Budget, ReqSteps, RspSteps, NewSteps
<1>6. \A f \in Flows : Maxseq[f].req = 0 /\ Maxseq[f].rsp = 0  BY DEF Init, NoEntry
<1>7. \A f \in Flows : 0 <= (turn[f] + 1) \div 2 /\ 0 <= (turn[f] \div 2) + 1  BY <1>1, SMT
<1>8. SeqInv  BY <1>6, <1>7 DEF Init, SeqInv, GrowSteps, NewSteps
<1>9. RecountInv  BY DEF Init, RecountInv, GrowSteps
<1> QED  BY <1>4, <1>5, <1>8, <1>9 DEF TypeInv

LEMMA TypesAlways == Spec => []TypeInv
  BY TypeInit, TypeStep, PTL DEF Spec

\* The samples of an interval fit the buffer that is as large as the responses
\* captured, and no more packets are counted as retransmissions than copies
\* were captured, whatever the two lcores load and store in between.
THEOREM ReportTypes == Spec => []TypeOK
<1>1. TypeInv => TypeOK  BY DEF TypeInv
<1> QED  BY TypesAlways, <1>1, PTL
-----------------------------------------------------------------------------
(* The time stamps of the samples.                                         *)

\* What the invariants say of the types, for the proofs below.
LEMMA Known ==
  ASSUME TypeInv
  PROVE  /\ turn \in [Flows -> 0 .. 2 * MaxReqs] /\ again \in 0 .. MaxAgain
         /\ TableTypes /\ CountTypes /\ BufferTypes /\ FlagTypes /\ GrowTypes
         /\ idx \in 0 .. MaxSamples /\ idx_hy \in 0 .. MaxSamples /\ MaxSamples \in Nat
         /\ mpc \in {"pri_write", "idx"} => idx_hy \in Indices
         /\ mpc \in {"idx_store", "time_write"} => mload \in Indices
<1>1. /\ turn \in [Flows -> 0 .. 2 * MaxReqs] /\ again \in 0 .. MaxAgain
      /\ idx \in 0 .. MaxSamples /\ idx_hy \in 0 .. MaxSamples /\ mload \in Nat
  BY DEF TypeInv, TypeOK
<1>2. /\ Cardinality(ResponsesOf(turn)) \in Nat /\ MaxSamples \in Nat
      /\ Cardinality(ResponsesOf(turn)) + again <= MaxSamples
  BY <1>1, BudgetFacts
<1>3. Budget \in Nat /\ Budget <= MaxSamples  BY <1>1, <1>2, Constants DEF Budget
<1>4. {req_recount, rsp_recount, idx_hy} \subseteq Nat  BY <1>2, Constants DEF TypeInv, TypeOK
<1>5. TableTypes /\ CountTypes /\ BufferTypes /\ FlagTypes /\ GrowTypes
  BY <1>4 DEF TypeInv, TypeOK, TableTypes, CountTypes, BufferTypes, FlagTypes, GrowTypes
<1> HIDE DEF Budget
<1>6. /\ mpc \in {"pri_write", "idx"} => idx_hy \in Indices
      /\ mpc \in {"idx_store", "time_write"} => mload \in Indices
  BY <1>1, <1>2, <1>3 DEF TypeInv, RoomInv, GrowSteps, Indices
<1> QED  BY <1>1, <1>2, <1>5, <1>6

\* Only TimeWrite records a sample.
LEMMA Recording ==
  ASSUME [Next]_vars, ~TimeWrite
  PROVE  UNCHANGED <<time, recorded>>
  BY DEF Next, MonitorLcore, Packet, ReqTest, ReqCount, ConnLoad, ConnStore, ReqSeq, ReqStamp,
         ReqRecountLoad, ReqRecountStore, ReqPri, RspTest, GrowTest, GrowThre, Grow, Realloc,
         RspSeq, RspRecountLoad, RspRecountStore, PriLoad, PriStore, PriWrite, IdxLoad, IdxStore,
         Load, CdfLcore, Wake, ConnReset, Snapshot, NothingToReport, CopyTime, CopyPri, IdxReset,
         Report, RecountReset, ClearCounts, ClearSeqs, PriReset, sampleVars, vars

\* A response is never paired with another request's time stamp, although the
\* sequence numbers are cleared in the middle of a packet's handling.
THEOREM PairsOwnRequest == Spec => []SamplesPairOwnRequest
<1>1. Init => SamplesPairOwnRequest  BY DEF Init, SamplesPairOwnRequest
<1>2. TypeInv /\ SamplesPairOwnRequest /\ [Next]_vars => SamplesPairOwnRequest'
  <2> SUFFICES ASSUME TypeInv, SamplesPairOwnRequest, [Next]_vars
               PROVE  SamplesPairOwnRequest'
    OBVIOUS
  <2>1. CASE TimeWrite
    <3>1. req_out_if[mflow] = Number
      BY <2>1 DEF TypeInv, SeqInv, GrowSteps, NewSteps, TimeWrite, Monitor, MonitorStep
    <3> QED  BY <2>1, <3>1 DEF SamplesPairOwnRequest, TimeWrite
  <2>2. CASE ~TimeWrite  BY <2>2, Recording DEF SamplesPairOwnRequest
  <2> QED  BY <2>1, <2>2
<1> QED  BY TypesAlways, <1>1, <1>2, PTL DEF Spec
-----------------------------------------------------------------------------
(* The report's arrays.                                                    *)

HighIn(p, n) == {i \in 0 .. n - 1 : p[i] # 0}
Alone == NewSteps \ {"rsp_pri"}

\* Between two growths the arrays have thre elements, and one sample too many
\* at most; where the next one goes was tested, or a growth made room for it.
\* In a growth each array has its old size, one too few at most, or the new one.
GrowInv ==
  /\ mpc \notin Arrays => (\A a \in Arrays : size[a] = thre) /\ idx_hy <= thre + 1
  /\ mpc \in {"rsp_seq", "rsp_pri", "rsp_pri_store", "pri_write", "idx"} => idx_hy <= thre
  /\ mpc = "idx_store" => mload <= thre
  /\ mpc \in Arrays => idx_hy <= thre /\ \A a \in Arrays : idx_hy <= size[a] + 1
  /\ mpc \in {"pri", "time_hy", "pri_hy"} => size["time"] = thre
  /\ mpc \in {"time_hy", "pri_hy"} => size["pri"] = thre
  /\ mpc = "pri_hy" => size["time_hy"] = thre

\* What is copied and reported fits the copy but for one sample, as long as
\* nothing is recorded and nothing grows beside it.
FitsInv ==
  /\ mpc \in Alone \cup Arrays => cpc = "sleep"
  /\ cpc \in CopySteps \cup {"report", "recount_reset", "clear_count"} => idx <= size["time_hy"] + 1

\* Samples arrive while the CDF lcore copies, and none goes.
SnapInv == cpc \in CopySteps => idx <= idx_hy

\* What holds as long as no sample is recorded while the CDF lcore works, and
\* nothing was written where it may vanish: the
\* monitor is alone with its counters, which are one ahead of idx_hy while it
\* records; what is copied is what they count, and clear() finds no sample.
AloneInv == mpc \in Alone => cpc = "sleep"
CopiedInv ==
  /\ cpc \in CopySteps => idx = idx_hy
  /\ cpc = "idx_reset" => \A i \in 0 .. idx - 1 : pri_hy[i] = pri[i]
  /\ cpc \in AfterSteps => idx_hy = 0
  /\ cpc = "report" =>
       idx = idx_pri_high + idx_pri_low /\ Cardinality(HighIn(pri_hy, idx)) = idx_pri_high
LoadedInv ==
  /\ mpc = "rsp_pri_store" => mload = IF mhigh THEN idx_pri_high ELSE idx_pri_low
  /\ mpc = "idx_store" => mload = idx_hy
AheadInv ==
  /\ mpc = "pri_write" =>
       idx_pri_high = Cardinality(HighIn(pri, idx_hy)) + (IF mhigh THEN 1 ELSE 0)
  /\ mpc \in {"idx", "idx_store"} => idx_pri_high = Cardinality(HighIn(pri, idx_hy + 1))
  /\ mpc \in {"pri_write", "idx", "idx_store"} => idx_pri_high + idx_pri_low = idx_hy + 1
EvenInv ==
  mpc \notin {"pri_write", "idx", "idx_store"} /\ cpc \notin AfterSteps =>
    idx_pri_high + idx_pri_low = idx_hy /\ idx_pri_high = Cardinality(HighIn(pri, idx_hy))
FitInv == high <= ph_size /\ low <= pl_size

BoundsInv ==
  /\ SnapInv /\ GrowInv
  /\ ~overlap => FitsInv
  /\ ~overlap /\ ~outside => AloneInv /\ CopiedInv /\ LoadedInv /\ AheadInv /\ EvenInv /\ FitInv

LEMMA BoundsInit == Init => BoundsInv
<1> SUFFICES ASSUME Init PROVE BoundsInv
  OBVIOUS
<1>1. /\ mpc = "idle" /\ cpc = "sleep" /\ idx_hy = 0 /\ idx_pri_high = 0 /\ idx_pri_low = 0
      /\ high = 0 /\ low = 0 /\ ph_size \in Nat /\ pl_size \in Nat
  BY Constants DEF Init
<1>2. HighIn(pri, 0) = {} /\ Cardinality({}) = 0  BY FS_EmptySet DEF HighIn
<1>3. EvenInv  BY <1>1, <1>2 DEF EvenInv
<1>4. GrowInv
  <2>1. thre \in Nat /\ size = [a \in Arrays |-> thre]  BY Constants DEF Init
  <2>2. \A a \in Arrays : size[a] = thre  BY <2>1
  <2> QED  BY <1>1, <2>1, <2>2 DEF GrowInv, Arrays
<1>5. FitsInv  BY <1>1 DEF FitsInv, CopySteps, Alone, NewSteps, Arrays
<1> QED
  BY <1>1, <1>3, <1>4, <1>5
  DEF BoundsInv, SnapInv, AloneInv, CopiedInv, LoadedInv, AheadInv, FitInv, CopySteps, AfterSteps,
      Alone, NewSteps

LEMMA SnapStep ==
  ASSUME TypeInv, SnapInv, Next
  PROVE  SnapInv'
<1>0. idx \in Int /\ idx_hy \in Int  BY Known
<1>1. CASE IdxStore
  <2>1. idx_hy <= mload /\ mload \in Int /\ idx_hy' = mload + 1 /\ UNCHANGED <<cpc, idx>>
    BY <1>1, Known DEF TypeInv, RoomInv, GrowSteps, CountTypes, IdxStore, Monitor, MonitorStep
  <2> QED  BY <1>0, <2>1 DEF SnapInv
<1>2. CASE MonitorLcore /\ ~IdxStore
  <2>1. UNCHANGED <<idx_hy, cpc, idx>>
    BY <1>2
    DEF MonitorLcore, Packet, ReqTest, ReqCount, ConnLoad, ConnStore, ReqSeq, ReqStamp,
        ReqRecountLoad, ReqRecountStore, ReqPri, RspTest, GrowTest, GrowThre, Grow, Realloc, RspSeq,
        RspRecountLoad, RspRecountStore, PriLoad, PriStore, PriWrite, IdxLoad, TimeWrite, Load,
        Monitor, MonitorStep, sampleVars
  <2> QED  BY <2>1 DEF SnapInv
<1>3. CASE Snapshot
  BY <1>0, <1>3 DEF SnapInv, Snapshot, sampleVars
<1>4. CASE IdxReset
  BY <1>4 DEF SnapInv, IdxReset, Cdf, CopySteps
<1>5. CASE CdfLcore /\ ~Snapshot /\ ~IdxReset
  <2>1. UNCHANGED <<idx_hy, idx>> /\ (cpc' \in CopySteps => cpc \in CopySteps)
    BY <1>5
    DEF CdfLcore, Wake, ConnReset, NothingToReport, CopyTime, Copied, CopyPri, Report, RecountReset,
        ClearCounts, ClearSeqs, PriReset, Cdf, sampleVars, CopySteps
  <2> QED  BY <2>1 DEF SnapInv
<1> QED  BY <1>1, <1>2, <1>3, <1>4, <1>5 DEF Next

LEMMA GrowStep ==
  ASSUME TypeInv, GrowInv, Next
  PROVE  GrowInv'
<1>0. /\ idx_hy \in Nat /\ mload \in Nat /\ thre \in Nat /\ size \in [Arrays -> Nat]
      /\ mpc = "idx_store" => idx_hy <= mload
  BY Known DEF CountTypes, GrowTypes, TypeInv, RoomInv
<1>1. CASE CdfLcore
  <2>1. UNCHANGED <<mpc, mload, thre, size>> /\ idx_hy' \in {idx_hy, 0}
    BY <1>1, CdfFrame
    DEF CdfLcore, Wake, ConnReset, Snapshot, NothingToReport, CopyTime, CopyPri, IdxReset, Report,
        RecountReset, ClearCounts, ClearSeqs, PriReset, Cdf, bufferVars, sampleVars
  <2>2. idx_hy' \in Nat /\ idx_hy' <= idx_hy  BY <1>0, <2>1
  <2>3. \A a \in Arrays : size[a] \in Nat  BY <1>0
  <2> QED  BY <1>0, <2>1, <2>2, <2>3 DEF GrowInv
<1>2. CASE GrowTest
  <2>1. /\ UNCHANGED <<thre, size, idx_hy>> /\ mpc = "grow_test"
        /\ mpc' = IF idx_hy > thre THEN "grow_thre" ELSE "rsp_seq"
    BY <1>2 DEF GrowTest, Monitor, MonitorStep, bufferVars, sampleVars
  <2> QED  BY <1>0, <2>1 DEF GrowInv, Arrays
<1>3. CASE GrowThre
  <2>1. /\ UNCHANGED <<size, idx_hy>> /\ mpc = "grow_thre" /\ mpc' = "time" /\ thre' = idx_hy * 2
    BY <1>3 DEF GrowThre, MonitorStep, sampleVars
  <2>2. idx_hy <= thre' /\ thre' \in Nat  BY <1>0, <2>1
  <2>3. \A a \in Arrays : idx_hy <= size[a] + 1  BY <2>1 DEF GrowInv, Arrays
  <2> QED  BY <2>1, <2>2, <2>3 DEF GrowInv, Arrays
<1>4. ASSUME NEW a \in Arrays, NEW next, Realloc(a, next),
             \/ a = "time" /\ next = "pri"
             \/ a = "pri" /\ next = "time_hy"
             \/ a = "time_hy" /\ next = "pri_hy"
             \/ a = "pri_hy" /\ next = "rsp_seq"
      PROVE  GrowInv'
  <2>1. /\ UNCHANGED <<thre, idx_hy>> /\ mpc = a /\ mpc' = next
        /\ size' = [size EXCEPT ![a] = thre]
    BY <1>4 DEF Realloc, MonitorStep, sampleVars
  <2>2. size'[a] = thre /\ \A b \in Arrays : b # a => size'[b] = size[b]  BY <1>0, <2>1
  <2>3. idx_hy <= thre /\ \A b \in Arrays : idx_hy <= size[b] + 1  BY <2>1 DEF GrowInv
  <2>4. \A b \in Arrays : idx_hy <= size'[b] + 1  BY <1>0, <2>2, <2>3
  <2> QED  BY <1>0, <1>4, <2>1, <2>2, <2>3, <2>4 DEF GrowInv, Arrays
<1>5. CASE Grow
  <2>1. \/ Realloc("time", "pri") \/ Realloc("pri", "time_hy")
        \/ Realloc("time_hy", "pri_hy") \/ Realloc("pri_hy", "rsp_seq")
    BY <1>5 DEF Grow
  <2>2. {"time", "pri", "time_hy", "pri_hy"} \subseteq Arrays  BY DEF Arrays
  <2> QED  BY <1>4, <2>1, <2>2
<1>6. CASE IdxLoad
  <2>1. /\ UNCHANGED <<thre, size, idx_hy>> /\ mpc = "idx" /\ mpc' = "idx_store" /\ mload' = idx_hy
    BY <1>6 DEF IdxLoad, Load, Monitor, MonitorStep, bufferVars, sampleVars
  <2> QED  BY <1>0, <2>1 DEF GrowInv, Arrays
<1>7. CASE IdxStore
  <2>1. /\ UNCHANGED <<thre, size>> /\ mpc = "idx_store" /\ mpc' = "time_write" /\ idx_hy' = mload + 1
    BY <1>7 DEF IdxStore, Monitor, MonitorStep, bufferVars
  <2> QED  BY <1>0, <2>1 DEF GrowInv, Arrays
<1>8. CASE MonitorLcore /\ ~GrowTest /\ ~GrowThre /\ ~Grow /\ ~IdxLoad /\ ~IdxStore
  <2>1. UNCHANGED <<thre, size>>  BY <1>8, BuffersStill
  <2>2. /\ idx_hy' = idx_hy /\ mpc \notin Arrays /\ mpc' \notin Arrays \cup {"idx_store"}
        /\ mpc' \in {"rsp_seq", "rsp_pri", "rsp_pri_store", "pri_write", "idx"} =>
             mpc \in {"rsp_seq", "rsp_pri", "rsp_pri_store", "pri_write", "idx"}
    BY <1>8
    DEF MonitorLcore, Packet, ReqTest, ReqCount, ConnLoad, ConnStore, ReqSeq, ReqStamp,
        ReqRecountLoad, ReqRecountStore, ReqPri, RspTest, RspSeq, RspRecountLoad, RspRecountStore,
        PriLoad, PriStore, PriWrite, TimeWrite, Load, Monitor, MonitorStep, sampleVars, Arrays
  <2> QED  BY <2>1, <2>2 DEF GrowInv, Arrays
<1> QED  BY <1>1, <1>2, <1>3, <1>5, <1>6, <1>7, <1>8 DEF Next

\* The arrays hold all samples but one at any time.
LEMMA OneTooMany ==
  ASSUME TypeInv, GrowInv
  PROVE  \A a \in Arrays : idx_hy <= size[a] + 1
  BY DEF GrowInv

LEMMA FitsStep ==
  ASSUME TypeInv, GrowInv, FitsInv, ~overlap', Next
  PROVE  FitsInv'
<1>1. mpc' \in Alone \cup Arrays => cpc' = "sleep"  BY Ghosts DEF Alone
<1>2. CASE MonitorLcore
  <2>1. cpc' = cpc /\ idx' = idx
    <3>1. \E pc, next : MonitorStep(pc, next)
      BY <1>2, Zenon
      DEF MonitorLcore, Packet, ReqTest, ReqCount, ConnLoad, ConnStore, ReqSeq, ReqStamp,
          ReqRecountLoad, ReqRecountStore, ReqPri, RspTest, GrowTest, GrowThre, Grow, Realloc,
          RspSeq, RspRecountLoad, RspRecountStore, PriLoad, PriStore, PriWrite, IdxLoad, IdxStore,
          TimeWrite, Load, Monitor
    <3> QED  BY <3>1 DEF MonitorStep
  <2>2. CASE Grow
    <3>1. mpc \in Arrays  BY <2>2 DEF Grow, Realloc, MonitorStep, Arrays
    <3>2. cpc = "sleep"  BY <3>1 DEF FitsInv
    <3> QED  BY <1>1, <2>1, <3>2 DEF FitsInv, CopySteps
  <2>3. CASE ~Grow
    <3>1. size' = size
      <4>1. CASE GrowThre  BY <4>1 DEF GrowThre
      <4>2. CASE ~GrowThre  BY <1>2, <2>3, <4>2, BuffersStill
      <4> QED  BY <4>1, <4>2
    <3> QED  BY <1>1, <2>1, <3>1 DEF FitsInv
  <2> QED  BY <2>2, <2>3
<1>3. CASE CdfLcore
  <2>0. idx_hy <= size["time_hy"] + 1  BY OneTooMany DEF Arrays
  <2>1. size' = size
    <3>1. \E pc, next : Cdf(pc, next)
      BY <1>3, Zenon
      DEF CdfLcore, Wake, ConnReset, Snapshot, NothingToReport, CopyTime, CopyPri, IdxReset, Report,
          RecountReset, ClearCounts, ClearSeqs, PriReset
    <3> QED  BY <3>1 DEF Cdf, bufferVars
  <2>2. CASE Snapshot
    BY <1>1, <2>0, <2>1, <2>2 DEF FitsInv, Snapshot
  <2>3. CASE ~Snapshot
    <3>1. /\ idx' = idx
          /\ cpc' \in CopySteps \cup {"report", "recount_reset", "clear_count"} =>
               cpc \in CopySteps \cup {"report", "recount_reset", "clear_count"}
      BY <1>3, <2>3
      DEF CdfLcore, Wake, ConnReset, NothingToReport, CopyTime, CopyPri, IdxReset, Report,
          RecountReset, ClearCounts, ClearSeqs, PriReset, Cdf, CopySteps
    <3> QED  BY <1>1, <2>1, <3>1 DEF FitsInv
  <2> QED  BY <2>2, <2>3
<1> QED  BY <1>2, <1>3 DEF Next

\* The monitor alone, outside the recording of a sample.
LEMMA CountersStill ==
  ASSUME MonitorLcore, ~PriLoad, ~PriStore, ~PriWrite, ~IdxLoad, ~IdxStore
  PROVE  /\ UNCHANGED <<idx_pri_high, idx_pri_low, idx_hy, idx, pri, pri_hy, cpc, high, low,
                        ph_size, pl_size>>
         /\ mpc' \notin Alone /\ mpc \notin Alone \ {"time_write"}
<1>1. /\ UNCHANGED <<idx_hy, idx, pri, pri_hy, cpc>>
      /\ mpc' \notin Alone /\ mpc \notin Alone \ {"time_write"}
  BY DEF MonitorLcore, Packet, ReqTest, ReqCount, ConnLoad, ConnStore, ReqSeq, ReqStamp,
         ReqRecountLoad, ReqRecountStore, ReqPri, RspTest, GrowTest, GrowThre, Grow, Realloc,
         RspSeq, RspRecountLoad, RspRecountStore, TimeWrite, Load, Monitor, MonitorStep, sampleVars,
         copyVars, Alone, NewSteps
<1>2. UNCHANGED <<idx_pri_high, idx_pri_low, high, low, ph_size, pl_size>>
  BY DEF MonitorLcore, Packet, ReqTest, ReqCount, ConnLoad, ConnStore, ReqSeq, ReqStamp,
         ReqRecountLoad, ReqRecountStore, ReqPri, RspTest, GrowTest, GrowThre, Grow, Realloc,
         RspSeq, RspRecountLoad, RspRecountStore, TimeWrite, Load, Monitor, MonitorStep, priVars,
         reportVars
<1> QED  BY <1>1, <1>2

LEMMA HighFacts ==
  ASSUME NEW p, NEW n \in Nat
  PROVE  /\ IsFiniteSet(HighIn(p, n)) /\ Cardinality(HighIn(p, n)) \in Nat
         /\ Cardinality(HighIn(p, n)) <= n
<1> DEFINE S == HighIn(p, n)
<1>1. S \in SUBSET (0 .. n - 1)  BY DEF HighIn
<1> HIDE DEF S
<1>2. IsFiniteSet(S) /\ Cardinality(S) \in Nat /\ Cardinality(S) <= n  BY <1>1, CountBelow
<1> QED  BY <1>2 DEF S

\* A label written behind the last one.
LEMMA HighWrite ==
  ASSUME NEW p \in [Indices -> {0, 1}], NEW n \in Indices, NEW b \in {0, 1}
  PROVE  Cardinality(HighIn([p EXCEPT ![n] = b], n + 1)) = Cardinality(HighIn(p, n)) + b
<1> DEFINE q == [p EXCEPT ![n] = b]
<1>1. n \in Nat /\ \A i \in 0 .. n - 1 : i \in Indices /\ i # n
  <2>1. MaxSamples \in Int
    <3>1. Cardinality(Flows) \in Nat  BY Constants, FS_CardinalityType
    <3>2. Cardinality(Flows) * MaxReqs \in Nat  BY <3>1, Constants
    <3> QED  BY <3>2, Constants DEF MaxSamples
  <2> QED  BY <2>1 DEF Indices
<1>2. q[n] = b /\ \A i \in 0 .. n - 1 : q[i] = p[i]  BY <1>1
<1>3. 0 .. n = (0 .. n - 1) \cup {n}  BY <1>1
<1>4. n + 1 - 1 = n  BY <1>1
<1> HIDE DEF q
<1>5. CASE b = 0
  <2>1. HighIn(q, n + 1) = HighIn(p, n)  BY <1>2, <1>3, <1>4, <1>5 DEF HighIn
  <2>2. Cardinality(HighIn(p, n)) \in Nat  BY <1>1, HighFacts
  <2> QED  BY <1>5, <2>1, <2>2 DEF q
<1>6. CASE b = 1
  <2>1. HighIn(q, n + 1) = HighIn(p, n) \cup {n}  BY <1>2, <1>3, <1>4, <1>6 DEF HighIn
  <2>2. n \notin HighIn(p, n) /\ IsFiniteSet(HighIn(p, n))  BY <1>1, HighFacts DEF HighIn
  <2>3. Cardinality(HighIn(q, n + 1)) = Cardinality(HighIn(p, n)) + 1
    BY <2>1, <2>2, FS_AddElement
  <2> QED  BY <1>6, <2>3 DEF q
<1> QED  BY <1>5, <1>6

\* An array as large as its counter, or larger.
LEMMA ResizedFits ==
  ASSUME NEW elements \in Nat, NEW count \in Nat
  PROVE  count <= Resized(elements, count)
  BY DEF Resized

AloneParts == AloneInv /\ CopiedInv /\ LoadedInv /\ AheadInv /\ EvenInv /\ FitInv

LEMMA AloneMonitor ==
  ASSUME TypeInv, AloneParts, AloneInv', MonitorLcore
  PROVE  AloneParts'
<1>0. AloneInv /\ CopiedInv /\ LoadedInv /\ AheadInv /\ EvenInv /\ FitInv  BY DEF AloneParts
<1>1. /\ {idx_pri_high, idx_pri_low, idx_hy, idx, mload} \subseteq Nat
      /\ pri \in [Indices -> {0, 1}] /\ mhigh \in BOOLEAN
  BY Known DEF CountTypes, BufferTypes
<1> USE DEF Alone, NewSteps, CopySteps, AfterSteps
<1>2. ASSUME FitInv', CopiedInv', LoadedInv', AheadInv', EvenInv' PROVE AloneParts'
  BY <1>2 DEF AloneParts
<1>3. CASE PriLoad
  <2>1. /\ UNCHANGED <<idx_pri_high, idx_pri_low, idx_hy, idx, pri, pri_hy, cpc, high, low,
                       ph_size, pl_size>>
        /\ mpc = "rsp_pri" /\ mpc' = "rsp_pri_store"
        /\ mload' = IF mhigh' THEN idx_pri_high ELSE idx_pri_low
    BY <1>3 DEF PriLoad, Monitor, MonitorStep, sampleVars, priVars, copyVars, reportVars
  <2>2. FitInv' /\ CopiedInv'  BY <1>0, <2>1 DEF FitInv, CopiedInv
  <2>3. LoadedInv' /\ AheadInv'  BY <2>1 DEF LoadedInv, AheadInv
  <2>4. EvenInv'  BY <1>0, <2>1 DEF EvenInv
  <2> QED  BY <1>2, <2>2, <2>3, <2>4
<1>4. CASE PriStore
  <2>1. /\ UNCHANGED <<idx_hy, idx, pri, pri_hy, cpc, high, low, ph_size, pl_size, mhigh>>
        /\ mpc = "rsp_pri_store" /\ mpc' = "pri_write"
        /\ idx_pri_high' = IF mhigh THEN mload + 1 ELSE idx_pri_high
        /\ idx_pri_low' = IF mhigh THEN idx_pri_low ELSE mload + 1
    BY <1>4 DEF PriStore, Monitor, MonitorStep, sampleVars, copyVars, reportVars, register
  <2>2. cpc = "sleep"  BY <1>0, <2>1 DEF AloneInv
  <2>3. /\ idx_pri_high + idx_pri_low = idx_hy /\ idx_pri_high = Cardinality(HighIn(pri, idx_hy))
        /\ mload = IF mhigh THEN idx_pri_high ELSE idx_pri_low
    BY <1>0, <2>1, <2>2 DEF EvenInv, LoadedInv
  <2>4. FitInv' /\ CopiedInv'  BY <1>0, <2>1, <2>2 DEF FitInv, CopiedInv
  <2>5. LoadedInv' /\ EvenInv'  BY <2>1 DEF LoadedInv, EvenInv
  <2>6. AheadInv'
    <3>1. idx_pri_high' = idx_pri_high + (IF mhigh THEN 1 ELSE 0)  BY <1>1, <2>1, <2>3
    <3>2. idx_pri_high' + idx_pri_low' = idx_hy + 1  BY <1>1, <2>1, <2>3
    <3>3. HighIn(pri, idx_hy)' = HighIn(pri, idx_hy)  BY <2>1 DEF HighIn
    <3> QED  BY <2>1, <2>3, <3>1, <3>2, <3>3 DEF AheadInv
  <2> QED  BY <1>2, <2>4, <2>5, <2>6
<1>5. CASE PriWrite
  <2>1. /\ UNCHANGED <<idx_pri_high, idx_pri_low, idx_hy, idx, pri_hy, cpc, high, low,
                       ph_size, pl_size>>
        /\ mpc = "pri_write" /\ mpc' = "idx"
        /\ pri' = [pri EXCEPT ![idx_hy] = IF mhigh THEN 1 ELSE 0]
    BY <1>5 DEF PriWrite, Monitor, MonitorStep, priVars, copyVars, reportVars
  <2>2. cpc = "sleep" /\ idx_hy \in Indices  BY <1>0, <2>1, Known DEF AloneInv
  <2>3. FitInv' /\ CopiedInv'  BY <1>0, <2>1, <2>2 DEF FitInv, CopiedInv
  <2>4. LoadedInv' /\ EvenInv'  BY <2>1 DEF LoadedInv, EvenInv
  <2>5. AheadInv'
    <3> DEFINE b == IF mhigh THEN 1 ELSE 0
    <3>1. b \in {0, 1}  OBVIOUS
    <3>2. idx_pri_high = Cardinality(HighIn(pri, idx_hy)) + b /\ idx_pri_high + idx_pri_low = idx_hy + 1
      BY <1>0, <2>1 DEF AheadInv
    <3>3. pri' = [pri EXCEPT ![idx_hy] = b]  BY <2>1
    <3> HIDE DEF b
    <3>4. Cardinality(HighIn(pri', idx_hy + 1)) = Cardinality(HighIn(pri, idx_hy)) + b
      BY <1>1, <2>2, <3>1, <3>3, HighWrite
    <3>5. HighIn(pri, idx_hy + 1)' = HighIn(pri', idx_hy + 1)  BY <2>1 DEF HighIn
    <3> QED  BY <2>1, <3>2, <3>4, <3>5 DEF AheadInv
  <2> QED  BY <1>2, <2>3, <2>4, <2>5
<1>6. CASE IdxLoad
  <2>1. /\ UNCHANGED <<idx_pri_high, idx_pri_low, idx_hy, idx, pri, pri_hy, cpc, high, low,
                       ph_size, pl_size>>
        /\ mpc = "idx" /\ mpc' = "idx_store" /\ mload' = idx_hy
    BY <1>6 DEF IdxLoad, Load, Monitor, MonitorStep, sampleVars, priVars, copyVars, reportVars
  <2>2. FitInv' /\ CopiedInv'  BY <1>0, <2>1 DEF FitInv, CopiedInv
  <2>3. LoadedInv' /\ EvenInv'  BY <2>1 DEF LoadedInv, EvenInv
  <2>4. AheadInv'  BY <1>0, <2>1 DEF AheadInv
  <2> QED  BY <1>2, <2>2, <2>3, <2>4
<1>7. CASE IdxStore
  <2>1. /\ UNCHANGED <<idx_pri_high, idx_pri_low, idx, pri, pri_hy, cpc, high, low,
                       ph_size, pl_size>>
        /\ mpc = "idx_store" /\ mpc' = "time_write" /\ idx_hy' = mload + 1
    BY <1>7 DEF IdxStore, Monitor, MonitorStep, priVars, copyVars, reportVars
  <2>2. cpc = "sleep" /\ mload = idx_hy  BY <1>0, <2>1 DEF AloneInv, LoadedInv
  <2>3. FitInv' /\ CopiedInv'  BY <1>0, <2>1, <2>2 DEF FitInv, CopiedInv
  <2>4. LoadedInv' /\ AheadInv'  BY <2>1 DEF LoadedInv, AheadInv
  <2>5. EvenInv'  BY <1>0, <2>1, <2>2 DEF EvenInv, AheadInv
  <2> QED  BY <1>2, <2>3, <2>4, <2>5
<1>8. CASE ~PriLoad /\ ~PriStore /\ ~PriWrite /\ ~IdxLoad /\ ~IdxStore
  <2>1. /\ UNCHANGED <<idx_pri_high, idx_pri_low, idx_hy, idx, pri, pri_hy, cpc, high, low,
                       ph_size, pl_size>>
        /\ mpc' \notin Alone /\ mpc \notin Alone \ {"time_write"}
    BY <1>8, CountersStill
  <2>2. FitInv' /\ CopiedInv'  BY <1>0, <2>1 DEF FitInv, CopiedInv
  <2>3. LoadedInv' /\ AheadInv'  BY <2>1 DEF LoadedInv, AheadInv
  <2>4. EvenInv'  BY <1>0, <2>1 DEF EvenInv
  <2> QED  BY <1>2, <2>2, <2>3, <2>4
<1> QED  BY <1>3, <1>4, <1>5, <1>6, <1>7, <1>8

LEMMA AloneCdf ==
  ASSUME TypeInv, AloneParts, AloneInv', CdfLcore, ~outside'
  PROVE  AloneParts'
<1>0. AloneInv /\ CopiedInv /\ LoadedInv /\ AheadInv /\ EvenInv /\ FitInv  BY DEF AloneParts
<1>1. /\ {idx_pri_high, idx_pri_low, idx_hy, idx, mload, high, low, ph_size, pl_size} \subseteq Nat
      /\ idx <= MaxSamples /\ MaxSamples \in Nat /\ pri_hy \in [Indices -> {0, 1}]
  BY Known DEF CountTypes, BufferTypes
<1>2. UNCHANGED <<mpc, mload, mhigh>>  BY CdfFrame
<1>3. mpc \notin Alone
  <2>1. ~(cpc = "sleep" /\ cpc' = "sleep")
    BY DEF CdfLcore, Wake, ConnReset, Snapshot, NothingToReport, CopyTime, CopyPri, IdxReset,
           Report, RecountReset, ClearCounts, ClearSeqs, PriReset, Cdf
  <2> QED  BY <1>0, <1>2, <2>1 DEF AloneInv
<1> USE DEF Alone, NewSteps, CopySteps, AfterSteps
<1>4. LoadedInv' /\ AheadInv'  BY <1>2, <1>3 DEF LoadedInv, AheadInv
<1>5. ASSUME FitInv', CopiedInv', EvenInv' PROVE AloneParts'
  BY <1>4, <1>5 DEF AloneParts
<1>6. CASE Wake \/ ConnReset \/ NothingToReport \/ Snapshot
  <2>1. /\ UNCHANGED <<idx_pri_high, idx_pri_low, idx_hy, pri, pri_hy, high, low, ph_size, pl_size>>
        /\ cpc \notin AfterSteps
        /\ cpc' \in {"sleep", "conn_reset", "test"} \/ (cpc' = "copy_time" /\ idx' = idx_hy)
    BY <1>6
    DEF Wake, ConnReset, NothingToReport, Snapshot, Cdf, sampleVars, priVars, copyVars, reportVars
  <2>2. FitInv' /\ CopiedInv'  BY <1>0, <2>1 DEF FitInv, CopiedInv
  <2>3. EvenInv'  BY <1>0, <1>2, <2>1 DEF EvenInv
  <2> QED  BY <1>5, <2>2, <2>3
<1>7. CASE CopyTime
  <2>1. /\ UNCHANGED <<idx_pri_high, idx_pri_low, idx_hy, idx, pri, pri_hy, high, low, ph_size, pl_size>>
        /\ cpc = "copy_time" /\ cpc' = "copy_pri"
    BY <1>7 DEF CopyTime, Copied, Cdf, sampleVars, priVars, reportVars
  <2>2. FitInv' /\ CopiedInv'  BY <1>0, <2>1 DEF FitInv, CopiedInv
  <2>3. EvenInv'  BY <1>0, <1>2, <2>1 DEF EvenInv
  <2> QED  BY <1>5, <2>2, <2>3
<1>8. CASE CopyPri
  <2>1. /\ UNCHANGED <<idx_pri_high, idx_pri_low, idx_hy, idx, pri, high, low, ph_size, pl_size>>
        /\ cpc = "copy_pri" /\ cpc' = "idx_reset"
        /\ pri_hy' = [i \in Indices |-> IF i < idx_hy THEN pri[i] ELSE pri_hy[i]]
    BY <1>8 DEF CopyPri, Arriving, Copied, Cdf, sampleVars, priVars, reportVars
  <2>2. idx = idx_hy  BY <1>0, <2>1 DEF CopiedInv
  <2>3. \A i \in 0 .. idx - 1 : pri_hy'[i] = pri[i]  BY <1>1, <2>1, <2>2 DEF Indices
  <2>4. FitInv' /\ CopiedInv'  BY <1>0, <2>1, <2>2, <2>3 DEF FitInv, CopiedInv
  <2>5. EvenInv'  BY <1>0, <1>2, <2>1 DEF EvenInv
  <2> QED  BY <1>5, <2>4, <2>5
<1>9. CASE IdxReset
  <2>1. /\ UNCHANGED <<idx_pri_high, idx_pri_low, idx, pri, pri_hy, high, low, ph_size, pl_size>>
        /\ cpc = "idx_reset" /\ cpc' = "report" /\ idx_hy' = 0
    BY <1>9 DEF IdxReset, Cdf, priVars, copyVars, reportVars
  <2>2. idx = idx_hy /\ \A i \in 0 .. idx - 1 : pri_hy[i] = pri[i]  BY <1>0, <2>1 DEF CopiedInv
  <2>3. HighIn(pri_hy, idx) = HighIn(pri, idx_hy)  BY <2>2 DEF HighIn
  <2>4. idx = idx_pri_high + idx_pri_low /\ Cardinality(HighIn(pri_hy, idx)) = idx_pri_high
    BY <1>0, <1>3, <2>1, <2>2, <2>3 DEF EvenInv
  <2>5. FitInv' /\ CopiedInv'  BY <1>0, <2>1, <2>4 DEF FitInv, CopiedInv
  <2>6. EvenInv'  BY <2>1 DEF EvenInv
  <2> QED  BY <1>5, <2>5, <2>6
<1>10. CASE Report
  <2>1. /\ UNCHANGED <<idx_pri_high, idx_pri_low, idx, idx_hy, pri, pri_hy>>
        /\ cpc = "report" /\ cpc' = "recount_reset"
        /\ ph_size' = Resized(ph_size, idx_pri_high) /\ pl_size' = Resized(pl_size, idx_pri_low)
        /\ high' = Cardinality(HighIn(pri_hy, idx)) /\ low' = idx - high'
    BY <1>10 DEF Report, Cdf, sampleVars, priVars, copyVars, HighIn
  <2>2. idx = idx_pri_high + idx_pri_low /\ Cardinality(HighIn(pri_hy, idx)) = idx_pri_high
        /\ idx_hy = 0
    BY <1>0, <2>1 DEF CopiedInv
  <2>3. high' = idx_pri_high /\ low' = idx_pri_low  BY <1>1, <2>1, <2>2
  <2>4. FitInv'  BY <1>1, <2>1, <2>3, ResizedFits DEF FitInv
  <2>5. CopiedInv' /\ EvenInv'  BY <2>1, <2>2 DEF CopiedInv, EvenInv
  <2> QED  BY <1>5, <2>4, <2>5
<1>11. CASE RecountReset \/ ClearCounts \/ ClearSeqs
  <2>1. /\ UNCHANGED <<idx_hy, high, low, ph_size, pl_size>>
        /\ cpc \in AfterSteps /\ cpc' \in AfterSteps \ {"report"}
    BY <1>11 DEF RecountReset, ClearCounts, ClearSeqs, Cdf, sampleVars, reportVars
  <2>2. FitInv' /\ CopiedInv' /\ EvenInv'  BY <1>0, <2>1 DEF FitInv, CopiedInv, EvenInv
  <2> QED  BY <1>5, <2>2
<1>12. CASE PriReset
  <2>1. /\ UNCHANGED <<idx_hy, pri, ph_size, pl_size>> /\ high' = 0 /\ low' = 0
        /\ cpc = "pri_reset" /\ cpc' = "sleep" /\ idx_pri_high' = 0 /\ idx_pri_low' = 0
    BY <1>12 DEF PriReset, Cdf, sampleVars, reportVars
  <2>2. idx_hy = 0 /\ HighIn(pri, 0) = {} /\ Cardinality({}) = 0
    BY <1>0, <2>1, FS_EmptySet DEF CopiedInv, HighIn
  <2>3. HighIn(pri, idx_hy)' = {}  BY <2>1, <2>2 DEF HighIn
  <2>4. FitInv' /\ CopiedInv'  BY <1>1, <2>1 DEF FitInv, CopiedInv
  <2>5. EvenInv'  BY <2>1, <2>2, <2>3 DEF EvenInv
  <2> QED  BY <1>5, <2>4, <2>5
<1> QED  BY <1>6, <1>7, <1>8, <1>9, <1>10, <1>11, <1>12 DEF CdfLcore

LEMMA BoundsStep ==
  ASSUME TypeInv, BoundsInv, [Next]_vars
  PROVE  BoundsInv'
<1>1. CASE Next
  <2>1. SnapInv'  BY <1>1, SnapStep DEF BoundsInv
  <2>2. GrowInv'  BY <1>1, GrowStep DEF BoundsInv
  <2>3. ASSUME ~overlap' PROVE FitsInv'
    <3>1. ~overlap  BY <1>1, <2>3, Ghosts
    <3> QED  BY <1>1, <2>3, <3>1, FitsStep DEF BoundsInv
  <2>4. ASSUME ~overlap', ~outside' PROVE AloneParts'
    <3>1. ~overlap /\ ~outside /\ AloneInv'  BY <1>1, <2>4, Ghosts DEF AloneInv, Alone
    <3>2. AloneParts  BY <3>1 DEF BoundsInv, AloneParts
    <3> QED  BY <1>1, <2>4, <3>1, <3>2, AloneMonitor, AloneCdf DEF Next
  <2> QED  BY <2>1, <2>2, <2>3, <2>4 DEF BoundsInv, AloneParts
<1>2. CASE UNCHANGED vars
  BY <1>2
  DEF BoundsInv, SnapInv, GrowInv, FitsInv, AloneInv, CopiedInv, LoadedInv, AheadInv, EvenInv,
      FitInv, HighIn, vars, register, sampleVars, priVars, copyVars, bufferVars, reportVars
<1> QED  BY <1>1, <1>2

\* Whatever number of samples the arrays start with room for, however often
\* they grow and whatever the CDF lcore does meanwhile: they are never more
\* than one sample too small.  The report asks for no more than was there to
\* copy, and the priority arrays it sizes by the counters hold the labels.
THEOREM ReportStaysInBounds == Spec => []ReportInBounds
<1>1. TypeInv /\ BoundsInv => ReportInBounds
  <2> SUFFICES ASSUME TypeInv, BoundsInv PROVE ReportInBounds
    OBVIOUS
  <2>1. \A a \in Arrays : idx_hy <= size[a] + 1  BY OneTooMany DEF BoundsInv
  <2> QED  BY <2>1 DEF BoundsInv, SnapInv, FitsInv, FitInv, ReportInBounds, CopySteps
<1> QED  BY TypesAlways, BoundsInit, BoundsStep, <1>1, PTL DEF Spec
-----------------------------------------------------------------------------
(* No response is recorded twice.                                          *)

TakenBefore == \E s \in recorded : s.flow = mflow /\ s.req = Number

\* Until clear() comes between the two tests of a response: the last response
\* of a flow, once recorded, is not above rsp any more, or clear() has taken
\* both numbers away and it is not in the window.
FreshInv ==
  /\ \A s \in recorded : 2 * s.req <= turn[s.flow]
  /\ ~crossed =>
       /\ \A s \in recorded : turn[s.flow] = 2 * s.req =>
            Maxseq[s.flow].rsp >= s.req + 1 \/ Maxseq[s.flow].req = 0
       /\ mpc \in NewSteps =>
            ~TakenBefore /\ (Maxseq[mflow].rsp >= Number + 1 \/ Maxseq[mflow].req = 0)
       /\ mpc \in GrowSteps \cup {"rsp_seq"} => Maxseq[mflow].rsp >= Number + 1 \/ ~TakenBefore

\* The window holds the response to the last request only.
LEMMA WindowExact ==
  ASSUME TypeInv, mpc = "rsp_test", InWindow
  PROVE  Maxseq[mflow].req = Number
<1>1. mflow \in Flows /\ Number \in 1 .. MaxReqs
  BY Known, NumberFacts DEF TypeInv, PacketInv, RspSteps
<1>2. Maxseq[mflow].req <= Number
  <2>1. Maxseq[mflow].req <= (turn[mflow] + 1) \div 2  BY <1>1 DEF TypeInv, SeqInv, GrowSteps
  <2> QED  BY <2>1 DEF Number
<1>3. Maxseq[mflow].req \in Nat /\ Maxseq[mflow].len \in {0, 1}
  BY <1>1, Known, Constants DEF TableTypes
<1>4. Number + 1 - Maxseq[mflow].req \in 0 .. Maxseq[mflow].len  BY DEF InWindow
<1> HIDE DEF Number
<1> QED  BY <1>1, <1>2, <1>3, <1>4, Constants

LEMMA FreshStep ==
  ASSUME TypeInv, FreshInv, Next
  PROVE  FreshInv'
<1>0. /\ turn \in [Flows -> 0 .. 2 * MaxReqs] /\ again \in 0 .. MaxAgain
      /\ Maxseq \in [Flows -> [req : 0 .. MaxReqs, len : {0, 1}, rsp : 0 .. MaxReqs + 1]]
      /\ \A s \in recorded : s.flow \in Flows /\ s.req \in 1 .. MaxReqs
      /\ MaxReqs \in Nat \ {0} /\ PacketInv
  BY Known, Constants DEF TableTypes, BufferTypes, Sample, TypeInv
<1>g. ~crossed' => ~crossed /\ ~(mpc' \in GrowSteps \cup {"rsp_seq"} /\ cpc' = "pri_reset")  BY Ghosts
<1>1. ASSUME NEW f \in Flows, Packet(f) PROVE FreshInv'
  <2>1. /\ mpc' \in {"req_test", "rsp_test"}
        /\ turn' = [turn EXCEPT ![f] = @ + 1] \/ turn' = turn
    BY <1>0, <1>1, PacketTaken
  <2>2. UNCHANGED <<Maxseq, recorded>>  BY <1>1 DEF Packet, tableVars, sampleVars
  <2>3. ASSUME NEW s \in recorded
        PROVE  /\ 2 * s.req <= turn'[s.flow]
               /\ turn'[s.flow] = 2 * s.req => turn[s.flow] = 2 * s.req
    <3>1. 2 * s.req <= turn[s.flow] /\ turn'[s.flow] \in {turn[s.flow], turn[s.flow] + 1}
      BY <1>0, <2>1 DEF FreshInv, GrowSteps
    <3>2. turn[s.flow] \in Nat /\ 2 * s.req \in Nat  BY <1>0
    <3> QED  BY <3>1, <3>2
  <2>4. mpc' \notin NewSteps \cup GrowSteps \cup {"rsp_seq"}  BY <2>1 DEF NewSteps, GrowSteps
  <2> QED  BY <1>g, <2>2, <2>3, <2>4 DEF FreshInv, GrowSteps
<1>2. CASE OtherMonitor
  <2>1. UNCHANGED <<turn, mflow>> /\ Number' = Number
    <3>1. UNCHANGED <<turn, mflow>>  BY <1>2, WithinPacket
    <3> QED  BY <3>1 DEF Number
  <2>2. /\ mflow \in Flows /\ Number \in 1 .. MaxReqs
        /\ mpc \in ReqSteps => turn[mflow] = 2 * Number - 1
        /\ mpc \in RspSteps => turn[mflow] = 2 * Number
    <3>1. mpc \in ReqSteps \cup RspSteps  BY <1>2, WithinPacket
    <3> QED  BY <1>0, <3>1, NumberFacts DEF PacketInv
  <2> HIDE DEF Number
  <2>3. CASE TimeWrite
    <3> DEFINE sample == [flow |-> mflow, req |-> Number, from |-> req_out_if[mflow]]
    <3>1. /\ recorded' = recorded \cup {sample} /\ Maxseq' = Maxseq
          /\ mpc = "time_write" /\ mpc' = "idle"
      BY <2>3 DEF TimeWrite, Monitor, MonitorStep, tableVars
    <3>2. sample.flow = mflow /\ sample.req = Number  OBVIOUS
    <3> HIDE DEF sample
    <3>3. turn[mflow] = 2 * Number  BY <2>2, <3>1 DEF RspSteps, NewSteps
    <3>4. \A s \in recorded' : 2 * s.req <= turn'[s.flow]
      BY <2>1, <2>2, <3>1, <3>2, <3>3, Constants DEF FreshInv, GrowSteps
    <3>5. ASSUME ~crossed', NEW s \in recorded', turn[s.flow] = 2 * s.req
          PROVE  Maxseq[s.flow].rsp >= s.req + 1 \/ Maxseq[s.flow].req = 0
      BY <1>g, <3>1, <3>2, <3>5 DEF FreshInv, GrowSteps, NewSteps
    <3> QED  BY <2>1, <3>1, <3>4, <3>5 DEF FreshInv, GrowSteps, NewSteps
  <2>4. CASE RspTest
    <3>1. /\ UNCHANGED <<Maxseq, recorded>> /\ mpc = "rsp_test"
          /\ mpc' = IF InWindow THEN "grow_test" ELSE "idle"
      BY <2>4 DEF RspTest, Monitor, MonitorStep, tableVars, sampleVars
    <3>2. ASSUME ~crossed', mpc' = "grow_test", TakenBefore
          PROVE  Maxseq[mflow].rsp >= Number + 1
      <4>1. Maxseq[mflow].req = Number  BY <3>1, <3>2, WindowExact
      <4>2. PICK s \in recorded : s.flow = mflow /\ s.req = Number  BY <3>2 DEF TakenBefore
      <4>3. turn[s.flow] = 2 * s.req  BY <2>2, <3>1, <4>2 DEF RspSteps
      <4> QED  BY <1>g, <2>2, <3>2, <4>1, <4>2, <4>3 DEF FreshInv, GrowSteps
    <3>3. TakenBefore' <=> TakenBefore  BY <2>1, <3>1 DEF TakenBefore
    <3> QED  BY <1>g, <2>1, <3>1, <3>2, <3>3 DEF FreshInv, GrowSteps, NewSteps
  <2>5. CASE RspSeq
    <3>1. /\ recorded' = recorded /\ mpc = "rsp_seq"
          /\ mpc' = IF Number + 1 > Maxseq[mflow].rsp THEN "rsp_pri" ELSE "rsp_recount"
          /\ Maxseq' = [Maxseq EXCEPT ![mflow].rsp = IF Number + 1 > Maxseq[mflow].rsp
                                                     THEN Number + 1 ELSE @]
      BY <2>5 DEF RspSeq, Monitor, MonitorStep, sampleVars
    <3>2. \A f \in Flows : /\ Maxseq'[f].req = Maxseq[f].req
                           /\ Maxseq'[f].rsp >= Maxseq[f].rsp
                           /\ Maxseq'[f].rsp \in Int /\ Maxseq[f].rsp \in Int
      BY <1>0, <2>2, <3>1
    <3>3. mpc' = "rsp_pri" => Maxseq'[mflow].rsp = Number + 1 /\ Number + 1 > Maxseq[mflow].rsp
      BY <1>0, <2>2, <3>1
    <3>4. TakenBefore' <=> TakenBefore  BY <2>1, <3>1 DEF TakenBefore
    <3>5. ASSUME ~crossed', NEW s \in recorded, turn[s.flow] = 2 * s.req
          PROVE  Maxseq'[s.flow].rsp >= s.req + 1 \/ Maxseq'[s.flow].req = 0
      <4>1. Maxseq[s.flow].rsp >= s.req + 1 \/ Maxseq[s.flow].req = 0  BY <1>g, <3>5 DEF FreshInv,
                                                                                         GrowSteps
      <4> QED  BY <1>0, <3>2, <4>1
    <3>6. ASSUME ~crossed', mpc' \in NewSteps
          PROVE  ~TakenBefore /\ Maxseq'[mflow].rsp >= Number + 1
      <4>1. mpc' = "rsp_pri"  BY <3>1, <3>6 DEF NewSteps
      <4>2. ~(Maxseq[mflow].rsp >= Number + 1)  BY <2>2, <3>2, <3>3, <4>1
      <4> QED  BY <1>g, <2>2, <3>1, <3>3, <3>6, <4>1, <4>2 DEF FreshInv, GrowSteps
    <3>7. mpc' \notin GrowSteps \cup {"rsp_seq"}  BY <3>1 DEF GrowSteps
    <3> QED  BY <2>1, <3>1, <3>4, <3>5, <3>6, <3>7 DEF FreshInv, GrowSteps
  <2>6. CASE ReqSeq
    <3>1. /\ recorded' = recorded /\ mpc = "req_seq" /\ mpc' = "req_stamp"
          /\ Maxseq' = [Maxseq EXCEPT ![mflow].req = Number]
      BY <2>6 DEF ReqSeq, Monitor, MonitorStep, sampleVars
    <3>2. ASSUME NEW s \in recorded, turn[s.flow] = 2 * s.req PROVE Maxseq'[s.flow] = Maxseq[s.flow]
      <4>1. s.flow # mflow
        <5>1. turn[mflow] = 2 * Number - 1  BY <2>2, <3>1 DEF ReqSteps
        <5>2. s.req \in Int /\ Number \in Int  BY <1>0, <2>2
        <5> QED  BY <3>2, <5>1, <5>2
      <4> QED  BY <1>0, <3>1, <4>1
    <3> QED  BY <1>g, <2>1, <3>1, <3>2 DEF FreshInv, GrowSteps, NewSteps
  <2>7. CASE ReqStamp
    <3>1. /\ recorded' = recorded /\ mpc' = "req_pri"
          /\ Maxseq' = [Maxseq EXCEPT ![mflow].len = 1]
      BY <2>7 DEF ReqStamp, Monitor, MonitorStep, sampleVars
    <3>2. \A f \in Flows : Maxseq'[f].req = Maxseq[f].req /\ Maxseq'[f].rsp = Maxseq[f].rsp
      BY <1>0, <2>2, <3>1
    <3> QED  BY <1>0, <1>g, <2>1, <3>1, <3>2 DEF FreshInv, GrowSteps, NewSteps
  <2>8. CASE ~TimeWrite /\ ~RspTest /\ ~RspSeq /\ ~ReqSeq /\ ~ReqStamp
    <3>1. \A f \in Flows : ~Packet(f)
      <4>1. mpc # "idle"  BY <1>2, WithinPacket DEF ReqSteps, RspSteps, NewSteps
      <4> QED  BY <4>1 DEF Packet, Monitor, MonitorStep
    <3>2. ~ClearSeqs
      <4>1. mpc' # mpc
        BY <1>2
        DEF OtherMonitor, ReqTest, ReqCount, ConnLoad, ConnStore, ReqSeq, ReqStamp, ReqRecountLoad,
            ReqRecountStore, ReqPri, RspTest, GrowTest, GrowThre, Grow, Realloc, RspSeq,
            RspRecountLoad, RspRecountStore, PriLoad, PriStore, PriWrite, IdxLoad, IdxStore,
            TimeWrite, Load, Monitor, MonitorStep
      <4> QED  BY <4>1, CdfFrame DEF CdfLcore
    <3>3. /\ UNCHANGED <<Maxseq, recorded>>
          /\ mpc' \in NewSteps => mpc \in NewSteps
          /\ mpc' \in GrowSteps \cup {"rsp_seq"} => mpc \in GrowSteps \cup {"rsp_seq"}
      BY <2>8, <3>1, <3>2, SeqUntouched, Recording
    <3>4. TakenBefore' <=> TakenBefore  BY <2>1, <3>3 DEF TakenBefore
    <3> QED  BY <1>g, <2>1, <3>3, <3>4 DEF FreshInv
  <2> QED  BY <2>3, <2>4, <2>5, <2>6, <2>7, <2>8
<1>3. CASE CdfLcore
  <2>1. UNCHANGED <<turn, mflow, mpc, recorded>>
    <3>1. ~TimeWrite
      <4>1. TimeWrite => mpc' # mpc  BY DEF TimeWrite, Monitor, MonitorStep
      <4> QED  BY <1>3, <4>1, CdfFrame
    <3> QED  BY <1>3, <3>1, CdfFrame, Recording
  <2>2. Number' = Number  BY <2>1 DEF Number
  <2>3. TakenBefore' <=> TakenBefore  BY <2>1, <2>2 DEF TakenBefore
  <2> HIDE DEF Number
  <2>4. CASE ClearSeqs
    <3>1. (\A f \in Flows : Maxseq'[f].req = 0) /\ cpc' = "pri_reset"
      BY <2>4 DEF ClearSeqs, Cdf, NoEntry
    <3>2. mpc \in NewSteps => mflow \in Flows  BY <1>0 DEF PacketInv, RspSteps
    <3> QED  BY <1>0, <1>g, <2>1, <2>2, <2>3, <3>1, <3>2 DEF FreshInv, GrowSteps
  <2>5. CASE ~ClearSeqs
    <3>1. Maxseq' = Maxseq
      BY <1>3, <2>5
      DEF CdfLcore, Wake, ConnReset, Snapshot, NothingToReport, CopyTime, CopyPri, IdxReset, Report,
          RecountReset, ClearCounts, PriReset, tableVars
    <3> QED  BY <1>g, <2>1, <2>2, <2>3, <3>1 DEF FreshInv, GrowSteps
  <2> QED  BY <2>4, <2>5
<1> QED  BY <1>1, <1>2, <1>3, StepCases
-----------------------------------------------------------------------------
(* Where the samples are.                                                  *)

\* All of the buffer but the element whose index is stored and time is not.
Live == {j \in 0 .. idx_hy - 1 : mpc = "time_write" => j # mload}
Distinct(t, I) == \A i, j \in I : t[i] = t[j] => i = j

\* Each sample is accounted for once.
Account(R, P, rep) ==
  \A s \in Sample :
    /\ s \in R <=> (s \in P \/ rep[s] > 0)
    /\ rep[s] <= 1 /\ ~(rep[s] = 1 /\ s \in P)

MeetInv == mpc \in {"idx_store", "time_write"} => cpc \notin CopySteps
HoleInv ==
  /\ mpc = "idx_store" => mload = idx_hy
  /\ mpc = "time_write" => idx_hy = mload + 1
CopyInv ==
  /\ cpc \in CopySteps => idx = idx_hy
  /\ cpc \in {"copy_pri", "idx_reset"} => \A i \in 0 .. idx - 1 : time_hy[i] = time[i]
ApartInv ==
  cpc = "report" => Distinct(time_hy, 0 .. idx - 1) /\ InCopy \cap Buffered = {}

\* Until an index is updated while the CDF lcore copies, or an array is left: no sample is in the
\* buffer twice, and after the copy all of them are in it and none in the buffer.
PlaceInv ==
  ~crossed /\ ~outside =>
    /\ MeetInv /\ HoleInv /\ CopyInv /\ Distinct(time, Live) /\ ApartInv
    /\ Account(recorded, Buffered \cup InCopy, reported)

PlaceParts ==
  /\ HoleInv /\ CopyInv /\ Distinct(time, Live) /\ ApartInv
  /\ Account(recorded, Buffered \cup InCopy, reported)

LEMMA BufferedLive == Buffered = {time[i] : i \in Live}
  BY DEF Buffered, Live

\* While the CDF lcore copies, the buffer is whole.
LEMMA CopiedBuffer ==
  ASSUME MeetInv, CopyInv, cpc \in CopySteps
  PROVE  /\ Live = 0 .. idx - 1 /\ idx = idx_hy
         /\ Buffered = {time[i] : i \in 0 .. idx - 1}
         /\ cpc \in {"copy_pri", "idx_reset"} => InCopy = Buffered
<1>1. Live = 0 .. idx - 1 /\ idx = idx_hy  BY DEF MeetInv, CopyInv, Live
<1>2. Buffered = {time[i] : i \in 0 .. idx - 1}  BY <1>1, BufferedLive
<1>3. cpc \in {"copy_pri", "idx_reset"} => InCopy = Buffered
  BY <1>2 DEF InCopy, CopyInv
<1> QED  BY <1>1, <1>2, <1>3

LEMMA PlaceTimeWrite ==
  ASSUME TypeInv, SamplesPairOwnRequest, FreshInv, ~crossed, MeetInv, PlaceParts, TimeWrite
  PROVE  PlaceParts'
<1> DEFINE sample == [flow |-> mflow, req |-> Number, from |-> req_out_if[mflow]]
<1>1. /\ mpc = "time_write" /\ mpc' = "idle"
      /\ time' = [time EXCEPT ![mload] = sample] /\ recorded' = recorded \cup {sample}
      /\ UNCHANGED <<idx_hy, idx, cpc, time_hy, reported>>
  BY DEF TimeWrite, Monitor, MonitorStep, copyVars, reportVars
<1>2. sample \notin recorded
  <2>1. sample.flow = mflow /\ sample.req = Number  OBVIOUS
  <2> QED  BY <1>1, <2>1 DEF FreshInv, GrowSteps, TakenBefore, NewSteps
<1>3. sample \in Sample /\ time \in [Indices -> Sample \cup {NoSample}] /\ recorded \subseteq Sample
      /\ reported \in [Sample -> Nat]
  <2>1. mflow \in Flows /\ Number \in 1 .. MaxReqs /\ req_out_if[mflow] \in 0 .. MaxReqs
    BY <1>1, Known, NumberFacts DEF TypeInv, PacketInv, TableTypes, RspSteps, NewSteps
  <2> QED  BY <2>1, Known DEF Sample, BufferTypes, FlagTypes
<1> HIDE DEF sample
<1>4. idx_hy = mload + 1 /\ mload \in Nat /\ mload \in Indices
  BY <1>1, Known DEF PlaceParts, HoleInv, CountTypes
<1>5. Live = 0 .. mload - 1 /\ Live' = 0 .. mload
  BY <1>1, <1>4 DEF Live
<1>6. time'[mload] = sample /\ \A i \in Live : time'[i] = time[i]
  <2>1. \A i \in Live : i # mload  BY <1>4, <1>5
  <2>2. MaxSamples \in Nat  BY Known
  <2>3. \A i \in Live : i \in Indices  BY <1>4, <1>5, <2>2 DEF Indices
  <2> QED  BY <1>1, <1>3, <1>4, <2>1, <2>3
<1>7. Live' = Live \cup {mload}  BY <1>4, <1>5
<1>8. Buffered' = Buffered \cup {sample}
  <2>1. Buffered' = {time'[i] : i \in Live'}  BY DEF Buffered, Live
  <2> QED  BY <1>6, <1>7, <2>1, BufferedLive
<1>9. InCopy' = InCopy  BY <1>1 DEF InCopy
<1>10. sample \notin Buffered \cup InCopy /\ reported[sample] = 0
  BY <1>2, <1>3 DEF PlaceParts, Account
<1>11. Account(recorded, Buffered \cup InCopy, reported)'
  <2>1. Account(recorded', Buffered' \cup InCopy', reported')
    BY <1>1, <1>3, <1>8, <1>9, <1>10 DEF PlaceParts, Account
  <2> QED  BY <2>1 DEF Account
<1>12. Distinct(time, Live)'
  <2>1. \A i \in Live : time[i] # sample  BY <1>10, BufferedLive
  <2>2. Distinct(time', Live')
    BY <1>6, <1>7, <2>1 DEF PlaceParts, Distinct
  <2> QED  BY <2>2 DEF Distinct
<1>13. HoleInv' /\ CopyInv'
  <2>1. cpc \notin CopySteps  BY <1>1 DEF MeetInv
  <2> QED  BY <1>1, <2>1 DEF HoleInv, CopyInv, CopySteps
<1>14. ApartInv'
  <2>1. cpc = "report" => Distinct(time_hy, 0 .. idx - 1) /\ InCopy' \cap Buffered' = {}
    BY <1>8, <1>9, <1>10 DEF PlaceParts, ApartInv
  <2> QED  BY <1>1, <2>1 DEF ApartInv, Distinct
<1> QED  BY <1>11, <1>12, <1>13, <1>14 DEF PlaceParts

\* Steps that leave the samples where they are.
LEMMA PlaceSame ==
  ASSUME PlaceParts, UNCHANGED <<time, recorded, reported>>,
         Live' = Live, InCopy' = InCopy, HoleInv', CopyInv',
         cpc' = "report" => cpc = "report" /\ UNCHANGED <<time_hy, idx>>
  PROVE  PlaceParts'
<1>1. Buffered' = Buffered
  <2>1. Buffered' = {time'[i] : i \in Live'}  BY DEF Buffered, Live
  <2> QED  BY <2>1, BufferedLive
<1>2. Account(recorded, Buffered \cup InCopy, reported)'  BY <1>1 DEF PlaceParts, Account
<1>3. Distinct(time, Live)'  BY DEF PlaceParts, Distinct
<1>4. ApartInv'  BY <1>1 DEF PlaceParts, ApartInv, Distinct
<1> QED  BY <1>2, <1>3, <1>4 DEF PlaceParts

LEMMA PlaceMonitor ==
  ASSUME TypeInv, SamplesPairOwnRequest, FreshInv, ~crossed, MeetInv, PlaceParts, MonitorLcore
  PROVE  PlaceParts'
<1>0. HoleInv /\ CopyInv /\ idx_hy \in Nat /\ mload \in Nat
  BY Known DEF PlaceParts, CountTypes
<1>1. CASE IdxLoad
  <2>1. /\ UNCHANGED <<time, recorded, reported, idx_hy, idx, cpc, time_hy>>
        /\ mpc = "idx" /\ mpc' = "idx_store" /\ mload' = idx_hy
    BY <1>1 DEF IdxLoad, Load, Monitor, MonitorStep, sampleVars, copyVars, reportVars
  <2>2. Live' = Live /\ InCopy' = InCopy  BY <2>1 DEF Live, InCopy
  <2>3. HoleInv' /\ CopyInv'  BY <1>0, <2>1 DEF HoleInv, CopyInv
  <2> QED  BY <2>1, <2>2, <2>3, PlaceSame
<1>2. CASE IdxStore
  <2>1. /\ UNCHANGED <<time, recorded, reported, mload, idx, cpc, time_hy>>
        /\ mpc = "idx_store" /\ mpc' = "time_write" /\ idx_hy' = mload + 1
    BY <1>2 DEF IdxStore, Monitor, MonitorStep, register, copyVars, reportVars
  <2>2. Live' = Live /\ InCopy' = InCopy
    BY <1>0, <2>1 DEF Live, InCopy, HoleInv
  <2>3. HoleInv' /\ CopyInv'  BY <1>0, <2>1 DEF HoleInv, CopyInv, MeetInv, CopySteps
  <2> QED  BY <2>1, <2>2, <2>3, PlaceSame
<1>3. CASE ~IdxLoad /\ ~IdxStore /\ ~TimeWrite
  <2>1. /\ UNCHANGED <<time, recorded, reported, idx_hy, idx, cpc, time_hy>>
        /\ mpc \notin {"idx_store", "time_write"} /\ mpc' \notin {"idx_store", "time_write"}
    BY <1>3
    DEF MonitorLcore, Packet, ReqTest, ReqCount, ConnLoad, ConnStore, ReqSeq, ReqStamp,
        ReqRecountLoad, ReqRecountStore, ReqPri, RspTest, GrowTest, GrowThre, Grow, Realloc, RspSeq,
        RspRecountLoad, RspRecountStore, PriLoad, PriStore, PriWrite, Load, Monitor, MonitorStep,
        sampleVars, copyVars, reportVars
  <2>2. Live' = Live /\ InCopy' = InCopy  BY <2>1 DEF Live, InCopy
  <2>3. HoleInv' /\ CopyInv'  BY <1>0, <2>1 DEF HoleInv, CopyInv
  <2> QED  BY <2>1, <2>2, <2>3, PlaceSame
<1>4. CASE TimeWrite  BY <1>4, PlaceTimeWrite
<1> QED  BY <1>1, <1>2, <1>3, <1>4

\* How often a sample is in what was copied.
LEMMA CopiedOnce ==
  ASSUME NEW t, NEW n \in Nat, Distinct(t, 0 .. n - 1), NEW s
  PROVE  Cardinality({i \in 0 .. n - 1 : t[i] = s})
           = IF s \in {t[i] : i \in 0 .. n - 1} THEN 1 ELSE 0
<1>1. CASE s \in {t[i] : i \in 0 .. n - 1}
  <2>1. PICK k \in 0 .. n - 1 : t[k] = s  BY <1>1
  <2>2. {i \in 0 .. n - 1 : t[i] = s} = {k}  BY <2>1 DEF Distinct
  <2>3. Cardinality({k}) = 1  BY FS_Singleton
  <2> QED  BY <1>1, <2>2, <2>3
<1>2. CASE s \notin {t[i] : i \in 0 .. n - 1}
  <2>1. {i \in 0 .. n - 1 : t[i] = s} = {}  BY <1>2
  <2>2. Cardinality({}) = 0  BY FS_EmptySet
  <2> QED  BY <1>2, <2>1, <2>2
<1> QED  BY <1>1, <1>2

LEMMA PlaceReport ==
  ASSUME TypeInv, PlaceParts, Report
  PROVE  PlaceParts'
<1>1. /\ UNCHANGED <<time, recorded, idx_hy, idx, time_hy, mpc, mload>>
      /\ cpc = "report" /\ cpc' = "recount_reset"
      /\ reported' = [s \in Sample |-> reported[s] + Cardinality({i \in 0 .. idx - 1 : time_hy[i] = s})]
  BY DEF Report, Cdf, sampleVars, copyVars, register
<1>2. Live' = Live /\ Buffered' = Buffered /\ InCopy' = {} /\ InCopy = {time_hy[i] : i \in 0 .. idx - 1}
  BY <1>1 DEF Live, Buffered, InCopy
<1>3. idx \in Nat /\ reported \in [Sample -> Nat]  BY Known DEF FlagTypes
<1>4. Distinct(time_hy, 0 .. idx - 1) /\ InCopy \cap Buffered = {}
  BY <1>1 DEF PlaceParts, ApartInv
<1>5. ASSUME NEW s \in Sample
      PROVE  reported'[s] = reported[s] + (IF s \in InCopy THEN 1 ELSE 0)
  <2> DEFINE n == Cardinality({i \in 0 .. idx - 1 : time_hy[i] = s})
  <2>1. n = IF s \in {time_hy[i] : i \in 0 .. idx - 1} THEN 1 ELSE 0
    BY <1>3, <1>4, CopiedOnce
  <2>2. reported'[s] = reported[s] + n  BY <1>1
  <2> HIDE DEF n
  <2> QED  BY <1>2, <2>1, <2>2
<1>6. Account(recorded, Buffered \cup InCopy, reported)'
  <2>1. ASSUME NEW s \in Sample
        PROVE  /\ s \in recorded <=> (s \in Buffered \/ reported'[s] > 0)
               /\ reported'[s] <= 1 /\ ~(reported'[s] = 1 /\ s \in Buffered)
    <3>1. /\ s \in recorded <=> (s \in Buffered \cup InCopy \/ reported[s] > 0)
          /\ reported[s] <= 1 /\ ~(reported[s] = 1 /\ s \in Buffered \cup InCopy)
          /\ reported[s] \in Nat
      BY <1>3 DEF PlaceParts, Account
    <3>2. CASE s \in InCopy
      <4>1. s \notin Buffered /\ reported[s] = 0  BY <1>4, <3>1, <3>2
      <4>2. reported'[s] = 1  BY <1>5, <3>2, <4>1
      <4> QED  BY <3>1, <3>2, <4>1, <4>2
    <3>3. CASE s \notin InCopy
      <4>1. reported'[s] = reported[s]  BY <1>5, <3>1, <3>3
      <4> QED  BY <3>1, <3>3, <4>1
    <3> QED  BY <3>2, <3>3
  <2> QED  BY <1>1, <1>2, <2>1 DEF Account
<1>7. Distinct(time, Live)'  BY <1>1, <1>2 DEF PlaceParts, Distinct
<1>8. HoleInv' /\ CopyInv' /\ ApartInv'
  BY <1>1 DEF PlaceParts, HoleInv, CopyInv, ApartInv, CopySteps
<1> QED  BY <1>6, <1>7, <1>8 DEF PlaceParts

LEMMA PlaceCdf ==
  ASSUME TypeInv, MeetInv, MeetInv', PlaceParts, CdfLcore, ~outside'
  PROVE  PlaceParts'
<1>0. HoleInv /\ CopyInv /\ idx_hy \in Nat /\ idx_hy <= MaxSamples /\ MaxSamples \in Nat
      /\ Account(recorded, Buffered \cup InCopy, reported) /\ Distinct(time, Live)
  BY Known DEF PlaceParts
<1>1. UNCHANGED <<mpc, mload>>  BY CdfFrame
<1>2. CASE Wake \/ ConnReset \/ NothingToReport \/ RecountReset \/ ClearCounts \/ ClearSeqs \/ PriReset
  <2>1. /\ UNCHANGED <<time, recorded, reported, idx_hy, idx>>
        /\ cpc \notin CopySteps \cup {"report"} /\ cpc' \notin CopySteps \cup {"report"}
    BY <1>2
    DEF Wake, ConnReset, NothingToReport, RecountReset, ClearCounts, ClearSeqs, PriReset, Cdf,
        sampleVars, reportVars, CopySteps
  <2>2. Live' = Live /\ InCopy' = InCopy  BY <1>1, <2>1 DEF Live, InCopy, CopySteps
  <2>3. HoleInv' /\ CopyInv'  BY <1>0, <1>1, <2>1 DEF HoleInv, CopyInv, CopySteps
  <2> QED  BY <2>1, <2>2, <2>3, PlaceSame
<1>3. CASE Snapshot
  <2>1. /\ UNCHANGED <<time, recorded, reported, idx_hy>> /\ idx' = idx_hy
        /\ cpc = "test" /\ cpc' = "copy_time"
    BY <1>3 DEF Snapshot, Cdf, sampleVars, reportVars
  <2>2. Live' = Live /\ InCopy' = InCopy  BY <1>1, <2>1 DEF Live, InCopy
  <2>3. HoleInv' /\ CopyInv'  BY <1>0, <1>1, <2>1 DEF HoleInv, CopyInv
  <2> QED  BY <2>1, <2>2, <2>3, PlaceSame
<1>4. CASE CopyTime
  <2>1. /\ UNCHANGED <<time, recorded, reported, idx_hy, idx>>
        /\ cpc = "copy_time" /\ cpc' = "copy_pri"
        /\ time_hy' = [i \in Indices |-> IF i < idx_hy THEN time[i] ELSE time_hy[i]]
    BY <1>4 DEF CopyTime, Arriving, Copied, Cdf, sampleVars, reportVars
  <2>2. Live = 0 .. idx - 1 /\ idx = idx_hy /\ Buffered = {time[i] : i \in 0 .. idx - 1}
    BY <1>0, <2>1, CopiedBuffer DEF CopySteps
  <2>3. \A i \in 0 .. idx - 1 : time_hy'[i] = time[i]  BY <1>0, <2>1, <2>2 DEF Indices
  <2>4. Live' = Live /\ Buffered' = Buffered /\ InCopy = {}
    BY <1>1, <2>1 DEF Live, Buffered, InCopy
  <2>5. InCopy' = Buffered  BY <2>1, <2>2, <2>3 DEF InCopy
  <2>6. Account(recorded, Buffered \cup InCopy, reported)'
    <3>1. Buffered' \cup InCopy' = Buffered \cup InCopy  BY <2>4, <2>5
    <3> QED  BY <1>0, <2>1, <3>1 DEF Account
  <2>7. Distinct(time, Live)'  BY <1>0, <2>1, <2>4 DEF Distinct
  <2>8. HoleInv' /\ CopyInv' /\ ApartInv'
    BY <1>0, <1>1, <2>1, <2>2, <2>3 DEF HoleInv, CopyInv, ApartInv
  <2> QED  BY <2>6, <2>7, <2>8 DEF PlaceParts
<1>5. CASE CopyPri
  <2>1. /\ UNCHANGED <<time, recorded, reported, idx_hy, idx, time_hy>>
        /\ cpc = "copy_pri" /\ cpc' = "idx_reset"
    BY <1>5 DEF CopyPri, Copied, Cdf, sampleVars, reportVars
  <2>2. Live' = Live /\ InCopy' = InCopy  BY <1>1, <2>1 DEF Live, InCopy
  <2>3. HoleInv' /\ CopyInv'  BY <1>0, <1>1, <2>1 DEF HoleInv, CopyInv, CopySteps
  <2> QED  BY <2>1, <2>2, <2>3, PlaceSame
<1>6. CASE IdxReset
  <2>1. /\ UNCHANGED <<time, recorded, reported, idx, time_hy>> /\ idx_hy' = 0
        /\ cpc = "idx_reset" /\ cpc' = "report"
    BY <1>6 DEF IdxReset, Cdf, copyVars, reportVars
  <2>2. Live = 0 .. idx - 1 /\ InCopy = Buffered
    BY <1>0, <2>1, CopiedBuffer DEF CopySteps
  <2>3. Live' = {} /\ Buffered' = {} /\ InCopy' = InCopy
    <3>1. Live' = {}  BY <2>1 DEF Live
    <3>2. Buffered' = {time'[i] : i \in Live'}  BY DEF Buffered, Live
    <3>3. InCopy' = InCopy  BY <2>1 DEF InCopy
    <3> QED  BY <3>1, <3>2, <3>3
  <2>4. Distinct(time_hy, 0 .. idx - 1)
    <3>1. \A i \in 0 .. idx - 1 : time_hy[i] = time[i]  BY <1>0, <2>1 DEF CopyInv
    <3> QED  BY <1>0, <2>2, <3>1 DEF Distinct
  <2>5. Account(recorded, Buffered \cup InCopy, reported)'
    <3>1. Buffered' \cup InCopy' = Buffered \cup InCopy  BY <2>2, <2>3
    <3> QED  BY <1>0, <2>1, <3>1 DEF Account
  <2>6. Distinct(time, Live)'  BY <2>3 DEF Distinct
  <2>7. HoleInv' /\ CopyInv'
    BY <1>0, <1>1, <2>1 DEF HoleInv, CopyInv, MeetInv, CopySteps
  <2>8. ApartInv'  BY <2>1, <2>3, <2>4 DEF ApartInv, Distinct
  <2> QED  BY <2>5, <2>6, <2>7, <2>8 DEF PlaceParts
<1>7. CASE Report  BY <1>7, PlaceReport
<1> QED  BY <1>2, <1>3, <1>4, <1>5, <1>6, <1>7 DEF CdfLcore

OnceInv == SamplesPairOwnRequest /\ FreshInv /\ PlaceInv

LEMMA OnceInit == Init => OnceInv
<1> SUFFICES ASSUME Init PROVE OnceInv
  OBVIOUS
<1>1. recorded = {} /\ idx_hy = 0 /\ mpc = "idle" /\ cpc = "sleep"  BY DEF Init
<1>2. \A s \in Sample : reported[s] = 0  BY DEF Init
<1>3. Live = {} /\ Buffered = {} /\ InCopy = {}
  <2>1. Live = {}  BY <1>1 DEF Live
  <2> QED  BY <1>1, <2>1, BufferedLive DEF InCopy
<1>4. SamplesPairOwnRequest /\ FreshInv
  BY <1>1 DEF SamplesPairOwnRequest, FreshInv, GrowSteps, TakenBefore, NewSteps
<1>5. MeetInv /\ HoleInv /\ CopyInv /\ ApartInv
  BY <1>1 DEF MeetInv, HoleInv, CopyInv, ApartInv, CopySteps
<1>6. Distinct(time, Live)  BY <1>3 DEF Distinct
<1>7. Account(recorded, Buffered \cup InCopy, reported)  BY <1>1, <1>2, <1>3 DEF Account
<1> QED  BY <1>4, <1>5, <1>6, <1>7 DEF OnceInv, PlaceInv

LEMMA OnceStep ==
  ASSUME TypeInv, OnceInv, [Next]_vars
  PROVE  OnceInv'
<1>1. CASE Next
  <2>1. SamplesPairOwnRequest'
    <3>1. CASE TimeWrite
      <4>1. req_out_if[mflow] = Number
        BY <3>1 DEF TypeInv, SeqInv, GrowSteps, NewSteps, TimeWrite, Monitor, MonitorStep
      <4> QED  BY <3>1, <4>1 DEF OnceInv, SamplesPairOwnRequest, TimeWrite
    <3>2. CASE ~TimeWrite  BY <1>1, <3>2, Recording DEF OnceInv, SamplesPairOwnRequest
    <3> QED  BY <3>1, <3>2
  <2>2. FreshInv'  BY <1>1, FreshStep DEF OnceInv
  <2>3. ASSUME ~crossed', ~outside' PROVE MeetInv' /\ PlaceParts'
    <3>1. ~crossed /\ ~outside /\ MeetInv'  BY <1>1, <2>3, Ghosts DEF MeetInv
    <3>2. MeetInv /\ PlaceParts /\ SamplesPairOwnRequest /\ FreshInv
      BY <3>1 DEF OnceInv, PlaceInv, PlaceParts
    <3> QED  BY <1>1, <2>3, <3>1, <3>2, PlaceMonitor, PlaceCdf DEF Next
  <2> QED  BY <2>1, <2>2, <2>3 DEF OnceInv, PlaceInv, PlaceParts
<1>2. CASE UNCHANGED vars
  <2>1. UNCHANGED <<turn, mflow, mpc, mload, cpc, idx, idx_hy, time, time_hy, recorded, reported,
                    Maxseq, crossed, outside>>
    BY <1>2 DEF vars, packet, register, tableVars, sampleVars, copyVars, reportVars
  <2>2. Number' = Number  BY <2>1 DEF Number
  <2>3. TakenBefore' <=> TakenBefore  BY <2>1, <2>2 DEF TakenBefore
  <2>4. SamplesPairOwnRequest' /\ FreshInv'
    BY <2>1, <2>2, <2>3 DEF OnceInv, SamplesPairOwnRequest, FreshInv, GrowSteps
  <2>5. Buffered' = Buffered /\ InCopy' = InCopy /\ Live' = Live
    BY <2>1 DEF Buffered, InCopy, Live
  <2>6. PlaceInv'
    BY <2>1, <2>5 DEF OnceInv, PlaceInv, MeetInv, HoleInv, CopyInv, ApartInv, Distinct, Account
  <2> QED  BY <2>4, <2>6 DEF OnceInv
<1> QED  BY <1>1, <1>2

\* Unless an index crossed the copy or an array was left, every sample recorded is in one place and
\* reported at most once, however the two lcores' steps interleave.
THEOREM SamplesReportedOnce == Spec => []ReportedOnce
<1>1. OnceInv => ReportedOnce
  BY DEF OnceInv, PlaceInv, Account, ReportedOnce
<1> QED  BY TypesAlways, OnceInit, OnceStep, <1>1, PTL DEF Spec
=============================================================================
