------------------------------ MODULE MCOutput ------------------------------
(* What is printed and written: the clock and the counters (Statistics),   *)
(* the report of an interval (CdfReport), the capture tools (BurstWidth on *)
(* SplitPcap).  They have no state in common, so their interleavings say   *)
(* nothing: each behaviour is one of `program', and the others stay in one *)
(* initial state.                                                          *)
EXTENDS Statistics, CdfReport, MCBurstWidth, TLC

StatSymmetry == Permutations(Clients)
DelaysDef == {1, 2, 4}

VARIABLE program

allVars == <<statVars, vars, toolVars, program>>

OutputInit ==
  /\ StatInit /\ Init /\ ToolsInit
  /\ program \in {"statistics", "report", "tools"}
  /\ program # "statistics" => enable_mcc
  /\ program # "report" => ~OP_MYSQL /\ ~enable_pri

Statistic(A) == program = "statistics" /\ A /\ UNCHANGED <<vars, toolVars, program>>
Report(A) == program = "report" /\ A /\ UNCHANGED <<statVars, toolVars, program>>
Tool(A) == program = "tools" /\ A /\ UNCHANGED <<statVars, vars, program>>

\* burst_width has printed its widths, given up or crashed.
Stopped == stage \in {"done", "exit", "crash"} /\ UNCHANGED toolVars

OutputNext ==
  \/ Statistic(Tick) \/ Statistic(GetTime) \/ Statistic(StoreSec) \/ Statistic(StoreNsec)
  \/ Statistic(CopySec) \/ Statistic(CopyNsec)
  \/ Statistic(CountRequest) \/ Statistic(PrintRequests) \/ Statistic(Remember)
  \/ \E p \in Procs :
       \/ \E c \in Clients : Statistic(RequestNumLoad(p, c))
       \/ Statistic(RequestNumStore(p)) \/ Statistic(Label(p))
       \/ Statistic(BurstLoad(p)) \/ Statistic(BurstStore(p))
  \/ Statistic(Timeout) \/ Statistic(PrintNum) \/ Statistic(ResetNum)
  \/ \E i \in BurstRows : Statistic(PrintRow(i)) \/ Statistic(ResetRow(i))
  \/ \E delay \in Delays, label \in {0, 1} : Report(Record(delay, label))
  \/ Report(cdf_acktime)
  \/ Tool(stage = "split" /\ SplitStep /\ UNCHANGED widthVars)
  \/ \E k \in DOMAIN files : Tool(Start(k))
  \/ Tool(ReadUnset) \/ Tool(add) \/ Tool(EndOfFile) \/ Tool(compute_data)
  \/ Tool(Stopped)

OutputSpec == OutputInit /\ [][OutputNext]_allVars
=============================================================================
