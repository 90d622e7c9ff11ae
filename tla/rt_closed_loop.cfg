SPECIFICATION Spec
CONSTANTS
  Flows = {f1, f2}
  Split = {}
  REQ_HASH_ENTRIES = 2
  CAT_BUFF = 1
  rsp_pri = FALSE
  Priorities = {1}
  SeqMod = 64
  FirstSeqs = {1}
  Payload = 2
  Window = 1
  MaxReqs = 2
  MaxTime = 3
  MaxAgain = 1
  MaxLost = 1
  MaxReconnect = 0
SYMMETRY FlowSymmetry
INVARIANTS TypeOK SamplesAccurate OneSamplePerRequest NoFalseRetrans NothingMissed
CHECK_DEADLOCK FALSE
