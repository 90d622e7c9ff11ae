SPECIFICATION Spec
CONSTANTS
  MaxPorts = 2
  MAX_CHECK_TIME = 2
  MaxQueues = 2
  NoPort = NoPort
  QUESIZE = 3
  TicksPerSec = 2
  rsp_pri = FALSE
  Requests = {"GET", "POST"}
  Responses = {"200", "500"}
  SeqMod = 64
  REQ_HASH_ENTRIES = 8
  MaxReqs = 2
  MaxTime = 3
INVARIANTS TypeOK FirstPortServed LinksPrintedOnce SamplesAsConfigured AnswersMeasured
CHECK_DEADLOCK FALSE
