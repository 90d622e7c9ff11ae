SPECIFICATION Spec
CONSTANTS
  Flows = {f1, f2}
  Split = {f1}
  REQ_HASH_ENTRIES = 1
  CAT_BUFF = 1
  rsp_pri = TRUE
  Priorities = {0, 1}
  SeqMod = 8
  FirstSeqs = {5}
  Payload = 2
  Window = 1
  MaxReqs = 2
  MaxTime = 2
  MaxAgain = 1
  MaxLost = 0
  MaxReconnect = 1
INVARIANTS CountersAgree SamplesAccurate
CHECK_DEADLOCK FALSE
