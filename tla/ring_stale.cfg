SPECIFICATION Spec
CONSTANTS
  RxQue = 1
  PrQue = 1
  BufferLen = 2
  MaxBurst = 1
  MaxPkts = 2
  NB_MBUF = 1
  NoMbuf = NoMbuf
INVARIANT ParsedIsReceived
