SPECIFICATION RxSpec
CONSTANTS
  RxQue = 2
  PrQue = 1
  BufferLen = 2
  MaxBurst = 2
  MaxPkts = 2
  NB_MBUF = 2
  NoMbuf = NoMbuf
INVARIANTS TypeOK RingInv SpscExclusion MbufsConserved
PROPERTIES RingIsFifo EveryMbufReturns EveryPacketParsed
