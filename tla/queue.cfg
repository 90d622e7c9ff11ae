SPECIFICATION FairSpec
CONSTANTS
  RxQue = 2
  PrQue = 2
  QUESIZE = 2
  REBUFF = 1
  MaxPkts = 3
  MaxGrowth = 1
INVARIANTS TypeOK SoundUntilGrowth
PROPERTIES FifoWhileSound EveryEntryMeasured
