SPECIFICATION Spec
CONSTANTS
  RxQue = 1
  PrQue = 1
  QUESIZE = 3
  REBUFF = 2
  MaxPkts = 6
  MaxGrowth = 1
PROPERTY NoEntrySkipped
