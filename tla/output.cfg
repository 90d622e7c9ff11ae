SPECIFICATION OutputSpec
CONSTANTS
  NsPerSec = 2
  Word = 3
  IP_NUM = 2
  Procs = {p1, p2}
  Clients = {c1, c2, c3}
  NoClient = NoClient
  BURST_HASH_ENTRIES = 3
  MaxNow = 5
  MaxCount = 3
  Delays <- DelaysDef
  Step = 2
  SASP = 2
  HighSize = 0
  LowSize = 1
  Precision = 24
  MaxSamples = 4
  MsPerSec = 3
  UsecPerMs = 2
  Limit = 2
  CommentLimit = 1
  Sources <- MCSources
  MaxPkts = 3
  MaxTime = 12
  MaxGroups = 3
INVARIANTS
  StatTypes StampOffByLessThanASecond NoRequestShownTwice CountsAddUp
  TypeOK PercentilesAreQuantiles SketchCountsInterval
  ToolTypes SplitKeepsCapture FilesAreBursts GroupsByNetwork WidthOfSplitFile
SYMMETRY StatSymmetry
