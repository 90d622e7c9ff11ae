SPECIFICATION FairSpec
CONSTANTS
  Flows = {f1}
  NoFlow = NoFlow
  HighSize = 0
  LowSize = 0
  BufferSizes = {1, 2}
  MaxReqs = 2
  MaxAgain = 1
INVARIANTS TypeOK SamplesPairOwnRequest ReportedOnce ReportInBounds
PROPERTY EverySampleReported
