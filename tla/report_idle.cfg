SPECIFICATION TurnsSpec
CONSTANTS
  Flows = {f1}
  NoFlow = NoFlow
  HighSize = 0
  LowSize = 0
  BufferSizes = {2}
  MaxReqs = 2
  MaxAgain = 0
INVARIANT ConnectionsCounted
