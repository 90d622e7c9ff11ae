SPECIFICATION ToolsSpec
CONSTANTS
  MsPerSec = 4
  UsecPerMs = 2
  Limit = 2
  CommentLimit = 1
  Sources <- MCSource
  MaxPkts = 3
  MaxTime = 8
  MaxGroups = 3
INVARIANT AsDocumented
CHECK_DEADLOCK FALSE
