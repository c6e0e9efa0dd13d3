SPECIFICATION FairPageSpec
CONSTANTS
  Configured = {"pg", "redis"}
  Modes = {"down", "hung"}
  Threshold = 1
  Polls = {1, 2}
INVARIANTS PageTypeOK
PROPERTIES PageCatchesUp
