SPECIFICATION FairSpec
CONSTANTS
  Configured = {"pg", "redis"}
  Modes = {"down", "hung"}
  Threshold = 3
INVARIANTS TypeOK NoNeedlessRestart ChecksAreLive
PROPERTIES UndisturbedIsUsed Starts OutageRestarts
