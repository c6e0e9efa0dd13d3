SPECIFICATION FairSpec
CONSTANTS
  Spikes = {s1}
  Scans = {r1}
  Nobody = Nobody
  DelaysAsked <- Delays
  MaxDelay = 1
  RandomDelay = 2
  Cores = 2
  Durations = {1, 2}
  Grace = 1
  JoinTime = 1
  LookupTime = 1
  ConnectTime = 1
  ScanPingTime = 1
  ToolTime = 2
INVARIANTS TypeOK HoldsAreBounded NothingCutShort Cleaned RefusedIsClean ReportsAreTrue
PROPERTIES LoopComesBack EverythingEnds
CHECK_DEADLOCK FALSE
