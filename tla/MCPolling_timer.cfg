SPECIFICATION Spec
CONSTANTS
  Interval <- ScanInterval
  Latency = 1
  Horizon = 7
  Faults = TRUE
INVARIANTS
  StaleForAReason
  DownIsDetected
