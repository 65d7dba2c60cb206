SPECIFICATION FairSpec
CONSTANTS
  Bridges = {b1, b2}
  None = None
  MaxHandles = 1
  MaxOrphans = 1
INVARIANTS
  NoThreadLeftBehind
  OneEntryBridge
  StartedWasAccepted
PROPERTIES
  TakenByLeftoversOnly
  TasksEnd
  SessionKept
