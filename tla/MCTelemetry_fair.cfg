SPECIFICATION FairSpec
CONSTANTS
  pv = pv
  load = load
  Keys = {pv, load}
  Messages <- Shapes
  MaxMessages = 2
  MaxDrops = 2
INVARIANTS
  Inductive
  FreshWhenQuiet
  OnlineIsCurrent
  StampHasReading
PROPERTIES
  NeverOlder
  AckedIsShown
  DropIsShown
  ReplicatesState
  SnapshotsOnly
