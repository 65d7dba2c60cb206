SPECIFICATION FairSpec
CONSTANTS
  pv = pv
  load = load
  Keys = {pv, load}
  Messages <- Shapes
  MaxMessages = 1
  MaxDrops = 1
PROPERTIES
  OnlineMeansReporting
