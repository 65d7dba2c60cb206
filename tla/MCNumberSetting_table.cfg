SPECIFICATION Spec
CONSTANTS
  Definitions <- Table
  Asked <- Near
  None = None
INVARIANTS
  StoredInRange
  FixedWidth
  StepRespected
  ShownNearStored
