SPECIFICATION Spec
CONSTANTS
  Pushes <- Probed
INVARIANTS
  OneClaimant
  OnlyAliensRaise
  LastReadingWins
  ReadingsAreShown
  NothingUnreported
CHECK_DEADLOCK FALSE
