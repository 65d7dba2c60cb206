SPECIFICATION FairSpec
CONSTANTS
  c1 = c1
  c2 = c2
  s1 = s1
  s2 = s2
  Calls = {c1, c2}
  Settings = {s1, s2}
  Tokens = {t1, t2}
  Op <- PressReadOp
  SettingOf <- PressReadSetting
  MaxDup = 1
  None = None
INVARIANTS
  PendingIsWaiting
  OutcomeIsOwnAnswer
PROPERTIES
  EveryCallEnds
