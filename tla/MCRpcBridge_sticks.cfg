SPECIFICATION Spec
CONSTANTS
  c1 = c1
  c2 = c2
  s1 = s1
  s2 = s2
  Calls = {c1, c2}
  Settings = {s1}
  Tokens = {t1, t2}
  Op <- SameEntityOp
  SettingOf <- SameEntitySetting
  MaxDup = 0
  None = None
SYMMETRY SameEntitySymmetry
INVARIANTS
  SticksOnlyOnAck
