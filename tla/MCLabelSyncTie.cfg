CONSTANTS
  d1 = d1
  d2 = d2
  r1 = r1
  r2 = r2
  a = a
  b = b
  Devices = {d1, d2}
  Refs = {r1}
  Vals = {a, b}
  AutoWrites <- OneAuto
  NoVal = NoVal
  SnapshotLimit = 1
  MaxNow = 2
  MaxAuto = 1
  MaxExtras = 1
  MaxSwitches = 0
SPECIFICATION Spec
CHECK_DEADLOCK FALSE
PROPERTY ManualSupersedesAutomatic
