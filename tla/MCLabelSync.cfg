CONSTANTS
  d1 = d1
  d2 = d2
  r1 = r1
  r2 = r2
  a = a
  b = b
  Devices = {d1, d2}
  Refs = {r1, r2}
  Vals = {a, b}
  AutoWrites <- OneAuto
  NoVal = NoVal
  SnapshotLimit = 1
  MaxNow = 3
  MaxAuto = 1
  MaxExtras = 2
  MaxSwitches = 2
SPECIFICATION FairSpec
CHECK_DEADLOCK FALSE
INVARIANT TypeOK
INVARIANT QuietDevicesAgree
PROPERTY NeverReset
PROPERTY TalkEnds
