CONSTANTS
  i1 = i1
  i2 = i2
  a = a
  b = b
  Procs = {i1, i2}
  Names = {a, b}
  None = None
  MaxEdits = 1
  MaxFaults = 2
SPECIFICATION Spec
SYMMETRY Symmetry
VIEW View
CHECK_DEADLOCK FALSE
INVARIANT TypeOK
INVARIANT LossNeedsSharing
INVARIANT OpenedIsLocked
INVARIANT NoStaleLock
