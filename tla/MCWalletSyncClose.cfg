CONSTANTS
  MaxEvents = 6
  MaxOutages = 2
CHECK_DEADLOCK FALSE

SPECIFICATION Spec
INVARIANT ClosedTabHasNoBridge
