CONSTANT MaxReports = 6
CHECK_DEADLOCK FALSE
SPECIFICATION StatusSpec

INVARIANT StatusTypeOK
INVARIANT SyncedIsComplete
INVARIANT HandledUpdateStays
