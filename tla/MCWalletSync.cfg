CONSTANTS
  MaxEvents = 6
  MaxOutages = 2
CHECK_DEADLOCK FALSE

SPECIFICATION FairSpec
INVARIANT TypeOK
INVARIANT QuietIsTruthful
PROPERTY Settles
PROPERTY SkippedAddressesAreSynced
