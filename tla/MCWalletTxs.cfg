CONSTANTS
  p = p
  c = c
  r = r
  Tx <- Three
  Parents <- ThreeParents
  Beats <- OneConflict
  MaxChanges = 3
  MaxStarts = 2
SPECIFICATION Spec
VIEW View
CHECK_DEADLOCK FALSE
INVARIANT TypeOK
INVARIANT QuietViewIsCurrent
INVARIANT ShownIsAnnounced
PROPERTY UpdateSettlesChains
PROPERTY AnnouncedOnce
