CONSTANTS
  update = update
  info = info
  warning = warning
  Loops = {update, info, warning}
  UpdateLoop = update
  MaxOutages = 2
SPECIFICATION FairSpec
CHECK_DEADLOCK FALSE
INVARIANT TypeOK
INVARIANT OneLiveNode
INVARIANT RestartsBounded
PROPERTY EventuallyHealthy
PROPERTY LoopsEnd
