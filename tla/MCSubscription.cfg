CONSTANTS
  monthly = monthly
  yearly = yearly
  Plans = {monthly, yearly}
  None = None
  MaxOpen = 2
SPECIFICATION Spec
CHECK_DEADLOCK FALSE
INVARIANT TypeOK
INVARIANT EnabledHasAccess
INVARIANT SubscriptionIsWhole
PROPERTY ActivationEnds
