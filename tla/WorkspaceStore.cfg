\* Three requests on one saved workspace and on those they create.
SPECIFICATION FairSpec
CONSTANTS
  None = None
  Request = {q1, q2, q3}
  Saved = {w0}
INVARIANTS
  StoreTypeOK
  QuietFileIsCurrent
PROPERTIES
  DurableSpec
  OnlyStalePatchRevives
  EveryRequestAnswered
CHECK_DEADLOCK FALSE
