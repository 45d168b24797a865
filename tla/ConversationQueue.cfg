\* A queued message is sent while another conversation is shown.
SPECIFICATION Spec
CONSTANTS
  None = None
  Saved = {a1}
  Message = {m1, m2}
  MaxMoves = 2
INVARIANTS
  QueuedMessageStays
CHECK_DEADLOCK FALSE
