\* The page over two connections, one of which may be somebody else's; one move.
SPECIFICATION FairSpec
CONSTANTS
  None = None
  Socket = {s1, s2}
  Board = {b1}
  Watched = b1
  Move = {m1}
  MaxCursor = 2
  MaxFetches = 1
INVARIANTS
  KanbanTypeOK
  RefsMatchSubscribers
  SettledBoardIsReal
PROPERTIES
  BoardConverges
  PollerCatchesUp
CHECK_DEADLOCK FALSE
