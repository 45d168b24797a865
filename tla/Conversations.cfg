\* A saved session and those that three messages begin, and two moves among them.
SPECIFICATION FairSpec
CONSTANTS
  None = None
  Saved = {a1}
  Message = {m1, m2, m3}
  MaxMoves = 2
INVARIANTS
  ConversationTypeOK
  UrlNamesTheChat
  OneFlushPerRun
PROPERTIES
  OnlyTheChoiceIsShown
  FlushStaysInTheChat
  QueueDrains
CHECK_DEADLOCK FALSE
