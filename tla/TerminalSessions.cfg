\* Three connections compete for one place; with tmux and without.
SPECIFICATION FairSpec
CONSTANTS
  None = None
  Socket = {s1, s2, s3}
  SessionId = {i1}
  Foreign = {f1}
  MaxSessions = 1
INVARIANTS
  TerminalTypeOK
  EveryShellIsReachable
  AttachedOrTimed
  CapOverrunBounded
  OneStopPerStart
PROPERTIES
  ParkedShellEnds
CHECK_DEADLOCK FALSE
