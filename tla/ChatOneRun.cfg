\* One run with two frames and two connections.
SPECIFICATION SystemSpec
CONSTANTS
  r1 = r1
  p1 = p1
  s1 = s1
  s2 = s2
  RunId = {r1}
  PumpId = {p1}
  Socket = {s1, s2}
  RawFrames <- GateFrames
  MaxEvents = 6
  MaxRuns = 1
  IdleTtl = 0
  MaxPumps = 1
  IdleTimeout = 0
  MaxFrames = 2
  MaxTails = 1
  MaxUp = 1
INVARIANTS
  SystemTypeOK
  TailsAreOfOpenRuns
  EveryEventOnce
  CaughtUp
  PausedRunShowsItsCard
