\* Two runs at a time, two connections; a run starts, and ends in some way.
SPECIFICATION SystemSpec
CONSTANTS
  r1 = r1
  r2 = r2
  p1 = p1
  p2 = p2
  s1 = s1
  s2 = s2
  RunId = {r1, r2}
  PumpId = {p1, p2}
  Socket = {s1, s2}
  RawFrames <- TextFrames
  MaxEvents = 6
  MaxRuns = 2
  IdleTtl = 0
  MaxPumps = 2
  IdleTimeout = 0
  MaxFrames = 0
  MaxTails = 2
  MaxUp = 1
SYMMETRY Symmetry
INVARIANTS
  EveryEventOnce
PROPERTIES
  ManagerSpec
