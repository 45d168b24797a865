\* Three runs of every kind of frame, two pump slots and two retained logs.
SPECIFICATION Spec
CONSTANTS
  r1 = r1
  r2 = r2
  r3 = r3
  p1 = p1
  p2 = p2
  p3 = p3
  RunId = {r1, r2, r3}
  PumpId = {p1, p2, p3}
  RawFrames <- AllFrames
  MaxEvents = 2
  MaxRuns = 2
  IdleTtl = 1
  MaxPumps = 2
  IdleTimeout = 0
  MaxFrames = 1
SYMMETRY Symmetry
INVARIANTS
  TypeOK
  LogIsGapFree
  EntryPointsAtLivePump
  EveryPumpIsWatched
  OpenRunIsDrained
  OpenGateHasPump
  RetentionBounded
  LivePumpsBounded
