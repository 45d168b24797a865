\* A prompt is sent, a new chat opened, and another prompt sent.
SPECIFICATION SystemSpec
CONSTANTS
  r1 = r1
  r2 = r2
  p1 = p1
  p2 = p2
  s1 = s1
  RunId = {r1, r2}
  PumpId = {p1, p2}
  Socket = {s1}
  RawFrames <- TextFrames
  MaxEvents = 6
  MaxRuns = 2
  IdleTtl = 1
  MaxPumps = 2
  IdleTimeout = 0
  MaxFrames = 1
  MaxTails = 2
  MaxUp = 2
INVARIANT
  LeftRunStaysOut
