\* One run and two connections, under the fairness of the wire and the timers.
SPECIFICATION FairSystemSpec
CONSTANTS
  r1 = r1
  p1 = p1
  s1 = s1
  s2 = s2
  RunId = {r1}
  PumpId = {p1}
  Socket = {s1, s2}
  RawFrames <- AskFrames
  MaxEvents = 6
  MaxRuns = 1
  IdleTtl = 1
  MaxPumps = 1
  IdleTimeout = 0
  MaxFrames = 1
  MaxTails = 1
  MaxUp = 1
PROPERTIES
  TabSettles
  PumpedRunSettles
  GateCloses
