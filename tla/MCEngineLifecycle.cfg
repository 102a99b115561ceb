SPECIFICATION EngineFairSpec
CONSTANTS
  c1 = c1 c2 = c2 c3 = c3
  NoCaller = NoCaller
  Callers <- MCCallers
  MaxCalls = 3
  EarlyOverlap = FALSE
CHECK_DEADLOCK FALSE
INVARIANTS EngineObeys
PROPERTIES EngineStops
