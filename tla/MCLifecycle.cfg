SPECIFICATION FairSpec
CONSTANTS
  c1 = c1 c2 = c2 c3 = c3
  NoCaller = NoCaller
  Callers <- MCCallers
  MaxCalls = 4
  EarlyOverlap = FALSE
CHECK_DEADLOCK FALSE
INVARIANTS NoPanic CallbacksExclusive StatusConsistent
PROPERTIES CallsReturn
