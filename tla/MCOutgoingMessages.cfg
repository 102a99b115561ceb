SPECIFICATION Spec
CONSTANTS
  e1 = e1 e2 = e2 m1 = m1 m2 = m2
  NoEngine = NoEngine
  Msgs = {m1}
  Engines = {e1, e2}
  RetryLimit = 2
  MaxSeq = 1
INVARIANTS AttemptsBounded PendingUnsent SingleFlight
PROPERTIES NeverRevived
