SPECIFICATION FairSpec
CONSTANTS
  e1 = e1 e2 = e2 m1 = m1 m2 = m2
  NoEngine = NoEngine
  Msgs <- MCMsgs
  Engines = {e1}
  RetryLimit = 1
  MaxSeq = 0
INVARIANTS CheckConstraints
PROPERTIES NotStuckSending
