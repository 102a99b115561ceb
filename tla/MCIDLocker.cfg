SPECIFICATION FairSpec
CONSTANTS
  p1 = p1 p2 = p2 p3 = p3 p4 = p4
  k1 = k1 k2 = k2
  Procs <- MCProcs
  IDs <- MCIDs
  MaxHeld = 1
  MaxWait = 2
  NoProc = NoProc
INVARIANTS SlotsExact NoLostWaiter
PROPERTIES ImplementsSemaphore WaiterServed
