SPECIFICATION FairWaiterSpec
CONSTANTS
  LocalItems = {l1}
  RemoteItems = {r1}
  MutexItems = {m1}
INVARIANTS WaiterTypeOK NoLostLocalWakeup NoLostCancel
PROPERTIES CancelEndsTheFiber ImplementsPort
CHECK_DEADLOCK FALSE
