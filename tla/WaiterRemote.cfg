SPECIFICATION WaiterSpec
CONSTANTS
  LocalItems = {}
  RemoteItems = {r1}
  MutexItems = {}
INVARIANT WakeupIsThreadsafe
CHECK_DEADLOCK FALSE
