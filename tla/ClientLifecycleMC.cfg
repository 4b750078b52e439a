SPECIFICATION FairLifecycleSpec
CONSTANTS
  Accounts = {a1}
  ModuleFibers = {executor, login}
  LateFibers = {late}
  Executor = executor
  MaxSessions = 2
INVARIANTS LifecycleTypeOK OneSessionPerAccount ClientOutlivesFibers
PROPERTIES WaitAllCoversRestarts QuitAllEnds RestartComesBack
CHECK_DEADLOCK FALSE
