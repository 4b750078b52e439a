SPECIFICATION FairLifecycleSpec
CONSTANTS
  Accounts = {a1}
  ModuleFibers = {executor, login}
  LateFibers = {late}
  Executor = executor
  MaxSessions = 1
PROPERTY QuitEndsTheClient
CHECK_DEADLOCK FALSE
