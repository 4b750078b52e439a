SPECIFICATION FairSpec
CONSTANTS
  Calls = {c1, c2, c3}
  Throwing = {c1}
  None = None
INVARIANTS TypeOK ResultTellsTheTruth EveryCallHasAnOwner NothingLeftBehind NobodySleepsOverWork
PROPERTIES CallsReturn
CHECK_DEADLOCK FALSE
