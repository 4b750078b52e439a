SPECIFICATION FairLoginSpec
CONSTANTS
  Accounts = {a1, a2}
  UiCancels = TRUE
PROPERTY RunRestartsTheClient
CHECK_DEADLOCK FALSE
