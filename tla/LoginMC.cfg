SPECIFICATION FairLoginSpec
CONSTANTS
  Accounts = {a1, a2}
  UiCancels = FALSE
INVARIANTS LoginTypeOK AssertionsHold RefusedIsNotResent NoSessionForgotten
PROPERTY AskedIsRestarted
CHECK_DEADLOCK FALSE
