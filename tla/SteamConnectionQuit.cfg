SPECIFICATION FairSpec
CONSTANTS
  Wire <- MCWire
  MaxSends = 1
  Attempts = 2
  None = None
PROPERTIES CancelEndsConnection
CHECK_DEADLOCK FALSE
