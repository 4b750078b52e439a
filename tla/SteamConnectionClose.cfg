SPECIFICATION Spec
CONSTANTS
  Wire <- MCWire
  MaxSends = 1
  Attempts = 2
  None = None
INVARIANTS LogonBeforeClose
CHECK_DEADLOCK FALSE
