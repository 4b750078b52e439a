SPECIFICATION FairSpec
CONSTANTS
  Wire <- MCWire
  MaxSends = 2
  Attempts = 2
  None = None
INVARIANTS TypeOK InWireOrder LogonHoldsBack NoPacketStranded
PROPERTIES EndIsReached
CHECK_DEADLOCK FALSE
