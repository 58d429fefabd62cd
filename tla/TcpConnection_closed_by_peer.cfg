SPECIFICATION FairSpec
CONSTANTS
  MaxAttempts = 2
  MaxCalls = 1
  MaxFaults = 1
  AckPieces = 1
  Faults = {"close"}
PROPERTIES
  LostConnectionReconnects
CHECK_DEADLOCK FALSE
