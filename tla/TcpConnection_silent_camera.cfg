SPECIFICATION FairSpec
CONSTANTS
  MaxAttempts = 2
  MaxCalls = 1
  MaxFaults = 1
  AckPieces = 1
  Faults = {"crash"}
PROPERTIES
  CallReturns
CHECK_DEADLOCK FALSE
