SPECIFICATION FairSpec
CONSTANTS
  MaxAttempts = 3
  MaxCalls = 4
  MaxFaults = 3
  AckPieces = 1
  Faults = {"close", "reset", "crash", "resolve"}
INVARIANTS
  TypeOK
  StateFollowsOperation
  AtMostOncePerConnection
PROPERTIES
  RpcSpec
  RefusedForGood
  CallRunsDown
  CallReturnsOrAckIsLost
CHECK_DEADLOCK FALSE
