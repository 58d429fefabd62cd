SPECIFICATION Spec
CONSTANTS
  MaxAttempts = 2
  MaxCalls = 3
  MaxFaults = 2
  AckPieces = 1
  Faults = {"close", "reset", "crash", "resolve"}
  MaxFrames = 2
INVARIANTS
  TypeOK
  CameraFollowsDriver
  LabelNeverOlder
CHECK_DEADLOCK FALSE
