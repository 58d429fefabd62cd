SPECIFICATION Spec
CONSTANTS
  Messages <- MCMessages
  Garbage <- MCGarbage
  MaxMessages = 2
  MaxFaults = 2
INVARIANTS
  TypeOK
  MessageGetsThrough
PROPERTY
  FramingSpec
CHECK_DEADLOCK FALSE
