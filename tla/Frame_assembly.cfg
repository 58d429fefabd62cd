SPECIFICATION FairSpec
CONSTANTS
  Sizes = {2, 3, 4}
  MaxFrames = 3
  MaxFaults = 3
  Faults = {"join", "first", "middle", "last", "swap"}
INVARIANTS
  TypeOK
  OneTakenBackPerHead
  NeverOlder
  LastCellIsNewest
PROPERTIES
  DeliverySpec
  EveryFrameArrives
CHECK_DEADLOCK FALSE
