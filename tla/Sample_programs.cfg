SPECIFICATION FairSpec
CONSTANTS
  ImageTypes <- MCImageTypes
  MaxFlight = 2
INVARIANTS
  NothingGoneIsUsed
  ShowsWhatWasComputed
  LeavesWhatItClaims
PROPERTIES
  EndsAfterExit
CHECK_DEADLOCK FALSE
