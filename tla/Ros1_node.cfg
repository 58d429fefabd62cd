SPECIFICATION Spec
CONSTANTS
  Inputs <- MCInputs
  MaxConfigs = 3
  MaxFrames = 2
  MaxFaults = 1
INVARIANTS
  TypeOK
  RoiOnSensor
  CameraFollowsNode
  SettingsTogether
  PublishedNotOlder
CHECK_DEADLOCK FALSE
