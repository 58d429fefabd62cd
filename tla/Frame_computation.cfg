SPECIFICATION Spec
CONSTANTS
  Frames <- MCFrames
  Distances <- MCDistances
INVARIANTS
  TypeOK
  FramesAreWhole
  ColourTellsDepth
PROPERTIES
  IndicesInRange
  NoSeams
  OffTableOnlyWideCorners
