SPECIFICATION Spec
CONSTANTS
  v1 = v1
  v2 = v2
  Cap = 2
  PipeCap = 2
  FrameLens <- MCLens
  MaxFrames = 6
  Viewers <- MCTwoViewers
SYMMETRY MCSymmetry
INVARIANTS TypeOK StreamIntact OneFate BacklogBounded
PROPERTIES ImplementsChannel
CHECK_DEADLOCK FALSE
