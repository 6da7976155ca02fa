SPECIFICATION FairSpec
CONSTANTS
  v1 = v1
  v2 = v2
  Cap = 1
  PipeCap = 1
  FrameLens <- MCShortLens
  MaxFrames = 5
  Viewers <- MCOneViewer
PROPERTIES ViewerDrains AbsenceNoticed
CHECK_DEADLOCK FALSE
