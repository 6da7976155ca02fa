SPECIFICATION Spec
CONSTANTS
  v1 = v1
  v2 = v2
  Cap = 2
  PipeCap = 2
  FrameLens <- MCLens
  MaxFrames = 4
  Viewers <- MCOneViewer
PROPERTIES DropMeansNoClient
CHECK_DEADLOCK FALSE
