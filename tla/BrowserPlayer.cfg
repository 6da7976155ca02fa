SPECIFICATION FairSpec
CONSTANTS
  MaxPackets = 3
  MaxCalls = 3
  MaxFailures = 1
  NumRow = 2
  NumCol = 2
  Canvases = {a, b}
  Indexes = {1, 3}
  Widths = {1920, 3840}
INVARIANTS TypeOK IdleIsExact ViewIsWhole
PROPERTIES NeverGoesBack PictureFollows
