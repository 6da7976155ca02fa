SPECIFICATION FairSpec
CONSTANTS
  Width = 5
  Height = 4
  Layouts <- MCLayouts
  LayNum = 3
  UserDepth = 2
  OutDepth = 3
  InDepth = 2
  Frames = {f1, f2}
  MaxFailures = 1
INVARIANTS TypeOK NothingLeaks PicturesAreMosaics
PROPERTIES PicturesFlow
CHECK_DEADLOCK FALSE
