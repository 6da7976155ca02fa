SPECIFICATION Spec
CONSTANTS
  MAX_LAYER_NUMS = 3
  Blks = 1
  LayNum = 2
  FixedRows = 3
  FixedCols = 1
  InitialFiles <- MCInitialFiles
  Requests <- MCRequests
INVARIANTS TypeOK FileHoldsAcked ReplyMatches SavedReadsBack NothingStrays BootsToDefault
PROPERTIES CutShortForGood
