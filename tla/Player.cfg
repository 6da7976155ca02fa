SPECIFICATION FairSpec
CONSTANTS
  Arguments <- MCArguments
INVARIANTS TypeOK NoNullServer OwnChannel FreedOnce
PROPERTIES BothStream
CHECK_DEADLOCK FALSE
