CONSTANTS
  Factories <- MCFactories
  Elements <- MCElements
  Owner <- MCOwner
  MayFail <- MCMayFail
  Lookups <- MCLookups
  Wanted <- MCWanted
SPECIFICATION Spec
INVARIANTS TypeOK RegistryComplete NullOnlyAfterFailure AssertHolds
CHECK_DEADLOCK FALSE
