SPECIFICATION Spec
CONSTANTS
  null = null
  Null = null
  Rows <- MCRows
  InitialRef <- MCRef
  Workers = {1, 2}
  Superusers <- MCSuperusers
  Permitted <- MCPermitted
  Submitted <- MCSubmitted
  MaxRequests = 2
INVARIANT CatalogueTypeOK
PROPERTIES GuardedDeletion MachineLossAsked
CHECK_DEADLOCK FALSE
