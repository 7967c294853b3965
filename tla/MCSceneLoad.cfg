SPECIFICATION FairSpec
CONSTANTS
  MaxTasks = 2
  MaxHistory = 2
  MaxSubmissions = 1
INVARIANTS
  LoadInvariant
  SupersededHoldsNothing
PROPERTIES
  PreviewSettles
  CancelledStaysSettled
  ImplementsDeferredRelease
