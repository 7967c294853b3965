SPECIFICATION FairSpec
CONSTANTS
  Environments = {sky}
  MaxGenerations = 2
  MaxScenes = 1
  MaxRetired = 1
  ImageCount = 1
  MaxSubmissions = 1
INVARIANTS
  EnvironmentInvariant
PROPERTIES
  CancelledStaysUnpublished
  ImplementsDeferredRelease
  PendingSettles
