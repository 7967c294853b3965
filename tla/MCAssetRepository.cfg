SPECIFICATION FairSpec
CONSTANTS
  Keys = {k1, k2}
  Holders = {world, task}
  MaxGenerations = 2
  MaxSubmissions = 1
INVARIANTS
  IInv
PROPERTIES
  UnusedIsReleased
  LoadSettles
  ImplementsDeferredRelease
