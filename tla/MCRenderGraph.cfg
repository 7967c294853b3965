SPECIFICATION GraphSpec
CONSTANTS
  Nodes <- MCNodes
  Features = {"occlusion", "gtao", "ddgi"}
  Single = {"shadow", "atlas"}
  Persistent = {}
  External = {"atlas"}
  Viewport = {"surface", "hierarchy", "gtao"}
  Callbacks <- MCCallbacks
  FramesInFlight = 2
  MaxResizes = 1
  MaxSubmissions = 4
CHECK_DEADLOCK FALSE
INVARIANTS
  SetsInvariant
  AccessesAreOrdered
PROPERTIES
  DestroyedAfterUse
