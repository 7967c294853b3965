SPECIFICATION FairSpec
CONSTANTS
  MaxSubmissions = 4
  Outputs = {o1, o2}
  MaxTasks = 3
  MaxActive = 2
  MaxTerminal = 1
INVARIANTS
  CaptureInvariant
PROPERTIES
  TransitionsValid
  BufferOutlivesCopy
  CaptureEnds
