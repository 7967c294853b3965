SPECIFICATION FairSpec
CONSTANTS
  FrameCount = 3
  MaxSubmissions = 6
INVARIANTS
  IInv
PROPERTIES
  ImplementsClock
  OutOfDateResolved
