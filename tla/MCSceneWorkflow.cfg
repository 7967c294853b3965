SPECIFICATION FairSpec
CONSTANTS
  m1 = m1
  m2 = m2
  m3 = m3
  s1 = s1
  p1 = p1
  p2 = p2
  Keys <- WorkflowKeys
  Models = {m1, m2}
  NewModel = m3
  Scene = s1
  NewProfile = p2
  Profiles = {p1, p2}
  MaxTasks = 2
  MaxHistory = 1
  MaxOperations = 2
  MaxChanges = 1
INVARIANTS
  WorkflowInvariant
PROPERTIES
  LoadsTheChosenEntry
  CancelFreesWorker
  ShutdownEnds
