SPECIFICATION EditorSpec
CONSTANTS
    Entity = {box}
    ProbeEntity = probe
    Widget = {"transform", "inner cone", "outer cone"}
    MaxCommands = 2
    MaxPushes = 3
    MaxVersions = 3
    MaxLostAfter = 1
    MaxGrabAfter = 3
    NoDoc = NoDoc
    Idle = Idle
CONSTRAINT Explored
INVARIANTS
  EditorInvariant
  CleanMeansSaved
PROPERTIES
  ForeignWritesKept
  BindingsRequested
