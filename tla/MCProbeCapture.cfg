SPECIFICATION FairSpec
CONSTANTS
    Entity = {probe}
    ProbeEntity = probe
    Widget = {"inner cone"}
    MaxCommands = 1
    MaxPushes = 2
    MaxVersions = 2
    MaxLostAfter = 0
    MaxGrabAfter = 0
    NoDoc = NoDoc
    Idle = Idle
    NoCapture = NoCapture
INVARIANTS
  ProbeInvariant
  SavedReferencesExist
PROPERTIES
  CaptureSettles
