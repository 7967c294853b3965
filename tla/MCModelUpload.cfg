SPECIFICATION FairSpec
CONSTANTS
  SlotCount = 2
  SlotCapacity = 4
  Alignment = 2
  Prepared <- PreparedModels
INVARIANTS
  UploadInvariant
  RecordedIsAlive
PROPERTIES
  BuildEnds
