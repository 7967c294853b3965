SPECIFICATION Spec
CONSTANTS
    Asset = {a1, a2}
    Blob = {b1, b2}
    Tool = {t1, t2}
    MaxVersion = 2
    MaxClock = 1
    MaxLosses = 1
    NoOne = NoOne
    NoRecord = NoRecord
    NoIndex = NoIndex
SYMMETRY CacheSymmetry
INVARIANTS
    CacheInvariant
    RecordsHonest
PROPERTIES
    RecordsKept
