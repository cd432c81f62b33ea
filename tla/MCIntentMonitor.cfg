SPECIFICATION FairSpec
CONSTANTS
    Keys = {k1, k2}
    NoObject = 0
    MaxNotes = 2
    Workers = {w1, w2}
    Tombstones = TRUE
    MaxVersion = 2
    MaxFailures = 1
    NoKey = NoKey
INVARIANTS OneWorkerPerKey
PROPERTIES NeverOlder ImplementsStore LiveIntentsArrive
CHECK_DEADLOCK FALSE
