SPECIFICATION FairSpec
CONSTANTS
    Keys = {k1}
    NoObject = 0
    MaxNotes = 3
    Workers = {w1}
    Tombstones = FALSE
    MaxVersion = 2
    MaxFailures = 1
    NoKey = NoKey
PROPERTIES DeletedIntentsForgotten
CHECK_DEADLOCK FALSE
