SPECIFICATION MCSpec
CONSTANTS
    Keys = {k1}
    NoObject = NoObject
    MaxNotes = 2
    Workers = {w1, w2}
    Tombstones = TRUE
    MaxIncidents = 1
    MaxOutages = 2
    MaxFailures = 1
    None = None
    Executors = {e1, e2}
    MaxPods = 2
    MinPods = 1
    CPURounding = 10
    MaxProActiveCPU = 20
    Predictions = {5}
    Retries = 2
    SeenPods = {2}
    UserReplicas = {1}
    MaxLen = 2
    MaxPlans = 2
INVARIANTS TwicePerOutage NoLostUpdates
PROPERTIES CachedErrorsLeave ImplementsWorkload MissedByOneAtMost PlansEnd
CHECK_DEADLOCK FALSE
