SPECIFICATION MCSpec
CONSTANTS
    Keys = {k1}
    TTL = 1
    TickPeriod = 1
    MaxLag = 0
    Workers = {w1}
    ChanLen = 1
    Planners = {a1}
    NoPlanner = NoPlanner
    Profiles = {f1}
    Pods = {q1}
    MaxErrors = 1
    NoOne = NoOne
    NoKey = NoKey
    Nil = Nil
    PodNames = {p1, p2}
    Options <- MCOptions
    PowerProfiles <- MCPowerProfiles
    Contains <- MCContains
    Intents <- MCIntents
    StepDown = 1
    MaxPath = 2
    MaxRounds = 2
    MaxEvents = 2
PROPERTIES AvailabilityTracked
