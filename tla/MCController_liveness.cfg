SPECIFICATION FairSpec
CONSTANTS
    Keys = {k1}
    TTL = 1
    TickPeriod = 1
    MaxLag = 1
    Workers = {w1}
    ChanLen = 1
    Planners = {a1}
    NoPlanner = NoPlanner
    Profiles = {}
    Pods = {}
    MaxErrors = 0
    NoOne = NoOne
    NoKey = NoKey
PROPERTIES NeverEvictedEarly EntriesExpire EvaluatedUnlessWedged
