SPECIFICATION MCSpec
CONSTANTS
    Nodes = {s0, s1, s2, goal, mid}
    Start = s0
    Goal = goal
    Mid = mid
    Labels = {a1, a2, done, opportunistic}
    Done = done
    Opportunistic = opportunistic
    Utilities = {0, 90}
    Distances <- MCDistances
    MaxStates = 4
    MaxCandidates = 1
    OpportunisticCandidates = {0, 1, 2}
    Nobody = Nobody
    Keys = {k1}
    NoObject = 0
    MaxNotes = 2
    Workers = {w1, w2}
    DefaultKeys = {}
    Tombstones = TRUE
    MaxChanges = 3
    MaxFailures = 1
    NoKey = NoKey
INVARIANTS PathIsWay NilOnlyIfNone ShortcutIsPriced PlanReachesGoal OneWritePerChange
PROPERTIES Terminates VerdictFits ProfilesArrive UnderstoodAreResolved
CHECK_DEADLOCK FALSE
