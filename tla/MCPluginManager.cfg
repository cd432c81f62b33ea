SPECIFICATION MCSpec
CONSTANTS
    Names = {n1}
    Calls = {c1, c2}
    Stubs = {s1, s2}
    Retries = 1
    None = None
    NumCPU = 4
    DialRetries = 1
    Programs = {"scale_out", "rm_pod", "cpu_scale", "rdt", "energy"}
INVARIANTS CountersMatch PanicsExplained
PROPERTIES RemovedOnlyIfDead RegisterAnswered DeadRemoved MonitorsGetGoing
CHECK_DEADLOCK FALSE
