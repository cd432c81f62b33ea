SPECIFICATION ScalingSpec
CONSTANTS
    Executors = {e1}
    MaxPods = 2
    MinPods = 1
    CPURounding = 10
    MaxProActiveCPU = 0
    Predictions = {5}
    Retries = 2
    SeenPods = {2}
    UserReplicas = {2}
    MaxLen = 1
    MaxPlans = 1
PROPERTIES MaxPodsKept
CHECK_DEADLOCK FALSE
