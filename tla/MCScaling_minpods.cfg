SPECIFICATION ScalingSpec
CONSTANTS
    Executors = {e1}
    MaxPods = 2
    MinPods = 2
    CPURounding = 10
    MaxProActiveCPU = 20
    Predictions = {5}
    Retries = 2
    SeenPods = {2}
    UserReplicas = {2}
    MaxLen = 2
    MaxPlans = 1
PROPERTIES MinPodsKept
CHECK_DEADLOCK FALSE
