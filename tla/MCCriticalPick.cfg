CONSTANTS
    Tunnel = {t1, t2}
    Visitor = {v1}
    NoCookie = NoCookie
    StaleThreshold = 1
    CriticalFailures = 2
    SuccessToNormal = 1
    Hysteresis = 1
    MaxTime = 1
SPECIFICATION RoutingSpec
PROPERTIES NeverPicksCritical
CHECK_DEADLOCK FALSE
