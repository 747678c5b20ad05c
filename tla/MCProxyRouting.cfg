CONSTANTS
    Tunnel = {t1}
    Visitor = {v1, v2}
    NoCookie = NoCookie
    StaleThreshold = 2
    CriticalFailures = 3
    SuccessToNormal = 2
    Hysteresis = 2
    MaxTime = 5
SYMMETRY Symm
SPECIFICATION RoutingSpec
PROPERTIES MarksAreSpaced RecoveryIsSlow OnlyReportRevives
CHECK_DEADLOCK FALSE
