CONSTANTS
    HealthPeriod = 2
    HeartbeatTimeouts = {1, 3}
    BufCap = 5
    QueueCap = 2
    CmdLen = 4
    OwedCap = 3
    SilenceCap = 4
SPECIFICATION FairLoopSpec
INVARIANTS CommandsAreCounted NoFalseAlarm 
PROPERTY LoopIsLeft
CHECK_DEADLOCK FALSE
