CONSTANTS
    Service = {s1, s2}
    Task = {t1, t2, t3}
    MaxFailures = 1
    NoTask = NoTask
    NoService = NoService
SPECIFICATION Spec
INVARIANTS NoOrphans
PROPERTIES SignalledTasksEnd HandleIsServed
CHECK_DEADLOCK FALSE
