CONSTANTS
    Files <- SmallFiles
    Broken = Broken
    Invalid = Invalid
    NoConfig = NoConfig
    NoSide = NoSide
    NotConfigured = NotConfigured
    NoToken = NoToken
    NoRetry = NoRetry
    MaxNotices = 2
    s1 = s1
    s2 = s2
    t1 = t1
    t2 = t2
SPECIFICATION WatcherSpec
INVARIANTS EventsCarryTheEdits RuntimeOptionsAreSet
CHECK_DEADLOCK FALSE
