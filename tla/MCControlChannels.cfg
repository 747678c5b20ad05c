CONSTANTS
    Service = {s1}
    Conn = {c1, c2, c3}
    Version = {v1, v2}
    Http = {v2}
    NoConn = NoConn
    NoService = NoService
    NoVersion = NoVersion
SPECIFICATION FairSpec
INVARIANTS ServedUntilReplaced StaleOnlyIfOvertaken
PROPERTY HandshakesEnd
CHECK_DEADLOCK FALSE
