CONSTANTS
    Conn = {c1, c2}
    Trusted = {c1, c2}
    Tunnel = {t1, t2}
    Req = {r1, r2}
    Routes <- AnyRoute
    CookieReq = r1
    ChanCap = 1
    CleanupCap = 1
    NoConn = NoConn
    NoTunnel = NoTunnel
    NoReq = NoReq
    Cleaner = Cleaner
SYMMETRY Symm
SPECIFICATION Spec
INVARIANTS ResponsesAreAccounted DeadSenderIsCleaned OnlineHasSession MarkAgreesWithOutcome
PROPERTY CleanupNeedsEnded
CHECK_DEADLOCK FALSE
