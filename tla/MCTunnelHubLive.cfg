CONSTANTS
    Conn = {c1, c2, c3}
    Trusted = {c1}
    Tunnel = {t1}
    Req = {r1, r2}
    Routes <- CookieAndTunnel
    CookieReq = r1
    ChanCap = 1
    CleanupCap = 1
    NoConn = NoConn
    NoTunnel = NoTunnel
    NoReq = NoReq
    Cleaner = Cleaner
SPECIFICATION FairSpec
PROPERTIES RequestsEnd ClosedSendersLeave
CHECK_DEADLOCK FALSE
