CONSTANTS
    Conn = {c1, c2}
    Tunnel = {t1}
    Req = {r1, r2, r3}
    ChanCap = 1
    NoConn = NoConn
    NoTunnel = NoTunnel
    NoReq = NoReq
SPECIFICATION FairSpec
INVARIANTS RegistryIsTrue SendFindsReceiver RequestIsKept
PROPERTIES NobodyStarves RepliesArrive
CHECK_DEADLOCK FALSE
