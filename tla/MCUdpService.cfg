CONSTANTS
    Visitor = {v1}
    Fwd = {f1, f2}
    InCap = 1
    OutCap = 1
    WireCap = 1
    Main = Main
    NoFwd = NoFwd
    NoVisitor = NoVisitor
SPECIFICATION FairServiceSpec
INVARIANTS MappingIsOwn
PROPERTIES PacketsAreHandled PoolObeysShutdown BrokenChannelHeals
CHECK_DEADLOCK FALSE
