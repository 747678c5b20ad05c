CONSTANTS
    PoolSize = 2
    VisitorCap = 1
    ChanCap = 5
    MaxVisitors = 4
    MaxLost = 2
    MaxBroken = 2
SPECIFICATION FairSpec
INVARIANTS StockCoversVisitors NoVisitorForgotten ChannelSendNeverWaits
PROPERTIES VisitorsServed DroppedServiceEnds
CHECK_DEADLOCK FALSE
