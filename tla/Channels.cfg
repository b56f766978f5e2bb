\* all four programs, with a connection that may be lost
SPECIFICATION FairSpec
CONSTANTS
    MaxMsgs = 3
    MaxDrops = 1
    MaxPending = 2
    SendCap = 1
INVARIANTS ChannelTypeOK StreamAligned AudioSessionClean
PROPERTIES CloseEndsClient ChannelReconnects ChannelDestructorReturns AccelerometerFlows DeliversMessages
CHECK_DEADLOCK FALSE
