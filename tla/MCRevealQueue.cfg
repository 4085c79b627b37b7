CONSTANTS
    QueueSize = 2
    PrioritySize = 2
    DebounceCount = 2
    RetryTimes = 2
    AckTimeout = 1
    AckFifo = 2
    Peers = {"acu"}
    Requests <- ToItself
    UrgentRequests <- AllThree
    Refused <- Commands
SPECIFICATION RevealSpec
PROPERTIES
    OnlyHeartbeatsLost
    PriorityKeepsLine
    UrgentLine
