CONSTANTS
    QueueSize = 2
    PrioritySize = 2
    DebounceCount = 1
    RetryTimes = 2
    AckTimeout = 1
    AckFifo = 2
    Peers = {"acu"}
    Requests <- AnAcu
    UrgentRequests <- ToItself
    Refused <- AnAcu
    Boards = {"acu", "mcu", "hmi"}
    Talkers = {"acu"}
    Elsewhere = {"pc"}
    CounterLimit = 2
    Retries = 1
    CollisionRetries = 1
    MaxMessages = 2
    SequenceLast = 5
    TxTimer = 1
    TxPeriod = 3
    RxPeriod = 4
    WireSize = 2
    Standard = 2
    SOB = 3
    MaxByte = 5
    CommBufferSize = 4
    Frames <- FiveFrames
    OpenVoltage = 2
    MinWait = 4
    CloseVoltage = 4
    Tolerance = 1
    MaxVoltage = 7
SPECIFICATION ServicesSpec
INVARIANTS
    ServicesTypeOK
    TrustedInSequence
PROPERTIES
    WaitingEnds
    ParsedOnce
    NewIsParsed
    LinkRecovers
    TxBufferFreed
    BackInStep
    BusReadyComes
