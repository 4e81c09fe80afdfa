SPECIFICATION MCSpec
CONSTANTS
    NtpTimes = {1, 3, 8}
    RtpModulus = 3
    NtpPerTick = 2
    TimeBase = 2
    SampleRates = {2}
    Deadband = 1
    MaxCorrection = 1
    SyncJump = 3
    VideoBackward = 1
    VideoForward = 2
    MaxSkew = 2
    MaxPts = 1
    Connections = {"c1"}
    BridgeIds = {1, 2, 3, 4, 5}
    QueueCapacity = 32
    MaxRuntimeGeneration = 2
    MaxRequests = 3
    ControlSlots <- MCControlSlots
    LocalSlots <- MCLocalSlots
    Descriptors = {3, 4, 5}
    LogicalIds = {1}
    MaxSerial = 3
    RemoteSessions = {1, 2}
    RemoteThreads = {"t1", "t2"}
    MaxPlays = 3
    MaxMedia = 1
    ConnectionIds = {1, 2}
    AppleIds = {"A", "B"}
    ClientIds = {"p", "q"}
    MaxLogical = 2
    MaxLogicalId = 2
    MaxReferences = 2
    Window = 4
    Threshold = 3
    SequenceSpace = 8
    MaxLate = 4
    MaxSound = 14
    MaxConnections = 2
    MaxPictures = 5
    VideoConfigs = {"a", "b"}
    MaxSuffix = 3
    MaxReceiverStarts = 2
INVARIANTS
    TypeOK
    RefsBalanced
    MirrorSettles
    ServerSettles
    RemoteSettles
    SessionsSettle
    StreamsWhole
    DiscoverySettles
PROPERTY
    ClockMovesSmoothly
CHECK_DEADLOCK FALSE
