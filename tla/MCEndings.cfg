SPECIFICATION MCSpec
CONSTANTS
    main_thread = main_thread
    protocol = protocol
    other = other
    MainThread = main_thread
    Submitters <- MCSubmitters
    Stoppers <- MCStoppers
    Sessions <- MCSessions
    Commands <- MCCommands
    Capacity = 2
    Reserved = 1
    MaxBurst = 2
    StartSuspended = TRUE
    MaxCommands = 4
    RingCapacity = 3
    Packets <- MCPackets
    MaxReadSize = 2
    MaxGeneration = 1
    MaxBytes = 6
    Writers = {"w1", "w2"}
    QueueSize = 2
    HistorySize = 2
    MaxLines = 6
    MaxLogStarts = 2
CHECK_DEADLOCK FALSE
INVARIANT DetachOnlyWhenDrained
PROPERTIES
    StopIsComplete
    SubmissionsReturn
    ActivatedShutdownCompletes
    BridgeIsByteStream
    CancelFreesAll
    LogSettles
