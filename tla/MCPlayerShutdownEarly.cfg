SPECIFICATION ShutdownSpec
CONSTANTS
    main_thread = main_thread
    protocol = protocol
    MainThread = main_thread
    Submitters <- MCSubmitters
    Stoppers <- MCStoppers
    Sessions <- MCSessions
    Commands <- MCCommands
    Capacity = 2
    Reserved = 1
    MaxBurst = 2
    StartSuspended = TRUE
    MaxCommands = 4
CHECK_DEADLOCK FALSE
PROPERTY ShutdownCompletes
