SPECIFICATION MCSpec
CONSTANTS
    s1 = s1
    s2 = s2
    Submitters <- MCSubmitters
    Stoppers = {}
    Sessions <- MCSessions
    Commands <- MCCommands
    Capacity = 2
    Reserved = 1
    MaxBurst = 1
    StartSuspended = FALSE
    MaxCommands = 3
    MaxClaims = 2
    EventServices = {"AVT"}
    MaxSubscriptions = 1
    MaxSid = 1
    MaxVersion = 1
    MaxDescriptor = 3
    MaxDlnaStarts = 1
    MaxActions = 2
    MaxLeases = 3
    MaxWaiting = 2
    MaxCalls = 3
    MaxAudio = 2
    Sources = {1, 2}
    Preinstalled = {1}
    MaxRecent = 1
    MaxUserActions = 2
    MaxSuspensions = 1
    MaxCrashes = 1
SYMMETRY Symmetry
CHECK_DEADLOCK FALSE
INVARIANTS
    RendererTypeOK
    DlnaSocketsOwned
    SubscribersCaughtUp
    ReportsWhatMpvDoes
    SourcesKept
PROPERTIES
    TakeoverIsFinal
    SuccessorMediaSafe
    ReleaseSparesSuccessor
    RefusedNeverPlays
