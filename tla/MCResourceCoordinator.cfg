SPECIFICATION FairSpec
CONSTANTS
    Configs <- MCConfigs
    MaxFailures = 2
    MaxChanges = 3
INVARIANTS
    TypeOK
    OneDriver
    StopLeavesNothing
    ReceiversIsolated
PROPERTY ResourcesConverge
