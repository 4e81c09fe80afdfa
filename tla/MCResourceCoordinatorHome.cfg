SPECIFICATION Spec
CONSTANTS
    Configs <- ExclusiveConfigs
    MaxFailures = 0
    MaxChanges = 2
INVARIANT HomeIsComplete
