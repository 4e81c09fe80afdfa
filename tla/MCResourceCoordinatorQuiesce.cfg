SPECIFICATION Spec
CONSTANTS
    Configs <- ExclusiveConfigs
    MaxFailures = 2
    MaxChanges = 3
INVARIANT ReadyMeansQuiesced
