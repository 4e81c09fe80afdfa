SPECIFICATION SessionSpec
CONSTANTS
    s1 = s1
    s2 = s2
    Submitters <- MCSubmitters
    Stoppers = {}
    Sessions <- MCSessions
    Commands <- MCCommands
    Capacity = 2
    Reserved = 1
    MaxBurst = 2
    StartSuspended = FALSE
    MaxCommands = 3
    MaxClaims = 2
PROPERTY StaleCannotMutate
