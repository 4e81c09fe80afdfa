SPECIFICATION FairSpec
CONSTANTS
    Threads <- MCThreads
    MainThread = "main"
    Claims <- MCClaims
    Exclusive = TRUE
    Wrap = 8
    FirstGenerations <- MCFirstGenerations
    MaxAttempts = 3
INVARIANTS
    TypeOK
    StoppedIsClean
PROPERTIES
    ExclusiveHandOver
    Convergence
