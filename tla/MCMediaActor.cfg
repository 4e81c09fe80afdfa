SPECIFICATION Spec
CONSTANTS
    s1 = s1
    s2 = s2
    t1 = t1
    app = app
    cast = cast
    Submitters <- MCSubmitters
    Stoppers <- MCStoppers
    Sessions <- MCSessions
    Commands <- MCCommands
    Capacity = 2
    Reserved = 1
    MaxBurst = 1
    StartSuspended = TRUE
    MaxCommands = 3
SYMMETRY Symmetry
INVARIANTS
    TypeOK
    RequestLifetime
    ReservedSlotsKept
    NoneStranded
    DrainHolds
    CoalescingKeepsOrder
