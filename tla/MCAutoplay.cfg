SPECIFICATION LibmpvSpec
CONSTANTS
    MaxCalls = 3
    MaxAudio = 2
CHECK_DEADLOCK FALSE
INVARIANT AutoplayHappens
