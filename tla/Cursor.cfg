CONSTANTS
    Built      = {"OPT_SENSOR", "SHELL"}
    NumSources = 2
    MaxSources = 2
    MaxMotion  = 3
    MaxFaults  = 1
SPECIFICATION CursorFairSpec
INVARIANTS MotionKept MotionOnce
PROPERTIES MotionRead
