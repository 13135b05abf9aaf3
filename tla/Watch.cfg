SPECIFICATION Spec
CONSTANTS
    MaxTime = 8
    MaxClaims = 2
    BeatEvery = 1
    MaxDelay = 1
    MaxLost = 1
    Interval = 1
    MaxMisses = 1
    StallS = 2
    CrashS = 3
    TimeoutAt = 4
 
 
 
PROPERTY NoFalseCrash
PROPERTY NoFalseStall
CHECK_DEADLOCK FALSE
