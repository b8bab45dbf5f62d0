SPECIFICATION Spec
CONSTANTS
    Modulus = 64
    Starts = {60}
    AudioHold = 2
    BoostHolds = {2}
    Delay = 2
    Residency = 1
    Frequencies = {384}
    Experimental = {480}
    Boosts = {0, 400}
    MaxLag = 1
    MaxTicks = 9
    MaxCalls = 3
    MaxFailures = 1
INVARIANTS ClockMeets FallsInTime
PROPERTIES CalmBeforeDrop
CHECK_DEADLOCK FALSE
