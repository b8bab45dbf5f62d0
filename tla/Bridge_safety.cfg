SPECIFICATION Spec
CONSTANTS
    Depth = 1
    Burst = 1
    BurstCap = 1
    Nothing = Nothing
    MaxGeneration = 2
    MaxSession = 2
    Choices = {"AUTO", "STEREO"}
    HeadphoneStates = {FALSE, TRUE}
    MicStates = {FALSE}
INVARIANTS Sound
PROPERTIES NoReplayAcrossLink RelabelledAfterCheck
