SPECIFICATION FairSpec
CONSTANTS
    Depth = 1
    Burst = 1
    BurstCap = 1
    Nothing = Nothing
    MaxGeneration = 2
    MaxSession = 2
    Choices = {"AUTO"}
    HeadphoneStates = {FALSE}
    MicStates = {FALSE, TRUE}
PROPERTIES MicOnReaches OutputServed
