SPECIFICATION FairSpec
CONSTANTS
    SlotCount = 3
    EpochFrames = 1
    PacketSizes = {1}
    MaxGeneration = 2
    MaxEpochs = 4
PROPERTIES NothingWaits
CHECK_DEADLOCK FALSE
