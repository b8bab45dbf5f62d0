SPECIFICATION Spec
CONSTANTS
    SlotCount = 4
    EpochFrames = 2
    PacketSizes = {1, 2}
    MaxGeneration = 2
    MaxEpochs = 5
INVARIANTS IInv NoDataRace AlwaysRoom PairCoherent Accounting
PROPERTIES EmissionOrder
CHECK_DEADLOCK FALSE
