SPECIFICATION FairSpec
CONSTANTS
    MAC = MAC
    INFO = INFO
    StaticIds = {MAC}
    CacheSlots = 2
    GetDepth = 2
    SetDepth = 1
    PerTick = 1
    WireDepth = 1
    MaxSets = 1
    MaxSessions = 1
    MaxUsbResets = 1
PROPERTIES HostServed
