SPECIFICATION Spec
CONSTANTS
    MAC = MAC
    INFO = INFO
    StaticIds = {MAC, INFO}
    CacheSlots = 2
    GetDepth = 2
    SetDepth = 2
    PerTick = 1
    WireDepth = 1
    MaxSets = 2
    MaxSessions = 2
    MaxUsbResets = 0
SYMMETRY SameReports
VIEW Seen
INVARIANTS CacheSound SetsInOrder
PROPERTIES RequestsKept
