SPECIFICATION Spec
CONSTANTS
    RtDepth = 2
    MaxRtBurst = 2
    BurstCap = 3
    MaxAge = 0
    VersionModulus = 4
    MaxHeld = 2
    MaxTime = 1
    MaxGeneration = 2
    MaxPublications = 4
INVARIANTS Conserved SelectionNames FairTurns
PROPERTIES RealtimeInOrder ImplementsTxQueue
