SPECIFICATION Spec
CONSTANTS
    Requests <- MCRequests
    Records <- MCRecords
    Legacies <- MCLegacies
    Shellings <- MCShellings
    NoLegacy = NoLegacy
    MaxCalls = 1
    MaxCuts = 0
    MaxFailures = 0
INVARIANTS CallbacksReturn
CHECK_DEADLOCK FALSE
