SPECIFICATION FairSpec
CONSTANTS
    Requests <- MCRequests
    Records <- MCRecords
    Legacies <- MCLegacies
    Shellings <- MCShellings
    NoLegacy = NoLegacy
    MaxCalls = 3
    MaxCuts = 1
    MaxFailures = 1
INVARIANTS Consistent SettingsSurvive
PROPERTIES HostLearnsResult
CHECK_DEADLOCK FALSE
