SPECIFICATION FairSpec
CONSTANTS
    Uses = {{"INPUT"}, {"OUT"}, {"MIC"}, {"ATTACH"}, {"OUTPUT"}}
    MaxReports = 2
    IngressDepth = 3
    MaxPackets = 5
    MaxGeneration = 3
    OpusDepth = 1
    MicDepth = 3
    Chunks = 2
    MaxFrames = 2
    Rounds = 1
    Builders = {"auto"}
    MaxBringUps = 1
    Reports = {{"LED"}, {"RUMBLE"}}
    MaxOutputs = 2
    MaxClears = 1
INVARIANTS MarksExact RingSound MicSound MergedOrReplaced
PROPERTIES AudioInOrder InputReaches FollowsController ControllerFollows
CHECK_DEADLOCK FALSE
