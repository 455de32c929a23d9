SPECIFICATION FairSpec
CONSTANTS
    PinWired = FALSE
    MountFails = FALSE
    MaxMoves = 1
    QueueSize = 2
PROPERTIES WaitEnds
