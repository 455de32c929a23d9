SPECIFICATION PlayerFairSpec
CONSTANTS
    PinWired = TRUE
    MountFails = TRUE
    MaxMoves = 6
    QueueSize = 2
    FileLen = 3
    MaxFiles = 1
INVARIANTS TypeOK FlagTracksFileSystem NoUnmountError PlayerTypeOK ClosedBeforeUnmount PlayedToEnd
PROPERTIES CardFollowed PlayerEnds
