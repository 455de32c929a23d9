SPECIFICATION Spec
CONSTANTS
    FileLen = 3
    MaxFiles = 2
    MaxOpens = 5
    MaxChunks = 4
INVARIANTS TypeOK NoStaleFile FilesAccounted RecordingSound
PROPERTIES PlaybackSpec
