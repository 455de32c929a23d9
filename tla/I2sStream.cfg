SPECIFICATION FairSpec
CONSTANTS
    Formats = {cd, dvd, speech}
    InitFormat = cd
    NoFormat = NoFormat
    MaxChanges = 4
INVARIANTS TypeOK ClockKept
PROPERTIES ClockChangesAtRest StreamResumes
