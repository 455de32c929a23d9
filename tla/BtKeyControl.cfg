SPECIFICATION FairSpec
CONSTANTS
    Keys = {play, pause}
    NoKey = NoKey
    LabelMod = 4
    MaxAttempts = 3
INVARIANTS TypeOK KeyPendingHasTimer
PROPERTIES StaleResponseNeedsWrap KeyActionSpec EachActionEnds
