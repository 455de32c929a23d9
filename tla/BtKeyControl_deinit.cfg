SPECIFICATION Spec
CONSTANTS
    Keys = {play, pause}
    NoKey = NoKey
    LabelMod = 4
    MaxAttempts = 3
INVARIANTS DeinitClears
