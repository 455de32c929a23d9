SPECIFICATION FairSpec
CONSTANTS
    Devices = {phone1, phone2}
    NoDevice = NoDevice
    Frequencies = {16000, 32000, 44100, 48000}
    MaxQueue = 3
INVARIANTS TypeOK SinkTracksLink ClockFollowsConfig
PROPERTIES LossEndsPlayer
