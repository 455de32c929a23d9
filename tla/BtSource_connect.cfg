SPECIFICATION FairSpec
CONSTANTS
    Devices = {speaker, other, phone}
    Rendering = {speaker, other}
    Named = {speaker, phone}
    NoDevice = NoDevice
    MaxQueue = 2
PROPERTIES ConnectIsTried
