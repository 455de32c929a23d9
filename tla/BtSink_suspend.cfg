SPECIFICATION FairSpec
CONSTANTS
    Devices = {phone1, phone2}
    NoDevice = NoDevice
    Frequencies = {44100}
    MaxQueue = 3
PROPERTIES SuspendStops
