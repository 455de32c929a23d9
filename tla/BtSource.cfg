SPECIFICATION FairSpec
CONSTANTS
    Devices = {speaker, other, phone}
    Rendering = {speaker, other}
    Named = {speaker, phone}
    NoDevice = NoDevice
    MaxQueue = 3
INVARIANTS TypeOK DiscoveryAlive ConnectingAlive ConnectedHasLink
PROPERTIES ConnectionSpec DiscoveryEnds LossEndsPlayer
