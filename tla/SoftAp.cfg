SPECIFICATION Spec
CONSTANTS
    Macs = {m1, m2, m3}
    ServerHost = 1
    MaxLease = 2
    LeaseTime = 2
    MaxStation = 1
    DefaultNet = "192.168.4"
    AppNet = "192.168.1"
    NoNet = "0.0.0"
    AP_MAX_CONNECTIONS = 2
    MaxMail = 1
    MaxEvents = 1
SYMMETRY Symmetry
INVARIANTS TypeOK LeasesUnique NoSharedAddress AccessPointServes NewStationsListed WalkFindsFree
PROPERTIES AddressPoolSpec
