\* Two devices, one of which renames itself and moves; two ports.
CONSTANTS
    Infos <- MCInfos
    Ports = {1, 2}
    NoPort = NoPort
    MaxChanges = 5
    MaxEvents = 2

SPECIFICATION DiscoverySpec

INVARIANT TablesAgree
PROPERTY DepartedLeave
PROPERTY AdvertisedFollowsSession

CHECK_DEADLOCK FALSE
