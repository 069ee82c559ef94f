SPECIFICATION Spec
CONSTANTS
    Daemons = {1, 2}
    Operations = {3, 4}
    Connections = 1
    AtOnce = 1
    Inodes = {1, 2}
    MaxMishaps = 1
    Calls = {1, 2}
    Capacity <- MCCapacity
    MaxTroubles = 1
    Requests = {r1, r2}
    Configs = {0}
    Policy <- MCPolicy
    Permits = 1
    Arrivals = {11, 12}
    Peers = {12}
    PageLimit = 2
    MaxLedger = 3
    MaxLosses = 1
INVARIANTS SocketOwned GroupsBounded ActsOnce
PROPERTIES StopEnds CallsEnd
CHECK_DEADLOCK FALSE
