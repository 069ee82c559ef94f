SPECIFICATION Spec
CONSTANTS
    Msgs = {1, 2, 3}
    RootOf <- MCRootOf
    Mentions = {1, 2, 3}
    Unsupported = {}
    Waiting = {}
    Services = {s1, s2}
    Rivals = {s2}
    Migrated = {1}
    Clients = {c1}
    Window = 1
    Recent = 1
    MaxWindow = 2
    Overlap = 1
    Day = 1
    MaxTime = 3
    MaxPosts = 1
    MaxFaults = 1
INVARIANTS ArrivesOnce NoSilentLoss
PROPERTIES EveryMessageAccounted
CHECK_DEADLOCK FALSE
