SPECIFICATION InputSpec
CONSTANTS
    Jobs = {1, 2, 3}
    Group <- MCGroup
    OnMessage = {1}
    ByDriver = {3}
    Files = {1}
    Messages = {1, 2}
    Noisy = {1}
    Retried = {1}
    MaxLines = 1
    MaxOwner = 1
    MaxCrashes = 1
    Threads = {1, 2}
    Links = {1}
    CacheSeconds = 3
    ReadLimit = 1
    MaxTime = 3
    MaxVersion = 1
    MaxUpsets = 1
INVARIANTS ReportedTogether NotesPrecedeReport DebriefIsLast NoResultStranded RepairSeesDecide AgeIsHonest
CHECK_DEADLOCK FALSE
