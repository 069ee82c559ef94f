SPECIFICATION WorkspaceSpec
CONSTANTS
    Requests = {r1}
    Configs <- MCConfigs
    Policy <- MCPolicy
    Permits = 1
    MaxContent = 2
    MaxFaults = 2
    Jobs = {1, 2}
    Wants <- MCWants
    Fetching = {1}
    Tries <- MCTries
    MaxMisfits = 1
INVARIANTS NoStalePolicy EditsJournalled
PROPERTIES ImplementsVerdicts NeverClobbers RequestsEnd LocksReleased IntentsSettle
CHECK_DEADLOCK FALSE
