SPECIFICATION FilesSpec
CONSTANTS
    Jobs = {1, 2}
    Wants <- MCWants
    Fetching = {1}
    Tries <- MCTries
    MaxMisfits = 1
INVARIANTS HasItsFiles
CHECK_DEADLOCK FALSE
