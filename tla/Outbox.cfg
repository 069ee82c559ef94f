SPECIFICATION FairSpec
CONSTANTS
  Posts = {1, 2, 3}
  Thread <- MCThread
  After <- MCAfter
  Rewritable = {1}
  Limit = 2
  Tries = 2
  MaxGrants <- MCGrants
  MaxEdits = 1
  MaxCrashes = 1
INVARIANTS
  DependentsFollow
  NoStaleAttempt
PROPERTIES
  ImplementsLedger
  EveryPostSettles
CHECK_DEADLOCK FALSE
