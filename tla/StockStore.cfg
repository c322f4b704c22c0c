SPECIFICATION Spec
CONSTANTS
  NULL = NULL
  Files <- MCFiles
  Levels = {7}
  FopenMayFail = TRUE
INVARIANTS
  LookupFindsLoaded
  NothingLost
