SPECIFICATION FairSpec
CONSTANTS
  MaxPids = 3
  MaxJobs = 2
  Piped = 2
  Typed <- MCTyped
  ForkMayFail = TRUE
INVARIANTS
  TableAgrees
  Tracked
  MarkedStopped
PROPERTIES
  EndsReaped
  PromptComesBack
CHECK_DEADLOCK FALSE
