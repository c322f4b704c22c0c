SPECIFICATION FairSpec
CONSTANTS
  MaxPids = 3
  MAXPIPES = 3
  Output = 2
  MaxLen = 3
  FirstLines <- MCFirstLines
  Typed <- MCTyped
  ForkMayFail = TRUE
INVARIANTS
  ParsedAsMeant
  PipesWired
  NothingLeftBehind
PROPERTIES
  PromptComesBack
