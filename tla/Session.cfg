SPECIFICATION SessionSpec
CONSTANTS
  NULL = NULL
  Lists = {A, B}
  Items = {i1, i2, i3}
  Values <- MCValues
  Inputs <- MCInputs
  MaxInt = 16
  MaxElems = 5
  BEST_ELEMS_PER_BUCKET = 1
  MinBuckets = 1
  hash <- MCHash
  Widths <- MCWidths
  AsmBits = 2
  MaxBits = 6
  BITMAP_ERROR = 99
  Names = {n1, n2}
  NoName = NoName
  MAX_COUNT = 3
  MaxMade = 4
INVARIANTS
  Linked
  DoesAsTold
  FindsAll
  ReachableBitsRight
  QueriesAgree
  NamesKept
PROPERTIES
  CommandsEnd
  ImplementsBag
\* The program ends, by a failed assertion or a null pointer if not by quit.
CHECK_DEADLOCK FALSE
