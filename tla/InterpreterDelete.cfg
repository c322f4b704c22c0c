\* Two kinds that are in use together.
SPECIFICATION TablesSpec
CONSTANTS
  Names = {n1, n2}
  NoName = NoName
  MAX_COUNT = 3
  MaxMade = 5
SYMMETRY Perms
INVARIANTS DeleteDeletes
\* The program ends.
CHECK_DEADLOCK FALSE
