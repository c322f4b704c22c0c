SPECIFICATION Spec
CONSTANTS
  c1 = c1
  c2 = c2
  c3 = c3
  NoOne = NoOne
  Clients = {c1, c2, c3}
  Items = {1}
  InitStock <- MCStock
  Requests <- Commanded
  Slots = 2
  MaxInbox = 1
  MaxStock = 1
  Halves = FALSE
  MayFail = TRUE
  Readers = {}
SYMMETRY Perms
INVARIANTS
  PoolAgrees
  SavedWhenHungUp
PROPERTIES
  ImplementsExchange
