SPECIFICATION FairSpec
CONSTANTS
  c1 = c1
  c2 = c2
  c3 = c3
  NoOne = NoOne
  Clients = {c1, c2}
  Items = {1}
  InitStock <- MCStock
  Requests <- BuyAndLeave
  Slots = 2
  MaxInbox = 1
  MaxStock = 1
  Halves = TRUE
  MayFail = FALSE
  Readers = {c1}
PROPERTIES
  Heard
  Accepted
