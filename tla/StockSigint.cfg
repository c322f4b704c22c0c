SPECIFICATION SigSpec
CONSTANTS
  c1 = c1
  c2 = c2
  NoOne = NoOne
  Clients = {c1, c2}
  VLR <- MCVLR
  InitStock <- MCStock
  Requests <- MCRequests
  Showers = {c1}
  MaxStock = 2
  FopenMayFail = TRUE
  CallsMayFail = FALSE
  Readers = {}
INVARIANTS
  SigintKeepsStocks
  ShowWhole
