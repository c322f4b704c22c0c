SPECIFICATION FairSpec
CONSTANTS
  c1 = c1
  c2 = c2
  c3 = c3
  NoOne = NoOne
  Clients = {c1, c2, c3}
  VLR <- VLR1
  InitStock <- Stock1
  Requests <- Trades
  Showers = {}
  MaxStock = 1
  FopenMayFail = FALSE
  CallsMayFail = TRUE
  Readers = {c1, c2}
INVARIANTS
  TypeOK
  NoOversell
  NoLostUpdate
  SavesAlone
  FileKept
PROPERTIES
  ImplementsExchange
  Served
  Answered
