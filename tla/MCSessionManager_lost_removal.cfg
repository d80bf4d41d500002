SPECIFICATION SMSpec
CONSTANTS
  Clients = {c1}
  Loaders = {c1}
  Deleters = {}
  Guests = {}
  Sweepers = {c1}
  Updates = {u1}
  Requests <- AddOrRemove
  Slots = {s1, s2}
  NoSlot = NoSlot
  MaxGen = 1
  LruPressure = FALSE
  RequestsTimeOut = FALSE
  WritesFail = TRUE
SYMMETRY Symmetry
INVARIANT RemovalsHold
CHECK_DEADLOCK FALSE
