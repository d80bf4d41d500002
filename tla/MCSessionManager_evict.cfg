SPECIFICATION SMSpec
CONSTANTS
  Clients = {c1, c2}
  Loaders = {c1, c2}
  Deleters = {}
  Guests = {}
  Sweepers = {c2}
  Updates = {u1, u2}
  Requests <- AddOne
  Slots = {s1}
  NoSlot = NoSlot
  MaxGen = 2
  LruPressure = TRUE
  RequestsTimeOut = FALSE
  WritesFail = TRUE
INVARIANTS AckedDurable
PROPERTIES OkMeansStored 
CHECK_DEADLOCK FALSE
