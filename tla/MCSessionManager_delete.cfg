SPECIFICATION SMSpec
CONSTANTS
  Clients = {c1, c2}
  Loaders = {c1, c2}
  Deleters = {d1}
  Guests = {}
  Sweepers = {}
  Updates = {u1, u2}
  Requests <- AddOne
  Slots = {s1, s2}
  NoSlot = NoSlot
  MaxGen = 2
  LruPressure = FALSE
  RequestsTimeOut = TRUE
  WritesFail = TRUE
SYMMETRY Symmetry
INVARIANTS SingleFlight WritesNeverOverlap NothingStranded WaitersKept DeletedStaysDeleted
CHECK_DEADLOCK FALSE
