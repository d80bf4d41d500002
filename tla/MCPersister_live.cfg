SPECIFICATION FairSpec
CONSTANTS
  Clients = {c1}
  Loaders = {c1}
  Deleters = {d1}
  Guests = {g1}
  Updates = {}
  Requests = {}
  Slots = {s1, s2}
  NoSlot = NoSlot
  MaxGen = 1
PROPERTY CallersEnd
CHECK_DEADLOCK FALSE
