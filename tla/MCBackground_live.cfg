SPECIFICATION BackgroundSpec
CONSTANTS
  Updates = {u1}
  Erasures = {"delete", "purge"}
  SessionDeletes = 1
  SaCallers = {a1, a2}
  SaPermits = 1
  SaCapacity = 1
  MaxSlots = 2
PROPERTIES  RequestsEnd
CHECK_DEADLOCK FALSE
