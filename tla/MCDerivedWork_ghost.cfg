SPECIFICATION Spec
CONSTANTS
  Updates = {u1}
  Erasures = {"purge"}
  SessionDeletes = 0
INVARIANT NoGhostVectors
CHECK_DEADLOCK FALSE
