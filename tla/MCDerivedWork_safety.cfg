SPECIFICATION Spec
CONSTANTS
  Updates = {u1, u2}
  Erasures = {"purge"}
  SessionDeletes = 1
SYMMETRY Symmetry
INVARIANT ErasedStaysErased
CHECK_DEADLOCK FALSE
