CONSTANTS
  Wrappers = {v, w, x, y, z}
  None = none
  MaxHandles = 2
SPECIFICATION Spec
INVARIANT NeededIsKept
INVARIANT NothingLeaks
CHECK_DEADLOCK FALSE
