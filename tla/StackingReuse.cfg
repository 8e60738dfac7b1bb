CONSTANTS
  Window = {w1, w2}
  Icon = {}
  Levels = 1
  Reuse = TRUE
  Changes = FALSE
  None = None
SPECIFICATION Spec
INVARIANT ChildOfIsOwner
CHECK_DEADLOCK FALSE
