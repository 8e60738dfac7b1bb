CONSTANTS
  Window = {w1, w2, w3}
  Icon = {i1, i2}
  Levels = 2
  Reuse = FALSE
  Changes = TRUE
  None = None
SPECIFICATION Spec
VIEW MCView
INVARIANTS ListsWellFormed CommitFits ServerAgrees RaiseReturns
PROPERTY TransientsStayAbove
CHECK_DEADLOCK FALSE
