CONSTANTS
  Problem <- MCProblem
  Solutions <- MCSolutions
  MaxQuestions = 3
  MaxStops = 2
  MayPause = TRUE
  MaySplit = FALSE
SPECIFICATION FairSpec
INVARIANTS TypeOK AlertIsCurrent NoStrayAnswer
PROPERTIES ImplementsOperation QuestionIsShown Destroyed
CHECK_DEADLOCK FALSE
