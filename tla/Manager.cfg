CONSTANTS
  m1 = m1  m2 = m2  s1 = s1
  xterm = xterm  edit = edit  workspace = workspace
  Mover <- Movers
  Sizer <- Sizers
  App <- Apps
  XApp = {xterm}
  SystemApp = {workspace}
  MaxAsks = 1
SPECIFICATION Spec
INVARIANTS TypeOK NothingRunsAtQuit SessionUsable
PROPERTIES OperationsBehave
