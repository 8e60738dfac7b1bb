CONSTANTS
  m1 = m1  m2 = m2  s1 = s1
  xterm = xterm  edit = edit  workspace = workspace
  Mover = {m1}
  Sizer = {s1}
  App <- Apps
  XApp = {xterm}
  SystemApp = {workspace}
  MaxAsks = 1
SPECIFICATION FairSpec
PROPERTIES LogOutGoesOn
