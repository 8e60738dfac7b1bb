CONSTANTS
  Node <- SmallTree
  Kind <- SmallKind
  LinkTo <- SmallLinkTo
  Own = {}
  TooLong = {}
  FileList <- SmallFiles
  Ops = {"Copy", "Duplicate", "Move", "Link", "Delete"}
  Faults = {"create", "open", "read", "attrs", "list", "delete", "remove", "rename", "readlink"}
SPECIFICATION FairSpec
INVARIANT MoveLosesNothingUntold
PROPERTIES StopEnds
