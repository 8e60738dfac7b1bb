CONSTANTS
  Node <- FollowTree
  Kind <- FollowKind
  LinkTo <- FollowLinkTo
  Own <- Made
  TooLong <- Deepest
  FileList <- FollowFiles
  Ops = {"Copy", "Duplicate", "Move", "Link", "Delete"}
  Faults = {}
SPECIFICATION FairSpec
PROPERTIES Termination
