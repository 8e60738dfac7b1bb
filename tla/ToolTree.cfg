CONSTANTS
  Node <- LinkTree
  Kind <- LinkKind
  LinkTo <- LinkLinkTo
  Own = {}
  TooLong = {}
  FileList <- Files
  Ops = {"Copy", "Duplicate", "Move", "Link", "Delete"}
  Faults = {"readlink"}
SPECIFICATION FairSpec
INVARIANTS TypeOK MoveLosesNothingUntold OldFilesKept CleanUpUndoes SilentCompletion
PROPERTIES ImplementsProtocol
