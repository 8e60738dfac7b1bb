CONSTANTS
  Node <- LinkTree
  Kind <- LinkKind
  LinkTo <- LinkLinkTo
  Own = {}
  TooLong = {}
  FileList <- Files
  Ops = {"Copy", "Move"}
  Faults = {}
SPECIFICATION Spec
INVARIANT CleanUpRemovesOnlyCreated
