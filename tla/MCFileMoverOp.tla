----------------------------- MODULE MCFileMoverOp -----------------------------
(***************************************************************************)
(* FileMoverOp with one problem for each set of buttons an alert can have, *)
(* and the answers that the tool's Communicator accepts for it.            *)
(***************************************************************************)
EXTENDS FileMoverOp

MCProblem == {"ReadError", "SymlinkEncountered", "SymlinkTargetNotExist",
              "AttributesUnchangeable", "FileExists"}
MCSolutions == [
  ReadError              |-> {"SkipFile"},
  SymlinkEncountered     |-> {"SkipFile", "NewLink", "CopyOriginal"},
  SymlinkTargetNotExist  |-> {"SkipFile", "NewLink"},
  AttributesUnchangeable |-> {"IgnoreProblem"},
  FileExists             |-> {"SkipFile", "OverwriteFile"}]
===============================================================================
