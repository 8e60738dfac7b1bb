----------------------------- MODULE FileMoverTool -----------------------------
(***************************************************************************)
(* The FileMover tool (Workspace/Tools/FileMover): a process that copies,  *)
(* duplicates, moves, links or deletes a list of files, asks the user      *)
(* about problems through Communicator, and may be interrupted at any      *)
(* step.                                                                   *)
(*                                                                         *)
(* Paths are sequences of names relative to the source directory; the same *)
(* path relative to the destination directory is its target (for           *)
(* Duplicate, the CopyOf_ name next to the source).  The paths below a     *)
(* link to a directory are what is found by following it.  A link that     *)
(* leads back to where it lies gives ever longer paths; Node holds them to *)
(* the length at which the kernel gives up (a link that leads nowhere, a   *)
(* name that is TooLong for a target).  The state of a path                *)
(* is one of the values of Object, so a file's bytes are abstracted to     *)
(* "complete", "incomplete" or "was there before".                         *)
(***************************************************************************)
EXTENDS Naturals, Sequences, FiniteSets

CONSTANTS
  Node,        \* the paths this run can meet
  Kind,        \* [Node -> what lies at the path in the source directory]
  LinkTo,      \* [Node -> what a symbolic link at that path leads to]
  Own,         \* the paths at which a Duplicate comes upon the directory it is making
  TooLong,     \* the paths whose target cannot be created: ENAMETOOLONG
  FileList,    \* the -Files argument: a sequence of top-level paths
  Ops,         \* the operations to explore
  Faults       \* the system calls that may fail

Under(n) == {m \in Node : Len(n) <= Len(m) /\ SubSeq(m, 1, Len(n)) = n}
Parent(n) == SubSeq(n, 1, Len(n) - 1)
Children(n) == {m \in Under(n) : Len(m) = Len(n) + 1}

\* n is reached through a link: it lies outside the source directory, or is
\* another name for something in it.
Away(n) == \E m \in Node : m # n /\ n \in Under(m) /\ Kind[m] = "link"

Operation == {"Copy", "Duplicate", "Move", "Link", "Delete"}
Problem == {"ReadError", "WriteError", "DeleteError", "MoveError",
            "SymlinkEncountered", "SymlinkTargetNotExist",
            "AttributesUnchangeable", "FileExists", "UnknownFile"}
Solution == {"SkipFile", "NewLink", "CopyOriginal", "IgnoreProblem",
             "OverwriteFile"}
Fault == {"create", "open", "read", "write", "attrs", "list", "delete",
          "remove", "rename", "readlink"}

\* none: nothing there.  orig: the object of that path, complete.  dir: a source
\* directory, or one the tool created.  part: an empty or truncated file.
\* deref: a copy of what a link leads to.  symlink: a link to the source.
\* old, olddir: what was at the destination before the run.
Object == {"none", "orig", "dir", "part", "deref", "symlink", "old", "olddir"}
IsDir(o) == o \in {"dir", "olddir"}

ASSUME TreeAssumption ==
  /\ Node # {} /\ Node \subseteq Seq(STRING)
  /\ \A n \in Node : Len(n) > 0 /\ (Len(n) > 1 => Parent(n) \in Node)
  /\ Kind \in [Node -> {"regular", "dir", "link", "special", "absent"}]
  /\ LinkTo \in [Node -> {"regular", "dir", "dot", "absent"}]
  /\ \A n \in Node : Len(n) > 1 =>
       \/ Kind[Parent(n)] = "dir"
       \/ Kind[Parent(n)] = "link" /\ LinkTo[Parent(n)] \in {"dir", "dot"}
       \/ Kind[Parent(n)] = "absent" /\ Kind[n] = "absent"
  /\ FileList \in Seq({n \in Node : Len(n) = 1})

\* Followed from a Duplicate, a link to "." shows the copy being made, which
\* shows itself again, until its name is too long.
ASSUME OwnAssumption ==
  /\ Own \subseteq {n \in Node : Away(n) /\ Kind[n] = "dir"}
  /\ TooLong \subseteq {n \in Node : Away(n)}
  /\ \A n \in Node :
       n \in Own \/ (Len(n) = 1 /\ Kind[n] = "link" /\ LinkTo[n] = "dot") =>
         n \in TooLong \/ Own \intersect Children(n) # {}

\* The names are a selection in one directory (FileViewer.m, PathIcon.m, Recycler.m),
\* so none comes twice, and paths have a longest one.
ASSUME ListAssumption == \A i, j \in 1..Len(FileList) : FileList[i] = FileList[j] => i = j
ASSUME DepthAssumption == \E n \in Node : \A m \in Node : Len(m) <= Len(n)

ASSUME RunAssumption == Ops \subseteq Operation /\ Faults \subseteq Fault

VARIABLES
  op, sameFS,          \* -Operation; do both directories share a mount point?
  dst0,                \* what the destination held when the tool started
  src, dst,            \* [Node -> Object]: the two directories
  pc, cont,            \* control point; where to go on after an answer
  idx, cur, trav,      \* position in FileList; current path; traverseLink
  pending,             \* contents still to visit, per open CopyDirectory
  opResult,            \* CopyOperation's opResult
  tried,               \* paths removeFileAtPath:handler: could not remove
  problem, sol,        \* the alert shown; the solution it got
  default,             \* Communicator's default*Action
  isStopped, makeCleanupOnStop,
  result,              \* the report line: "none", "0" or "1"
  told, cleaned        \* history: alerts per path; did a cleanup run?

args == <<op, sameFS, dst0>>
fs   == <<src, dst>>
comm == <<cont, problem, sol, default, makeCleanupOnStop, told>>
walk == <<idx, cur, trav, pending, opResult, tried>>
fin  == <<result, cleaned>>
vars == <<args, fs, pc, comm, walk, isStopped, fin>>

-------------------------------------------------------------------------------
(* Communicator *)

Solutions == [p \in Problem |->
  {s \in Solution :
     \/ s = "SkipFile" /\ p # "AttributesUnchangeable"
     \/ s = "IgnoreProblem" /\ p = "AttributesUnchangeable"
     \/ s = "OverwriteFile" /\ p = "FileExists"
     \/ s = "NewLink" /\ p \in {"SymlinkEncountered", "SymlinkTargetNotExist"}
     \/ s = "CopyOriginal" /\ p = "SymlinkEncountered"}]

Go(l) == pc' = l /\ UNCHANGED comm

\* Mutant of Ask: a default answer is not remembered.
AskEveryTime(n, p, k) ==
  /\ makeCleanupOnStop' = FALSE
  /\ told' = [told EXCEPT ![n] = @ \union {p}]
  /\ problem' = p /\ cont' = k /\ pc' = "wait"
  /\ UNCHANGED <<sol, default>>

\* howToHandleProblem: about path n, the caller going on at k.
Ask(n, p, k) ==
  /\ makeCleanupOnStop' = FALSE
  /\ told' = [told EXCEPT ![n] = @ \union {p}]
  /\ IF default[p] # "NOT_SET"
       THEN /\ sol' = default[p]
            /\ pc' = k
            /\ UNCHANGED <<cont, problem>>
       ELSE /\ problem' = p
            /\ cont' = k
            /\ pc' = "wait"
            /\ UNCHANGED sol
  /\ UNCHANGED default

\* An answer is read from stdin; upper case makes it the default.
Answer ==
  /\ pc = "wait"
  /\ \E s \in Solutions[problem], all \in BOOLEAN :
       /\ sol' = s
       /\ default' = IF all THEN [default EXCEPT ![problem] = s] ELSE default
  /\ pc' = cont
  /\ problem' = "none"
  /\ UNCHANGED <<args, fs, cont, makeCleanupOnStop, told, walk, isStopped, fin>>

\* Mutant of AnswerStop: the alert stays open.
AnswerStopKeepsAlert ==
  /\ pc = "wait" /\ pc' = cont
  /\ sol' = "stop" /\ isStopped' = TRUE
  /\ UNCHANGED <<args, fs, cont, problem, default, makeCleanupOnStop, told, walk, fin>>

\* 't': StopOperation() runs and the caller gets -1, no ProblemSolution.
AnswerStop ==
  /\ pc = "wait"
  /\ sol' = "stop"
  /\ isStopped' = TRUE
  /\ pc' = cont
  /\ problem' = "none"
  /\ UNCHANGED <<args, fs, cont, default, makeCleanupOnStop, told, walk, fin>>

\* SignalHandler(SIGINT), between any two steps once it is installed.
Interrupt ==
  /\ pc \notin {"boot", "exit"}
  /\ ~isStopped
  /\ isStopped' = TRUE
  /\ UNCHANGED <<args, fs, pc, comm, walk, fin>>

\* Before signal() is called SIGINT ends the process; nothing is reported.
Killed ==
  /\ pc = "boot"
  /\ pc' = "exit"
  /\ UNCHANGED <<args, fs, comm, walk, isStopped, fin>>

\* main() installs the handler and reads its arguments ...
InstallHandler ==
  /\ pc = "boot"
  /\ Go("start")
  /\ UNCHANGED <<args, fs, walk, isStopped, fin>>

\* ... and then clears the flag: a SIGINT in between is forgotten.  Every
\* operation but Copy begins with [Communicator shared], whose init sets
\* makeCleanupOnStop.
Start ==
  /\ pc = "start"
  /\ isStopped' = FALSE
  /\ makeCleanupOnStop' = (op # "Copy")
  /\ pc' = "next"
  /\ UNCHANGED <<args, fs, cont, problem, sol, default, told, walk, fin>>

-------------------------------------------------------------------------------
(* File system calls (NSFileManager, POSIX) *)

Without(t, gone) == [m \in Node |-> IF m \in gone THEN "none" ELSE t[m]]

\* A failing removeFileAtPath:handler:nil leaves some items, and then the
\* directories that hold them.
Leftovers(n) == {k \in SUBSET Under(n) :
                   n \in k /\ \A m \in k : m # n => Parent(m) \in k}

\* Remove the target of cur, going on at k, or report p and go on at f.
DropTarget(k, p, f) ==
  \/ /\ dst' = Without(dst, Under(cur))
     /\ Go(k)
  \/ /\ "remove" \in Faults
     /\ \E left \in Leftovers(cur) : dst' = Without(dst, Under(cur) \ left)
     /\ Ask(cur, p, f)

Creatable(n) == n \notin TooLong /\ (Len(n) > 1 => IsDir(dst[Parent(n)]))

\* Create the target of cur as o, going on at k; or report WriteError, f.
Create(o, k, f) ==
  \/ /\ Creatable(cur)
     /\ dst' = [dst EXCEPT ![cur] = o]
     /\ Go(k)
  \/ /\ ~Creatable(cur) \/ "create" \in Faults
     /\ Ask(cur, "WriteError", f)
     /\ UNCHANGED dst

\* rename(2) of path f from tree a to tree b.
CanRename(a, b, f) ==
  /\ a[f] # "none"
  /\ b[f] # "none" =>
       /\ IsDir(a[f]) <=> IsDir(b[f])
       /\ \A m \in Under(f) : m # f => b[m] = "none"

-------------------------------------------------------------------------------
(* The loop over the file list, shared by every operation *)

More == idx < Len(FileList) /\ ~isStopped /\ (op = "Copy" => opResult)

FirstStep == [Copy |-> "copyFile", Duplicate |-> "copyFile", Move |-> "move",
              Link |-> "link", Delete |-> "delete"]

\* CopyOperation gets its Communicator in the first CopyFile.
NextFile ==
  /\ pc = "next"
  /\ More
  /\ idx' = idx + 1
  /\ cur' = FileList[idx + 1]
  /\ trav' = FALSE
  /\ tried' = {}
  /\ pc' = FirstStep[op]
  /\ makeCleanupOnStop' = (makeCleanupOnStop \/ (op = "Copy" /\ idx = 0))
  /\ UNCHANGED <<args, fs, cont, problem, sol, default, told, pending, opResult,
                 isStopped, fin>>

EndOfFiles ==
  /\ pc = "next"
  /\ ~More
  /\ Go("tail")
  /\ UNCHANGED <<args, fs, walk, isStopped, fin>>

Range(s) == {s[i] : i \in DOMAIN s}

\* CleanUpAfterCopy, -Duplicate, -Link: remove every listed name.
RemoveListed(files) ==
  \E left \in SUBSET UNION {Under(f) : f \in files} :
    /\ left # {} => "remove" \in Faults
    /\ \A m \in left : Len(m) > 1 => Parent(m) \in left
    /\ dst' = Without(dst, (UNION {Under(f) : f \in files}) \ left)
    /\ UNCHANGED src

\* CleanUpAfterMove(destDir, files, sourceDir): rename every name back.
MoveBackListed ==
  \E back \in SUBSET {f \in Range(FileList) : sameFS /\ CanRename(dst, src, f)} :
    /\ "rename" \notin Faults =>
         back = {f \in Range(FileList) : sameFS /\ CanRename(dst, src, f)}
    /\ src' = [m \in Node |->
                 IF \E f \in back : m \in Under(f) THEN dst[m] ELSE src[m]]
    /\ dst' = Without(dst, UNION {Under(f) : f \in back})

\* Mutant of CleanUp: a stopped move is not undone.
CleanUpForgetsMove ==
  \/ op \in {"Copy", "Duplicate", "Link"} /\ RemoveListed(Range(FileList))
  \/ op \in {"Move", "Delete"} /\ UNCHANGED fs

CleanUp ==
  \/ op \in {"Copy", "Duplicate", "Link"} /\ RemoveListed(Range(FileList))
  \/ op = "Move" /\ MoveBackListed
  \/ op = "Delete" /\ UNCHANGED fs

\* "We received SIGTERM signal or 'Stop' command."
Finish ==
  /\ pc = "tail"
  /\ cleaned' = (isStopped /\ makeCleanupOnStop)
  /\ IF isStopped /\ makeCleanupOnStop THEN CleanUp ELSE UNCHANGED fs
  /\ Go("report")
  /\ UNCHANGED <<args, walk, isStopped, result>>

\* finishOperation:stopped:, and main() returns.
Report ==
  /\ pc = "report"
  /\ result' = IF isStopped THEN "1" ELSE "0"
  /\ Go("exit")
  /\ UNCHANGED <<args, fs, walk, isStopped, cleaned>>

-------------------------------------------------------------------------------
(* CopyFile, CopyDirectory, CopyRegular, CopySymbolicLink *)

\* Is m there for directoryContentsAtPath:?  The tool changes what lies in the
\* source directory; of what it sees through links, only its own output.
Present(m) ==
  IF Away(m) THEN /\ Kind[m] # "absent"
                  /\ m \in Own => op = "Duplicate" /\ IsDir(dst[Parent(m)])
             ELSE src[m] # "none"

\* The file type CopyFile dispatches on.
Seen == IF trav THEN (IF LinkTo[cur] = "dot" THEN "dir" ELSE LinkTo[cur])
                ELSE Kind[cur]

CopyFile ==
  /\ pc = "copyFile"
  /\ \/ Seen = "link" /\ Ask(cur, "SymlinkEncountered", "symlink")
     \/ Seen = "dir" /\ Go("dir")
     \/ Seen = "regular" /\ Go("regular")
     \/ Seen \in {"special", "absent"} /\ Ask(cur, "UnknownFile", "retNO")
  /\ UNCHANGED <<args, fs, walk, isStopped, fin>>

\* An existing directory is merged into without a question.
CopyDirectory ==
  /\ pc = "dir"
  /\ \/ IsDir(dst[cur]) /\ Go("dirList") /\ UNCHANGED dst
     \/ dst[cur] = "none" /\ Create("dir", "dirList", "retNO")
     \/ /\ dst[cur] # "none" /\ ~IsDir(dst[cur])
        /\ Ask(cur, "FileExists", "dirExists")
        /\ UNCHANGED dst
  /\ UNCHANGED <<args, src, walk, isStopped, fin>>

\* The file in the way is removed; no directory is created in its place.
DirExists ==
  /\ pc = "dirExists"
  /\ IF sol = "SkipFile" THEN Go("retNO") /\ UNCHANGED dst
                         ELSE DropTarget("dirList", "WriteError", "dirList")
  /\ UNCHANGED <<args, src, walk, isStopped, fin>>

DirList ==
  /\ pc = "dirList"
  /\ \/ /\ pending' = [pending EXCEPT ![cur] =
                          {m \in Children(cur) : Present(m)}]
        /\ Go("dirLoop")
     \/ /\ "list" \in Faults
        /\ Ask(cur, "ReadError", "retNO")
        /\ UNCHANGED pending
  /\ UNCHANGED <<args, fs, idx, cur, trav, opResult, tried, isStopped, fin>>

\* Mutant of DirNext: the enumeration ends after one item.
DirNextOnce ==
  /\ pc = "dirLoop" /\ ~isStopped
  /\ \E m \in pending[cur] : cur' = m /\ pending' = [pending EXCEPT ![cur] = {}]
  /\ trav' = FALSE /\ Go("copyFile")
  /\ UNCHANGED <<args, fs, idx, opResult, tried, isStopped, fin>>

DirNext ==
  /\ pc = "dirLoop"
  /\ ~isStopped
  /\ \E m \in pending[cur] :
       /\ pending' = [pending EXCEPT ![cur] = @ \ {m}]
       /\ cur' = m
  /\ trav' = FALSE
  /\ Go("copyFile")
  /\ UNCHANGED <<args, fs, idx, opResult, tried, isStopped, fin>>

\* chmod() on the target, which may not be there.
DirEnd ==
  /\ pc = "dirLoop"
  /\ isStopped \/ pending[cur] = {}
  /\ \/ dst[cur] # "none" /\ Go("retYES")
     \/ /\ dst[cur] = "none" \/ "attrs" \in Faults
        /\ Ask(cur, "AttributesUnchangeable", "retYES")
  /\ UNCHANGED <<args, fs, walk, isStopped, fin>>

\* Mutant of CopyRegular: an existing target is not looked for.
CopyRegularBlindly ==
  /\ pc = "regular" /\ Go("regCreate")
  /\ UNCHANGED <<args, fs, walk, isStopped, fin>>

CopyRegular ==
  /\ pc = "regular"
  /\ \/ dst[cur] = "none" /\ Go("regCreate")
     \/ dst[cur] # "none" /\ Ask(cur, "FileExists", "regExists")
  /\ UNCHANGED <<args, fs, walk, isStopped, fin>>

\* Anything but Skip removes the target, -1 (Stop) included.
RegExists ==
  /\ pc = "regExists"
  /\ IF sol = "SkipFile" THEN Go("retNO") /\ UNCHANGED dst
                         ELSE DropTarget("regCreate", "WriteError", "retNO")
  /\ UNCHANGED <<args, src, walk, isStopped, fin>>

RegCreate ==
  /\ pc = "regCreate"
  /\ Create("part", "regOpen", "retNO")
  /\ UNCHANGED <<args, src, walk, isStopped, fin>>

RegOpen ==
  /\ pc = "regOpen"
  /\ \/ Go("regLoop")
     \/ "open" \in Faults /\ \E p \in {"ReadError", "WriteError"} : Ask(cur, p, "retNO")
  /\ UNCHANGED <<args, fs, walk, isStopped, fin>>

\* The transfer loop: it runs to the end, or a write() falls short
\* unnoticed, or a read() fails and is retried for ever, or a stop ends it.
RegLoop ==
  /\ pc = "regLoop"
  /\ \/ /\ ~isStopped
        /\ dst' = [dst EXCEPT ![cur] = IF trav THEN "deref" ELSE "orig"]
        /\ Go("regAttrs")
     \/ /\ isStopped \/ "write" \in Faults
        /\ Go("regAttrs")
        /\ UNCHANGED dst
     \/ /\ ~isStopped /\ "read" \in Faults
        /\ Go("regSpin")
        /\ UNCHANGED dst
  /\ UNCHANGED <<args, src, walk, isStopped, fin>>

\* Mutant of RegSpinEnds: the transfer loop does not look at isStopped.
RegSpinsOn ==
  pc = "regSpin" /\ isStopped /\ UNCHANGED vars

RegSpinEnds ==
  /\ pc = "regSpin"
  /\ isStopped
  /\ Go("regAttrs")
  /\ UNCHANGED <<args, fs, walk, isStopped, fin>>

RegAttrs ==
  /\ pc = "regAttrs"
  /\ \/ Go("retYES")
     \/ /\ ~isStopped /\ "attrs" \in Faults
        /\ Ask(cur, "AttributesUnchangeable", "retYES")
  /\ UNCHANGED <<args, fs, walk, isStopped, fin>>

\* Mutant of FollowSolution: CopyFile is called without traverseLink.
FollowWithoutTraversing(s) ==
  /\ trav' = FALSE
  /\ \/ s = "CopyOriginal" /\ Go("copyFile")
     \/ s = "NewLink" /\ Go("newLink")
     \/ s \notin {"CopyOriginal", "NewLink"} /\ Go("retYES")

\* What the answered alert means for the link at cur.
FollowSolution(s) ==
  /\ trav' = (s = "CopyOriginal")
  /\ \/ s = "CopyOriginal" /\ Go("copyFile")
     \/ s = "NewLink" /\ Go("newLink")
     \/ s \notin {"CopyOriginal", "NewLink"} /\ Go("retYES")

\* Only a top-level link is handled by DuplicateSymbolicLink.
TopDuplicate == op = "Duplicate" /\ Len(cur) = 1

DuplicateSymbolicLink ==
  /\ pc = "symlink"
  /\ TopDuplicate
  /\ \/ FollowSolution(sol)
     \/ "readlink" \in Faults /\ Ask(cur, "ReadError", "retYES") /\ UNCHANGED trav
  /\ UNCHANGED <<args, fs, idx, cur, pending, opResult, tried, isStopped, fin>>

\* A link to "." is always made anew.  The target's existence is looked up
\* from the tool's own working directory, so either outcome is possible.
CopySymbolicLink ==
  /\ pc = "symlink"
  /\ ~TopDuplicate
  /\ IF LinkTo[cur] = "dot" THEN FollowSolution("NewLink")
     ELSE \/ FollowSolution(sol)
          \/ /\ sol = "CopyOriginal"
             /\ Ask(cur, "SymlinkTargetNotExist", "symlinkNoTarget")
             /\ UNCHANGED trav
  /\ UNCHANGED <<args, fs, idx, cur, pending, opResult, tried, isStopped, fin>>

SymlinkNoTarget ==
  /\ pc = "symlinkNoTarget"
  /\ FollowSolution(sol)
  /\ UNCHANGED <<args, fs, idx, cur, pending, opResult, tried, isStopped, fin>>

NewLink ==
  /\ pc = "newLink"
  /\ \/ dst[cur] = "none" /\ Go("newLinkGo")
     \/ dst[cur] # "none" /\ Ask(cur, "FileExists", "newLinkExists")
     \/ ~TopDuplicate /\ "readlink" \in Faults /\ Ask(cur, "ReadError", "retYES")
  /\ UNCHANGED <<args, fs, walk, isStopped, fin>>

NewLinkExists ==
  /\ pc = "newLinkExists"
  /\ IF sol = "SkipFile" THEN Go("retYES") /\ UNCHANGED dst
                         ELSE DropTarget("newLinkGo", "WriteError", "retYES")
  /\ UNCHANGED <<args, src, walk, isStopped, fin>>

NewLinkGo ==
  /\ pc = "newLinkGo"
  /\ Create("orig", "retYES", "retYES")
  /\ UNCHANGED <<args, src, walk, isStopped, fin>>

\* Return to CopyDirectory, which ignores the result, or to the file list.
Return ==
  /\ pc \in {"retYES", "retNO"}
  /\ IF Len(cur) > 1
       THEN /\ cur' = Parent(cur)
            /\ Go("dirLoop")
            /\ UNCHANGED opResult
       ELSE /\ opResult' = (pc = "retYES")
            /\ Go(IF op = "Move" THEN "copyDone" ELSE "next")
            /\ UNCHANGED cur
  /\ UNCHANGED <<args, fs, idx, trav, pending, tried, isStopped, fin>>

-------------------------------------------------------------------------------
(* MoveOperation *)

Move ==
  /\ pc = "move"
  /\ \/ dst[cur] = "none" /\ Go("moveGo")
     \/ dst[cur] # "none" /\ Ask(cur, "FileExists", "moveExists")
  /\ UNCHANGED <<args, fs, walk, isStopped, fin>>

MoveExists ==
  /\ pc = "moveExists"
  /\ IF sol = "SkipFile" THEN Go("next") /\ UNCHANGED dst
                         ELSE DropTarget("moveGo", "DeleteError", "next")
  /\ UNCHANGED <<args, src, walk, isStopped, fin>>

MoveRename ==
  /\ pc = "moveGo"
  /\ sameFS
  /\ \/ /\ CanRename(src, dst, cur)
        /\ dst' = [m \in Node |-> IF m \in Under(cur) THEN src[m] ELSE dst[m]]
        /\ src' = Without(src, Under(cur))
        /\ Go("next")
     \/ /\ ~CanRename(src, dst, cur) \/ "rename" \in Faults
        /\ Ask(cur, "MoveError", "next")
        /\ UNCHANGED fs
  /\ UNCHANGED <<args, walk, isStopped, fin>>

\* CopyOperation(sourceDir, [file], destDir): its loop runs once, if at all.
MoveByCopy ==
  /\ pc = "moveGo"
  /\ ~sameFS
  /\ opResult' = TRUE
  /\ Go(IF isStopped THEN "copyDone" ELSE "copyFile")
  /\ UNCHANGED <<args, fs, idx, cur, trav, pending, tried, isStopped, fin>>

\* The end of that CopyOperation.
CopyDone ==
  /\ pc = "copyDone"
  /\ IF isStopped /\ makeCleanupOnStop THEN RemoveListed({cur}) ELSE UNCHANGED fs
  /\ Go(IF opResult THEN "moveDelete" ELSE "next")
  /\ UNCHANGED <<args, walk, isStopped, fin>>

\* Mutant of MoveDelete: DeleteOperation does not look at isStopped.
MoveDeleteAnyway ==
  /\ pc = "moveDelete" /\ Go("delete")
  /\ UNCHANGED <<args, fs, walk, isStopped, fin>>

\* DeleteOperation(sourceDir, [file]) begins, unless stopped.
MoveDelete ==
  /\ pc = "moveDelete"
  /\ Go(IF isStopped THEN "next" ELSE "delete")
  /\ UNCHANGED <<args, fs, walk, isStopped, fin>>

-------------------------------------------------------------------------------
(* DeleteOperation, LinkOperation *)

\* What removeFileAtPath:handler: can take next: contents come first.
Removable == {n \in Under(cur) : /\ src[n] # "none"
                                 /\ n \notin tried
                                 /\ \A m \in Under(n) : m = n \/ src[m] = "none" \/ m \in tried}

\* An item that cannot go, or a directory that still holds one, is reported
\* and passed over; isStopped is not looked at before the tree is done.
Delete ==
  /\ pc = "delete"
  /\ \E n \in Removable :
       \/ /\ \A m \in Under(n) : m = n \/ src[m] = "none"
          /\ src' = [src EXCEPT ![n] = "none"]
          /\ Go("delete")
          /\ UNCHANGED tried
       \/ /\ "delete" \in Faults
          /\ tried' = tried \union {n}
          /\ Ask(n, "DeleteError", "delete")
          /\ UNCHANGED src
  /\ UNCHANGED <<args, dst, idx, cur, trav, pending, opResult, isStopped, fin>>

DeleteEnd ==
  /\ pc = "delete"
  /\ Removable = {}
  /\ Go("next")
  /\ UNCHANGED <<args, fs, walk, isStopped, fin>>

Link ==
  /\ pc = "link"
  /\ \/ dst[cur] = "none" /\ Go("linkGo")
     \/ dst[cur] # "none" /\ Ask(cur, "FileExists", "linkExists")
  /\ UNCHANGED <<args, fs, walk, isStopped, fin>>

LinkExists ==
  /\ pc = "linkExists"
  /\ IF sol = "SkipFile" THEN Go("next") /\ UNCHANGED dst
                         ELSE DropTarget("linkGo", "WriteError", "next")
  /\ UNCHANGED <<args, src, walk, isStopped, fin>>

LinkGo ==
  /\ pc = "linkGo"
  /\ Create("symlink", "next", "next")
  /\ UNCHANGED <<args, src, walk, isStopped, fin>>

-------------------------------------------------------------------------------

\* What may already be at the destination: files and directories.
OldTrees == {t \in [Node -> {"none", "old", "olddir"}] :
               \A n \in Node : t[n] # "none" =>
                 n \notin TooLong /\ (Len(n) > 1 => t[Parent(n)] = "olddir")}

Source == [n \in Node |-> IF Away(n) \/ Kind[n] = "absent" THEN "none"
                          ELSE IF Kind[n] = "dir" THEN "dir" ELSE "orig"]

Init ==
  /\ op \in Ops
  /\ sameFS \in BOOLEAN /\ (op # "Move" => sameFS)
  /\ dst0 \in OldTrees /\ (op = "Delete" => dst0 = [n \in Node |-> "none"])
  /\ src = Source
  /\ dst = dst0
  /\ pc = "boot" /\ cont = "next"
  /\ idx = 0 /\ cur = (CHOOSE n \in Node : TRUE) /\ trav = FALSE
  /\ pending = [n \in Node |-> {}]
  /\ opResult = TRUE /\ tried = {}
  /\ problem = "none" /\ sol = "none"
  /\ default = [p \in Problem |-> "NOT_SET"]
  /\ isStopped = FALSE /\ makeCleanupOnStop = FALSE
  /\ result = "none"
  /\ told = [n \in Node |-> {}] /\ cleaned = FALSE

CopyStep == \/ CopyFile \/ CopyDirectory \/ DirExists \/ DirList \/ DirNext \/ DirEnd
            \/ CopyRegular \/ RegExists \/ RegCreate \/ RegOpen \/ RegLoop
            \/ RegSpinEnds \/ RegAttrs
            \/ DuplicateSymbolicLink \/ CopySymbolicLink \/ SymlinkNoTarget
            \/ NewLink \/ NewLinkExists \/ NewLinkGo
            \/ Return

MoveStep == Move \/ MoveExists \/ MoveRename \/ MoveByCopy \/ CopyDone \/ MoveDelete

ToolStep == \/ InstallHandler \/ Start \/ NextFile \/ EndOfFiles \/ Finish \/ Report
            \/ CopyStep \/ MoveStep \/ Delete \/ DeleteEnd
            \/ Link \/ LinkExists \/ LinkGo

Done == pc = "exit" /\ UNCHANGED vars

Next == ToolStep \/ Answer \/ AnswerStop \/ Interrupt \/ Killed \/ Done

Spec == Init /\ [][Next]_vars

\* The tool is scheduled, and the user answers every alert in the end.
FairSpec == Spec /\ WF_vars(ToolStep) /\ WF_vars(Answer \/ AnswerStop)

-------------------------------------------------------------------------------
(* Properties *)

WorkPCs == {"next", "tail", "report", "copyFile", "dir", "dirExists", "dirList",
            "dirLoop", "regular", "regExists", "regCreate", "regOpen", "regLoop",
            "regSpin", "regAttrs", "symlink", "symlinkNoTarget", "newLink",
            "newLinkExists", "newLinkGo", "retYES", "retNO", "move", "moveExists",
            "moveGo", "copyDone", "moveDelete", "delete", "link", "linkExists",
            "linkGo"}
PCs == WorkPCs \union {"boot", "start", "wait", "exit"}

DataTypes ==
  /\ op \in Operation
  /\ dst0 \in [Node -> Object] /\ src \in [Node -> Object] /\ dst \in [Node -> Object]
  /\ pc \in PCs /\ cont \in WorkPCs
  /\ idx \in 0..Len(FileList) /\ cur \in Node
  /\ pending \in [Node -> SUBSET Node] /\ tried \subseteq Node
  /\ problem \in Problem \union {"none"} /\ (pc = "wait" <=> problem # "none")
  /\ sol \in Solution \union {"none", "stop"}
  /\ default \in [Problem -> Solution \union {"NOT_SET"}]
  /\ result \in {"none", "0", "1"}
  /\ told \in [Node -> SUBSET Problem]

FlagTypes ==
  /\ sameFS \in BOOLEAN /\ trav \in BOOLEAN /\ opResult \in BOOLEAN
  /\ isStopped \in BOOLEAN /\ makeCleanupOnStop \in BOOLEAN /\ cleaned \in BOOLEAN

\* Every variable has its type, and an alert is open exactly while the tool
\* waits in howToHandleProblem:.
TypeOK == DataTypes /\ FlagTypes

Listed == UNION {Under(f) : f \in Range(FileList)}
Up(n) == {m \in Node : n \in Under(m)}
Top(n) == SubSeq(n, 1, 1)

\* The content of n is at neither end.
Lost(n) == Source[n] = "orig" /\ src[n] # "orig" /\ dst[n] # "orig"

\* The user was told that n, or a directory above it, is not carried over.
ToldNotCopied(n) ==
  \E m \in Up(n) : told[m] \intersect {"ReadError", "WriteError", "UnknownFile",
                                      "SymlinkEncountered"} # {}

\* A move, by rename or by copy and delete, never loses a file the user was
\* not told about, wherever a stop falls; the one exception is a cleanup
\* that renames an older file back over it (see CleanUpRemovesOnlyCreated).
MoveLosesNothingUntold ==
  op = "Move" =>
    \A n \in Node : Lost(n) => \/ ToldNotCopied(n)
                             \/ (cleaned /\ dst0[Top(n)] # "none")

\* A file that was at the destination before the run survives unless the
\* FileExists alert was raised for it or a directory above it, or the
\* operation was stopped and cleaned up.
OldFilesKept ==
  \A n \in Node : dst0[n] = "old" /\ dst[n] # "old" =>
    cleaned \/ \E m \in Up(n) : "FileExists" \in told[m]

\* Where no target stood in the way, a cleanup leaves both directories as the
\* tool found them (a move between file systems cannot be undone by rename).
CleanUpUndoes ==
  /\ cleaned
  /\ \A f \in Range(FileList) : dst0[f] = "none"
  /\ Faults \intersect {"remove", "rename"} = {}
  /\ op \in {"Copy", "Duplicate", "Link"} \/ (op = "Move" /\ sameFS)
  => src = Source /\ dst = dst0

\* "Completed" after a run whose only alerts, if any, were about links means
\* that the operation was carried out on everything else, and that only Move
\* and Delete touch the source.
SilentCompletion ==
  result = "0" /\ (\A n \in Node : told[n] \subseteq {"SymlinkEncountered"}) =>
    \A n \in {m \in Listed : told[m] = {}} :
      /\ op \in {"Copy", "Duplicate", "Move"} /\ Source[n] # "none" =>
           dst[n] = Source[n] \/ (Source[n] = "dir" /\ IsDir(dst[n]))
      /\ op = "Link" /\ Len(n) = 1 => dst[n] = "symlink"
      /\ src[n] = IF op \in {"Move", "Delete"} THEN "none" ELSE Source[n]

\* Every operation comes to an end if the user answers.
Termination == <>(pc = "exit")

\* A stop that was not lost at the start ends the tool, even when it is
\* looping on an unreadable source file.
StopEnds == (isStopped /\ pc # "start") ~> (pc = "exit")

\* The tool keeps its side of the alert protocol.
Protocol == INSTANCE ToolProtocol WITH
  phase    <- IF pc = "wait" THEN "ask"
              ELSE IF pc \in {"boot", "start", "exit"} THEN pc ELSE "work",
  question <- problem,
  always   <- default,
  stopped  <- isStopped,
  report   <- result

ImplementsProtocol == Protocol!Spec

-------------------------------------------------------------------------------
(* What comments and alert texts say, and the code does not do *)

\* "Remove created duplicates and exit" (Copy.m, Move.m, Link.m): a stop
\* costs no older file that the user was not asked about, and no source file.
CleanUpRemovesOnlyCreated ==
  \A n \in Node :
    /\ op # "Move" /\ dst0[n] = "old" /\ dst[n] # "old" =>
         \E m \in Up(n) : "FileExists" \in told[m]
    /\ op = "Move" /\ Lost(n) => ToldNotCopied(n)
===============================================================================
