-------------------------- MODULE FileMoverCarry_proofs --------------------------
(***************************************************************************)
(* What the FileMover tool carries over: a move loses no file the user was *)
(* not told about, and a run that completes without an alert has done what *)
(* was asked.  Both need every write() to write what it is given           *)
(* (CopyRegular does not look at its result), and nothing else: any other  *)
(* call may fail, and stops and answers come at any time.                  *)
(*                                                                         *)
(* CarryInv is the invariant of the walk through the source.  Progress     *)
(* accounts for every path under the listed name; it needs OpenDirs, so    *)
(* that nothing is forgotten when CopyDirectory returns, Kinds, so that    *)
(* the function at work is the one for the kind of file, and Fresh, so     *)
(* that a move never comes to ask about a target while it copies.          *)
(***************************************************************************)
EXTENDS FileMoverTool_proofs

\* The alerts that excuse a file from being carried over.  A move asks about an
\* existing target before it copies, so there FileExists is no excuse.
Excuses == {"ReadError", "WriteError", "UnknownFile", "SymlinkEncountered"}
             \union (IF op = "Move" THEN {} ELSE {"FileExists"})
Excused(n) == \E m \in Up(n) : told[m] \intersect Excuses # {}
\* The target of n is what it should be.
Right(n) == dst[n] = Source[n] \/ (Source[n] = "dir" /\ IsDir(dst[n]))
Settled(n) == Right(n) \/ Excused(n)
\* An open CopyDirectory has still to come to n ...
Waiting(n) == \E d \in Up(cur) : \E c \in pending[d] : n \in Under(c)
\* ... or CopyFile is at a directory above it.
Due(n) == (Point \in AtWork /\ n \in Under(cur)) \/ Waiting(n)

\* The open directories are those above cur, and the rest of their contents is apart from it.
OpenDirs ==
  ~isStopped \/ idx = 0 => \A d \in Node : pending[d] # {} =>
    /\ Point \in CopyPCs /\ d \in Up(cur) /\ (d = cur => Point = "dirLoop")
    /\ \A c \in pending[d] : cur \notin Under(c)

\* The function at work is the one for the kind of file, or the user was asked about the link.
Kinds ==
  /\ \A n \in Node : "SymlinkEncountered" \in told[n] => Kind[n] = "link"
  /\ Point \in LinkNodePCs => "SymlinkEncountered" \in told[cur]
  /\ Point \in AtWork /\ trav => "SymlinkEncountered" \in told[cur]
  /\ Point \in MovePCs => ~trav
  /\ Point \in {"dir", "dirExists", "dirList"} => trav \/ Kind[cur] = "dir"
  /\ Point \in RegPCs => trav \/ Kind[cur] = "regular"

\* Before the function for cur has looked for a target.
Looking == {"copyFile", "dir", "regular", "symlink", "symlinkNoTarget", "newLink"}
\* The copy a move makes meets nothing at the destination.
Fresh ==
  op = "Move" /\ ~isStopped /\ Point \in CopyPCs =>
    /\ Point \notin ExistsPCs
    /\ Point \in Looking => dst[cur] = "none"
    /\ \A n \in Node : Due(n) /\ n # cur => dst[n] = "none"

\* Unless stopped, whatever lies under the listed name is as it should be, excused, or
\* still to come; nothing is still to come when a move deletes it.
Progress ==
  /\ ~isStopped /\ Point = "dirList" => IsDir(dst[cur]) \/ Excused(cur)
  /\ ~isStopped /\ Point \in CopyPCs \union {"copyDone", "moveDelete"} =>
       \A n \in Under(Top(cur)) : Source[n] # "none" => Settled(n) \/ Due(n)
  /\ Point = "delete" /\ op = "Move" =>
       \A n \in Under(cur) : Source[n] # "none" => Settled(n)

\* The user saw an alert about something else than a link.
Loud == \E n \in Node : ~(told[n] \subseteq {"SymlinkEncountered"})
\* The operation was carried out on f and what lies under it, links left aside.
Carried(f) ==
  \A n \in Under(f) : told[n] = {} =>
      /\ op \in {"Copy", "Duplicate", "Move"} /\ Source[n] # "none" => Right(n)
      /\ op = "Link" /\ Len(n) = 1 => dst[n] = "symlink"
      /\ src[n] = IF op \in {"Move", "Delete"} THEN "none" ELSE Source[n]
\* No failure goes without an alert.
Heard == Point = "retNO" \/ ~opResult \/ tried # {} => Loud
\* Without one, the names before the one at work are done, and the list is finished.
Silent ==
  ~isStopped /\ ~Loud =>
    /\ \A i \in 1..idx : (i = idx /\ Point \in Working) \/ Carried(FileList[i])
    /\ Point \in {"tail", "report"} \/ result = "0" => idx = Len(FileList)

-----------------------------------------------------------------------------
(* The walk through the source *)

\* Only Start takes a stop back.
LEMMA StopKept == ASSUME [Next]_vars, ~Start, ~isStopped' PROVE ~isStopped
BY DEF Next, ToolStep, CopyStep, MoveStep, vars, InstallHandler, NextFile, EndOfFiles, Finish,
   Report, CopyFile, CopyDirectory, DirExists, DirList, DirNext, DirEnd, CopyRegular, RegExists,
   RegCreate, RegOpen, RegLoop, RegSpinEnds, RegAttrs, DuplicateSymbolicLink, CopySymbolicLink,
   SymlinkNoTarget, NewLink, NewLinkExists, NewLinkGo, Return, Move, MoveExists, MoveRename,
   MoveByCopy, CopyDone, MoveDelete, Delete, DeleteEnd, Link, LinkExists, LinkGo, Answer,
   AnswerStop, Interrupt, Killed, Done

\* Once the list is begun a stop is for good.
LEMMA StopStays ==
  ASSUME WalkInv, [Next]_vars, idx' > 0, ~isStopped'
  PROVE  ~isStopped
<1>1. ~Start
  BY DEF Start, walk, WalkInv, Ends
<1>2. QED
  BY <1>1, StopKept

\* These steps alone change cur, idx or what is pending; the others keep within CopyFile.
LEMMA CopyMoves ==
  ASSUME WalkInv, [Next]_vars, ~DirList, ~DirNext, ~Return, ~NextFile
  PROVE  /\ pending' = pending /\ cur' = cur /\ idx' = idx
         /\ Point \in CopyPCs => Point' \in CopyPCs
         /\ Point = "dirLoop" => Point' = "dirLoop" \/ pending[cur] = {} \/ isStopped
<1>a. pc \in PCs /\ cont \in WorkPCs
  BY DEF WalkInv, TypeOK, DataTypes
<1> USE <1>a DEF Point, Working, CopyPCs, AtWork, RegPCs, LinkNodePCs, MovePCs, LinkPCs, WorkPCs,
        PCs, Go, args, fs, comm, walk, fin
<1>1. CASE InstallHandler
  BY <1>1 DEF InstallHandler
<1>2. CASE Start
  BY <1>2 DEF Start
<1>3. CASE NextFile
  BY <1>3 DEF NextFile, FirstStep, More
<1>4. CASE EndOfFiles
  BY <1>4 DEF EndOfFiles
<1>5. CASE Finish
  BY <1>5 DEF Finish, CleanUp
<1>6. CASE Report
  BY <1>6 DEF Report
<1>7. CASE CopyFile
  BY <1>7 DEF CopyFile, Ask, Seen
<1>8. CASE CopyDirectory
  BY <1>8 DEF CopyDirectory, Ask, Create
<1>9. CASE DirExists
  BY <1>9 DEF DirExists, DropTarget, Ask
<1>10. CASE DirList
  BY <1>10 DEF DirList, Ask
<1>11. CASE DirNext
  BY <1>11 DEF DirNext
<1>12. CASE DirEnd
  BY <1>12 DEF DirEnd, Ask
<1>13. CASE CopyRegular
  BY <1>13 DEF CopyRegular, Ask
<1>14. CASE RegExists
  BY <1>14 DEF RegExists, DropTarget, Ask
<1>15. CASE RegCreate
  BY <1>15 DEF RegCreate, Create, Ask
<1>16. CASE RegOpen
  BY <1>16 DEF RegOpen, Ask
<1>17. CASE RegLoop
  BY <1>17 DEF RegLoop
<1>18. CASE RegSpinEnds
  BY <1>18 DEF RegSpinEnds
<1>19. CASE RegAttrs
  BY <1>19 DEF RegAttrs, Ask
<1>20. CASE DuplicateSymbolicLink
  BY <1>20 DEF DuplicateSymbolicLink, Ask, FollowSolution
<1>21. CASE CopySymbolicLink
  BY <1>21 DEF CopySymbolicLink, Ask, FollowSolution
<1>22. CASE SymlinkNoTarget
  BY <1>22 DEF SymlinkNoTarget, FollowSolution
<1>23. CASE NewLink
  BY <1>23 DEF NewLink, Ask
<1>24. CASE NewLinkExists
  BY <1>24 DEF NewLinkExists, DropTarget, Ask
<1>25. CASE NewLinkGo
  BY <1>25 DEF NewLinkGo, Create, Ask
<1>26. CASE Return
  BY <1>26 DEF Return
<1>27. CASE Move
  BY <1>27 DEF Move, Ask
<1>28. CASE MoveExists
  BY <1>28 DEF MoveExists, DropTarget, Ask
<1>29. CASE MoveRename
  BY <1>29 DEF MoveRename, Ask
<1>30. CASE MoveByCopy
  BY <1>30 DEF MoveByCopy
<1>31. CASE CopyDone
  BY <1>31 DEF CopyDone
<1>32. CASE MoveDelete
  BY <1>32 DEF MoveDelete
<1>33. CASE Delete
  BY <1>33 DEF Delete, Ask
<1>34. CASE DeleteEnd
  BY <1>34 DEF DeleteEnd
<1>35. CASE Link
  BY <1>35 DEF Link, Ask
<1>36. CASE LinkExists
  BY <1>36 DEF LinkExists, DropTarget, Ask
<1>37. CASE LinkGo
  BY <1>37 DEF LinkGo, Create, Ask
<1>38. CASE Answer
  BY <1>38 DEF Answer
<1>39. CASE AnswerStop
  BY <1>39 DEF AnswerStop
<1>40. CASE Interrupt
  BY <1>40 DEF Interrupt
<1>41. CASE Killed
  BY <1>41 DEF Killed
<1>42. CASE Done
  BY <1>42 DEF Done, vars
<1>43. CASE UNCHANGED vars
  BY <1>43 DEF vars
<1>44. QED
  BY <1>1, <1>2, <1>3, <1>4, <1>5, <1>6, <1>7, <1>8, <1>9, <1>10, <1>11, <1>12, <1>13, <1>14,
     <1>15, <1>16, <1>17, <1>18, <1>19, <1>20, <1>21, <1>22, <1>23, <1>24, <1>25, <1>26, <1>27,
     <1>28, <1>29, <1>30, <1>31, <1>32, <1>33, <1>34, <1>35, <1>36, <1>37, <1>38, <1>39, <1>40,
     <1>41, <1>42, <1>43 DEF Next, ToolStep, CopyStep, MoveStep

\* CopyDirectory is entered for contents that are apart, and left when they are done.
LEMMA OpenDirsStep == WalkInv /\ OpenDirs /\ [Next]_vars => OpenDirs'
<1> SUFFICES ASSUME WalkInv, OpenDirs, [Next]_vars, ~isStopped' \/ idx' = 0,
                    NEW d \in Node, pending'[d] # {}
             PROVE  /\ Point' \in CopyPCs /\ d \in Up(cur') /\ (d = cur' => Point' = "dirLoop")
                    /\ \A c \in pending'[d] : cur' \notin Under(c)
  BY DEF OpenDirs
<1>a. /\ cur \in Node /\ pending \in [Node -> SUBSET Node] /\ idx \in Nat /\ Contents /\ Places
      /\ Ends
      /\ pc \in PCs
  BY PathsInTree DEF WalkInv, TypeOK, DataTypes
<1>b. ~isStopped \/ idx = 0
  <2>1. CASE idx' = 0
    <3>1. ~NextFile
      BY <1>a, <2>1 DEF NextFile
    <3>2. QED
      BY <2>1, <3>1, WalkMoves
  <2>2. CASE idx' # 0 /\ ~isStopped'
    <3>0. idx' = idx \/ idx' = idx + 1
      BY WalkMoves DEF NextFile
    <3>1. idx' \in Nat
      BY <1>a, <3>0
    <3>2. idx' > 0
      BY <2>2, <3>1
    <3>3. QED
      BY <2>2, <3>2, StopStays
  <2>3. QED
    BY <2>1, <2>2
<1>c. \A e \in Node : pending[e] # {} =>
        /\ Point \in CopyPCs /\ e \in Up(cur) /\ (e = cur => Point = "dirLoop")
        /\ \A c \in pending[e] : cur \notin Under(c)
  BY <1>b DEF OpenDirs
<1>d. Point \in CopyPCs => ~isStopped
  <2>1. Point \in CopyPCs => idx > 0
    BY <1>a DEF Places, Working
  <2>2. QED
    BY <1>a, <1>b, <2>1
<1>1. CASE DirList
  <2>1. /\ cur' = cur /\ pc = "dirList" /\ Point = "dirList" /\ Point' \in {"dirLoop", "retNO"}
        /\ pending' = pending \/ (Point' = "dirLoop" /\ pending' = [pending EXCEPT ![cur] =
             {m \in Children(cur) : Present(m)}])
    BY <1>1 DEF DirList, Go, Ask, Point
  <2>2. \A c \in Children(cur) : cur \notin Under(c)
    BY <1>a, ChildrenApart
  <2>3. cur \in Up(cur)
    BY <1>a, UnderOrder
  <2>4. CASE d = cur
    BY <1>a, <1>c, <2>1, <2>2, <2>3, <2>4 DEF CopyPCs
  <2>5. CASE d # cur
    BY <1>a, <1>c, <2>1, <2>5 DEF CopyPCs
  <2>6. QED
    BY <2>4, <2>5
<1>2. CASE DirNext
  <2>1. PICK m \in pending[cur] : pending' = [pending EXCEPT ![cur] = @ \ {m}] /\ cur' = m
    BY <1>2 DEF DirNext
  <2>2. Point' = "copyFile"
    BY <1>2 DEF DirNext, Go, Point
  <2>3. m \in Children(cur) /\ m \in Node /\ m \in Under(cur) /\ cur \notin Under(m)
    BY <1>a, <2>1, ChildrenApart DEF Contents
  <2>4. pending'[d] \subseteq pending[d] /\ pending[d] # {} /\ (d = cur => m \notin pending'[d])
    BY <1>a, <2>1
  <2>5. d \in Up(cur) /\ d \in Up(m) /\ d # m
    BY <1>a, <1>c, <2>3, <2>4, UnderOrder
  <2>6. ASSUME NEW c \in pending'[d], m \in Under(c) PROVE FALSE
    <3>1. c \in Children(d) /\ c \in pending[d] /\ c \in Node
      BY <1>a, <2>4, ChildrenApart DEF Contents
    <3>2. cur \notin Under(c)
      BY <1>c, <2>4, <3>1
    <3>3. m = c
      BY <1>a, <2>3, <2>6, <3>1, <3>2, ChildrenApart
    <3>4. d = cur
      BY <1>a, <2>3, <3>1, <3>3, ChildrenApart
    <3>5. QED
      BY <2>4, <3>3, <3>4
  <2>7. QED
    BY <2>1, <2>2, <2>5, <2>6 DEF CopyPCs, AtWork
<1>3. CASE Return
  <2>1. /\ pending' = pending /\ Point = pc /\ pc \in {"retYES", "retNO"}
    BY <1>3 DEF Return, Point
  <2>2. d \in Up(cur) /\ d # cur /\ \A c \in pending[d] : cur \notin Under(c)
    BY <1>c, <2>1
  <2>3. Len(cur) > 1
    BY <1>a, <2>2, NodeLength, TopAlone, UnderOrder
  <2>4. cur' = Parent(cur) /\ Point' = "dirLoop"
    BY <1>3, <2>3 DEF Return, Go, Point
  <2>5. Parent(cur) \in Node /\ Parent(cur) \in Under(d) /\ cur \in Under(Parent(cur))
    BY <1>a, <2>2, <2>3, ParentAbove, UnderOrder
  <2>6. \A c \in pending[d] : c \in Node
    BY <1>a
  <2>7. \A c \in pending[d] : Parent(cur) \notin Under(c)
    BY <1>a, <2>2, <2>5, <2>6, UnderOrder
  <2>8. QED
    BY <2>1, <2>4, <2>5, <2>7, UnderOrder DEF CopyPCs
<1>4. CASE NextFile
  BY <1>4, <1>c DEF NextFile, Point, CopyPCs, AtWork, RegPCs, LinkNodePCs
<1>5. CASE ~DirList /\ ~DirNext /\ ~Return /\ ~NextFile
  BY <1>5, <1>c, <1>d, CopyMoves
<1>6. QED
  BY <1>1, <1>2, <1>3, <1>4, <1>5

\* Links are known as such before anything is made of them.
LEMMA KindsStep == WalkInv /\ Kinds /\ [Next]_vars => Kinds'
<1> SUFFICES ASSUME WalkInv, Kinds, [Next]_vars PROVE Kinds'
  OBVIOUS
<1>a. /\ cur \in Node /\ told \in [Node -> SUBSET Problem] /\ pc \in PCs /\ cont \in WorkPCs
      /\ op \in Operation
      /\ trav \in BOOLEAN /\ LinkTo[cur] # "link" /\ Places /\ Ends
  BY TreeAssumption DEF WalkInv, TypeOK, DataTypes, FlagTypes
<1> USE <1>a DEF Kinds, Point, Working, CopyPCs, AtWork, RegPCs, LinkNodePCs, MovePCs, LinkPCs,
        ExistsPCs, WorkPCs, PCs, Operation, Go, args, fs, comm, walk, fin
<1>1. CASE InstallHandler
  BY <1>1 DEF InstallHandler
<1>2. CASE Start
  BY <1>2 DEF Start
<1>3. CASE NextFile
  BY <1>3 DEF NextFile, FirstStep, More
<1>4. CASE EndOfFiles
  BY <1>4 DEF EndOfFiles
<1>5. CASE Finish
  BY <1>5 DEF Finish, CleanUp, Ends
<1>6. CASE Report
  BY <1>6 DEF Report
<1>7. CASE CopyFile
  BY <1>7 DEF CopyFile, Ask, Seen
<1>8. CASE CopyDirectory
  BY <1>8 DEF CopyDirectory, Ask, Create
<1>9. CASE DirExists
  BY <1>9 DEF DirExists, DropTarget, Ask
<1>10. CASE DirList
  BY <1>10 DEF DirList, Ask
<1>11. CASE DirNext
  BY <1>11 DEF DirNext
<1>12. CASE DirEnd
  BY <1>12 DEF DirEnd, Ask
<1>13. CASE CopyRegular
  BY <1>13 DEF CopyRegular, Ask
<1>14. CASE RegExists
  BY <1>14 DEF RegExists, DropTarget, Ask
<1>15. CASE RegCreate
  BY <1>15 DEF RegCreate, Create, Ask
<1>16. CASE RegOpen
  BY <1>16 DEF RegOpen, Ask
<1>17. CASE RegLoop
  BY <1>17 DEF RegLoop
<1>18. CASE RegSpinEnds
  BY <1>18 DEF RegSpinEnds
<1>19. CASE RegAttrs
  BY <1>19 DEF RegAttrs, Ask
<1>20. CASE DuplicateSymbolicLink
  BY <1>20 DEF DuplicateSymbolicLink, Ask, FollowSolution
<1>21. CASE CopySymbolicLink
  BY <1>21 DEF CopySymbolicLink, Ask, FollowSolution
<1>22. CASE SymlinkNoTarget
  BY <1>22 DEF SymlinkNoTarget, FollowSolution
<1>23. CASE NewLink
  BY <1>23 DEF NewLink, Ask
<1>24. CASE NewLinkExists
  BY <1>24 DEF NewLinkExists, DropTarget, Ask
<1>25. CASE NewLinkGo
  BY <1>25 DEF NewLinkGo, Create, Ask
<1>26. CASE Return
  BY <1>26 DEF Return
<1>27. CASE Move
  BY <1>27 DEF Move, Ask
<1>28. CASE MoveExists
  BY <1>28 DEF MoveExists, DropTarget, Ask
<1>29. CASE MoveRename
  BY <1>29 DEF MoveRename, Ask
<1>30. CASE MoveByCopy
  BY <1>30 DEF MoveByCopy
<1>31. CASE CopyDone
  BY <1>31 DEF CopyDone
<1>32. CASE MoveDelete
  BY <1>32 DEF MoveDelete
<1>33. CASE Delete
  BY <1>33, PathsInTree DEF Delete, Ask, Removable
<1>34. CASE DeleteEnd
  BY <1>34 DEF DeleteEnd
<1>35. CASE Link
  BY <1>35 DEF Link, Ask
<1>36. CASE LinkExists
  BY <1>36 DEF LinkExists, DropTarget, Ask
<1>37. CASE LinkGo
  BY <1>37 DEF LinkGo, Create, Ask
<1>38. CASE Answer
  BY <1>38 DEF Answer
<1>39. CASE AnswerStop
  BY <1>39 DEF AnswerStop
<1>40. CASE Interrupt
  BY <1>40 DEF Interrupt
<1>41. CASE Killed
  BY <1>41 DEF Killed
<1>42. CASE Done
  BY <1>42 DEF Done, vars
<1>43. CASE UNCHANGED vars
  BY <1>43 DEF vars
<1>44. QED
  BY <1>1, <1>2, <1>3, <1>4, <1>5, <1>6, <1>7, <1>8, <1>9, <1>10, <1>11, <1>12, <1>13, <1>14,
     <1>15, <1>16, <1>17, <1>18, <1>19, <1>20, <1>21, <1>22, <1>23, <1>24, <1>25, <1>26, <1>27,
     <1>28, <1>29, <1>30, <1>31, <1>32, <1>33, <1>34, <1>35, <1>36, <1>37, <1>38, <1>39, <1>40,
     <1>41, <1>42, <1>43 DEF Next, ToolStep, CopyStep, MoveStep

\* CopyFile comes to a path by these steps, and past an existence check only by an alert.
LEMMA WorkBefore ==
  ASSUME WalkInv, [Next]_vars, ~NextFile, ~MoveByCopy
  PROVE  /\ Point' \in CopyPCs => Point \in CopyPCs
         /\ ~DirNext /\ Point' \in AtWork => Point \in AtWork
         /\ Point' \in {"dirExists", "regExists", "newLinkExists"} =>
              Point' = Point \/ (Point \in Looking /\ dst[cur] # "none")
         /\ ~DirNext /\ Point' \in Looking => Point \in Looking /\ cur' = cur /\ dst' = dst
<1>a. pc \in PCs /\ cont \in WorkPCs /\ op \in Operation
  BY DEF WalkInv, TypeOK, DataTypes
<1> USE <1>a DEF Point, Operation, Working, CopyPCs, AtWork, RegPCs, LinkNodePCs, MovePCs, LinkPCs,
        Looking, WorkPCs, PCs, Go, args, fs, comm, walk, fin
<1>1. CASE InstallHandler
  BY <1>1 DEF InstallHandler
<1>2. CASE Start
  BY <1>2 DEF Start
<1>3. CASE NextFile
  BY <1>3 DEF NextFile, FirstStep, More
<1>4. CASE EndOfFiles
  BY <1>4 DEF EndOfFiles
<1>5. CASE Finish
  BY <1>5 DEF Finish, CleanUp
<1>6. CASE Report
  BY <1>6 DEF Report
<1>7. CASE CopyFile
  BY <1>7 DEF CopyFile, Ask, Seen
<1>8. CASE CopyDirectory
  BY <1>8 DEF CopyDirectory, Ask, Create
<1>9. CASE DirExists
  BY <1>9 DEF DirExists, DropTarget, Ask
<1>10. CASE DirList
  BY <1>10 DEF DirList, Ask
<1>11. CASE DirNext
  BY <1>11 DEF DirNext
<1>12. CASE DirEnd
  BY <1>12 DEF DirEnd, Ask
<1>13. CASE CopyRegular
  BY <1>13 DEF CopyRegular, Ask
<1>14. CASE RegExists
  BY <1>14 DEF RegExists, DropTarget, Ask
<1>15. CASE RegCreate
  BY <1>15 DEF RegCreate, Create, Ask
<1>16. CASE RegOpen
  BY <1>16 DEF RegOpen, Ask
<1>17. CASE RegLoop
  BY <1>17 DEF RegLoop
<1>18. CASE RegSpinEnds
  BY <1>18 DEF RegSpinEnds
<1>19. CASE RegAttrs
  BY <1>19 DEF RegAttrs, Ask
<1>20. CASE DuplicateSymbolicLink
  BY <1>20 DEF DuplicateSymbolicLink, Ask, FollowSolution
<1>21. CASE CopySymbolicLink
  BY <1>21 DEF CopySymbolicLink, Ask, FollowSolution
<1>22. CASE SymlinkNoTarget
  BY <1>22 DEF SymlinkNoTarget, FollowSolution
<1>23. CASE NewLink
  BY <1>23 DEF NewLink, Ask
<1>24. CASE NewLinkExists
  BY <1>24 DEF NewLinkExists, DropTarget, Ask
<1>25. CASE NewLinkGo
  BY <1>25 DEF NewLinkGo, Create, Ask
<1>26. CASE Return
  BY <1>26 DEF Return
<1>27. CASE Move
  BY <1>27 DEF Move, Ask
<1>28. CASE MoveExists
  BY <1>28 DEF MoveExists, DropTarget, Ask
<1>29. CASE MoveRename
  BY <1>29 DEF MoveRename, Ask
<1>30. CASE MoveByCopy
  BY <1>30 DEF MoveByCopy
<1>31. CASE CopyDone
  BY <1>31 DEF CopyDone
<1>32. CASE MoveDelete
  BY <1>32 DEF MoveDelete
<1>33. CASE Delete
  BY <1>33 DEF Delete, Ask
<1>34. CASE DeleteEnd
  BY <1>34 DEF DeleteEnd
<1>35. CASE Link
  BY <1>35 DEF Link, Ask
<1>36. CASE LinkExists
  BY <1>36 DEF LinkExists, DropTarget, Ask
<1>37. CASE LinkGo
  BY <1>37 DEF LinkGo, Create, Ask
<1>38. CASE Answer
  BY <1>38 DEF Answer
<1>39. CASE AnswerStop
  BY <1>39 DEF AnswerStop
<1>40. CASE Interrupt
  BY <1>40 DEF Interrupt
<1>41. CASE Killed
  BY <1>41 DEF Killed
<1>42. CASE Done
  BY <1>42 DEF Done, vars
<1>43. CASE UNCHANGED vars
  BY <1>43 DEF vars
<1>44. QED
  BY <1>1, <1>2, <1>3, <1>4, <1>5, <1>6, <1>7, <1>8, <1>9, <1>10, <1>11, <1>12, <1>13, <1>14,
     <1>15, <1>16, <1>17, <1>18, <1>19, <1>20, <1>21, <1>22, <1>23, <1>24, <1>25, <1>26, <1>27,
     <1>28, <1>29, <1>30, <1>31, <1>32, <1>33, <1>34, <1>35, <1>36, <1>37, <1>38, <1>39, <1>40,
     <1>41, <1>42, <1>43 DEF Next, ToolStep, CopyStep, MoveStep

\* While CopyFile is at work nothing but the target of cur appears.
LEMMA OnlyCur ==
  ASSUME WalkInv, [Next]_vars, Point \in CopyPCs, NEW n \in Node, n # cur, dst[n] = "none"
  PROVE  dst'[n] = "none"
<1>a. DataTypes /\ cur \in Node /\ dst \in [Node -> Object]
  BY DEF WalkInv, TypeOK, DataTypes
<1>b. ASSUME NEW k, NEW p, NEW f, DropTarget(k, p, f) PROVE dst'[n] = "none"
  BY <1>a, <1>b, Dropped DEF Without
<1>c. ASSUME NEW x, NEW k, NEW f, Create(x, k, f) PROVE dst'[n] = "none"
  BY <1>a, <1>c DEF Create
<1>d. Point = pc \/ pc = "wait"
  BY DEF Point
<1>e. CASE RegLoop
  BY <1>a, <1>e DEF RegLoop
<1>f. QED
  BY <1>b, <1>c, <1>d, <1>e, FilesChange DEF FilesMove, fs, CopyPCs, AtWork, RegPCs, LinkNodePCs,
     Finish, CopyDirectory,
     DirExists, RegExists, RegCreate, NewLinkExists, NewLinkGo, MoveExists, MoveRename, CopyDone,
     Delete, LinkExists, LinkGo

\* What is due after a step was due before, and was not cur unless it still is.
LEMMA DueBefore ==
  ASSUME WalkInv, OpenDirs, [Next]_vars, ~isStopped, ~isStopped', Point \in CopyPCs, Point' \in CopyPCs,
         NEW n \in Node, Due(n)'
  PROVE  Due(n) /\ (n = cur => cur' = cur /\ Point' \in AtWork)
<1>a. /\ cur \in Node /\ pending \in [Node -> SUBSET Node] /\ Contents /\ Places
      /\ cur \in Under(cur)
  BY UnderOrder DEF WalkInv, TypeOK, DataTypes
<1>b. \A e \in Node : pending[e] # {} =>
        /\ e \in Up(cur) /\ (e = cur => Point = "dirLoop")
        /\ \A c \in pending[e] : cur \notin Under(c)
  BY DEF OpenDirs
<1>c. Waiting(n) => n # cur
  BY <1>b DEF Waiting, Up
<1>1. CASE DirList
  <2>1. Point = "dirList" /\ cur' = cur /\ Point' \in {"dirLoop", "retNO"}
    BY <1>1 DEF DirList, Go, Ask, Point
  <2>2. Point' \notin AtWork /\ Point \in AtWork
    BY <2>1 DEF AtWork, RegPCs, LinkNodePCs
  <2>a. PICK e \in Up(cur) : \E c \in pending'[e] : n \in Under(c)
    BY <2>1, <2>2 DEF Due, Waiting
  <2>3. PICK c \in pending'[e] : n \in Under(c)
    BY <2>a
  <2>4. CASE c \in pending[e]
    BY <1>c, <2>3, <2>4 DEF Due, Waiting
  <2>5. CASE c \notin pending[e]
    <3>1. c \in Children(cur)
      BY <1>1, <1>a, <2>3, <2>5 DEF DirList, Up
    <3>2. n \in Under(cur) /\ n # cur
      BY <1>a, <2>3, <3>1, ChildrenApart, UnderOrder
    <3>3. QED
      BY <2>2, <3>2 DEF Due
  <2>6. QED
    BY <2>4, <2>5
<1>2. CASE DirNext
  <2>1. PICK m \in pending[cur] : pending' = [pending EXCEPT ![cur] = @ \ {m}] /\ cur' = m
    BY <1>2 DEF DirNext
  <2>2. m \in Children(cur) /\ m \in Node /\ m \in Under(cur) /\ cur \notin Under(m) /\ cur \in Up(cur)
    BY <1>a, <2>1, ChildrenApart, UnderOrder DEF Contents
  <2>3. CASE n \in Under(m)
    BY <2>1, <2>2, <2>3 DEF Due, Waiting
  <2>4. CASE n \notin Under(m)
    <3>a. PICK e \in Up(m) : \E c \in pending'[e] : n \in Under(c)
      BY <2>1, <2>4 DEF Due, Waiting
    <3>1. PICK c \in pending'[e] : n \in Under(c)
      BY <3>a
    <3>2. e \in Node /\ c \in pending[e]
      BY <1>a, <2>1, <3>1 DEF Up
    <3>3. e \in Up(cur)
      BY <1>b, <3>2
    <3>4. QED
      BY <1>c, <3>1, <3>2, <3>3 DEF Due, Waiting
  <2>5. QED
    BY <2>3, <2>4
<1>3. CASE Return
  <2>1. pending' = pending /\ Len(cur) > 1 /\ cur' = Parent(cur) /\ Point' = "dirLoop"
    BY <1>3 DEF Return, Go, Point, CopyPCs, AtWork, RegPCs, LinkNodePCs
  <2>a. PICK e \in Up(Parent(cur)) : \E c \in pending[e] : n \in Under(c)
    BY <2>1 DEF Due, Waiting, AtWork, RegPCs, LinkNodePCs
  <2>2. PICK c \in pending[e] : n \in Under(c)
    BY <2>a
  <2>3. e \in Node /\ e \in Up(cur)
    BY <1>b, <2>2 DEF Up
  <2>4. QED
    BY <1>c, <2>2, <2>3 DEF Due, Waiting
<1>4. CASE NextFile
  BY <1>4 DEF NextFile, Point, CopyPCs, AtWork, RegPCs, LinkNodePCs
<1>5. CASE ~DirList /\ ~DirNext /\ ~Return /\ ~NextFile
  <2>1. pending' = pending /\ cur' = cur
    BY <1>5, CopyMoves
  <2>2. Waiting(n)' => Waiting(n)
    BY <2>1 DEF Waiting
  <2>3. Point' \in AtWork => Point \in AtWork
    <3>1. ~MoveByCopy
      BY DEF MoveByCopy, Point, CopyPCs, AtWork, RegPCs, LinkNodePCs
    <3>2. QED
      BY <1>5, <3>1, WorkBefore
  <2>4. QED
    BY <1>c, <2>1, <2>2, <2>3 DEF Due
<1>6. QED
  BY <1>1, <1>2, <1>3, <1>4, <1>5

\* A move asks about an existing target before it copies, and then copies into nothing.
LEMMA FreshStep == WalkInv /\ OpenDirs /\ Fresh /\ [Next]_vars => Fresh'
<1> SUFFICES ASSUME WalkInv, OpenDirs, Fresh, [Next]_vars, op' = "Move", ~isStopped', Point' \in CopyPCs
             PROVE  /\ Point' \notin ExistsPCs
                    /\ Point' \in Looking => dst'[cur'] = "none"
                    /\ \A n \in Node : Due(n)' /\ n # cur' => dst'[n] = "none"
  BY DEF Fresh
<1>a. op = "Move" /\ WalkInv' /\ cur \in Node /\ pending \in [Node -> SUBSET Node]
  BY ArgsStay, WalkStep DEF WalkInv, TypeOK, DataTypes
<1>b. ~isStopped
  <2>1. idx' > 0
    BY <1>a DEF WalkInv, Places, Working
  <2>2. QED
    BY <2>1, StopStays
<1>c. ~NextFile
  BY <1>a DEF NextFile, FirstStep, Point, CopyPCs, AtWork, RegPCs, LinkNodePCs
<1>1. CASE MoveByCopy
  <2>1. /\ Point = "moveGo" /\ Point' = "copyFile" /\ cur' = cur /\ dst' = dst
        /\ pending' = pending /\ ~cleaned
    BY <1>1, <1>b DEF MoveByCopy, Go, Point, fs, WalkInv, Ends
  <2>2. dst[cur] = "none" /\ Standing(dst)
    BY <2>1 DEF WalkInv, Cleared, Trees
  <2>3. \A n \in Under(cur) : dst[n] = "none"
    BY <1>a, <2>2 DEF Standing
  <2>4. \A d \in Node : pending[d] = {}
    BY <1>b, <2>1 DEF OpenDirs, CopyPCs, AtWork, RegPCs, LinkNodePCs
  <2>5. \A n \in Node : Due(n)' => n \in Under(cur)
    BY <2>1, <2>4 DEF Due, Waiting, Up
  <2>6. QED
    BY <2>1, <2>2, <2>3, <2>5 DEF ExistsPCs
<1>2. CASE ~MoveByCopy
  <2>1. Point \in CopyPCs
    BY <1>2, <1>c, WorkBefore
  <2>2. /\ Point \notin ExistsPCs
        /\ Point \in Looking => dst[cur] = "none"
        /\ \A n \in Node : Due(n) /\ n # cur => dst[n] = "none"
    BY <1>a, <1>b, <2>1 DEF Fresh
  <2>3. Point' \notin ExistsPCs
    <3>1. Point' \in ExistsPCs => Point' \in {"dirExists", "regExists", "newLinkExists"}
      BY DEF ExistsPCs, CopyPCs, AtWork, RegPCs, LinkNodePCs
    <3>2. QED
      BY <1>2, <1>c, <2>2, <3>1, WorkBefore
  <2>4. ASSUME Point' \in Looking PROVE dst'[cur'] = "none"
    <3>1. CASE DirNext
      <4>1. cur' \in pending[cur] /\ dst' = dst /\ cur \in Up(cur)
        BY <1>a, <3>1, UnderOrder DEF DirNext, fs
      <4>2. cur' \in Node /\ cur' \in Children(cur) /\ cur' \in Under(cur')
        BY <1>a, <4>1, UnderOrder DEF WalkInv, Contents
      <4>3. cur' # cur /\ Due(cur')
        BY <1>a, <4>1, <4>2, ChildrenApart DEF Due, Waiting
      <4>4. QED
        BY <2>2, <4>1, <4>2, <4>3
    <3>2. CASE ~DirNext
      BY <1>2, <1>c, <2>2, <2>4, <3>2, WorkBefore
    <3>3. QED
      BY <3>1, <3>2
  <2>5. ASSUME NEW n \in Node, Due(n)', n # cur' PROVE dst'[n] = "none"
    <3>1. Due(n) /\ n # cur
      BY <1>b, <2>1, <2>5, DueBefore
    <3>2. QED
      BY <2>1, <2>2, <3>1, OnlyCur
  <2>6. QED
    BY <2>3, <2>4, <2>5
<1>3. QED
  BY <1>1, <1>2

-----------------------------------------------------------------------------
(* Everything is carried over or excused *)

\* Where a copy and the deletion after it come from.
LEMMA Entries ==
  ASSUME WalkInv, [Next]_vars, ~NextFile, ~MoveByCopy
  PROVE  /\ Point' = "dirList" => CopyDirectory \/ DirExists \/ (Point = "dirList" /\ cur' = cur /\ dst' = dst)
         /\ Point' \in CopyPCs \union {"copyDone", "moveDelete"} =>
              Point \in CopyPCs \union {"copyDone", "moveDelete"}
         /\ Point' = "delete" => /\ cur' = cur /\ dst' = dst
                                 /\ Point = "delete" \/ (Point = "moveDelete" /\ ~isStopped)
<1>a. pc \in PCs /\ cont \in WorkPCs /\ op \in Operation /\ isStopped \in BOOLEAN
  BY DEF WalkInv, TypeOK, DataTypes, FlagTypes
<1> USE <1>a DEF Point, Operation, Working, CopyPCs, AtWork, RegPCs, LinkNodePCs, MovePCs, LinkPCs,
        WorkPCs, PCs, Go, args, fs, comm, walk, fin
<1>1. CASE InstallHandler
  BY <1>1 DEF InstallHandler
<1>2. CASE Start
  BY <1>2 DEF Start
<1>3. CASE NextFile
  BY <1>3 DEF NextFile, FirstStep, More
<1>4. CASE EndOfFiles
  BY <1>4 DEF EndOfFiles
<1>5. CASE Finish
  BY <1>5 DEF Finish, CleanUp
<1>6. CASE Report
  BY <1>6 DEF Report
<1>7. CASE CopyFile
  BY <1>7 DEF CopyFile, Ask, Seen
<1>8. CASE CopyDirectory
  BY <1>8 DEF CopyDirectory, Ask, Create
<1>9. CASE DirExists
  BY <1>9 DEF DirExists, DropTarget, Ask
<1>10. CASE DirList
  BY <1>10 DEF DirList, Ask
<1>11. CASE DirNext
  BY <1>11 DEF DirNext
<1>12. CASE DirEnd
  BY <1>12 DEF DirEnd, Ask
<1>13. CASE CopyRegular
  BY <1>13 DEF CopyRegular, Ask
<1>14. CASE RegExists
  BY <1>14 DEF RegExists, DropTarget, Ask
<1>15. CASE RegCreate
  BY <1>15 DEF RegCreate, Create, Ask
<1>16. CASE RegOpen
  BY <1>16 DEF RegOpen, Ask
<1>17. CASE RegLoop
  BY <1>17 DEF RegLoop
<1>18. CASE RegSpinEnds
  BY <1>18 DEF RegSpinEnds
<1>19. CASE RegAttrs
  BY <1>19 DEF RegAttrs, Ask
<1>20. CASE DuplicateSymbolicLink
  BY <1>20 DEF DuplicateSymbolicLink, Ask, FollowSolution
<1>21. CASE CopySymbolicLink
  BY <1>21 DEF CopySymbolicLink, Ask, FollowSolution
<1>22. CASE SymlinkNoTarget
  BY <1>22 DEF SymlinkNoTarget, FollowSolution
<1>23. CASE NewLink
  BY <1>23 DEF NewLink, Ask
<1>24. CASE NewLinkExists
  BY <1>24 DEF NewLinkExists, DropTarget, Ask
<1>25. CASE NewLinkGo
  BY <1>25 DEF NewLinkGo, Create, Ask
<1>26. CASE Return
  BY <1>26 DEF Return
<1>27. CASE Move
  BY <1>27 DEF Move, Ask
<1>28. CASE MoveExists
  BY <1>28 DEF MoveExists, DropTarget, Ask
<1>29. CASE MoveRename
  BY <1>29 DEF MoveRename, Ask
<1>30. CASE MoveByCopy
  BY <1>30 DEF MoveByCopy
<1>31. CASE CopyDone
  BY <1>31 DEF CopyDone
<1>32. CASE MoveDelete
  BY <1>32 DEF MoveDelete
<1>33. CASE Delete
  BY <1>33 DEF Delete, Ask
<1>34. CASE DeleteEnd
  BY <1>34 DEF DeleteEnd
<1>35. CASE Link
  BY <1>35 DEF Link, Ask
<1>36. CASE LinkExists
  BY <1>36 DEF LinkExists, DropTarget, Ask
<1>37. CASE LinkGo
  BY <1>37 DEF LinkGo, Create, Ask
<1>38. CASE Answer
  BY <1>38 DEF Answer
<1>39. CASE AnswerStop
  BY <1>39 DEF AnswerStop
<1>40. CASE Interrupt
  BY <1>40 DEF Interrupt
<1>41. CASE Killed
  BY <1>41 DEF Killed
<1>42. CASE Done
  BY <1>42 DEF Done, vars
<1>43. CASE UNCHANGED vars
  BY <1>43 DEF vars
<1>44. QED
  BY <1>1, <1>2, <1>3, <1>4, <1>5, <1>6, <1>7, <1>8, <1>9, <1>10, <1>11, <1>12, <1>13, <1>14,
     <1>15, <1>16, <1>17, <1>18, <1>19, <1>20, <1>21, <1>22, <1>23, <1>24, <1>25, <1>26, <1>27,
     <1>28, <1>29, <1>30, <1>31, <1>32, <1>33, <1>34, <1>35, <1>36, <1>37, <1>38, <1>39, <1>40,
     <1>41, <1>42, <1>43 DEF Next, ToolStep, CopyStep, MoveStep

\* An excuse is for good.
LEMMA ExcusedStays ==
  ASSUME WalkInv, [Next]_vars, NEW n \in Node, Excused(n)
  PROVE  Excused(n)'
<1>1. Excuses' = Excuses
  BY ArgsStay DEF Excuses
<1>2. PICK m \in Up(n) : told[m] \intersect Excuses # {}
  BY DEF Excused
<1>3. m \in Node /\ told[m] \subseteq told'[m]
  BY <1>2, ToldGrows DEF Up, WalkInv, TypeOK
<1>4. QED
  BY <1>1, <1>2, <1>3 DEF Excused

\* What an open CopyDirectory has still to come to stays due.
LEMMA WaitingGoes ==
  ASSUME WalkInv, OpenDirs, [Next]_vars, ~isStopped, ~isStopped', NEW n \in Node, Waiting(n)
  PROVE  Due(n)'
<1>a. /\ cur \in Node /\ pending \in [Node -> SUBSET Node] /\ Contents
  BY DEF WalkInv, TypeOK, DataTypes
<1>1. PICK e \in Up(cur) : \E c \in pending[e] : n \in Under(c)
  BY DEF Waiting
<1>2. PICK c \in pending[e] : n \in Under(c)
  BY <1>1
<1>3. /\ e \in Node /\ cur \in Under(e) /\ Point \in CopyPCs /\ (e = cur => Point = "dirLoop")
  BY <1>2 DEF OpenDirs, Up
<1>4. CASE DirList
  <2>1. e # cur /\ cur' = cur
    BY <1>3, <1>4 DEF DirList, Point
  <2>2. pending'[e] = pending[e]
    BY <1>a, <1>3, <1>4, <2>1 DEF DirList
  <2>3. QED
    BY <1>1, <1>2, <2>1, <2>2 DEF Due, Waiting
<1>5. CASE DirNext
  <2>1. PICK m \in pending[cur] : pending' = [pending EXCEPT ![cur] = @ \ {m}] /\ cur' = m
    BY <1>5 DEF DirNext
  <2>2. m \in Node /\ m \in Under(cur) /\ Point' = "copyFile"
    BY <1>5, <1>a, <2>1, ChildrenApart DEF Contents, DirNext, Go, Point
  <2>3. CASE c = m /\ e = cur
    BY <1>2, <2>1, <2>2, <2>3 DEF Due, AtWork
  <2>4. CASE ~(c = m /\ e = cur)
    <3>1. c \in pending'[e]
      BY <1>a, <1>2, <1>3, <2>1, <2>4
    <3>2. e \in Up(m)
      BY <1>a, <1>3, <2>2, UnderOrder
    <3>3. QED
      BY <1>2, <2>1, <3>1, <3>2 DEF Due, Waiting
  <2>5. QED
    BY <2>3, <2>4
<1>6. CASE Return
  <2>1. e # cur /\ pending' = pending
    BY <1>3, <1>6 DEF Return, Point
  <2>2. Len(cur) > 1
    BY <1>a, <1>3, <2>1, NodeLength, TopAlone
  <2>3. cur' = Parent(cur) /\ Parent(cur) \in Node /\ Parent(cur) \in Under(e)
    BY <1>a, <1>3, <1>6, <2>1, <2>2, ParentAbove DEF Return
  <2>4. e \in Up(cur')
    BY <1>3, <2>3, UnderOrder
  <2>5. QED
    BY <1>2, <2>1, <2>4 DEF Due, Waiting
<1>7. CASE NextFile
  BY <1>3, <1>7 DEF NextFile, Point, CopyPCs, AtWork, RegPCs, LinkNodePCs
<1>8. CASE ~DirList /\ ~DirNext /\ ~Return /\ ~NextFile
  <2>1. pending' = pending /\ cur' = cur
    BY <1>8, CopyMoves
  <2>2. QED
    BY <1>1, <2>1 DEF Due, Waiting
<1>9. QED
  BY <1>4, <1>5, <1>6, <1>7, <1>8

\* While CopyFile is at a path, a step settles what lies under it, or leaves it due.
LEMMA Handled ==
  ASSUME "write" \notin Faults, WalkInv, SourceKept, OpenDirs, Kinds, Fresh, Progress, [Next]_vars,
         ~isStopped, ~isStopped', Point \in AtWork, NEW n \in Under(cur), Source[n] # "none"
  PROVE  Settled(n)' \/ Due(n)'
<1>a. /\ DataTypes /\ cur \in Node /\ n \in Node /\ cur \in Up(n) /\ pc \in PCs
      /\ cont \in WorkPCs /\ dst \in [Node -> Object]
      /\ pending \in [Node -> SUBSET Node] /\ told \in [Node -> SUBSET Problem] /\ op \in Operation
  BY UnderOrder DEF WalkInv, TypeOK, DataTypes
<1>b. ASSUME Point' \in AtWork, cur' = cur PROVE Due(n)'
  BY <1>b DEF Due
<1>c. ASSUME NEW p \in {"ReadError", "WriteError", "UnknownFile", "SymlinkEncountered"},
             NEW k \in WorkPCs, Ask(cur, p, k)
      PROVE  Settled(n)'
  <2>1. p \in told'[cur]
    BY <1>a, <1>c DEF Ask
  <2>2. QED
    BY <1>a, <2>1 DEF Settled, Excused, Excuses
<1>j. ASSUME Ask(cur, "FileExists", "dirExists") \/ Ask(cur, "FileExists", "regExists"), cur' = cur
      PROVE  Due(n)'
  <2>1. Point' \in AtWork
    BY <1>j DEF Ask, Point, AtWork, RegPCs
  <2>2. QED
    BY <1>b, <1>j, <2>1
<1>e. \A k : k \in {"retNO", "retYES", "dirList", "symlink", "symlinkNoTarget"} => k \in WorkPCs
  BY DEF WorkPCs
<1>f. ASSUME told[cur] \intersect Excuses # {} PROVE Settled(n)'
  <2>1. Excused(n)
    BY <1>a, <1>f DEF Excused
  <2>2. QED
    BY <1>a, <2>1, ExcusedStays DEF Settled
<1>d. ASSUME Point \in LinkNodePCs \union ExistsPCs PROVE Settled(n)'
  <2>1. CASE Point \in LinkNodePCs
    BY <2>1, <1>f DEF Kinds, Excuses
  <2>2. CASE Point \in ExistsPCs
    <3>1. "FileExists" \in told[cur]
      BY <2>2 DEF WalkInv, Asked
    <3>2. op # "Move"
      BY <2>2 DEF Fresh, CopyPCs
    <3>3. QED
      BY <1>f, <3>1, <3>2 DEF Excuses
  <2>3. QED
    BY <1>d, <2>1, <2>2
<1>h. CASE trav
  BY <1>h, <1>f DEF Kinds, Excuses
<1>g. CASE ~trav
  <2> USE <1>a DEF Point, AtWork, RegPCs, LinkNodePCs, ExistsPCs, Go, args, fs, comm, walk, fin
  <2>1. CASE InstallHandler
    BY <2>1 DEF InstallHandler
  <2>2. CASE Start
    BY <2>2 DEF Start
  <2>3. CASE NextFile
    BY <2>3 DEF NextFile, FirstStep, More
  <2>4. CASE EndOfFiles
    BY <2>4 DEF EndOfFiles
  <2>5. CASE Finish
    BY <2>5 DEF Finish, CleanUp
  <2>6. CASE Report
    BY <2>6 DEF Report
  <2>7. CASE CopyFile
    BY <2>7, <1>b, <1>c, <1>d, <1>e DEF CopyFile, Seen
  <2>8. CASE CopyDirectory
    BY <2>8, <1>b, <1>c, <1>e, <1>j DEF CopyDirectory, Create
  <2>9. CASE DirExists
    BY <2>9, <1>b, <1>c, <1>d, <1>e DEF DirExists, DropTarget
  <2>10. CASE DirList
    <3>1. CASE \E p \in {"ReadError"} : Ask(cur, p, "retNO")
      BY <3>1, <1>c, <1>e DEF WorkPCs
    <3>2. CASE pending' = [pending EXCEPT ![cur] = {m \in Children(cur) : Present(m)}]
      <4>1. cur' = cur /\ dst' = dst /\ Point = "dirList"
        BY <2>10 DEF DirList, fs, Point
      <4>2. CASE n = cur
        <5>1. IsDir(dst[cur]) \/ Excused(cur)
          BY <4>1 DEF Progress
        <5>2. Source[cur] = "dir"
          BY <1>a, <1>g, <4>1, <4>2 DEF Kinds, Source
        <5>3. QED
          BY <4>1, <4>2, <5>1, <5>2, <1>a, ExcusedStays DEF Settled, Right
      <4>3. CASE n # cur
        <5>1. PICK c \in Children(cur) : n \in Under(c)
          BY <1>a, <4>3, NextBelow
        <5>2. c \in Node /\ c \in Under(cur) /\ Source[c] # "none"
          BY <1>a, <5>1, ChildrenApart, SourceTree DEF Standing
        <5>3. c \in Under(Top(cur))
          BY <1>a, <5>2, TopOf, UnderOrder
        <5>4. src[c] = Source[c]
          BY <5>3 DEF SourceKept, CopyPCs
        <5>5. c \in pending'[cur]
          <6>1. Present(c)
            BY <5>2, <5>4 DEF Present, Source
          <6>2. QED
            BY <1>a, <3>2, <5>1, <6>1
        <5>6. QED
          BY <1>a, <4>1, <5>1, <5>5, UnderOrder DEF Due, Waiting
      <4>4. QED
        BY <4>2, <4>3
    <3>3. QED
      BY <2>10, <3>1, <3>2 DEF DirList
  <2>11. CASE DirNext
    BY <2>11 DEF DirNext
  <2>12. CASE DirEnd
    BY <2>12 DEF DirEnd
  <2>13. CASE CopyRegular
    BY <2>13, <1>b, <1>j DEF CopyRegular
  <2>14. CASE RegExists
    BY <2>14, <1>b, <1>c, <1>d, <1>e DEF RegExists, DropTarget
  <2>15. CASE RegCreate
    BY <2>15, <1>b, <1>c, <1>d, <1>e DEF RegCreate, Create
  <2>16. CASE RegOpen
    BY <2>16, <1>b, <1>c, <1>d, <1>e DEF RegOpen
  <2>17. CASE RegLoop
    <3>1. CASE Point' = "regSpin" /\ cur' = cur
      BY <3>1, <1>b DEF AtWork, RegPCs
    <3>2. CASE dst' = [dst EXCEPT ![cur] = IF trav THEN "deref" ELSE "orig"]
      <4>1. Kind[cur] = "regular" /\ ~trav
        BY <2>17, <1>g DEF RegLoop, Kinds, RegPCs, Point
      <4>2. n = cur
        BY <1>a, <4>1, SourceTree
      <4>3. Source[cur] = "orig" /\ dst'[cur] = "orig"
        BY <1>a, <3>2, <4>1, <4>2 DEF Source
      <4>4. QED
        BY <4>2, <4>3 DEF Settled, Right
    <3>3. QED
      BY <2>17, <3>1, <3>2 DEF RegLoop, Go, walk, Point
  <2>18. CASE RegSpinEnds
    BY <2>18 DEF RegSpinEnds
  <2>19. CASE RegAttrs
    BY <2>19 DEF RegAttrs
  <2>20. CASE DuplicateSymbolicLink
    BY <2>20, <1>b, <1>c, <1>d, <1>e DEF DuplicateSymbolicLink, FollowSolution
  <2>21. CASE CopySymbolicLink
    BY <2>21, <1>b, <1>c, <1>d, <1>e DEF CopySymbolicLink, FollowSolution
  <2>22. CASE SymlinkNoTarget
    BY <2>22, <1>b, <1>c, <1>d, <1>e DEF SymlinkNoTarget, FollowSolution
  <2>23. CASE NewLink
    BY <2>23, <1>b, <1>c, <1>d, <1>e DEF NewLink
  <2>24. CASE NewLinkExists
    BY <2>24, <1>b, <1>c, <1>d, <1>e DEF NewLinkExists, DropTarget
  <2>25. CASE NewLinkGo
    BY <2>25, <1>b, <1>c, <1>d, <1>e DEF NewLinkGo, Create
  <2>26. CASE Return
    BY <2>26 DEF Return
  <2>27. CASE Move
    BY <2>27 DEF Move
  <2>28. CASE MoveExists
    BY <2>28 DEF MoveExists, DropTarget
  <2>29. CASE MoveRename
    BY <2>29 DEF MoveRename
  <2>30. CASE MoveByCopy
    BY <2>30 DEF MoveByCopy
  <2>31. CASE CopyDone
    BY <2>31 DEF CopyDone
  <2>32. CASE MoveDelete
    BY <2>32 DEF MoveDelete
  <2>33. CASE Delete
    BY <2>33 DEF Delete
  <2>34. CASE DeleteEnd
    BY <2>34 DEF DeleteEnd
  <2>35. CASE Link
    BY <2>35 DEF Link
  <2>36. CASE LinkExists
    BY <2>36 DEF LinkExists, DropTarget
  <2>37. CASE LinkGo
    BY <2>37 DEF LinkGo, Create
  <2>38. CASE Answer
    BY <2>38, <1>b, <1>c, <1>d, <1>e DEF Answer
  <2>39. CASE AnswerStop
    BY <2>39, <1>b, <1>c, <1>d, <1>e DEF AnswerStop
  <2>40. CASE Interrupt
    BY <2>40, <1>b, <1>c, <1>d, <1>e DEF Interrupt
  <2>41. CASE Killed
    BY <2>41 DEF Killed
  <2>42. CASE Done
    BY <2>42, <1>b DEF Done, vars
  <2>43. CASE UNCHANGED vars
    BY <2>43, <1>b DEF vars
  <2>44. QED
    BY <2>1, <2>2, <2>3, <2>4, <2>5, <2>6, <2>7, <2>8, <2>9, <2>10, <2>11, <2>12, <2>13, <2>14,
       <2>15, <2>16, <2>17, <2>18, <2>19, <2>20, <2>21, <2>22, <2>23, <2>24, <2>25, <2>26, <2>27,
       <2>28, <2>29, <2>30, <2>31, <2>32, <2>33, <2>34, <2>35, <2>36, <2>37, <2>38, <2>39, <2>40,
       <2>41, <2>42, <2>43 DEF Next, ToolStep, CopyStep, MoveStep
<1>i. QED
  BY <1>g, <1>h

\* Whatever lies under the listed name is settled, or due, after each step.
LEMMA ProgressStep ==
  ASSUME "write" \notin Faults, WalkInv, SourceKept, OpenDirs, Kinds, Fresh, Progress, [Next]_vars
  PROVE  Progress'
<1> DEFINE Region == CopyPCs \union {"copyDone", "moveDelete"}
<1>a. /\ DataTypes /\ cur \in Node /\ dst \in [Node -> Object] /\ WalkInv' /\ op' = op /\ Places
      /\ Ends
      /\ pc \in PCs /\ cur' \in Node /\ isStopped \in BOOLEAN /\ op \in Operation
  BY ArgsStay, WalkStep DEF WalkInv, TypeOK, DataTypes, FlagTypes
<1>b. ASSUME Point' \in Region, ~isStopped' PROVE ~isStopped /\ ~cleaned'
  <2>1. Point' \in Working
    BY <1>b DEF Working
  <2>2. idx' > 0 /\ ~cleaned'
    BY <1>a, <1>b, <2>1 DEF WalkInv, Places, Ends
  <2>3. QED
    BY <1>b, <2>2, StopStays
<1>c. \A n \in Node : Right(n) /\ dst'[n] = dst[n] => Right(n)'
  BY DEF Right
<1>d. ~isStopped /\ Point \notin CopyPCs => \A n \in Node : ~Waiting(n)
  BY DEF OpenDirs, Waiting, Up
<1>1. ASSUME ~isStopped', Point' = "dirList" PROVE IsDir(dst'[cur']) \/ Excused(cur)'
  <2>1. ~isStopped
    BY <1>b, <1>1 DEF CopyPCs, AtWork
  <2>2. ~NextFile /\ ~MoveByCopy
    BY <1>a, <1>1 DEF NextFile, MoveByCopy, FirstStep, Go, Point, Operation
  <2>3. CASE CopyDirectory
    BY <2>3, <1>a, <1>1 DEF CopyDirectory, Create, Go, Ask, Point, walk, IsDir
  <2>4. CASE DirExists
    <3>1. Point = "dirExists" /\ cur' = cur
      BY <2>4 DEF DirExists, Point, walk
    <3>2. "FileExists" \in told[cur] /\ op # "Move"
      BY <2>1, <3>1 DEF WalkInv, Asked, ExistsPCs, Fresh, CopyPCs, AtWork
    <3>3. Excused(cur)
      BY <1>a, <3>2, UnderOrder DEF Excused, Excuses
    <3>4. Excused(cur)'
      <4>1. \A n \in Node : Excused(n) => Excused(n)'
        BY ExcusedStays
      <4>2. QED
        BY <1>a, <3>1, <3>3, <4>1 DEF Excused
    <3>5. QED
      BY <3>4
  <2>5. CASE Point = "dirList" /\ cur' = cur /\ dst' = dst
    <3>1. IsDir(dst[cur]) \/ Excused(cur)
      BY <2>1, <2>5 DEF Progress
    <3>2. \A n \in Node : Excused(n) => Excused(n)'
      BY ExcusedStays
    <3>3. QED
      BY <1>a, <2>5, <3>1, <3>2 DEF Excused
  <2>6. QED
    BY <1>1, <2>2, <2>3, <2>4, <2>5, Entries
<1>2. ASSUME ~isStopped', Point' \in Region, NEW n \in Under(Top(cur')), Source[n] # "none"
      PROVE  Settled(n)' \/ Due(n)'
  <2>a. ~isStopped /\ ~cleaned' /\ n \in Node
    BY <1>a, <1>b, <1>2, TopOf, UnderOrder
  <2>1. CASE NextFile
    <3>1. Point' = "copyFile"
      BY <2>1, <1>a, <1>2 DEF NextFile, FirstStep, Point, Operation, CopyPCs, AtWork, RegPCs,
         LinkNodePCs
    <3>2. Top(cur') = cur'
      <4>1. idx + 1 \in 1..Len(FileList) /\ cur' = FileList[idx + 1]
        BY <2>1, PathsInTree DEF NextFile, More, WalkInv, TypeOK, DataTypes
      <4>2. Len(cur') = 1
        BY <4>1, TreeAssumption
      <4>3. QED
        BY <1>a, <4>2, TopOf
    <3>3. QED
      BY <1>2, <3>1, <3>2 DEF Due, AtWork
  <2>2. CASE MoveByCopy
    <3>1. Point' = "copyFile" /\ cur' = cur /\ Point = "moveGo"
      BY <2>2, <2>a DEF MoveByCopy, Go, Point
    <3>2. Top(cur) = cur
      BY <1>a, <3>1, TopOf DEF Places, Working, CopyPCs, AtWork, RegPCs, LinkNodePCs, MovePCs
    <3>3. QED
      BY <1>2, <3>1, <3>2 DEF Due, AtWork
  <2>3. CASE ~NextFile /\ ~MoveByCopy
    <3>1. Point \in Region
      BY <1>2, <2>3, Entries
    <3>2. n \in Under(Top(cur))
      BY <1>2, <2>3, WalkMoves
    <3>3. Right(n) \/ Excused(n) \/ Due(n)
      BY <1>2, <2>a, <3>1, <3>2 DEF Progress, Settled
    <3>4. CASE Excused(n)
      BY <2>a, <3>4, ExcusedStays DEF Settled
    <3>5. CASE Point \in AtWork /\ n \in Under(cur)
      BY <1>2, <2>a, <3>5, Handled
    <3>6. CASE Waiting(n)
      BY <1>2, <2>a, <3>6, WaitingGoes
    <3>7. CASE Right(n) /\ ~(Point \in AtWork /\ n \in Under(cur))
      <4>1. CASE n \notin Under(cur)
        BY <1>c, <2>a, <3>7, <4>1, Local DEF Settled
      <4>2. CASE Point \notin AtWork
        <5>1. dst' = dst
          BY <2>a, <3>1, <4>2, FilesChange DEF FilesMove, fs, Point, CopyPCs, AtWork, RegPCs,
             LinkNodePCs,
             Finish, CopyDirectory, DirExists, RegExists, RegCreate, RegLoop, NewLinkExists,
             NewLinkGo,
             MoveExists, MoveRename, CopyDone, Delete, LinkExists, LinkGo
        <5>2. QED
          BY <1>c, <2>a, <3>7, <5>1 DEF Settled
      <4>3. QED
        BY <3>7, <4>1, <4>2
    <3>8. QED
      BY <3>3, <3>4, <3>5, <3>6, <3>7 DEF Due
  <2>4. QED
    BY <2>1, <2>2, <2>3
<1>3. ASSUME Point' = "delete", op' = "Move", NEW n \in Under(cur'), Source[n] # "none"
      PROVE  Settled(n)'
  <2>1. ~NextFile /\ ~MoveByCopy
    BY <1>a, <1>3 DEF NextFile, MoveByCopy, FirstStep, Go, Point, Operation
  <2>2. /\ cur' = cur /\ dst' = dst /\ n \in Node
        /\ Point = "delete" \/ (Point = "moveDelete" /\ ~isStopped)
    BY <1>a, <1>3, <2>1, Entries, UnderOrder
  <2>3. Settled(n)
    <3>1. CASE Point = "delete"
      BY <1>a, <1>3, <2>2, <3>1 DEF Progress
    <3>2. CASE Point = "moveDelete" /\ ~isStopped
      <4>1. Top(cur) = cur
        BY <1>a, <3>2, TopOf DEF Places, Working, CopyPCs, AtWork, RegPCs, LinkNodePCs
      <4>2. ~Due(n)
        BY <1>d, <2>2, <3>2 DEF Due, CopyPCs, AtWork, RegPCs, LinkNodePCs
      <4>3. QED
        BY <1>3, <2>2, <3>2, <4>1, <4>2 DEF Progress
    <3>3. QED
      BY <2>2, <3>1, <3>2
  <2>4. QED
    BY <1>c, <2>2, <2>3, ExcusedStays DEF Settled
<1>4. QED
  BY <1>1, <1>2, <1>3 DEF Progress

\* The invariant of the copy.
CarryInv == OpenDirs /\ Kinds /\ Fresh /\ Progress

\* It holds when the tool starts.
LEMMA CarryInit == Init => CarryInv
<1> SUFFICES ASSUME Init PROVE CarryInv
  OBVIOUS
<1>1. Point = "boot" /\ pending = [n \in Node |-> {}] /\ told = [n \in Node |-> {}]
  BY DEF Init, Point
<1>2. QED
  BY <1>1 DEF CarryInv, OpenDirs, Kinds, Fresh, Progress, CopyPCs, AtWork, RegPCs, LinkNodePCs,
     MovePCs

\* As long as every write() writes what it is given, an operation that is not stopped has
\* dealt with each path under a listed name, told the user why not, or has it still to
\* come, at every step of the walk through the directories: no answer, failure or open
\* alert makes CopyDirectory pass over a file.
THEOREM CarryInvariance == ASSUME "write" \notin Faults PROVE Spec => []CarryInv
<1>1. WalkInv /\ TouchInv /\ CarryInv /\ [Next]_vars => CarryInv'
  BY OpenDirsStep, KindsStep, FreshStep, ProgressStep DEF CarryInv, TouchInv
<1>2. QED
  BY <1>1, CarryInit, WalkInvariance, TouchInvariance, PTL DEF Spec

-----------------------------------------------------------------------------
(* Moving *)

\* For a move, being excused is what the property calls being told.
LEMMA ToldIsExcused == ASSUME op = "Move" PROVE \A n : ToldNotCopied(n) <=> Excused(n)
BY DEF ToldNotCopied, Excused, Excuses

\* A move deletes only what has arrived or is excused, and renames as a whole.
LEMMA MoveLossStep ==
  ASSUME WalkInv, TouchInv, Progress, MoveLosesNothingUntold, [Next]_vars
  PROVE  MoveLosesNothingUntold'
<1> SUFFICES ASSUME op' = "Move", NEW n \in Node, Lost(n)', ~(cleaned' /\ dst0'[Top(n)] # "none")
             PROVE  ToldNotCopied(n)'
  BY DEF MoveLosesNothingUntold
<1>a. /\ op = "Move" /\ op \in Operation /\ dst0' = dst0 /\ sameFS' = sameFS /\ sameFS \in BOOLEAN
      /\ cur \in Node /\ dst \in [Node -> Object] /\ src \in [Node -> Object] /\ WalkInv'
      /\ TouchInv'
      /\ Places /\ Ends /\ cleaned \in BOOLEAN /\ cleaned' \in BOOLEAN
  BY ArgsStay, WalkStep, UntouchedStep, SourceKeptStep, HereOrGoneStep
  DEF WalkInv, TouchInv, TypeOK, DataTypes, FlagTypes
<1>b. Excused(n) => ToldNotCopied(n)'
  <2>1. Excused(n) => Excused(n)'
    BY ExcusedStays
  <2>2. QED
    BY <1>a, <2>1 DEF ToldNotCopied, Excused, Excuses
<1>c. Source[n] = "orig" /\ src'[n] # "orig" /\ dst'[n] # "orig"
  BY DEF Lost
<1>1. CASE Lost(n)
  <2>1. ToldNotCopied(n) \/ (cleaned /\ dst0[Top(n)] # "none")
    BY <1>a, <1>1 DEF MoveLosesNothingUntold
  <2>2. QED
    BY <1>a, <1>b, <2>1, WalkMoves, ToldIsExcused
<1>2. CASE ~Lost(n)
  <2>a. src'[n] # src[n] \/ dst'[n] # dst[n]
    BY <1>2, <1>c DEF Lost
  <2>b. ~cleaned
    BY <2>a, WalkMoves DEF fs
  <2>1. CASE sameFS /\ ~cleaned'
    <3>1. CASE \E f \in Range(FileList) : n \in Under(f)
      <4>1. PICK f \in Range(FileList) : n \in Under(f)
        BY <3>1
      <4>2. Here(f)' \/ Gone(f)'
        BY <1>a, <2>1 DEF TouchInv, HereOrGone
      <4>3. QED
        BY <1>c, <4>1, <4>2 DEF Here, Gone
    <3>2. CASE ~ \E f \in Range(FileList) : n \in Under(f)
      <4>1. Top(n) \notin Range(FileList)
        BY <3>2, ListedNames
      <4>2. idx' \in 0..Len(FileList) /\ Len(FileList) \in Nat
        BY <1>a, PathsInTree DEF WalkInv, TypeOK, DataTypes
      <4>3. \A i \in 1..idx' : i \in DOMAIN FileList
        BY <4>2, TreeAssumption
      <4>4. ~Begun(n)'
        BY <4>1, <4>3 DEF Begun, Range
      <4>5. QED
        BY <1>a, <1>c, <2>1, <4>4 DEF TouchInv, Untouched
    <3>3. QED
      BY <3>1, <3>2
  <2>2. CASE cleaned'
    <3>1. Finish
      BY <2>2, <2>b, FilesChange DEF FilesMove, CopyDirectory, DirExists, RegExists, RegCreate,
         RegLoop,
         NewLinkExists, NewLinkGo, MoveExists, MoveRename, CopyDone, Delete, LinkExists, LinkGo, fin
    <3>2. MoveBackListed
      BY <1>a, <2>2, <3>1 DEF Finish, CleanUp
    <3>3. PICK back \in SUBSET {f \in Range(FileList) : sameFS /\ CanRename(dst, src, f)} :
            /\ src' = [m \in Node |-> IF \E f \in back : m \in Under(f) THEN dst[m] ELSE src[m]]
            /\ dst' = Without(dst, UNION {Under(f) : f \in back})
      BY <3>2 DEF MoveBackListed
    <3>4. CASE \E f \in back : n \in Under(f)
      <4>1. PICK f \in back : n \in Under(f)
        BY <3>4
      <4>2. f \in Range(FileList) /\ sameFS /\ dst[f] # "none" /\ f = Top(n)
        BY <4>1, ListedNames DEF CanRename
      <4>3. ~Here(f)
        BY <1>a, <2>2, <4>2, ListedNames, UnderOrder DEF Here
      <4>4. dst[n] = Source[n]
        BY <1>a, <2>b, <4>1, <4>2, <4>3 DEF TouchInv, HereOrGone, Gone
      <4>5. src'[n] = dst[n]
        BY <3>3, <4>1
      <4>6. QED
        BY <1>c, <4>4, <4>5
    <3>5. CASE ~ \E f \in back : n \in Under(f)
      BY <2>a, <3>3, <3>5 DEF Without
    <3>6. QED
      BY <3>4, <3>5
  <2>3. CASE ~sameFS /\ ~cleaned'
    <3>1. n \in Under(cur) /\ Point \in Working
      BY <2>a, <2>3, Local
    <3>2. CASE Point = "delete"
      <4>1. dst' = dst
        BY <3>2, FilesChange DEF FilesMove, fs, Point, Finish, CopyDirectory, DirExists, RegExists,
           RegCreate,
           RegLoop, NewLinkExists, NewLinkGo, MoveExists, MoveRename, CopyDone, Delete, LinkExists,
           LinkGo
      <4>2. Settled(n)
        BY <1>a, <1>c, <3>1, <3>2 DEF Progress
      <4>3. ~Right(n)
        BY <1>c, <4>1 DEF Right
      <4>4. QED
        BY <1>b, <4>2, <4>3 DEF Settled
    <3>3. CASE Point # "delete"
      <4>1. Point \in CopyPCs \union MovePCs \union {"copyDone", "moveDelete"}
        BY <1>a, <3>1, <3>3 DEF Places, Working, LinkPCs
      <4>2. src[n] = Source[n]
        BY <1>a, <3>1, <4>1, TopOf, UnderOrder DEF TouchInv, SourceKept
      <4>3. src' = src
        BY <2>3, <3>3, <4>1, FilesChange DEF FilesMove, fs, Point, CopyPCs, AtWork, RegPCs,
           LinkNodePCs, MovePCs,
           Finish, CopyDirectory, DirExists, RegExists, RegCreate, RegLoop, NewLinkExists,
           NewLinkGo, MoveExists,
           MoveRename, CopyDone, RemoveListed, Delete, LinkExists, LinkGo
      <4>4. QED
        BY <1>c, <4>2, <4>3
    <3>4. QED
      BY <3>2, <3>3
  <2>4. QED
    BY <1>a, <2>1, <2>2, <2>3
<1>3. QED
  BY <1>1, <1>2

\* As long as every write() writes what it is given, MoveOperation loses no file the user
\* was not told about, by rename or by copy and delete, wherever a stop falls and whatever
\* else fails; a cleanup may rename an older file back over one only where a target with
\* the listed name stood.
THEOREM MoveKeeps == ASSUME "write" \notin Faults PROVE Spec => []MoveLosesNothingUntold
<1>1. Init => MoveLosesNothingUntold
  BY DEF Init, MoveLosesNothingUntold, Lost
<1>2. WalkInv /\ TouchInv /\ CarryInv /\ MoveLosesNothingUntold /\ [Next]_vars => MoveLosesNothingUntold'
  BY MoveLossStep DEF CarryInv
<1>3. QED
  BY <1>1, <1>2, WalkInvariance, TouchInvariance, CarryInvariance, PTL DEF Spec

-----------------------------------------------------------------------------
(* Completing without an alert *)

\* An alert raised is not forgotten.
LEMMA LoudStays ==
  ASSUME WalkInv, [Next]_vars, Loud
  PROVE  Loud'
<1>1. PICK n \in Node : ~(told[n] \subseteq {"SymlinkEncountered"})
  BY DEF Loud
<1>2. told[n] \subseteq told'[n]
  BY ToldGrows DEF WalkInv, TypeOK
<1>3. QED
  BY <1>1, <1>2 DEF Loud

\* An alert about anything but a link is loud.
LEMMA AskIsLoud ==
  ASSUME WalkInv, NEW n \in Node, NEW p \in Problem, p # "SymlinkEncountered", NEW k, Ask(n, p, k)
  PROVE  Loud'
<1>1. told \in [Node -> SUBSET Problem]
  BY DEF WalkInv, TypeOK, DataTypes
<1>2. p \in told'[n]
  BY <1>1 DEF Ask
<1>3. QED
  BY <1>2 DEF Loud

\* CopyFile returns NO, and DeleteOperation passes over a path, only after an alert.
LEMMA HeardStep == WalkInv /\ Heard /\ [Next]_vars => Heard'
<1> SUFFICES ASSUME WalkInv, Heard, [Next]_vars, ~Loud'
             PROVE  Point' # "retNO" /\ opResult' /\ tried' = {}
  BY DEF Heard
<1>a. /\ ~Loud /\ cur \in Node /\ pc \in PCs /\ cont \in WorkPCs /\ op \in Operation
      /\ told \in [Node -> SUBSET Problem]
  BY LoudStays DEF WalkInv, TypeOK, DataTypes
<1>b. Point # "retNO" /\ opResult /\ tried = {}
  BY <1>a DEF Heard
<1>c. Point \notin ExistsPCs
  BY <1>a DEF WalkInv, Asked, Loud
<1>d. ASSUME NEW m \in Node, NEW p \in Problem, p # "SymlinkEncountered", NEW k, Ask(m, p, k)
      PROVE  FALSE
  BY <1>d, AskIsLoud
<1>e. {"ReadError", "WriteError", "DeleteError", "MoveError", "SymlinkTargetNotExist", "AttributesUnchangeable",
       "FileExists", "UnknownFile"} \subseteq Problem
  BY DEF Problem
<1> USE <1>a, <1>b, <1>c, <1>d, <1>e DEF Point, Operation, ExistsPCs, WorkPCs, PCs, Go, args, fs,
        comm, walk, fin
<1>1. CASE InstallHandler
  BY <1>1 DEF InstallHandler
<1>2. CASE Start
  BY <1>2 DEF Start
<1>3. CASE NextFile
  BY <1>3 DEF NextFile, FirstStep, More
<1>4. CASE EndOfFiles
  BY <1>4 DEF EndOfFiles
<1>5. CASE Finish
  BY <1>5 DEF Finish, CleanUp
<1>6. CASE Report
  BY <1>6 DEF Report
<1>7. CASE CopyFile
  BY <1>7 DEF CopyFile, Seen, Ask
<1>8. CASE CopyDirectory
  BY <1>8 DEF CopyDirectory, Create
<1>9. CASE DirExists
  BY <1>9 DEF DirExists, DropTarget
<1>10. CASE DirList
  BY <1>10 DEF DirList
<1>11. CASE DirNext
  BY <1>11 DEF DirNext
<1>12. CASE DirEnd
  BY <1>12 DEF DirEnd
<1>13. CASE CopyRegular
  BY <1>13 DEF CopyRegular
<1>14. CASE RegExists
  BY <1>14 DEF RegExists, DropTarget
<1>15. CASE RegCreate
  BY <1>15 DEF RegCreate, Create
<1>16. CASE RegOpen
  BY <1>16 DEF RegOpen
<1>17. CASE RegLoop
  BY <1>17 DEF RegLoop
<1>18. CASE RegSpinEnds
  BY <1>18 DEF RegSpinEnds
<1>19. CASE RegAttrs
  BY <1>19 DEF RegAttrs
<1>20. CASE DuplicateSymbolicLink
  BY <1>20 DEF DuplicateSymbolicLink, FollowSolution
<1>21. CASE CopySymbolicLink
  BY <1>21 DEF CopySymbolicLink, FollowSolution
<1>22. CASE SymlinkNoTarget
  BY <1>22 DEF SymlinkNoTarget, FollowSolution
<1>23. CASE NewLink
  BY <1>23 DEF NewLink
<1>24. CASE NewLinkExists
  BY <1>24 DEF NewLinkExists, DropTarget
<1>25. CASE NewLinkGo
  BY <1>25 DEF NewLinkGo, Create
<1>26. CASE Return
  BY <1>26 DEF Return
<1>27. CASE Move
  BY <1>27 DEF Move
<1>28. CASE MoveExists
  BY <1>28 DEF MoveExists, DropTarget
<1>29. CASE MoveRename
  BY <1>29 DEF MoveRename
<1>30. CASE MoveByCopy
  BY <1>30 DEF MoveByCopy
<1>31. CASE CopyDone
  BY <1>31 DEF CopyDone
<1>32. CASE MoveDelete
  BY <1>32 DEF MoveDelete
<1>33. CASE Delete
  BY <1>33, UnderOrder DEF Delete, Removable
<1>34. CASE DeleteEnd
  BY <1>34 DEF DeleteEnd
<1>35. CASE Link
  BY <1>35 DEF Link
<1>36. CASE LinkExists
  BY <1>36 DEF LinkExists, DropTarget
<1>37. CASE LinkGo
  BY <1>37 DEF LinkGo, Create
<1>38. CASE Answer
  BY <1>38 DEF Answer
<1>39. CASE AnswerStop
  BY <1>39 DEF AnswerStop
<1>40. CASE Interrupt
  BY <1>40 DEF Interrupt
<1>41. CASE Killed
  BY <1>41 DEF Killed
<1>42. CASE Done
  BY <1>42 DEF Done, vars
<1>43. CASE UNCHANGED vars
  BY <1>43 DEF vars
<1>44. QED
  BY <1>1, <1>2, <1>3, <1>4, <1>5, <1>6, <1>7, <1>8, <1>9, <1>10, <1>11, <1>12, <1>13, <1>14,
     <1>15, <1>16, <1>17, <1>18, <1>19, <1>20, <1>21, <1>22, <1>23, <1>24, <1>25, <1>26, <1>27,
     <1>28, <1>29, <1>30, <1>31, <1>32, <1>33, <1>34, <1>35, <1>36, <1>37, <1>38, <1>39, <1>40,
     <1>41, <1>42, <1>43 DEF Next, ToolStep, CopyStep, MoveStep

\* Without a loud alert, what is not a link is settled only by being right.
LEMMA QuietRight ==
  ASSUME Kinds, ~Loud, NEW n \in Node, told[n] = {}, Source[n] # "none", Settled(n)
  PROVE  Right(n)
<1>1. SUFFICES ASSUME Excused(n) PROVE FALSE
  BY DEF Settled
<1>2. PICK m \in Up(n) : told[m] \intersect Excuses # {}
  BY <1>1 DEF Excused
<1>3. m \in Node /\ n \in Under(m)
  BY <1>2 DEF Up
<1>4. "SymlinkEncountered" \in told[m]
  BY <1>2, <1>3 DEF Loud
<1>5. Kind[m] = "link" /\ n # m
  BY <1>3, <1>4 DEF Kinds
<1>6. Kind[m] = "dir"
  BY <1>3, <1>5, SourceTree
<1>7. QED
  BY <1>5, <1>6

\* removeFileAtPath:handler: ends with nothing left, if it passed over nothing.
LEMMA NothingLeft ==
  ASSUME cur \in Node, Removable = {}, tried = {}
  PROVE  \A n \in Under(cur) : src[n] = "none"
<1>0. \A m \in Node : Len(m) \in Nat
  BY TreeAssumption
<1>1. PICK top \in Node : \A m \in Node : Len(m) <= Len(top)
  BY DepthAssumption
<1> DEFINE Left == {n \in Under(cur) : src[n] # "none"}
           Depths == {Len(top) - Len(n) : n \in Left}
<1>2. SUFFICES ASSUME Left # {} PROVE FALSE
  OBVIOUS
<1>3. Left \subseteq Node
  BY UnderOrder
<1>4. Depths \in SUBSET Nat /\ Depths # {}
  <2> HIDE DEF Left
  <2>1. \A n \in Left : Len(top) - Len(n) \in Nat
    BY <1>0, <1>1, <1>3
  <2>2. QED
    BY <1>2, <2>1
<1>5. PICK k \in Depths : \A j \in Depths : k <= j
  <2> HIDE DEF Depths
  <2>1. QED
    BY <1>4, LeastNumber
<1>6. PICK n \in Left : k = Len(top) - Len(n)
  OBVIOUS
<1>7. n \in Node /\ n \in Under(cur) /\ src[n] # "none"
  BY <1>3
<1>8. ASSUME NEW m \in Under(n), m # n PROVE src[m] = "none"
  <2>1. m \in Node /\ m \in Under(cur)
    BY <1>7, UnderOrder
  <2>2. Len(n) < Len(m)
    <3>1. Len(n) <= Len(m)
      BY <1>7, <2>1, UnderIsPrefix
    <3>2. Len(n) # Len(m)
      <4>1. SUFFICES ASSUME Len(n) = Len(m) PROVE FALSE
        OBVIOUS
      <4>2. n \in Under(m)
        BY <1>0, <1>7, <1>8, <2>1, <4>1, UnderIsPrefix
      <4>3. QED
        BY <1>7, <1>8, <2>1, <4>2, UnderOrder
    <3>3. QED
      BY <1>0, <1>7, <2>1, <3>1, <3>2
  <2>3. SUFFICES ASSUME m \in Left PROVE FALSE
    BY <2>1
  <2>4. Len(top) - Len(m) \in Depths
    BY <2>3
  <2>5. k <= Len(top) - Len(m)
    BY <1>5, <2>4
  <2>6. QED
    BY <1>0, <1>6, <1>7, <2>1, <2>2, <2>5
<1>9. n \in Removable
  BY <1>7, <1>8 DEF Removable
<1>10. QED
  BY <1>9

\* A listed name is left when the operation was carried out on it.
LEMMA DoneWith ==
  ASSUME WalkInv, TouchInv, CarryInv, Heard, [Next]_vars, ~isStopped, ~isStopped', ~Loud',
         Point \in Working, Point' \notin Working, NEW f, f = Top(cur)
  PROVE  Carried(f)'
<1>a. /\ ~Loud /\ cur \in Node /\ pc \in PCs /\ cont \in WorkPCs /\ op \in Operation
      /\ dst \in [Node -> Object]
      /\ src \in [Node -> Object] /\ told \in [Node -> SUBSET Problem]
  BY LoudStays DEF WalkInv, TypeOK, DataTypes
<1>b. Point # "retNO" /\ opResult /\ tried = {}
  BY <1>a DEF Heard
<1>c. Point \notin ExistsPCs
  BY <1>a DEF WalkInv, Asked, Loud
<1>d. ASSUME NEW m \in Node, NEW p \in Problem, p # "SymlinkEncountered", NEW k, Ask(m, p, k)
      PROVE  FALSE
  BY <1>d, AskIsLoud
<1>e. {"ReadError", "WriteError", "DeleteError", "MoveError", "SymlinkTargetNotExist", "AttributesUnchangeable",
       "FileExists", "UnknownFile"} \subseteq Problem
  BY DEF Problem
<1>f. f \in Node /\ Under(f) \subseteq Node
  BY <1>a, TopOf, UnderOrder
<1>g. op' = op
  BY ArgsStay
<1> USE <1>a, <1>b, <1>c, <1>d, <1>e DEF Point, Operation, Working, CopyPCs, AtWork, RegPCs,
        LinkNodePCs, MovePCs, LinkPCs, ExistsPCs, WorkPCs, PCs, Go, args, fs, comm, walk, fin
<1>1. CASE InstallHandler
  BY <1>1 DEF InstallHandler
<1>2. CASE Start
  BY <1>2 DEF Start
<1>3. CASE NextFile
  BY <1>3 DEF NextFile, FirstStep, More
<1>4. CASE EndOfFiles
  BY <1>4 DEF EndOfFiles
<1>5. CASE Finish
  BY <1>5 DEF Finish, CleanUp
<1>6. CASE Report
  BY <1>6 DEF Report
<1>7. CASE CopyFile
  BY <1>7 DEF CopyFile, Seen, Ask
<1>8. CASE CopyDirectory
  BY <1>8 DEF CopyDirectory, Create
<1>9. CASE DirExists
  BY <1>9 DEF DirExists, DropTarget
<1>10. CASE DirList
  BY <1>10 DEF DirList
<1>11. CASE DirNext
  BY <1>11 DEF DirNext
<1>12. CASE DirEnd
  BY <1>12 DEF DirEnd
<1>13. CASE CopyRegular
  BY <1>13 DEF CopyRegular
<1>14. CASE RegExists
  BY <1>14 DEF RegExists, DropTarget
<1>15. CASE RegCreate
  BY <1>15 DEF RegCreate, Create
<1>16. CASE RegOpen
  BY <1>16 DEF RegOpen
<1>17. CASE RegLoop
  BY <1>17 DEF RegLoop
<1>18. CASE RegSpinEnds
  BY <1>18 DEF RegSpinEnds
<1>19. CASE RegAttrs
  BY <1>19 DEF RegAttrs
<1>20. CASE DuplicateSymbolicLink
  BY <1>20 DEF DuplicateSymbolicLink, FollowSolution
<1>21. CASE CopySymbolicLink
  BY <1>21 DEF CopySymbolicLink, FollowSolution
<1>22. CASE SymlinkNoTarget
  BY <1>22 DEF SymlinkNoTarget, FollowSolution
<1>23. CASE NewLink
  BY <1>23 DEF NewLink
<1>24. CASE NewLinkExists
  BY <1>24 DEF NewLinkExists, DropTarget
<1>25. CASE NewLinkGo
  BY <1>25 DEF NewLinkGo, Create
<1>26. CASE Return
  <2>1. /\ Point = "retYES" /\ told' = told /\ dst' = dst /\ src' = src
        /\ op \in {"Copy", "Duplicate"}
        /\ Len(cur) = 1
    <3>1. ~(Len(cur) > 1) /\ pc = "retYES" /\ op # "Move"
      BY <1>26 DEF Return
    <3>2. op \in {"Copy", "Duplicate"}
      BY <3>1 DEF WalkInv, Places
    <3>3. QED
      BY <1>26, <3>1, <3>2, NodeLength DEF Return
  <2>2. \A n \in Node : ~Waiting(n)
    <3>1. \A d \in Up(cur) : pending[d] = {}
      BY <2>1, TopAlone DEF CarryInv, OpenDirs, Up
    <3>2. QED
      BY <3>1 DEF Waiting
  <2>3. \A n \in Under(f) : Source[n] # "none" => Settled(n)
    BY <1>f, <2>1, <2>2 DEF CarryInv, Progress, Due
  <2>4. \A n \in Under(f) : told[n] = {} /\ Source[n] # "none" => Right(n)
    BY <1>f, <2>3, QuietRight DEF CarryInv
  <2>5. src = Source
    BY <2>1 DEF TouchInv, SourceKept
  <2>6. QED
    BY <1>g, <2>1, <2>4, <2>5 DEF Carried, Right
<1>27. CASE Move
  BY <1>27 DEF Move
<1>28. CASE MoveExists
  BY <1>28 DEF MoveExists, DropTarget
<1>29. CASE MoveRename
  <2>1. /\ dst' = [m \in Node |-> IF m \in Under(cur) THEN src[m] ELSE dst[m]]
        /\ src' = Without(src, Under(cur)) /\ sameFS
    BY <1>29 DEF MoveRename
  <2>2. op = "Move" /\ Len(cur) = 1 /\ Here(cur)
    BY <1>29 DEF WalkInv, Places, Ends, MoveRename, TouchInv, HereOrGone
  <2>3. f = cur
    BY <1>f, <2>2, TopOf
  <2>4. \A n \in Under(cur) : n \in Node /\ dst'[n] = Source[n] /\ src'[n] = "none"
    BY <1>f, <2>1, <2>2, <2>3 DEF Here, Without
  <2>5. QED
    BY <1>g, <2>2, <2>3, <2>4 DEF Carried, Right
<1>30. CASE MoveByCopy
  BY <1>30 DEF MoveByCopy
<1>31. CASE CopyDone
  BY <1>31 DEF CopyDone
<1>32. CASE MoveDelete
  BY <1>32 DEF MoveDelete
<1>33. CASE Delete
  BY <1>33, UnderOrder DEF Delete, Removable
<1>34. CASE DeleteEnd
  <2>1. /\ told' = told /\ dst' = dst /\ src' = src /\ Removable = {} /\ Point = "delete"
    BY <1>34 DEF DeleteEnd
  <2>2. Len(cur) = 1 /\ op \in {"Delete", "Move"}
    BY <2>1 DEF WalkInv, Places
  <2>3. f = cur
    BY <1>f, <2>2, TopOf
  <2>4. \A n \in Under(f) : src[n] = "none"
    BY <2>1, <2>3, NothingLeft
  <2>5. \A n \in Under(f) : op = "Move" /\ told[n] = {} /\ Source[n] # "none" => Right(n)
    BY <1>f, <2>1, <2>3, QuietRight DEF CarryInv, Progress
  <2>6. QED
    BY <1>g, <2>1, <2>2, <2>4, <2>5 DEF Carried, Right
<1>35. CASE Link
  BY <1>35 DEF Link
<1>36. CASE LinkExists
  BY <1>36 DEF LinkExists, DropTarget
<1>37. CASE LinkGo
  <2>1. dst' = [dst EXCEPT ![cur] = "symlink"] /\ src' = src
    BY <1>37 DEF LinkGo, Create
  <2>2. op = "Link" /\ Len(cur) = 1
    BY <1>37 DEF LinkGo, WalkInv, Places
  <2>3. f = cur
    BY <1>f, <2>2, TopOf
  <2>4. \A n \in Under(f) : Len(n) = 1 => n = cur
    BY <1>f, <2>2, <2>3, TopOf
  <2>5. src = Source
    BY <2>2 DEF TouchInv, SourceKept
  <2>6. QED
    BY <1>g, <2>1, <2>2, <2>4, <2>5 DEF Carried
<1>38. CASE Answer
  BY <1>38 DEF Answer
<1>39. CASE AnswerStop
  BY <1>39 DEF AnswerStop
<1>40. CASE Interrupt
  BY <1>40 DEF Interrupt
<1>41. CASE Killed
  BY <1>41 DEF Killed
<1>42. CASE Done
  BY <1>42 DEF Done, vars
<1>43. CASE UNCHANGED vars
  BY <1>43 DEF vars
<1>44. QED
  BY <1>1, <1>2, <1>3, <1>4, <1>5, <1>6, <1>7, <1>8, <1>9, <1>10, <1>11, <1>12, <1>13, <1>14,
     <1>15, <1>16, <1>17, <1>18, <1>19, <1>20, <1>21, <1>22, <1>23, <1>24, <1>25, <1>26, <1>27,
     <1>28, <1>29, <1>30, <1>31, <1>32, <1>33, <1>34, <1>35, <1>36, <1>37, <1>38, <1>39, <1>40,
     <1>41, <1>42, <1>43 DEF Next, ToolStep, CopyStep, MoveStep

\* The loop over the list ends at its end, or after a stop or a failure.
LEMMA ListEnds ==
  ASSUME WalkInv, Heard, [Next]_vars, ~isStopped', ~Loud',
         Point' \in {"tail", "report"} \/ result' = "0"
  PROVE  /\ ~NextFile
         /\ idx' = Len(FileList) \/ Point \in {"tail", "report"} \/ result = "0"
<1>a. /\ ~Loud /\ pc \in PCs /\ cont \in WorkPCs /\ op \in Operation /\ idx \in 0..Len(FileList)
      /\ Len(FileList) \in Nat
      /\ Ends /\ isStopped \in BOOLEAN
  BY LoudStays, PathsInTree DEF WalkInv, TypeOK, DataTypes, FlagTypes
<1>b. opResult
  BY <1>a DEF Heard
<1>c. ~NextFile
  BY <1>a DEF NextFile, FirstStep, Point, Operation, Ends, fin
<1> USE <1>a, <1>b, <1>c DEF Ends, Point, Operation, Working, CopyPCs, AtWork, RegPCs, LinkNodePCs,
        MovePCs, LinkPCs, WorkPCs, PCs, Go, args, fs, comm, walk, fin
<1>1. CASE InstallHandler
  BY <1>1 DEF InstallHandler
<1>2. CASE Start
  BY <1>2 DEF Start
<1>3. CASE NextFile
  BY <1>3 DEF NextFile, FirstStep, More
<1>4. CASE EndOfFiles
  BY <1>4 DEF EndOfFiles, More
<1>5. CASE Finish
  BY <1>5 DEF Finish, CleanUp
<1>6. CASE Report
  BY <1>6 DEF Report
<1>7. CASE CopyFile
  BY <1>7 DEF CopyFile, Ask, Seen
<1>8. CASE CopyDirectory
  BY <1>8 DEF CopyDirectory, Ask, Create
<1>9. CASE DirExists
  BY <1>9 DEF DirExists, DropTarget, Ask
<1>10. CASE DirList
  BY <1>10 DEF DirList, Ask
<1>11. CASE DirNext
  BY <1>11 DEF DirNext
<1>12. CASE DirEnd
  BY <1>12 DEF DirEnd, Ask
<1>13. CASE CopyRegular
  BY <1>13 DEF CopyRegular, Ask
<1>14. CASE RegExists
  BY <1>14 DEF RegExists, DropTarget, Ask
<1>15. CASE RegCreate
  BY <1>15 DEF RegCreate, Create, Ask
<1>16. CASE RegOpen
  BY <1>16 DEF RegOpen, Ask
<1>17. CASE RegLoop
  BY <1>17 DEF RegLoop
<1>18. CASE RegSpinEnds
  BY <1>18 DEF RegSpinEnds
<1>19. CASE RegAttrs
  BY <1>19 DEF RegAttrs, Ask
<1>20. CASE DuplicateSymbolicLink
  BY <1>20 DEF DuplicateSymbolicLink, Ask, FollowSolution
<1>21. CASE CopySymbolicLink
  BY <1>21 DEF CopySymbolicLink, Ask, FollowSolution
<1>22. CASE SymlinkNoTarget
  BY <1>22 DEF SymlinkNoTarget, FollowSolution
<1>23. CASE NewLink
  BY <1>23 DEF NewLink, Ask
<1>24. CASE NewLinkExists
  BY <1>24 DEF NewLinkExists, DropTarget, Ask
<1>25. CASE NewLinkGo
  BY <1>25 DEF NewLinkGo, Create, Ask
<1>26. CASE Return
  BY <1>26 DEF Return
<1>27. CASE Move
  BY <1>27 DEF Move, Ask
<1>28. CASE MoveExists
  BY <1>28 DEF MoveExists, DropTarget, Ask
<1>29. CASE MoveRename
  BY <1>29 DEF MoveRename, Ask
<1>30. CASE MoveByCopy
  BY <1>30 DEF MoveByCopy
<1>31. CASE CopyDone
  BY <1>31 DEF CopyDone
<1>32. CASE MoveDelete
  BY <1>32 DEF MoveDelete
<1>33. CASE Delete
  BY <1>33 DEF Delete, Ask
<1>34. CASE DeleteEnd
  BY <1>34 DEF DeleteEnd
<1>35. CASE Link
  BY <1>35 DEF Link, Ask
<1>36. CASE LinkExists
  BY <1>36 DEF LinkExists, DropTarget, Ask
<1>37. CASE LinkGo
  BY <1>37 DEF LinkGo, Create, Ask
<1>38. CASE Answer
  BY <1>38 DEF Answer
<1>39. CASE AnswerStop
  BY <1>39 DEF AnswerStop
<1>40. CASE Interrupt
  BY <1>40 DEF Interrupt
<1>41. CASE Killed
  BY <1>41 DEF Killed
<1>42. CASE Done
  BY <1>42 DEF Done, vars
<1>43. CASE UNCHANGED vars
  BY <1>43 DEF vars
<1>44. QED
  BY <1>1, <1>2, <1>3, <1>4, <1>5, <1>6, <1>7, <1>8, <1>9, <1>10, <1>11, <1>12, <1>13, <1>14,
     <1>15, <1>16, <1>17, <1>18, <1>19, <1>20, <1>21, <1>22, <1>23, <1>24, <1>25, <1>26, <1>27,
     <1>28, <1>29, <1>30, <1>31, <1>32, <1>33, <1>34, <1>35, <1>36, <1>37, <1>38, <1>39, <1>40,
     <1>41, <1>42, <1>43 DEF Next, ToolStep, CopyStep, MoveStep

\* Without a loud alert each listed name is carried over in its turn.
LEMMA SilentStep ==
  ASSUME WalkInv, TouchInv, CarryInv, Heard, Silent, [Next]_vars
  PROVE  Silent'
<1> SUFFICES ASSUME ~isStopped', ~Loud'
             PROVE  /\ \A i \in 1..idx' : (i = idx' /\ Point' \in Working) \/ Carried(FileList[i])'
                    /\ Point' \in {"tail", "report"} \/ result' = "0" => idx' = Len(FileList)
  BY DEF Silent
<1>a. /\ ~Loud /\ op' = op /\ op \in Operation /\ idx \in 0..Len(FileList)
      /\ Len(FileList) \in Nat /\ WalkInv'
      /\ Places /\ cur \in Node
  BY LoudStays, ArgsStay, PathsInTree, WalkStep DEF WalkInv, TypeOK, DataTypes
<1>b. ~cleaned'
  BY <1>a DEF WalkInv, Ends
<1>c. idx' = idx \/ idx' = idx + 1
  BY WalkMoves DEF NextFile
<1>1. ASSUME NEW i \in 1..idx' PROVE (i = idx' /\ Point' \in Working) \/ Carried(FileList[i])'
  <2>a. ~isStopped
    <3>1. idx' > 0
      BY <1>a, <1>c, <1>1
    <3>2. QED
      BY <3>1, StopStays
  <2>b. i \in 1..Len(FileList)
    <3>1. idx' \in 0..Len(FileList)
      BY <1>a DEF WalkInv, TypeOK, DataTypes
    <3>2. QED
      BY <1>a, <1>1, <3>1
  <2>c. FileList[i] \in Range(FileList)
    BY <2>b, TreeAssumption DEF Range
  <2>d. ASSUME Carried(FileList[i]), \A n \in Under(FileList[i]) : src'[n] = src[n] /\ dst'[n] = dst[n] /\ told'[n] = told[n]
        PROVE  Carried(FileList[i])'
    BY <1>a, <2>d DEF Carried, Right
  <2>1. CASE NextFile
    <3>1. Point = "next" /\ src' = src /\ dst' = dst /\ told' = told /\ idx' = idx + 1 /\ Point' = FirstStep[op]
      BY <2>1, <1>a DEF NextFile, Point, fs, FirstStep, Operation
    <3>2. Point' \in Working /\ Point \notin Working
      BY <1>a, <3>1 DEF FirstStep, Operation, Working, CopyPCs, AtWork, RegPCs, LinkNodePCs,
         MovePCs, LinkPCs
    <3>3. CASE i = idx'
      BY <3>2, <3>3
    <3>4. CASE i # idx'
      <4>1. i \in 1..idx
        BY <1>a, <1>1, <3>1, <3>4
      <4>2. QED
        BY <1>a, <2>a, <2>d, <3>1, <3>2, <4>1 DEF Silent
    <3>5. QED
      BY <3>3, <3>4
  <2>2. CASE ~NextFile
    <3>1. idx' = idx
      BY <2>2, WalkMoves
    <3>2. CASE i = idx /\ Point \in Working
      <4>1. FileList[i] = Top(cur)
        BY <1>a, <3>2 DEF Places
      <4>2. QED
        BY <2>a, <3>1, <3>2, <4>1, DoneWith
    <3>3. CASE ~(i = idx /\ Point \in Working)
      <4>1. Carried(FileList[i])
        BY <1>a, <1>1, <2>a, <3>1, <3>3 DEF Silent
      <4>2. FileList[i] # Top(cur) \/ Point \notin Working
        <5>1. SUFFICES ASSUME Point \in Working PROVE FileList[i] # FileList[idx]
          BY <1>a DEF Places
        <5>2. i # idx /\ idx \in 1..Len(FileList)
          BY <1>a, <3>3, <5>1 DEF Places
        <5>3. QED
          BY <2>b, <5>2, ListAssumption
      <4>3. \A n \in Under(FileList[i]) : src'[n] = src[n] /\ dst'[n] = dst[n] /\ told'[n] = told[n]
        BY <1>b, <2>c, <4>2, ListedNames, OthersAlone
      <4>4. QED
        BY <2>d, <4>1, <4>3
    <3>4. QED
      BY <3>2, <3>3
  <2>3. QED
    BY <2>1, <2>2
<1>2. ASSUME Point' \in {"tail", "report"} \/ result' = "0" PROVE idx' = Len(FileList)
  <2>1. ~NextFile /\ (idx' = Len(FileList) \/ Point \in {"tail", "report"} \/ result = "0")
    BY <1>2, ListEnds
  <2>2. CASE Point \in {"tail", "report"} \/ result = "0"
    <3>1. idx' = idx
      BY <2>1, WalkMoves
    <3>2. ~isStopped
      <4>1. CASE result = "0"
        BY <4>1 DEF WalkInv, Ends
      <4>2. CASE Point \in {"tail", "report"}
        <5>1. ~Start
          BY <4>2 DEF Start, Point
        <5>2. QED
          BY <5>1, StopKept
      <4>3. QED
        BY <2>2, <4>1, <4>2
    <3>3. QED
      BY <1>a, <2>2, <3>1, <3>2 DEF Silent
  <2>3. QED
    BY <2>1, <2>2
<1>3. QED
  BY <1>1, <1>2

\* "Completed" without an alert about anything but links means completed: if every write()
\* writes what it is given, the five operations have done to each listed file, and to what
\* lies under it, what they are for, and only Move and Delete have touched the source.
THEOREM SilentIsComplete == ASSUME "write" \notin Faults PROVE Spec => []SilentCompletion
<1>1. Init => Heard /\ Silent
  <2> SUFFICES ASSUME Init PROVE Heard /\ Silent
    OBVIOUS
  <2>1. Point = "boot" /\ opResult /\ tried = {} /\ idx = 0 /\ result = "none"
    BY DEF Init, Point
  <2>2. QED
    BY <2>1 DEF Heard, Silent
<1>2. WalkInv /\ TouchInv /\ CarryInv /\ Heard /\ Silent /\ [Next]_vars => (Heard /\ Silent)'
  BY HeardStep, SilentStep
<1>3. WalkInv /\ Silent => SilentCompletion
  <2> SUFFICES ASSUME WalkInv, Silent, result = "0", ~Loud, NEW n \in Listed, told[n] = {}
               PROVE  /\ op \in {"Copy", "Duplicate", "Move"} /\ Source[n] # "none" => Right(n)
                      /\ op = "Link" /\ Len(n) = 1 => dst[n] = "symlink"
                      /\ src[n] = IF op \in {"Move", "Delete"} THEN "none" ELSE Source[n]
    BY DEF SilentCompletion, Loud, Right
  <2>1. ~isStopped /\ Point = "exit"
    BY DEF WalkInv, Ends, Point
  <2>2. PICK f \in Range(FileList) : n \in Under(f)
    BY DEF Listed
  <2>3. PICK i \in 1..Len(FileList) : FileList[i] = f
    <3>1. DOMAIN FileList = 1..Len(FileList)
      BY TreeAssumption
    <3>2. QED
      BY <2>2, <3>1 DEF Range
  <2>4. Carried(f)
    BY <2>1, <2>3 DEF Silent, Working, CopyPCs, AtWork, RegPCs, LinkNodePCs, MovePCs, LinkPCs
  <2>5. QED
    BY <2>2, <2>4 DEF Carried
<1>4. QED
  BY <1>1, <1>2, <1>3, WalkInvariance, TouchInvariance, CarryInvariance, PTL DEF Spec
===============================================================================
